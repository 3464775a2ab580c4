----------------------------- MODULE ModbusCodec -----------------------------
(***************************************************************************)
(* mnsx::achilles::ModbusCodec (include/protocol/modbus/ModbusCodec.h).    *)
(*                                                                         *)
(* A header is MBAP_LEN cells: the last three are the protocol id, the     *)
(* length and the unit id, those before hold the transaction id.           *)
(***************************************************************************)
EXTENDS Buffer

CONSTANTS
  MBAP_LEN,         \* 7
  MODBUS_WORD      \* 2^16: the length is a uint16_t

ASSUME MbapAssumption ==
  MBAP_LEN \in Nat /\ MBAP_LEN >= 4 /\ MODBUS_WORD \in Nat \ {0}

(* The length counts the unit id and the pdu.                              *)
MbapHeader(trans, unit, pdu) ==
  [i \in 1..MBAP_LEN |-> CASE i = MBAP_LEN - 2 -> 0
                           [] i = MBAP_LEN - 1 -> (Len(pdu) + 1) % MODBUS_WORD
                           [] i = MBAP_LEN -> unit
                           [] OTHER -> trans]

ModbusEncode(trans, unit, pdu, b) ==
  Appended(Appended(b, MbapHeader(trans, unit, pdu)), pdu)

(* decode() into out_frame: the whole frame, or nothing yet, or nothing    *)
(* and everything that waits is dropped.                                   *)
ModbusDecode(b, out_frame) ==
  LET head   == Content(b)
      total  == head[MBAP_LEN - 1] + MBAP_LEN - 1
      header == Readable(b) >= MBAP_LEN
      proto  == head[MBAP_LEN - 2]
  IN  CASE ~ header ->
             [ok |-> FALSE, buf |-> b, msg |-> out_frame]
        [] header /\ proto # 0 ->
             [ok |-> FALSE, buf |-> Cleared(b), msg |-> out_frame]
        [] header /\ proto = 0 /\ Readable(b) < total ->
             [ok |-> FALSE, buf |-> b, msg |-> out_frame]
        [] header /\ proto = 0 /\ Readable(b) >= total ->
             [ok  |-> TRUE, buf |-> Retrieved(b, total),
              msg |-> SubSeq(head, 1, total)]
=============================================================================
