------------------------------ MODULE RpcCodec ------------------------------
(***************************************************************************)
(* mnsx::achilles::RpcCodec (include/protocol/rpc/RpcCodec.h) on the       *)
(* buffers of ByteBuffer.                                                  *)
(*                                                                         *)
(* A header is HEADER_LEN cells: the first is the magic number, the last   *)
(* is body_len, the others hold version, type and request id, which nobody *)
(* looks at while framing and which are one value, meta. Cells are         *)
(* numbers, and so are the bytes of a body: a body may look like a header. *)
(***************************************************************************)
EXTENDS Buffer

CONSTANTS
  HEADER_LEN,       \* 16
  Magic,            \* "MX"
  RPC_WORD          \* 2^32: body_len is a uint32_t

ASSUME RpcHeaderAssumption ==
  /\ HEADER_LEN \in Nat /\ HEADER_LEN >= 3 /\ HEADER_LEN <= PREPEND
  /\ RPC_WORD \in Nat \ {0} /\ Magic \in Bytes

RpcHeader(m) ==
  [i \in 1..HEADER_LEN |-> CASE i = 1 -> Magic
                             [] i = HEADER_LEN -> Len(m.body) % RPC_WORD
                             [] OTHER -> m.meta]

(* encode(): the body first, the header into the room in front of it.      *)
RpcEncode(m, b) ==
  Prepended(IF m.body = << >> THEN b ELSE Appended(b, m.body), RpcHeader(m))

WholeBesideHeader(b, len) == Readable(b) >= len

(* The test for a half packet, with the width body_len + HEADER_LEN has.   *)
Whole(b, len) == Readable(b) >= (len + HEADER_LEN) % RPC_WORD

(* decode() into msg, which keeps what decode() does not overwrite: the    *)
(* body of a message without one. If the sum above has wrapped, there is   *)
(* not enough for retrieveAsString(), which then returns "".               *)
RpcDecode(b, msg) ==
  LET head   == Content(b)
      len    == head[HEADER_LEN]
      header == Readable(b) >= HEADER_LEN
      magic  == head[1] = Magic
      rest   == Retrieved(b, HEADER_LEN)
      body   == IF len > Readable(rest) THEN << >>
                ELSE SubSeq(Content(rest), 1, len)
  IN  CASE ~ header ->
             [ok |-> FALSE, buf |-> b, msg |-> msg]
        [] header /\ ~ magic ->
             [ok |-> FALSE, buf |-> Cleared(b), msg |-> msg]
        [] header /\ magic /\ ~ Whole(b, len) ->
             [ok |-> FALSE, buf |-> b, msg |-> [msg EXCEPT !.body_len = len]]
        [] header /\ magic /\ Whole(b, len) ->
             [ok  |-> TRUE, buf |-> Retrieved(rest, len),
              msg |-> [meta     |-> head[2],
                       body_len |-> len,
                       body     |-> IF len > 0 THEN body ELSE msg.body]]
=============================================================================
