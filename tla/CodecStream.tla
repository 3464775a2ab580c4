----------------------------- MODULE CodecStream -----------------------------
(***************************************************************************)
(* A codec at work, as examples/BasicUsage.cpp uses it: one side encodes   *)
(* each message into a buffer of its own and sends the bytes (over HTTP, a *)
(* browser sends requests of its own making); the other side's             *)
(* handleRead() reads them in pieces of any size into the connection's     *)
(* input buffer and invokes the user's callback, which decodes until       *)
(* decode() returns false.                                                 *)
(*                                                                         *)
(* The connection between them is the ordered stream that TcpConnection is *)
(* shown to implement (GracefulStream).                                    *)
(*                                                                         *)
(* With FreshMessage the callback declares the message it decodes into     *)
(* inside its loop, without it before the loop, as BasicUsage.cpp:44 does. *)
(*                                                                         *)
(* Bounds: MaxSent messages; the sender waits while more than MaxInFlight  *)
(* bytes are on their way.                                                 *)
(***************************************************************************)
EXTENDS RpcCodec, ModbusCodec, HttpCodec

CONSTANTS
  Codecs,           \* those in use: a subset of {"rpc", "modbus", "http"}
  Metas, Bodies,    \* what the messages are made of
  FreshMessage,     \* does the callback decode into a new object every time?
  MaxSent, MaxInFlight

ASSUME CodecsAssumption == Codecs \subseteq {"rpc", "modbus", "http"}
ASSUME MessagesAssumption ==
  /\ Metas \subseteq Bytes /\ Bodies \subseteq Seq(Bytes)
  /\ FreshMessage \in BOOLEAN /\ MaxSent \in Nat /\ MaxInFlight \in Nat
(* A field of a header is one cell: every length it can hold is a byte.    *)
ASSUME CellsAssumption ==
  0 \in Bytes /\ \A body \in Bodies : {Len(body), Len(body) + 1} \subseteq Bytes
(* A length and its header fit the width the codec computes them in.       *)
ASSUME WidthAssumption ==
  \A body \in Bodies : /\ Len(body) + HEADER_LEN < RPC_WORD
                       /\ Len(body) + 1 < MODBUS_WORD
(* Neither a request line nor a length looks like the end of the headers.  *)
ASSUME HeadersAssumption ==
  CRLFCRLF \notin Metas \cup {Len(body) : body \in Bodies}

VARIABLES
  codec,            \* the protocol both sides speak
  wire,             \* bytes sent and not yet read
  inbuf,            \* input_buffer_ of the receiving connection
  msg,              \* the callback's local message, frame or request
  pc,               \* the receiver: "idle", or "decoding" inside the callback
  sent, received    \* history: messages, in order

vars == <<codec, wire, inbuf, msg, pc, sent, received>>

Messages == [meta : Metas, body : Bodies]

NewMessage ==
  CASE codec = "rpc"    -> [meta |-> Zero, body_len |-> 0, body |-> << >>]
    [] codec = "modbus" -> << >>
    [] codec = "http"   -> HttpRequest

Encode(m, b) ==
  CASE codec = "rpc"    -> RpcEncode(m, b)
    [] codec = "modbus" -> ModbusEncode(m.meta, m.meta, m.body, b)
    [] codec = "http"   -> Appended(b, HttpRequestBytes(m))

Decode(b, old) ==
  CASE codec = "rpc"    -> RpcDecode(b, old)
    [] codec = "modbus" -> ModbusDecode(b, old)
    [] codec = "http"   -> HttpDecode(b, old)

(* What the callback makes of a decoded message.                           *)
Delivered(new) ==
  IF codec = "modbus"
    THEN [meta |-> new[1], body |-> SubSeq(new, MBAP_LEN + 1, Len(new))]
    ELSE [meta |-> new.meta, body |-> new.body]

Init ==
  /\ codec \in Codecs
  /\ wire = << >> /\ inbuf = New /\ msg = NewMessage
  /\ pc = "idle"
  /\ sent = << >> /\ received = << >>

Send(m) ==
  /\ Len(sent) < MaxSent
  /\ Len(wire) <= MaxInFlight
  /\ wire' = wire \o Content(Encode(m, New))
  /\ sent' = Append(sent, m)
  /\ UNCHANGED <<codec, inbuf, msg, pc, received>>

(* handleRead(): read() returns some of the bytes that fit.                *)
HandleReadUnbounded(n) ==
  /\ pc = "idle" /\ n <= Len(wire)
  /\ inbuf' = Filled(inbuf, SubSeq(wire, 1, n))
  /\ wire' = SubSeq(wire, n + 1, Len(wire))
  /\ msg' = NewMessage
  /\ pc' = "decoding"
  /\ UNCHANGED <<codec, sent, received>>

HandleRead(n) ==
  LET b == EnsureWritable(inbuf, READ_MIN)
  IN  /\ pc = "idle" /\ n <= Len(wire) /\ n <= Writable(b)
      /\ inbuf' = Filled(b, SubSeq(wire, 1, n))
      /\ wire' = SubSeq(wire, n + 1, Len(wire))
      /\ msg' = NewMessage
      /\ pc' = "decoding"
      /\ UNCHANGED <<codec, sent, received>>

(* One evaluation of the callback's while (decode(...)).                   *)
DecodeNextOnce ==
  LET result == Decode(inbuf, msg)
  IN  /\ pc = "decoding"
      /\ inbuf' = result.buf
      /\ msg' = result.msg
      /\ received' = IF result.ok THEN Append(received, Delivered(result.msg))
                     ELSE received
      /\ pc' = "idle"
      /\ UNCHANGED <<codec, wire, sent>>

DecodeNext ==
  LET result == Decode(inbuf, msg)
  IN  /\ pc = "decoding"
      /\ inbuf' = result.buf
      /\ IF result.ok
           THEN /\ received' = Append(received, Delivered(result.msg))
                /\ msg' = IF FreshMessage THEN NewMessage ELSE result.msg
                /\ UNCHANGED pc
           ELSE /\ msg' = result.msg
                /\ pc' = "idle"
                /\ UNCHANGED received
      /\ UNCHANGED <<codec, wire, sent>>

Next ==
  \/ \E m \in Messages : Send(m)
  \/ \E n \in 1..Len(wire) : HandleRead(n)
  \/ DecodeNext

Spec == Init /\ [][Next]_vars

-----------------------------------------------------------------------------
(* Properties.                                                             *)

(* Every variable keeps its type; the indices of the input buffer stay in  *)
(* order whatever decode() retrieves.                                      *)
TypeOK ==
  /\ codec \in Codecs
  /\ wire \in Seq(Bytes)
  /\ IsBuffer(inbuf)
  /\ pc \in {"idle", "decoding"}
  /\ sent \in Seq(Messages)

(* "solves sticky and half packets for good" (README.md:18): however the   *)
(* stream is cut into pieces, the messages come out once each, whole and   *)
(* in order, even if a body looks like a header.                           *)
MQ == INSTANCE FunctorQueue
        WITH Functors <- Messages, executed <- received,
             queue <- SubSeq(sent, Len(received) + 1, Len(sent))

RefinesFunctorQueue == MQ!Spec

(* The callback does not return while a whole message waits in the buffer: *)
(* no message has to wait for the bytes of another one.                    *)
NothingLeftBehind == pc = "idle" /\ wire = << >> => received = sent
=============================================================================
