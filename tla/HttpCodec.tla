------------------------------ MODULE HttpCodec ------------------------------
(***************************************************************************)
(* mnsx::achilles::HttpCodec::decode (include/protocol/http/HttpCodec.h).  *)
(*                                                                         *)
(* A request is a cell for the request line, one for the Content-Length    *)
(* header if there is one, the cell CRLFCRLF and the body. Other headers   *)
(* are treated as this one and left out. A body may hold any cell.         *)
(***************************************************************************)
EXTENDS Buffer, SequencesExt

CONSTANT CRLFCRLF   \* the empty line behind the headers

ASSUME CrlfAssumption == CRLFCRLF \in Bytes

(* What a browser sends: no Content-Length if there is no body.            *)
HttpRequestBytes(m) ==
  LET length == IF m.body = << >> THEN << >> ELSE <<Len(m.body)>>
  IN  <<m.meta>> \o length \o <<CRLFCRLF>> \o m.body

(* HttpRequest(): its length is headers["Content-Length"], 0 if missing.   *)
HttpRequest == [meta |-> Zero, length |-> 0, body |-> << >>]

(* Where the headers end, 0 if the end is not there yet.                   *)
EndOfHeaders(bytes) == SelectInSeq(bytes, LAMBDA cell : cell = CRLFCRLF)

(* decode() into request: nothing yet if the headers or the body are not   *)
(* there, and what has been parsed is cleared in the second case;          *)
(* otherwise the headers that occur and a body that is not empty are       *)
(* assigned, and the rest of request stays as it was.                      *)
HttpDecode(b, request) ==
  LET bytes == Content(b)
      end   == EndOfHeaders(bytes)
      content_length == IF end > 2 THEN bytes[2] ELSE 0
      total == end + content_length
  IN  CASE end = 0 ->
             [ok |-> FALSE, buf |-> b, msg |-> request]
        [] end > 0 /\ Readable(b) < total ->
             [ok |-> FALSE, buf |-> b, msg |-> HttpRequest]
        [] end > 0 /\ Readable(b) >= total ->
             [ok  |-> TRUE,
              buf |-> Retrieved(Retrieved(b, end), content_length),
              msg |-> [meta   |-> IF end > 1 THEN bytes[1] ELSE request.meta,
                       length |-> IF end > 2 THEN bytes[2] ELSE request.length,
                       body   |-> IF content_length > 0
                                  THEN SubSeq(bytes, end + 1, total)
                                  ELSE request.body]]
=============================================================================
