--------------------------- MODULE MCCodecStream ---------------------------
(***************************************************************************)
(* CodecStream for TLC, scaled down: headers of 3 and 4 cells, bytes 0..4. *)
(* The bodies: none, one that is itself a whole empty frame of RpcCodec,   *)
(* and one that looks like the end of HTTP headers.                        *)
(***************************************************************************)
EXTENDS CodecStream

MCBodies == {<< >>, <<Magic, 0, 0>>, <<CRLFCRLF, Magic>>}
=============================================================================
