--------------------------- MODULE GracefulStream ---------------------------
(***************************************************************************)
(* What TcpConnection promises for its outgoing direction: the bytes of    *)
(* accepted messages leave in the order of acceptance, none is skipped or  *)
(* repeated, and the direction is closed only once all of them have left.  *)
(***************************************************************************)
EXTENDS Naturals, Sequences

CONSTANTS Messages, Size    \* message m has Size[m] bytes

VARIABLES
  accepted,      \* the bytes of the messages accepted so far
  sent,          \* those that have been handed to the kernel
  finished       \* the sending direction has been shut down

vars == <<accepted, sent, finished>>

(* The bytes of a message; which message a byte belongs to is all that     *)
(* matters here.                                                           *)
Content(m) == [i \in 1..Size[m] |-> m]

Init == accepted = << >> /\ sent = << >> /\ finished = FALSE

Accept(m) ==
  /\ ~ finished
  /\ accepted' = accepted \o Content(m)
  /\ UNCHANGED <<sent, finished>>

Transmit ==
  /\ ~ finished
  /\ \E n \in Len(sent)..Len(accepted) : sent' = SubSeq(accepted, 1, n)
  /\ UNCHANGED <<accepted, finished>>

Finish ==
  /\ sent = accepted
  /\ finished' = TRUE
  /\ UNCHANGED <<accepted, sent>>

Next == Transmit \/ Finish \/ \E m \in Messages : Accept(m)

Spec == Init /\ [][Next]_vars
=============================================================================
