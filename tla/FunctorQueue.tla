---------------------------- MODULE FunctorQueue ----------------------------
(***************************************************************************)
(* What EventLoop promises to the threads that hand it work, without       *)
(* locks, eventfd or epoll: functors wait in one queue and are executed    *)
(* one at a time, each once, in the order in which they were enqueued.     *)
(* TcpConnection::send relies on this for the order of its bytes.          *)
(***************************************************************************)
EXTENDS Sequences

CONSTANT Functors    \* the closures handed to enqueueInLoop

VARIABLES
  queue,             \* enqueued, not yet executed
  executed           \* history: the functors executed, in order

vars == <<queue, executed>>

Init ==
  /\ queue = << >>
  /\ executed = << >>

Enqueue(f) ==
  /\ queue' = Append(queue, f)
  /\ UNCHANGED executed

Execute ==
  /\ queue # << >>
  /\ executed' = Append(executed, Head(queue))
  /\ queue' = Tail(queue)

Next == Execute \/ \E f \in Functors : Enqueue(f)

Spec == Init /\ [][Next]_vars
=============================================================================
