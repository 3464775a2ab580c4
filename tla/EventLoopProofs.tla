--------------------------- MODULE EventLoopProofs ---------------------------
(***************************************************************************)
(* Proofs for EventLoop, for any number of threads and functors.           *)
(***************************************************************************)
EXTENDS EventLoop, SequenceTheorems, TLAPS

-----------------------------------------------------------------------------
(* Types, and the link between the phase of loop() and what it owns. This  *)
(* much holds whether or not work is posted before loop() is called.       *)

Base == TypeOK /\ Phases

(* Sequences stay sequences under the operations of the loop.              *)
LEMMA SeqTypes ==
  ASSUME NEW S, NEW s \in Seq(S)
  PROVE  /\ \A x \in S : Append(s, x) \in Seq(S)
         /\ s # << >> => Head(s) \in S /\ Tail(s) \in Seq(S)
         /\ << >> \in Seq(S)
  BY HeadTailProperties, AppendProperties, EmptySeq

(* The initial state is well typed and in phase "new".                     *)
LEMMA BaseInit == Init => Base
<1> SUFFICES ASSUME Init PROVE Base
  OBVIOUS
<1>1. << >> \in Seq(Functors)
  BY EmptySeq
<1>2. TypeOK
  BY <1>1 DEF Init, TypeOK, LoopPC, CallPC
<1>3. Phases
  BY DEF Init, Phases
<1>4. QED BY <1>2, <1>3 DEF Base

(* What the second half of a call does: a thread other than the loop's     *)
(* always writes to the eventfd, the loop thread while it runs functors.   *)
LEMMA ReturnEffect ==
  ASSUME NEW t \in Threads, ReturnFromCall(t)
  PROVE  /\ callpc' = [callpc EXCEPT ![t] = "idle"]
         /\ UNCHANGED <<looping, quit, calling, pending, batch, active, pc,
                        fresh, quitters, executed>>
         /\ WakeUp \/ UNCHANGED wake
         /\ t # LoopThread => WakeUp
         /\ callpc[t] = "pushed" /\ calling => WakeUp
<1> USE DEF flags
<1>1. CASE WakeAfterPush(t)
  BY <1>1 DEF WakeAfterPush, NeedsWakeUp
<1>2. CASE WakeAfterQuit(t)
  BY <1>2 DEF WakeAfterQuit
<1>3. QED BY <1>1, <1>2 DEF ReturnFromCall

(* Every step keeps the types and the phases.                              *)
LEMMA BaseStep == Base /\ [Next]_vars => Base'
<1> SUFFICES ASSUME Base, [Next]_vars PROVE Base'
  OBVIOUS
<1> USE DEF Base, Phases, TypeOK, flags, wake, LoopPC, CallPC
<1>1. ASSUME UserCall PROVE Base'
  <2>1. ASSUME NEW f \in Functors, RunInPlace(f) PROVE Base'
    BY <2>1 DEF RunInPlace
  <2>2. ASSUME NEW f \in Functors, NEW t \in Threads, EnqueueInLoop(t, f)
        PROVE  Base'
    <3>1. pending' \in Seq(Functors)
      BY <2>2, SeqTypes DEF EnqueueInLoop
    <3>2. QED BY <2>2, <3>1 DEF EnqueueInLoop
  <2>3. ASSUME NEW t \in Threads, Quit(t) PROVE Base'
    <3>1. TypeOK' BY <2>3 DEF Quit
    <3>2. Phases' BY <2>3 DEF Quit
    <3>3. QED BY <3>1, <3>2
  <2>4. QED BY <1>1, <2>1, <2>2, <2>3 DEF UserCall
<1>2. ASSUME NEW t \in Threads, ReturnFromCall(t) PROVE Base'
  <2>1. /\ callpc' = [callpc EXCEPT ![t] = "idle"]
        /\ UNCHANGED <<looping, quit, calling, pending, batch, active, pc,
                       fresh, quitters, executed>>
        /\ WakeUp \/ UNCHANGED wake
    BY <1>2, ReturnEffect
  <2>2. wakeCount' \in Nat /\ wakeReady' \in BOOLEAN
    <3>1. CASE WakeUp
      BY <3>1 DEF WakeUp
    <3>2. CASE UNCHANGED wake
      BY <3>2
    <3>3. QED BY <2>1, <3>1, <3>2
  <2>3. TypeOK'
    BY <2>1, <2>2
  <2>4. Phases'
    BY <2>1
  <2>5. QED BY <2>3, <2>4
<1>3. ASSUME LoopWithoutPoll PROVE Base'
  <2> USE DEF LoopStep
  <2>1. CASE StartLooping BY <2>1 DEF StartLooping
  <2>2. CASE ResetQuit BY <2>2 DEF ResetQuit
  <2>3. CASE CheckQuit BY <2>3 DEF CheckQuit
  <2>4. CASE HandleWakeUp BY <2>4 DEF HandleWakeUp
  <2>5. CASE HandleIo BY <2>5 DEF HandleIo
  <2>6. CASE BeginPending BY <2>6 DEF BeginPending
  <2>7. CASE SwapPending BY <2>7, SeqTypes DEF SwapPending
  <2>8. CASE RunFunctor
    <3>1. executed' \in Seq(Functors) /\ batch' \in Seq(Functors)
      BY <2>8, SeqTypes DEF RunFunctor
    <3>2. QED BY <2>8, <3>1 DEF RunFunctor
  <2>9. CASE FunctorReturns BY <2>9 DEF FunctorReturns
  <2>10. CASE EndPending BY <2>10 DEF EndPending
  <2>11. CASE StopLooping BY <2>11 DEF StopLooping
  <2>12. QED
    BY <1>3, <2>1, <2>2, <2>3, <2>4, <2>5, <2>6, <2>7, <2>8, <2>9, <2>10,
       <2>11 DEF LoopWithoutPoll
<1>4. ASSUME Poll PROVE Base'
  BY <1>4 DEF Poll, LoopStep
<1>5. ASSUME UNCHANGED vars PROVE Base'
  BY <1>5 DEF vars
<1>6. QED BY <1>1, <1>2, <1>3, <1>4, <1>5 DEF Next

(* The types and the phases hold throughout every behaviour.               *)
LEMMA BaseHolds == Spec => []Base
  BY BaseInit, BaseStep, PTL DEF Spec

(* Every variable keeps its type, in particular functors never get lost    *)
(* inside a queue of queues when doPendingFunctors() swaps the vectors.    *)
THEOREM TypeCorrect == Spec => []TypeOK
<1>1. Base => TypeOK
  BY DEF Base
<1>2. QED BY <1>1, BaseHolds, PTL

-----------------------------------------------------------------------------
(* The loop implements one FIFO queue.                                     *)

(* The loop starts with the empty queue.                                   *)
LEMMA RefinementInit == Init => FQ!Init
  BY ConcatEmptySeq, EmptySeq DEF Init, FQ!Init

(* Pushing to pending_functors_ enqueues; swapping it with the empty local *)
(* vector changes nothing; running the head of that vector executes.       *)
LEMMA RefinementStep == Base /\ [Next]_vars => [FQ!Next]_(FQ!vars)
<1> SUFFICES ASSUME Base, [Next]_vars PROVE [FQ!Next]_(FQ!vars)
  OBVIOUS
<1>t. pending \in Seq(Functors) /\ batch \in Seq(Functors)
  BY DEF Base, TypeOK
<1>1. ASSUME NEW f \in Functors, NEW t \in Threads, EnqueueInLoop(t, f)
      PROVE  FQ!Enqueue(f)
  <2>1. pending' = Append(pending, f) /\ batch' = batch /\ executed' = executed
    BY <1>1 DEF EnqueueInLoop
  <2>2. Append(pending, f) = pending \o <<f>>
    BY <1>t, AppendIsConcat
  <2>3. <<f>> \in Seq(Functors)
    BY IsASeq
  <2>4. batch \o (pending \o <<f>>) = (batch \o pending) \o <<f>>
    BY <1>t, <2>3, ConcatAssociative
  <2>5. batch \o pending \in Seq(Functors)
    BY <1>t, ConcatProperties
  <2>6. (batch \o pending) \o <<f>> = Append(batch \o pending, f)
    BY <2>5, AppendIsConcat
  <2>7. QED BY <2>1, <2>2, <2>4, <2>6 DEF FQ!Enqueue
<1>2. ASSUME SwapPending PROVE UNCHANGED FQ!vars
  <2>1. batch = << >>
    BY <1>2 DEF SwapPending, LoopStep, Base, Phases
  <2>2. batch' = pending /\ pending' = << >> /\ executed' = executed
    BY <1>2 DEF SwapPending
  <2>3. << >> \o pending = pending /\ pending \o << >> = pending
    BY <1>t, ConcatEmptySeq
  <2>4. QED BY <2>1, <2>2, <2>3 DEF FQ!vars
<1>3. ASSUME RunFunctor PROVE FQ!Execute
  <2>1. /\ batch # << >> /\ pending' = pending
        /\ executed' = Append(executed, Head(batch)) /\ batch' = Tail(batch)
    BY <1>3 DEF RunFunctor
  <2>2. batch \o pending # << >>
    BY <1>t, <2>1, ConcatEqualIffEmpty
  <2>3. /\ Head(batch \o pending) = Head(batch)
        /\ Tail(batch \o pending) = Tail(batch) \o pending
    BY <1>t, <2>1
  <2>4. QED BY <2>1, <2>2, <2>3 DEF FQ!Execute
<1>4. ASSUME UNCHANGED <<pending, batch, executed>> PROVE UNCHANGED FQ!vars
  BY <1>4 DEF FQ!vars
<1>5. ASSUME NEW t \in Threads, ReturnFromCall(t)
      PROVE  UNCHANGED <<pending, batch, executed>>
  BY <1>5 DEF ReturnFromCall, WakeAfterPush, WakeAfterQuit
<1>6. ASSUME LoopWithoutPoll, ~ SwapPending, ~ RunFunctor
      PROVE  UNCHANGED <<pending, batch, executed>>
  BY <1>6 DEF LoopWithoutPoll, StartLooping, ResetQuit, CheckQuit,
              HandleWakeUp, HandleIo, BeginPending, FunctorReturns,
              EndPending, StopLooping
<1>7. ASSUME UserCall, \A f \in Functors, t \in Threads : ~ EnqueueInLoop(t, f)
      PROVE  UNCHANGED <<pending, batch, executed>>
  BY <1>7 DEF UserCall, RunInPlace, Quit
<1>8. CASE UserCall
  BY <1>1, <1>4, <1>7, <1>8 DEF FQ!Next
<1>9. CASE LoopWithoutPoll
  BY <1>2, <1>3, <1>4, <1>6, <1>9 DEF FQ!Next
<1>10. CASE Poll
  BY <1>4, <1>10 DEF Poll
<1>11. CASE UNCHANGED vars
  BY <1>4, <1>11 DEF vars
<1>12. QED BY <1>4, <1>5, <1>8, <1>9, <1>10, <1>11 DEF Next

(* Functors are executed each once, in the order in which they were        *)
(* enqueued, by any number of threads: mutex, swap, flags and eventfd      *)
(* implement the abstract queue.                                           *)
THEOREM Refinement == Spec => RefinesFunctorQueue
<1>1. Spec => FQ!Init /\ [][FQ!Next]_(FQ!vars)
  BY RefinementInit, RefinementStep, BaseHolds, PTL DEF Spec
<1>2. QED BY <1>1, PTL DEF RefinesFunctorQueue, FQ!Spec

-----------------------------------------------------------------------------
(* No wake-up is lost, provided that the loop thread posts nothing before  *)
(* it calls loop().                                                        *)

LEMMA IInvInit == Init => IInv
<1> SUFFICES ASSUME Init PROVE IInv
  OBVIOUS
<1>1. TypeOK /\ Phases
  BY BaseInit DEF Base
<1>2. WakeUpArmed /\ OwnCalls /\ QueuedMeansWoken /\ NoLostWakeup
  BY DEF Init, WakeUpArmed, OwnCalls, QueuedMeansWoken, NoLostWakeup, Threads
<1>3. QED BY <1>1, <1>2 DEF IInv

(* The edge-triggered eventfd: a write puts it on the ready list, poll()   *)
(* moves it to the active channels, the handler empties it.                *)
LEMMA ArmedStep == Base /\ WakeUpArmed /\ [Next]_vars => WakeUpArmed'
<1> SUFFICES ASSUME Base, WakeUpArmed, [Next]_vars PROVE WakeUpArmed'
  OBVIOUS
<1> USE DEF Base, TypeOK, WakeUpArmed, flags, wake
<1>1. ASSUME UserCall PROVE WakeUpArmed'
  BY <1>1 DEF UserCall, RunInPlace, EnqueueInLoop, Quit
<1>2. ASSUME NEW t \in Threads, ReturnFromCall(t) PROVE WakeUpArmed'
  BY <1>2, ReturnEffect DEF WakeUp
<1>3. ASSUME LoopWithoutPoll PROVE WakeUpArmed'
  BY <1>3 DEF LoopWithoutPoll, StartLooping, ResetQuit, CheckQuit,
              HandleWakeUp, HandleIo, BeginPending, SwapPending, RunFunctor,
              FunctorReturns, EndPending, StopLooping
<1>4. ASSUME Poll PROVE WakeUpArmed'
  BY <1>4 DEF Poll, LoopStep, WakeIsReported, Phases
<1>5. ASSUME UNCHANGED vars PROVE WakeUpArmed'
  BY <1>5 DEF vars
<1>6. QED BY <1>1, <1>2, <1>3, <1>4, <1>5 DEF Next

(* The loop thread calls in only from functors and I/O handlers, and no    *)
(* step of loop() happens before that call has returned.                   *)
LEMMA OwnCallsStep == ~ SetupPosts /\ IInv /\ [Next]_vars => OwnCalls'
<1> SUFFICES ASSUME ~ SetupPosts, IInv, [Next]_vars PROVE OwnCalls'
  OBVIOUS
<1> USE DEF IInv, TypeOK, OwnCalls, InUserCode, Threads
<1>1. ASSUME UserCall PROVE OwnCalls'
  BY <1>1 DEF UserCall, RunInPlace, EnqueueInLoop, Quit, CanCall
<1>2. ASSUME NEW t \in Threads, ReturnFromCall(t) PROVE OwnCalls'
  BY <1>2 DEF ReturnFromCall, WakeAfterPush, WakeAfterQuit
<1>3. ASSUME LoopWithoutPoll PROVE OwnCalls'
  BY <1>3 DEF LoopWithoutPoll, StartLooping, ResetQuit, CheckQuit,
              HandleWakeUp, HandleIo, BeginPending, SwapPending, RunFunctor,
              FunctorReturns, EndPending, StopLooping, LoopStep
<1>4. ASSUME Poll PROVE OwnCalls'
  BY <1>4 DEF Poll, LoopStep
<1>5. ASSUME UNCHANGED vars PROVE OwnCalls'
  BY <1>5 DEF vars
<1>6. QED BY <1>1, <1>2, <1>3, <1>4, <1>5 DEF Next

(* A thread that pushed, or set quit_, is known to be about to write to    *)
(* the eventfd until it has written, and what it wrote stays on the ready  *)
(* list until poll() returns.                                              *)
LEMMA WokenStep ==
  IInv /\ [Next]_vars => QueuedMeansWoken' /\ NoLostWakeup'
<1> SUFFICES ASSUME IInv, [Next]_vars
             PROVE  QueuedMeansWoken' /\ NoLostWakeup'
  OBVIOUS
<1> USE DEF IInv, TypeOK, QueuedMeansWoken, NoLostWakeup, WakeIsReported,
            flags, wake
<1>1. ASSUME UserCall PROVE QueuedMeansWoken' /\ NoLostWakeup'
  <2> USE DEF WakeIsComing, CanCall, OwnCalls, InUserCode, Threads
  <2>1. ASSUME NEW f \in Functors, RunInPlace(f)
        PROVE  QueuedMeansWoken' /\ NoLostWakeup'
    BY <2>1 DEF RunInPlace
  <2>2. ASSUME NEW f \in Functors, NEW t \in Threads, EnqueueInLoop(t, f)
        PROVE  QueuedMeansWoken' /\ NoLostWakeup'
    BY <2>2 DEF EnqueueInLoop
  <2>3. ASSUME NEW t \in Threads, Quit(t)
        PROVE  QueuedMeansWoken' /\ NoLostWakeup'
    BY <2>3 DEF Quit
  <2>4. QED BY <1>1, <2>1, <2>2, <2>3 DEF UserCall
<1>2. ASSUME NEW t \in Threads, ReturnFromCall(t)
      PROVE  QueuedMeansWoken' /\ NoLostWakeup'
  <2>1. /\ callpc' = [callpc EXCEPT ![t] = "idle"]
        /\ pending' = pending /\ pc' = pc /\ quit' = quit
        /\ WakeUp \/ UNCHANGED wake
    BY <1>2, ReturnEffect
  <2>2. CASE WakeUp
    BY <2>1, <2>2 DEF WakeUp
  <2>3. CASE ~ WakeUp
    <3>1. t = LoopThread /\ UNCHANGED wake
      BY <1>2, <2>1, <2>3, ReturnEffect
    <3>2. ~ (callpc[LoopThread] = "pushed" /\ calling)
      BY <1>2, <2>3, <3>1, ReturnEffect
    <3>3. callpc[LoopThread] # "idle"
      BY <1>2, <3>1 DEF ReturnFromCall, WakeAfterPush, WakeAfterQuit
    <3>4. pc \in {"body", "dispatch"}
      BY <3>3 DEF OwnCalls, InUserCode
    <3>5. pc = "body" => calling
      BY DEF Phases
    <3>6. WakeIsComing => WakeIsComing'
      BY <2>1, <3>1, LoopThreadAssumption DEF WakeIsComing, Threads
    <3>7. QED BY <2>1, <3>1, <3>2, <3>4, <3>5, <3>6
  <2>4. QED BY <2>2, <2>3
<1>3. ASSUME LoopWithoutPoll PROVE QueuedMeansWoken' /\ NoLostWakeup'
  <2> USE DEF LoopStep, WakeIsComing
  <2>1. CASE StartLooping BY <2>1 DEF StartLooping
  <2>2. CASE ResetQuit BY <2>2 DEF ResetQuit
  <2>3. CASE CheckQuit BY <2>3 DEF CheckQuit
  <2>4. CASE HandleWakeUp BY <2>4 DEF HandleWakeUp
  <2>5. CASE HandleIo BY <2>5 DEF HandleIo
  <2>6. CASE BeginPending BY <2>6 DEF BeginPending
  <2>7. CASE SwapPending BY <2>7 DEF SwapPending
  <2>8. CASE RunFunctor BY <2>8 DEF RunFunctor
  <2>9. CASE FunctorReturns BY <2>9 DEF FunctorReturns
  <2>10. CASE EndPending BY <2>10 DEF EndPending
  <2>11. CASE StopLooping BY <2>11 DEF StopLooping
  <2>12. QED
    BY <1>3, <2>1, <2>2, <2>3, <2>4, <2>5, <2>6, <2>7, <2>8, <2>9, <2>10,
       <2>11 DEF LoopWithoutPoll
<1>4. ASSUME Poll PROVE QueuedMeansWoken' /\ NoLostWakeup'
  BY <1>4 DEF Poll, LoopStep
<1>5. ASSUME UNCHANGED vars PROVE QueuedMeansWoken' /\ NoLostWakeup'
  BY <1>5 DEF vars, WakeIsComing
<1>6. QED BY <1>1, <1>2, <1>3, <1>4, <1>5 DEF Next

(* The inductive invariant holds throughout every behaviour.               *)
LEMMA IInvHolds == ASSUME ~ SetupPosts PROVE Spec => []IInv
<1>1. IInv /\ [Next]_vars => IInv'
  <2> SUFFICES ASSUME IInv, [Next]_vars PROVE IInv'
    OBVIOUS
  <2>1. TypeOK' /\ Phases'
    BY BaseStep DEF IInv, Base
  <2>2. WakeUpArmed'
    BY ArmedStep DEF IInv, Base
  <2>3. QED BY <2>1, <2>2, OwnCallsStep, WokenStep DEF IInv
<1>2. QED BY <1>1, IInvInit, PTL DEF Spec

(* The loop thread never blocks in epoll_wait() with functors queued or    *)
(* quit_ set and no wake-up reported or about to be written.               *)
THEOREM NoLostWakeupHolds == ASSUME ~ SetupPosts PROVE Spec => []NoLostWakeup
<1>1. IInv => NoLostWakeup
  BY DEF IInv
<1>2. QED BY <1>1, IInvHolds, PTL

(* The eventfd, registered edge triggered, never holds a count that no     *)
(* edge announces.                                                         *)
THEOREM WakeUpArmedHolds == Spec => []WakeUpArmed
<1>1. Init => WakeUpArmed
  BY DEF Init, WakeUpArmed
<1>2. QED BY <1>1, ArmedStep, BaseHolds, PTL DEF Spec
=============================================================================
