------------------------------ MODULE EventLoop ------------------------------
(***************************************************************************)
(* mnsx::achilles::EventLoop (src/reactor/EventLoop.cpp): the thread that  *)
(* runs loop(), the threads that hand it functors or ask it to quit, the   *)
(* eventfd that wakes it, and that eventfd's edge-triggered entry in the   *)
(* epoll ready list.                                                       *)
(*                                                                         *)
(* One action per access to shared state: the push and the swap (each one  *)
(* critical section of mutex_), every store or load of an atomic flag, and *)
(* every system call on the eventfd or the epoll descriptor.               *)
(*                                                                         *)
(* Bounds: a functor object is handed over at most once, a thread calls    *)
(* quit() at most once, and loop() is called once (BasicUsage.cpp:142).    *)
(***************************************************************************)
EXTENDS Naturals, Sequences, SequencesExt

CONSTANTS
  LoopThread,    \* the thread that constructed the EventLoop (thread_id_)
  OtherThreads,  \* threads that use it from outside
  Functors,      \* the closures handed to runInLoop / enqueueInLoop
  Quitters,      \* the threads that may call quit()
  SetupPosts,    \* may LoopThread call in before it has called loop()?
  EarlyQuits     \* may anybody call quit() before loop()?

Threads == {LoopThread} \cup OtherThreads

ASSUME LoopThreadAssumption == LoopThread \notin OtherThreads
ASSUME QuittersAssumption   == Quitters \subseteq Threads
ASSUME SetupAssumption      == SetupPosts \in BOOLEAN /\ EarlyQuits \in BOOLEAN

VARIABLES
  looping,       \* looping_
  quit,          \* quit_
  calling,       \* calling_pending_functors_
  pending,       \* pending_functors_, guarded by mutex_
  batch,         \* the local vector of doPendingFunctors()
  wakeCount,     \* counter of the eventfd wake_up_fd_
  wakeReady,     \* wake_up_fd_ is on the epoll ready list
  active,        \* channels returned by poll() and not yet handled
  pc,            \* where the loop thread is
  callpc,        \* where each thread is inside enqueueInLoop() or quit()
  fresh,         \* functors nobody has handed over yet
  quitters,      \* history: the threads that have called quit()
  executed       \* history: functors run by doPendingFunctors(), in order

flags == <<looping, quit, calling>>
wake  == <<wakeCount, wakeReady>>
vars  == <<flags, pending, batch, wake, active, pc, callpc, fresh, quitters,
           executed>>

LoopPC == {"new", "starting", "check", "poll", "dispatch", "swap", "run",
           "body", "stopping", "done"}
CallPC == {"idle", "pushed", "quitting"}

Init ==
  /\ looping = FALSE /\ quit = FALSE /\ calling = FALSE
  /\ pending = << >> /\ batch = << >>
  /\ wakeCount = 0 /\ wakeReady = FALSE
  /\ active = {}
  /\ pc = "new"
  /\ callpc = [t \in Threads |-> "idle"]
  /\ fresh = Functors
  /\ quitters = {}
  /\ executed = << >>

-----------------------------------------------------------------------------
(* Calls from any thread.                                                  *)

(* Callbacks of the library's user run on the loop thread while it handles *)
(* an I/O channel or a functor; from there they may call back in.          *)
InUserCode == pc = "body" \/ (pc = "dispatch" /\ "io" \in active)

CanCall(t) ==
  /\ callpc[t] = "idle"
  /\ t = LoopThread => InUserCode \/ (SetupPosts /\ pc = "new")

(* write() of 1 to the eventfd: the counter grows and, the descriptor      *)
(* being registered with EPOLLET, every write is an edge.                  *)
WakeUp == wakeCount' = wakeCount + 1 /\ wakeReady' = TRUE

(* runInLoop() on the loop thread: the functor is called in place.         *)
RunInPlace(f) ==
  /\ CanCall(LoopThread) /\ f \in fresh
  /\ fresh' = fresh \ {f}
  /\ UNCHANGED <<flags, pending, batch, wake, active, pc, callpc, quitters,
                 executed>>

(* enqueueInLoop(), also reached through runInLoop() from another thread:  *)
(* the critical section.                                                   *)
EnqueueInLoop(t, f) ==
  /\ CanCall(t) /\ f \in fresh
  /\ pending' = Append(pending, f)
  /\ callpc' = [callpc EXCEPT ![t] = "pushed"]
  /\ fresh' = fresh \ {f}
  /\ UNCHANGED <<flags, batch, wake, active, pc, quitters, executed>>

NeedsWakeUpOutsideOnly(t) == t # LoopThread

NeedsWakeUp(t) == t # LoopThread \/ calling

(* ... and, with mutex_ released, the wake-up.                             *)
WakeAfterPush(t) ==
  /\ callpc[t] = "pushed"
  /\ IF NeedsWakeUp(t) THEN WakeUp ELSE UNCHANGED wake
  /\ callpc' = [callpc EXCEPT ![t] = "idle"]
  /\ UNCHANGED <<flags, pending, batch, active, pc, fresh, quitters, executed>>

Quit(t) ==
  /\ CanCall(t) /\ t \in Quitters \ quitters
  /\ pc = "new" => EarlyQuits
  /\ quit' = TRUE
  /\ callpc' = [callpc EXCEPT ![t] = "quitting"]
  /\ quitters' = quitters \cup {t}
  /\ UNCHANGED <<looping, calling, pending, batch, wake, active, pc, fresh,
                 executed>>

WakeAfterQuitNever(t) ==
  /\ callpc[t] = "quitting"
  /\ callpc' = [callpc EXCEPT ![t] = "idle"]
  /\ UNCHANGED <<flags, pending, batch, wake, active, pc, fresh, quitters,
                 executed>>

WakeAfterQuit(t) ==
  /\ callpc[t] = "quitting"
  /\ IF t # LoopThread THEN WakeUp ELSE UNCHANGED wake
  /\ callpc' = [callpc EXCEPT ![t] = "idle"]
  /\ UNCHANGED <<flags, pending, batch, active, pc, fresh, quitters, executed>>

-----------------------------------------------------------------------------
(* The loop thread; it takes a step of loop() only outside its own calls.  *)

LoopStep(from, to) ==
  /\ pc = from /\ pc' = to
  /\ callpc[LoopThread] = "idle"

StartLooping ==
  /\ LoopStep("new", "starting")
  /\ looping' = TRUE
  /\ UNCHANGED <<quit, calling, pending, batch, wake, active, callpc, fresh,
                 quitters, executed>>

ResetQuit ==
  /\ LoopStep("starting", "check")
  /\ quit' = FALSE
  /\ UNCHANGED <<looping, calling, pending, batch, wake, active, callpc, fresh,
                 quitters, executed>>

CheckQuit ==
  /\ LoopStep("check", IF quit THEN "stopping" ELSE "poll")
  /\ UNCHANGED <<flags, pending, batch, wake, active, callpc, fresh, quitters,
                 executed>>

WakeIsReported == wakeReady /\ wakeCount > 0

(* epoll_wait(-1): it reports the eventfd if it is on the ready list and   *)
(* still readable, and takes it off the list. "io" stands for any other    *)
(* channels; nothing to report at all is the EINTR return.                 *)
Poll ==
  /\ LoopStep("poll", "dispatch")
  /\ \E io \in SUBSET {"io"} :
       active' = IF WakeIsReported THEN io \cup {"wake"} ELSE io
  /\ wakeReady' = FALSE
  /\ UNCHANGED <<flags, pending, batch, wakeCount, callpc, fresh, quitters,
                 executed>>

(* handleWakeUp(): one read() takes the whole counter (EAGAIN if it is 0). *)
HandleWakeUpWithoutRead ==
  /\ LoopStep("dispatch", "dispatch") /\ "wake" \in active
  /\ active' = active \ {"wake"}
  /\ UNCHANGED <<flags, pending, batch, wake, callpc, fresh, quitters,
                 executed>>

HandleWakeUp ==
  /\ LoopStep("dispatch", "dispatch") /\ "wake" \in active
  /\ active' = active \ {"wake"}
  /\ wakeCount' = 0
  /\ UNCHANGED <<flags, pending, batch, wakeReady, callpc, fresh, quitters,
                 executed>>

(* The handler of the other channels returns.                              *)
HandleIo ==
  /\ LoopStep("dispatch", "dispatch") /\ "io" \in active
  /\ active' = active \ {"io"}
  /\ UNCHANGED <<flags, pending, batch, wake, callpc, fresh, quitters,
                 executed>>

BeginPendingUnflagged ==
  /\ LoopStep("dispatch", "swap") /\ active = {}
  /\ UNCHANGED <<flags, pending, batch, wake, active, callpc, fresh, quitters,
                 executed>>

BeginPending ==
  /\ LoopStep("dispatch", "swap") /\ active = {}
  /\ calling' = TRUE
  /\ UNCHANGED <<looping, quit, pending, batch, wake, active, callpc, fresh,
                 quitters, executed>>

SwapPendingByCopy ==
  /\ LoopStep("swap", "run")
  /\ batch' = pending
  /\ UNCHANGED <<flags, pending, wake, active, callpc, fresh, quitters,
                 executed>>

SwapPending ==
  /\ LoopStep("swap", "run")
  /\ batch' = pending
  /\ pending' = << >>
  /\ UNCHANGED <<flags, wake, active, callpc, fresh, quitters, executed>>

RunFunctorPastEnd ==
  /\ LoopStep("run", "body")
  /\ \/ /\ batch # << >>
        /\ executed' = Append(executed, Head(batch)) /\ batch' = Tail(batch)
     \/ /\ batch = << >>
        /\ executed' = Append(executed, "past the end") /\ UNCHANGED batch
  /\ UNCHANGED <<flags, pending, wake, active, callpc, fresh, quitters>>

RunFunctor ==
  /\ LoopStep("run", "body") /\ batch # << >>
  /\ executed' = Append(executed, Head(batch))
  /\ batch' = Tail(batch)
  /\ UNCHANGED <<flags, pending, wake, active, callpc, fresh, quitters>>

FunctorReturns ==
  /\ LoopStep("body", "run")
  /\ UNCHANGED <<flags, pending, batch, wake, active, callpc, fresh, quitters,
                 executed>>

EndPending ==
  /\ LoopStep("run", "check") /\ batch = << >>
  /\ calling' = FALSE
  /\ UNCHANGED <<looping, quit, pending, batch, wake, active, callpc, fresh,
                 quitters, executed>>

StopLooping ==
  /\ LoopStep("stopping", "done")
  /\ looping' = FALSE
  /\ UNCHANGED <<quit, calling, pending, batch, wake, active, callpc, fresh,
                 quitters, executed>>

-----------------------------------------------------------------------------
UserCall ==
  \/ \E f \in Functors : RunInPlace(f) \/ \E t \in Threads : EnqueueInLoop(t, f)
  \/ \E t \in Threads : Quit(t)

ReturnFromCall(t) == WakeAfterPush(t) \/ WakeAfterQuit(t)

LoopWithoutPoll ==
  \/ StartLooping \/ ResetQuit \/ CheckQuit \/ HandleWakeUp \/ HandleIo
  \/ BeginPending \/ SwapPending \/ RunFunctor \/ FunctorReturns
  \/ EndPending \/ StopLooping

Next ==
  \/ UserCall
  \/ \E t \in Threads : ReturnFromCall(t)
  \/ LoopWithoutPoll
  \/ Poll

Spec == Init /\ [][Next]_vars

(* Threads that are inside a call, and the loop thread wherever it does    *)
(* not block, keep running. epoll_wait() is only obliged to return when    *)
(* the eventfd is ready: other events and signals may never come, and no   *)
(* user is obliged to call anything.                                       *)
Fairness ==
  /\ \A t \in Threads : WF_vars(ReturnFromCall(t))
  /\ WF_vars(LoopWithoutPoll)
  /\ WF_vars(Poll /\ WakeIsReported)

FairSpec == Spec /\ Fairness

-----------------------------------------------------------------------------
(* Properties.                                                             *)

(* Every variable keeps its type; what doPendingFunctors() calls is always *)
(* a functor handed over, never what lies behind the end of its vector.    *)
TypeOK ==
  /\ looping \in BOOLEAN /\ quit \in BOOLEAN /\ calling \in BOOLEAN
  /\ pending \in Seq(Functors) /\ batch \in Seq(Functors)
  /\ executed \in Seq(Functors)
  /\ wakeCount \in Nat /\ wakeReady \in BOOLEAN
  /\ active \subseteq {"wake", "io"}
  /\ pc \in LoopPC
  /\ callpc \in [Threads -> CallPC]
  /\ fresh \subseteq Functors
  /\ quitters \subseteq Quitters

WakeIsComing == \E t \in OtherThreads : callpc[t] \in {"pushed", "quitting"}

(* The loop never blocks in epoll_wait() with work it does not know about: *)
(* if functors are queued or quit_ is set, the eventfd is readable and     *)
(* reported, or the thread that did it is about to write to it.            *)
NoLostWakeup ==
  pc = "poll" /\ (pending # << >> \/ quit) => WakeIsReported \/ WakeIsComing

(* The eventfd is edge triggered: a count left in it without a pending     *)
(* edge would silence it for good. Whenever it is readable, it is on the   *)
(* ready list or its handler is still to run.                              *)
WakeUpArmed == wakeCount > 0 => wakeReady \/ "wake" \in active

(* Mutex, swap, flags and eventfd together implement one FIFO queue:       *)
(* what is still in the local vector comes before what has been pushed.    *)
FQ == INSTANCE FunctorQueue WITH queue <- batch \o pending

RefinesFunctorQueue == FQ!Spec

(* The comment at EventLoop.cpp:102: the wake-up is there so that a newly  *)
(* added functor does not starve; every functor enqueued is executed, as   *)
(* long as nobody quits, although epoll_wait() has no timeout.             *)
NoFunctorStarves ==
  \A f \in Functors :
    f \in ToSet(pending) ~> f \in ToSet(executed) \/ quitters # {}

(* quit() called once loop() is past its initialisation ends it.           *)
QuitStopsRunningLoop == quit /\ pc \notin {"new", "starting"} ~> pc = "done"

(* EventLoop.h:43, "leave the loop": quit() ends a loop that has begun,    *)
(* which is what looping_ records (EventLoop.h:92).                        *)
QuitIsHonoured == looping /\ quit ~> pc = "done"

-----------------------------------------------------------------------------
(* Why the safety properties hold.                                         *)

(* The phase of loop() determines the flag and the containers it owns.     *)
Phases ==
  /\ calling <=> pc \in {"swap", "run", "body"}
  /\ pc # "dispatch" => active = {}
  /\ batch # << >> => pc \in {"run", "body"}

(* Between the swap and the next poll, queued functors have a wake-up that *)
(* is already on the ready list or still to be written.                    *)
QueuedMeansWoken ==
  /\ pending # << >>
  /\ pc \in {"new", "starting", "check", "poll", "run", "body"}
  => WakeIsReported \/ WakeIsComing \/ callpc[LoopThread] = "pushed"

(* The loop thread is inside a call only where user code runs.             *)
OwnCalls == callpc[LoopThread] # "idle" => InUserCode

IInv == TypeOK /\ Phases /\ WakeUpArmed /\ OwnCalls /\ QueuedMeansWoken
          /\ NoLostWakeup
=============================================================================
