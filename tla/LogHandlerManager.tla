-------------------------- MODULE LogHandlerManager --------------------------
(***************************************************************************)
(* mnsx::argus::LogHandlerManager (third_party/argus_log): every LOG_...   *)
(* statement of the library pushes an event into its queue, one worker     *)
(* thread hands the events to the handlers, and the destructor, which runs *)
(* at the exit of the process, stops and joins the worker.                 *)
(*                                                                         *)
(* One action per critical section of queue_mutex_, per store of is_stop_  *)
(* and per call on the condition variable. Only the worker keeps the mutex *)
(* over more than one action: from its check of the queue to the moment it *)
(* sleeps (place "checked").                                               *)
(*                                                                         *)
(* Bounds: each event is logged once, each handler added once and before   *)
(* the first event (addHandler() takes no lock). Nobody logs once the      *)
(* manager is gone.                                                        *)
(***************************************************************************)
EXTENDS Naturals, Sequences, SequencesExt

CONSTANTS
  Threads,       \* the threads that log
  Events,        \* the log events
  Console,       \* the handler the constructor adds
  MoreHandlers   \* those the program may add

Handlers == {Console} \cup MoreHandlers

ASSUME HandlersAssumption == Console \notin MoreHandlers

VARIABLES
  queue,         \* event_queue_, guarded by queue_mutex_
  stop,          \* is_stop_
  handlers,      \* handlers_
  worker,        \* where the worker thread is
  current,       \* current_event, as a sequence of at most one event
  done,          \* handlers that current_event has been given to
  logpc,         \* where each thread is inside pushEvent()
  exitpc,        \* where the exiting thread is inside ~LogHandlerManager()
  fresh,         \* events nobody has logged yet
  owed,          \* history: events pushed before the destructor began
  posted,        \* history: events taken by the worker, in order
  output         \* history: what each handler was given, in order

vars == <<queue, stop, handlers, worker, current, done, logpc, exitpc, fresh,
          owed, posted, output>>

Init ==
  /\ queue = << >> /\ stop = FALSE
  /\ handlers = <<Console>>
  /\ worker = "lock" /\ current = << >> /\ done = 0
  /\ logpc = [t \in Threads |-> "idle"]
  /\ exitpc = "running"
  /\ fresh = Events /\ owed = {}
  /\ posted = << >> /\ output = [h \in Handlers |-> << >>]

MutexFree == worker # "checked"

Alive == exitpc # "destroyed"

-----------------------------------------------------------------------------
(* Any thread.                                                             *)

AddHandler(h) ==
  /\ Alive /\ fresh = Events
  /\ h \notin ToSet(handlers)
  /\ handlers' = Append(handlers, h)
  /\ UNCHANGED <<queue, stop, worker, current, done, logpc, exitpc, fresh, owed,
                 posted, output>>

(* pushEvent(): the push under the lock, and then the notification.        *)
PushEventUnlocked(t, e) ==
  /\ Alive /\ logpc[t] = "idle" /\ e \in fresh
  /\ queue' = Append(queue, e)
  /\ logpc' = [logpc EXCEPT ![t] = "pushed"]
  /\ fresh' = fresh \ {e}
  /\ owed' = IF exitpc = "running" THEN owed \cup {e} ELSE owed
  /\ UNCHANGED <<stop, handlers, worker, current, done, exitpc, posted, output>>

PushEvent(t, e) ==
  /\ Alive /\ logpc[t] = "idle" /\ e \in fresh
  /\ MutexFree
  /\ queue' = Append(queue, e)
  /\ logpc' = [logpc EXCEPT ![t] = "pushed"]
  /\ fresh' = fresh \ {e}
  /\ owed' = IF exitpc = "running" THEN owed \cup {e} ELSE owed
  /\ UNCHANGED <<stop, handlers, worker, current, done, exitpc, posted, output>>

(* notify_one() wakes the worker if it sleeps, and is forgotten otherwise. *)
NotifyNever == UNCHANGED worker

Notify == worker' = IF worker = "asleep" THEN "lock" ELSE worker

NotifyAfterPush(t) ==
  /\ Alive /\ logpc[t] = "pushed"
  /\ Notify
  /\ logpc' = [logpc EXCEPT ![t] = "idle"]
  /\ UNCHANGED <<queue, stop, handlers, current, done, exitpc, fresh, owed,
                 posted, output>>

-----------------------------------------------------------------------------
(* The worker. wait() evaluates its predicate with the mutex held.         *)

Predicate == queue # << >> \/ stop

(* Nothing to do: it will sleep, releasing the mutex as it does so.        *)
CheckAndWait ==
  /\ worker = "lock" /\ ~ Predicate
  /\ worker' = "checked"
  /\ UNCHANGED <<queue, stop, handlers, current, done, logpc, exitpc, fresh,
                 owed, posted, output>>

Sleep ==
  /\ worker = "checked"
  /\ worker' = "asleep"
  /\ UNCHANGED <<queue, stop, handlers, current, done, logpc, exitpc, fresh,
                 owed, posted, output>>

(* A condition variable may wake up for no reason.                         *)
WakeSpuriously ==
  /\ worker = "asleep"
  /\ worker' = "lock"
  /\ UNCHANGED <<queue, stop, handlers, current, done, logpc, exitpc, fresh,
                 owed, posted, output>>

LeaveAtOnce ==
  /\ worker = "lock" /\ stop
  /\ worker' = "left"
  /\ UNCHANGED <<queue, stop, handlers, current, done, logpc, exitpc, fresh,
                 owed, posted, output>>

(* The thread function ends only when the queue is empty.                  *)
Leave ==
  /\ worker = "lock" /\ Predicate /\ queue = << >>
  /\ worker' = "left"
  /\ UNCHANGED <<queue, stop, handlers, current, done, logpc, exitpc, fresh,
                 owed, posted, output>>

TakeNewest ==
  /\ worker = "lock" /\ queue # << >>
  /\ current' = <<Last(queue)>> /\ queue' = Front(queue)
  /\ posted' = Append(posted, Last(queue))
  /\ done' = 0
  /\ worker' = "post"
  /\ UNCHANGED <<stop, handlers, logpc, exitpc, fresh, owed, output>>

Take ==
  /\ worker = "lock" /\ queue # << >>
  /\ current' = <<Head(queue)>> /\ queue' = Tail(queue)
  /\ posted' = Append(posted, Head(queue))
  /\ done' = 0
  /\ worker' = "post"
  /\ UNCHANGED <<stop, handlers, logpc, exitpc, fresh, owed, output>>

(* postEvent(), without the mutex: one handler after the other.            *)
PostEventUnbounded ==
  /\ worker = "post" /\ done <= Len(handlers)
  /\ done' = done + 1
  /\ UNCHANGED <<queue, stop, handlers, worker, current, logpc, exitpc, fresh,
                 owed, posted, output>>

PostEvent ==
  /\ worker = "post" /\ done < Len(handlers)
  /\ output' = [output EXCEPT ![handlers[done + 1]] = @ \o current]
  /\ done' = done + 1
  /\ UNCHANGED <<queue, stop, handlers, worker, current, logpc, exitpc, fresh,
                 owed, posted>>

EventPostedEarly ==
  /\ worker = "post" /\ done >= 1
  /\ worker' = "lock" /\ current' = << >> /\ done' = 0
  /\ UNCHANGED <<queue, stop, handlers, logpc, exitpc, fresh, owed, posted,
                 output>>

EventPosted ==
  /\ worker = "post" /\ done = Len(handlers)
  /\ worker' = "lock" /\ current' = << >> /\ done' = 0
  /\ UNCHANGED <<queue, stop, handlers, logpc, exitpc, fresh, owed, posted,
                 output>>

-----------------------------------------------------------------------------
(* ~LogHandlerManager(): a store and a notification, both without the      *)
(* mutex, and the join.                                                    *)

StoreStop ==
  /\ exitpc = "running"
  /\ stop' = TRUE /\ exitpc' = "stored"
  /\ UNCHANGED <<queue, handlers, worker, current, done, logpc, fresh, owed,
                 posted, output>>

NotifyStop ==
  /\ exitpc = "stored"
  /\ Notify
  /\ exitpc' = "joining"
  /\ UNCHANGED <<queue, stop, handlers, current, done, logpc, fresh, owed,
                 posted, output>>

Join ==
  /\ exitpc = "joining" /\ worker = "left"
  /\ exitpc' = "destroyed"
  /\ UNCHANGED <<queue, stop, handlers, worker, current, done, logpc, fresh,
                 owed, posted, output>>

-----------------------------------------------------------------------------
Worker == CheckAndWait \/ Sleep \/ Leave \/ Take \/ PostEvent \/ EventPosted

Destructor == NotifyStop \/ Join

Next ==
  \/ \E h \in MoreHandlers : AddHandler(h)
  \/ \E t \in Threads : NotifyAfterPush(t) \/ \E e \in Events : PushEvent(t, e)
  \/ Worker \/ WakeSpuriously
  \/ StoreStop \/ Destructor

Spec == Init /\ [][Next]_vars

(* Threads inside a call go on and handlers return. Nobody is obliged to   *)
(* log or to exit, and spurious wake-ups are not to be counted on. The     *)
(* mutex is free again and again: only the worker keeps it.                *)
Fairness ==
  /\ \A t \in Threads : WF_vars(NotifyAfterPush(t))
  /\ WF_vars(Worker) /\ WF_vars(Destructor)

FairSpec == Spec /\ Fairness

-----------------------------------------------------------------------------
(* Properties.                                                             *)

(* Every variable keeps its type; at most every handler is given an event. *)
TypeOK ==
  /\ queue \in Seq(Events) /\ current \in Seq(Events) /\ posted \in Seq(Events)
  /\ stop \in BOOLEAN
  /\ handlers \in Seq(Handlers)
  /\ worker \in {"lock", "checked", "asleep", "post", "left"}
  /\ done \in 0..Len(handlers)
  /\ logpc \in [Threads -> {"idle", "pushed"}]
  /\ exitpc \in {"running", "stored", "joining", "destroyed"}
  /\ fresh \subseteq Events /\ owed \subseteq Events
  /\ output \in [Handlers -> Seq(Events)]

(* Queue, mutex and condition variable implement one queue: each event is  *)
(* taken once, in the order of the pushes (EventLoop's abstraction again). *)
LQ == INSTANCE FunctorQueue WITH Functors <- Events, executed <- posted

RefinesFunctorQueue == LQ!Spec

(* pushEvent() notifies after unlocking, and that is enough: the worker    *)
(* never sleeps on a filled queue unless a notification is on its way.     *)
NoLostNotification ==
  worker \in {"checked", "asleep"} /\ queue # << >> =>
    \E t \in Threads : logpc[t] = "pushed"

(* Every handler gets every event that was taken, in the same order; only  *)
(* the current one may be missing.                                         *)
HandlersAgree ==
  \A i \in 1..Len(handlers) :
    /\ i <= done => output[handlers[i]] = posted
    /\ i > done => output[handlers[i]] \o current = posted

(* "wait for the worker to be finished" (LogHandlerManager.cpp:68): when   *)
(* the manager is gone, every event logged before its destructor began has *)
(* reached every handler, also if other threads go on logging meanwhile.   *)
StopDrains ==
  exitpc = "destroyed" =>
    \A i \in 1..Len(handlers) : owed \subseteq ToSet(output[handlers[i]])

(* An event is handled sooner or later, unless the process exits.          *)
EventsAreHandled ==
  \A e \in Events :
    e \in ToSet(queue) ~> e \in ToSet(output[Console]) \/ exitpc # "running"

(* The same comment, "it exits after waiting for the worker to finish":    *)
(* the destructor comes to an end.                                         *)
StopCompletes == stop ~> exitpc = "destroyed"
=============================================================================
