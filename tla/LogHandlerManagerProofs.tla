---------------------- MODULE LogHandlerManagerProofs ----------------------
(***************************************************************************)
(* Proofs for LogHandlerManager, for any number of threads, events and     *)
(* handlers.                                                               *)
(***************************************************************************)
EXTENDS LogHandlerManager, SequenceTheorems, TLAPS

-----------------------------------------------------------------------------
(* Sequences stay sequences under what is done to the queue and the        *)
(* histories.                                                              *)
LEMMA SeqTypes ==
  ASSUME NEW S, NEW s \in Seq(S)
  PROVE  /\ \A x \in S : Append(s, x) \in Seq(S) /\ <<x>> \in Seq(S)
         /\ s # << >> => Head(s) \in S /\ Tail(s) \in Seq(S)
         /\ << >> \in Seq(S)
  BY HeadTailProperties, AppendProperties, EmptySeq

(* An element put at the end is the only new one.                          *)
LEMMA AppendElements ==
  ASSUME NEW S, NEW s \in Seq(S), NEW x \in S
  PROVE  ToSet(Append(s, x)) = ToSet(s) \cup {x}
  BY AppendProperties, LenProperties DEF ToSet

(* The elements of a queue are its head's and those of the rest.           *)
LEMMA HeadTailElements ==
  ASSUME NEW S, NEW s \in Seq(S), s # << >>
  PROVE  ToSet(s) = {Head(s)} \cup ToSet(Tail(s))
<1>1. /\ Len(s) \in Nat /\ DOMAIN s = 1..Len(s) /\ Len(s) # 0
      /\ Tail(s) \in Seq(S) /\ Len(Tail(s)) = Len(s) - 1
      /\ \A i \in 1..Len(Tail(s)) : Tail(s)[i] = s[i + 1]
      /\ Head(s) = s[1]
  BY HeadTailProperties, LenProperties, EmptySeq
<1>2. DOMAIN Tail(s) = 1..(Len(s) - 1)
  BY <1>1, LenProperties
<1>3. \A i \in 1..Len(s) : i = 1 \/ (i - 1 \in 1..(Len(s) - 1) /\ s[i] = Tail(s)[i - 1])
  BY <1>1
<1>4. ASSUME NEW x \in ToSet(s) PROVE x \in {Head(s)} \cup ToSet(Tail(s))
  <2>1. PICK i \in 1..Len(s) : x = s[i]
    BY <1>1 DEF ToSet
  <2>2. QED BY <2>1, <1>1, <1>2, <1>3 DEF ToSet
<1>5. ASSUME NEW x \in ToSet(Tail(s)) PROVE x \in ToSet(s)
  <2>1. PICK i \in 1..Len(Tail(s)) : x = Tail(s)[i]
    BY <1>5, <1>1, <1>2 DEF ToSet
  <2>2. i + 1 \in 1..Len(s) /\ x = s[i + 1]
    BY <2>1, <1>1
  <2>3. QED BY <2>2, <1>1 DEF ToSet
<1>6. Head(s) \in ToSet(s)
  BY <1>1 DEF ToSet
<1>7. QED BY <1>4, <1>5, <1>6

-----------------------------------------------------------------------------
(* Types.                                                                  *)

(* The initial state is well typed.                                        *)
LEMMA TypeInit == Init => TypeOK
<1> SUFFICES ASSUME Init PROVE TypeOK
  OBVIOUS
<1>1. << >> \in Seq(Events) /\ <<Console>> \in Seq(Handlers) /\ Len(<<Console>>) = 1
  BY SeqTypes, EmptySeq DEF Handlers
<1>2. output \in [Handlers -> Seq(Events)]
  BY <1>1 DEF Init
<1>3. handlers \in Seq(Handlers) /\ done \in 0..Len(handlers)
  BY <1>1 DEF Init
<1>4. QED BY <1>1, <1>2, <1>3 DEF Init, TypeOK

(* Every step keeps the types.                                             *)
LEMMA TypeStep == TypeOK /\ [Next]_vars => TypeOK'
<1> SUFFICES ASSUME TypeOK, [Next]_vars PROVE TypeOK'
  OBVIOUS
<1> USE DEF TypeOK
<1>1. ASSUME NEW h \in MoreHandlers, AddHandler(h) PROVE TypeOK'
  <2>1. handlers' \in Seq(Handlers) /\ Len(handlers') = Len(handlers) + 1
    BY <1>1, AppendProperties DEF AddHandler, Handlers
  <2>2. done' \in 0..Len(handlers')
    BY <1>1, <2>1, LenProperties DEF AddHandler
  <2>3. QED BY <1>1, <2>1, <2>2 DEF AddHandler
<1>2. ASSUME NEW t \in Threads, NEW e \in Events, PushEvent(t, e) PROVE TypeOK'
  <2>1. queue' \in Seq(Events)
    BY <1>2, SeqTypes DEF PushEvent
  <2>2. QED BY <1>2, <2>1 DEF PushEvent
<1>3. ASSUME NEW t \in Threads, NotifyAfterPush(t) PROVE TypeOK'
  BY <1>3 DEF NotifyAfterPush, Notify
<1>4. ASSUME CheckAndWait \/ Sleep \/ WakeSpuriously \/ Leave PROVE TypeOK'
  BY <1>4 DEF CheckAndWait, Sleep, WakeSpuriously, Leave
<1>5. ASSUME Take PROVE TypeOK'
  <2>1. /\ current' \in Seq(Events) /\ queue' \in Seq(Events)
        /\ posted' \in Seq(Events)
    BY <1>5, SeqTypes DEF Take
  <2>2. done' \in 0..Len(handlers')
    BY <1>5, LenProperties DEF Take
  <2>3. QED BY <1>5, <2>1, <2>2 DEF Take
<1>6. ASSUME PostEvent PROVE TypeOK'
  <2>1. Len(handlers) \in Nat
    BY LenProperties
  <2>2. done + 1 \in 1..Len(handlers)
    BY <1>6, <2>1 DEF PostEvent
  <2>3. handlers[done + 1] \in Handlers
    BY <2>2, ElementOfSeq
  <2>4. output[handlers[done + 1]] \o current \in Seq(Events)
    BY <2>3, ConcatProperties
  <2>5. output' \in [Handlers -> Seq(Events)]
    BY <1>6, <2>3, <2>4 DEF PostEvent
  <2>6. QED BY <1>6, <2>2, <2>5 DEF PostEvent
<1>7. ASSUME EventPosted PROVE TypeOK'
  <2>1. current' \in Seq(Events) /\ done' \in 0..Len(handlers')
    BY <1>7, SeqTypes, LenProperties DEF EventPosted
  <2>2. QED BY <1>7, <2>1 DEF EventPosted
<1>8. ASSUME StoreStop \/ Destructor PROVE TypeOK'
  BY <1>8 DEF StoreStop, Destructor, NotifyStop, Notify, Join
<1>9. ASSUME UNCHANGED vars PROVE TypeOK'
  BY <1>9 DEF vars
<1>10. QED
  BY <1>1, <1>2, <1>3, <1>4, <1>5, <1>6, <1>7, <1>8, <1>9 DEF Next, Worker

(* Every variable of the logger keeps its type, in every behaviour.        *)
THEOREM TypeCorrect == Spec => []TypeOK
  BY TypeInit, TypeStep, PTL DEF Spec

-----------------------------------------------------------------------------
(* What the worker's place says of the event in its hand, of the queue     *)
(* and of the destructor.                                                  *)
Places ==
  /\ worker # "post" => current = << >> /\ done = 0
  /\ worker = "post" => \E e \in Events : current = <<e>>
  /\ worker = "checked" => queue = << >>
  /\ worker = "left" => stop
  /\ stop = (exitpc # "running")
  /\ exitpc = "destroyed" => worker = "left"

(* The worker starts with nothing in its hand.                             *)
LEMMA PlacesInit == Init => Places
  BY DEF Init, Places

(* The mutex, held from the check to the sleep, keeps the queue empty.     *)
LEMMA PlacesStep == TypeOK /\ Places /\ [Next]_vars => Places'
<1> SUFFICES ASSUME TypeOK, Places, [Next]_vars PROVE Places'
  OBVIOUS
<1> USE DEF Places
<1>1. ASSUME NEW h \in MoreHandlers, AddHandler(h) PROVE Places'
  BY <1>1 DEF AddHandler
<1>2. ASSUME NEW t \in Threads, NEW e \in Events, PushEvent(t, e) PROVE Places'
  BY <1>2 DEF PushEvent, MutexFree
<1>3. ASSUME NEW t \in Threads, NotifyAfterPush(t) PROVE Places'
  BY <1>3 DEF NotifyAfterPush, Notify, Alive
<1>4. ASSUME CheckAndWait \/ Sleep \/ WakeSpuriously \/ Leave PROVE Places'
  BY <1>4 DEF CheckAndWait, Sleep, WakeSpuriously, Leave, Predicate
<1>5. ASSUME Take PROVE Places'
  <2>1. Head(queue) \in Events
    BY <1>5, SeqTypes DEF Take, TypeOK
  <2>2. QED BY <1>5, <2>1 DEF Take
<1>6. ASSUME PostEvent \/ EventPosted PROVE Places'
  BY <1>6 DEF PostEvent, EventPosted
<1>7. ASSUME StoreStop \/ Destructor PROVE Places'
  BY <1>7 DEF StoreStop, Destructor, NotifyStop, Notify, Join
<1>8. ASSUME UNCHANGED vars PROVE Places'
  BY <1>8 DEF vars
<1>9. QED
  BY <1>1, <1>2, <1>3, <1>4, <1>5, <1>6, <1>7, <1>8 DEF Next, Worker

(* Both hold throughout every behaviour.                                   *)
LEMMA PlacesHold == Spec => [](TypeOK /\ Places)
  BY TypeInit, TypeStep, PlacesInit, PlacesStep, PTL DEF Spec

-----------------------------------------------------------------------------
(* No notification is lost between push and sleep.                         *)

(* A push leaves its thread before its notification; a notification leaves *)
(* no sleeper; the worker goes to sleep on an empty queue only.            *)
LEMMA NotificationStep ==
  TypeOK /\ Places /\ NoLostNotification /\ [Next]_vars => NoLostNotification'
<1> SUFFICES ASSUME TypeOK, Places, NoLostNotification, [Next]_vars
             PROVE  NoLostNotification'
  OBVIOUS
<1> USE DEF NoLostNotification
<1>1. ASSUME NEW h \in MoreHandlers, AddHandler(h) PROVE NoLostNotification'
  BY <1>1 DEF AddHandler
<1>2. ASSUME NEW t \in Threads, NEW e \in Events, PushEvent(t, e)
      PROVE  NoLostNotification'
  <2>1. logpc'[t] = "pushed"
    BY <1>2 DEF PushEvent, TypeOK
  <2>2. QED BY <2>1
<1>3. ASSUME NEW t \in Threads, NotifyAfterPush(t) PROVE NoLostNotification'
  BY <1>3 DEF NotifyAfterPush, Notify, Places
<1>4. ASSUME CheckAndWait \/ Sleep \/ WakeSpuriously \/ Leave
      PROVE  NoLostNotification'
  BY <1>4 DEF CheckAndWait, Sleep, WakeSpuriously, Leave, Predicate, Places
<1>5. ASSUME Take \/ PostEvent \/ EventPosted PROVE NoLostNotification'
  BY <1>5 DEF Take, PostEvent, EventPosted
<1>6. ASSUME StoreStop \/ Destructor PROVE NoLostNotification'
  BY <1>6 DEF StoreStop, Destructor, NotifyStop, Notify, Join
<1>7. ASSUME UNCHANGED vars PROVE NoLostNotification'
  BY <1>7 DEF vars
<1>8. QED BY <1>1, <1>2, <1>3, <1>4, <1>5, <1>6, <1>7 DEF Next, Worker

(* pushEvent() notifies after it has unlocked, and no schedule of any      *)
(* number of threads leaves the worker asleep on an event.                 *)
THEOREM NoLostNotificationHolds == Spec => []NoLostNotification
<1>1. Init => NoLostNotification
  BY DEF Init, NoLostNotification
<1>2. QED BY <1>1, NotificationStep, PlacesHold, PTL DEF Spec

-----------------------------------------------------------------------------
(* Queue, mutex and condition variable are one queue.                      *)

(* A push enqueues, the worker's pop executes, and nothing else is seen.   *)
LEMMA RefinementStep == TypeOK /\ [Next]_vars => [LQ!Next]_(LQ!vars)
<1> SUFFICES ASSUME TypeOK, [Next]_vars PROVE [LQ!Next]_(LQ!vars)
  OBVIOUS
<1>1. ASSUME NEW t \in Threads, NEW e \in Events, PushEvent(t, e)
      PROVE  LQ!Enqueue(e)
  BY <1>1 DEF PushEvent, LQ!Enqueue
<1>2. ASSUME Take PROVE LQ!Execute
  BY <1>2 DEF Take, LQ!Execute
<1>3. ASSUME UNCHANGED <<queue, posted>> PROVE UNCHANGED LQ!vars
  BY <1>3 DEF LQ!vars
<1>4. ASSUME NEW h \in MoreHandlers, AddHandler(h) PROVE UNCHANGED LQ!vars
  BY <1>3, <1>4 DEF AddHandler
<1>5. ASSUME NEW t \in Threads, NotifyAfterPush(t) PROVE UNCHANGED LQ!vars
  BY <1>3, <1>5 DEF NotifyAfterPush
<1>6. ASSUME \/ CheckAndWait \/ Sleep \/ WakeSpuriously \/ Leave
             \/ PostEvent \/ EventPosted \/ StoreStop \/ Destructor
      PROVE  UNCHANGED LQ!vars
  BY <1>3, <1>6 DEF CheckAndWait, Sleep, WakeSpuriously, Leave, PostEvent,
                    EventPosted, StoreStop, Destructor, NotifyStop, Join
<1>7. ASSUME UNCHANGED vars PROVE UNCHANGED LQ!vars
  BY <1>3, <1>7 DEF vars
<1>8. QED
  BY <1>1, <1>2, <1>4, <1>5, <1>6, <1>7 DEF Next, Worker, LQ!Next

(* The logger takes each event once, in the order in which they were       *)
(* pushed, whatever the threads, the worker and the destructor do.         *)
THEOREM Refinement == Spec => RefinesFunctorQueue
<1>1. Init => LQ!Init
  BY DEF Init, LQ!Init
<1>2. Spec => LQ!Init /\ [][LQ!Next]_(LQ!vars)
  BY <1>1, RefinementStep, TypeCorrect, PTL DEF Spec
<1>3. QED BY <1>2, PTL DEF RefinesFunctorQueue, LQ!Spec
-----------------------------------------------------------------------------
(* Every handler is given the same events. Handlers differ from each       *)
(* other, and nothing has happened when one is added.                      *)
Distinct ==
  \A i, j \in 1..Len(handlers) : handlers[i] = handlers[j] => i = j

Untouched ==
  fresh = Events =>
    /\ queue = << >> /\ current = << >> /\ posted = << >>
    /\ output = [h \in Handlers |-> << >>]

(* A handler is only added once.                                           *)
LEMMA DistinctStep == TypeOK /\ Distinct /\ [Next]_vars => Distinct'
<1> SUFFICES ASSUME TypeOK, Distinct, [Next]_vars PROVE Distinct'
  OBVIOUS
<1>1. ASSUME NEW h \in MoreHandlers, AddHandler(h) PROVE Distinct'
  <2>1. /\ handlers \in Seq(Handlers) /\ Len(handlers) \in Nat
        /\ DOMAIN handlers = 1..Len(handlers)
    BY LenProperties DEF TypeOK
  <2>2. /\ handlers' = Append(handlers, h) /\ Len(handlers') = Len(handlers) + 1
        /\ \A i \in 1..Len(handlers) : handlers'[i] = handlers[i]
        /\ handlers'[Len(handlers) + 1] = h
    BY <1>1, <2>1, AppendProperties DEF AddHandler, Handlers
  <2>3. \A i \in 1..Len(handlers) : handlers[i] # h
    BY <1>1, <2>1 DEF AddHandler, ToSet
  <2>4. QED BY <2>1, <2>2, <2>3 DEF Distinct
<1>2. ASSUME UNCHANGED handlers PROVE Distinct'
  BY <1>2 DEF Distinct
<1>3. QED
  BY <1>1, <1>2 DEF Next, Worker, PushEvent, NotifyAfterPush, CheckAndWait, Sleep,
                    WakeSpuriously, Leave, Take, PostEvent, EventPosted, StoreStop,
                    Destructor, NotifyStop, Join, vars

(* Handlers are added before the first event, so nothing is missed.        *)
LEMMA UntouchedStep == TypeOK /\ Places /\ Untouched /\ [Next]_vars => Untouched'
<1> SUFFICES ASSUME TypeOK, Places, Untouched, [Next]_vars PROVE Untouched'
  OBVIOUS
<1> USE DEF Untouched
<1>1. ASSUME NEW t \in Threads, NEW e \in Events, PushEvent(t, e) PROVE Untouched'
  BY <1>1 DEF PushEvent
<1>2. ASSUME UNCHANGED <<queue, current, posted, output, fresh>> PROVE Untouched'
  BY <1>2
<1>3. ASSUME Take \/ PostEvent \/ EventPosted PROVE Untouched'
  BY <1>3 DEF Take, PostEvent, EventPosted, Places
<1>4. QED
  BY <1>1, <1>2, <1>3 DEF Next, Worker, AddHandler, NotifyAfterPush, CheckAndWait,
                          Sleep, WakeSpuriously, Leave, StoreStop, Destructor,
                          NotifyStop, Join, vars

(* Handler after handler gets the event in hand; with the last one the hand*)
(* is empty.                                                               *)
LEMMA AgreeStep ==
  TypeOK /\ Places /\ Distinct /\ Untouched /\ HandlersAgree /\ [Next]_vars
    => HandlersAgree'
<1> SUFFICES ASSUME TypeOK, Places, Distinct, Untouched, HandlersAgree, [Next]_vars
             PROVE  HandlersAgree'
  OBVIOUS
<1>t. /\ handlers \in Seq(Handlers) /\ Len(handlers) \in Nat
      /\ \A i \in 1..Len(handlers) : handlers[i] \in Handlers
      /\ \A i \in 1..Len(handlers) : output[handlers[i]] \in Seq(Events)
      /\ current \in Seq(Events) /\ posted \in Seq(Events) /\ queue \in Seq(Events)
      /\ done \in 0..Len(handlers)
  BY LenProperties, ElementOfSeq DEF TypeOK
<1>a. ASSUME NEW i \in 1..Len(handlers)
      PROVE  /\ i <= done => output[handlers[i]] = posted
             /\ i > done => output[handlers[i]] \o current = posted
  BY Zenon DEF HandlersAgree
<1>1. ASSUME NEW h \in MoreHandlers, AddHandler(h) PROVE HandlersAgree'
  <2>1. /\ current' = << >> /\ posted' = << >> /\ output' = [x \in Handlers |-> << >>]
    BY <1>1 DEF AddHandler, Untouched
  <2>2. \A i \in 1..Len(handlers') : handlers'[i] \in Handlers
    BY <1>1, <1>t, AppendProperties, ElementOfSeq DEF AddHandler, Handlers
  <2>3. << >> \o << >> = << >>
    BY SeqTypes, ConcatEmptySeq
  <2>4. QED BY <2>1, <2>2, <2>3 DEF HandlersAgree
<1>2. ASSUME Take PROVE HandlersAgree'
  <2>1. /\ current = << >> /\ done' = 0 /\ handlers' = handlers /\ output' = output
        /\ Head(queue) \in Events /\ current' = <<Head(queue)>>
        /\ posted' = Append(posted, Head(queue))
    BY <1>2, <1>t, SeqTypes DEF Take, Places
  <2>2. ASSUME NEW i \in 1..Len(handlers) PROVE output[handlers[i]] = posted
    BY <2>1, <1>t, <1>a, ConcatEmptySeq
  <2>3. posted \o <<Head(queue)>> = Append(posted, Head(queue))
    BY <2>1, <1>t, AppendIsConcat
  <2>4. ASSUME NEW i \in 1..Len(handlers)
        PROVE  /\ ~ (i <= 0)
               /\ output[handlers[i]] \o <<Head(queue)>> = Append(posted, Head(queue))
    <3>1. ~ (i <= 0)
      BY <1>t
    <3>2. output[handlers[i]] \o <<Head(queue)>> = Append(posted, Head(queue))
      BY <2>2, <2>3, Zenon
    <3>3. QED BY <3>1, <3>2
  <2>5. QED BY <2>1, <2>4 DEF HandlersAgree
<1>3. ASSUME PostEvent PROVE HandlersAgree'
  <2> DEFINE k == done + 1
  <2>1. /\ k \in 1..Len(handlers) /\ done' = k
        /\ handlers' = handlers /\ posted' = posted /\ current' = current
    BY <1>3, <1>t DEF PostEvent
  <2>2. output'[handlers[k]] = output[handlers[k]] \o current
    BY <1>3, <1>t, <2>1 DEF PostEvent, TypeOK
  <2>3. output[handlers[k]] \o current = posted
    <3>1. k > done
      BY <1>t
    <3>2. QED BY <2>1, <3>1, <1>a, Zenon
  <2>5. ASSUME NEW i \in 1..Len(handlers), i # k
        PROVE  output'[handlers[i]] = output[handlers[i]]
    <3>1. handlers[i] # handlers[k]
      BY <2>1, <2>5 DEF Distinct
    <3>2. QED BY <1>3, <1>t, <3>1 DEF PostEvent, TypeOK
  <2>6. ASSUME NEW i \in 1..Len(handlers)
        PROVE  /\ i <= k => output'[handlers[i]] = posted
               /\ i > k => output'[handlers[i]] \o current = posted
    <3>1. CASE i = k
      BY <3>1, <2>2, <2>3, <1>t
    <3>2. CASE i # k
      <4>1. (i <= k <=> i <= done) /\ (i > k <=> i > done)
        BY <3>2, <1>t
      <4>2. output'[handlers[i]] = output[handlers[i]]
        BY <3>2, <2>5
      <4>3. QED BY <4>1, <4>2, <1>a, Zenon
    <3>3. QED BY <3>1, <3>2
  <2>7. QED BY <2>1, <2>6 DEF HandlersAgree
<1>4. ASSUME EventPosted PROVE HandlersAgree'
  <2>1. /\ done = Len(handlers) /\ handlers' = handlers /\ posted' = posted
        /\ output' = output /\ current' = << >>
    BY <1>4 DEF EventPosted
  <2>2. ASSUME NEW i \in 1..Len(handlers)
        PROVE  output[handlers[i]] = posted /\ output[handlers[i]] \o << >> = posted
    BY <2>1, <1>t, ConcatEmptySeq DEF HandlersAgree
  <2>3. QED BY <2>1, <2>2 DEF HandlersAgree
<1>5. ASSUME UNCHANGED <<handlers, output, current, posted, done>> PROVE HandlersAgree'
  BY <1>5 DEF HandlersAgree
<1>6. QED
  BY <1>1, <1>2, <1>3, <1>4, <1>5 DEF Next, Worker, PushEvent, NotifyAfterPush,
     CheckAndWait, Sleep, WakeSpuriously, Leave, StoreStop, Destructor, NotifyStop,
     Join, vars

AgreeInv == TypeOK /\ Places /\ Distinct /\ Untouched /\ HandlersAgree

(* The whole of it is an inductive invariant.                              *)
LEMMA AgreeInvHolds == Spec => []AgreeInv
<1>1. Init => Distinct /\ Untouched /\ HandlersAgree
  <2> SUFFICES ASSUME Init PROVE Distinct /\ Untouched /\ HandlersAgree
    OBVIOUS
  <2>1. Len(<<Console>>) = 1 /\ <<Console>>[1] = Console /\ << >> \o << >> = << >>
    BY SeqTypes, ConcatEmptySeq
  <2>2. Distinct
    BY <2>1 DEF Init, Distinct
  <2>3. Untouched
    BY DEF Init, Untouched
  <2>4. HandlersAgree
    BY <2>1 DEF Init, HandlersAgree, Handlers
  <2>5. QED BY <2>2, <2>3, <2>4
<1>2. QED
  BY <1>1, TypeInit, TypeStep, PlacesInit, PlacesStep, DistinctStep, UntouchedStep,
     AgreeStep, PTL DEF Spec, AgreeInv

(* All handlers, however many, get the events the worker took, in its      *)
(* order; only the event in its hand may be missing in some.               *)
THEOREM HandlersAgreeHolds == Spec => []HandlersAgree
  BY AgreeInvHolds, PTL DEF AgreeInv

-----------------------------------------------------------------------------
(* The destructor drains the queue: what was logged before it is in the    *)
(* queue or taken, and the worker leaves only with an empty queue.         *)
Owing ==
  /\ owed \subseteq ToSet(queue) \cup ToSet(posted)
  /\ worker = "left" => owed \subseteq ToSet(posted)

(* What is owed moves from the queue to the worker, which leaves when the  *)
(* queue is empty; what is pushed later is owed no more.                   *)
LEMMA OwingStep == TypeOK /\ Places /\ Owing /\ [Next]_vars => Owing'
<1> SUFFICES ASSUME TypeOK, Places, Owing, [Next]_vars PROVE Owing'
  OBVIOUS
<1> USE DEF Owing
<1>t. queue \in Seq(Events) /\ posted \in Seq(Events)
  BY DEF TypeOK
<1>1. ASSUME NEW t \in Threads, NEW e \in Events, PushEvent(t, e) PROVE Owing'
  <2>1. ToSet(queue') = ToSet(queue) \cup {e} /\ posted' = posted
    BY <1>1, <1>t, AppendElements DEF PushEvent
  <2>2. (owed' = owed) \/ (exitpc = "running" /\ owed' = owed \cup {e})
    BY <1>1 DEF PushEvent
  <2>3. worker' = worker
    BY <1>1 DEF PushEvent
  <2>4. QED BY <2>1, <2>2, <2>3 DEF Places
<1>2. ASSUME Take PROVE Owing'
  <2>1. Head(queue) \in Events /\ queue # << >>
    BY <1>2, <1>t, SeqTypes DEF Take
  <2>2. ToSet(queue) = {Head(queue)} \cup ToSet(queue')
    BY <1>2, <1>t, HeadTailElements DEF Take
  <2>3. ToSet(posted') = ToSet(posted) \cup {Head(queue)}
    BY <1>2, <1>t, <2>1, AppendElements DEF Take
  <2>4. QED BY <1>2, <2>2, <2>3 DEF Take
<1>3. ASSUME Leave PROVE Owing'
  <2>1. ToSet(queue) = {}
    BY <1>3, EmptySeq DEF Leave, ToSet
  <2>2. QED BY <1>3, <2>1 DEF Leave
<1>4. ASSUME UNCHANGED <<queue, posted, owed>>, worker' # "left" \/ worker' = worker
      PROVE  Owing'
  BY <1>4
<1>5. QED
  BY <1>1, <1>2, <1>3, <1>4 DEF Next, Worker, AddHandler, NotifyAfterPush, Notify,
     CheckAndWait, Sleep, WakeSpuriously, PostEvent, EventPosted, StoreStop,
     Destructor, NotifyStop, Join, vars

(* When the manager is gone, every event logged before has reached every   *)
(* handler: the worker has left, with nothing in its hand.                 *)
THEOREM StopDrainsHolds == Spec => []StopDrains
<1>1. Init => Owing
  BY DEF Init, Owing
<1>2. AgreeInv /\ Owing => StopDrains
  <2> SUFFICES ASSUME AgreeInv, Owing, exitpc = "destroyed", NEW i \in 1..Len(handlers)
               PROVE  owed \subseteq ToSet(output[handlers[i]])
    BY DEF StopDrains
  <2>1. worker = "left" /\ current = << >>
    BY DEF AgreeInv, Places
  <2>2. output[handlers[i]] \in Seq(Events)
    BY ElementOfSeq DEF AgreeInv, TypeOK
  <2>3. output[handlers[i]] = posted
    <3>1. \/ output[handlers[i]] = posted \/ output[handlers[i]] \o << >> = posted
      <4>1. i <= done \/ i > done
        BY LenProperties DEF AgreeInv, TypeOK
      <4>2. QED BY <2>1, <4>1, Zenon DEF AgreeInv, HandlersAgree
    <3>2. QED BY <3>1, <2>2, ConcatEmptySeq
  <2>4. QED BY <2>1, <2>3 DEF Owing
<1>3. AgreeInv => TypeOK /\ Places
  BY DEF AgreeInv
<1>4. QED BY <1>1, <1>2, <1>3, OwingStep, AgreeInvHolds, PTL DEF Spec
=============================================================================
