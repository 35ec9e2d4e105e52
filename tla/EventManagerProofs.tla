------------------------- MODULE EventManagerProofs -------------------------
(***************************************************************************)
(* Proofs about EventManager for any number of tasks, listeners and queue  *)
(* places.  The argument follows one sequence, Accepted: everything that   *)
(* ever entered the queue.  Only Enqueue changes it (it appends), so order *)
(* and completeness are invariants of that sequence; what a listener was   *)
(* given is a prefix of it (HandledArePrefixes), and events on their way   *)
(* are its other end, which makes them distinct and settles who owns a     *)
(* data block.                                                             *)
(***************************************************************************)
EXTENDS EventManager, TLAPS, SequenceTheorems

\* How many events of each task have entered the queue.
Taken == [t \in Tasks |-> IF pending[t] = NoEvent THEN sent[t] ELSE sent[t] - 1]

\* A task is blocked with the event it has started last.
PendingIsNewest ==
  \A t \in Tasks :
    pending[t] # NoEvent => pending[t].task = t /\ pending[t].seq = sent[t]

Last == handled[ListenerCount]

\* Listeners before the cursor have the current event, the others lack it.
HandledArePrefixes ==
  \A l \in Listeners :
    handled[l] = IF current # NoEvent /\ cursor <= ListenerCount /\ l < cursor
                 THEN Append(Last, current) ELSE Last

\* After the last listener the current event is the newest one it was given.
LastHandledIsCurrent ==
  current # NoEvent /\ cursor = ListenerCount + 1 =>
    Len(Last) > 0 /\ Last[Len(Last)] = current

\* The events of a task are accepted in order, without a gap, up to Taken.
InOrder(log) ==
  \A i \in 1..Len(log) :
    /\ \A j \in 1..(i - 1) : log[j].task = log[i].task => log[j].seq < log[i].seq
    /\ log[i].seq > 1 => \E j \in 1..(i - 1) : Successor(log[j], log[i])

UpTo(log, taken) ==
  /\ \A i \in 1..Len(log) : log[i].seq <= taken[log[i].task]
  /\ \A t \in Tasks : taken[t] > 0 =>
       \E i \in 1..Len(log) : log[i].task = t /\ log[i].seq = taken[t]

AcceptedInOrder == InOrder(Accepted) /\ UpTo(Accepted, Taken)

Inv ==
  /\ TypeOK
  /\ PendingIsNewest
  /\ HandledArePrefixes
  /\ LastHandledIsCurrent
  /\ AcceptedInOrder
  /\ DataBlockLivesWithItsEvent

-----------------------------------------------------------------------------
(* Types *)

\* The event a task pushes next is an event.
LEMMA NewEventType ==
  ASSUME TypeOK, NEW t \in Tasks, NEW owned \in BOOLEAN, sent[t] < MaxPushes
  PROVE  NewEvent(t, owned) \in Event /\ NewEvent(t, owned) # NoEvent
<1>1. sent[t] + 1 \in 1..MaxPushes
  BY EventManagerAssumption DEF TypeOK
<1>2. NewEvent(t, owned) \in Event
  BY <1>1 DEF NewEvent, Event
<1> QED
  BY <1>2, NoEventAssumption

LEMMA InitTypeOK == Init => TypeOK
<1> SUFFICES ASSUME Init PROVE TypeOK
  OBVIOUS
<1> DEFINE boot(t) == [task |-> t, seq |-> 1, owned |-> FALSE]
<1>1. \A t \in Tasks : boot(t) \in Event
  BY EventManagerAssumption DEF Event
<1>2. pending \in [Tasks -> Event \cup {NoEvent}] /\ sent \in [Tasks -> 0..MaxPushes]
  <2>1. pending = [t \in Tasks |-> IF t = MainTask THEN boot(t) ELSE NoEvent]
    BY DEF Init
  <2> HIDE DEF boot
  <2>2. pending \in [Tasks -> Event \cup {NoEvent}]
    BY <1>1, <2>1
  <2> QED
    BY <2>2, EventManagerAssumption DEF Init
<1>3. queue \in Seq(Event) /\ Len(queue) <= QueueSize
  BY EventManagerAssumption DEF Init
<1>4. handled \in [Listeners -> Seq(Event)]
  BY DEF Init
<1> QED
  BY <1>2, <1>3, <1>4, EventManagerAssumption DEF Init, TypeOK

LEMMA NextTypeOK == TypeOK /\ [Next]_vars => TypeOK'
<1> SUFFICES ASSUME TypeOK, [Next]_vars PROVE TypeOK'
  OBVIOUS
<1>1. ASSUME NEW t \in Tasks, NEW owned \in BOOLEAN, PushEvent(t, owned)
      PROVE  TypeOK'
  <2>1. NewEvent(t, owned) \in Event
    BY <1>1, NewEventType DEF PushEvent
  <2>2. pending' \in [Tasks -> Event \cup {NoEvent}] /\ heap' \subseteq Event
    BY <1>1, <2>1 DEF PushEvent, TypeOK
  <2>3. sent' \in [Tasks -> 0..MaxPushes]
    BY <1>1, EventManagerAssumption DEF PushEvent, TypeOK
  <2> QED
    BY <1>1, <2>2, <2>3 DEF PushEvent, TypeOK
<1>2. ASSUME NEW t \in Tasks, Enqueue(t)
      PROVE  TypeOK'
  <2>1. pending[t] \in Event
    BY <1>2 DEF Enqueue, TypeOK
  <2>2. queue' \in Seq(Event) /\ Len(queue') <= QueueSize
    BY <1>2, <2>1, EventManagerAssumption DEF Enqueue, TypeOK
  <2>3. pending' \in [Tasks -> Event \cup {NoEvent}]
    BY <1>2 DEF Enqueue, TypeOK
  <2> QED
    BY <1>2, <2>2, <2>3 DEF Enqueue, TypeOK
<1>3. CASE Receive
  <2>1. Head(queue) \in Event /\ Tail(queue) \in Seq(Event) /\ Len(Tail(queue)) = Len(queue) - 1
    BY <1>3, HeadTailProperties DEF Receive, TypeOK
  <2>2. Len(queue') <= QueueSize
    BY <1>3, <2>1, EventManagerAssumption DEF Receive, TypeOK
  <2> QED
    BY <1>3, <2>1, <2>2, EventManagerAssumption DEF Receive, TypeOK
<1>4. CASE FireListener
  <2>1. cursor \in Listeners /\ cursor' \in 1..(ListenerCount + 1) /\ current \in Event
    BY <1>4, EventManagerAssumption DEF FireListener, TypeOK, Listeners
  <2>2. handled' \in [Listeners -> Seq(Event)]
    BY <1>4, <2>1 DEF FireListener, TypeOK
  <2>3. pending' \in [Tasks -> Event \cup {NoEvent}] /\ sent' \in [Tasks -> 0..MaxPushes]
    <3>1. CASE UNCHANGED <<pending, sent>>
      BY <3>1 DEF TypeOK
    <3>2. CASE /\ sent[MainTask] < MaxPushes
               /\ pending' = [pending EXCEPT ![MainTask] = NewEvent(MainTask, FALSE)]
               /\ sent' = [sent EXCEPT ![MainTask] = @ + 1]
      <4> DEFINE e == NewEvent(MainTask, FALSE)
      <4>1. e \in Event
        BY <3>2, NewEventType, EventManagerAssumption
      <4>2. pending' = [pending EXCEPT ![MainTask] = e]
        BY <3>2
      <4> HIDE DEF e
      <4>3. pending' \in [Tasks -> Event \cup {NoEvent}]
        BY <4>1, <4>2 DEF TypeOK
      <4>4. sent' \in [Tasks -> 0..MaxPushes]
        BY <3>2, EventManagerAssumption DEF TypeOK
      <4> QED
        BY <4>3, <4>4
    <3> QED
      BY <1>4, <3>1, <3>2 DEF FireListener
  <2> QED
    BY <1>4, <2>1, <2>2, <2>3 DEF FireListener, TypeOK
<1>5. CASE FinishDispatch
  BY <1>5 DEF FinishDispatch, TypeOK
<1>6. CASE UNCHANGED vars
  BY <1>6 DEF vars, TypeOK
<1> QED
  BY <1>1, <1>2, <1>3, <1>4, <1>5, <1>6 DEF Next

\* Every variable keeps its type, the queue its length.
THEOREM TypeCorrect == Spec => []TypeOK
  BY InitTypeOK, NextTypeOK, PTL DEF Spec

-----------------------------------------------------------------------------
(* The accepted events *)

\* The part of Accepted between the last listener and the queue.
Undelivered == IF current # NoEvent /\ cursor <= ListenerCount THEN <<current>> ELSE <<>>

LEMMA AcceptedType ==
  ASSUME TypeOK
  PROVE  /\ Accepted = Last \o Undelivered \o queue
         /\ Last \in Seq(Event) /\ Undelivered \in Seq(Event) /\ queue \in Seq(Event)
         /\ Accepted \in Seq(Event)
<1>1. Accepted = Last \o Undelivered \o queue
  BY DEF Accepted, Last, Undelivered
<1>2. Last \in Seq(Event) /\ queue \in Seq(Event)
  BY EventManagerAssumption DEF TypeOK, Last, Listeners
<1>3. Undelivered \in Seq(Event)
  <2>1. CASE current # NoEvent /\ cursor <= ListenerCount
    <3>1. current \in Event
      BY <2>1 DEF TypeOK
    <3> QED
      BY <2>1, <3>1 DEF Undelivered
  <2>2. CASE ~(current # NoEvent /\ cursor <= ListenerCount)
    <3>1. Undelivered = <<>>
      BY <2>2 DEF Undelivered
    <3> QED
      BY <3>1, EmptySeq
  <2> QED
    BY <2>1, <2>2
<1>4. Last \o Undelivered \in Seq(Event)
  BY <1>2, <1>3, ConcatProperties
<1> QED
  BY <1>1, <1>2, <1>3, <1>4, ConcatProperties

\* xQueueSend appends to what was accepted.
LEMMA EnqueueAppends ==
  ASSUME TypeOK, NEW t \in Tasks, Enqueue(t)
  PROVE  Accepted' = Append(Accepted, pending[t]) /\ pending[t] \in Event
<1>1. pending[t] \in Event
  BY DEF Enqueue, TypeOK
<1> DEFINE front == Last \o Undelivered
<1>2. front \in Seq(Event)
  BY AcceptedType, ConcatProperties
<1>3. Accepted = front \o queue /\ Accepted' = front \o Append(queue, pending[t])
  BY DEF Accepted, Last, Undelivered, Enqueue
<1> HIDE DEF front
<1>4. front \o Append(queue, pending[t]) = front \o (queue \o <<pending[t]>>)
  BY <1>1, AcceptedType, AppendIsConcat
<1>5. <<pending[t]>> \in Seq(Event)
  BY <1>1
<1>6. front \o (queue \o <<pending[t]>>) = (front \o queue) \o <<pending[t]>>
  BY <1>2, <1>5, AcceptedType, ConcatAssociative
<1>7. Append(Accepted, pending[t]) = Accepted \o <<pending[t]>>
  BY <1>1, AcceptedType, AppendIsConcat
<1> QED
  BY <1>1, <1>3, <1>4, <1>6, <1>7

\* xQueueReceive only moves the boundary between the queue and current.
LEMMA ReceiveKeepsAccepted ==
  ASSUME TypeOK, Receive
  PROVE  Accepted' = Accepted
<1>1. Accepted = Last \o <<>> \o queue
  BY AcceptedType DEF Receive, Undelivered
<1>2. Accepted = Last \o queue
  BY <1>1, AcceptedType, ConcatEmptySeq
<1>3. Head(queue) \in Event /\ Tail(queue) \in Seq(Event)
  BY HeadTailProperties DEF Receive, TypeOK
<1>4. current' # NoEvent /\ cursor' <= ListenerCount
  BY <1>3, NoEventAssumption, EventManagerAssumption DEF Receive
<1>5. Accepted' = (Last \o <<Head(queue)>>) \o Tail(queue)
  BY <1>4 DEF Receive, Accepted, Last
<1>6. <<Head(queue)>> \in Seq(Event)
  BY <1>3
<1>7. Accepted' = Last \o (<<Head(queue)>> \o Tail(queue))
  <2>1. Last \in Seq(Event)
    BY AcceptedType
  <2>2. (Last \o <<Head(queue)>>) \o Tail(queue) = Last \o (<<Head(queue)>> \o Tail(queue))
    BY <1>3, <1>6, <2>1, ConcatAssociative
  <2> QED
    BY <1>5, <2>2
<1>8. queue = <<Head(queue)>> \o Tail(queue)
  BY <1>3, <1>6 DEF Receive, TypeOK
<1> QED
  BY <1>2, <1>7, <1>8

\* Handing the current event to the last listener moves the other boundary.
LEMMA FireKeepsAccepted ==
  ASSUME TypeOK, FireListener
  PROVE  Accepted' = Accepted
<1>1. cursor \in Listeners /\ current \in Event /\ cursor' = cursor + 1
  BY EventManagerAssumption DEF FireListener, TypeOK, Listeners
<1>2. CASE cursor = ListenerCount
  <2>1. Last' = Append(Last, current)
    BY <1>1, <1>2 DEF FireListener, Last, TypeOK
  <2>2. Undelivered = <<current>> /\ Undelivered' = <<>>
    BY <1>1, <1>2, EventManagerAssumption DEF FireListener, Undelivered
  <2>3. Append(Last, current) = Last \o <<current>> /\ Append(Last, current) \in Seq(Event)
    BY <1>1, AcceptedType, AppendIsConcat, AppendProperties
  <2>4. Accepted' = Last' \o Undelivered' \o queue
    BY DEF FireListener, Accepted, Last, Undelivered
  <2>5. Last' \o Undelivered' = Last'
    BY <2>1, <2>2, <2>3, ConcatEmptySeq
  <2> QED
    BY <2>1, <2>2, <2>3, <2>4, <2>5, AcceptedType
<1>3. CASE cursor # ListenerCount
  <2>1. Last' = Last
    BY <1>1, <1>3, EventManagerAssumption DEF FireListener, Last, TypeOK, Listeners
  <2>2. cursor <= ListenerCount /\ cursor' <= ListenerCount /\ current' = current
    BY <1>1, <1>3, EventManagerAssumption DEF FireListener, Listeners
  <2> QED
    BY <2>1, <2>2 DEF FireListener, Accepted, Last
<1> QED
  BY <1>2, <1>3

\* The current event has been given to the last listener already.
LEMMA FinishKeepsAccepted ==
  ASSUME TypeOK, FinishDispatch
  PROVE  Accepted' = Accepted
<1>1. ~(cursor <= ListenerCount)
  BY EventManagerAssumption DEF FinishDispatch
<1> QED
  BY <1>1 DEF FinishDispatch, Accepted

\* A push only makes an event pending.
LEMMA PushKeepsAccepted ==
  ASSUME NEW t \in Tasks, NEW owned \in BOOLEAN, PushEvent(t, owned)
  PROVE  Accepted' = Accepted
  BY DEF PushEvent, Accepted

-----------------------------------------------------------------------------
(* Order of the accepted events *)

\* An event that follows the newest one of its task keeps the order.
LEMMA AppendInOrder ==
  ASSUME NEW log \in Seq(Event), InOrder(log), NEW e \in Event,
         \A i \in 1..Len(log) : log[i].task = e.task => log[i].seq < e.seq,
         e.seq > 1 => \E i \in 1..Len(log) : Successor(log[i], e)
  PROVE  InOrder(Append(log, e))
<1> DEFINE new == Append(log, e)
<1>1. /\ Len(log) \in Nat /\ Len(new) = Len(log) + 1
      /\ \A i \in 1..Len(log) : new[i] = log[i]
      /\ new[Len(log) + 1] = e
  BY AppendProperties, LenProperties
<1> HIDE DEF new
<1> SUFFICES ASSUME NEW i \in 1..Len(new)
             PROVE  /\ \A j \in 1..(i - 1) : new[j].task = new[i].task => new[j].seq < new[i].seq
                    /\ new[i].seq > 1 => \E j \in 1..(i - 1) : Successor(new[j], new[i])
  BY DEF InOrder, new
<1>2. CASE i = Len(log) + 1
  <2>1. i - 1 = Len(log) /\ new[i] = e
    BY <1>1, <1>2
  <2> QED
    BY <1>1, <2>1
<1>3. CASE i # Len(log) + 1
  <2>1. i \in 1..Len(log) /\ new[i] = log[i] /\ \A j \in 1..(i - 1) : new[j] = log[j]
    BY <1>1, <1>3
  <2> QED
    BY <2>1 DEF InOrder
<1> QED
  BY <1>2, <1>3

\* An accepted event is the next one of its task: the log and the count agree.
LEMMA AppendUpTo ==
  ASSUME NEW log \in Seq(Event), NEW taken \in [Tasks -> Int], UpTo(log, taken),
         NEW e \in Event, e.seq = taken[e.task] + 1
  PROVE  UpTo(Append(log, e), [taken EXCEPT ![e.task] = @ + 1])
<1> DEFINE new == Append(log, e)
           after == [taken EXCEPT ![e.task] = @ + 1]
<1>1. /\ Len(log) \in Nat /\ Len(new) = Len(log) + 1
      /\ \A i \in 1..Len(log) : new[i] = log[i] /\ log[i] \in Event
      /\ new[Len(log) + 1] = e
  BY AppendProperties, LenProperties, ElementOfSeq
<1>2. e.task \in Tasks /\ e.seq \in Int
  BY DEF Event
<1>3. /\ after[e.task] = e.seq
      /\ \A t \in Tasks : after[t] \in Int /\ taken[t] \in Int /\ taken[t] <= after[t]
      /\ \A t \in Tasks : t # e.task => after[t] = taken[t]
  BY <1>2
<1> HIDE DEF new, after
<1>4. ASSUME NEW i \in 1..Len(new)
      PROVE  new[i].seq <= after[new[i].task]
  <2>1. CASE i = Len(log) + 1
    BY <1>1, <1>2, <1>3, <2>1
  <2>2. CASE i # Len(log) + 1
    <3>1. i \in 1..Len(log)
      BY <1>1, <2>2
    <3>2. new[i] = log[i] /\ log[i].task \in Tasks /\ log[i].seq \in Int
      BY <1>1, <3>1 DEF Event
    <3>3. log[i].seq <= taken[log[i].task]
      BY <3>1 DEF UpTo
    <3> QED
      BY <1>3, <3>2, <3>3
  <2> QED
    BY <2>1, <2>2
<1>5. ASSUME NEW t \in Tasks, after[t] > 0
      PROVE  \E i \in 1..Len(new) : new[i].task = t /\ new[i].seq = after[t]
  <2>1. CASE t = e.task
    <3>1. Len(log) + 1 \in 1..Len(new)
      BY <1>1
    <3> QED
      BY <1>1, <1>3, <2>1, <3>1
  <2>2. CASE t # e.task
    <3>1. PICK i \in 1..Len(log) : log[i].task = t /\ log[i].seq = taken[t]
      BY <1>3, <1>5, <2>2 DEF UpTo
    <3>2. i \in 1..Len(new) /\ new[i] = log[i]
      BY <1>1
    <3> QED
      BY <1>3, <2>2, <3>1, <3>2
  <2> QED
    BY <2>1, <2>2
<1>6. UpTo(new, after)
  BY <1>4, <1>5 DEF UpTo
<1> QED
  BY <1>6 DEF new, after

\* When nothing enters the queue, neither Accepted nor Taken changes.
LEMMA AcceptedInOrderKept ==
  ASSUME AcceptedInOrder, Accepted' = Accepted, Taken' = Taken
  PROVE  AcceptedInOrder'
  BY DEF AcceptedInOrder, InOrder, UpTo

LEMMA TakenType ==
  ASSUME TypeOK
  PROVE  Taken \in [Tasks -> Int]
  BY DEF TypeOK, Taken

\* What a blocked push of task t adds comes after all it has pushed before.
LEMMA EnqueueInOrder ==
  ASSUME TypeOK, PendingIsNewest, AcceptedInOrder, NEW t \in Tasks, Enqueue(t)
  PROVE  AcceptedInOrder'
<1> DEFINE e == pending[t]
<1>1. e \in Event /\ Accepted' = Append(Accepted, e) /\ Accepted \in Seq(Event)
  BY EnqueueAppends, AcceptedType
<1>2. e.task = t /\ e.seq = sent[t] /\ sent[t] \in Nat /\ Taken[t] = sent[t] - 1
  BY DEF Enqueue, PendingIsNewest, TypeOK, Taken
<1>3. Taken' = [Taken EXCEPT ![e.task] = @ + 1]
  <2>1. \A u \in Tasks : Taken'[u] = IF u = t THEN Taken[t] + 1 ELSE Taken[u]
    BY <1>2 DEF Enqueue, TypeOK, Taken
  <2>2. Taken' \in [Tasks -> Int] /\ Taken \in [Tasks -> Int]
    BY <1>2, TakenType DEF Enqueue, TypeOK, Taken
  <2> QED
    BY <1>2, <2>1, <2>2
<1> HIDE DEF e
<1>4. UpTo(Append(Accepted, e), [Taken EXCEPT ![e.task] = @ + 1])
  <2>1. e.seq = Taken[e.task] + 1 /\ Taken \in [Tasks -> Int]
    BY <1>2, TakenType
  <2>2. UpTo(Accepted, Taken)
    BY DEF AcceptedInOrder
  <2> QED
    BY <1>1, <2>1, <2>2, AppendUpTo
<1>5. ASSUME NEW i \in 1..Len(Accepted), Accepted[i].task = e.task
      PROVE  Accepted[i].seq < e.seq
  <2>1. Accepted[i].seq \in Int
    <3>1. Accepted[i] \in Event
      BY <1>1, ElementOfSeq
    <3> QED
      BY <3>1 DEF Event
  <2>2. Accepted[i].seq <= Taken[t]
    BY <1>2, <1>5 DEF AcceptedInOrder, UpTo
  <2> QED
    BY <1>2, <2>1, <2>2
<1>6. ASSUME e.seq > 1
      PROVE  \E i \in 1..Len(Accepted) : Successor(Accepted[i], e)
  <2>1. PICK i \in 1..Len(Accepted) : Accepted[i].task = t /\ Accepted[i].seq = Taken[t]
    BY <1>2, <1>6 DEF AcceptedInOrder, UpTo
  <2> QED
    BY <1>2, <2>1 DEF Successor
<1>7. InOrder(Append(Accepted, e))
  BY <1>1, <1>5, <1>6, AppendInOrder DEF AcceptedInOrder
<1> QED
  BY <1>1, <1>3, <1>4, <1>7 DEF AcceptedInOrder, InOrder, UpTo

-----------------------------------------------------------------------------
(* What the listeners were given *)

\* A listener gets the current event after those before it have got it.
LEMMA FireKeepsPrefixes ==
  ASSUME TypeOK, HandledArePrefixes, FireListener
  PROVE  HandledArePrefixes' /\ LastHandledIsCurrent'
<1>1. /\ cursor \in Listeners /\ current \in Event /\ current # NoEvent
      /\ cursor' = cursor + 1 /\ current' = current
      /\ ListenerCount \in Nat \ {0} /\ ListenerCount \in Listeners
  BY EventManagerAssumption DEF FireListener, TypeOK, Listeners
<1>2. /\ \A l \in Listeners :
           handled'[l] = IF l = cursor THEN Append(handled[l], current) ELSE handled[l]
      /\ handled[cursor] = Last
      /\ \A l \in Listeners : handled[l] = IF l < cursor THEN Append(Last, current) ELSE Last
  BY <1>1, EventManagerAssumption DEF FireListener, TypeOK, HandledArePrefixes, Listeners
<1>3. CASE cursor = ListenerCount
  <2>1. Last' = Append(Last, current) /\ ~(cursor' <= ListenerCount)
    <3>1. handled'[ListenerCount] = Append(handled[ListenerCount], current)
      BY <1>1, <1>2, <1>3
    <3>2. ~(cursor' <= ListenerCount)
      BY <1>1, <1>3
    <3> QED
      BY <3>1, <3>2 DEF Last
  <2>2. \A l \in Listeners : handled'[l] = Append(Last, current)
    <3> SUFFICES ASSUME NEW l \in Listeners PROVE handled'[l] = Append(Last, current)
      OBVIOUS
    <3>1. CASE l = cursor
      BY <1>2, <3>1
    <3>2. CASE l # cursor
      <4>1. l < cursor
        BY <1>1, <1>3, <3>2 DEF Listeners
      <4> QED
        BY <1>2, <3>2, <4>1
    <3> QED
      BY <3>1, <3>2
  <2>3. HandledArePrefixes'
    BY <2>1, <2>2 DEF HandledArePrefixes, Listeners
  <2>4. Len(Last') > 0 /\ Last'[Len(Last')] = current
    BY <1>1, <2>1, AcceptedType, AppendProperties
  <2> QED
    BY <1>1, <2>3, <2>4 DEF LastHandledIsCurrent, Last
<1>4. CASE cursor # ListenerCount
  <2>1. Last' = Last /\ cursor' <= ListenerCount /\ cursor' # ListenerCount + 1
    BY <1>1, <1>2, <1>4 DEF Last, Listeners
  <2>2. \A l \in Listeners : handled'[l] = IF l < cursor' THEN Append(Last, current) ELSE Last
    BY <1>1, <1>2 DEF Listeners
  <2> QED
    BY <1>1, <2>1, <2>2 DEF HandledArePrefixes, LastHandledIsCurrent, Listeners, Last
<1> QED
  BY <1>3, <1>4

LEMMA ReceiveKeepsPrefixes ==
  ASSUME TypeOK, HandledArePrefixes, Receive
  PROVE  HandledArePrefixes' /\ LastHandledIsCurrent'
<1>1. Last' = Last /\ cursor' = 1 /\ ListenerCount \in Nat \ {0}
  BY EventManagerAssumption DEF Receive, Last
<1>2. \A l \in Listeners : handled'[l] = Last /\ ~(l < cursor')
  BY <1>1 DEF Receive, HandledArePrefixes, Listeners
<1> QED
  BY <1>1, <1>2 DEF HandledArePrefixes, LastHandledIsCurrent, Listeners, Last

LEMMA FinishKeepsPrefixes ==
  ASSUME HandledArePrefixes, FinishDispatch
  PROVE  HandledArePrefixes' /\ LastHandledIsCurrent'
<1>1. Last' = Last /\ current' = NoEvent
  BY DEF FinishDispatch, Last
<1>2. \A l \in Listeners : handled'[l] = Last
  BY EventManagerAssumption DEF FinishDispatch, HandledArePrefixes, Listeners
<1> QED
  BY <1>1, <1>2 DEF HandledArePrefixes, LastHandledIsCurrent, Listeners, Last

\* A listener was given a part of Accepted, from its beginning.
LEMMA HandledWithinAccepted ==
  ASSUME TypeOK, HandledArePrefixes, NEW l \in Listeners
  PROVE  /\ handled[l] \in Seq(Event)
         /\ Len(handled[l]) <= Len(Accepted)
         /\ \A i \in 1..Len(handled[l]) : handled[l][i] = Accepted[i]
<1> DEFINE front == Last \o Undelivered
<1>1. /\ Last \in Seq(Event) /\ Undelivered \in Seq(Event) /\ queue \in Seq(Event)
      /\ Accepted = front \o queue
  BY AcceptedType
<1>2. front \in Seq(Event) /\ Len(front) = Len(Last) + Len(Undelivered)
  BY <1>1, ConcatProperties
<1>3. /\ Len(Last) \in Nat /\ Len(Undelivered) \in Nat /\ Len(queue) \in Nat /\ Len(front) \in Nat
      /\ Len(Accepted) = Len(front) + Len(queue)
  BY <1>1, <1>2, ConcatProperties, LenProperties
<1>4. \A i \in 1..Len(front) : Accepted[i] = front[i]
  BY <1>1, <1>2, <1>3, ConcatProperties
<1>5. \A i \in 1..Len(Last) : Accepted[i] = Last[i]
  BY <1>1, <1>2, <1>3, <1>4, ConcatProperties
<1> HIDE DEF front
<1>6. CASE current # NoEvent /\ cursor <= ListenerCount /\ l < cursor
  <2>1. handled[l] = Append(Last, current) /\ Undelivered = <<current>> /\ current \in Event
    BY <1>6 DEF HandledArePrefixes, Undelivered, TypeOK
  <2>2. front = Append(Last, current)
    BY <1>1, <2>1, AppendIsConcat DEF front
  <2> QED
    BY <1>2, <1>3, <1>4, <2>1, <2>2
<1>7. CASE ~(current # NoEvent /\ cursor <= ListenerCount /\ l < cursor)
  <2>1. handled[l] = Last
    BY <1>7 DEF HandledArePrefixes
  <2> QED
    BY <1>1, <1>2, <1>3, <1>5, <2>1
<1> QED
  BY <1>6, <1>7

\* A part of a log in order, from its beginning, is in order.
LEMMA PrefixInOrder ==
  ASSUME TypeOK, HandledArePrefixes, AcceptedInOrder
  PROVE  ListenersSeeEachTaskInOrder
<1> SUFFICES ASSUME NEW l \in Listeners, NEW i \in DOMAIN handled[l]
             PROVE  /\ \A j \in 1..(i - 1) :
                         handled[l][j].task = handled[l][i].task => handled[l][j].seq < handled[l][i].seq
                    /\ handled[l][i].seq > 1 =>
                         \E j \in 1..(i - 1) : Successor(handled[l][j], handled[l][i])
  BY DEF ListenersSeeEachTaskInOrder
<1>1. handled[l] \in Seq(Event) /\ Len(handled[l]) \in Nat /\ DOMAIN handled[l] = 1..Len(handled[l])
  BY HandledWithinAccepted, LenProperties
<1>2. Len(Accepted) \in Nat
  BY AcceptedType, LenProperties
<1>3. /\ i \in 1..Len(Accepted) /\ handled[l][i] = Accepted[i]
      /\ \A j \in 1..(i - 1) : handled[l][j] = Accepted[j]
  BY <1>1, <1>2, HandledWithinAccepted
<1> QED
  BY <1>3 DEF AcceptedInOrder, InOrder

-----------------------------------------------------------------------------
(* Blocked pushes *)

\* A listener's push, or none: what FireListener may do to pending and sent.
MainPushes ==
  /\ sent[MainTask] < MaxPushes
  /\ pending' = [pending EXCEPT ![MainTask] = NewEvent(MainTask, FALSE)]
  /\ sent' = [sent EXCEPT ![MainTask] = @ + 1]

\* Starting a push leaves what the task has in the queue as it is.
LEMMA StartPush ==
  ASSUME TypeOK, PendingIsNewest, NEW t \in Tasks, NEW owned \in BOOLEAN,
         pending[t] = NoEvent, sent[t] < MaxPushes,
         pending' = [pending EXCEPT ![t] = NewEvent(t, owned)],
         sent' = [sent EXCEPT ![t] = @ + 1]
  PROVE  PendingIsNewest' /\ Taken' = Taken
<1> DEFINE e == NewEvent(t, owned)
<1>1. e # NoEvent /\ e.task = t /\ e.seq = sent[t] + 1
  BY NewEventType DEF NewEvent
<1>2. pending' = [pending EXCEPT ![t] = e]
  OBVIOUS
<1> HIDE DEF e
<1>3. \A u \in Tasks :
        /\ pending'[u] = IF u = t THEN e ELSE pending[u]
        /\ sent'[u] = IF u = t THEN sent[t] + 1 ELSE sent[u]
        /\ sent[u] \in Nat
  BY <1>2 DEF TypeOK
<1>4. PendingIsNewest'
  BY <1>1, <1>3 DEF PendingIsNewest
<1>5. \A u \in Tasks : Taken'[u] = Taken[u]
  BY <1>1, <1>3 DEF Taken
<1>6. Taken = [u \in Tasks |-> Taken[u]] /\ Taken' = [u \in Tasks |-> Taken'[u]]
  BY DEF Taken
<1>7. Taken' = Taken
  BY <1>5, <1>6
<1> QED
  BY <1>4, <1>7

LEMMA EnqueueKeepsPending ==
  ASSUME TypeOK, PendingIsNewest, NEW t \in Tasks, Enqueue(t)
  PROVE  PendingIsNewest'
  BY DEF Enqueue, PendingIsNewest, TypeOK

\* Steps that neither push nor enqueue.
LEMMA OthersKeepPending ==
  ASSUME PendingIsNewest, UNCHANGED <<pending, sent>>
  PROVE  PendingIsNewest' /\ Taken' = Taken
  BY DEF PendingIsNewest, Taken

-----------------------------------------------------------------------------
(* Data blocks *)

\* The event whose dispatch ends is not on its way a second time.
LEMMA FinishedIsGone ==
  ASSUME Inv, FinishDispatch
  PROVE  /\ \A i \in DOMAIN queue : queue[i] # current
         /\ \A t \in Tasks : pending[t] # current
<1>1. TypeOK /\ PendingIsNewest /\ LastHandledIsCurrent /\ AcceptedInOrder
  BY DEF Inv
<1>2. /\ ~(cursor <= ListenerCount) /\ current \in Event /\ current # NoEvent
      /\ Len(Last) > 0 /\ Last[Len(Last)] = current
  BY <1>1, EventManagerAssumption DEF FinishDispatch, TypeOK, LastHandledIsCurrent
<1>3. Accepted = Last \o queue /\ Last \in Seq(Event) /\ queue \in Seq(Event)
  <2>1. Undelivered = <<>> /\ Accepted = Last \o Undelivered \o queue
        /\ Last \in Seq(Event) /\ queue \in Seq(Event)
    BY <1>1, <1>2, AcceptedType DEF Undelivered
  <2> QED
    BY <2>1, ConcatEmptySeq
<1> DEFINE n == Len(Last)
<1>4. /\ n \in Nat /\ Len(queue) \in Nat /\ DOMAIN queue = 1..Len(queue)
      /\ Len(Accepted) = n + Len(queue)
      /\ Accepted[n] = current
      /\ \A i \in 1..Len(queue) : Accepted[n + i] = queue[i]
  <2>1. n \in Nat /\ Len(queue) \in Nat /\ DOMAIN queue = 1..Len(queue)
    BY <1>3, LenProperties
  <2>2. Len(Accepted) = n + Len(queue)
        /\ \A i \in 1..(n + Len(queue)) : Accepted[i] = IF i <= n THEN Last[i] ELSE queue[i - n]
    BY <1>3, ConcatProperties
  <2> HIDE DEF n
  <2>3. Accepted[n] = Last[n] /\ \A i \in 1..Len(queue) : Accepted[n + i] = queue[i]
    BY <1>2, <2>1, <2>2 DEF n
  <2> QED
    BY <1>2, <2>1, <2>2, <2>3 DEF n
<1>5. ASSUME NEW i \in DOMAIN queue
      PROVE  queue[i] # current
  <2>1. i \in 1..Len(queue) /\ n + i \in 1..Len(Accepted) /\ n \in 1..((n + i) - 1)
    BY <1>2, <1>4
  <2>2. Accepted[n].task = Accepted[n + i].task => Accepted[n].seq < Accepted[n + i].seq
    BY <1>1, <2>1 DEF AcceptedInOrder, InOrder
  <2>3. current.seq \in Int
    BY <1>2 DEF Event
  <2> QED
    BY <1>4, <2>1, <2>2, <2>3
<1>6. ASSUME NEW t \in Tasks
      PROVE  pending[t] # current
  <2> SUFFICES ASSUME pending[t] = current PROVE FALSE
    OBVIOUS
  <2>1. current.task = t /\ current.seq = sent[t] /\ Taken[t] = sent[t] - 1 /\ sent[t] \in Nat
    BY <1>1, <1>2 DEF PendingIsNewest, Taken, TypeOK
  <2>2. n \in 1..Len(Accepted)
    BY <1>2, <1>4
  <2>3. current.seq <= Taken[t]
    BY <1>1, <1>4, <2>1, <2>2 DEF AcceptedInOrder, UpTo
  <2> QED
    BY <2>1, <2>3
<1> QED
  BY <1>5, <1>6

\* What is on its way changes only by what the owner of the heap does.
LEMMA PushKeepsBlocks ==
  ASSUME TypeOK, DataBlockLivesWithItsEvent, NEW t \in Tasks, NEW owned \in BOOLEAN,
         PushEvent(t, owned)
  PROVE  DataBlockLivesWithItsEvent'
<1> DEFINE e == NewEvent(t, owned)
<1>1. e # NoEvent /\ e.owned = owned
  BY NewEventType DEF PushEvent, NewEvent
<1>2. /\ pending' = [pending EXCEPT ![t] = e] /\ pending[t] = NoEvent
      /\ queue' = queue /\ current' = current
      /\ heap' = IF owned THEN heap \cup {e} ELSE heap
  BY DEF PushEvent
<1> HIDE DEF e
<1>3. InFlight' = InFlight \cup {e}
  <2>1. \A u \in Tasks : pending'[u] = IF u = t THEN e ELSE pending[u]
    BY <1>2 DEF TypeOK
  <2> QED
    BY <1>1, <1>2, <2>1 DEF InFlight
<1> QED
  BY <1>1, <1>2, <1>3 DEF DataBlockLivesWithItsEvent

\* The block moves from the pending event to the queued one.
LEMMA EnqueueKeepsBlocks ==
  ASSUME TypeOK, DataBlockLivesWithItsEvent, NEW t \in Tasks, Enqueue(t)
  PROVE  DataBlockLivesWithItsEvent'
<1>1. /\ queue \in Seq(Event) /\ pending[t] \in Event /\ pending[t] # NoEvent
      /\ queue' = Append(queue, pending[t])
  BY DEF Enqueue, TypeOK
<1>2. {queue'[i] : i \in DOMAIN queue'} = {queue[i] : i \in DOMAIN queue} \cup {pending[t]}
  <2>1. /\ DOMAIN queue = 1..Len(queue) /\ Len(queue) \in Nat
        /\ DOMAIN queue' = 1..(Len(queue) + 1)
        /\ \A i \in 1..Len(queue) : queue'[i] = queue[i]
        /\ queue'[Len(queue) + 1] = pending[t]
    BY <1>1, AppendProperties, LenProperties
  <2>2. Len(queue) + 1 \in 1..(Len(queue) + 1)
        /\ \A i \in 1..(Len(queue) + 1) : i = Len(queue) + 1 \/ i \in 1..Len(queue)
    BY <2>1
  <2> QED
    BY <2>1, <2>2
<1>3. \A u \in Tasks : pending'[u] = IF u = t THEN NoEvent ELSE pending[u]
  BY DEF Enqueue, TypeOK
<1>4. InFlight' = InFlight
  BY <1>1, <1>2, <1>3 DEF InFlight, Enqueue
<1> QED
  BY <1>4 DEF DataBlockLivesWithItsEvent, Enqueue

LEMMA ReceiveKeepsBlocks ==
  ASSUME TypeOK, DataBlockLivesWithItsEvent, Receive
  PROVE  DataBlockLivesWithItsEvent'
<1>1. /\ queue \in Seq(Event) /\ queue # <<>> /\ Len(queue) \in Nat \ {0}
      /\ DOMAIN queue = 1..Len(queue)
  BY EmptySeq, LenProperties DEF Receive, TypeOK
<1>2. /\ DOMAIN Tail(queue) = 1..(Len(queue) - 1)
      /\ \A i \in 1..(Len(queue) - 1) : Tail(queue)[i] = queue[i + 1]
      /\ Head(queue) = queue[1]
  BY <1>1, HeadTailProperties, LenProperties
<1>3. {queue[i] : i \in DOMAIN queue}
        = {Tail(queue)[i] : i \in DOMAIN Tail(queue)} \cup {Head(queue)}
  <2>1. \A i \in 1..(Len(queue) - 1) : i + 1 \in 1..Len(queue)
    BY <1>1
  <2>2. \A i \in 1..Len(queue) : i = 1 \/ (i - 1 \in 1..(Len(queue) - 1) /\ (i - 1) + 1 = i)
    BY <1>1
  <2>3. ASSUME NEW i \in DOMAIN queue
        PROVE  queue[i] = Head(queue) \/ \E j \in DOMAIN Tail(queue) : queue[i] = Tail(queue)[j]
    <3>1. CASE i = 1
      BY <1>2, <3>1
    <3>2. CASE i # 1
      <4>1. i - 1 \in 1..(Len(queue) - 1) /\ (i - 1) + 1 = i
        BY <1>1, <2>2, <3>2
      <4> QED
        BY <1>2, <4>1
    <3> QED
      BY <3>1, <3>2
  <2>4. \A j \in DOMAIN Tail(queue) : \E i \in DOMAIN queue : queue[i] = Tail(queue)[j]
    BY <1>1, <1>2, <2>1
  <2>5. \E i \in DOMAIN queue : queue[i] = Head(queue)
    BY <1>1, <1>2
  <2> QED
    BY <2>3, <2>4, <2>5
<1>4. InFlight' = InFlight
  BY <1>3 DEF InFlight, Receive
<1> QED
  BY <1>4 DEF DataBlockLivesWithItsEvent, Receive

LEMMA FireKeepsBlocks ==
  ASSUME TypeOK, DataBlockLivesWithItsEvent, FireListener
  PROVE  DataBlockLivesWithItsEvent'
<1>1. CASE UNCHANGED <<pending, sent>>
  BY <1>1 DEF FireListener, DataBlockLivesWithItsEvent, InFlight
<1>2. CASE MainPushes
  <2> DEFINE e == NewEvent(MainTask, FALSE)
  <2>1. e # NoEvent /\ e.owned = FALSE
    BY <1>2, NewEventType, EventManagerAssumption DEF MainPushes, NewEvent
  <2>2. /\ pending' = [pending EXCEPT ![MainTask] = e] /\ pending[MainTask] = NoEvent
        /\ queue' = queue /\ current' = current /\ heap' = heap
    BY <1>2 DEF MainPushes, FireListener, MainRuns
  <2> HIDE DEF e
  <2>3. InFlight' = InFlight \cup {e}
    <3>1. \A u \in Tasks : pending'[u] = IF u = MainTask THEN e ELSE pending[u]
      BY <2>2 DEF TypeOK
    <3> QED
      BY <2>1, <2>2, <3>1, EventManagerAssumption DEF InFlight
  <2> QED
    BY <2>1, <2>2, <2>3 DEF DataBlockLivesWithItsEvent
<1> QED
  BY <1>1, <1>2 DEF FireListener, MainPushes

\* The block that is released belongs to no event that is queued or pending.
LEMMA FinishKeepsBlocks ==
  ASSUME Inv, FinishDispatch
  PROVE  DataBlockLivesWithItsEvent'
<1>1. current # NoEvent /\ current' = NoEvent /\ UNCHANGED <<queue, pending>>
      /\ heap' = IF current.owned THEN heap \ {current} ELSE heap
  BY DEF FinishDispatch
<1>2. InFlight' = InFlight \ {current}
  BY <1>1, FinishedIsGone DEF InFlight
<1>3. heap = {e \in InFlight : e.owned}
  BY DEF Inv, DataBlockLivesWithItsEvent
<1>4. heap' = {e \in InFlight' : e.owned}
  BY <1>1, <1>2, <1>3
<1> QED
  BY <1>4 DEF DataBlockLivesWithItsEvent

-----------------------------------------------------------------------------
(* The inductive invariant *)

LEMMA InitInv == Init => Inv
<1> SUFFICES ASSUME Init PROVE Inv
  OBVIOUS
<1>1. TypeOK
  BY InitTypeOK
<1> DEFINE boot == [task |-> MainTask, seq |-> 1, owned |-> FALSE]
<1>2. boot \in Event /\ boot.task = MainTask /\ boot.seq = 1 /\ ~boot.owned
  BY EventManagerAssumption DEF Event
<1>3. \A t \in Tasks : /\ pending[t] = IF t = MainTask THEN boot ELSE NoEvent
                       /\ sent[t] = IF t = MainTask THEN 1 ELSE 0
  BY DEF Init
<1> HIDE DEF boot
<1>4. boot # NoEvent
  BY <1>2, NoEventAssumption
<1>5. PendingIsNewest
  BY <1>2, <1>3 DEF PendingIsNewest
<1>6. Last = <<>> /\ Undelivered = <<>> /\ queue = <<>> /\ current = NoEvent
  BY EventManagerAssumption DEF Init, Last, Undelivered, Listeners
<1>7. HandledArePrefixes /\ LastHandledIsCurrent
  BY <1>6 DEF Init, HandledArePrefixes, LastHandledIsCurrent, Listeners
<1>8. Accepted = <<>>
  BY <1>1, <1>6, AcceptedType, ConcatEmptySeq
<1>9. AcceptedInOrder
  <2>1. ASSUME NEW t \in Tasks PROVE Taken[t] = 0
    <3>1. Taken[t] = IF pending[t] = NoEvent THEN sent[t] ELSE sent[t] - 1
      BY DEF Taken
    <3>2. CASE t = MainTask
      BY <1>3, <1>4, <3>1, <3>2
    <3>3. CASE t # MainTask
      BY <1>3, <3>1, <3>3
    <3> QED
      BY <3>2, <3>3
  <2>2. Len(Accepted) = 0
    BY <1>8
  <2> QED
    BY <2>1, <2>2 DEF AcceptedInOrder, InOrder, UpTo
<1>10. DataBlockLivesWithItsEvent
  <2>1. InFlight \subseteq {boot} /\ heap = {}
    BY <1>3, <1>6 DEF InFlight, Init
  <2> QED
    BY <1>2, <2>1 DEF DataBlockLivesWithItsEvent
<1> QED
  BY <1>1, <1>5, <1>7, <1>9, <1>10 DEF Inv

LEMMA NextInv == Inv /\ [Next]_vars => Inv'
<1> SUFFICES ASSUME Inv, [Next]_vars PROVE Inv'
  OBVIOUS
<1>1. /\ TypeOK /\ PendingIsNewest /\ HandledArePrefixes /\ LastHandledIsCurrent
      /\ AcceptedInOrder /\ DataBlockLivesWithItsEvent
  BY DEF Inv
<1>2. TypeOK'
  BY <1>1, NextTypeOK
<1>3. ASSUME NEW t \in Tasks, NEW owned \in BOOLEAN, PushEvent(t, owned)
      PROVE  Inv'
  <2>1. PendingIsNewest' /\ Taken' = Taken
    BY <1>1, <1>3, StartPush DEF PushEvent
  <2>2. HandledArePrefixes' /\ LastHandledIsCurrent'
    BY <1>1, <1>3 DEF PushEvent, HandledArePrefixes, LastHandledIsCurrent, Last
  <2>3. AcceptedInOrder'
    BY <1>1, <1>3, <2>1, PushKeepsAccepted, AcceptedInOrderKept
  <2>4. DataBlockLivesWithItsEvent'
    BY <1>1, <1>3, PushKeepsBlocks
  <2> QED
    BY <1>2, <2>1, <2>2, <2>3, <2>4 DEF Inv
<1>4. ASSUME NEW t \in Tasks, Enqueue(t)
      PROVE  Inv'
  <2>1. PendingIsNewest'
    BY <1>1, <1>4, EnqueueKeepsPending
  <2>2. HandledArePrefixes' /\ LastHandledIsCurrent'
    BY <1>1, <1>4 DEF Enqueue, HandledArePrefixes, LastHandledIsCurrent, Last
  <2>3. AcceptedInOrder'
    BY <1>1, <1>4, EnqueueInOrder
  <2>4. DataBlockLivesWithItsEvent'
    BY <1>1, <1>4, EnqueueKeepsBlocks
  <2> QED
    BY <1>2, <2>1, <2>2, <2>3, <2>4 DEF Inv
<1>5. CASE Receive
  <2>1. PendingIsNewest' /\ Taken' = Taken
    BY <1>1, <1>5, OthersKeepPending DEF Receive
  <2>2. HandledArePrefixes' /\ LastHandledIsCurrent'
    BY <1>1, <1>5, ReceiveKeepsPrefixes
  <2>3. AcceptedInOrder'
    BY <1>1, <1>5, <2>1, ReceiveKeepsAccepted, AcceptedInOrderKept
  <2>4. DataBlockLivesWithItsEvent'
    BY <1>1, <1>5, ReceiveKeepsBlocks
  <2> QED
    BY <1>2, <2>1, <2>2, <2>3, <2>4 DEF Inv
<1>6. CASE FireListener
  <2>1. PendingIsNewest' /\ Taken' = Taken
    <3>1. CASE UNCHANGED <<pending, sent>>
      BY <1>1, <3>1, OthersKeepPending
    <3>2. CASE MainPushes
      BY <1>1, <1>6, <3>2, StartPush, EventManagerAssumption DEF MainPushes, FireListener, MainRuns
    <3> QED
      BY <1>6, <3>1, <3>2 DEF FireListener, MainPushes
  <2>2. HandledArePrefixes' /\ LastHandledIsCurrent'
    BY <1>1, <1>6, FireKeepsPrefixes
  <2>3. AcceptedInOrder'
    BY <1>1, <1>6, <2>1, FireKeepsAccepted, AcceptedInOrderKept
  <2>4. DataBlockLivesWithItsEvent'
    BY <1>1, <1>6, FireKeepsBlocks
  <2> QED
    BY <1>2, <2>1, <2>2, <2>3, <2>4 DEF Inv
<1>7. CASE FinishDispatch
  <2>1. PendingIsNewest' /\ Taken' = Taken
    BY <1>1, <1>7, OthersKeepPending DEF FinishDispatch
  <2>2. HandledArePrefixes' /\ LastHandledIsCurrent'
    BY <1>1, <1>7, FinishKeepsPrefixes
  <2>3. AcceptedInOrder'
    BY <1>1, <1>7, <2>1, FinishKeepsAccepted, AcceptedInOrderKept
  <2>4. DataBlockLivesWithItsEvent'
    BY <1>7, FinishKeepsBlocks
  <2> QED
    BY <1>2, <2>1, <2>2, <2>3, <2>4 DEF Inv
<1>8. CASE UNCHANGED vars
  <2>1. PendingIsNewest' /\ Taken' = Taken
    BY <1>1, <1>8, OthersKeepPending DEF vars
  <2>2. HandledArePrefixes' /\ LastHandledIsCurrent'
    BY <1>1, <1>8 DEF vars, HandledArePrefixes, LastHandledIsCurrent, Last
  <2>3. AcceptedInOrder'
    <3>1. Accepted' = Accepted
      BY <1>8 DEF vars, Accepted
    <3> QED
      BY <1>1, <2>1, <3>1, AcceptedInOrderKept
  <2>4. DataBlockLivesWithItsEvent'
    BY <1>1, <1>8 DEF vars, DataBlockLivesWithItsEvent, InFlight
  <2> QED
    BY <1>2, <2>1, <2>2, <2>3, <2>4 DEF Inv
<1> QED
  BY <1>3, <1>4, <1>5, <1>6, <1>7, <1>8 DEF Next

-----------------------------------------------------------------------------
(* Theorems *)

\* Whatever tasks push and block, no listener of fireEvent() misses an event of
\* a task or sees two of them the wrong way round.
THEOREM OrderPerTask == Spec => []ListenersSeeEachTaskInOrder
<1>1. Inv => ListenersSeeEachTaskInOrder
  BY PrefixInOrder DEF Inv
<1> QED
  BY <1>1, InitInv, NextInv, PTL DEF Spec

\* The std::free of dispatchEvent() is neither early nor forgotten, and never
\* hits a block that another event on its way still carries.
THEOREM BlocksAreOwned == Spec => []DataBlockLivesWithItsEvent
<1>1. Inv => DataBlockLivesWithItsEvent
  BY DEF Inv
<1> QED
  BY <1>1, InitInv, NextInv, PTL DEF Spec

\* A push by the main task into a full queue ends event handling for good, for
\* every queue length and number of tasks.
THEOREM MainStallsForGood == Spec => StallIsFinal
<1>1. ASSUME TypeOK, Stalled, [Next]_vars PROVE Stalled'
  <2>1. pending[MainTask] # NoEvent /\ ~(Len(queue) < QueueSize) /\ MainTask \in Tasks
    BY <1>1, EventManagerAssumption DEF Stalled, TypeOK
  <2>2. ASSUME NEW t \in Tasks, NEW owned \in BOOLEAN, PushEvent(t, owned)
        PROVE  Stalled'
    <3>1. pending'[MainTask] = pending[MainTask] /\ queue' = queue
      BY <1>1, <2>1, <2>2 DEF PushEvent, TypeOK
    <3> QED
      BY <1>1, <3>1 DEF Stalled
  <2>3. \A t \in Tasks : ~Enqueue(t)
    BY <2>1 DEF Enqueue
  <2>4. ~Receive /\ ~FireListener /\ ~FinishDispatch
    BY <2>1 DEF Receive, FireListener, FinishDispatch, MainRuns
  <2>5. CASE UNCHANGED vars
    BY <1>1, <2>5 DEF vars, Stalled
  <2> QED
    BY <1>1, <2>2, <2>3, <2>4, <2>5 DEF Next
<1>2. TypeOK /\ [Next]_vars => [Stalled => Stalled']_vars
  BY <1>1
<1> QED
  BY <1>2, TypeCorrect, PTL DEF Spec, StallIsFinal

-----------------------------------------------------------------------------
(* Refinement of EventBus *)

LEMMA InitRefines == Init => Bus!Init
<1> SUFFICES ASSUME Init PROVE Bus!Init
  OBVIOUS
<1>1. Accepted = <<>>
  <2>1. TypeOK
    BY InitTypeOK
  <2>2. Last = <<>> /\ Undelivered = <<>> /\ queue = <<>>
    BY EventManagerAssumption DEF Init, Last, Undelivered, Listeners
  <2> QED
    BY <2>1, <2>2, AcceptedType, ConcatEmptySeq
<1> QED
  BY <1>1 DEF Init, Bus!Init, Listeners, Bus!Listeners

\* A call of a listener is the delivery of the next accepted event to it.
LEMMA FireDelivers ==
  ASSUME Inv, FireListener
  PROVE  Bus!Deliver(cursor) /\ cursor \in Listeners
<1> DEFINE n == Len(Last)
<1>1. /\ TypeOK /\ HandledArePrefixes
      /\ cursor \in Listeners /\ cursor <= ListenerCount /\ current # NoEvent /\ current \in Event
      /\ ListenerCount \in Nat \ {0}
  BY EventManagerAssumption DEF Inv, FireListener, TypeOK, Listeners
<1>2. /\ Last \in Seq(Event) /\ n \in Nat /\ Len(Append(Last, current)) = n + 1
  BY <1>1, AcceptedType, AppendProperties, LenProperties
<1>3. \A l \in Listeners :
        handled[l] = IF l < cursor THEN Append(Last, current) ELSE Last
  BY <1>1 DEF HandledArePrefixes
<1>4. Len(handled[cursor]) = n /\ cursor \in Int /\ \A l \in Listeners : l \in Int
  BY <1>1, <1>3 DEF Listeners
<1>5. Accepted[n + 1] = current /\ n + 1 <= Len(Accepted)
  <2>1. Undelivered = <<current>> /\ Accepted = (Last \o <<current>>) \o queue
        /\ queue \in Seq(Event)
    BY <1>1, AcceptedType DEF Undelivered
  <2>2. Last \o <<current>> = Append(Last, current) /\ Append(Last, current) \in Seq(Event)
    BY <1>1, <1>2, AppendIsConcat, AppendProperties
  <2>3. Append(Last, current)[n + 1] = current /\ Len(queue) \in Nat
    BY <1>1, <1>2, <2>1, AppendProperties, LenProperties
  <2>4. Accepted = Append(Last, current) \o queue
    BY <2>1, <2>2
  <2>5. Len(Accepted) = (n + 1) + Len(queue)
        /\ \A i \in 1..((n + 1) + Len(queue)) :
             Accepted[i] = IF i <= n + 1 THEN Append(Last, current)[i] ELSE queue[i - (n + 1)]
    BY <1>2, <2>1, <2>2, <2>4, ConcatProperties
  <2> HIDE DEF n
  <2> QED
    BY <1>2, <2>3, <2>5
<1>6. Accepted' = Accepted
  BY <1>1, FireKeepsAccepted
<1>7. handled' = [handled EXCEPT ![cursor] = Append(@, Accepted[n + 1])]
  BY <1>5 DEF FireListener
<1> HIDE DEF n
<1>8. \A j \in Listeners : Len(handled[j]) >= IF j < cursor THEN n + 1 ELSE n
  <2> SUFFICES ASSUME NEW j \in Listeners
               PROVE  Len(handled[j]) >= IF j < cursor THEN n + 1 ELSE n
    OBVIOUS
  <2>1. CASE j < cursor
    <3>1. Len(handled[j]) = n + 1
      BY <1>2, <1>3, <2>1
    <3> QED
      BY <1>2, <2>1, <3>1
  <2>2. CASE ~(j < cursor)
    <3>1. Len(handled[j]) = n
      BY <1>3, <2>2 DEF n
    <3> QED
      BY <1>2, <2>2, <3>1
  <2> QED
    BY <2>1, <2>2
<1> QED
  BY <1>1, <1>2, <1>4, <1>5, <1>6, <1>7, <1>8 DEF Bus!Deliver, Bus!Listeners, Listeners

\* Enqueue is the Accept of the bus, a fired listener its Deliver; all else stutters.
LEMMA NextRefines == Inv /\ [Next]_vars => [Bus!Next]_(Bus!busVars)
<1> SUFFICES ASSUME Inv, [Next]_vars PROVE [Bus!Next]_(Bus!busVars)
  OBVIOUS
<1>1. TypeOK
  BY DEF Inv
<1>2. ASSUME NEW t \in Tasks, NEW owned \in BOOLEAN, PushEvent(t, owned)
      PROVE  UNCHANGED <<Accepted, handled>>
  BY <1>2, PushKeepsAccepted DEF PushEvent
<1>3. ASSUME NEW t \in Tasks, Enqueue(t)
      PROVE  Bus!Accept(pending[t]) /\ pending[t] \in Event
  BY <1>1, <1>3, EnqueueAppends DEF Enqueue, Bus!Accept
<1>4. CASE Receive
  BY <1>1, <1>4, ReceiveKeepsAccepted DEF Receive, Bus!busVars
<1>5. CASE FireListener
  BY <1>5, FireDelivers DEF Bus!Next, Bus!Listeners, Listeners
<1>6. CASE FinishDispatch
  BY <1>1, <1>6, FinishKeepsAccepted DEF FinishDispatch, Bus!busVars
<1>7. CASE UNCHANGED vars
  BY <1>7 DEF vars, Accepted, Bus!busVars
<1> QED
  BY <1>2, <1>3, <1>4, <1>5, <1>6, <1>7 DEF Next, Bus!Next, Bus!busVars

\* The queue, its blocked producers and the loop over the listeners are together
\* the abstract bus: one order of events for all listeners, nothing lost.
THEOREM EventManagerImplementsBus == Spec => ImplementsBus
  BY InitRefines, NextRefines, InitInv, NextInv, PTL DEF Spec, ImplementsBus, Bus!Spec
=============================================================================
