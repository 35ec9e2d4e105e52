---------------------------- MODULE EventManager ----------------------------
(***************************************************************************)
(* fb::event::EventManager (main/fb_event_manager.cpp): a FreeRTOS queue   *)
(* that any task pushes into and that one task, the main task, drains.     *)
(* dispatchEvent() hands an event to every listener in attach order and    *)
(* then frees the event's data if the event owns it.  Listeners run on the *)
(* main task and some of them push events themselves (StateWifiInit and    *)
(* StateTimeInit push TRANSITION), so the single consumer is a producer    *)
(* too.  A full queue blocks the pusher without a time limit.              *)
(***************************************************************************)
EXTENDS Integers, Sequences

CONSTANTS Tasks,          \* everything that calls pushEvent
          MainTask,       \* the task of app_main, the only one that dispatches
          QueueSize,      \* length of the FreeRTOS queue (10 in the firmware)
          ListenerCount,  \* attached listeners, numbered in attach order
          MaxPushes,      \* bound: pushes per task
          NoEvent         \* not an event

ASSUME EventManagerAssumption ==
  /\ MainTask \in Tasks
  /\ QueueSize \in Nat \ {0}
  /\ ListenerCount \in Nat \ {0}
  /\ MaxPushes \in Nat \ {0}

\* The seq-th event that a task pushes.  An "owned" event carries a heap block
\* that dispatchEvent has to free; its fields name the block as well.
Event == [task : Tasks, seq : 1..MaxPushes, owned : BOOLEAN]

ASSUME NoEventAssumption == NoEvent \notin Event

VARIABLES queue,    \* the FreeRTOS queue, oldest event first
          pending,  \* pending[t]: the event task t is inside xQueueSend with
          sent,     \* sent[t]: how many pushes task t has started
          current,  \* the event inside dispatchEvent, if any
          cursor,   \* the listener fireEvent calls next
          handled,  \* handled[l]: history of what listener l was given
          heap      \* owned events whose data block is allocated

vars == <<queue, pending, sent, current, cursor, handled, heap>>

Listeners == 1..ListenerCount

NewEvent(t, owned) == [task |-> t, seq |-> sent[t] + 1, owned |-> owned]

Init ==
  /\ queue = <<>>
  /\ pending = [t \in Tasks |->
       IF t = MainTask THEN [task |-> t, seq |-> 1, owned |-> FALSE] ELSE NoEvent]
  /\ sent = [t \in Tasks |-> IF t = MainTask THEN 1 ELSE 0]
  /\ current = NoEvent
  /\ cursor = 1
  /\ handled = [l \in Listeners |-> <<>>]
  /\ heap = {}

-----------------------------------------------------------------------------
(* Producers *)

\* A task other than main calls pushEvent; it has allocated the data before.
PushEvent(t, owned) ==
  /\ t # MainTask
  /\ pending[t] = NoEvent
  /\ sent[t] < MaxPushes
  /\ pending' = [pending EXCEPT ![t] = NewEvent(t, owned)]
  /\ sent' = [sent EXCEPT ![t] = @ + 1]
  /\ heap' = IF owned THEN heap \cup {NewEvent(t, owned)} ELSE heap
  /\ UNCHANGED <<queue, current, cursor, handled>>

\* Mutant: xQueueSend without a timeout, the event is lost when nothing fits.
EnqueueNoWait(t) ==
  /\ pending[t] # NoEvent
  /\ queue' = IF Len(queue) < QueueSize THEN Append(queue, pending[t]) ELSE queue
  /\ pending' = [pending EXCEPT ![t] = NoEvent]
  /\ UNCHANGED <<sent, current, cursor, handled, heap>>

\* xQueueSend(portMAX_DELAY) returns: there was room, or room was made.  Which
\* blocked task gets the room is the kernel's choice.
Enqueue(t) ==
  /\ pending[t] # NoEvent
  /\ Len(queue) < QueueSize
  /\ queue' = Append(queue, pending[t])
  /\ pending' = [pending EXCEPT ![t] = NoEvent]
  /\ UNCHANGED <<sent, current, cursor, handled, heap>>

-----------------------------------------------------------------------------
(* The main task: dispatchEvent in a loop.  While one of its own pushes is  *)
(* blocked it does nothing else.                                            *)

MainRuns == pending[MainTask] = NoEvent

\* Mutant: the newest event first.
ReceiveNewest ==
  /\ MainRuns
  /\ current = NoEvent
  /\ queue # <<>>
  /\ current' = queue[Len(queue)]
  /\ queue' = SubSeq(queue, 1, Len(queue) - 1)
  /\ cursor' = 1
  /\ UNCHANGED <<pending, sent, handled, heap>>

\* xQueueReceive returns the oldest event.
Receive ==
  /\ MainRuns
  /\ current = NoEvent
  /\ queue # <<>>
  /\ current' = Head(queue)
  /\ queue' = Tail(queue)
  /\ cursor' = 1
  /\ UNCHANGED <<pending, sent, handled, heap>>

\* fireEvent calls the next listener's handleEvent, which may push one event.
FireListener ==
  /\ MainRuns
  /\ current # NoEvent
  /\ cursor <= ListenerCount
  /\ handled' = [handled EXCEPT ![cursor] = Append(@, current)]
  /\ cursor' = cursor + 1
  /\ \/ UNCHANGED <<pending, sent>>
     \/ /\ sent[MainTask] < MaxPushes
        /\ pending' = [pending EXCEPT ![MainTask] = NewEvent(MainTask, FALSE)]
        /\ sent' = [sent EXCEPT ![MainTask] = @ + 1]
  /\ UNCHANGED <<queue, current, heap>>

\* Mutant: the listener loop stops one short.
FinishDispatchEarly ==
  /\ MainRuns
  /\ current # NoEvent
  /\ cursor = ListenerCount
  /\ heap' = IF current.owned THEN heap \ {current} ELSE heap
  /\ current' = NoEvent
  /\ UNCHANGED <<queue, pending, sent, cursor, handled>>

\* Mutant: the data block is never freed.
FinishDispatchLeaks ==
  /\ MainRuns
  /\ current # NoEvent
  /\ cursor = ListenerCount + 1
  /\ current' = NoEvent
  /\ UNCHANGED <<queue, pending, sent, cursor, handled, heap>>

\* All listeners are done; the data of an owned event is freed.
FinishDispatch ==
  /\ MainRuns
  /\ current # NoEvent
  /\ cursor = ListenerCount + 1
  /\ heap' = IF current.owned THEN heap \ {current} ELSE heap
  /\ current' = NoEvent
  /\ UNCHANGED <<queue, pending, sent, cursor, handled>>

-----------------------------------------------------------------------------
Next ==
  \/ \E t \in Tasks, owned \in BOOLEAN : PushEvent(t, owned)
  \/ \E t \in Tasks : Enqueue(t)
  \/ Receive
  \/ FireListener
  \/ FinishDispatch

\* Every task that is able to run is scheduled in the end: all of them block
\* between two pieces of work, so the main task (lowest priority) gets its turn.
Fairness ==
  /\ WF_vars(Receive)
  /\ WF_vars(FireListener)
  /\ WF_vars(FinishDispatch)
  /\ WF_vars(\E t \in Tasks : Enqueue(t))

Spec == Init /\ [][Next]_vars /\ Fairness

-----------------------------------------------------------------------------
(* Properties *)

\* Types of the variables of EventManager and of main's dispatch loop.
TypeOK ==
  /\ queue \in Seq(Event)
  /\ Len(queue) <= QueueSize
  /\ pending \in [Tasks -> Event \cup {NoEvent}]
  /\ sent \in [Tasks -> 0..MaxPushes]
  /\ current \in Event \cup {NoEvent}
  /\ cursor \in 1..(ListenerCount + 1)
  /\ handled \in [Listeners -> Seq(Event)]
  /\ heap \subseteq Event

\* Everything that has entered the queue, oldest first: what the last listener
\* was given, the event it is still to be given, and the queue.
Accepted ==
  handled[ListenerCount]
    \o (IF current # NoEvent /\ cursor <= ListenerCount THEN <<current>> ELSE <<>>)
    \o queue

Successor(e, f) == e.task = f.task /\ e.seq + 1 = f.seq

\* A listener never sees an event of a task twice, out of order, or without the
\* ones the task pushed before it: pushEvent and dispatchEvent lose and reorder
\* nothing, whichever tasks were blocked on the full queue.
ListenersSeeEachTaskInOrder ==
  \A l \in Listeners : \A i \in DOMAIN handled[l] :
    LET e == handled[l][i]
    IN  /\ \A j \in 1..(i - 1) :
             handled[l][j].task = e.task => handled[l][j].seq < e.seq
        /\ e.seq > 1 => \E j \in 1..(i - 1) : Successor(handled[l][j], e)

\* Events on their way: blocked in xQueueSend, queued, or being dispatched.
InFlight ==
  ({pending[t] : t \in Tasks} \cup {queue[i] : i \in DOMAIN queue} \cup {current})
    \ {NoEvent}

\* The data block of an owned event is allocated exactly as long as the event
\* is on its way: no listener reads freed data and no block outlives its event
\* (std::free in dispatchEvent after fireEvent).
DataBlockLivesWithItsEvent == heap = {e \in InFlight : e.owned}

Stalled == pending[MainTask] # NoEvent /\ Len(queue) = QueueSize

\* A push made by the main task into a full queue is final: nobody but the main
\* task makes room, so the device stops handling events for good.
StallIsFinal == [][Stalled => Stalled']_vars

\* Whatever was accepted by the queue reaches the last listener, unless the
\* main task blocks on its own push.
AcceptedIsHandled ==
  \A t \in Tasks, n \in 1..MaxPushes :
    (\E i \in DOMAIN queue : queue[i].task = t /\ queue[i].seq = n)
      ~> (\/ Stalled
          \/ \E i \in DOMAIN handled[ListenerCount] :
               /\ handled[ListenerCount][i].task = t
               /\ handled[ListenerCount][i].seq = n)

\* The queue with its dispatcher implements the abstract bus.
Bus == INSTANCE EventBus WITH Events <- Event, accepted <- Accepted

ImplementsBus == Bus!Spec
=============================================================================
