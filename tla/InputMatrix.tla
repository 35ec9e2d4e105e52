------------------------------ MODULE InputMatrix ------------------------------
(***************************************************************************)
(* The input matrix: a button flips its state when it is released, messages *)
(* of mqtt set the states and the target, and a task of its own publishes  *)
(* what changed. The three threads share the states and the flag that they *)
(* changed without a lock. The lights follow the states and are left out.  *)
(***************************************************************************)
EXTENDS Integers, Sequences

CONSTANTS
    Size,           \* buttons of the matrix: 30
    QueueSize,      \* moves the queue takes: 20
    MaxChanges      \* bound on releases, messages and changes of the property

InputMatrixAssumption == Size \in Nat /\ QueueSize \in Nat /\ MaxChanges \in Nat

VARIABLES
    toggle,         \* _toggleStates
    goal,           \* _targetState
    enabled,        \* the setting e_target
    moves,          \* entries in _buttonsQueue
    dirty,          \* _dirtyFlag
    todo,           \* what each thread has still to do
    copy,           \* the states the publisher has converted so far
    retained,       \* the last message "state", which the broker keeps
    finished,       \* "Finished" was sent since the states were last written
    lastChange,     \* what was written last: "start", "toggle", "goal", "enabled"
    changes         \* counter of the bound

vars == <<toggle, goal, enabled, moves, dirty, todo, copy, retained, finished,
          lastChange, changes>>

Buttons == 0..Size - 1
Combinations == [Buttons -> BOOLEAN]
Threads == {"grid", "mqtt", "publisher"}

Init ==
    /\ toggle = [b \in Buttons |-> FALSE]
    /\ goal \in Combinations /\ enabled \in BOOLEAN
    /\ moves = 0 /\ dirty = TRUE
    /\ todo = [t \in Threads |-> << >>] /\ copy = << >> /\ retained = << >>
    /\ finished = FALSE /\ lastChange = "start" /\ changes = 0

-----------------------------------------------------------------------------
(* What a thread has to do, one access to the shared state at a time       *)

Do(op, button, on) == <<[op |-> op, button |-> button, on |-> on]>>
Now(t, op) == todo[t] # << >> /\ Head(todo[t]).op = op
Its(t) == Head(todo[t])
Pass(t) == todo' = [todo EXCEPT ![t] = Tail(@)]

\* The same step for each button, or for as many of them as there are values.
ForEach(op, values) ==
    [i \in 1..Len(values) |-> [op |-> op, button |-> i - 1, on |-> values[i]]]

\* parseNumberArray(): the numbers of the message, of which those past the last
\* button are dropped; what is no number is skipped and leaves no gap.
Messages == UNION {[1..n -> BOOLEAN] : n \in 0..Size}

\* _handleTargetTopic() compares nothing in the end.
TargetSteps(values) == ForEach("goal", values)

\* _handleToggleTopic()
ToggleMessage(values) == ForEach("write", values) \o Do("check", 0, FALSE)

-----------------------------------------------------------------------------
(* The inputs                                                              *)

Asked == changes < MaxChanges /\ changes' = changes + 1

\* _handleButtonPresses() for a press: only a move, lost when the queue is full.
Queued == IF moves < QueueSize THEN moves + 1 ELSE moves

Pressed ==
    /\ todo["grid"] = << >> /\ Asked /\ moves' = Queued
    /\ UNCHANGED <<toggle, goal, enabled, dirty, todo, copy, retained, finished, lastChange>>

\* For a release: the state it writes is the opposite of what it reads now.
Released ==
    /\ todo["grid"] = << >> /\ Asked /\ moves' = Queued
    /\ \E b \in Buttons :
          todo' = [todo EXCEPT !["grid"] =
                      Do("write", b, ~toggle[b]) \o Do("check", 0, FALSE)]
    /\ UNCHANGED <<toggle, goal, enabled, dirty, copy, retained, finished, lastChange>>

Message ==
    /\ todo["mqtt"] = << >> /\ Asked
    /\ \E values \in Messages :
          \/ todo' = [todo EXCEPT !["mqtt"] = TargetSteps(values)]
          \/ todo' = [todo EXCEPT !["mqtt"] = ToggleMessage(values)]
    /\ UNCHANGED <<toggle, goal, enabled, moves, dirty, copy, retained, finished, lastChange>>

\* The property "Enable target" is stored and compared with nothing.
Enable ==
    /\ Asked /\ enabled' = ~enabled /\ lastChange' = "enabled"
    /\ UNCHANGED <<toggle, goal, moves, dirty, todo, copy, retained, finished>>

-----------------------------------------------------------------------------
(* The steps                                                               *)

\* _changeToggleState(): the state first, then the flag.
Write(t) ==
    /\ Now(t, "write")
    /\ todo' = [todo EXCEPT ![t] = Do("flag", Its(t).button, Its(t).on) \o Tail(@)]
    /\ toggle' = [toggle EXCEPT ![Its(t).button] = Its(t).on]
    /\ finished' = FALSE /\ lastChange' = "toggle"
    /\ UNCHANGED <<goal, enabled, moves, dirty, copy, retained, changes>>

SetFlag(t) ==
    /\ Now(t, "flag") /\ Pass(t) /\ dirty' = TRUE
    /\ UNCHANGED <<toggle, goal, enabled, moves, copy, retained, finished, lastChange, changes>>

WriteGoal(t) ==
    /\ Now(t, "goal") /\ Pass(t)
    /\ goal' = [goal EXCEPT ![Its(t).button] = Its(t).on] /\ lastChange' = "goal"
    /\ UNCHANGED <<toggle, enabled, moves, dirty, copy, retained, finished, changes>>

\* _checkTargetCondition()
Check(t) ==
    /\ Now(t, "check")
    /\ todo' = [todo EXCEPT ![t] = IF enabled /\ toggle = goal
                                   THEN Do("notify", 0, FALSE) ELSE << >>]
    /\ UNCHANGED <<toggle, goal, enabled, moves, dirty, copy, retained, finished,
                   lastChange, changes>>

Notify(t) ==
    /\ Now(t, "notify") /\ Pass(t) /\ finished' = TRUE
    /\ UNCHANGED <<toggle, goal, enabled, moves, dirty, copy, retained, lastChange, changes>>

-----------------------------------------------------------------------------
(* _mqttPublishTask()                                                      *)

PublishMoves ==
    /\ todo["publisher"] = << >> /\ moves > 0 /\ moves' = 0
    /\ UNCHANGED <<toggle, goal, enabled, dirty, todo, copy, retained, finished,
                   lastChange, changes>>

\* Only then the states are read, one by one.
ClearFlag ==
    /\ todo["publisher"] = << >> /\ dirty
    /\ dirty' = FALSE /\ copy' = << >>
    /\ todo' = [todo EXCEPT !["publisher"] =
                   ForEach("copy", [i \in 1..Size |-> FALSE]) \o Do("publish", 0, FALSE)]
    /\ UNCHANGED <<toggle, goal, enabled, moves, retained, finished, lastChange, changes>>

Copy ==
    /\ Now("publisher", "copy") /\ Pass("publisher")
    /\ copy' = Append(copy, toggle[Its("publisher").button])
    /\ UNCHANGED <<toggle, goal, enabled, moves, dirty, retained, finished, lastChange, changes>>

\* Mutant: the flag is cleared when the state has been published.
PublishStateClears ==
    /\ Now("publisher", "publish") /\ Pass("publisher")
    /\ retained' = copy /\ dirty' = FALSE
    /\ UNCHANGED <<toggle, goal, enabled, moves, copy, finished, lastChange, changes>>

PublishState ==
    /\ Now("publisher", "publish") /\ Pass("publisher")
    /\ retained' = copy
    /\ UNCHANGED <<toggle, goal, enabled, moves, dirty, copy, finished, lastChange, changes>>

Next ==
    \/ Pressed \/ Released \/ Message \/ Enable
    \/ \E t \in Threads : Write(t) \/ SetFlag(t) \/ WriteGoal(t) \/ Check(t) \/ Notify(t)
    \/ PublishMoves \/ ClearFlag \/ Copy \/ PublishState

Spec == Init /\ [][Next]_vars

-----------------------------------------------------------------------------
(* Properties                                                              *)

Quiet == \A t \in Threads : todo[t] = << >>

LastStateIsPublished ==
    Quiet /\ ~dirty => \A b \in Buttons : retained[b + 1] = toggle[b]
FinishedIsTold ==
    Quiet /\ enabled /\ toggle = goal /\ lastChange = "toggle" => finished

\* When all three threads are done, the state the broker keeps is the state of
\* the buttons, whoever wrote while it was copied; and states that were written
\* last and are the target were told to be, whichever of two threads wrote the
\* one that was missing.
StatesAreTold == LastStateIsPublished /\ FinishedIsTold
=============================================================================
