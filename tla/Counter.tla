-------------------------------- MODULE Counter --------------------------------
(***************************************************************************)
(* util::Counter in the washer: the keys (on the display task) and the     *)
(* mqtt client change its value and its target on two threads, and a       *)
(* notice is published when the value is the target.                       *)
(***************************************************************************)
EXTENDS Integers

CONSTANTS
    Base,           \* 10: the counter has three digits of this base
    FirstTarget,    \* 777, and the target a message without one sets
    MqttValues      \* numbers in the messages of mqtt

\* The counter begins at 0, and nobody tells of that. (The module that composes
\* the devices assumes it of its values.)
TargetIsAhead == FirstTarget # 0

VARIABLES
    value, target, multiplier,
    pc,             \* "idle", "write", "target", "check", "tell" by thread
    arg,            \* what the thread writes
    told            \* a notice was sent since value or target was last written

vars == <<value, target, multiplier, pc, arg, told>>

Limit == Base * Base * Base
Threads == {"keys", "mqtt"}
Missing == -1

-----------------------------------------------------------------------------

Init ==
    /\ value = 0 /\ target = FirstTarget /\ multiplier = 1
    /\ pc = [t \in Threads |-> "idle"] /\ arg = [t \in Threads |-> 0] /\ told = FALSE

Goto(t, step) == pc' = [pc EXCEPT ![t] = step]

\* setValue() and setTarget() refuse what is out of range.
Set(t, v, step) ==
    IF 0 <= v /\ v < Limit THEN Goto(t, step) /\ arg' = [arg EXCEPT ![t] = v]
    ELSE UNCHANGED <<pc, arg>>

\* The first key, held for 50 ms: changeMultiplier().
ChangeMultiplier ==
    /\ pc["keys"] = "idle"
    /\ multiplier' = IF multiplier * Base > Base * Base THEN 1 ELSE multiplier * Base
    /\ UNCHANGED <<value, target, pc, arg, told>>

\* The second key: increment() reads the value it will write over.
Increment ==
    /\ pc["keys"] = "idle"
    /\ LET v == value + multiplier IN Set("keys", IF v >= Limit THEN v - Limit ELSE v, "write")
    /\ UNCHANGED <<value, target, multiplier, told>>

\* The topics set_value and set_target, each with its default.
SetMessage ==
    /\ pc["mqtt"] = "idle"
    /\ \E v \in MqttValues \cup {Missing} :
          \/ Set("mqtt", IF v = Missing THEN 0 ELSE v, "write")
          \/ Set("mqtt", IF v = Missing THEN FirstTarget ELSE v, "target")
    /\ UNCHANGED <<value, target, multiplier, told>>

\* setValue(): the assignment.
WriteValue(t) ==
    /\ pc[t] = "write" /\ Goto(t, "check")
    /\ value' = arg[t] /\ told' = FALSE
    /\ UNCHANGED <<target, multiplier, arg>>

\* Mutant: a new target is not compared with the value.
WriteTargetOnly(t) ==
    /\ pc[t] = "target" /\ Goto(t, "idle")
    /\ target' = arg[t] /\ told' = FALSE
    /\ UNCHANGED <<value, multiplier, arg>>

\* setTarget(): the assignment.
WriteTarget(t) ==
    /\ pc[t] = "target" /\ Goto(t, "check")
    /\ target' = arg[t] /\ told' = FALSE
    /\ UNCHANGED <<value, multiplier, arg>>

\* _checkCondition()
Check(t) ==
    /\ pc[t] = "check"
    /\ Goto(t, IF target = value THEN "tell" ELSE "idle")
    /\ UNCHANGED <<value, target, multiplier, arg, told>>

\* The callback publishes the value of this moment.
Tell(t) ==
    /\ pc[t] = "tell" /\ Goto(t, "idle")
    /\ told' = TRUE
    /\ UNCHANGED <<value, target, multiplier, arg>>

Next ==
    \/ ChangeMultiplier \/ Increment \/ SetMessage
    \/ \E t \in Threads : WriteValue(t) \/ WriteTarget(t) \/ Check(t) \/ Tell(t)

Spec == Init /\ [][Next]_vars

-----------------------------------------------------------------------------
(* Properties                                                              *)

\* When both threads are done and the counter is at its target, that was told
\* after the last change of either, whoever changed what at the same time.
TargetIsTold ==
    (\A t \in Threads : pc[t] = "idle") /\ value = target => told
=============================================================================
