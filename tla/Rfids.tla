-------------------------------- MODULE Rfids --------------------------------
(***************************************************************************)
(* The tag readers: one task (priority 15) listens to the antennas, as     *)
(* many at a time as there are uarts, and keeps the tag of each; another   *)
(* (13) posts all of them when it is notified that one changed.            *)
(***************************************************************************)
EXTENDS Integers, FiniteSets

CONSTANTS
    Antennas,       \* RX_PINS, as 0 .. n - 1
    Readers,        \* uarts: two, or one if the other is used for the log
    Tags,           \* numbers of tags, above 0
    Misread,        \* what a garbled packet is taken for
    MaxMoves,       \* bound: tags put down or taken away
    MaxFaults       \* bound: packets missed or garbled, posts that fail

VARIABLES
    near,               \* the tag at each antenna, or 0
    states,             \* _states
    at, idx, changed,   \* the reader: i, idx and the flag
    notified,           \* the notification of the sender
    sender, copied, message,    \* the sender: its step, entries it wrote so far
    told, lost,         \* the last message posted; a post failed since
    moves, faults

tasks == <<at, idx, changed, notified, sender, copied, message, told, lost>>
vars == <<near, states, tasks, moves, faults>>

None == [a \in Antennas |-> 0]
Size == Cardinality(Antennas)

Init ==
    /\ near = None /\ states = None
    /\ at = 0 /\ idx = 0 /\ changed = FALSE
    /\ notified = FALSE
    /\ sender = "wait" /\ copied = 0 /\ message = None
    /\ told = None /\ lost = FALSE
    /\ moves = 0 /\ faults = 0

Fault == faults < MaxFaults /\ faults' = faults + 1

Move(a, t) ==
    /\ moves < MaxMoves /\ moves' = moves + 1
    /\ t # near[a]
    /\ near' = [near EXCEPT ![a] = t]
    /\ UNCHANGED <<states, tasks, faults>>

-----------------------------------------------------------------------------
(* _taskReader()                                                           *)

\* The last antenna of an odd number has no other beside it.
Beside(i) == IF i = Size - 1 THEN 1 ELSE Readers

\* The next reader of these antennas, the next antennas, or the next scan, before
\* which the sender is notified of a change.
GoOn(change) ==
    IF idx + 1 < Beside(at)
    THEN idx' = idx + 1 /\ changed' = change /\ UNCHANGED <<at, notified>>
    ELSE /\ idx' = 0
         /\ IF at + Readers < Size
            THEN at' = at + Readers /\ changed' = change /\ UNCHANGED notified
            ELSE at' = 0 /\ changed' = FALSE /\ notified' = (notified \/ change)

Take(t) ==
    LET a == at + idx
    IN  /\ states' = [states EXCEPT ![a] = t]
        /\ GoOn(changed \/ states[a] # t)

\* A packet, or none in the time of a read: the tag is there, or it is lost.
ReadAntenna ==
    /\ Take(near[at + idx])
    /\ UNCHANGED <<near, sender, copied, message, told, lost, moves, faults>>

\* A tag is slow, and its packet comes too late.
MissPacket ==
    /\ near[at + idx] # 0
    /\ Take(0) /\ Fault
    /\ UNCHANGED <<near, sender, copied, message, told, lost, moves>>

\* Bytes without a whole packet among them: the tag is kept.
FindNoPackage ==
    /\ GoOn(changed) /\ Fault
    /\ UNCHANGED <<near, states, sender, copied, message, told, lost, moves>>

\* A whole packet that was garbled: its check sum is parsed, but not compared.
Garble ==
    /\ near[at + idx] # 0
    /\ \E t \in Misread : Take(t)
    /\ Fault
    /\ UNCHANGED <<near, sender, copied, message, told, lost, moves>>

Read == ReadAntenna \/ MissPacket \/ FindNoPackage \/ Garble

-----------------------------------------------------------------------------
(* _sendTask()                                                             *)

TakeNotice ==
    /\ sender = "wait" /\ notified
    /\ notified' = FALSE
    /\ sender' = "copy" /\ copied' = 0
    /\ UNCHANGED <<near, states, at, idx, changed, message, told, lost, moves, faults>>

\* The entries are written one by one, while the reader goes on.
Copy ==
    /\ sender = "copy"
    /\ message' = [message EXCEPT ![copied] = states[copied]]
    /\ copied' = copied + 1
    /\ sender' = IF copied' = Size THEN "post" ELSE "copy"
    /\ UNCHANGED <<near, states, at, idx, changed, notified, told, lost, moves, faults>>

\* A mutant: the notification is taken back after the post.
PostClears(ok) ==
    /\ sender = "post" /\ sender' = "wait"
    /\ IF ok THEN told' = message /\ lost' = FALSE /\ UNCHANGED faults
             ELSE Fault /\ lost' = TRUE /\ UNCHANGED told
    /\ notified' = FALSE
    /\ UNCHANGED <<near, states, at, idx, changed, copied, message, moves>>

\* What becomes of the post is not looked at.
PostDone(ok) ==
    /\ sender = "post" /\ sender' = "wait"
    /\ IF ok THEN told' = message /\ lost' = FALSE /\ UNCHANGED faults
             ELSE Fault /\ lost' = TRUE /\ UNCHANGED told
    /\ UNCHANGED <<near, states, at, idx, changed, notified, copied, message, moves>>

-----------------------------------------------------------------------------
Next ==
    \/ \E a \in Antennas, t \in Tags \cup {0} : Move(a, t)
    \/ Read
    \/ TakeNotice
    \/ Copy
    \/ \E ok \in BOOLEAN : PostDone(ok)

Fairness ==
    /\ WF_vars(ReadAntenna)
    /\ WF_vars(TakeNotice)
    /\ WF_vars(Copy)
    /\ WF_vars(PostDone(TRUE))

Spec == Init /\ [][Next]_vars /\ Fairness

-----------------------------------------------------------------------------
(* Whatever the tags did and the readers missed while a message was being  *)
(* put together or posted, the server knows in the end which tag is at     *)
(* each antenna, unless the last post failed, which is not repeated.       *)
TagsAreTold == <>[](told = near \/ lost)
=============================================================================
