---------------------------- MODULE RecentValues ----------------------------
(* What a history of bounded length promises: the last Window values, oldest *)
(* first.  CycleBuffer.tla implements it.                                    *)
EXTENDS Integers, Sequences

CONSTANTS Values, Window

VARIABLE recent

Init == recent = <<>>

Push(v) ==
  recent' = IF Len(recent) < Window THEN Append(recent, v) ELSE Append(Tail(recent), v)

Next == \E v \in Values : Push(v)

Spec == Init /\ [][Next]_recent
=============================================================================
