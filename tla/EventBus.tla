------------------------------ MODULE EventBus ------------------------------
(***************************************************************************)
(* What fb::event::EventManager promises to the rest of the firmware: one  *)
(* sequence of accepted events, and every listener is handed that sequence *)
(* from its beginning, without a gap, one event at a time, the listeners   *)
(* in the order they were attached.  Queues, blocking and the task that    *)
(* calls the listeners do not appear here; EventManager.tla implements     *)
(* this specification.                                                     *)
(***************************************************************************)
EXTENDS Integers, Sequences

CONSTANTS Events,         \* what a producer can push
          ListenerCount   \* listeners are numbered in attach order

VARIABLES accepted,       \* every event the bus has taken, oldest first
          handled         \* handled[l]: what listener l has been given so far

busVars == <<accepted, handled>>

Listeners == 1..ListenerCount

Init == /\ accepted = <<>>
        /\ handled = [l \in Listeners |-> <<>>]

Accept(e) == /\ accepted' = Append(accepted, e)
             /\ UNCHANGED handled

\* Listener l is given event k only after every listener attached before it
\* has been given k and nobody lags behind k - 1.
Deliver(l) ==
  LET k == Len(handled[l]) + 1
  IN  /\ k <= Len(accepted)
      /\ \A j \in Listeners : Len(handled[j]) >= IF j < l THEN k ELSE k - 1
      /\ handled' = [handled EXCEPT ![l] = Append(@, accepted[k])]
      /\ UNCHANGED accepted

Next == \/ \E e \in Events : Accept(e)
        \/ \E l \in Listeners : Deliver(l)

Spec == Init /\ [][Next]_busVars
=============================================================================
