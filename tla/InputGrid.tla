------------------------------- MODULE InputGrid -------------------------------
(***************************************************************************)
(* One button of util::InputGrid: the task of the grid reads it in every   *)
(* scan, takes a press for one when it outlasts the bounces, and tells for *)
(* how long it was held. A scan takes its time: the callback is part of it. *)
(***************************************************************************)
EXTENDS Integers

CONSTANTS
    DebounceMs,     \* setting: 15
    StillMs,        \* setting: 500
    ScanMs,         \* the longest time between two reads
    MaxHold,        \* bound on a hold
    MaxPause        \* bound on the time a released button is counted for

\* A released button is counted for no less than a scan.
InputGridAssumption ==
    /\ {DebounceMs, StillMs, ScanMs, MaxHold, MaxPause} \subseteq Nat
    /\ ScanMs <= MaxPause

VARIABLES
    isPressed,      \* what a read finds
    action,         \* the fields of _ButtonInfo
    duration, cycles,
    sinceTick,      \* now - previousTick
    sinceRead,      \* since the last read
    span,           \* since the read that found the press, up to the last that found it down
    move            \* the last entry given to the callback: [action, ms]

vars == <<isPressed, action, duration, cycles, sinceTick, sinceRead, span, move>>

Init ==
    /\ isPressed \in BOOLEAN /\ action = "RELEASED"
    /\ duration = 0 /\ cycles = 0 /\ sinceTick = 0 /\ sinceRead = 0 /\ span = 0
    /\ move = [action |-> "RELEASED", ms |-> 0]

\* The button, and its bounces.
Move ==
    /\ isPressed' = ~isPressed
    /\ UNCHANGED <<action, duration, cycles, sinceTick, sinceRead, span, move>>

Time ==
    /\ sinceRead < ScanMs /\ span + sinceRead < MaxHold
    /\ sinceRead' = sinceRead + 1
    /\ sinceTick' = IF sinceTick < MaxPause THEN sinceTick + 1 ELSE MaxPause
    /\ UNCHANGED <<isPressed, action, duration, cycles, span, move>>

\* press() and release() of _ButtonInfo, and the two tests of the times. All
\* but the last one set previousTick.
Tell(kind, ms) == move' = [action |-> kind, ms |-> ms]
Restart == duration' = 0 /\ sinceTick' = 0
Count == duration' = duration + sinceTick /\ sinceTick' = 0

\* Mutant: press() leaves the cycles of the hold before.
PressKeepsCycles ==
    /\ isPressed /\ action = "RELEASED"
    /\ action' = "PRESSED" /\ Restart
    /\ span' = 0 /\ UNCHANGED <<cycles, move>>

Press ==
    /\ isPressed /\ action = "RELEASED"
    /\ action' = "PRESSED" /\ cycles' = 0 /\ Restart
    /\ span' = 0 /\ UNCHANGED move

PassDebounce ==
    /\ isPressed /\ action = "PRESSED"
    /\ IF duration + sinceTick > DebounceMs
       THEN action' = "STILL_PRESSED" /\ Restart /\ Tell("PRESSED", 0)
       ELSE Count /\ UNCHANGED <<action, move>>
    /\ span' = span + sinceRead /\ UNCHANGED cycles

UpdateHoldTime ==
    /\ isPressed /\ action = "STILL_PRESSED"
    /\ IF duration + sinceTick > StillMs
       THEN cycles' = cycles + 1 /\ Restart /\ Tell("STILL_PRESSED", cycles' * StillMs)
       ELSE Count /\ UNCHANGED <<cycles, move>>
    /\ span' = span + sinceRead /\ UNCHANGED action

Release ==
    /\ ~isPressed /\ action = "STILL_PRESSED"
    /\ action' = "RELEASED" /\ Tell("RELEASED", cycles * StillMs + duration)
    /\ UNCHANGED <<duration, cycles, sinceTick, span>>

Bounce ==
    /\ ~isPressed /\ action \in {"PRESSED", "RELEASED"}
    /\ action' = "RELEASED" /\ span' = 0
    /\ UNCHANGED <<duration, cycles, sinceTick, move>>

\* _handleButton(), once in a scan.
HandleButton ==
    /\ sinceRead > 0 /\ sinceRead' = 0
    /\ Press \/ PassDebounce \/ UpdateHoldTime \/ Release \/ Bounce
    /\ UNCHANGED isPressed

Next == Move \/ Time \/ HandleButton

Spec == Init /\ [][Next]_vars

-----------------------------------------------------------------------------
(* Properties                                                              *)

\* The time told with a release is never longer than the hold, and shorter by
\* no more than the bounces and one scan for each time the count started again.
HoldIsToldRight ==
    move.action = "RELEASED" /\ action = "RELEASED" /\ span > 0 =>
        /\ move.ms <= span
        /\ span <= move.ms + DebounceMs + ScanMs * (cycles + 1)
=============================================================================
