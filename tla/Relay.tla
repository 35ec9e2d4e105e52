-------------------------------- MODULE Relay --------------------------------
(***************************************************************************)
(* The relay board that is driven over mqtt: messages set the mode of a    *)
(* channel, for good or for a duration; the task of AcDimmer moves the     *)
(* outputs as the modes say; the time scheduler returns a channel to the   *)
(* mode it had. All run on the one core: the scheduler (priority 15)       *)
(* interrupts the dimmer (10), and both interrupt the mqtt client (5).     *)
(***************************************************************************)
EXTENDS Integers, Sequences, SequencesExt

CONSTANTS
    Channels,       \* of the board
    Periods,        \* pairs of "min" and "max" a message may hold
    MaxTick,        \* bound: ticks are counted up to here; even, above every period
    MaxMessages     \* bound: items of messages, and commands of the app

Modes == {"off", "on", "dimmed", "blink"}
None == "none"
NoPeriod == <<>>
Never == MaxTick + 1    \* a period no count of ticks comes to

VARIABLES
    modes, tick, period, lit, minTick, maxTick,     \* AcDimmer
    output,                                         \* level of the pins
    at, m, count,           \* the dimmer: its step, the channel; what it read
    mqtt, item, old,        \* the mqtt client: its step, the item, oldState
    timers,                 \* actions the scheduler holds
    sent,                   \* bound
    byApp,                  \* channels whose output the app set after the dimmer
    torn                    \* channels that were set while the dimmer was at them

progress == <<tick, period, lit, minTick, maxTick>>
dimmer == <<at, m, count>>
client == <<mqtt, item, old>>
ghosts == <<byApp, torn>>
vars == <<modes, progress, output, dimmer, client, timers, sent, ghosts>>

Idle == [step |-> "sleep"]
NoItem == [i |-> -1]
At(step, i) == [step |-> step, i |-> i]

Init ==
    /\ modes = [i \in Channels |-> "off"]
    /\ tick = [i \in Channels |-> 0] /\ period = [i \in Channels |-> 0]
    /\ lit = [i \in Channels |-> FALSE]
    /\ minTick = [i \in Channels |-> 1] /\ maxTick = [i \in Channels |-> 2]
    /\ output = [i \in Channels |-> FALSE]
    /\ at = Idle /\ m = None /\ count = 0
    /\ mqtt = "idle" /\ item = NoItem /\ old = None
    /\ timers = <<>> /\ sent = 0
    /\ byApp = {} /\ torn = {}

-----------------------------------------------------------------------------
(* AcDimmer::tick()                                                        *)

\* The task wakes up, or goes on to the next channel.
After(i) == IF i + 1 \in Channels THEN At("mode", i + 1) ELSE Idle

WakeUp ==
    /\ at = Idle
    /\ at' = At("mode", 0)
    /\ UNCHANGED <<modes, progress, output, m, count, client, timers, sent, ghosts>>

ReadMode(i) ==
    /\ at = At("mode", i)
    /\ m' = modes[i]
    /\ at' = At("act", i)
    /\ UNCHANGED <<modes, progress, output, count, client, timers, sent, ghosts>>

\* The callback; then ++ reads the ticks, to write them in a step of its own.
Show(i, level) ==
    /\ output' = [output EXCEPT ![i] = level]
    /\ byApp' = byApp \ {i}
CountUp(i) == count' = IF tick[i] = MaxTick THEN MaxTick - 1 ELSE tick[i] + 1

HandleOffOn(i) ==
    /\ at = At("act", i) /\ m \in {"off", "on"}
    /\ IF tick[i] = 0
       THEN Show(i, m = "on") /\ CountUp(i) /\ at' = At("count", i)
       ELSE at' = After(i) /\ UNCHANGED <<output, byApp, count>>
    /\ UNCHANGED <<modes, progress, m, client, timers, sent, torn>>

HandleDimmed(i) ==
    /\ at = At("act", i) /\ m = "dimmed"
    /\ Show(i, tick[i] % 2 = 1)
    /\ CountUp(i) /\ at' = At("count", i)
    /\ UNCHANGED <<modes, progress, m, client, timers, sent, torn>>

\* std::uniform_int_distribution with its ends the wrong way round is
\* undefined: the draw may be any number.
Draw(i) == IF minTick[i] <= maxTick[i] THEN minTick[i] .. maxTick[i]
                                       ELSE (0 .. MaxTick) \cup {Never}

HandleBlink(i) ==
    /\ at = At("act", i) /\ m = "blink"
    /\ IF tick[i] = period[i]
       THEN /\ tick' = [tick EXCEPT ![i] = 0]
            /\ \E p \in Draw(i) : period' = [period EXCEPT ![i] = p]
            /\ lit' = [lit EXCEPT ![i] = ~@]
            /\ Show(i, lit'[i])
            /\ at' = After(i) /\ UNCHANGED count
       ELSE /\ CountUp(i) /\ at' = At("count", i)
            /\ UNCHANGED <<tick, period, lit, output, byApp>>
    /\ UNCHANGED <<modes, minTick, maxTick, m, client, timers, sent, torn>>

WriteTick(i) ==
    /\ at = At("count", i)
    /\ tick' = [tick EXCEPT ![i] = count]
    /\ at' = After(i)
    /\ UNCHANGED <<modes, period, lit, minTick, maxTick, output, m, count, client,
                   timers, sent, ghosts>>

Dim(i) == ReadMode(i) \/ HandleOffOn(i) \/ HandleDimmed(i) \/ HandleBlink(i) \/ WriteTick(i)

-----------------------------------------------------------------------------
(* _handleMqtt(), which runs while the dimmer sleeps                       *)

Turn == at = Idle

\* An item with an index and a mode that are legal; others are ignored.
Receive(i, mode, periods, pulse) ==
    /\ Turn /\ mqtt = "idle"
    /\ sent < MaxMessages /\ sent' = sent + 1
    /\ item' = [i |-> i, mode |-> mode, periods |-> periods, pulse |-> pulse]
    /\ mqtt' = IF periods = NoPeriod THEN "old" ELSE "min"
    /\ UNCHANGED <<modes, progress, output, dimmer, old, timers, ghosts>>

SetMin ==
    /\ Turn /\ mqtt = "min" /\ mqtt' = "max"
    /\ minTick' = [minTick EXCEPT ![item.i] = item.periods[1]]
    /\ UNCHANGED <<modes, tick, period, lit, maxTick, output, dimmer, item, old, timers,
                   sent, ghosts>>

SetMax ==
    /\ Turn /\ mqtt = "max" /\ mqtt' = "old"
    /\ maxTick' = [maxTick EXCEPT ![item.i] = item.periods[2]]
    /\ UNCHANGED <<modes, tick, period, lit, minTick, output, dimmer, item, old, timers,
                   sent, ghosts>>

GetMode ==
    /\ Turn /\ mqtt = "old" /\ mqtt' = "mode"
    /\ old' = modes[item.i]
    /\ UNCHANGED <<modes, progress, output, dimmer, item, timers, sent, ghosts>>

\* setState() writes the mode and then the tick.
SetMode ==
    /\ Turn /\ mqtt = "mode" /\ mqtt' = "tick"
    /\ modes' = [modes EXCEPT ![item.i] = item.mode]
    /\ UNCHANGED <<progress, output, dimmer, item, old, timers, sent, ghosts>>

ResetTick ==
    /\ Turn /\ mqtt = "tick" /\ mqtt' = IF item.pulse THEN "timer" ELSE "idle"
    /\ tick' = [tick EXCEPT ![item.i] = 0]
    /\ UNCHANGED <<modes, period, lit, minTick, maxTick, output, dimmer, item, old,
                   timers, sent, ghosts>>

AddTimer ==
    /\ Turn /\ mqtt = "timer" /\ mqtt' = "idle"
    /\ timers' = Append(timers, [i |-> item.i, old |-> old])
    /\ UNCHANGED <<modes, progress, output, dimmer, item, old, sent, ghosts>>

-----------------------------------------------------------------------------
(* The scheduler and the app                                               *)

\* A mutant: the tick is not reset with the mode.
RestoreModeOnly(k) ==
    /\ modes' = [modes EXCEPT ![timers[k].i] = timers[k].old]
    /\ timers' = RemoveAt(timers, k)
    /\ UNCHANGED <<progress, output, dimmer, client, sent, ghosts>>

\* A duration is over: the action sets the mode the channel had. It waits for
\* nobody, so both writes come in one step, at any step of the others.
Restore(k) ==
    LET i == timers[k].i
    IN  /\ modes' = [modes EXCEPT ![i] = timers[k].old]
        /\ tick' = [tick EXCEPT ![i] = 0]
        /\ timers' = RemoveAt(timers, k)
        /\ torn' = IF at \in {At("act", i), At("count", i)} THEN torn \cup {i} ELSE torn
        /\ UNCHANGED <<period, lit, minTick, maxTick, output, dimmer, client, sent, byApp>>

\* The properties TurnOn and TurnOff, and a forced switch, drive the pins past the
\* dimmer.
AppSets(i, level) ==
    /\ Turn /\ sent < MaxMessages /\ sent' = sent + 1
    /\ output' = [output EXCEPT ![i] = level]
    /\ byApp' = byApp \cup {i}
    /\ UNCHANGED <<modes, progress, dimmer, client, timers, torn>>

-----------------------------------------------------------------------------

Items == Channels \X Modes \X (Periods \cup {NoPeriod}) \X BOOLEAN

Client == SetMin \/ SetMax \/ GetMode \/ SetMode \/ ResetTick \/ AddTimer

Next ==
    \/ WakeUp
    \/ \E i \in Channels : Dim(i)
    \/ \E x \in Items : Receive(x[1], x[2], x[3], x[4])
    \/ Client
    \/ \E k \in DOMAIN timers : Restore(k)
    \/ \E i \in Channels, level \in BOOLEAN : AppSets(i, level)

\* The dimmer sleeps long enough for the client to go on.
Fairness ==
    /\ WF_vars(WakeUp)
    /\ \A i \in Channels : WF_vars(Dim(i))
    /\ SF_vars(Client)
    /\ WF_vars(\E k \in DOMAIN timers : Restore(k))

Spec == Init /\ [][Next]_vars /\ Fairness

-----------------------------------------------------------------------------
Shows(i) == modes[i] \in {"off", "on"} => output[i] = (modes[i] = "on")

(* In the end each output is as its mode says, whatever messages and the   *)
(* ends of pulses came in between; but for channels the app set directly,  *)
(* and for those a pulse of which ended in the very tick that the dimmer   *)
(* took over another mode (AcDimmer::setState and tick).                   *)
ModeIsApplied == \A i \in Channels : <>[](i \in byApp \cup torn \/ Shows(i))

(* The README: "mode: 0 = off, 1 = on", and a duration says "how long it   *)
(* is in the new state before it returns to the old": in the end the       *)
(* output is as the mode says. The scheduler may set the mode between the  *)
(* callback of the dimmer and its tick++, which then counts the first tick *)
(* of a mode that was never shown.                                         *)
PulseEndIsShown == \A i \in Channels : <>[](i \in byApp \/ Shows(i))
=============================================================================
