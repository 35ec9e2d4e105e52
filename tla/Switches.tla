------------------------------ MODULE Switches ------------------------------
(***************************************************************************)
(* The light and the heater of the green house (main/switches, the project *)
(* green_house).  The task of the switch service checks one switch after   *)
(* the other; meanwhile the http server changes limits and force flags,    *)
(* the sensor service the temperature, and time goes on.  There is no lock *)
(* between them.                                                           *)
(*                                                                         *)
(* The fan, the third switch of the project, is the module Fan: it has     *)
(* limits of its own, but the light's times and, at start, the heater's    *)
(* delta, and changes nothing the other two switches read.  The light's    *)
(* times and the heater's copies of them are one variable, although the    *)
(* property's callback writes one object after the other.                  *)
(*                                                                         *)
(* The state of a switch stands for the level of its output too: nobody    *)
(* but its check sets the output (setSpeed() and setColor() run only       *)
(* before the service does).  A switch that is added later is checked      *)
(* later.  Times are hours of a day of DayLength hours.                    *)
(***************************************************************************)
EXTENDS Integers

CONSTANTS DayLength, \* hours of a day
          Temps,     \* what the sensor measures
          InvalidValue, \* what it holds before it has measured
          Lows, Highs, \* limits a user sets
          Delta,     \* by how much they are lower at night
          MaxPulls   \* length of the service's queue

ASSUME SwitchesAssumption ==
  /\ DayLength \in Nat \ {0}
  /\ Temps \cup Lows \cup Highs \subseteq Int /\ Temps # {} /\ Lows # {} /\ Highs # {}
  /\ InvalidValue \notin Temps /\ Delta \in Nat /\ MaxPulls \in Nat \ {0}

Names == {"light", "heater"}
Hours == 0..(DayLength - 1)
ForceStates == {"NONE", "ON", "OFF"}

VARIABLES
  state,    \* SwitchIface::_state
  force,    \* _forseFlag
  cooling,  \* RangeSwitch::_colling of the heater
  low, high, \* its limits
  start, end, \* the light's times, which are the heater's day too
  now, temp, \* hour and temperature
  pulls,    \* in the queue of the service
  task,     \* what the service's task does: "wait", or a step of check()
  http,     \* the http server: "idle", or "force": about to put a pull
  seen      \* history: has each switch been checked since something it depends on changed

vars == <<state, force, cooling, low, high, start, end, now, temp, pulls, task, http, seen>>

Wait == [pc |-> "wait"]
At(pc, s) == task = [pc |-> pc, switch |-> s]
Goto(pc, s) == task' = [pc |-> pc, switch |-> s]

Changed(S) == seen' = [s \in Names |-> IF s \in S THEN "changed" ELSE seen[s]]

Init ==
  /\ state = [s \in Names |-> FALSE]
  /\ force = [s \in Names |-> "NONE"]
  /\ cooling = FALSE
  /\ low \in Lows /\ high \in Highs
  /\ start \in Hours /\ end \in Hours
  /\ now \in Hours /\ temp = InvalidValue
  /\ pulls = 1 /\ task = Wait /\ http = "idle"
  /\ seen = [s \in Names |-> "changed"]

-----------------------------------------------------------------------------
(* SwitchIface::check(), for one switch after the other *)

\* _onPull() of SwitchService
BeginPull ==
  /\ task = Wait /\ pulls > 0
  /\ pulls' = pulls - 1 /\ Goto("on", "light")
  /\ UNCHANGED <<state, force, cooling, low, high, start, end, now, temp, http, seen>>

NextSwitch(s) == task' = IF s = "light" THEN [pc |-> "on", switch |-> "heater"] ELSE Wait

\* The action is performed if the state changes.
Act(s, on) ==
  /\ state' = [state EXCEPT ![s] = on]
  /\ seen' = [seen EXCEPT ![s] = IF @ = "changed" THEN @ ELSE "settled"]
  /\ NextSwitch(s)

\* Is the force flag ON ...
CheckOn(s) ==
  /\ At("on", s)
  /\ IF force[s] = "ON"
     THEN state' = [state EXCEPT ![s] = TRUE] /\ seen' = [seen EXCEPT ![s] = "settled"] /\ NextSwitch(s)
     ELSE /\ Goto("off", s) /\ UNCHANGED state
          /\ seen' = [seen EXCEPT ![s] = IF @ = "changed" THEN "checking" ELSE @]
  /\ UNCHANGED <<force, cooling, low, high, start, end, now, temp, pulls, http>>

\* Mutant: a switch forced off is left as it is.
CheckOffKeeps(s) ==
  /\ At("off", s)
  /\ IF force[s] = "OFF" THEN Act(s, state[s]) ELSE Goto("condition", s) /\ UNCHANGED <<state, seen>>
  /\ UNCHANGED <<force, cooling, low, high, start, end, now, temp, pulls, http>>

\* ... or is it OFF ...
CheckOff(s) ==
  /\ At("off", s)
  /\ IF force[s] = "OFF" THEN Act(s, FALSE) ELSE Goto("condition", s) /\ UNCHANGED <<state, seen>>
  /\ UNCHANGED <<force, cooling, low, high, start, end, now, temp, pulls, http>>

\* Between start and end, which may lie on the next day.
Between(hour) ==
  IF start > end THEN hour >= start \/ hour < end ELSE hour >= start /\ hour < end

\* ... or does the condition decide: TimeSwitch::_condition()
CheckLight ==
  /\ At("condition", "light")
  /\ Act("light", start # end /\ Between(now))
  /\ UNCHANGED <<force, cooling, low, high, start, end, now, temp, pulls, http>>

\* RangeSwitch::checkValues() first sees whether there is a value ...
CheckValid ==
  /\ At("condition", "heater")
  /\ IF temp = InvalidValue THEN Act("heater", FALSE) ELSE Goto("compare", "heater") /\ UNCHANGED <<state, seen>>
  /\ UNCHANGED <<force, cooling, low, high, start, end, now, temp, pulls, http>>

IsDay == start = end \/ Between(now)
TargetLow == low - (IF IsDay THEN 0 ELSE Delta)
TargetHigh == high - (IF IsDay THEN 0 ELSE Delta)

\* Cooling goes on above the lower limit, and begins at the upper one.
StillCooling == IF cooling THEN temp > TargetLow ELSE temp >= TargetHigh

\* ... and reads the value again.
CheckValues ==
  /\ At("compare", "heater")
  /\ cooling' = StillCooling
  /\ Act("heater", ~cooling')
  /\ UNCHANGED <<force, low, high, start, end, now, temp, pulls, http>>

-----------------------------------------------------------------------------
(* The http server *)

SetForseFlag(s, f) ==
  /\ http = "idle"
  /\ force' = [force EXCEPT ![s] = f] /\ http' = "force" /\ Changed({s})
  /\ UNCHANGED <<state, cooling, low, high, start, end, now, temp, pulls, task>>

\* Mutant: the http server does not put a pull, the timer does sometime.
ForcePullActionNever ==
  /\ http = "force" /\ http' = "idle"
  /\ UNCHANGED <<state, force, cooling, low, high, start, end, now, temp, pulls, task, seen>>

ForcePullAction ==
  /\ http = "force" /\ pulls < MaxPulls
  /\ pulls' = pulls + 1 /\ http' = "idle"
  /\ UNCHANGED <<state, force, cooling, low, high, start, end, now, temp, task, seen>>

SetLowValue ==
  /\ http = "idle" /\ low' \in Lows /\ low' # low /\ Changed({"heater"})
  /\ UNCHANGED <<state, force, cooling, high, start, end, now, temp, pulls, task, http>>

SetHighValue ==
  /\ http = "idle" /\ high' \in Highs /\ high' # high /\ Changed({"heater"})
  /\ UNCHANGED <<state, force, cooling, low, start, end, now, temp, pulls, task, http>>

\* The setters of the light's times.
SetTimes ==
  /\ http = "idle" /\ start' \in Hours /\ end' \in Hours /\ (start' = start) # (end' = end)
  /\ Changed(Names)
  /\ UNCHANGED <<state, force, cooling, low, high, now, temp, pulls, task, http>>

-----------------------------------------------------------------------------
(* The rest of the world *)

\* ServiceIface::_timer()
TimerPulls ==
  /\ pulls < MaxPulls /\ pulls' = pulls + 1
  /\ UNCHANGED <<state, force, cooling, low, high, start, end, now, temp, task, http, seen>>

\* A lost sensor keeps the value it measured last.
Measure ==
  /\ temp' \in Temps /\ temp' # temp /\ Changed({"heater"})
  /\ UNCHANGED <<state, force, cooling, low, high, start, end, now, pulls, task, http>>

HourPasses ==
  /\ now' = (now + 1) % DayLength /\ Changed(Names)
  /\ UNCHANGED <<state, force, cooling, low, high, start, end, temp, pulls, task, http>>

Check ==
  \/ BeginPull
  \/ \E s \in Names : CheckOn(s) \/ CheckOff(s)
  \/ CheckLight \/ CheckValid \/ CheckValues

Next ==
  \/ Check
  \/ \E s \in Names, f \in ForceStates : SetForseFlag(s, f)
  \/ ForcePullAction \/ SetLowValue \/ SetHighValue \/ SetTimes
  \/ TimerPulls \/ Measure \/ HourPasses

Spec == Init /\ [][Next]_vars

-----------------------------------------------------------------------------
(* Properties *)

\* A forced switch does not wait for the timer: whatever check was going on when
\* the flag was set, when the service has nothing left to do it obeys the flag.
ForceIsObeyed ==
  task = Wait /\ pulls = 0 /\ http = "idle" =>
    \A s \in Names : (force[s] = "ON" => state[s]) /\ (force[s] = "OFF" => ~state[s])

\* The hours from the first to the one before the last, around midnight.
HoursFrom(first, last) ==
  {h \in Hours : (h - first) % DayLength < (last - first) % DayLength}

Day == IF start = end THEN Hours ELSE HoursFrom(start, end)
Night == IF now \in Day THEN 0 ELSE Delta

\* A switch that was checked since the last change of anything it depends on is as
\* the user wants it: the light in its hours, the heater by its limits if the lower one is the
\* lower one, a forced one as forced.
SettledIsRight ==
  /\ \A s \in Names : seen[s] = "settled" =>
       (force[s] = "ON" => state[s]) /\ (force[s] = "OFF" => ~state[s])
  /\ seen["light"] = "settled" /\ force["light"] = "NONE" =>
       (state["light"] <=> now \in HoursFrom(start, end))
  /\ seen["heater"] = "settled" /\ force["heater"] = "NONE" =>
       /\ temp = InvalidValue => ~state["heater"]
       /\ temp # InvalidValue /\ low < high =>
            /\ temp >= high - Night => ~state["heater"]
            /\ temp <= low - Night => state["heater"]
=============================================================================
