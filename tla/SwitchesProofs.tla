--------------------------- MODULE SwitchesProofs ----------------------------
(***************************************************************************)
(* The switches of the green house, for any limits, times and temperatures *)
(* and any length of the service's queue: a forced switch obeys, a checked *)
(* switch is as the user wants it, and the fan does what the humidity and  *)
(* the temperatures call for. Then the services that perform the checks,   *)
(* and who waits for them.                                                 *)
(***************************************************************************)
EXTENDS MCSwitches, TLAPS

-----------------------------------------------------------------------------
(* A forced switch obeys when the service is done, however the flag changes  *)
(* between the two tests of a check. Whoever sets the flag puts a pull       *)
(* afterwards; so as long as neither is pending the check under way has seen *)
(* the flag as it is, and ForceInv says for each of its steps what that      *)
(* means: what it has ruled out, or that the switch obeys.                   *)

Steps == {"on", "off", "condition", "compare"}

TypesAgree ==
  /\ state \in [Names -> BOOLEAN]
  /\ force \in [Names -> ForceStates]
  /\ pulls \in Nat
  /\ task = Wait \/ task \in [pc : Steps, switch : Names]

\* A pull is in the queue, or about to be.
Pending == pulls > 0 \/ http = "force"

Obeys(s) == (force[s] = "ON" => state[s]) /\ (force[s] = "OFF" => ~state[s])

\* What the check has found out about the flag of s.
InOrder(s) ==
  IF task = Wait THEN Obeys(s)
  ELSE IF task.switch # s THEN task.switch = "heater" => Obeys(s)
  ELSE /\ task.pc = "off" => force[s] # "ON"
       /\ task.pc \in {"condition", "compare"} => force[s] = "NONE"

ForceInv ==
       /\ TypesAgree
       /\ Pending \/ \A s \in Names : InOrder(s)

\* A step of the check that is done with s, which obeys from then on.
LEMMA DoneWithSwitch ==
    ASSUME ForceInv, NEW s \in Names, task # Wait, task.switch = s, NextSwitch(s),
           NEW on \in BOOLEAN, state' = [state EXCEPT ![s] = on],
           UNCHANGED <<force, pulls, http>>,
           Pending \/ ((force[s] = "ON" => on) /\ (force[s] = "OFF" => ~on))
    PROVE  ForceInv'
<1>1. task' = Wait \/ task' \in [pc : Steps, switch : Names]
  BY DEF NextSwitch, Names, Steps
<1>2. TypesAgree'
  BY <1>1 DEF ForceInv, TypesAgree
<1>3. Pending => Pending'
  BY DEF Pending
<1>4. ASSUME ~Pending, NEW r \in Names PROVE InOrder(r)'
  <2>1. s = "light" \/ s = "heater"
    BY DEF Names
  <2>2. Obeys(s)'
    <3>1. state'[s] = on
      BY DEF ForceInv, TypesAgree
    <3> QED
      BY <1>4, <3>1 DEF Obeys
  <2>3. CASE r = s
    BY <2>1, <2>2, <2>3 DEF InOrder, NextSwitch, Wait
  <2>4. CASE r # s
    <3>1. state'[r] = state[r] /\ force'[r] = force[r]
      BY <2>4 DEF ForceInv, TypesAgree
    <3>2. CASE s = "light"
      BY <2>4, <3>2 DEF InOrder, NextSwitch, Wait, Names
    <3>3. CASE s = "heater"
      <4>1. InOrder(r) /\ r = "light" /\ task.switch = "heater"
        BY <1>4, <2>4, <3>3 DEF ForceInv, Names
      <4>2. Obeys(r)
        BY <3>3, <4>1 DEF InOrder
      <4>3. Obeys(r)'
        BY <3>1, <4>2 DEF Obeys
      <4>4. task' = Wait
        BY <3>3 DEF NextSwitch
      <4> QED
        BY <4>3, <4>4 DEF InOrder
    <3> QED
      BY <2>1, <3>2, <3>3
  <2> QED
    BY <2>3, <2>4
<1> QED
  BY <1>2, <1>3, <1>4 DEF ForceInv

\* A step of the check that goes on with the same switch.
LEMMA GoesOnWithSwitch ==
    ASSUME ForceInv, NEW s \in Names, NEW pc \in Steps, task # Wait, task.switch = s,
           Goto(pc, s), UNCHANGED <<state, force, pulls, http>>,
           Pending \/ /\ pc = "off" => force[s] # "ON"
                      /\ pc \in {"condition", "compare"} => force[s] = "NONE"
    PROVE  ForceInv'
<1>1. task' = [pc |-> pc, switch |-> s] /\ task' # Wait
  BY DEF Goto, Wait, Steps
<1>2. TypesAgree'
  BY <1>1 DEF ForceInv, TypesAgree
<1>3. ASSUME ~Pending, NEW r \in Names PROVE InOrder(r)'
  <2>1. InOrder(r)
    BY <1>3 DEF ForceInv
  <2>2. Obeys(r)' <=> Obeys(r)
    BY DEF Obeys
  <2> QED
    BY <1>1, <1>3, <2>1, <2>2 DEF InOrder
<1>4. Pending => Pending'
  BY DEF Pending
<1> QED
  BY <1>2, <1>3, <1>4 DEF ForceInv

\* Steps that change neither flag nor switch, nor take a pull away.
LEMMA OthersKeep ==
    ASSUME ForceInv, UNCHANGED <<state, force, task>>,
           \/ UNCHANGED <<pulls, http>>
           \/ pulls' = pulls + 1
    PROVE  ForceInv'
<1>1. TypesAgree'
  BY DEF ForceInv, TypesAgree
<1>2. Pending => Pending'
  BY DEF Pending, ForceInv, TypesAgree
<1>3. ASSUME NEW r \in Names, InOrder(r) PROVE InOrder(r)'
  BY <1>3 DEF InOrder, Obeys
<1> QED
  BY <1>1, <1>2, <1>3 DEF ForceInv

LEMMA ForceInvIsInductive == ForceInv /\ [Next]_vars => ForceInv'
<1> SUFFICES ASSUME ForceInv, [Next]_vars PROVE ForceInv'
  OBVIOUS
<1>1. CASE BeginPull
  <2>1. /\ task' = [pc |-> "on", switch |-> "light"] /\ task' # Wait
        /\ pulls' = pulls - 1 /\ pulls > 0
        /\ UNCHANGED <<state, force, http>>
    BY <1>1 DEF BeginPull, Goto, Wait
  <2>2. TypesAgree'
    BY <2>1 DEF ForceInv, TypesAgree, Steps, Names
  <2>3. ASSUME NEW r \in Names PROVE InOrder(r)'
    BY <2>1 DEF InOrder
  <2> QED
    BY <2>2, <2>3 DEF ForceInv
<1>2. ASSUME NEW s \in Names, CheckOn(s) PROVE ForceInv'
  <2>1. task # Wait /\ task.switch = s /\ UNCHANGED <<force, pulls, http>>
    BY <1>2 DEF CheckOn, At, Wait
  <2>2. CASE force[s] = "ON"
    BY <1>2, <2>1, <2>2, DoneWithSwitch DEF CheckOn
  <2>3. CASE force[s] # "ON"
    <3>1. Goto("off", s) /\ state' = state
      BY <1>2, <2>3 DEF CheckOn
    <3> QED
      BY <2>1, <2>3, <3>1, GoesOnWithSwitch DEF Steps
  <2> QED
    BY <2>2, <2>3
<1>3. ASSUME NEW s \in Names, CheckOff(s) PROVE ForceInv'
  <2>1. /\ task # Wait /\ task.switch = s /\ task.pc = "off"
        /\ UNCHANGED <<force, pulls, http>>
    BY <1>3 DEF CheckOff, At, Wait
  <2>2. CASE force[s] = "OFF"
    BY <1>3, <2>1, <2>2, DoneWithSwitch DEF CheckOff, Act
  <2>3. CASE force[s] # "OFF"
    <3>1. Goto("condition", s) /\ state' = state
      BY <1>3, <2>3 DEF CheckOff
    <3>2. Pending \/ force[s] = "NONE"
      BY <2>1, <2>3 DEF ForceInv, InOrder, TypesAgree, ForceStates
    <3> QED
      BY <2>1, <3>1, <3>2, GoesOnWithSwitch DEF Steps
  <2> QED
    BY <2>2, <2>3
<1>4. CASE CheckLight \/ CheckValid \/ CheckValues
  <2>1. PICK s \in Names : /\ task # Wait /\ task.switch = s
                          /\ task.pc \in {"condition", "compare"}
    <3>1. CASE CheckLight
      <4>1. /\ task # Wait /\ task.switch = "light"
            /\ task.pc \in {"condition", "compare"}
        BY <3>1 DEF CheckLight, At, Wait
      <4> QED
        BY <4>1 DEF Names
    <3>2. CASE CheckValid
      <4>1. task = [pc |-> "condition", switch |-> "heater"]
        BY <3>2 DEF CheckValid, At
      <4> QED
        BY <4>1 DEF Names, Wait
    <3>3. CASE CheckValues
      <4>1. task = [pc |-> "compare", switch |-> "heater"]
        BY <3>3 DEF CheckValues, At
      <4> QED
        BY <4>1 DEF Names, Wait
    <3> QED
      BY <1>4, <3>1, <3>2, <3>3
  <2>2. Pending \/ force[s] = "NONE"
    BY <2>1 DEF ForceInv, InOrder
  <2>3. UNCHANGED <<force, pulls, http>>
    BY <1>4 DEF CheckLight, CheckValid, CheckValues
  <2>4. CASE Goto("compare", "heater") /\ state' = state /\ s = "heater"
    BY <2>1, <2>2, <2>3, <2>4, GoesOnWithSwitch DEF Steps
  <2>5. ASSUME NEW on \in BOOLEAN, Act(s, on) PROVE ForceInv'
    BY <2>1, <2>2, <2>3, <2>5, DoneWithSwitch DEF Act
  <2>6. CASE CheckLight
    <3>1. Act(s, start # end /\ Between(now))
      BY <2>1, <2>6 DEF CheckLight, At
    <3> QED
      BY <2>5, <3>1
  <2>7. CASE CheckValid
    BY <2>1, <2>4, <2>5, <2>7 DEF CheckValid, At
  <2>8. CASE CheckValues
    <3>1. Act(s, ~cooling')
      BY <2>1, <2>8 DEF CheckValues, At
    <3> QED
      BY <2>5, <3>1
  <2> QED
    BY <1>4, <2>6, <2>7, <2>8
<1>5. ASSUME NEW s \in Names, NEW f \in ForceStates, SetForseFlag(s, f) PROVE ForceInv'
  <2>1. TypesAgree'
    BY <1>5 DEF SetForseFlag, ForceInv, TypesAgree
  <2>2. Pending'
    BY <1>5 DEF SetForseFlag, Pending
  <2> QED
    BY <2>1, <2>2 DEF ForceInv
<1>6. CASE ForcePullAction \/ TimerPulls
  BY <1>6, OthersKeep DEF ForcePullAction, TimerPulls
<1>7. CASE SetLowValue \/ SetHighValue \/ SetTimes
  BY <1>7, OthersKeep DEF SetLowValue, SetHighValue, SetTimes
<1>8. CASE Measure \/ HourPasses \/ UNCHANGED vars
  BY <1>8, OthersKeep DEF Measure, HourPasses, vars
<1> QED
  BY <1>1, <1>2, <1>3, <1>4, <1>5, <1>6, <1>7, <1>8 DEF Next, Check

LEMMA ForceInvHolds == Init => ForceInv
<1> SUFFICES ASSUME Init PROVE ForceInv
  OBVIOUS
<1>1. TypesAgree
  BY DEF Init, TypesAgree, ForceStates
<1>2. Pending
  BY DEF Init, Pending
<1> QED
  BY <1>1, <1>2 DEF ForceInv

\* With nothing left to do for the service, a forced switch is as it is forced
\* (SwitchIface::setForseFlag and check).
THEOREM ForcedSwitchObeys == Spec => []ForceIsObeyed
<1>1. ForceInv => ForceIsObeyed
  BY DEF ForceInv, TypesAgree, Pending, InOrder, Obeys, ForceIsObeyed
<1> QED
  BY <1>1, ForceInvHolds, ForceInvIsInductive, PTL DEF Spec

-----------------------------------------------------------------------------
(* A switch is right when it was checked since the last change. A check      *)
(* reads flag, hours, limits and temperature one after the other; SettledInv *)
(* says what the ones it has read so far rule out, unless something changed  *)
(* meanwhile, and then nothing is said until the next check. That a later    *)
(* check of a switch nothing changed for sets it to the same again is what   *)
(* makes it inductive.                                                       *)

\* What the user wants of a switch, as things are now: may it be so?
RightAs(s, on) ==
  /\ force[s] = "ON" => on
  /\ force[s] = "OFF" => ~on
  /\ s = "light" /\ force[s] = "NONE" => (on <=> now \in HoursFrom(start, end))
  /\ s = "heater" /\ force[s] = "NONE" =>
       /\ temp = InvalidValue => ~on
       /\ temp # InvalidValue /\ low < high =>
            /\ temp >= high - Night => ~on
            /\ temp <= low - Night => on

Right(s) == RightAs(s, state[s])

\* What the check has ruled out when it has come as far as this.
Found(s) ==
  task # Wait /\ task.switch = s =>
    /\ task.pc = "off" => force[s] # "ON"
    /\ task.pc \in {"condition", "compare"} => force[s] = "NONE"
    /\ task.pc = "compare" => temp # InvalidValue

ValuesAgree ==
  /\ now \in Hours /\ start \in Hours /\ end \in Hours
  /\ temp \in Temps \cup {InvalidValue} /\ low \in Lows /\ high \in Highs
  /\ seen \in [Names -> {"changed", "checking", "settled"}]

\* Both hold of a switch nothing has changed for since.
Steady(s) == /\ seen[s] # "changed" => Found(s)
             /\ seen[s] = "settled" => Right(s)

SettledInv == TypesAgree /\ ValuesAgree /\ \A s \in Names : Steady(s)

LEMMA ModNegative ==
    ASSUME NEW d \in Nat, NEW n \in Int, n < 0, 0 <= n + d
    PROVE  n % d = n + d
  BY SMT

LEMMA ModSmall ==
    ASSUME NEW d \in Nat, NEW n \in Nat, n < d
    PROVE  n % d = n
  BY SMT

\* The two ways to say that an hour lies between two others: by comparison, and
\* by the time that has passed since the first.
LEMMA BetweenIsHoursFrom ==
    ASSUME ValuesAgree
    PROVE  now \in HoursFrom(start, end) <=> start # end /\ Between(now)
<1>1. DayLength \in Nat /\ DayLength > 0 /\ {now, start, end} \subseteq 0 .. DayLength - 1
  BY SwitchesAssumption DEF ValuesAgree, Hours
<1>2. now \in HoursFrom(start, end) <=> (now - start) % DayLength < (end - start) % DayLength
  BY DEF HoursFrom, ValuesAgree
<1>3. ASSUME NEW h \in 0 .. DayLength - 1
      PROVE  (h - start) % DayLength = IF h >= start THEN h - start ELSE h - start + DayLength
  <2>1. CASE h >= start
    BY <1>1, <2>1, ModSmall
  <2>2. CASE ~(h >= start)
    BY <1>1, <2>2, ModNegative
  <2> QED
    BY <2>1, <2>2
<1>4. /\ (now - start) % DayLength = IF now >= start THEN now - start ELSE now - start + DayLength
      /\ (end - start) % DayLength = IF end >= start THEN end - start ELSE end - start + DayLength
  BY <1>1, <1>3
<1> QED
  BY <1>1, <1>2, <1>4 DEF Between

LEMMA DayIsDay ==
    ASSUME ValuesAgree
    PROVE  Night = IF IsDay THEN 0 ELSE Delta
  BY BetweenIsHoursFrom DEF ValuesAgree, Night, Day, IsDay

\* A switch that nothing changed for keeps what holds of it.
LEMMA ChangeKeeps ==
    ASSUME SettledInv, TypesAgree', ValuesAgree', NEW S \in SUBSET Names, Changed(S),
           \A s \in Names \ S : (Found(s) => Found(s)') /\ (Right(s) => Right(s)')
    PROVE  SettledInv'
<1>1. ASSUME NEW s \in Names PROVE Steady(s)'
  <2>1. CASE s \in S
    BY <2>1 DEF Changed, Steady
  <2>2. CASE s \notin S
    <3>1. seen'[s] = seen[s]
      BY <2>2 DEF Changed
    <3> QED
      BY <2>2, <3>1 DEF SettledInv, Steady
  <2> QED
    BY <2>1, <2>2
<1> QED
  BY <1>1 DEF SettledInv

World == <<force, low, high, start, end, now, temp>>

\* What is right depends on hour, limits and temperature only.
LEMMA SameWorldSameRight ==
    ASSUME UNCHANGED World, NEW s \in Names, NEW on
    PROVE  RightAs(s, on)' <=> RightAs(s, on)
  BY DEF World, RightAs, HoursFrom, Night, Day

\* A step of the check that is done with s.
LEMMA DoneSettles ==
    ASSUME SettledInv, TypesAgree', ValuesAgree', UNCHANGED World,
           NEW s \in Names, task # Wait, task.switch = s, NextSwitch(s),
           NEW on \in BOOLEAN, state' = [state EXCEPT ![s] = on],
           NEW v \in {"changed", "settled"}, seen' = [seen EXCEPT ![s] = v],
           v = "settled" => RightAs(s, on)
    PROVE  SettledInv'
<1>1. task' = Wait \/ task'.pc = "on"
  BY DEF NextSwitch
<1>2. ASSUME NEW r \in Names PROVE Found(r)'
  BY <1>1 DEF Found
<1>3. ASSUME NEW r \in Names, seen'[r] = "settled" PROVE Right(r)'
  <2>1. CASE r = s
    <3>1. state'[r] = on /\ v = "settled"
      BY <1>3, <2>1 DEF SettledInv, TypesAgree, ValuesAgree
    <3>2. RightAs(r, on)'
      BY <2>1, <3>1, SameWorldSameRight
    <3>3. RightAs(r, state[r])' <=> RightAs(r, on)'
      BY <3>1 DEF RightAs
    <3> QED
      BY <3>2, <3>3 DEF Right
  <2>2. CASE r # s
    <3>1. state'[r] = state[r] /\ seen[r] = "settled"
      BY <1>3, <2>2 DEF SettledInv, TypesAgree, ValuesAgree
    <3>2. RightAs(r, state[r])
      BY <3>1 DEF SettledInv, Steady, Right
    <3> QED
      BY <3>1, <3>2 DEF Right, RightAs, World, HoursFrom, Night, Day
  <2> QED
    BY <2>1, <2>2
<1> QED
  BY <1>2, <1>3 DEF SettledInv, Steady

\* A step of the check that goes on with s.
LEMMA GoesOnSteady ==
    ASSUME SettledInv, TypesAgree', ValuesAgree', UNCHANGED World, UNCHANGED state,
           NEW s \in Names, NEW pc \in Steps, task # Wait, task.switch = s, Goto(pc, s),
           NEW v \in {"changed", "checking", "settled"}, seen' = [seen EXCEPT ![s] = v],
           v = "settled" => seen[s] = "settled",
           v # "changed" => /\ pc = "off" => force[s] # "ON"
                            /\ pc \in {"condition", "compare"} => force[s] = "NONE"
                            /\ pc = "compare" => temp # InvalidValue
    PROVE  SettledInv'
<1>1. task' = [pc |-> pc, switch |-> s]
  BY DEF Goto
<1>2. ASSUME NEW r \in Names, seen'[r] # "changed" PROVE Found(r)'
  <2>1. CASE r = s
    BY <1>1, <1>2, <2>1 DEF Found, World, SettledInv, ValuesAgree
  <2>2. CASE r # s
    BY <1>1, <2>2 DEF Found
  <2> QED
    BY <2>1, <2>2
<1>3. ASSUME NEW r \in Names, seen'[r] = "settled" PROVE Right(r)'
  <2>1. seen[r] = "settled"
    BY <1>3 DEF SettledInv, ValuesAgree
  <2>2. RightAs(r, state[r])
    BY <2>1 DEF SettledInv, Steady, Right
  <2> QED
    BY <2>2 DEF Right, RightAs, World, HoursFrom, Night, Day
<1> QED
  BY <1>2, <1>3 DEF SettledInv, Steady

LEMMA ValuesStay ==
    ASSUME ValuesAgree, [Next]_vars
    PROVE  ValuesAgree'
<1>1. CASE BeginPull \/ ForcePullAction \/ TimerPulls \/ UNCHANGED vars
  BY <1>1 DEF BeginPull, ForcePullAction, TimerPulls, vars, ValuesAgree
<1>2. ASSUME NEW s \in Names, CheckOn(s) \/ CheckOff(s) PROVE ValuesAgree'
  BY <1>2 DEF CheckOn, CheckOff, Act, ValuesAgree
<1>3. CASE CheckLight \/ CheckValid \/ CheckValues
  BY <1>3 DEF CheckLight, CheckValid, CheckValues, Act, ValuesAgree, Names
<1>4. ASSUME NEW s \in Names, NEW f \in ForceStates, SetForseFlag(s, f) PROVE ValuesAgree'
  BY <1>4 DEF SetForseFlag, Changed, ValuesAgree
<1>5. CASE SetLowValue \/ SetHighValue \/ SetTimes
  BY <1>5 DEF SetLowValue, SetHighValue, SetTimes, Changed, ValuesAgree
<1>6. CASE Measure
  BY <1>6 DEF Measure, Changed, ValuesAgree
<1>7. CASE HourPasses
  <2>1. (now + 1) % DayLength \in Hours
    BY SwitchesAssumption DEF ValuesAgree, Hours
  <2> QED
    BY <1>7, <2>1 DEF HourPasses, Changed, ValuesAgree
<1> QED
  BY <1>1, <1>2, <1>3, <1>4, <1>5, <1>6, <1>7 DEF Next, Check

\* The comparison does what the limits say, whatever the hysteresis remembers.
LEMMA ComparisonIsRight ==
    ASSUME ValuesAgree, temp # InvalidValue, low < high
    PROVE  /\ temp >= high - Night => StillCooling
           /\ temp <= low - Night => ~StillCooling
<1>1. temp \in Int /\ low \in Int /\ high \in Int /\ Delta \in Int
  BY SwitchesAssumption DEF ValuesAgree
<1>2. TargetLow = low - Night /\ TargetHigh = high - Night /\ Night \in Int
  BY <1>1, DayIsDay DEF TargetLow, TargetHigh
<1> QED
  BY <1>1, <1>2 DEF StillCooling

LEMMA SettledInvIsInductive ==
    ASSUME SettledInv, TypesAgree', [Next]_vars
    PROVE  SettledInv'
<1>0. ValuesAgree' /\ SettledInv /\ ValuesAgree /\ TypesAgree
  BY ValuesStay DEF SettledInv
<1>1. CASE BeginPull
  <2>1. task' = [pc |-> "on", switch |-> "light"] /\ UNCHANGED <<World, state, seen>>
    BY <1>1 DEF BeginPull, Goto, World
  <2>2. ASSUME NEW s \in Names PROVE Steady(s)'
    <3>1. Found(s)'
      BY <2>1 DEF Found
    <3>2. Right(s)' <=> Right(s)
      BY <2>1 DEF Right, RightAs, World, HoursFrom, Night, Day
    <3> QED
      BY <2>1, <3>1, <3>2 DEF SettledInv, Steady
  <2> QED
    BY <1>0, <2>2 DEF SettledInv
<1>2. ASSUME NEW s \in Names, CheckOn(s) PROVE SettledInv'
  <2>1. task = [pc |-> "on", switch |-> s] /\ task # Wait /\ UNCHANGED World
    BY <1>2 DEF CheckOn, At, Wait, World
  <2>2. CASE force[s] = "ON"
    <3>1. RightAs(s, TRUE)
      BY <2>2 DEF RightAs
    <3> QED
      BY <1>0, <1>2, <2>1, <2>2, <3>1, DoneSettles DEF CheckOn
  <2>3. CASE force[s] # "ON"
    <3> DEFINE v == IF seen[s] = "changed" THEN "checking" ELSE seen[s]
    <3>1. /\ Goto("off", s) /\ UNCHANGED state
          /\ seen' = [seen EXCEPT ![s] = v]
      BY <1>2, <2>3 DEF CheckOn
    <3>2. v \in {"changed", "checking", "settled"} /\ (v = "settled" => seen[s] = "settled")
      BY <1>0 DEF ValuesAgree
    <3> HIDE DEF v
    <3> QED
      BY <1>0, <2>1, <2>3, <3>1, <3>2, GoesOnSteady DEF Steps
  <2> QED
    BY <2>2, <2>3
<1>3. ASSUME NEW s \in Names, NEW on \in BOOLEAN, task # Wait, task.switch = s,
             UNCHANGED World, Act(s, on), seen[s] # "changed" => RightAs(s, on)
      PROVE  SettledInv'
  <2> DEFINE v == IF seen[s] = "changed" THEN "changed" ELSE "settled"
  <2>1. seen' = [seen EXCEPT ![s] = v]
    BY <1>3 DEF Act
  <2>2. v \in {"changed", "settled"} /\ (v = "settled" => seen[s] # "changed")
    OBVIOUS
  <2> HIDE DEF v
  <2> QED
    BY <1>0, <1>3, <2>1, <2>2, DoneSettles DEF Act
<1>4. ASSUME NEW s \in Names, NEW pc \in Steps, task # Wait, task.switch = s,
             UNCHANGED World, UNCHANGED <<state, seen>>, Goto(pc, s),
             seen[s] # "changed" => /\ pc = "off" => force[s] # "ON"
                                    /\ pc \in {"condition", "compare"} => force[s] = "NONE"
                                    /\ pc = "compare" => temp # InvalidValue
      PROVE  SettledInv'
  <2>1. seen' = [seen EXCEPT ![s] = seen[s]] /\ seen[s] \in {"changed", "checking", "settled"}
    BY <1>0, <1>4 DEF ValuesAgree
  <2> QED
    BY <1>0, <1>4, <2>1, GoesOnSteady
<1>5. ASSUME NEW s \in Names, CheckOff(s) PROVE SettledInv'
  <2>1. /\ task = [pc |-> "off", switch |-> s] /\ task # Wait /\ UNCHANGED World
        /\ force[s] \in ForceStates /\ Steady(s)
    BY <1>0, <1>5 DEF CheckOff, At, Wait, World, TypesAgree, SettledInv
  <2>2. CASE force[s] = "OFF"
    <3>1. RightAs(s, FALSE)
      BY <2>2 DEF RightAs
    <3> QED
      BY <1>3, <1>5, <2>1, <2>2, <3>1 DEF CheckOff
  <2>3. CASE force[s] # "OFF"
    <3>1. Goto("condition", s) /\ UNCHANGED <<state, seen>>
      BY <1>5, <2>3 DEF CheckOff
    <3>2. seen[s] # "changed" => force[s] = "NONE"
      BY <2>1, <2>3 DEF Steady, Found, ForceStates
    <3> QED
      BY <1>4, <2>1, <3>1, <3>2 DEF Steps
  <2> QED
    BY <2>2, <2>3
<1>6. CASE CheckLight
  <2>1. /\ task = [pc |-> "condition", switch |-> "light"] /\ task # Wait /\ UNCHANGED World
        /\ Act("light", start # end /\ Between(now)) /\ "light" \in Names
    BY <1>6 DEF CheckLight, At, Wait, World, Names
  <2>2. seen["light"] # "changed" => force["light"] = "NONE"
    BY <2>1 DEF SettledInv, Steady, Found
  <2>3. seen["light"] # "changed" => RightAs("light", start # end /\ Between(now))
    BY <1>0, <2>2, BetweenIsHoursFrom DEF RightAs
  <2> QED
    BY <1>3, <2>1, <2>3
<1>7. CASE CheckValid
  <2>1. /\ task = [pc |-> "condition", switch |-> "heater"] /\ task # Wait /\ UNCHANGED World
        /\ "heater" \in Names
    BY <1>7 DEF CheckValid, At, Wait, World, Names
  <2>2. seen["heater"] # "changed" => force["heater"] = "NONE"
    BY <2>1 DEF SettledInv, Steady, Found
  <2>3. CASE temp = InvalidValue
    <3>1. seen["heater"] # "changed" => RightAs("heater", FALSE)
      BY <2>2, <2>3 DEF RightAs
    <3> QED
      BY <1>3, <1>7, <2>1, <2>3, <3>1 DEF CheckValid
  <2>4. CASE temp # InvalidValue
    BY <1>4, <1>7, <2>1, <2>2, <2>4 DEF CheckValid, Steps
  <2> QED
    BY <2>3, <2>4
<1>8. CASE CheckValues
  <2>1. /\ task = [pc |-> "compare", switch |-> "heater"] /\ task # Wait /\ UNCHANGED World
        /\ Act("heater", ~cooling') /\ cooling' = StillCooling /\ "heater" \in Names
    BY <1>8 DEF CheckValues, At, Wait, World, Names
  <2>2. seen["heater"] # "changed" => force["heater"] = "NONE" /\ temp # InvalidValue
    BY <2>1 DEF SettledInv, Steady, Found
  <2>3. seen["heater"] # "changed" => RightAs("heater", ~StillCooling)
    BY <1>0, <2>2, ComparisonIsRight DEF RightAs
  <2> QED
    BY <1>3, <2>1, <2>3
<1>9. ASSUME NEW s \in Names, NEW f \in ForceStates, SetForseFlag(s, f) PROVE SettledInv'
  <2>1. ASSUME NEW r \in Names \ {s}
        PROVE  (Found(r) => Found(r)') /\ (Right(r) => Right(r)')
    <3>1. force'[r] = force[r] /\ UNCHANGED <<state, low, high, start, end, now, temp, task>>
      BY <1>0, <1>9, <2>1 DEF SetForseFlag, TypesAgree
    <3> QED
      BY <3>1 DEF Found, Right, RightAs, HoursFrom, Night, Day
  <2>2. Changed({s}) /\ {s} \in SUBSET Names
    BY <1>9 DEF SetForseFlag
  <2> QED
    BY <1>0, <2>1, <2>2, ChangeKeeps
<1>10. CASE SetLowValue \/ SetHighValue \/ Measure
  <2>1. /\ Changed({"heater"}) /\ {"heater"} \in SUBSET Names
        /\ UNCHANGED <<state, force, start, end, now, task>>
    BY <1>10 DEF SetLowValue, SetHighValue, Measure, Names
  <2>2. ASSUME NEW r \in Names \ {"heater"}
        PROVE  (Found(r) => Found(r)') /\ (Right(r) => Right(r)')
    <3>1. r = "light"
      BY DEF Names
    <3>2. Right(r) => Right(r)'
      BY <2>1, <3>1 DEF Right, RightAs, HoursFrom
    <3>3. temp' # InvalidValue \/ temp' = temp
      BY <1>10, SwitchesAssumption DEF SetLowValue, SetHighValue, Measure
    <3> QED
      BY <2>1, <3>2, <3>3 DEF Found
  <2> QED
    BY <1>0, <2>1, <2>2, ChangeKeeps
<1>11. CASE SetTimes \/ HourPasses
  <2>1. Changed(Names)
    BY <1>11 DEF SetTimes, HourPasses
  <2> QED
    BY <1>0, <2>1, ChangeKeeps
<1>12. CASE ForcePullAction \/ TimerPulls \/ UNCHANGED vars
  <2>1. UNCHANGED <<state, force, low, high, start, end, now, temp, task, seen>>
    BY <1>12 DEF ForcePullAction, TimerPulls, vars
  <2>2. ASSUME NEW s \in Names PROVE Steady(s)'
    BY <2>1 DEF SettledInv, Steady, Found, Right, RightAs, HoursFrom, Night, Day
  <2> QED
    BY <1>0, <2>2 DEF SettledInv
<1> QED
  BY <1>1, <1>2, <1>5, <1>6, <1>7, <1>8, <1>9, <1>10, <1>11, <1>12 DEF Next, Check

\* A switch that was checked since the last change of anything it depends on is
\* as the user wants it, for any limits, hours and temperatures (the conditions
\* of TimeSwitch and RangeSwitch, and SwitchIface::check).
THEOREM CheckedSwitchIsRight == Spec => []SettledIsRight
<1>1. Init => ForceInv /\ SettledInv
  <2> SUFFICES ASSUME Init PROVE SettledInv
    BY ForceInvHolds
  <2>1. TypesAgree
    BY ForceInvHolds DEF ForceInv
  <2>2. ValuesAgree
    BY DEF Init, ValuesAgree
  <2>3. \A s \in Names : Steady(s)
    BY DEF Init, Steady, Found
  <2> QED
    BY <2>1, <2>2, <2>3 DEF SettledInv
<1>2. ForceInv /\ SettledInv /\ [Next]_vars => ForceInv' /\ SettledInv'
  BY ForceInvIsInductive, SettledInvIsInductive DEF ForceInv
<1>3. SettledInv => SettledIsRight
  BY DEF SettledInv, Steady, Right, RightAs, SettledIsRight, Names
<1> QED
  BY <1>1, <1>2, <1>3, PTL DEF Spec

-----------------------------------------------------------------------------
(* The fan. What the humidity and the temperatures call for without any      *)
(* doubt is what it does, for any measurements and any limits the lower of   *)
(* which is below the upper, whatever the two hystereses remember and        *)
(* however the sudden drops of humidity end the drying.                      *)

FanInv ==
       /\ fanTemp \in Int /\ hum \in Int /\ outer \in Int
       /\ tempLimits \in Limits /\ humLimits \in Limits
       /\ fanState \in BOOLEAN
       /\ FN!FanIsRight

\* Outside of its limits a range switch forgets what it did before.
LEMMA CoolingForgets ==
    ASSUME FN!FanAssumption, NEW c, NEW v \in Int, v # FN!Invalid, NEW l \in Limits
    PROVE  /\ v >= l[2] => FN!Cooling(c, v, l)
           /\ v <= l[1] => ~FN!Cooling(c, v, l)
<1>1. l[1] \in Int /\ l[2] \in Int /\ l[1] < l[2]
  BY DEF FN!FanAssumption
<1> QED
  BY <1>1 DEF FN!Cooling

\* A check leaves the fan as its two hystereses want it.
LEMMA CheckIsRight ==
    ASSUME FN!FanAssumption, FanInv, FN!Check
    PROVE  FN!FanIsRight'
<1>1. wanted' = FN!Wanted
  BY DEF FN!Check
<1>2. fanState' <=>
        \/ hum # FN!Invalid /\ humCooling'
        \/ fanTemp # FN!Invalid /\ tempCooling' /\ ~FN!Impossible
  BY Zenon DEF FN!Check
<1>3. tempCooling' = FN!Cooling(tempCooling, fanTemp, tempLimits)
  BY DEF FN!Check
<1>4. humCooling' = FN!Cooling(IF dropped \/ FN!TooSmall THEN FALSE ELSE humCooling, hum, humLimits)
  BY DEF FN!Check, FN!HumCooling
<1>5. CASE hum = FN!Invalid
  BY <1>1, <1>5 DEF FN!Wanted, FN!FanIsRight
<1>6. CASE hum # FN!Invalid /\ hum >= humLimits[2]
  <2>1. humCooling'
    BY <1>4, <1>6, CoolingForgets DEF FanInv
  <2>2. wanted' = "on"
    BY <1>1, <1>6 DEF FN!Wanted
  <2> QED
    BY <1>2, <1>6, <2>1, <2>2 DEF FN!FanIsRight
<1>7. CASE hum # FN!Invalid /\ ~(hum >= humLimits[2])
  <2>1. CASE hum <= humLimits[1] /\ (fanTemp <= outer \/ fanTemp <= tempLimits[1])
    <3>1. ~humCooling'
      BY <1>4, <1>7, <2>1, CoolingForgets DEF FanInv
    <3>2. fanTemp = FN!Invalid \/ FN!Impossible \/ ~tempCooling'
      BY <1>3, <2>1, CoolingForgets DEF FanInv, FN!Impossible
    <3>3. wanted' = "off"
      BY <1>1, <1>7, <2>1 DEF FN!Wanted
    <3> QED
      BY <1>2, <3>1, <3>2, <3>3 DEF FN!FanIsRight
  <2>2. CASE ~(hum <= humLimits[1] /\ (fanTemp <= outer \/ fanTemp <= tempLimits[1]))
    BY <1>1, <1>7, <2>2 DEF FN!Wanted, FN!FanIsRight
  <2> QED
    BY <2>1, <2>2
<1> QED
  BY <1>5, <1>6, <1>7

LEMMA FanInvIsInductive ==
    ASSUME FN!FanAssumption, FanInv, [FN!Next]_(FN!vars)
    PROVE  FanInv'
<1>1. CASE FN!UpdateInner
  BY <1>1 DEF FN!FanAssumption, FN!UpdateInner, FN!ranges, FN!out, FanInv, FN!FanIsRight
<1>2. CASE FN!UpdateOuter
  BY <1>2 DEF FN!FanAssumption, FN!UpdateOuter, FN!ranges, FN!out, FanInv, FN!FanIsRight
<1>3. CASE FN!Check
  <2>1. FN!FanIsRight'
    BY <1>3, CheckIsRight
  <2>2. /\ UNCHANGED <<fanTemp, hum, outer, tempLimits, humLimits>>
        /\ fanState' \in BOOLEAN
    BY <1>3 DEF FN!Check, FN!sensors
  <2> QED
    BY <2>1, <2>2 DEF FanInv
<1>4. CASE FN!Act \/ FN!TimePasses \/ UNCHANGED FN!vars
  BY <1>4 DEF FN!Act, FN!TimePasses, FN!vars, FN!sensors, FN!ranges, FN!out, FanInv, FN!FanIsRight
<1>5. CASE FN!SetTempLimits \/ FN!SetHumLimits
  BY <1>5 DEF FN!SetTempLimits, FN!SetHumLimits, FN!sensors, FN!out, FanInv, FN!FanIsRight
<1> QED
  BY <1>1, <1>2, <1>3, <1>4, <1>5 DEF FN!Next

\* The fan runs at the upper limit of humidity and rests when nothing calls for
\* it, as the last check saw both (FanSwitch::_condition).
THEOREM FanDoesAsCalledFor ==
    ASSUME FN!FanAssumption
    PROVE  FN!Spec => []FanIsRight
<1>1. FN!Init => FanInv
  <2> SUFFICES ASSUME FN!Init PROVE FanInv
    OBVIOUS
  <2>1. fanTemp \in Int /\ hum \in Int /\ outer \in Int
    BY DEF FN!Init, FN!Invalid, FN!Hot
  <2>2. tempLimits \in Limits /\ humLimits \in Limits
    BY DEF FN!Init
  <2>3. fanState \in BOOLEAN
    BY Zenon DEF FN!Init
  <2>4. FN!FanIsRight
    BY DEF FN!Init, FN!FanIsRight
  <2> QED
    BY <2>1, <2>2, <2>3, <2>4 DEF FanInv
<1>2. FanInv => FanIsRight
  BY DEF FanInv, FanIsRight
<1>3. FanInv /\ [FN!Next]_(FN!vars) => FanInv'
  BY FN!FanAssumption, FanInvIsInductive
<1> QED
  BY FN!FanAssumption, <1>1, <1>2, <1>3, PTL DEF FN!Spec

-----------------------------------------------------------------------------
(* Who waits for whom. Everyone in the ring waits for room that only the     *)
(* next one makes, so no step of theirs is possible, and no step of the      *)
(* others makes any.                                                         *)

CONSTANTS Services, Reporting, MaxReports, ActionQueueSize, EventQueueSize,
          CommandQueueSize, MaxBacklog
VARIABLES actions, running, reports, expired, daemon, commands, events, main, httpd, aborted

SV == INSTANCE Services WITH http <- httpd

\* Each service has a queue, a task and a number of reports.
ServicesInv ==
  /\ DOMAIN actions = Services /\ DOMAIN running = Services /\ DOMAIN reports = Services

LEMMA ServicesKeep == ServicesInv /\ [SV!Next]_(SV!vars) => ServicesInv'
  BY DEF ServicesInv, SV!Next, SV!vars, SV!Service, SV!Pull, SV!DropEvent, SV!FinishPull,
         SV!Expire, SV!Daemon, SV!CallBack, SV!EnqueuePull, SV!ProcessCommand, SV!Main,
         SV!DispatchEvent, SV!SendCommand, SV!SendTimesOut, SV!HttpWaits, SV!ForcePullAction,
         SV!SetTimerPeriod, SV!HttpRequest, SV!SetForce, SV!SetPeriod, SV!Stopped

\* Nobody in the ring can move, and nobody outside it makes room, but for the assert.
LEMMA RingStaysClosed ==
  ASSUME SV!ServicesAssumption, ServicesInv, SV!Next, SV!Ring
  PROVE  SV!Ring' \/ aborted'
<1>1. PICK s \in Services :
        /\ main = "scheduling" /\ commands = CommandQueueSize
        /\ daemon = s /\ actions[s] = ActionQueueSize
        /\ running[s] /\ reports[s] > 0 /\ events = EventQueueSize
  BY DEF SV!Ring
<1>2. /\ ActionQueueSize \in Nat /\ EventQueueSize \in Nat /\ CommandQueueSize \in Nat
      /\ s # "idle" /\ s # "commands"
  BY DEF SV!ServicesAssumption
<1>3. ASSUME main' = main, commands' = commands, daemon' = daemon, events' = events,
             actions'[s] = actions[s], running'[s] = running[s], reports'[s] = reports[s]
      PROVE  SV!Ring'
  BY <1>1, <1>3 DEF SV!Ring
<1>4. ASSUME NEW t \in Services, SV!Service(t) \/ SV!Expire(t)
      PROVE  SV!Ring'
  <2>1. CASE SV!Pull(t)
    BY <1>1, <1>3, <2>1 DEF SV!Pull, ServicesInv
  <2>2. CASE SV!DropEvent(t)
    BY <1>1, <1>2, <2>2 DEF SV!DropEvent
  <2>3. CASE SV!FinishPull(t)
    BY <1>1, <1>3, <2>3 DEF SV!FinishPull, ServicesInv
  <2>4. CASE SV!Expire(t)
    BY <1>3, <2>4 DEF SV!Expire
  <2> QED
    BY <1>4, <2>1, <2>2, <2>3, <2>4 DEF SV!Service
<1>5. ~SV!Daemon
  BY <1>1, <1>2 DEF SV!Daemon, SV!CallBack, SV!EnqueuePull, SV!ProcessCommand
<1>6. SV!Main => aborted'
  BY <1>1, <1>2 DEF SV!Main, SV!DispatchEvent, SV!SendCommand, SV!SendTimesOut
<1>7. ASSUME SV!HttpWaits PROVE SV!Ring'
  <2>1. ~SV!SetTimerPeriod
    BY <1>1, <1>2 DEF SV!SetTimerPeriod
  <2>2. PICK t \in Services : SV!ForcePullAction(t)
    BY <1>7, <2>1 DEF SV!HttpWaits
  <2> QED
    BY <1>1, <1>2, <1>3, <2>2 DEF SV!ForcePullAction, ServicesInv
<1>8. CASE SV!HttpRequest
  BY <1>3, <1>8 DEF SV!HttpRequest, SV!SetForce, SV!SetPeriod
<1>9. CASE SV!Stopped
  BY <1>3, <1>9 DEF SV!Stopped, SV!vars
<1> QED
  BY <1>4, <1>5, <1>6, <1>7, <1>8, <1>9 DEF SV!Next

\* Once main, the daemon and a service wait for each other, nothing but the assert
\* of the scheduler ends it, for any services and lengths of the queues.
THEOREM RingOpensByAssert ==
  ASSUME SV!ServicesAssumption PROVE SV!Spec => SV!OnlyTheAssertOpensTheRing
<1>1. SV!Init => ServicesInv
  BY DEF SV!Init, ServicesInv
<1>2. ServicesInv /\ [SV!Next]_(SV!vars) => [SV!Ring /\ ~SV!Ring' => aborted']_(SV!vars)
  BY RingStaysClosed
<1> QED
  BY <1>1, <1>2, ServicesKeep, PTL DEF SV!Spec, SV!OnlyTheAssertOpensTheRing
=============================================================================
