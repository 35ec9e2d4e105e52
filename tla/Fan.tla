--------------------------------- MODULE Fan ---------------------------------
(***************************************************************************)
(* The fan of the green house: SensorAht20 measures temperature and        *)
(* humidity inside, TemperatureSensor the temperature outside, both on the *)
(* thread of the sensor service; FanSwitch is checked on the thread of the *)
(* switch service; the http server sets the limits. The speed is set once, *)
(* at the start. The day's delta and the force flags are modelled with the *)
(* other switches, in Switches.                                            *)
(***************************************************************************)
EXTENDS Integers

CONSTANTS
    Temps, Hums,    \* what is measured, as numbers
    Limits,         \* pairs of a lower and an upper limit a user sets
    Speeds,         \* speeds the settings may hold
    Drop,           \* the setting: a smaller drop of humidity in a period is too small
    Period          \* and the period

\* The user keeps the lower limit below the upper one, which nothing compares.
FanAssumption ==
    /\ Temps \subseteq Int /\ Hums \subseteq Int
    /\ \A l \in Limits : l \in Int \X Int /\ l[1] < l[2]

VARIABLES
    temp, hum,              \* fields of the inner sensor
    dropped,                \* its _deltaHum is below -0.1
    outer,                  \* value of the outer sensor
    changed,                \* what update() of the inner sensor returned
    measured,               \* the humidity it measured then
    tempLimits, humLimits,  \* limits of the two range switches
    tempCooling, humCooling,  \* their _colling
    previousHum, age,       \* _previousHum, now - _prevTime
    state, speed, output,   \* of the switch and its wrapper
    task,                   \* where the switch service is
    wanted                  \* what the last check saw calls for: "on", "off", "any"

sensors == <<temp, hum, dropped, outer, changed, measured>>
ranges == <<tempLimits, humLimits, tempCooling, humCooling, previousHum, age>>
out == <<state, speed, output, task>>
vars == <<sensors, ranges, out, wanted>>

Invalid == -255
Hot == 85           \* InvalidValue of the outer sensor
Full == 100

Init ==
    /\ temp = Invalid /\ hum = Invalid /\ dropped = FALSE /\ outer = Hot
    /\ changed = FALSE /\ measured = Invalid
    /\ tempLimits \in Limits /\ humLimits \in Limits
    /\ tempCooling = FALSE /\ humCooling = FALSE
    /\ previousHum = 0 /\ age = Period + 1
    /\ state = FALSE /\ speed \in Speeds /\ output = Full
    /\ task = "idle" /\ wanted = "any"

-----------------------------------------------------------------------------
(* The sensors                                                             *)

\* SensorAht20::_doUpdate(); ESP_FAIL leaves everything as it is.
UpdateInner ==
    /\ \E t \in Temps, h \in Hums :
          /\ measured' = h
          /\ IF t # temp \/ h = hum
             THEN /\ temp' = t /\ dropped' = (h < hum) /\ hum' = h
                  /\ changed' = TRUE
             ELSE changed' = FALSE /\ UNCHANGED <<temp, hum, dropped>>
    /\ UNCHANGED <<outer, ranges, out, wanted>>

\* TemperatureSensor::_doUpdate(): what is not above zero counts as lost, and
\* a lost sensor keeps its value.
UpdateOuter ==
    /\ outer' \in {t \in Temps : t > 0}
    /\ UNCHANGED <<temp, hum, dropped, changed, measured, ranges, out, wanted>>

-----------------------------------------------------------------------------
(* FanSwitch                                                               *)

\* RangeSwitch::checkValues(), which is what the fan does: inverseFlag is set.
Cooling(cooling, v, limits) ==
    IF v = Invalid THEN cooling
    ELSE IF cooling THEN v > limits[1] ELSE v >= limits[2]

\* The outside is not cooler by half a degree.
Impossible == temp <= outer

TooSmall == age > Period /\ LET drop == hum - previousHum IN drop < 0 /\ drop > Drop

\* Mutant: a drop of humidity ends the drying at once.
HumCoolingEnds ==
    IF dropped \/ TooSmall THEN FALSE ELSE Cooling(humCooling, hum, humLimits)

\* A drop at once, or one in a period that is too small, ends the drying unless
\* the humidity is at the upper limit.
HumCooling ==
    Cooling(IF dropped \/ TooSmall THEN FALSE ELSE humCooling, hum, humLimits)

\* At the upper limit of humidity the fan is to run, however small or sudden the
\* drops were; with the humidity low and the temperature low or the outside too
\* warm it is not to.
Wanted ==
    IF hum = Invalid THEN "any"
    ELSE IF hum >= humLimits[2] THEN "on"
    ELSE IF hum <= humLimits[1] /\ (temp <= outer \/ temp <= tempLimits[1]) THEN "off"
    ELSE "any"

\* SwitchIface::check() with FanSwitch::_condition(): the state changes first.
Check ==
    /\ task = "idle"
    /\ tempCooling' = Cooling(tempCooling, temp, tempLimits)
    /\ humCooling' = HumCooling
    /\ IF age > Period THEN previousHum' = hum /\ age' = 0 ELSE UNCHANGED <<previousHum, age>>
    /\ state' = \/ hum # Invalid /\ humCooling'
                \/ temp # Invalid /\ tempCooling' /\ ~Impossible
    /\ task' = IF state' = state THEN "idle" ELSE "act"
    /\ wanted' = Wanted
    /\ UNCHANGED <<sensors, tempLimits, humLimits, speed, output>>

\* FanSwitch::_action()
Act ==
    /\ task = "act" /\ task' = "idle"
    /\ output' = IF state THEN speed ELSE 0
    /\ UNCHANGED <<sensors, ranges, state, speed, wanted>>

TimePasses ==
    /\ age <= Period /\ age' = age + 1
    /\ UNCHANGED <<sensors, tempLimits, humLimits, tempCooling, humCooling, previousHum,
                   out, wanted>>

-----------------------------------------------------------------------------
(* The http server                                                         *)

SetTempLimits ==
    /\ tempLimits' \in Limits
    /\ UNCHANGED <<sensors, humLimits, tempCooling, humCooling, previousHum, age, out, wanted>>

SetHumLimits ==
    /\ humLimits' \in Limits
    /\ UNCHANGED <<sensors, tempLimits, tempCooling, humCooling, previousHum, age, out, wanted>>

Next == \/ UpdateInner \/ UpdateOuter
        \/ Check \/ Act \/ TimePasses
        \/ SetTempLimits \/ SetHumLimits

Spec == Init /\ [][Next]_vars

-----------------------------------------------------------------------------
(* Properties                                                              *)

\* The state the fan was left in by the last check is the one the temperatures,
\* the humidity and their limits called for at that check.
FanIsRight == (wanted = "on" => state) /\ (wanted = "off" => ~state)

\* Stated by SensorIface::update(): it returns false when the value remained the
\* same, so what was measured then is the value the sensor has.
UpdateTellsChanges == ~changed => measured = hum
=============================================================================
