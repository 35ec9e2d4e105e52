------------------------------ MODULE MCSwitches ------------------------------
(***************************************************************************)
(* The switches of the green house: light and heater, and the fan with its *)
(* sensors. They share no variable that is modelled, so a behaviour is one *)
(* of them: `part` says which. A lower limit of 2 is below an upper one of *)
(* 3, not below one of 2.                                                  *)
(***************************************************************************)
EXTENDS Switches

\* Of the fan.
CONSTANTS FanTemps, Hums, Limits, Speeds, Drop, Period

VARIABLES
    part, fanTemp, hum, dropped, outer, changed, measured, tempLimits, humLimits,
    tempCooling, humCooling, previousHum, age, fanState, speed, output, fanTask, wanted

fanVars == <<fanTemp, hum, dropped, outer, changed, measured, tempLimits, humLimits,
             tempCooling, humCooling, previousHum, age, fanState, speed, output, fanTask,
             wanted>>

MCInvalidValue == -255
MCLimits == {<<0, 2>>, <<0, 1>>}
MCDrop == -2

FN == INSTANCE Fan WITH
    Temps <- FanTemps, temp <- fanTemp, state <- fanState, task <- fanTask

ASSUME FN!FanAssumption

MCInit ==
    /\ part \in {"light and heater", "fan"}
    /\ Init /\ FN!Init
    /\ IF part = "fan" THEN low = 0 /\ high = 2 /\ start = 0 /\ end = 0 /\ now = 0
                       ELSE tempLimits = <<0, 2>> /\ humLimits = <<0, 2>>

MCNext ==
    \/ part = "light and heater" /\ UNCHANGED <<part, fanVars>> /\ Next
    \/ part = "fan" /\ UNCHANGED <<part, vars>> /\ FN!Next

MCVars == <<part, vars, fanVars>>

MCSpec == MCInit /\ [][MCNext]_MCVars

\* FanIsRight of Fan: the fan is as temperatures, humidity and limits called for.
FanIsRight == FN!FanIsRight
=============================================================================
