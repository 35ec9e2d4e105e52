------------------------------- MODULE MCSensors -------------------------------
(***************************************************************************)
(* What is measured and what is pressed: a ring of values alone, the       *)
(* history of the sensors, the matrix of buttons and one button of it. The *)
(* models share no variable, so a behaviour is one of them: `part` says    *)
(* which, and the variables of the others stay as they are. In the history *)
(* "aht" has two values, as SensorAht20 has, and changes of one are not    *)
(* worth storing.                                                          *)
(***************************************************************************)
EXTENDS CycleBuffer

CONSTANTS
    Sensors, ValueCount, Precision, Measured, InvalidValue, BufferSize, Rings, EventQueue,
    MaxUpdates, MaxTime,
    Size, MoveQueue, MaxChanges,
    DebounceMs, StillMs, ScanMs, MaxHold, MaxPause

VARIABLES
    part,
    value, unreported, events, synced, now, addressMap, sensorData, main, reader, updates,
    toggle, goal, enabled, moves, dirty, todo, copy, retained, finished, lastChange, changes,
    isPressed, action, duration, cycles, sinceTick, sinceRead, span, move

historyVars == <<value, unreported, events, synced, now, addressMap, sensorData, main,
                 reader, updates>>
matrixVars == <<toggle, goal, enabled, moves, dirty, todo, copy, retained, finished,
                lastChange, changes>>
buttonVars == <<isPressed, action, duration, cycles, sinceTick, sinceRead, span, move>>

SH == INSTANCE SensorHistory WITH Values <- Measured, N <- BufferSize, QueueSize <- EventQueue
IM == INSTANCE InputMatrix WITH QueueSize <- MoveQueue
IG == INSTANCE InputGrid

ASSUME SH!SensorHistoryAssumption /\ IM!InputMatrixAssumption /\ IG!InputGridAssumption

\* What the configuration takes for some of the constants.
MCValueCount == [aht |-> 2, ds |-> 1]
MCPrecision == [a \in {<<"aht", 0>>, <<"aht", 1>>, <<"ds", 0>>} |-> 1]
MCInvalidValue == -255

Parts == {"ring", "history", "matrix", "button"}

MCInit ==
    /\ part \in Parts
    /\ Init /\ SH!Init /\ IM!Init /\ IG!Init
    /\ part # "matrix" => goal = [b \in {0, 1} |-> FALSE] /\ enabled
    /\ part # "button" => isPressed = FALSE

RingPart == part = "ring" /\ UNCHANGED <<part, historyVars, matrixVars, buttonVars>>
HistoryPart == part = "history" /\ UNCHANGED <<part, buffer, matrixVars, buttonVars>>
MatrixPart == part = "matrix" /\ UNCHANGED <<part, buffer, historyVars, buttonVars>>
ButtonPart == part = "button" /\ UNCHANGED <<part, buffer, historyVars, matrixVars>>

MCNext ==
    \/ RingPart /\ Next
    \/ HistoryPart /\ SH!Next
    \/ MatrixPart /\ IM!Next
    \/ ButtonPart /\ IG!Next

MCVars == <<part, buffer, historyVars, matrixVars, buttonVars>>

MCSpec == MCInit /\ [][MCNext]_MCVars

-----------------------------------------------------------------------------
\* HistoryCatchesUp of SensorHistory: a settled history ends with the value.
HistoryCatchesUp == SH!HistoryCatchesUp
\* AnswerIsSound of SensorHistory: an answer has entries of the address asked for, in
\* order if no more than one push came while it was sent, and all if none came.
AnswerIsSound == SH!AnswerIsSound
\* StatesAreTold of InputMatrix: at rest the broker has the last states, and was told
\* if they are the target.
StatesAreTold == IM!StatesAreTold
\* HoldIsToldRight of InputGrid: the time told for a hold is the time of the hold.
HoldIsToldRight == IG!HoldIsToldRight
=============================================================================
