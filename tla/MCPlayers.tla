------------------------------- MODULE MCPlayers -------------------------------
(***************************************************************************)
(* Light and sound: the lamp controller with the messages of MCDmxLight,   *)
(* the driver of the mp3 module and the player on top of it, whose model   *)
(* has a packet sent or lost in one step. The models share no variable, so *)
(* a behaviour is one of them: `part` says which.                          *)
(***************************************************************************)
EXTENDS MCDmxLight

\* Of the driver and of the player.
CONSTANTS
    DriverCalls, DriverFaults, LineBytes,
    MaxVolume, Tracks, LastOutput, Counts, MaxAsked, PlayerFaults

VARIABLES
    part,
    ack, d, pc, call, result, finished, rx, due, calls, driverFaults, asked, disturbed,
    intact,
    ready, files, volume, looping, service, counted, request, stored, output, module,
    requests, playerFaults, doubtful

driverVars == <<ack, d, pc, call, result, finished, rx, due, calls, driverFaults, asked,
                disturbed, intact>>
playerVars == <<ready, files, volume, looping, service, counted, request, stored, output,
                module, requests, playerFaults, doubtful>>

PD == INSTANCE PlayerDriver WITH
    MaxCalls <- DriverCalls, MaxFaults <- DriverFaults, MaxBytes <- LineBytes,
    faults <- driverFaults
PL == INSTANCE Mp3Player WITH
    MaxFaults <- PlayerFaults, todo <- request, asked <- requests, faults <- playerFaults

ASSUME PD!CallsOfTheDriver
ASSUME PL!LimitsAreNatural

MCInit ==
    /\ part \in {"lamps", "driver", "player"}
    /\ Init /\ PD!Init /\ PL!Init
    /\ part # "driver" => ack

LampsPart == part = "lamps" /\ UNCHANGED <<part, driverVars, playerVars>>
DriverPart == part = "driver" /\ UNCHANGED <<part, vars, playerVars>>
PlayerPart == part = "player" /\ UNCHANGED <<part, vars, driverVars>>

MCNext ==
    \/ LampsPart /\ Next
    \/ DriverPart /\ PD!Next
    \/ PlayerPart /\ PL!Next

MCVars == <<part, vars, driverVars, playerVars>>

MCSpec == MCInit /\ [][MCNext]_MCVars

-----------------------------------------------------------------------------
\* AnswerIsOfTheQuery of PlayerDriver: an undisturbed query gets its own answer.
AnswerIsOfTheQuery == PD!AnswerIsOfTheQuery
\* ParserRecovers of PlayerDriver: after bytes were lost a whole frame is read again.
ParserRecovers == PD!ParserRecovers
\* VolumeIsTrue of Mp3Player: the module plays as loud as the player says.
VolumeIsTrue == PL!VolumeIsTrue
=============================================================================
