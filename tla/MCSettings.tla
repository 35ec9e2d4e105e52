------------------------------ MODULE MCSettings ------------------------------
(***************************************************************************)
(* What lasts over a restart: the settings of a device, the partitions an  *)
(* update writes, and the cut of an uploaded file out of its request. The  *)
(* models share no variable, so a behaviour is one of them: `part` says    *)
(* which, and the variables of the others stay as they are.                *)
(***************************************************************************)
EXTENDS Update

\* Of the settings, and of the cut of an upload.
CONSTANTS
    Projects, MaxOps, MaxCuts, Values,
    HeaderLen, DataLens, SeparatorLen, TailLen, BufferLen

VARIABLES
    part,
    project, phase, nvs, ram, store, box, behind, hw, todo, ops, cuts, failed, torn,
    forgetting,
    dataLen, text, remaining, state, passed, last

settingsVars == <<project, phase, nvs, ram, store, box, behind, hw, todo, ops, cuts, failed, torn,
                  forgetting>>
multipartVars == <<dataLen, text, remaining, state, passed, last>>

PR == INSTANCE Properties WITH flash <- nvs
MP == INSTANCE Multipart

ASSUME UpdateAssumption
ASSUME PR!PropertiesAssumption
ASSUME PR!TablesAssumption
ASSUME MP!MultipartAssumption

MCInit ==
    /\ part \in {"settings", "update", "multipart"}
    /\ Init /\ PR!Init /\ MP!Init
    /\ part # "settings" => project = "relay"
    /\ part # "update" => working
    /\ part # "multipart" => dataLen = 0 /\ text

SettingsPart == part = "settings" /\ UNCHANGED <<part, vars, multipartVars>>
UpdatePart == part = "update" /\ UNCHANGED <<part, settingsVars, multipartVars>>
MultipartPart == part = "multipart" /\ UNCHANGED <<part, vars, settingsVars>>

MCNext ==
    \/ SettingsPart /\ PR!Next
    \/ UpdatePart /\ Next
    \/ MultipartPart /\ MP!Next

MCVars == <<part, vars, settingsVars, multipartVars>>

MCSpec == MCInit /\ [][MCNext]_MCVars

-----------------------------------------------------------------------------
\* ShownIsStored of Properties: what the box shows is what is stored.
ShownIsStored == PR!ShownIsStored
\* ProvidedIsWhole of Properties: a provided device has credentials of one message.
ProvidedIsWhole == PR!ProvidedIsWhole
\* ResetIsForGood of Properties: no loss of power brings a forgotten network back.
ResetIsForGood == PR!ResetIsForGood
\* NothingIsLost of Multipart: every byte of the file is passed on, in order.
NothingIsLost == MP!NothingIsLost
=============================================================================
