------------------------------ MODULE HttpPuller ------------------------------
(***************************************************************************)
(* The relay board that is driven over http: a task asks a server over and *)
(* over again what the relays are to be, while the network is there and    *)
(* the app has not paused it; the thread of the event manager makes the    *)
(* http client anew each time the network comes back.                      *)
(***************************************************************************)
EXTENDS Integers

CONSTANTS
    Lights,         \* the relays
    MaxChanges,     \* bound: changes of the server's answer, commands of the app
    MaxFaults       \* bound: requests that fail, losses of the network

VARIABLES
    server,             \* what the server answers: a value of each light, or BadJson
    client,             \* _httpClient: TRUE if there is one
    connected, pause,   \* _isWifiConnected, _pause
    task, answer,       \* the task: its step; what the request brought
    network, event,     \* the network; the event manager: its step
    output,             \* levels of the relays
    freed,              \* the task uses a client that was cleaned up, or none
    changes, faults

puller == <<client, connected, pause>>
vars == <<server, puller, task, answer, network, event, output, freed, changes, faults>>

Documents == [Lights -> {"on", "off", "missing"}]
BadJson == [l \in Lights |-> "bad json"]
Failed == [l \in Lights |-> "failed"]

Init ==
    /\ server \in Documents
    /\ client = FALSE /\ connected = FALSE /\ pause = FALSE
    /\ task = "top" /\ answer = Failed
    /\ network = FALSE /\ event = "idle"
    /\ output = [l \in Lights |-> FALSE]
    /\ freed = FALSE
    /\ changes = 0 /\ faults = 0

Change == changes < MaxChanges /\ changes' = changes + 1
Fault == faults < MaxFaults /\ faults' = faults + 1

ServerChanges ==
    /\ Change
    /\ server' \in (Documents \cup {BadJson}) \ {server}
    /\ UNCHANGED <<puller, task, answer, network, event, output, freed, faults>>

-----------------------------------------------------------------------------
(* The network, and handleEvent() on the thread of the event manager       *)

NetworkComes ==
    /\ ~network /\ event = "idle"
    /\ network' = TRUE /\ event' = "deinit"
    /\ UNCHANGED <<server, puller, task, answer, output, freed, changes, faults>>

\* FAILED_TO_CONNECT: the client stays. A loss that the retries mend is not told:
\* the next CONNECTED finds the puller at work.
NetworkGoes ==
    /\ network /\ event = "idle" /\ Fault
    /\ network' = FALSE
    /\ \E isTold \in BOOLEAN : connected' = (connected /\ ~isTold)
    /\ UNCHANGED <<server, client, pause, task, answer, event, output, freed, changes>>

\* _onWifiConnected(): "need mutex".
Deinit ==
    /\ event = "deinit" /\ event' = "init"
    /\ client' = FALSE
    /\ freed' = (freed \/ (client /\ task = "perform"))
    /\ UNCHANGED <<server, connected, pause, task, answer, network, output, changes, faults>>

InitRequest ==
    /\ event = "init" /\ event' = "idle"
    /\ client' = TRUE
    /\ connected' = TRUE
    /\ UNCHANGED <<server, pause, task, answer, network, output, freed, changes, faults>>

-----------------------------------------------------------------------------
(* The app                                                                 *)

SetPause ==
    /\ Change
    /\ pause' = ~pause
    /\ UNCHANGED <<server, client, connected, task, answer, network, event, output, freed,
                   faults>>

Turn ==
    /\ Change
    /\ \E l \in Lights : output' = [output EXCEPT ![l] = ~@]
    /\ UNCHANGED <<server, puller, task, answer, network, event, freed, faults>>

-----------------------------------------------------------------------------
(* _taskFunc()                                                             *)

Wait ==
    /\ task = "top" /\ (pause \/ ~connected)
    /\ UNCHANGED vars

StartRequest ==
    /\ task = "top" /\ ~pause /\ connected
    /\ task' = "perform"
    /\ freed' = (freed \/ ~client)
    /\ UNCHANGED <<server, puller, answer, network, event, output, changes, faults>>

\* A request without a client or without a network fails; others may.
Answered ==
    /\ task = "perform" /\ client /\ network
    /\ task' = "act"
    /\ answer' = server
    /\ UNCHANGED <<server, puller, network, event, output, freed, changes, faults>>

\* esp_http_client_perform() fails: the task makes the client anew as well.
RequestFails ==
    /\ task = "perform" /\ task' = "top"
    /\ IF client /\ network THEN Fault ELSE UNCHANGED faults
    /\ client' = TRUE
    /\ UNCHANGED <<server, connected, pause, answer, network, event, output, freed, changes>>

\* A status other than 200 brings no data.
NotFound ==
    /\ task = "perform" /\ client /\ network /\ Fault
    /\ task' = "act" /\ answer' = Failed
    /\ UNCHANGED <<server, puller, network, event, output, freed, changes>>

\* A mutant: it stays as it is.
OnUnlessMissing(l) == IF answer[l] = "missing" THEN output[l] ELSE answer[l] = "on"

\* A light the document does not name is turned off.
On(l) == answer[l] = "on"

\* _httpRequestHandler(): what is no document changes nothing.
Act ==
    /\ task = "act" /\ task' = "top"
    /\ output' = IF answer \in {Failed, BadJson} THEN output
                                                 ELSE [l \in Lights |-> On(l)]
    /\ UNCHANGED <<server, puller, answer, network, event, freed, changes, faults>>

-----------------------------------------------------------------------------
Next ==
    \/ ServerChanges
    \/ NetworkComes \/ NetworkGoes \/ Deinit \/ InitRequest
    \/ SetPause \/ Turn
    \/ Wait \/ StartRequest \/ Answered \/ RequestFails \/ NotFound \/ Act

Fairness ==
    /\ WF_vars(NetworkComes) /\ WF_vars(Deinit) /\ WF_vars(InitRequest)
    /\ WF_vars(StartRequest) /\ WF_vars(Act)
    /\ WF_vars(Answered) /\ WF_vars(RequestFails /\ ~(client /\ network))

Spec == Init /\ [][Next]_vars /\ Fairness

-----------------------------------------------------------------------------
Follows == server = BadJson \/ output = [l \in Lights |-> server[l] = "on"]

(* In the end the relays are what the server says, a light it does not     *)
(* name being off: lost networks, failed requests, an app that turns       *)
(* relays itself and the two threads that both make the client leave no    *)
(* puller without one. Left out are a paused puller and the undefined case *)
(* of a client that was cleaned up in use, or between being cleaned up and *)
(* made anew, for which the code asks for a mutex.                       *)
ServerIsFollowed == <>[](Follows \/ pause \/ freed)
=============================================================================
