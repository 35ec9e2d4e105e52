-------------------------------- MODULE Boot --------------------------------
(***************************************************************************)
(* The boot state machine of the firmware: StateManager with its composite *)
(* states StateBooted and StateWork (main/states), driven by the events of *)
(* the event queue, composed with what feeds that queue during boot: the   *)
(* wifi handlers on the system event task (main/fb_wifi.cpp), the          *)
(* provisioning session (main/fb_provision.cpp), the SNTP callback         *)
(* (main/fb_clock.cpp), the sensor service and the firmware update.        *)
(*                                                                         *)
(* The main task runs one handler at a time, so a handler with all the     *)
(* exit() and enter() calls of its transition is one step; an event that a *)
(* handler pushes is a step of its own, because it may find the queue full.*)
(* The wifi driver, the provisioning manager and the SNTP client are       *)
(* external: they do what the handlers in main/ are written to expect.     *)
(***************************************************************************)
EXTENDS Integers, Sequences, SequencesExt, FiniteSets

CONSTANTS QueueSize,  \* length of the event queue
          MaxRetry,   \* CONFIG_EXAMPLE_WIFI_CONN_MAX_RETRY
          MaxBoots    \* bound: how often the device starts

ASSUME BootAssumption == /\ QueueSize \in Nat \ {0}
                         /\ MaxRetry \in Nat
                         /\ MaxBoots \in Nat \ {0}

Events == {"BOOT", "TRANSITION", "CONNECTED", "FAILED_TO_CONNECT", "AP_STARTED",
           "DISCONNECTED", "SYNCED", "UPDATE_END", "PROVISIONED",
           "ALL_SENSORS_INIT", "VALUE_CHANGED"}

NoEvent == "none"

\* The tasks that push: app_main, the system event loop (wifi and provisioning
\* handlers), lwIP's task (SNTP callback), the sensor service, the http server.
Tasks == {"main", "sys_evt", "tcpip", "sensors", "httpd"}

Modes == {"STA", "AP"}

VARIABLES
  queue, pending,       \* event queue, and what each task is blocked pushing
  state,                \* innermost active state: child of StateBooted, or StateWork
  project,              \* requiresTime and requireSensorService of the build
  settings,             \* wifi mode and isWifiProvided() of the stored settings
  radio,                \* the wifi driver as wifi::start() launched it
  reconnectAttempts,    \* _reconnectAttempts
  client,               \* in AP mode: a station has been given an address
  launched,             \* has _launchWifi() run since the start
  session,              \* provisioning session
  sntp, isTimeSynced,   \* SNTP client, _isTimeSynced
  sensorsInit,          \* SensorService::_initFlag
  serverStarts,         \* how often server::startWorking() ran since the start
  restarting,           \* a delayed esp_restart() is scheduled
  boots                 \* starts of the device so far

radioVars == <<radio, reconnectAttempts, client, launched>>
provisionVars == <<settings, session>>
clockVars == <<sntp, isTimeSynced>>
bootVars == <<project, boots>>
vars == <<queue, pending, state, project, settings, radio, reconnectAttempts, client,
          launched, session, sntp, isTimeSynced, sensorsInit, serverStarts,
          restarting, boots>>

PushesBoot == [t \in Tasks |-> IF t = "main" THEN "BOOT" ELSE NoEvent]

\* After power-up: global::init() has run, StateHwInit has been entered, which
\* started the sensor service, and main is pushing BOOT.
Init ==
  /\ queue = <<>>
  /\ pending = PushesBoot
  /\ state = "HwInit"
  /\ radio = "off" /\ reconnectAttempts = 0 /\ client = FALSE /\ launched = FALSE
  /\ session = "closed"
  /\ sntp = FALSE /\ isTimeSynced = FALSE
  /\ sensorsInit = FALSE
  /\ serverStarts = 0
  /\ restarting = FALSE
  /\ boots = 1
  /\ project \in [requiresTime : BOOLEAN, requireSensorService : BOOLEAN]
  /\ settings \in [mode : Modes, provided : BOOLEAN]

-----------------------------------------------------------------------------
(* The queue *)

Enqueue(t) ==
  /\ pending[t] # NoEvent
  /\ Len(queue) < QueueSize
  /\ queue' = Append(queue, pending[t])
  /\ pending' = [pending EXCEPT ![t] = NoEvent]
  /\ UNCHANGED <<state, radioVars, provisionVars, clockVars, bootVars,
                 sensorsInit, serverStarts, restarting>>

Idle(t) == pending[t] = NoEvent

Push(t, e) == pending' = [pending EXCEPT ![t] = e]

\* Main takes the oldest event; nothing else happens on main until its own
\* push, if it made one, has gone through.
Dispatch(e) ==
  /\ Idle("main")
  /\ queue # <<>>
  /\ Head(queue) = e
  /\ queue' = Tail(queue)

Stay == UNCHANGED <<state, radioVars, session, clockVars, serverStarts, restarting>>

-----------------------------------------------------------------------------
(* enter() of the states that are transitioned into *)

\* wifi::reconnect()
Reconnect ==
  /\ reconnectAttempts' = 0
  /\ radio' = "connecting"
  /\ UNCHANGED <<client, launched>>

\* wifi::start() for the stored mode
EnterWifiInit ==
  /\ state' = "WifiInit"
  /\ launched' = TRUE
  /\ IF settings.mode = "STA"
     THEN reconnectAttempts' = 0 /\ radio' = "connecting"
     ELSE radio' = "ap_starting" /\ UNCHANGED reconnectAttempts
  /\ UNCHANGED <<client, clockVars, serverStarts>>

\* provision::init()
EnterProvision ==
  /\ state' = "Provision"
  /\ session' = "open"
  /\ UNCHANGED <<radioVars, clockVars, serverStarts>>

\* clock::initClock() and syncRequest()
EnterTimeInit ==
  /\ state' = "TimeInit"
  /\ sntp' = TRUE
  /\ UNCHANGED <<radioVars, isTimeSynced, serverStarts, session>>

\* server::startWorking()
EnterWork ==
  /\ state' = "Work"
  /\ serverStarts' = serverStarts + 1
  /\ UNCHANGED <<radioVars, clockVars, session>>

-----------------------------------------------------------------------------
(* handleEvent of the active state.  The other listeners of the queue do not *)
(* touch this state.                                                         *)

\* Mutant: builds without a sensor service wait for the sensors too.
HandleHwInitAlwaysWaits(e) ==
  /\ state = "HwInit"
  /\ Dispatch(e)
  /\ IF e = "ALL_SENSORS_INIT"
     THEN IF settings.provided THEN EnterWifiInit /\ UNCHANGED session ELSE EnterProvision
     ELSE UNCHANGED <<state, radioVars, clockVars, serverStarts, session>>
  /\ UNCHANGED <<pending, settings, bootVars, sensorsInit, restarting>>

\* StateHwInit waits for the sensors, or for nothing when the build has none.
HandleHwInit(e) ==
  /\ state = "HwInit"
  /\ Dispatch(e)
  /\ IF e = (IF project.requireSensorService THEN "ALL_SENSORS_INIT" ELSE "BOOT")
     THEN IF settings.provided THEN EnterWifiInit /\ UNCHANGED session ELSE EnterProvision
     ELSE UNCHANGED <<state, radioVars, clockVars, serverStarts, session>>
  /\ UNCHANGED <<pending, settings, bootVars, sensorsInit, restarting>>

\* StateProvision; leaving it is provision::deinit().
HandleProvision(e) ==
  /\ state = "Provision"
  /\ Dispatch(e)
  /\ IF e = "PROVISIONED"
     THEN EnterWifiInit /\ session' = "closed"
     ELSE UNCHANGED <<state, radioVars, clockVars, serverStarts, session>>
  /\ UNCHANGED <<pending, settings, bootVars, sensorsInit, restarting>>

HandleWifiInit(e) ==
  /\ state = "WifiInit"
  /\ e # "TRANSITION"
  /\ Dispatch(e)
  /\ CASE e = "CONNECTED" /\ project.requiresTime -> EnterTimeInit /\ UNCHANGED <<pending, restarting>>
       [] e = "CONNECTED" /\ ~project.requiresTime -> Push("main", "TRANSITION") /\ Stay
       [] e = "AP_STARTED" -> Push("main", "TRANSITION") /\ Stay
       [] e = "FAILED_TO_CONNECT" ->
            Reconnect /\ UNCHANGED <<pending, state, clockVars, serverStarts, session, restarting>>
       [] OTHER -> Stay /\ UNCHANGED pending
  /\ UNCHANGED <<settings, bootVars, sensorsInit>>

\* A lost network takes StateTimeInit back to StateWifiInit, whose enter()
\* launches wifi again from the start.
HandleTimeInit(e) ==
  /\ state = "TimeInit"
  /\ e # "TRANSITION"
  /\ Dispatch(e)
  /\ CASE e = "SYNCED" -> Push("main", "TRANSITION") /\ Stay
       [] e = "FAILED_TO_CONNECT" -> EnterWifiInit /\ UNCHANGED <<pending, session, restarting>>
       [] OTHER -> Stay /\ UNCHANGED pending
  /\ UNCHANGED <<settings, bootVars, sensorsInit>>

\* StateBooted takes TRANSITION itself, whatever its child is.
HandleTransition ==
  /\ state # "Work"
  /\ Dispatch("TRANSITION")
  /\ EnterWork
  /\ UNCHANGED <<pending, settings, bootVars, sensorsInit, restarting>>

\* Mutant: a lost network is not noticed any more once the device works.
HandleWorkNoReconnect(e) ==
  /\ state = "Work"
  /\ Dispatch(e)
  /\ restarting' = (restarting \/ e = "UPDATE_END")
  /\ UNCHANGED <<radioVars, pending, state, session, settings, clockVars, bootVars,
                 sensorsInit, serverStarts>>

WorkReconnects(e) ==
  IF e = "FAILED_TO_CONNECT" THEN Reconnect ELSE UNCHANGED radioVars

\* StateWork restarts the device after an update; StateWifiConnected reconnects.
HandleWork(e) ==
  /\ state = "Work"
  /\ Dispatch(e)
  /\ restarting' = (restarting \/ e = "UPDATE_END")
  /\ WorkReconnects(e)
  /\ UNCHANGED <<pending, state, session, settings, clockVars, bootVars,
                 sensorsInit, serverStarts>>

\* The state in hand takes the event, with every exit() and enter() it causes.
MainHandles ==
  \/ HandleTransition
  \/ \E e \in Events :
       \/ HandleHwInit(e) \/ HandleProvision(e) \/ HandleWifiInit(e)
       \/ HandleTimeInit(e) \/ HandleWork(e)

-----------------------------------------------------------------------------
(* Handlers on the system event task, run by the wifi driver                 *)

StationOnly == UNCHANGED <<queue, state, client, launched, provisionVars, clockVars,
                           bootVars, sensorsInit, serverStarts, restarting>>

\* _on_wifi_sta_disconnect: try again, or give up and say so.
StaDisconnected ==
  /\ Idle("sys_evt")
  /\ radio \in {"connecting", "up"}
  /\ reconnectAttempts' = reconnectAttempts + 1
  /\ IF reconnectAttempts' > MaxRetry
     THEN Push("sys_evt", "FAILED_TO_CONNECT") /\ radio' = "idle"
     ELSE radio' = "connecting" /\ UNCHANGED pending
  /\ StationOnly

\* Mutant: a success does not restore the budget of attempts.
StaGotIpKeepsCount ==
  /\ Idle("sys_evt")
  /\ radio = "connecting"
  /\ radio' = "up"
  /\ Push("sys_evt", "CONNECTED")
  /\ UNCHANGED reconnectAttempts
  /\ StationOnly

\* _on_sta_got_ip
StaGotIp ==
  /\ Idle("sys_evt")
  /\ radio = "connecting"
  /\ radio' = "up"
  /\ reconnectAttempts' = 0
  /\ Push("sys_evt", "CONNECTED")
  /\ StationOnly

\* _on_wifi_ap_start
ApStarted ==
  /\ Idle("sys_evt")
  /\ radio = "ap_starting"
  /\ radio' = "ap"
  /\ Push("sys_evt", "AP_STARTED")
  /\ UNCHANGED reconnectAttempts
  /\ StationOnly

\* _on_ap_gave_ip and _on_wifi_ap_disconnect; the AP takes one station.
ApClientChanges ==
  /\ Idle("sys_evt")
  /\ radio = "ap"
  /\ client' = ~client
  /\ Push("sys_evt", IF client THEN "DISCONNECTED" ELSE "CONNECTED")
  /\ UNCHANGED <<queue, state, radio, reconnectAttempts, launched, provisionVars,
                 clockVars, bootVars, sensorsInit, serverStarts, restarting>>

\* The box_settings endpoint, reachable all through the provisioning session:
\* _customProvisionHandler
ProvisionMode(mode) ==
  /\ session # "closed"
  /\ settings' = [settings EXCEPT !.mode = mode]
  /\ UNCHANGED <<queue, pending, state, radioVars, session, clockVars, bootVars,
                 sensorsInit, serverStarts, restarting>>

\* _eventHandler, WIFI_PROV_CRED_RECV: credentials are stored before they have
\* been tried.
ProvisionCredentials ==
  /\ Idle("sys_evt")
  /\ session = "open"
  /\ session' = "received"
  /\ settings' = [settings EXCEPT !.provided = TRUE]
  /\ UNCHANGED <<queue, pending, state, radioVars, clockVars, bootVars,
                 sensorsInit, serverStarts, restarting>>

\* _eventHandler, WIFI_PROV_CRED_SUCCESS and WIFI_PROV_CRED_FAIL: as an access
\* point the device is content with credentials nothing accepts.
ProvisionVerdict(accepted) ==
  /\ Idle("sys_evt")
  /\ session = "received"
  /\ session' = IF accepted THEN "accepted" ELSE "refused"
  /\ IF accepted \/ settings.mode = "AP" THEN Push("sys_evt", "PROVISIONED") ELSE UNCHANGED pending
  /\ UNCHANGED <<queue, state, radioVars, settings, clockVars, bootVars,
                 sensorsInit, serverStarts, restarting>>

-----------------------------------------------------------------------------
(* The remaining producers *)

\* _on_sntp_sync_event: a time server is reached, first or again.
TimeSynced ==
  /\ sntp
  /\ Idle("tcpip")
  /\ radio = "up" \/ client
  /\ isTimeSynced' = TRUE
  /\ Push("tcpip", "SYNCED")
  /\ UNCHANGED <<queue, state, radioVars, provisionVars, sntp, bootVars, sensorsInit,
                 serverStarts, restarting>>

\* SensorService::_onPull has found every sensor initialised for the first time.
SensorsInitialized ==
  /\ project.requireSensorService
  /\ ~sensorsInit
  /\ Idle("sensors")
  /\ sensorsInit' = TRUE
  /\ Push("sensors", "ALL_SENSORS_INIT")
  /\ UNCHANGED <<queue, state, radioVars, provisionVars, clockVars, bootVars,
                 serverStarts, restarting>>

\* SensorService::_onPull reports a sensor.
SensorReports ==
  /\ project.requireSensorService
  /\ Idle("sensors")
  /\ Push("sensors", "VALUE_CHANGED")
  /\ UNCHANGED <<queue, state, radioVars, provisionVars, clockVars, bootVars,
                 sensorsInit, serverStarts, restarting>>

\* update::end() on the http server's task.
UpdateEnds ==
  /\ serverStarts > 0
  /\ ~restarting
  /\ Idle("httpd")
  /\ "UPDATE_END" \notin ToSet(queue)
  /\ Push("httpd", "UPDATE_END")
  /\ UNCHANGED <<queue, state, radioVars, provisionVars, clockVars, bootVars,
                 sensorsInit, serverStarts, restarting>>

\* The device starts again: power was lost, or the delayed esp_restart() ran.
\* Only the build and the stored settings survive.
StartAgain ==
  /\ boots < MaxBoots
  /\ boots' = boots + 1
  /\ queue' = <<>>
  /\ pending' = PushesBoot
  /\ state' = "HwInit"
  /\ radio' = "off" /\ reconnectAttempts' = 0 /\ client' = FALSE /\ launched' = FALSE
  /\ session' = "closed"
  /\ sntp' = FALSE /\ isTimeSynced' = FALSE
  /\ sensorsInit' = FALSE
  /\ serverStarts' = 0
  /\ restarting' = FALSE
  /\ UNCHANGED <<project, settings>>

Producers ==
  \/ StaDisconnected \/ StaGotIp \/ ApStarted \/ ApClientChanges
  \/ \E mode \in Modes : ProvisionMode(mode)
  \/ ProvisionCredentials
  \/ \E accepted \in BOOLEAN : ProvisionVerdict(accepted)
  \/ TimeSynced
  \/ SensorsInitialized \/ SensorReports
  \/ UpdateEnds

Next == \/ MainHandles
        \/ \E t \in Tasks : Enqueue(t)
        \/ Producers
        \/ StartAgain

\* The main task and every blocked task are scheduled in the end.  A blocked
\* task may see others take the room again and again, hence SF.  The sensors,
\* the access point and the time server answer in the end (their steps are
\* enabled again and again); nothing is assumed of the user.
Fairness ==
  /\ WF_vars(MainHandles)
  /\ \A t \in Tasks : SF_vars(Enqueue(t))
  /\ SF_vars(SensorsInitialized)
  /\ SF_vars(StaGotIp)
  /\ SF_vars(ApStarted)
  /\ SF_vars(TimeSynced)

Spec == Init /\ [][Next]_vars /\ Fairness

-----------------------------------------------------------------------------
(* Properties *)

OnItsWay(e) == e \in ToSet(queue) \/ \E t \in Tasks : pending[t] = e

\* When the wifi handlers have given up reconnecting, a FAILED_TO_CONNECT is on
\* its way to a state that reconnects: in no interleaving is the network dropped
\* with nobody left to bring it back (fb_wifi.cpp:41-46 against the states).
LostNetworkIsReported == radio = "idle" => OnItsWay("FAILED_TO_CONNECT")

\* A connection that was lost once gets all its attempts again after the next
\* success: FAILED_TO_CONNECT is never pushed straight from "up" (MaxRetry > 0).
NetworkGetsItsRetries ==
  [][radio = "up" /\ radio' = "idle" => MaxRetry = 0]_vars

Stalled == pending["main"] # NoEvent /\ Len(queue) = QueueSize

\* A device with stored credentials gets to work when sensors, access point and
\* time server answer and the wifi handlers give up only finitely often, unless
\* main's own push of TRANSITION blocks on a full queue.  Without the premise it
\* need not: SYNCED events that reach StateWifiInit are dropped, and StateTimeInit
\* waits for the next one although the clock is set already.
ProvidedDeviceWorks ==
  <>[](radio # "idle") =>
    ((state = "HwInit" /\ settings.provided) ~> (state = "Work" \/ Stalled))
=============================================================================
