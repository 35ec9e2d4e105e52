------------------------------ MODULE Services ------------------------------
(***************************************************************************)
(* Who waits for whom once the device works.  A service                    *)
(* (util::ServiceIface) is a task that performs the actions of a queue; an *)
(* auto-reload timer has the timer daemon of FreeRTOS put a pull there,    *)
(* the http server puts one after it has changed a switch.  The pull of    *)
(* the sensor service reports to the event queue, which main drains; main  *)
(* gives the daemon commands when a listener schedules a delayed action,   *)
(* and so does the http server when it changes a period.                   *)
(*                                                                         *)
(*      http ---> actions ---> service ---> events ---> main               *)
(*        \          ^                                    |                *)
(*         \         '----- daemon <--- commands <--------'                *)
(*          '---------------------------^                                  *)
(*                                                                         *)
(* All sends wait without a limit, except those of the time scheduler,     *)
(* which assert that a second was enough.  Queues are known by their       *)
(* lengths, a delayed action by its first command.                         *)
(***************************************************************************)
EXTENDS Integers

CONSTANTS Services,        \* the services of a project
          Reporting,       \* those that push events: the sensor service
          MaxReports,      \* events of a pull at most
          ActionQueueSize, \* _QUEUE_SIZE of fb_service_iface.cpp
          EventQueueSize,  \* length of the event queue
          CommandQueueSize, \* CONFIG_FREERTOS_TIMER_QUEUE_LENGTH
          MaxBacklog       \* bound: more outstanding expiries of a timer are not counted

ServicesAssumption ==
  /\ Reporting \subseteq Services /\ Services \cap {"idle", "commands"} = {}
  /\ {ActionQueueSize, EventQueueSize, CommandQueueSize, MaxBacklog} \subseteq Nat \ {0}
  /\ MaxReports \in Nat

ASSUME ServicesAssumption

VARIABLES
  actions,   \* pulls in each service's queue
  running,   \* whether the task of each service is in _onPull()
  reports,   \* events it is still to push
  expired,   \* expiries of each service's timer not yet handled
  daemon,    \* the service whose callback the daemon is in, "commands" or "idle"
  commands,  \* commands in the daemon's queue
  events,    \* events in the event queue
  main,      \* "idle", or "scheduling": in _startTimer()
  http,      \* what the http server waits for: "idle", "period" or a service
  aborted    \* an assert of _startTimer() failed

vars == <<actions, running, reports, expired, daemon, commands, events, main, http, aborted>>

Init ==
  /\ actions = [s \in Services |-> 1]  \* forcePullAction() of start()
  /\ running = [s \in Services |-> FALSE]
  /\ reports = [s \in Services |-> 0]
  /\ expired = [s \in Services |-> 0]
  /\ daemon = "idle" /\ commands = 0
  /\ events = 0 /\ main = "idle" /\ http = "idle" /\ aborted = FALSE

Up == ~aborted

-----------------------------------------------------------------------------
(* A service's task *)

\* xQueueReceive() returns, _onPull() begins.
Pull(s) ==
  /\ Up /\ ~running[s] /\ actions[s] > 0
  /\ actions' = [actions EXCEPT ![s] = @ - 1]
  /\ running' = [running EXCEPT ![s] = TRUE]
  /\ \E n \in 0..(IF s \in Reporting THEN MaxReports ELSE 0) : reports' = [reports EXCEPT ![s] = n]
  /\ UNCHANGED <<expired, daemon, commands, events, main, http, aborted>>

\* _dropEvent() waits for room in the event queue.
DropEvent(s) ==
  /\ Up /\ running[s] /\ reports[s] > 0 /\ events < EventQueueSize
  /\ events' = events + 1 /\ reports' = [reports EXCEPT ![s] = @ - 1]
  /\ UNCHANGED <<actions, running, expired, daemon, commands, main, http, aborted>>

FinishPull(s) ==
  /\ Up /\ running[s] /\ reports[s] = 0
  /\ running' = [running EXCEPT ![s] = FALSE]
  /\ UNCHANGED <<actions, reports, expired, daemon, commands, events, main, http, aborted>>

-----------------------------------------------------------------------------
(* The timer daemon: between callbacks it handles commands *)

\* Time goes on whoever waits.
Expire(s) ==
  /\ Up
  /\ expired' = [expired EXCEPT ![s] = IF @ < MaxBacklog THEN @ + 1 ELSE @]
  /\ UNCHANGED <<actions, running, reports, daemon, commands, events, main, http, aborted>>

\* The loop of the daemon: one expired timer, its callback _timer() ...
CallBack(s) ==
  /\ Up /\ daemon = "idle" /\ expired[s] > 0
  /\ daemon' = s /\ expired' = [expired EXCEPT ![s] = @ - 1]
  /\ UNCHANGED <<actions, running, reports, commands, events, main, http, aborted>>

AfterCallback == IF commands > 0 THEN "commands" ELSE "idle"

\* Mutant: the callback does not wait for room.
EnqueuePullNoWait(s) ==
  /\ Up /\ daemon = s
  /\ actions' = [actions EXCEPT ![s] = IF @ < ActionQueueSize THEN @ + 1 ELSE @]
  /\ daemon' = AfterCallback
  /\ UNCHANGED <<running, reports, expired, commands, events, main, http, aborted>>

\* ... which returns when there is room for the pull ...
EnqueuePull(s) ==
  /\ Up /\ daemon = s /\ actions[s] < ActionQueueSize
  /\ actions' = [actions EXCEPT ![s] = @ + 1] /\ daemon' = AfterCallback
  /\ UNCHANGED <<running, reports, expired, commands, events, main, http, aborted>>

\* ... and then commands until there is none.
ProcessCommand ==
  /\ Up /\ commands > 0
  /\ daemon = "commands" \/ (daemon = "idle" /\ \A s \in Services : expired[s] = 0)
  /\ commands' = commands - 1
  /\ daemon' = IF commands' > 0 THEN "commands" ELSE "idle"
  /\ UNCHANGED <<actions, running, reports, expired, events, main, http, aborted>>

-----------------------------------------------------------------------------
(* The main task *)

\* dispatchEvent(); a listener may schedule a delayed action: StateWork after
\* an update, tressure's core.
DispatchEvent ==
  /\ Up /\ main = "idle" /\ events > 0
  /\ events' = events - 1
  /\ main' \in {"idle", "scheduling"}
  /\ UNCHANGED <<actions, running, reports, expired, daemon, commands, http, aborted>>

SendCommand ==
  /\ Up /\ main = "scheduling" /\ commands < CommandQueueSize
  /\ commands' = commands + 1 /\ main' = "idle"
  /\ UNCHANGED <<actions, running, reports, expired, daemon, events, http, aborted>>

\* Mutant: main waits with portMAX_DELAY, as the services do.
SendTimesOutNever == FALSE /\ UNCHANGED vars

\* A second has passed without room: the assert after the call fails.
SendTimesOut ==
  /\ Up /\ main = "scheduling" /\ commands = CommandQueueSize /\ daemon \in Services
  /\ aborted' = TRUE
  /\ UNCHANGED <<actions, running, reports, expired, daemon, commands, events, main, http>>

-----------------------------------------------------------------------------
(* The http server's task *)

\* The setter of a force property: setForseFlag(), then forcePullAction().
SetForce(s) ==
  /\ Up /\ http = "idle" /\ s \notin Reporting
  /\ http' = s
  /\ UNCHANGED <<actions, running, reports, expired, daemon, commands, events, main, aborted>>

\* The setter of the global sensor period: setTimerPeriod().
SetPeriod ==
  /\ Up /\ http = "idle" /\ http' = "period"
  /\ UNCHANGED <<actions, running, reports, expired, daemon, commands, events, main, aborted>>

ForcePullAction(s) ==
  /\ Up /\ http = s /\ actions[s] < ActionQueueSize
  /\ actions' = [actions EXCEPT ![s] = @ + 1] /\ http' = "idle"
  /\ UNCHANGED <<running, reports, expired, daemon, commands, events, main, aborted>>

SetTimerPeriod ==
  /\ Up /\ http = "period" /\ commands < CommandQueueSize
  /\ commands' = commands + 1 /\ http' = "idle"
  /\ UNCHANGED <<actions, running, reports, expired, daemon, events, main, aborted>>

-----------------------------------------------------------------------------
\* The device restarts; where it starts again is not part of this module.
Stopped == aborted /\ UNCHANGED vars

Service(s) == Pull(s) \/ DropEvent(s) \/ FinishPull(s)
Daemon == (\E s \in Services : CallBack(s) \/ EnqueuePull(s)) \/ ProcessCommand
Main == DispatchEvent \/ SendCommand \/ SendTimesOut
HttpWaits == (\E s \in Services : ForcePullAction(s)) \/ SetTimerPeriod
HttpRequest == (\E s \in Services : SetForce(s)) \/ SetPeriod

Next ==
  \/ \E s \in Services : Service(s) \/ Expire(s)
  \/ Daemon \/ Main \/ HttpWaits \/ HttpRequest
  \/ Stopped

\* Every task that can run is scheduled in the end, and a task that waits for room
\* gets it in the end, hence SF: a queue wakes the waiting task of the highest
\* priority, and the tasks of higher priority block in other places too.  Nothing
\* is assumed of the timers and of the requests.
Fairness ==
  /\ \A s \in Services : SF_vars(Service(s))
  /\ SF_vars(Daemon) /\ SF_vars(Main) /\ SF_vars(HttpWaits)

Spec == Init /\ [][Next]_vars /\ Fairness

-----------------------------------------------------------------------------
(* Properties *)

\* Main waits for the daemon, the daemon for a service, the service for main.
Ring ==
  \E s \in Services :
    /\ main = "scheduling" /\ commands = CommandQueueSize
    /\ daemon = s /\ actions[s] = ActionQueueSize
    /\ running[s] /\ reports[s] > 0 /\ events = EventQueueSize

\* The ring of unlimited waits is closed only by main's limited one: nothing but
\* the failing assert opens it.
OnlyTheAssertOpensTheRing == [][Ring /\ ~Ring' => aborted']_vars

\* Nobody waits for ever in a queue, unless the device restarts: every pull that is
\* put is performed, every callback, report, schedule and request comes to its end.
NobodyWaitsForever ==
  /\ \A s \in Services :
       /\ actions[s] > 0 ~> running[s] \/ aborted
       /\ running[s] ~> ~running[s] \/ aborted
       /\ daemon = s ~> daemon # s \/ aborted
  /\ main # "idle" ~> main = "idle" \/ aborted
  /\ http # "idle" ~> http = "idle" \/ aborted
=============================================================================
