---------------------------- MODULE TimeScheduler ----------------------------
(***************************************************************************)
(* util::TimeScheduler (main/fb_time_scheduler.cpp): actions to be invoked *)
(* after a delay wait in a priority queue; one one-shot timer of FreeRTOS  *)
(* is set for the first of them and wakes the scheduler's task.  The       *)
(* callers, the task and the timer daemon run concurrently; the queue is   *)
(* guarded by a mutex, the timer is set by commands to the daemon.         *)
(*                                                                         *)
(* Times are relative: `due' counts the milliseconds to fireAt down, and   *)
(* is negative when it has passed.  An action is not added again while it  *)
(* is in the queue.                                                        *)
(***************************************************************************)
EXTENDS Integers, Sequences, FiniteSets, FiniteSetsExt, SequencesExt

CONSTANTS Actions,      \* what is scheduled, each by a caller of its own
          Delay,        \* afterMs of each
          Repeated,     \* the repeated ones
          Irq,          \* the ones added by an interrupt
          TickMs,       \* milliseconds of a tick of the clock
          IrqTicks,     \* pdMS_TO_TICKS(10)
          QueueLength,  \* commands the daemon's queue holds
          SendTimeout,  \* pdMS_TO_TICKS(1000)
          MaxLate,      \* bound: milliseconds are counted up to so many after fireAt
          DaemonMayBlock  \* whether other timers' callbacks block the daemon

ASSUME TimeSchedulerAssumption ==
  /\ Delay \in [Actions -> Nat] /\ Repeated \subseteq Actions /\ Irq \subseteq Actions
  /\ {TickMs, IrqTicks, QueueLength, SendTimeout} \subseteq Nat \ {0}
  /\ MaxLate \in Nat /\ MaxLate >= TickMs /\ DaemonMayBlock \in BOOLEAN
  /\ Actions \cap {"free", "task"} = {}

VARIABLES
  queue,     \* _queue: the actions in it, the first to fire at the head
  due,       \* Entry.first of each, seen from now
  mutex,     \* who holds _mutex
  tosend,    \* commands its holder has still to send, and the period it has computed
  waited,    \* ticks it has waited for room
  commands,  \* the daemon's queue
  timer,     \* ticks to the expiry of _timerHndl
  blocked,   \* the daemon is inside another timer's callback
  notified,  \* the task's notification
  task,      \* what the task does, and with which action
  aborted    \* an assert of _startTimer() failed

vars == <<queue, due, mutex, tosend, waited, commands, timer, blocked, notified, task, aborted>>

Off == -1
NoAction == "none"
Idle == [n |-> 0, period |-> 0]

Init ==
  /\ queue = <<>> /\ due = [a \in Actions |-> 0]
  /\ mutex = "free" /\ tosend = Idle /\ waited = 0
  /\ commands = <<>> /\ timer = Off /\ blocked = FALSE
  /\ notified = FALSE /\ task = [pc |-> "wait", action |-> NoAction]
  /\ aborted = FALSE

Queued(a) == a \in ToSet(queue)

\* _queue.emplace(): among equal times in any order.
Emplace(a) ==
  /\ due' = [due EXCEPT ![a] = Delay[a]]
  /\ \E k \in 1..(Len(queue) + 1) :
       /\ \A j \in 1..(k - 1) : due[queue[j]] <= Delay[a]
       /\ \A j \in k..Len(queue) : Delay[a] <= due[queue[j]]
       /\ queue' = InsertAt(queue, k, a)

-----------------------------------------------------------------------------
(* Setting the timer *)

\* Mutant: rounded down to no tick at all, the timer stays off.
PeriodZero(ms) == IF ms <= 0 THEN Off ELSE ms \div TickMs

\* delta in ticks, one at least.
Period(ms) == Max({1, IF ms <= 0 THEN 0 ELSE ms \div TickMs})

Stop == [arm |-> FALSE, in |-> 0]
Arm(period) == [arm |-> TRUE, in |-> period]

\* The mutex is taken and _startTimer() computes the period; ms is when the top is due.
LockAndStart(p, ms) ==
  /\ mutex = "free" /\ mutex' = p
  /\ tosend' = [n |-> 3, period |-> Period(ms)]
  /\ waited' = 0

\* xTimerStop(), xTimerChangePeriod() and xTimerStart() in turn; then the mutex is given.
SendCommand ==
  /\ ~aborted /\ tosend.n > 0 /\ Len(commands) < QueueLength
  /\ commands' = Append(commands, IF tosend.n = 3 THEN Stop ELSE Arm(tosend.period))
  /\ waited' = 0
  /\ IF tosend.n > 1
     THEN tosend' = [tosend EXCEPT !.n = @ - 1] /\ UNCHANGED <<mutex, task>>
     ELSE /\ tosend' = Idle /\ mutex' = "free"
          /\ task' = IF mutex # "task" THEN task
                     ELSE IF task.pc = "again" THEN [pc |-> "check", action |-> NoAction]
                     ELSE [pc |-> "wait", action |-> NoAction]
  /\ UNCHANGED <<queue, due, timer, blocked, notified, aborted>>

\* No room for a second, which takes a daemon that is blocked: the assert after
\* the call fails.
SendFails ==
  /\ ~aborted /\ tosend.n > 0 /\ Len(commands) = QueueLength /\ waited = SendTimeout
  /\ aborted' = TRUE
  /\ UNCHANGED <<queue, due, mutex, tosend, waited, commands, timer, blocked, notified, task>>

-----------------------------------------------------------------------------
(* The callers *)

\* addActionDelayed()
AddActionDelayed(a) ==
  /\ ~aborted /\ a \notin Irq /\ ~Queued(a) /\ task.action # a
  /\ Emplace(a)
  /\ LockAndStart(a, due'[Head(queue')])
  /\ UNCHANGED <<commands, timer, blocked, notified, task, aborted>>

\* addActionDelayedIrq(): nothing happens when the mutex is held; the timer is
\* set for ten milliseconds, by commands that are dropped when there is no room.
AddActionDelayedIrq(a) ==
  /\ ~aborted /\ a \in Irq /\ ~Queued(a) /\ task.action # a /\ mutex = "free"
  /\ Emplace(a)
  /\ commands' = SubSeq(commands \o <<Arm(IrqTicks), Arm(IrqTicks)>>, 1,
                        Min({QueueLength, Len(commands) + 2}))
  /\ UNCHANGED <<mutex, tosend, waited, timer, blocked, notified, task, aborted>>

-----------------------------------------------------------------------------
(* The task *)

TaskAt(pc) == ~aborted /\ task.pc = pc
Goto(pc) == task' = [pc |-> pc, action |-> NoAction]

\* ulTaskNotifyTake()
TakeNotification ==
  /\ TaskAt("wait") /\ notified
  /\ notified' = FALSE /\ Goto("check")
  /\ UNCHANGED <<queue, due, mutex, tosend, waited, commands, timer, blocked, aborted>>

\* Mutant: an action is ready a tick before its time.
IsReadyToFireEarly == queue # <<>> /\ due[Head(queue)] <= TickMs

\* _isReadyToFire()
IsReadyToFire == queue # <<>> /\ due[Head(queue)] < 0

CheckReady ==
  /\ TaskAt("check") /\ mutex = "free"
  /\ Goto(IF IsReadyToFire THEN "perform" ELSE "start")
  /\ UNCHANGED <<queue, due, mutex, tosend, waited, commands, timer, blocked, notified, aborted>>

\* The mutex was not free for a second: not ready.
CheckTimesOut ==
  /\ TaskAt("check") /\ mutex # "free" /\ queue # <<>>
  /\ Goto("start")
  /\ UNCHANGED <<queue, due, mutex, tosend, waited, commands, timer, blocked, notified, aborted>>

\* _prefromAction(): the top is taken under the mutex ...
PerformAction ==
  /\ TaskAt("perform") /\ mutex = "free"
  /\ queue' = Tail(queue) /\ task' = [pc |-> "invoke", action |-> Head(queue)]
  /\ UNCHANGED <<due, mutex, tosend, waited, commands, timer, blocked, notified, aborted>>

\* ... and invoked without it; a repeated action is added again.
Invoke ==
  /\ TaskAt("invoke")
  /\ task' = IF task.action \in Repeated THEN [task EXCEPT !.pc = "add"]
             ELSE [pc |-> "check", action |-> NoAction]
  /\ due' = [due EXCEPT ![task.action] = 0]
  /\ UNCHANGED <<queue, mutex, tosend, waited, commands, timer, blocked, notified, aborted>>

AddRepeated ==
  /\ TaskAt("add")
  /\ Emplace(task.action)
  /\ LockAndStart("task", due'[Head(queue')])
  /\ Goto("again")
  /\ UNCHANGED <<commands, timer, blocked, notified, aborted>>

\* _startTimer(), nothing to do for an empty queue.
StartTimer ==
  /\ TaskAt("start")
  /\ IF queue = <<>> THEN Goto("wait") /\ UNCHANGED <<mutex, tosend, waited>>
     ELSE LockAndStart("task", due[Head(queue)]) /\ Goto("send")
  /\ UNCHANGED <<queue, due, commands, timer, blocked, notified, aborted>>

-----------------------------------------------------------------------------
(* The timer daemon *)

ProcessCommand ==
  /\ ~blocked /\ commands # <<>>
  /\ timer' = IF Head(commands).arm THEN Head(commands).in ELSE Off
  /\ commands' = Tail(commands)
  /\ UNCHANGED <<queue, due, mutex, tosend, waited, blocked, notified, task, aborted>>

\* The timer expires: _timer() notifies the task.
Expire ==
  /\ ~blocked /\ timer = 0
  /\ timer' = Off /\ notified' = TRUE
  /\ UNCHANGED <<queue, due, mutex, tosend, waited, commands, blocked, task, aborted>>

\* ServiceIface::_timer() sends to a service's queue, for as long as that is full.
BlockDaemon ==
  /\ DaemonMayBlock /\ ~blocked /\ blocked' = TRUE
  /\ UNCHANGED <<queue, due, mutex, tosend, waited, commands, timer, notified, task, aborted>>

UnblockDaemon ==
  /\ blocked /\ blocked' = FALSE
  /\ UNCHANGED <<queue, due, mutex, tosend, waited, commands, timer, notified, task, aborted>>

Down(ticks) == IF ticks > 0 THEN ticks - 1 ELSE ticks

Tick ==
  /\ ~aborted
  /\ blocked /\ Len(commands) = QueueLength => waited < SendTimeout
  /\ due' = [a \in Actions |-> IF Queued(a) THEN Max({-MaxLate, due[a] - TickMs}) ELSE due[a]]
  /\ timer' = Down(timer)
  /\ commands' = [k \in DOMAIN commands |-> [commands[k] EXCEPT !.in = Down(@)]]
  /\ waited' = IF blocked /\ tosend.n > 0 /\ Len(commands) = QueueLength THEN waited + 1 ELSE waited
  /\ UNCHANGED <<queue, mutex, tosend, blocked, notified, task, aborted>>

TaskStep ==
  \/ TakeNotification \/ CheckReady \/ CheckTimesOut \/ PerformAction \/ Invoke
  \/ AddRepeated \/ StartTimer

Next ==
  \/ \E a \in Actions : AddActionDelayed(a) \/ AddActionDelayedIrq(a)
  \/ SendCommand \/ SendFails
  \/ TaskStep
  \/ ProcessCommand \/ Expire \/ BlockDaemon \/ UnblockDaemon
  \/ Tick

\* The task has the highest priority of those that take the mutex and FreeRTOS
\* gives a mutex to the waiting task of the highest priority, hence SF; the daemon
\* comes back to its own work after every callback.
Fairness ==
  /\ SF_vars(TaskStep) /\ WF_vars(SendCommand)
  /\ SF_vars(ProcessCommand) /\ SF_vars(Expire) /\ WF_vars(UnblockDaemon) /\ WF_vars(Tick)

Spec == Init /\ [][Next]_vars
FairSpec == Spec /\ Fairness

-----------------------------------------------------------------------------
(* Properties *)

NotTooEarly == task.pc = "invoke" => due[task.action] < 0
WakeUpIsSet ==
  task.pc = "wait" /\ queue # <<>> => timer # Off \/ commands # <<>> \/ tosend.n > 0 \/ notified

\* The check whether the top is ready and its removal are two critical sections
\* with callers in between, and still no action is invoked before its time; and
\* while the task sleeps with something in the queue, someone is about to wake
\* it: the timer is running, commands to set it are under way, or it has expired.
ActionsFireInTime == NotTooEarly /\ WakeUpIsSet

\* Every action that was added is taken to be invoked, none is forgotten, unless
\* an assert stops the device.
EveryActionIsInvoked == \A a \in Actions : Queued(a) ~> (task.action = a \/ aborted)
=============================================================================
