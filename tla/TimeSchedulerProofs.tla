------------------------- MODULE TimeSchedulerProofs -------------------------
(***************************************************************************)
(* Any actions, delays, periods of the tick and lengths of the daemon's    *)
(* queue. SchedulerInv adds to ActionsFireInTime why the check and the      *)
(* removal of the top need no common critical section: an action that is   *)
(* ready stays on top, since nothing that is added is due before it. And a *)
(* Stop is never the last command but while its sender goes on sending.    *)
(***************************************************************************)
EXTENDS TimeScheduler, SequenceTheorems, TLAPS

Commands == [arm : BOOLEAN, in : Nat]
Places == {"wait", "check", "perform", "invoke", "add", "again", "start", "send"}

TypesAgree ==
  /\ queue \in Seq(Actions) /\ due \in [Actions -> Int]
  /\ tosend \in [n : 0 .. 3, period : Nat]
  /\ mutex = "free" <=> tosend.n = 0
  /\ commands \in Seq(Commands) /\ Len(commands) <= QueueLength
  /\ timer \in Nat \cup {Off} /\ notified \in BOOLEAN
  /\ task.pc \in Places
  /\ task.pc \in {"invoke", "add"} => task.action \in Actions

\* The timer will run once the daemon has come to the end of its commands.
EndsArmed == commands # <<>> /\ tosend.n = 0 => commands[Len(commands)].arm

SchedulerInv ==
  /\ TypesAgree /\ EndsArmed
  /\ task.pc = "perform" => queue # <<>> /\ due[Head(queue)] < 0
  /\ ActionsFireInTime

-----------------------------------------------------------------------------
\* The larger of two numbers.
LEMMA MaxOfTwo ==
    ASSUME NEW a \in Int, NEW b \in Int
    PROVE  Max({a, b}) \in {a, b} /\ Max({a, b}) >= a /\ Max({a, b}) >= b
<1>1. \E x \in {a, b} : \A y \in {a, b} : x >= y
  <2>1. CASE a >= b
    BY <2>1
  <2>2. CASE b >= a
    BY <2>2
  <2> QED
    BY <2>1, <2>2
<1> QED
  BY <1>1 DEF Max

LEMMA MinOfTwo ==
    ASSUME NEW a \in Int, NEW b \in Int
    PROVE  Min({a, b}) \in {a, b} /\ Min({a, b}) <= a /\ Min({a, b}) <= b
<1>1. \E x \in {a, b} : \A y \in {a, b} : x <= y
  <2>1. CASE a <= b
    BY <2>1
  <2>2. CASE b <= a
    BY <2>2
  <2> QED
    BY <2>1, <2>2
<1> QED
  BY <1>1 DEF Min

LEMMA PeriodIsATick == ASSUME NEW ms \in Int PROVE Period(ms) \in Nat \ {0}
<1>1. ms \div TickMs \in Int
  BY TimeSchedulerAssumption DEF TimeSchedulerAssumption
<1>2. (IF ms <= 0 THEN 0 ELSE ms \div TickMs) \in Int
  BY <1>1
<1> DEFINE ticks == IF ms <= 0 THEN 0 ELSE ms \div TickMs
<1>3. ticks \in Int
  BY <1>2
<1> HIDE DEF ticks
<1>4. Max({1, ticks}) \in {1, ticks} /\ Max({1, ticks}) >= 1
  <2>1. 1 \in Int
    OBVIOUS
  <2> QED
    BY <1>3, <2>1, MaxOfTwo, Zenon
<1>5. Max({1, ticks}) \in Nat \ {0}
  BY <1>3, <1>4
<1> QED
  BY <1>5 DEF Period, ticks

\* What an insertion leaves at the head.
LEMMA InsertKeepsHead ==
    ASSUME NEW S, NEW q \in Seq(S), NEW k \in 1 .. Len(q) + 1, NEW e \in S
    PROVE  /\ InsertAt(q, k, e) \in Seq(S) /\ InsertAt(q, k, e) # <<>>
           /\ k > 1 => Head(InsertAt(q, k, e)) = Head(q)
<1> DEFINE before == SubSeq(q, 1, k - 1)
           after == SubSeq(q, k, Len(q))
<1>1. Len(q) \in Nat /\ \A i \in 1 .. Len(q) : q[i] \in S
  BY LenProperties, ElementOfSeq
<1>2. /\ before \in Seq(S) /\ Len(before) = k - 1
      /\ \A i \in 1 .. k - 1 : before[i] = q[i]
  <2>1. \A i \in 1 .. k - 1 : q[i] \in S
    BY <1>1
  <2>2. /\ before \in Seq(S) /\ Len(before) = IF 1 <= k - 1 THEN k - 1 - 1 + 1 ELSE 0
        /\ \A i \in 1 .. k - 1 - 1 + 1 : before[i] = q[1 + i - 1]
    BY <2>1, SubSeqProperties
  <2> QED
    BY <2>2
<1>3. after \in Seq(S)
  <2>1. \A i \in k .. Len(q) : q[i] \in S
    BY <1>1
  <2> QED
    BY <1>1, <2>1, SubSeqProperties
<1>4. <<e>> \in Seq(S) /\ Len(<<e>>) = 1
  OBVIOUS
<1>5. InsertAt(q, k, e) = (before \o <<e>>) \o after
  BY DEF InsertAt
<1> HIDE DEF before, after
<1>6. /\ before \o <<e>> \in Seq(S) /\ Len(before \o <<e>>) = k
      /\ k > 1 => (before \o <<e>>)[1] = before[1]
  BY <1>2, <1>4, ConcatProperties
<1>7. /\ (before \o <<e>>) \o after \in Seq(S)
      /\ Len((before \o <<e>>) \o after) = k + Len(after)
      /\ ((before \o <<e>>) \o after)[1] = (before \o <<e>>)[1]
  <2> DEFINE front == before \o <<e>>
  <2>1. front \in Seq(S) /\ Len(front) = k
    BY <1>6
  <2>2. Len(after) \in Nat
    BY <1>3, LenProperties
  <2> HIDE DEF front
  <2>3. /\ front \o after \in Seq(S) /\ Len(front \o after) = Len(front) + Len(after)
        /\ \A i \in 1 .. Len(front) + Len(after) :
             (front \o after)[i] = IF i <= Len(front) THEN front[i] ELSE after[i - Len(front)]
    BY <1>3, <2>1, ConcatProperties
  <2>4. /\ front \o after \in Seq(S) /\ Len(front \o after) = k + Len(after)
        /\ (front \o after)[1] = front[1]
    BY <1>1, <2>1, <2>2, <2>3
  <2> QED
    BY <2>4 DEF front
<1>8. InsertAt(q, k, e) # <<>>
  <2>1. Len(after) \in Nat
    BY <1>3, LenProperties
  <2>2. Len(InsertAt(q, k, e)) # 0
    BY <1>5, <1>7, <2>1
  <2> QED
    BY <2>2, EmptySeq
<1>9. ASSUME k > 1 PROVE Head(InsertAt(q, k, e)) = Head(q)
  <2>1. before[1] = q[1] /\ q # <<>>
    BY <1>1, <1>2, <1>9, EmptySeq
  <2> QED
    BY <1>5, <1>6, <1>7, <1>8, <1>9, <2>1
<1> QED
  BY <1>5, <1>7, <1>8, <1>9

\* An action is added; one that is ready stays on top of it.
LEMMA EmplaceKeepsTop ==
    ASSUME TypesAgree, NEW a \in Actions, Emplace(a)
    PROVE  /\ queue' \in Seq(Actions) /\ due' \in [Actions -> Int] /\ queue' # <<>>
           /\ due' = [due EXCEPT ![a] = Delay[a]]
           /\ due'[Head(queue')] \in Int
           /\ queue # <<>> /\ due[Head(queue)] < 0 => Head(queue') = Head(queue)
<1>1. Delay[a] \in Nat
  BY TimeSchedulerAssumption DEF TimeSchedulerAssumption
<1>2. PICK k \in 1 .. Len(queue) + 1 :
        /\ \A j \in 1 .. (k - 1) : due[queue[j]] <= Delay[a]
        /\ \A j \in k .. Len(queue) : Delay[a] <= due[queue[j]]
        /\ queue' = InsertAt(queue, k, a)
  BY DEF Emplace
<1>3. due' = [due EXCEPT ![a] = Delay[a]] /\ due' \in [Actions -> Int]
  BY <1>1 DEF Emplace, TypesAgree
<1>4. /\ queue' \in Seq(Actions) /\ queue' # <<>>
      /\ k > 1 => Head(queue') = Head(queue)
  <2>1. queue \in Seq(Actions)
    BY DEF TypesAgree
  <2> QED
    BY <1>2, <2>1, InsertKeepsHead
<1>5. ASSUME queue # <<>>, due[Head(queue)] < 0 PROVE k > 1
  <2>1. Len(queue) \in Nat \ {0} /\ queue[1] = Head(queue) /\ Head(queue) \in Actions
    BY <1>5, EmptySeq, HeadTailProperties DEF TypesAgree
  <2>2. k = 1 => Delay[a] <= due[queue[1]]
    BY <1>2, <2>1
  <2>3. due[queue[1]] \in Int
    BY <2>1 DEF TypesAgree
  <2> QED
    BY <1>1, <1>5, <2>1, <2>2, <2>3
<1>6. Head(queue') \in Actions
  BY <1>4, HeadTailProperties
<1> QED
  BY <1>3, <1>4, <1>5, <1>6

-----------------------------------------------------------------------------
\* The queue has grown and the timer is being set.
LEMMA LockAndStartKeeps ==
    ASSUME SchedulerInv, NEW a \in Actions, NEW p, p # "free", Emplace(a),
           LockAndStart(p, due'[Head(queue')]),
           UNCHANGED <<commands, timer, blocked, notified, aborted>>,
           task'.pc \in Places,
           task'.pc \in {"invoke", "add", "perform"} =>
             task' = task /\ task.action # a /\ ~Queued(a)
    PROVE  SchedulerInv'
<1>1. /\ queue' \in Seq(Actions) /\ due' \in [Actions -> Int] /\ queue' # <<>>
      /\ due' = [due EXCEPT ![a] = Delay[a]] /\ due'[Head(queue')] \in Int
      /\ queue # <<>> /\ due[Head(queue)] < 0 => Head(queue') = Head(queue)
  BY EmplaceKeepsTop DEF SchedulerInv
<1>2. Period(due'[Head(queue')]) \in Nat
  BY <1>1, PeriodIsATick
<1>3. tosend' = [n |-> 3, period |-> Period(due'[Head(queue')])] /\ mutex' = p
  BY DEF LockAndStart
<1>4. tosend' \in [n : 0 .. 3, period : Nat] /\ tosend'.n = 3
  BY <1>2, <1>3
<1>5. TypesAgree'
  <2>1. task'.pc \in {"invoke", "add"} => task'.action \in Actions
    BY DEF SchedulerInv, TypesAgree
  <2>2. mutex' = "free" <=> tosend'.n = 0
    BY <1>3, <1>4
  <2> QED
    BY <1>1, <1>4, <2>1, <2>2 DEF SchedulerInv, TypesAgree
<1>6. EndsArmed'
  BY <1>4 DEF EndsArmed
<1>7. ASSUME task'.pc = "perform" PROVE queue' # <<>> /\ due'[Head(queue')] < 0
  <2>1. queue # <<>> /\ due[Head(queue)] < 0
    BY <1>7 DEF SchedulerInv
  <2>2. Head(queue') = Head(queue)
    BY <1>1, <2>1
  <2>3. Head(queue) \in Actions
    BY <2>1, HeadTailProperties DEF SchedulerInv, TypesAgree
  <2>4. Head(queue) # a
    <3>1. 1 \in DOMAIN queue /\ queue[1] = Head(queue)
      BY <2>1, EmptySeq, LenProperties DEF SchedulerInv, TypesAgree
    <3> QED
      BY <1>7, <3>1 DEF Queued, ToSet
  <2> QED
    BY <1>1, <2>1, <2>2, <2>3, <2>4 DEF SchedulerInv, TypesAgree
<1>8. NotTooEarly'
  <2> SUFFICES ASSUME task'.pc = "invoke" PROVE due'[task'.action] < 0
    BY DEF NotTooEarly
  <2>1. task' = task /\ task.action # a /\ task.action \in Actions
    BY DEF SchedulerInv, TypesAgree
  <2>2. due[task.action] < 0
    BY <2>1 DEF SchedulerInv, ActionsFireInTime, NotTooEarly
  <2> QED
    BY <1>1, <2>1, <2>2 DEF SchedulerInv, TypesAgree
<1>9. WakeUpIsSet'
  BY <1>4 DEF WakeUpIsSet
<1> QED
  BY <1>5, <1>6, <1>7, <1>8, <1>9 DEF SchedulerInv, ActionsFireInTime

\* A delayed action is put in order and the timer set for the one on top.
LEMMA AddActionDelayedKeeps ==
    ASSUME SchedulerInv, NEW a \in Actions, AddActionDelayed(a) PROVE SchedulerInv'
<1>1. a # "free"
  BY TimeSchedulerAssumption DEF TimeSchedulerAssumption
<1>2. task' = task /\ ~Queued(a) /\ task.action # a /\ task.pc \in Places
  BY DEF AddActionDelayed, SchedulerInv, TypesAgree
<1> QED
  BY <1>1, <1>2, LockAndStartKeeps DEF AddActionDelayed

\* A repeated action is put in order again.
LEMMA AddRepeatedKeeps == ASSUME SchedulerInv, AddRepeated PROVE SchedulerInv'
<1>1. task.action \in Actions
  BY DEF AddRepeated, TaskAt, SchedulerInv, TypesAgree
<1>2. task' = [pc |-> "again", action |-> NoAction]
  BY DEF AddRepeated, Goto
<1>3. task'.pc \in Places /\ task'.pc \notin {"invoke", "add", "perform"}
  BY <1>2 DEF Places
<1> QED
  BY <1>1, <1>3, LockAndStartKeeps DEF AddRepeated

Sent(s, t, c) ==
  /\ t \in Seq(Commands) /\ t # <<>> /\ Len(t) <= QueueLength
  /\ t[Len(t)] = c \/ (s # <<>> /\ t[Len(t)] = s[Len(s)])

\* Commands that are sent without waiting, as many of two as there is room for.
LEMMA SentFromAnInterrupt ==
    ASSUME NEW s \in Seq(Commands), Len(s) <= QueueLength, NEW c \in Commands
    PROVE  Sent(s, SubSeq(s \o <<c, c>>, 1, Min({QueueLength, Len(s) + 2})), c)
<1> DEFINE t == SubSeq(s \o <<c, c>>, 1, Min({QueueLength, Len(s) + 2}))
           n == Min({QueueLength, Len(s) + 2})
           both == s \o <<c, c>>
<1>1. Len(s) \in Nat /\ QueueLength \in Nat \ {0}
  BY LenProperties, TimeSchedulerAssumption DEF TimeSchedulerAssumption
<1>2. n \in {QueueLength, Len(s) + 2} /\ n <= QueueLength /\ n <= Len(s) + 2
  <2>1. QueueLength \in Int /\ Len(s) + 2 \in Int
    BY <1>1
  <2> QED
    BY <2>1, MinOfTwo, Zenon
<1>3. <<c, c>> \in Seq(Commands) /\ Len(<<c, c>>) = 2 /\ <<c, c>>[1] = c /\ <<c, c>>[2] = c
  OBVIOUS
<1>4. /\ both \in Seq(Commands) /\ Len(both) = Len(s) + 2
      /\ \A i \in 1 .. Len(s) + 2 : both[i] = IF i <= Len(s) THEN s[i] ELSE <<c, c>>[i - Len(s)]
  BY <1>3, ConcatProperties
<1>5. t = SubSeq(both, 1, n)
  OBVIOUS
<1> HIDE DEF n, both, t
<1>6. n \in 1 .. Len(both) /\ n \in Nat /\ n >= 1
  BY <1>1, <1>2, <1>4
<1>7. \A i \in 1 .. n : both[i] \in Commands
  BY <1>1, <1>4, <1>6, ElementOfSeq
<1>8. /\ t \in Seq(Commands) /\ Len(t) = n
      /\ \A i \in 1 .. n : t[i] = both[i]
  <2>1. /\ SubSeq(both, 1, n) \in Seq(Commands)
        /\ Len(SubSeq(both, 1, n)) = IF 1 <= n THEN n - 1 + 1 ELSE 0
        /\ \A i \in 1 .. n - 1 + 1 : SubSeq(both, 1, n)[i] = both[1 + i - 1]
    BY <1>1, <1>4, <1>6, <1>7, SubSeqProperties
  <2>2. n \in Nat /\ 1 <= n /\ n - 1 + 1 = n
    BY <1>1, <1>4, <1>6
  <2>3. \A i \in 1 .. n : 1 + i - 1 = i
    OBVIOUS
  <2>4. \A i \in 1 .. n : SubSeq(both, 1, n)[i] = both[i]
    BY <2>1, <2>2, <2>3
  <2> QED
    BY <1>5, <2>1, <2>2, <2>4
<1>9. t # <<>>
  <2>1. Len(t) # 0
    BY <1>6, <1>8
  <2>2. Len(<<>>) = 0
    BY EmptySeq
  <2> QED
    BY <2>1, <2>2
<1>10. t[n] = c \/ (s # <<>> /\ t[n] = s[Len(s)])
  <2>1. CASE n <= Len(s)
    <3>1. n = Len(s)
      BY <1>1, <1>2, <2>1
    <3>2. s # <<>>
      BY <1>6, <3>1, EmptySeq
    <3>3. t[n] = both[n] /\ both[n] = s[n]
      BY <1>1, <1>4, <1>6, <1>8, <2>1
    <3> QED
      BY <3>1, <3>2, <3>3
  <2>2. CASE n > Len(s)
    <3>1. n - Len(s) \in {1, 2}
      BY <1>1, <1>2, <1>6, <1>4, <2>2
    <3>2. t[n] = both[n]
      BY <1>6, <1>8
    <3>3. both[n] = c
      BY <1>1, <1>3, <1>4, <1>6, <2>2, <3>1
    <3> QED
      BY <3>2, <3>3
  <2>3. n <= Len(s) \/ n > Len(s)
    BY <1>1, <1>6
  <2> QED
    BY <2>1, <2>2, <2>3, Zenon
<1>11. Sent(s, t, c)
  BY <1>1, <1>2, <1>8, <1>9, <1>10 DEF Sent
<1> QED
  BY <1>11 DEF t

\* An interrupt adds an action and sends its commands without waiting.
LEMMA AddActionDelayedIrqKeeps ==
    ASSUME SchedulerInv, NEW a \in Actions, AddActionDelayedIrq(a) PROVE SchedulerInv'
<1>1. /\ queue' \in Seq(Actions) /\ due' \in [Actions -> Int] /\ queue' # <<>>
      /\ due' = [due EXCEPT ![a] = Delay[a]]
      /\ queue # <<>> /\ due[Head(queue)] < 0 => Head(queue') = Head(queue)
  BY EmplaceKeepsTop DEF SchedulerInv, AddActionDelayedIrq
<1>2. UNCHANGED <<mutex, tosend, waited, timer, blocked, notified, task, aborted>>
  BY DEF AddActionDelayedIrq
<1>3. Arm(IrqTicks) \in Commands /\ Arm(IrqTicks).arm
  BY TimeSchedulerAssumption DEF TimeSchedulerAssumption, Arm, Commands
<1>4. /\ commands' \in Seq(Commands) /\ commands' # <<>>
      /\ Len(commands') <= QueueLength
      /\ \/ commands'[Len(commands')] = Arm(IrqTicks)
         \/ commands # <<>> /\ commands'[Len(commands')] = commands[Len(commands)]
  <2>1. commands \in Seq(Commands) /\ Len(commands) <= QueueLength
    BY DEF SchedulerInv, TypesAgree
  <2>2. commands' = SubSeq(commands \o <<Arm(IrqTicks), Arm(IrqTicks)>>, 1,
                           Min({QueueLength, Len(commands) + 2}))
    BY DEF AddActionDelayedIrq
  <2> QED
    BY <1>3, <2>1, <2>2, SentFromAnInterrupt DEF Sent
<1>5. TypesAgree'
  BY <1>1, <1>2, <1>4 DEF SchedulerInv, TypesAgree
<1>6. EndsArmed'
  BY <1>2, <1>3, <1>4 DEF SchedulerInv, EndsArmed
<1>7. ASSUME task'.pc = "perform" PROVE queue' # <<>> /\ due'[Head(queue')] < 0
  <2>1. queue # <<>> /\ due[Head(queue)] < 0
    BY <1>2, <1>7 DEF SchedulerInv
  <2>2. Head(queue') = Head(queue)
    BY <1>1, <2>1
  <2>3. Head(queue) \in Actions
    BY <2>1, HeadTailProperties DEF SchedulerInv, TypesAgree
  <2>4. Head(queue) # a
    <3>1. 1 \in DOMAIN queue /\ queue[1] = Head(queue)
      BY <2>1, EmptySeq, LenProperties DEF SchedulerInv, TypesAgree
    <3> QED
      BY <3>1 DEF AddActionDelayedIrq, Queued, ToSet
  <2> QED
    BY <1>1, <2>1, <2>2, <2>3, <2>4 DEF SchedulerInv, TypesAgree
<1>8. NotTooEarly'
  <2> SUFFICES ASSUME task.pc = "invoke" PROVE due'[task.action] < 0
    BY <1>2 DEF NotTooEarly
  <2>1. task.action # a /\ task.action \in Actions
    BY DEF SchedulerInv, TypesAgree, AddActionDelayedIrq
  <2>2. due[task.action] < 0
    BY <2>1 DEF SchedulerInv, ActionsFireInTime, NotTooEarly
  <2> QED
    BY <1>1, <2>1, <2>2 DEF SchedulerInv, TypesAgree
<1>9. WakeUpIsSet'
  BY <1>4 DEF WakeUpIsSet
<1> QED
  BY <1>5, <1>6, <1>7, <1>8, <1>9 DEF SchedulerInv, ActionsFireInTime

-----------------------------------------------------------------------------
(* Commands to the daemon *)

\* A Stop is followed by more commands of the same sender.
LEMMA SendCommandKeeps == ASSUME SchedulerInv, SendCommand PROVE SchedulerInv'
<1> DEFINE c == IF tosend.n = 3 THEN Stop ELSE Arm(tosend.period)
<1>1. /\ commands \in Seq(Commands) /\ tosend \in [n : 0 .. 3, period : Nat]
      /\ mutex = "free" <=> tosend.n = 0
      /\ task.pc \in Places
      /\ task.pc \in {"invoke", "add"} => task.action \in Actions
  BY DEF SchedulerInv, TypesAgree
<1>2. c \in Commands /\ (tosend.n # 3 => c.arm)
  BY <1>1 DEF Stop, Arm, Commands
<1>3. commands' = Append(commands, c) /\ Len(commands) < QueueLength /\ tosend.n > 0
  BY DEF SendCommand
<1>4. UNCHANGED <<queue, due, timer, blocked, notified, aborted>>
  BY DEF SendCommand
<1> HIDE DEF c
<1>5. Len(commands) \in Nat /\ QueueLength \in Nat
  BY <1>1, LenProperties, TimeSchedulerAssumption DEF TimeSchedulerAssumption
<1>6. /\ commands' \in Seq(Commands) /\ Len(commands') = Len(commands) + 1
      /\ commands'[Len(commands) + 1] = c
  BY <1>1, <1>2, <1>3, AppendProperties
<1>7. commands' # <<>>
  <2>1. Len(<<>>) = 0
    BY EmptySeq
  <2> QED
    BY <1>5, <1>6, <2>1
<1>8. \/ /\ tosend.n > 1 /\ tosend' = [tosend EXCEPT !.n = tosend.n - 1]
         /\ UNCHANGED <<mutex, task>>
      \/ /\ tosend.n = 1 /\ tosend' = Idle /\ mutex' = "free"
         /\ task' = task \/ task'.pc \in {"check", "wait"}
  <2>1. CASE tosend.n > 1
    BY <2>1 DEF SendCommand
  <2>2. CASE ~(tosend.n > 1)
    <3>1. tosend.n = 1
      BY <1>1, <1>3, <2>2
    <3> QED
      BY <2>2, <3>1 DEF SendCommand
  <2> QED
    BY <2>1, <2>2
<1>9. /\ tosend' \in [n : 0 .. 3, period : Nat] /\ (mutex' = "free" <=> tosend'.n = 0)
      /\ tosend'.n = 0 => tosend.n # 3
  BY <1>1, <1>8 DEF Idle
<1>10. /\ task'.pc \in Places
       /\ task'.pc \in {"invoke", "add", "perform"} => task' = task
  BY <1>1, <1>8 DEF Places
<1>11. TypesAgree'
  <2>1. task'.pc \in {"invoke", "add"} => task'.action \in Actions
    BY <1>1, <1>10
  <2>2. Len(commands') <= QueueLength
    BY <1>3, <1>5, <1>6
  <2> QED
    BY <1>4, <1>6, <1>9, <1>10, <2>1, <2>2 DEF SchedulerInv, TypesAgree
<1>12. EndsArmed'
  BY <1>2, <1>6, <1>9 DEF EndsArmed
<1>13. task'.pc = "perform" => queue' # <<>> /\ due'[Head(queue')] < 0
  BY <1>4, <1>10 DEF SchedulerInv
<1>14. ActionsFireInTime'
  BY <1>4, <1>7, <1>10 DEF SchedulerInv, ActionsFireInTime, NotTooEarly, WakeUpIsSet
<1> QED
  BY <1>11, <1>12, <1>13, <1>14 DEF SchedulerInv

\* The daemon takes a Stop only with commands behind it, or still to come.
LEMMA ProcessCommandKeeps == ASSUME SchedulerInv, ProcessCommand PROVE SchedulerInv'
<1>1. commands \in Seq(Commands) /\ commands # <<>> /\ Len(commands) <= QueueLength
  BY DEF ProcessCommand, SchedulerInv, TypesAgree
<1>2. /\ Len(commands) \in Nat \ {0} /\ Len(<<>>) = 0
      /\ \A k \in 1 .. Len(commands) : commands[k] \in Commands
  BY <1>1, EmptySeq, ElementOfSeq
<1>3. UNCHANGED <<queue, due, mutex, tosend, waited, blocked, notified, task, aborted>>
  BY DEF ProcessCommand
<1>4. /\ commands' = Tail(commands) /\ commands' \in Seq(Commands)
      /\ Len(commands') = Len(commands) - 1
      /\ \A k \in 1 .. Len(commands') : commands'[k] = commands[k + 1]
      /\ Head(commands) = commands[1] /\ Head(commands) \in Commands
  BY <1>1, <1>2, HeadTailProperties DEF ProcessCommand
<1>5. timer' = IF Head(commands).arm THEN Head(commands).in ELSE Off
  BY DEF ProcessCommand
<1>6. timer' \in Nat \cup {Off}
  BY <1>4, <1>5 DEF Commands
<1>7. TypesAgree'
  <2>1. Len(commands') <= QueueLength
    BY <1>1, <1>2, <1>4, TimeSchedulerAssumption DEF TimeSchedulerAssumption
  <2> QED
    BY <1>3, <1>4, <1>6, <2>1 DEF SchedulerInv, TypesAgree
<1>8. EndsArmed'
  <2> SUFFICES ASSUME commands' # <<>>, tosend.n = 0 PROVE commands'[Len(commands')].arm
    BY <1>3 DEF EndsArmed
  <2>1. Len(commands') \in Nat \ {0}
    BY <1>4, EmptySeq
  <2>2. commands'[Len(commands')] = commands[Len(commands)]
    BY <1>2, <1>4, <2>1
  <2> QED
    BY <1>1, <2>2 DEF SchedulerInv, EndsArmed
<1>9. task'.pc = "perform" => queue' # <<>> /\ due'[Head(queue')] < 0
  BY <1>3 DEF SchedulerInv
<1>10. ASSUME commands' = <<>>, ~(tosend.n > 0) PROVE timer' # Off
  <2>1. tosend.n = 0
    <3>1. tosend \in [n : 0 .. 3, period : Nat]
      BY DEF SchedulerInv, TypesAgree
    <3> QED
      BY <1>10, <3>1
  <2>9. Len(commands) = 1
    <3>1. Len(commands') = 0
      BY <1>2, <1>10, Zenon
    <3> QED
      BY <1>2, <1>4, <3>1
  <2>2. Head(commands).arm
    BY <1>1, <1>4, <2>9, <2>1 DEF SchedulerInv, EndsArmed
  <2>3. Head(commands).in \in Nat
    BY <1>4 DEF Commands
  <2> QED
    BY <1>5, <2>2, <2>3 DEF Off
<1>11. ActionsFireInTime'
  BY <1>3, <1>10 DEF SchedulerInv, ActionsFireInTime, NotTooEarly, WakeUpIsSet
<1> QED
  BY <1>7, <1>8, <1>9, <1>11 DEF SchedulerInv

\* The daemon waits for others or lets the timer expire, which wakes the task.
LEMMA DaemonKeeps ==
    ASSUME SchedulerInv, SendFails \/ Expire \/ BlockDaemon \/ UnblockDaemon
    PROVE  SchedulerInv'
<1>1. /\ UNCHANGED <<queue, due, mutex, tosend, commands, task>>
      /\ \/ UNCHANGED <<timer, notified>>
         \/ timer' = Off /\ notified' = TRUE
  BY DEF SendFails, Expire, BlockDaemon, UnblockDaemon
<1>2. TypesAgree'
  BY <1>1 DEF SchedulerInv, TypesAgree
<1>3. EndsArmed' /\ NotTooEarly'
  BY <1>1 DEF SchedulerInv, EndsArmed, ActionsFireInTime, NotTooEarly
<1>4. WakeUpIsSet'
  BY <1>1, Zenon DEF SchedulerInv, ActionsFireInTime, WakeUpIsSet
<1> QED
  BY <1>1, <1>2, <1>3, <1>4 DEF SchedulerInv, ActionsFireInTime

-----------------------------------------------------------------------------
(* The task, time *)

\* The steps of the task that neither add nor remove.
LEMMA TaskKeeps ==
    ASSUME SchedulerInv, TakeNotification \/ CheckReady \/ CheckTimesOut \/ StartTimer
    PROVE  SchedulerInv'
<1>1. UNCHANGED <<queue, due, commands, timer>>
  BY DEF TakeNotification, CheckReady, CheckTimesOut, StartTimer
<1>2. /\ task'.pc \in {"check", "perform", "start", "wait", "send"}
      /\ task'.pc = "perform" => IsReadyToFire
      /\ task'.pc = "wait" => queue = <<>>
      /\ notified' = notified \/ notified' = FALSE
  BY DEF TakeNotification, CheckReady, CheckTimesOut, StartTimer, Goto
<1>3. /\ tosend' \in [n : 0 .. 3, period : Nat] /\ (mutex' = "free" <=> tosend'.n = 0)
      /\ tosend'.n = 0 => tosend.n = 0
  <2>1. CASE UNCHANGED <<mutex, tosend>>
    BY <2>1 DEF SchedulerInv, TypesAgree
  <2>2. CASE queue # <<>> /\ LockAndStart("task", due[Head(queue)])
    <3>1. due[Head(queue)] \in Int
      BY <2>2, HeadTailProperties DEF SchedulerInv, TypesAgree
    <3>2. Period(due[Head(queue)]) \in Nat
      BY <3>1, PeriodIsATick
    <3>3. tosend' = [n |-> 3, period |-> Period(due[Head(queue)])] /\ mutex' = "task"
      BY <2>2 DEF LockAndStart
    <3> QED
      BY <3>2, <3>3
  <2> QED
    BY <2>1, <2>2 DEF TakeNotification, CheckReady, CheckTimesOut, StartTimer
<1>4. TypesAgree'
  BY <1>1, <1>2, <1>3 DEF SchedulerInv, TypesAgree, Places
<1>5. EndsArmed'
  BY <1>1, <1>3 DEF SchedulerInv, EndsArmed
<1>6. ActionsFireInTime'
  BY <1>1, <1>2 DEF ActionsFireInTime, NotTooEarly, WakeUpIsSet
<1> QED
  BY <1>1, <1>2, <1>4, <1>5, <1>6 DEF SchedulerInv, IsReadyToFire

\* The task takes the top off if it is due.
LEMMA PerformActionKeeps == ASSUME SchedulerInv, PerformAction PROVE SchedulerInv'
<1>1. /\ task' = [pc |-> "invoke", action |-> Head(queue)] /\ queue' = Tail(queue)
      /\ UNCHANGED <<due, mutex, tosend, commands, timer, notified>>
      /\ queue # <<>> /\ due[Head(queue)] < 0
  BY DEF PerformAction, TaskAt, SchedulerInv
<1>2. Head(queue) \in Actions /\ Tail(queue) \in Seq(Actions)
  BY <1>1, HeadTailProperties DEF SchedulerInv, TypesAgree
<1>3. TypesAgree'
  BY <1>1, <1>2 DEF SchedulerInv, TypesAgree, Places
<1>4. EndsArmed'
  BY <1>1 DEF SchedulerInv, EndsArmed
<1>5. ActionsFireInTime'
  BY <1>1 DEF ActionsFireInTime, NotTooEarly, WakeUpIsSet
<1> QED
  BY <1>1, <1>3, <1>4, <1>5 DEF SchedulerInv

LEMMA InvokeKeeps == ASSUME SchedulerInv, Invoke PROVE SchedulerInv'
<1>1. /\ UNCHANGED <<queue, mutex, tosend, commands, timer, notified>>
      /\ task.pc = "invoke" /\ task.action \in Actions
      /\ due' = [due EXCEPT ![task.action] = 0]
      /\ \/ task' = [task EXCEPT !.pc = "add"]
         \/ task' = [pc |-> "check", action |-> NoAction]
  BY DEF Invoke, TaskAt, SchedulerInv, TypesAgree
<1>2. /\ task'.pc \in {"add", "check"}
      /\ task'.pc = "add" => task'.action \in Actions
  <2>1. CASE task' = [task EXCEPT !.pc = "add"]
    BY <1>1, <2>1
  <2>2. CASE task' = [pc |-> "check", action |-> NoAction]
    BY <2>2
  <2> QED
    BY <1>1, <2>1, <2>2
<1>3. TypesAgree'
  BY <1>1, <1>2 DEF SchedulerInv, TypesAgree, Places
<1>4. EndsArmed'
  BY <1>1 DEF SchedulerInv, EndsArmed
<1>5. ActionsFireInTime'
  BY <1>2 DEF ActionsFireInTime, NotTooEarly, WakeUpIsSet
<1> QED
  BY <1>2, <1>3, <1>4, <1>5 DEF SchedulerInv

\* Time passes: what is ready stays ready, a timer that runs goes on running.
LEMMA TickKeeps == ASSUME SchedulerInv, Tick PROVE SchedulerInv'
<1>1. UNCHANGED <<queue, mutex, tosend, notified, task>>
  BY DEF Tick
<1>2. /\ TickMs \in Nat \ {0} /\ MaxLate \in Nat /\ MaxLate >= TickMs
  BY TimeSchedulerAssumption DEF TimeSchedulerAssumption
<1>3. ASSUME NEW a \in Actions
      PROVE  due'[a] \in Int /\ (due[a] < 0 => due'[a] < 0)
  <2>1. due[a] \in Int
    BY DEF SchedulerInv, TypesAgree
  <2>2. due'[a] = IF Queued(a) THEN Max({-MaxLate, due[a] - TickMs}) ELSE due[a]
    BY DEF Tick
  <2>3. -MaxLate \in Int /\ due[a] - TickMs \in Int
    BY <1>2, <2>1
  <2>4. Max({-MaxLate, due[a] - TickMs}) \in {-MaxLate, due[a] - TickMs}
    BY <2>3, MaxOfTwo, Zenon
  <2> QED
    BY <1>2, <2>1, <2>2, <2>4
<1>4. due' \in [Actions -> Int]
  BY <1>3 DEF Tick
<1>5. timer' \in Nat \cup {Off} /\ (timer # Off => timer' # Off)
  BY DEF Tick, Down, Off, SchedulerInv, TypesAgree
<1>6. /\ commands \in Seq(Commands) /\ DOMAIN commands = 1 .. Len(commands)
      /\ Len(commands) \in Nat
      /\ \A k \in 1 .. Len(commands) : commands[k] \in Commands
  BY LenProperties, ElementOfSeq DEF SchedulerInv, TypesAgree
<1>7. /\ commands' \in Seq(Commands) /\ Len(commands') = Len(commands)
      /\ \A k \in 1 .. Len(commands) : commands'[k].arm = commands[k].arm
  <2>1. commands' = [k \in 1 .. Len(commands) |->
                       [commands[k] EXCEPT !.in = Down(commands[k].in)]]
    BY <1>6 DEF Tick
  <2>2. ASSUME NEW k \in 1 .. Len(commands)
        PROVE  /\ [commands[k] EXCEPT !.in = Down(commands[k].in)] \in Commands
               /\ [commands[k] EXCEPT !.in = Down(commands[k].in)].arm = commands[k].arm
    <3>1. commands[k] \in Commands
      BY <1>6
    <3>2. Down(commands[k].in) \in Nat
      BY <3>1 DEF Commands, Down
    <3> QED
      BY <3>1, <3>2 DEF Commands
  <2>3. \A k \in 1 .. Len(commands) : commands'[k] \in Commands
    BY <2>1, <2>2
  <2>4. commands' \in Seq(Commands) /\ Len(commands') = Len(commands)
    BY <1>6, <2>1, <2>3
  <2> QED
    BY <2>1, <2>2, <2>4
<1>8. TypesAgree'
  BY <1>1, <1>4, <1>5, <1>7 DEF SchedulerInv, TypesAgree
<1>9. commands' = <<>> <=> commands = <<>>
  <2>1. Len(<<>>) = 0
    BY EmptySeq
  <2> QED
    BY <1>6, <1>7, <2>1, EmptySeq
<1>10. EndsArmed'
  <2>1. commands # <<>> => Len(commands) \in 1 .. Len(commands)
    BY <1>6, EmptySeq
  <2> QED
    BY <1>1, <1>7, <1>9, <2>1 DEF SchedulerInv, EndsArmed
<1>11. task'.pc = "perform" => queue' # <<>> /\ due'[Head(queue')] < 0
  <2> SUFFICES ASSUME task.pc = "perform" PROVE queue # <<>> /\ due'[Head(queue)] < 0
    BY <1>1
  <2>1. queue # <<>> /\ due[Head(queue)] < 0
    BY DEF SchedulerInv
  <2>2. Head(queue) \in Actions
    BY <2>1, HeadTailProperties DEF SchedulerInv, TypesAgree
  <2> QED
    BY <1>3, <2>1, <2>2
<1>12. NotTooEarly'
  <2> SUFFICES ASSUME task.pc = "invoke" PROVE due'[task.action] < 0
    BY <1>1 DEF NotTooEarly
  <2>1. task.action \in Actions /\ due[task.action] < 0
    BY DEF SchedulerInv, TypesAgree, ActionsFireInTime, NotTooEarly
  <2> QED
    BY <1>3, <2>1
<1>13. WakeUpIsSet'
  BY <1>1, <1>5, <1>9 DEF SchedulerInv, ActionsFireInTime, WakeUpIsSet
<1> QED
  BY <1>8, <1>10, <1>11, <1>12, <1>13 DEF SchedulerInv, ActionsFireInTime

-----------------------------------------------------------------------------
\* ActionsFireInTime in every state: no action is invoked before its time, though
\* callers come between the check of the top and its removal, and while the task
\* sleeps with something in the queue its wake-up is under way: for any delays,
\* any tick, any number of callers and of interrupts, and a daemon that blocks.
THEOREM NoActionFiresEarlyOrIsForgotten == Spec => []ActionsFireInTime
<1>1. Init => SchedulerInv
  <2> SUFFICES ASSUME Init PROVE SchedulerInv
    OBVIOUS
  <2>1. Len(<<>>) = 0 /\ <<>> \in Seq(Actions) /\ <<>> \in Seq(Commands)
    BY EmptySeq
  <2>2. TypesAgree
    <3>1. queue \in Seq(Actions) /\ commands \in Seq(Commands)
      BY <2>1 DEF Init
    <3>2. Len(commands) <= QueueLength
      BY <2>1, TimeSchedulerAssumption DEF TimeSchedulerAssumption, Init
    <3>3. due \in [Actions -> Int] /\ tosend \in [n : 0 .. 3, period : Nat]
      BY DEF Init, Idle
    <3> QED
      BY <3>1, <3>2, <3>3 DEF Init, TypesAgree, Idle, Off, Places
  <2> QED
    BY <2>2 DEF Init, SchedulerInv, EndsArmed, ActionsFireInTime, NotTooEarly, WakeUpIsSet
<1>2. SchedulerInv /\ [Next]_vars => SchedulerInv'
  <2> SUFFICES ASSUME SchedulerInv, [Next]_vars PROVE SchedulerInv'
    OBVIOUS
  <2>1. ASSUME NEW a \in Actions, AddActionDelayed(a) \/ AddActionDelayedIrq(a)
        PROVE  SchedulerInv'
    BY <2>1, AddActionDelayedKeeps, AddActionDelayedIrqKeeps
  <2>2. CASE SendCommand
    BY <2>2, SendCommandKeeps
  <2>3. CASE SendFails \/ Expire \/ BlockDaemon \/ UnblockDaemon
    BY <2>3, DaemonKeeps
  <2>4. CASE TaskStep
    BY <2>4, TaskKeeps, PerformActionKeeps, InvokeKeeps, AddRepeatedKeeps DEF TaskStep
  <2>5. CASE ProcessCommand
    BY <2>5, ProcessCommandKeeps
  <2>6. CASE Tick
    BY <2>6, TickKeeps
  <2>7. CASE UNCHANGED vars
    BY <2>7 DEF vars, SchedulerInv, TypesAgree, EndsArmed, ActionsFireInTime, NotTooEarly, WakeUpIsSet
  <2> QED
    BY <2>1, <2>2, <2>3, <2>4, <2>5, <2>6, <2>7 DEF Next
<1>3. SchedulerInv => ActionsFireInTime
  BY DEF SchedulerInv
<1> QED
  BY <1>1, <1>2, <1>3, PTL DEF Spec
=============================================================================
