---------------------------- MODULE DevicesProofs ----------------------------
(***************************************************************************)
(* The safety of four of the devices, each for its component's own         *)
(* specification and every value of its constants: the cipher box, the     *)
(* polled keyboard, the counter and the buzzer.                            *)
(***************************************************************************)
EXTENDS MCDevices, TLAPS

-----------------------------------------------------------------------------
(* The cipher box. No message tells what a failed reading left, for any      *)
(* number of sockets, any plugs and any failures. The flag of the bus is the *)
(* link: from the failed call until the scan is judged it stays set. What a  *)
(* scan broken off before left in `broken' does not count at the first       *)
(* socket of a scan, where nothing of it has been read.                      *)

\* Readings of the scan in hand are in state.
Underway == pc = "judge" \/ (pc = "scan" /\ at # 0)

CipherInv ==
       /\ at \in Nat
       /\ pc \in {"first", "scan", "judge", "top", "send"}
       /\ pc \in {"judge", "top", "send"} => at = 0
       /\ Underway /\ broken # {} => i2cError
       /\ pc = "send" => broken = {}

\* One reading more of the scan: the task reads on, or has read all.
LEMMA ReadAdvances ==
    ASSUME CipherInv, Scanning, NEW r, Read(r)
    PROVE  /\ at' \in Nat
           /\ pc' \in {"first", "scan", "judge", "top"}
           /\ pc' \in {"judge", "top"} => at' = 0
<1>1. CASE at + 1 \in Sockets
  BY <1>1 DEF CipherInv, Scanning, Read
<1>2. CASE at + 1 \notin Sockets
  BY <1>2 DEF CipherInv, Scanning, Read
<1> QED
  BY <1>1, <1>2

\* A reading that succeeds: the first of a scan forgets what failed before.
LEMMA GoodReading ==
    ASSUME CipherInv, Scanning, NEW r, Read(r), i2cError' = i2cError,
           broken' = IF at = 0 THEN {} ELSE broken
    PROVE  CipherInv'
<1>1. Underway' => pc = "scan"
  BY DEF Underway, Scanning, Read
<1>2. Underway' /\ broken' # {} => i2cError'
  BY <1>1 DEF CipherInv, Underway
<1> QED
  BY <1>2, ReadAdvances DEF CipherInv

\* The other steps of the task leave it at the first socket, outside a scan.
LEMMA BetweenScans ==
    ASSUME CipherInv, at' = at, at = 0, pc' \in {"scan", "top"}
    PROVE  CipherInv'
  BY DEF CipherInv, Underway

\* The flag of the bus stays set from the failed call until the scan is judged.
LEMMA CipherInvIsInductive == CipherInv /\ [Next]_vars => CipherInv'
<1> SUFFICES ASSUME CipherInv, [Next]_vars PROVE CipherInv'
  OBVIOUS
<1>1. ASSUME NEW s \in Sockets, NEW v \in Values, Move(s, v) PROVE CipherInv'
  BY <1>1 DEF Move, task, CipherInv, Underway
<1>2. CASE ChipRestarts \/ TimePasses \/ UNCHANGED vars
  BY <1>2 DEF ChipRestarts, TimePasses, vars, box, task, CipherInv, Underway
<1>3. CASE ReadSocket
  BY <1>3, GoodReading DEF ReadSocket
<1>4. ASSUME NEW v \in Values, NEW n \in 1 .. Readings - 1, ReadMoving(v, n) PROVE CipherInv'
  BY <1>4, GoodReading DEF ReadMoving
<1>5. CASE ReadFails
  <2>1. Scanning /\ Read(0) /\ i2cError' = TRUE
    BY <1>5 DEF ReadFails
  <2> QED
    BY <2>1, ReadAdvances DEF CipherInv
<1>6. ASSUME NEW done \in SUBSET Sockets, Revive(done) PROVE CipherInv'
  <2>1. at = 0 /\ at' = at /\ pc' = "top"
    BY <1>6 DEF Revive, task, CipherInv
  <2> QED
    BY <2>1, BetweenScans
<1>7. CASE StartScan
  <2>1. at = 0 /\ at' = at /\ pc' = "scan"
    BY <1>7 DEF StartScan, CipherInv
  <2> QED
    BY <2>1, BetweenScans
<1>8. CASE Judge
  <2>1. at = 0 /\ at' = at /\ broken' = broken /\ pc = "judge"
    BY <1>8 DEF Judge, CipherInv
  <2>2. CASE pc' = "top"
    BY <2>1, <2>2, BetweenScans
  <2>3. CASE pc' # "top"
    <3>1. ~ScanFailed /\ Compare
      BY <1>8, <2>3 DEF Judge, Scrap
    <3>2. pc' = "send"
      BY <2>3, <3>1 DEF Compare
    <3>3. broken = {}
      BY <2>1, <3>1 DEF CipherInv, Underway, ScanFailed
    <3> QED
      BY <2>1, <3>2, <3>3 DEF CipherInv, Underway
  <2> QED
    BY <2>2, <2>3
<1>9. ASSUME NEW ok \in BOOLEAN, Send(ok) PROVE CipherInv'
  <2>1. at = 0 /\ at' = at /\ pc' = "top"
    BY <1>9 DEF Send, CipherInv
  <2> QED
    BY <2>1, BetweenScans
<1> QED
  BY <1>1, <1>2, <1>3, <1>4, <1>5, <1>6, <1>7, <1>8, <1>9 DEF Next

\* What a failed reading left is in no message (the second test of
\* _i2cErrorFlag in _monitorTask).
THEOREM FailuresStayInTheBox == Spec => []NoFailureIsTold
<1>1. Init => CipherInv
  BY DEF Init, CipherInv, Underway
<1>2. CipherInv => NoFailureIsTold
  BY DEF CipherInv, NoFailureIsTold
<1> QED
  BY <1>1, <1>2, CipherInvIsInductive, PTL DEF Spec

-----------------------------------------------------------------------------
(* The keyboard. The hold the button measured follows the time it was really *)
(* down, as far behind or ahead as the looks at both ends allow, and as long *)
(* as no level came and went unseen. What makes that inductive is InHand:    *)
(* what the looks have shown has been handled, or is about to be.            *)

KeyTypes ==
  /\ level \in {"up", "down"}
  /\ button = [pressed |-> button.pressed, held |-> button.held, since |-> button.since]
  /\ button.pressed \in BOOLEAN /\ button.held \in Nat
  /\ reading \in [KB!Threads -> {"none", "up", "down"}]
  /\ pushing \in [KB!Threads -> [movement : {"none", "PRESSED", "STILL_PRESSED", "RELEASED"},
                                 long : BOOLEAN]]
  /\ seen \in BOOLEAN /\ missed \in BOOLEAN
  /\ lookAge \in 0 .. TickWrap /\ downFor \in 0 .. TickWrap /\ pressGap \in 0 .. TickWrap

\* Only the polling thread has anything to do, one thing at a time.
OneThread ==
  /\ \A t \in {"scheduler", "service"} : reading[t] = "none" /\ pushing[t] = KB!NoAction
  /\ looks = {}
  /\ reading["poll"] = "none" \/ pushing["poll"] = KB!NoAction

\* What a look has shown is the state of the button, or the thread has it in hand.
InHand ==
  /\ seen => IF reading["poll"] = "none" THEN button.pressed <=> level = "down"
             ELSE reading["poll"] = level
  /\ reading["poll"] # "none" => lookAge = 0

\* Since when a button that is not taken for pressed is down.
PressFollows ==
  level = "down" /\ reading["poll"] # "down" /\ (~button.pressed \/ reading["poll"] = "up")
    => downFor <= lookAge

\* The hold so far of a button that is down, and of one that was let go and is
\* still taken for pressed; and the press in hand, whose hold begins now.
HoldFollows ==
  ~missed /\ reading["poll"] # "up" =>
    /\ button.pressed /\ level = "down" /\ downFor < TickWrap =>
         downFor <= button.held + pressGap /\ button.held <= downFor
    /\ button.pressed /\ level = "up" /\ downFor + lookAge < TickWrap =>
         downFor <= button.held + pressGap /\ button.held <= downFor + lookAge
    /\ ~button.pressed /\ reading["poll"] = "down" => downFor <= pressGap

\* A hold that is judged long, or not, agrees with what was really held.
Right(long) == (verdict = "long" => long) /\ (verdict = "short" => ~long)

\* The release as the thread sees it, pushes it and has pushed it.
ReleaseIsRight ==
  /\ reading["poll"] = "up" /\ button.pressed => Right(button.held >= LongPress)
  /\ pushing["poll"].movement = "RELEASED" => Right(pushing["poll"].long)
  /\ keyTold = "RELEASED" => Right(forgot)

\* The next release is not told before the press.
PressIsTold ==
  /\ button.pressed /\ pushing["poll"].movement # "PRESSED" => keyTold # "RELEASED"
  /\ pushing["poll"].movement = "RELEASED" => keyTold # "RELEASED" /\ ~button.pressed
  /\ pushing["poll"].movement \in {"PRESSED", "STILL_PRESSED"} => button.pressed
  /\ pushing["poll"].movement = "none" => pushing["poll"] = KB!NoAction

PolledInv ==
  /\ KeyTypes /\ OneThread /\ InHand /\ PressFollows /\ HoldFollows
  /\ ReleaseIsRight /\ PressIsTold

KeyInv == driver = "poll" => PolledInv

\* A count below the wrap is not wrapped.
LEMMA NoWrap ==
    ASSUME NEW w \in Nat, NEW n \in Nat, n < w
    PROVE  n % w = n
  BY SMT

\* A count that wraps is still a count.
LEMMA WrapIsNat ==
    ASSUME NEW w \in Nat, w > 0, NEW n \in Nat
    PROVE  n % w \in Nat
  BY SMT

\* Only the polling thread has anything to do.
LEMMA OnlyThePollTurns ==
    ASSUME PolledInv, driver = "poll", NEW t \in KB!Threads, KB!Work(t)
    PROVE  t = "poll"
  BY DEF PolledInv, OneThread, KB!Threads, KB!Work, KB!Read, KB!Turn, KB!Handle, KB!Consume

LEMMA KeyMove ==
    ASSUME KB!TimesFit, PolledInv, driver = "poll", KB!Move
    PROVE  PolledInv'
<1>1. /\ level' = IF level = "up" THEN "down" ELSE "up"
      /\ seen' = FALSE /\ missed' = (missed \/ ~seen)
      /\ downFor' = IF level = "up" THEN 0 ELSE downFor
      /\ UNCHANGED <<button, reading, pushing, looks, keyTold, forgot, lookAge, pressGap,
                     verdict>>
  BY DEF KB!Move
<1>2. KeyTypes'
  <2>1. missed' \in BOOLEAN /\ seen' \in BOOLEAN
    BY <1>1
  <2>2. level' \in {"up", "down"} /\ downFor' \in 0 .. TickWrap
    BY <1>1 DEF PolledInv, KeyTypes, KB!TimesFit
  <2> QED
    BY <1>1, <2>1, <2>2 DEF PolledInv, KeyTypes
<1>3. OneThread' /\ InHand'
  BY <1>1 DEF PolledInv, OneThread, InHand, KeyTypes, KB!NoAction
<1>4. PressFollows'
  BY <1>1 DEF PolledInv, PressFollows, KeyTypes
<1>5. HoldFollows'
  <2> SUFFICES ASSUME ~missed, seen, reading["poll"] # "up" PROVE HoldFollows'
    BY <1>1 DEF HoldFollows, PolledInv, KeyTypes
  <2>1. CASE level = "down"
    <3>1. /\ downFor \in Nat /\ lookAge \in Nat /\ pressGap \in Nat /\ button.held \in Nat
          /\ TickWrap \in Nat
      BY DEF PolledInv, KeyTypes, KB!TimesFit
    <3>2. button.pressed /\ downFor < TickWrap =>
            downFor <= button.held + pressGap /\ button.held <= downFor
      BY <2>1 DEF PolledInv, HoldFollows
    <3>3. ~button.pressed /\ reading["poll"] = "down" => downFor <= pressGap
      BY DEF PolledInv, HoldFollows
    <3>4. level' = "up" /\ downFor' = downFor /\ reading'["poll"] = reading["poll"]
      BY <1>1, <2>1
    <3> QED
      BY <1>1, <3>1, <3>2, <3>3, <3>4 DEF HoldFollows
  <2>2. CASE level = "up"
    <3>1. reading["poll"] = "none" /\ ~button.pressed
      BY <2>2 DEF PolledInv, InHand, KeyTypes, KB!Threads
    <3> QED
      BY <1>1, <3>1 DEF HoldFollows
  <2> QED
    BY <2>1, <2>2 DEF PolledInv, KeyTypes
<1>6. ReleaseIsRight' /\ PressIsTold'
  BY <1>1 DEF PolledInv, ReleaseIsRight, PressIsTold, Right, KB!NoAction
<1> QED
  BY <1>2, <1>3, <1>4, <1>5, <1>6 DEF PolledInv

\* The counter of ticks and the true hold move on together.
LEMMA KeyTick ==
    ASSUME KB!TimesFit, PolledInv, driver = "poll", KB!Tick
    PROVE  PolledInv'
<1>1. /\ reading["poll"] = "none"
      /\ lookAge' = IF lookAge < TickWrap THEN lookAge + 1 ELSE TickWrap
      /\ downFor' = IF level = "down"
                    THEN IF downFor < TickWrap THEN downFor + 1 ELSE TickWrap
                    ELSE downFor
      /\ button' = IF button.pressed
                   THEN [button EXCEPT !.held = KB!Later(@),
                                       !.since = KB!Capped(@, RepeatPeriod)] ELSE button
      /\ UNCHANGED <<looks, level, reading, pushing, keyTold, forgot, seen, missed, pressGap,
                     verdict>>
  BY DEF KB!Tick, KB!Capped
<1>2. /\ button'.pressed = button.pressed
      /\ button'.held = IF button.pressed THEN KB!Later(button.held) ELSE button.held
      /\ button' = [pressed |-> button'.pressed, held |-> button'.held,
                    since |-> button'.since]
  <2>1. button = [pressed |-> button.pressed, held |-> button.held, since |-> button.since]
    BY DEF PolledInv, KeyTypes
  <2> QED
    BY <1>1, <2>1
<1>3. TickWrap \in Nat /\ TickWrap > 0
  BY DEF KB!TimesFit
<1>4. KeyTypes'
  <2>1. lookAge' \in 0 .. TickWrap /\ downFor' \in 0 .. TickWrap
    BY <1>1, <1>3 DEF PolledInv, KeyTypes
  <2>2. button'.pressed \in BOOLEAN /\ button'.held \in Nat
    BY <1>2, <1>3, WrapIsNat DEF PolledInv, KeyTypes, KB!Later
  <2> QED
    BY <1>1, <1>2, <2>1, <2>2 DEF PolledInv, KeyTypes
<1>5. OneThread' /\ InHand'
  BY <1>1, <1>2 DEF PolledInv, OneThread, InHand, KB!NoAction
<1>6. PressFollows'
  BY <1>1, <1>2, <1>3 DEF PolledInv, PressFollows, KeyTypes
<1>7. ASSUME button.pressed, button.held + 1 < TickWrap
      PROVE  button'.held = button.held + 1
  BY <1>2, <1>3, <1>7, NoWrap DEF KB!Later, PolledInv, KeyTypes
<1>8. HoldFollows'
  <2> SUFFICES ASSUME ~missed PROVE HoldFollows'
    BY <1>1 DEF HoldFollows
  <2>1. ASSUME button.pressed, level = "down", downFor' < TickWrap
        PROVE  downFor' <= button'.held + pressGap /\ button'.held <= downFor'
    <3>1. downFor' = downFor + 1 /\ downFor \in Nat /\ pressGap \in Nat /\ button.held \in Nat
      BY <1>1, <1>3, <2>1 DEF PolledInv, KeyTypes
    <3>2. downFor <= button.held + pressGap /\ button.held <= downFor
      BY <1>1, <1>3, <2>1, <3>1 DEF PolledInv, HoldFollows
    <3>3. button'.held = button.held + 1
      BY <1>3, <1>7, <2>1, <3>1, <3>2
    <3> QED
      BY <3>1, <3>2, <3>3
  <2>2. ASSUME button.pressed, level = "up", downFor' + lookAge' < TickWrap
        PROVE  downFor' <= button'.held + pressGap /\ button'.held <= downFor' + lookAge'
    <3>1. /\ downFor' = downFor /\ downFor \in Nat /\ lookAge \in Nat /\ pressGap \in Nat
          /\ lookAge' = lookAge + 1 /\ button.held \in Nat
      BY <1>1, <1>3, <2>2 DEF PolledInv, KeyTypes
    <3>2. downFor <= button.held + pressGap /\ button.held <= downFor + lookAge
      BY <1>1, <1>3, <2>2, <3>1 DEF PolledInv, HoldFollows
    <3>3. button'.held = button.held + 1
      BY <1>3, <1>7, <2>2, <3>1, <3>2
    <3> QED
      BY <3>1, <3>2, <3>3
  <2> QED
    BY <1>1, <1>2, <2>1, <2>2 DEF HoldFollows
<1>9. ReleaseIsRight' /\ PressIsTold'
  BY <1>1, <1>2 DEF PolledInv, ReleaseIsRight, PressIsTold, Right, KB!NoAction
<1> QED
  BY <1>4, <1>5, <1>6, <1>8, <1>9 DEF PolledInv

\* A look sets what was really held against what is measured.
LEMMA KeyRead ==
    ASSUME KB!TimesFit, PolledInv, driver = "poll", KB!Read("poll")
    PROVE  PolledInv'
<1>1. /\ reading["poll"] = "none" /\ pushing["poll"] = KB!NoAction
      /\ reading' = [reading EXCEPT !["poll"] = level]
      /\ lookAge' = 0 /\ seen' = TRUE
      /\ UNCHANGED <<looks, button, pushing, level, keyTold, forgot>>
  BY DEF KB!Read, KB!Free, KB!Look
<1>2. reading'["poll"] = level /\ level \in {"up", "down"}
  BY <1>1 DEF PolledInv, KeyTypes, KB!Threads
<1>3. KB!Look
  BY DEF KB!Read
<1>4. KeyTypes'
  <2>1. missed' \in BOOLEAN
    BY <1>3 DEF KB!Look, PolledInv, KeyTypes
  <2>2. /\ pressGap' \in {pressGap, lookAge, 0} /\ downFor' \in {downFor, 0}
        /\ lookAge' = 0
    BY <1>3 DEF KB!Look
  <2>3. /\ pressGap' \in 0 .. TickWrap /\ downFor' \in 0 .. TickWrap
        /\ lookAge' \in 0 .. TickWrap
    BY <2>2 DEF PolledInv, KeyTypes, KB!TimesFit
  <2>4. reading' \in [KB!Threads -> {"none", "up", "down"}]
    BY <1>1 DEF PolledInv, KeyTypes
  <2> QED
    BY <1>1, <2>1, <2>3, <2>4 DEF PolledInv, KeyTypes
<1>5. OneThread' /\ InHand'
  <2>1. \A t \in {"scheduler", "service"} : reading'[t] = reading[t]
    BY <1>1 DEF PolledInv, KeyTypes, KB!Threads
  <2> QED
    BY <1>1, <1>2, <2>1 DEF PolledInv, OneThread, InHand, KB!NoAction
<1>6. PressFollows'
  BY <1>1, <1>2 DEF PressFollows
<1>7. HoldFollows'
  <2>1. CASE level = "down" /\ button.pressed
    <3>1. UNCHANGED <<missed, downFor, pressGap>>
      BY <1>3, <2>1 DEF KB!Look
    <3> QED
      BY <1>1, <1>2, <2>1, <3>1 DEF PolledInv, HoldFollows
  <2>2. CASE level = "down" /\ ~button.pressed
    <3>1. pressGap' = lookAge /\ downFor' = downFor
      BY <1>3, <2>2 DEF KB!Look
    <3>2. downFor <= lookAge
      BY <1>1, <2>2 DEF PolledInv, PressFollows
    <3> QED
      BY <1>1, <1>2, <2>2, <3>1, <3>2 DEF HoldFollows
  <2>3. CASE level = "up"
    BY <1>2, <2>3 DEF HoldFollows
  <2> QED
    BY <1>2, <2>1, <2>2, <2>3 DEF PolledInv, KeyTypes
<1>8. PressIsTold'
  BY <1>1 DEF PolledInv, PressIsTold, KB!NoAction
<1>9. ReleaseIsRight'
  <2>1. pushing["poll"].movement = "none"
    BY <1>1 DEF KB!NoAction
  <2>2. CASE level = "down" /\ button.pressed
    <3>1. verdict' = verdict
      BY <1>3, <2>2 DEF KB!Look
    <3> QED
      BY <1>1, <1>2, <2>1, <2>2, <3>1 DEF PolledInv, ReleaseIsRight, Right
  <2>3. CASE level = "down" /\ ~button.pressed
    <3>1. verdict' = "unclear"
      BY <1>3, <2>3 DEF KB!Look
    <3> QED
      BY <3>1 DEF ReleaseIsRight, Right
  <2>4. CASE level = "up" /\ ~button.pressed
    <3>1. verdict' = verdict
      BY <1>3, <2>4 DEF KB!Look
    <3> QED
      BY <1>1, <1>2, <2>1, <2>4, <3>1 DEF PolledInv, ReleaseIsRight, Right
  <2>5. CASE level = "up" /\ button.pressed
    <3>1. verdict' = KB!Verdict
      BY <1>3, <2>5 DEF KB!Look
    <3>2. keyTold' # "RELEASED"
      BY <1>1, <2>1, <2>5 DEF PolledInv, PressIsTold
    <3>3. /\ downFor \in Nat /\ lookAge \in Nat /\ pressGap \in Nat /\ button.held \in Nat
          /\ TickWrap \in Nat /\ LongPress \in Nat
      BY DEF PolledInv, KeyTypes, KB!TimesFit
    <3>4. ASSUME ~missed, downFor + lookAge < TickWrap
          PROVE  downFor <= button.held + pressGap /\ button.held <= downFor + lookAge
      BY <1>1, <2>5, <3>4 DEF PolledInv, HoldFollows
    <3>5. ASSUME KB!Verdict = "long" PROVE button.held >= LongPress
      <4>1. ~missed /\ downFor + lookAge < TickWrap /\ downFor >= LongPress + pressGap
        BY <3>3, <3>5 DEF KB!Verdict, PolledInv, KeyTypes
      <4> QED
        BY <3>3, <3>4, <4>1
    <3>6. ASSUME KB!Verdict = "short" PROVE ~(button.held >= LongPress)
      <4>1. ~missed /\ downFor + lookAge < TickWrap /\ downFor + lookAge < LongPress
        BY <3>3, <3>6 DEF KB!Verdict, PolledInv, KeyTypes
      <4> QED
        BY <3>3, <3>4, <4>1
    <3> QED
      BY <1>1, <2>1, <3>1, <3>2, <3>5, <3>6 DEF ReleaseIsRight, Right
  <2> QED
    BY <1>2, <2>2, <2>3, <2>4, <2>5 DEF PolledInv, KeyTypes
<1> QED
  BY <1>4, <1>5, <1>6, <1>7, <1>8, <1>9 DEF PolledInv

\* A hold is measured from the handling of the press to that of the release.
LEMMA KeyHandle ==
    ASSUME KB!TimesFit, PolledInv, driver = "poll", KB!Handle("poll")
    PROVE  PolledInv'
<1>1. /\ reading["poll"] \in {"up", "down"} /\ pushing["poll"] = KB!NoAction
      /\ reading' = [reading EXCEPT !["poll"] = "none"]
      /\ UNCHANGED <<looks, level, keyTold, forgot, lookAge, seen, missed, downFor, pressGap,
                     verdict>>
  BY DEF KB!Handle, KB!truth, PolledInv, KeyTypes, OneThread, KB!Threads
<1>2. reading'["poll"] = "none" /\ \A t \in {"scheduler", "service"} : reading'[t] = reading[t]
  BY <1>1 DEF PolledInv, KeyTypes, KB!Threads
<1>3. lookAge = 0 /\ lookAge' = 0 /\ pushing["poll"].movement = "none"
  BY <1>1 DEF PolledInv, InHand, KB!NoAction
<1>4. seen' => reading["poll"] = level
  BY <1>1 DEF PolledInv, InHand
<1>5. reading' \in [KB!Threads -> {"none", "up", "down"}]
  BY <1>1 DEF PolledInv, KeyTypes
<1>6. LongPress \in Nat /\ TickWrap \in Nat /\ button.held \in Nat
  BY DEF KB!TimesFit, PolledInv, KeyTypes
<1>7. CASE reading["poll"] = "down" /\ ~button.pressed
  <2> DEFINE new == [pressed |-> TRUE, held |-> 0, since |-> 0]
             action == [movement |-> "PRESSED", long |-> 0 >= LongPress]
  <2>1. button' = new /\ pushing' = [pushing EXCEPT !["poll"] = action]
    BY <1>7 DEF KB!Handle, KB!Push, KB!ButtonAction
  <2>2. button'.pressed /\ button'.held = 0 /\ pushing'["poll"] = action
    BY <2>1 DEF PolledInv, KeyTypes, KB!Threads
  <2>3. \A t \in {"scheduler", "service"} : pushing'[t] = pushing[t]
    BY <2>1 DEF PolledInv, KeyTypes, KB!Threads
  <2>4. KeyTypes'
    BY <1>1, <1>5, <2>1 DEF PolledInv, KeyTypes
  <2>5. OneThread' /\ InHand' /\ PressFollows'
    BY <1>1, <1>2, <1>3, <1>4, <1>7, <2>2, <2>3
    DEF PolledInv, OneThread, InHand, PressFollows, KB!NoAction
  <2>6. HoldFollows'
    <3>1. ~missed => downFor <= pressGap
      BY <1>7 DEF PolledInv, HoldFollows
    <3>2. downFor \in Nat /\ pressGap \in Nat
      BY DEF PolledInv, KeyTypes
    <3> QED
      BY <1>1, <1>2, <1>3, <2>2, <3>1, <3>2 DEF HoldFollows
  <2>7. ReleaseIsRight' /\ PressIsTold'
    BY <1>1, <1>2, <2>2 DEF PolledInv, ReleaseIsRight, PressIsTold, Right
  <2> QED
    BY <2>4, <2>5, <2>6, <2>7 DEF PolledInv
<1>8. CASE reading["poll"] = "down" /\ button.pressed
  <2>1. /\ button' = button
        /\ \/ pushing' = pushing
           \/ pushing' = [pushing EXCEPT !["poll"] =
                            [movement |-> "STILL_PRESSED", long |-> button.held >= LongPress]]
    BY <1>8 DEF KB!Handle, KB!Push, KB!ButtonAction, KB!HoldDuration
  <2>2. /\ pushing'["poll"] = pushing["poll"] \/ pushing'["poll"].movement = "STILL_PRESSED"
        /\ \A t \in {"scheduler", "service"} : pushing'[t] = pushing[t]
    <3> DEFINE action == [movement |-> "STILL_PRESSED", long |-> button.held >= LongPress]
    <3>1. CASE pushing' = pushing
      BY <3>1
    <3>2. CASE pushing' = [pushing EXCEPT !["poll"] = action]
      <4>1. /\ pushing'["poll"] = action
            /\ \A t \in {"scheduler", "service"} : pushing'[t] = pushing[t]
        BY <3>2 DEF PolledInv, KeyTypes, KB!Threads
      <4> QED
        BY <4>1
    <3> QED
      BY <2>1, <3>1, <3>2
  <2>3. KeyTypes'
    <3>1. pushing' \in [KB!Threads -> [movement : {"none", "PRESSED", "STILL_PRESSED",
                                                   "RELEASED"}, long : BOOLEAN]]
      <4> DEFINE action == [movement |-> "STILL_PRESSED", long |-> button.held >= LongPress]
      <4>1. CASE pushing' = pushing
        BY <4>1 DEF PolledInv, KeyTypes
      <4>2. CASE pushing' = [pushing EXCEPT !["poll"] = action]
        <5>1. action \in [movement : {"none", "PRESSED", "STILL_PRESSED", "RELEASED"},
                          long : BOOLEAN]
          OBVIOUS
        <5> HIDE DEF action
        <5> QED
          BY <4>2, <5>1 DEF PolledInv, KeyTypes
      <4> QED
        BY <2>1, <4>1, <4>2
    <3> QED
      BY <1>1, <1>5, <2>1, <3>1 DEF PolledInv, KeyTypes
  <2>4. OneThread' /\ InHand' /\ PressFollows'
    BY <1>1, <1>2, <1>3, <1>4, <1>8, <2>1, <2>2
    DEF PolledInv, OneThread, InHand, PressFollows, KB!NoAction
  <2>5. HoldFollows'
    BY <1>1, <1>2, <1>8, <2>1 DEF PolledInv, HoldFollows
  <2>6. ReleaseIsRight' /\ PressIsTold'
    BY <1>1, <1>2, <1>3, <1>8, <2>1, <2>2
    DEF PolledInv, ReleaseIsRight, PressIsTold, Right
  <2> QED
    BY <2>3, <2>4, <2>5, <2>6 DEF PolledInv
<1>9. CASE reading["poll"] = "up" /\ button.pressed
  <2> DEFINE new == [pressed |-> FALSE, held |-> 0, since |-> 0]
             action == [movement |-> "RELEASED", long |-> button.held >= LongPress]
  <2>1. button' = new /\ pushing' = [pushing EXCEPT !["poll"] = action]
    BY <1>9 DEF KB!Handle, KB!Push, KB!ButtonAction, KB!HoldDuration
  <2>2. ~button'.pressed /\ pushing'["poll"] = action
    BY <2>1 DEF PolledInv, KeyTypes, KB!Threads
  <2>3. \A t \in {"scheduler", "service"} : pushing'[t] = pushing[t]
    BY <2>1 DEF PolledInv, KeyTypes, KB!Threads
  <2>4. KeyTypes'
    BY <1>1, <1>5, <2>1 DEF PolledInv, KeyTypes
  <2>5. OneThread' /\ InHand'
    BY <1>1, <1>2, <1>3, <1>4, <1>9, <2>2, <2>3 DEF PolledInv, OneThread, InHand, KB!NoAction
  <2>6. PressFollows' /\ HoldFollows'
    BY <1>1, <1>2, <1>9, <2>2 DEF PolledInv, PressFollows, HoldFollows
  <2>7. ReleaseIsRight' /\ PressIsTold'
    <3>1. keyTold' # "RELEASED"
      BY <1>1, <1>3, <1>9 DEF PolledInv, PressIsTold
    <3>2. Right(button.held >= LongPress) /\ verdict' = verdict
      BY <1>1, <1>9 DEF PolledInv, ReleaseIsRight
    <3>3. /\ pushing'["poll"].movement = "RELEASED"
          /\ pushing'["poll"].long = (button.held >= LongPress)
      BY <2>2
    <3> QED
      BY <1>2, <2>2, <3>1, <3>2, <3>3 DEF ReleaseIsRight, PressIsTold, Right
  <2> QED
    BY <2>4, <2>5, <2>6, <2>7 DEF PolledInv
<1>10. CASE reading["poll"] = "up" /\ ~button.pressed
  <2>1. button' = button /\ pushing' = pushing
    BY <1>10 DEF KB!Handle
  <2>2. KeyTypes'
    BY <1>1, <1>5, <2>1 DEF PolledInv, KeyTypes
  <2>3. OneThread' /\ InHand' /\ PressFollows'
    BY <1>1, <1>2, <1>3, <1>4, <1>10, <2>1
    DEF PolledInv, OneThread, InHand, PressFollows, KB!NoAction
  <2>4. HoldFollows'
    BY <1>2, <1>10, <2>1 DEF HoldFollows
  <2>5. ReleaseIsRight' /\ PressIsTold'
    BY <1>1, <1>2, <1>3, <1>10, <2>1
    DEF PolledInv, ReleaseIsRight, PressIsTold, Right, KB!NoAction
  <2> QED
    BY <2>2, <2>3, <2>4, <2>5 DEF PolledInv
<1> QED
  BY <1>1, <1>7, <1>8, <1>9, <1>10 DEF PolledInv, KeyTypes

\* The event goes into the queue, however long that took.
LEMMA KeyConsume ==
    ASSUME KB!TimesFit, PolledInv, driver = "poll", KB!Consume("poll")
    PROVE  PolledInv'
<1>1. /\ pushing["poll"] # KB!NoAction
      /\ keyTold' = pushing["poll"].movement
      /\ forgot' = (pushing["poll"].movement = "RELEASED" /\ pushing["poll"].long)
      /\ pushing' = [pushing EXCEPT !["poll"] = KB!NoAction]
      /\ UNCHANGED <<level, reading, looks, lookAge, seen, missed, downFor, pressGap, verdict>>
  BY DEF KB!Consume, KB!Forgets, KB!truth, KB!Push
<1>2. /\ button'.pressed = button.pressed /\ button'.held = button.held
      /\ button' = [pressed |-> button'.pressed, held |-> button'.held,
                    since |-> button'.since]
  <2>1. button = [pressed |-> button.pressed, held |-> button.held, since |-> button.since]
    BY DEF PolledInv, KeyTypes
  <2>2. button' = button \/ button' = [button EXCEPT !.since = 0]
    BY DEF KB!Consume
  <2> QED
    BY <2>1, <2>2
<1>3. reading["poll"] = "none" /\ pushing["poll"].movement # "none"
  BY <1>1 DEF PolledInv, OneThread, PressIsTold
<1>4. pushing'["poll"] = KB!NoAction /\ pushing'["poll"].movement = "none"
  BY <1>1 DEF PolledInv, KeyTypes, KB!Threads, KB!NoAction
<1>5. \A t \in {"scheduler", "service"} : pushing'[t] = pushing[t]
  BY <1>1 DEF PolledInv, KeyTypes, KB!Threads
<1>6. KeyTypes'
  <2>1. pushing' \in [KB!Threads -> [movement : {"none", "PRESSED", "STILL_PRESSED",
                                                 "RELEASED"}, long : BOOLEAN]]
    BY <1>1 DEF PolledInv, KeyTypes, KB!NoAction
  <2> QED
    BY <1>1, <1>2, <2>1 DEF PolledInv, KeyTypes
<1>7. OneThread' /\ InHand'
  BY <1>1, <1>2, <1>3, <1>4, <1>5 DEF PolledInv, OneThread, InHand, KB!NoAction
<1>8. PressFollows' /\ HoldFollows'
  BY <1>1, <1>2 DEF PolledInv, PressFollows, HoldFollows
<1>9. PressIsTold'
  BY <1>1, <1>2, <1>4 DEF PolledInv, PressIsTold, KB!NoAction
<1>10. ReleaseIsRight'
  <2>1. keyTold' = "RELEASED" => forgot' = pushing["poll"].long
    BY <1>1 DEF PolledInv, KeyTypes, KB!Threads
  <2> QED
    BY <1>1, <1>3, <1>4, <2>1 DEF PolledInv, ReleaseIsRight, Right
<1> QED
  BY <1>6, <1>7, <1>8, <1>9, <1>10 DEF PolledInv

LEMMA KeyInvIsInductive ==
    ASSUME KB!TimesFit, KeyInv, [KB!Next]_(KB!vars)
    PROVE  KeyInv'
<1>1. driver' = driver
  BY DEF KB!Next, KB!vars, KB!Move, KB!Tick, KB!Work, KB!Read, KB!Handle, KB!Consume
<1> SUFFICES ASSUME driver = "poll", PolledInv
             PROVE  PolledInv'
  BY <1>1 DEF KeyInv
<1>2. CASE KB!Move
  BY <1>2, KeyMove
<1>3. CASE KB!Tick
  BY <1>3, KeyTick
<1>4. ASSUME NEW t \in KB!Threads, KB!Work(t) PROVE PolledInv'
  <2>1. t = "poll"
    BY <1>4, OnlyThePollTurns
  <2> QED
    BY <1>4, <2>1, KeyRead, KeyHandle, KeyConsume DEF KB!Work
<1>5. CASE UNCHANGED KB!vars
  BY <1>5 DEF KB!vars, KB!truth, PolledInv, KeyTypes, OneThread, InHand, PressFollows,
     HoldFollows, ReleaseIsRight, PressIsTold, Right
<1> QED
  BY <1>2, <1>3, <1>4, <1>5 DEF KB!Next

\* Only a long hold makes the device forget its network, and a long hold does,
\* as exactly as the looks of the polling thread let one see it, for any periods,
\* any presses and any waits of its pushes (holdDurationMs(), KeyboardHandler).
THEOREM OnlyLongHoldsForget ==
    ASSUME KB!TimesFit
    PROVE  KB!Spec => []LongHoldForgets
<1>1. KB!Init => KeyInv
  <2> SUFFICES ASSUME KB!Init, driver = "poll" PROVE PolledInv
    BY DEF KeyInv
  <2>1. KeyTypes
    <3>1. /\ button = [pressed |-> level = "down", held |-> 0, since |-> 0]
          /\ level \in {"up", "down"} /\ reading = [t \in KB!Threads |-> "none"]
          /\ pushing = [t \in KB!Threads |-> [movement |-> "none", long |-> FALSE]]
          /\ seen = TRUE /\ missed = FALSE /\ lookAge = 0 /\ downFor = 0 /\ pressGap = 0
      BY DEF KB!Init, KB!NoAction
    <3>2. /\ button.pressed \in BOOLEAN /\ button.held \in Nat
          /\ button = [pressed |-> button.pressed, held |-> button.held,
                       since |-> button.since]
      BY <3>1
    <3>3. /\ reading \in [KB!Threads -> {"none", "up", "down"}]
          /\ pushing \in [KB!Threads -> [movement : {"none", "PRESSED", "STILL_PRESSED",
                                                     "RELEASED"}, long : BOOLEAN]]
      BY <3>1
    <3>4. 0 \in 0 .. TickWrap
      BY DEF KB!TimesFit
    <3> QED
      BY <3>1, <3>2, <3>3, <3>4 DEF KeyTypes
  <2>2. /\ reading["poll"] = "none" /\ lookAge = 0 /\ downFor = 0 /\ pressGap = 0
        /\ button.held = 0 /\ keyTold = "none" /\ verdict = "unclear"
        /\ pushing["poll"] = KB!NoAction /\ pushing["poll"].movement = "none"
    BY DEF KB!Init, KB!Threads, KB!NoAction
  <2>3. button.pressed <=> level = "down"
    BY DEF KB!Init
  <2>4. OneThread
    BY DEF KB!Init, KB!Threads, OneThread
  <2> QED
    BY <2>1, <2>2, <2>3, <2>4
    DEF PolledInv, InHand, PressFollows, HoldFollows, ReleaseIsRight, PressIsTold, Right,
        KB!NoAction
<1>2. KeyInv => LongHoldForgets
  BY DEF KeyInv, PolledInv, ReleaseIsRight, Right, LongHoldForgets, KB!LongHoldForgets
<1>3. KeyInv /\ [KB!Next]_(KB!vars) => KeyInv'
  BY KeyInvIsInductive
<1> QED
  BY <1>1, <1>2, <1>3, PTL DEF KB!Spec

-----------------------------------------------------------------------------
(* The counter. TargetIsTold is not inductive: it speaks of a counter at     *)
(* rest. CounterInv adds who owes the notice while it is not at rest: a      *)
(* thread that has written and not yet compared, or has compared and not yet *)
(* told.                                                                     *)

\* A thread that is about to compare or to tell.
Owes(t) == counterPc[t] \in {"check", "tell"}

CounterInv ==
       /\ counterPc \in [CN!Threads -> {"idle", "write", "target", "check", "tell"}]
       /\ value = target => counterTold \/ \E t \in CN!Threads : Owes(t)

\* In a step of one thread the other keeps what it owes.
LEMMA OthersStillOwe ==
    ASSUME NEW t \in CN!Threads, NEW u \in CN!Threads, u # t, CounterInv, NEW s,
           CN!Goto(t, s)
    PROVE  Owes(u)' <=> Owes(u)
<1>1. counterPc'[u] = counterPc[u]
  BY DEF CN!Goto, CounterInv, CN!Threads
<1> QED
  BY <1>1 DEF Owes

\* A step that leaves value, target and told alone and takes a thread from
\* somewhere it owes nothing keeps the invariant.
LEMMA QuietStep ==
    ASSUME CounterInv, NEW t \in CN!Threads, NEW s \in {"write", "target"}, counterPc[t] = "idle",
           CN!Goto(t, s), UNCHANGED <<value, target, counterTold>>
    PROVE  CounterInv'
<1>1. counterPc' \in [CN!Threads -> {"idle", "write", "target", "check", "tell"}]
  BY DEF CN!Goto, CounterInv, CN!Threads
<1>2. ASSUME NEW u \in CN!Threads, Owes(u) PROVE Owes(u)'
  <2>1. u # t
    BY <1>2 DEF Owes
  <2> QED
    BY <1>2, <2>1, OthersStillOwe
<1> QED
  BY <1>1, <1>2 DEF CounterInv, CN!Threads

\* Whoever makes the counter reach its target owes the notice.
LEMMA CounterInvIsInductive == CounterInv /\ [CN!Next]_(CN!vars) => CounterInv'
<1> SUFFICES ASSUME CounterInv, [CN!Next]_(CN!vars) PROVE CounterInv'
  OBVIOUS
<1>1. CASE CN!ChangeMultiplier \/ UNCHANGED CN!vars
  BY <1>1 DEF CN!ChangeMultiplier, CN!vars, CounterInv, CN!Threads, Owes
<1>2. CASE CN!Increment
  <2>1. "keys" \in CN!Threads
    BY DEF CN!Threads
  <2>2. CASE UNCHANGED <<counterPc, arg>>
    BY <1>2, <2>2 DEF CN!Increment, CounterInv, CN!Threads, Owes
  <2>3. CASE CN!Goto("keys", "write")
    BY <1>2, <2>1, <2>3, QuietStep DEF CN!Increment
  <2> QED
    BY <1>2, <2>2, <2>3 DEF CN!Increment, CN!Set
<1>3. CASE CN!SetMessage
  <2>1. "mqtt" \in CN!Threads
    BY DEF CN!Threads
  <2>2. CASE UNCHANGED <<counterPc, arg>>
    BY <1>3, <2>2 DEF CN!SetMessage, CounterInv, CN!Threads, Owes
  <2>3. CASE CN!Goto("mqtt", "write") \/ CN!Goto("mqtt", "target")
    BY <1>3, <2>1, <2>3, QuietStep DEF CN!SetMessage
  <2> QED
    BY <1>3, <2>2, <2>3 DEF CN!SetMessage, CN!Set
<1>4. ASSUME NEW t \in CN!Threads, CN!WriteValue(t) \/ CN!WriteTarget(t) PROVE CounterInv'
  <2>1. /\ counterPc' \in [CN!Threads -> {"idle", "write", "target", "check", "tell"}]
        /\ counterPc'[t] = "check"
    BY <1>4 DEF CN!WriteValue, CN!WriteTarget, CN!Goto, CounterInv, CN!Threads
  <2> QED
    BY <2>1 DEF CounterInv, CN!Threads, Owes
<1>5. ASSUME NEW t \in CN!Threads, CN!Check(t) PROVE CounterInv'
  <2>1. counterPc' \in [CN!Threads -> {"idle", "write", "target", "check", "tell"}]
    BY <1>5 DEF CN!Check, CN!Goto, CounterInv, CN!Threads
  <2>2. CASE value = target
    <3>1. counterPc'[t] = "tell"
      BY <1>5, <2>2 DEF CN!Check, CN!Goto, CounterInv, CN!Threads
    <3> QED
      BY <2>1, <3>1 DEF CounterInv, CN!Threads, Owes
  <2>3. CASE value # target
    BY <1>5, <2>1, <2>3 DEF CN!Check, CounterInv, CN!Threads
  <2> QED
    BY <2>2, <2>3
<1>6. ASSUME NEW t \in CN!Threads, CN!Tell(t) PROVE CounterInv'
  <2>1. counterPc' \in [CN!Threads -> {"idle", "write", "target", "check", "tell"}]
    BY <1>6 DEF CN!Tell, CN!Goto, CounterInv, CN!Threads
  <2> QED
    BY <1>6, <2>1 DEF CN!Tell, CounterInv, CN!Threads
<1> QED
  BY <1>1, <1>2, <1>3, <1>4, <1>5, <1>6 DEF CN!Next

\* A reached target is told, whoever of the two threads wrote what and when
\* (Counter::setValue, setTarget and _checkCondition).
THEOREM ReachedTargetIsTold ==
    ASSUME CN!TargetIsAhead
    PROVE  CN!Spec => []TargetIsTold
<1>1. CN!Init => CounterInv
  BY CN!TargetIsAhead DEF CN!TargetIsAhead, CN!Init, CounterInv, CN!Threads
<1>2. CounterInv => TargetIsTold
  BY DEF CounterInv, CN!Threads, TargetIsTold, CN!TargetIsTold, Owes
<1> QED
  BY <1>1, <1>2, CounterInvIsInductive, PTL DEF CN!Spec

-----------------------------------------------------------------------------
(* The buzzer. BuzzerInv says who owes the silence while something sounds:   *)
(* the melody that has begun a note, or a signal with half beeps left. A     *)
(* step that takes its last half beep from a signal, or the note from the    *)
(* melody, turns the buzzer off.                                             *)

Playing == [note : Nat, step : {"test", "sound"}]

BuzzerInv ==
       /\ ring \in [Rings -> Nat]
       /\ melody = BZ!Waiting \/ melody \in Playing
       /\ buzzing \in BOOLEAN
       /\ buzzing => melody.step = "sound" \/ \E r \in Rings : ring[r] > 0

\* The loop over the notes goes on with a test or waits.
LEMMA FromIsShaped ==
    ASSUME NEW n \in Nat, BZ!From(n)
    PROVE  melody' = BZ!Waiting \/ melody' \in Playing
  BY DEF BZ!From, Playing

\* An even number of half beeps is not the last one.
LEMMA EvenIsNotLast ==
    ASSUME NEW n \in Nat, n > 0, n % 2 = 0
    PROVE  n - 1 > 0
<1>1. 1 % 2 # 0
  BY SMT
<1> QED
  BY <1>1, SMT

\* Whoever begins a sound owes its end.
LEMMA BuzzerInvIsInductive ==
    ASSUME BZ!CountsAreNatural, BuzzerInv, [BZ!Next]_(BZ!vars)
    PROVE  BuzzerInv'
<1>1. CASE BZ!MelodyMessage
  <2>1. CASE UNCHANGED ring
    BY <1>1, <2>1 DEF BZ!MelodyMessage, BuzzerInv, BZ!Waiting
  <2>2. ASSUME NEW r \in Rings, ring[r] = 0, ring' = [ring EXCEPT ![r] = 2 * Beeps]
        PROVE BuzzerInv'
    <3>1. ring' \in [Rings -> Nat]
      BY <2>2, BZ!CountsAreNatural DEF BZ!CountsAreNatural, BuzzerInv, BZ!Waiting
    <3>2. ASSUME NEW q \in Rings, ring[q] > 0 PROVE ring'[q] > 0
      BY <2>2, <3>2 DEF BuzzerInv, BZ!Waiting
    <3> QED
      BY <1>1, <3>1, <3>2 DEF BZ!MelodyMessage, BuzzerInv, BZ!Waiting
  <2> QED
    BY <1>1, <2>1, <2>2 DEF BZ!MelodyMessage
<1>2. CASE BZ!StartMelody
  <2>1. melody.step # "sound"
    BY <1>2 DEF BZ!StartMelody, BZ!Waiting
  <2>2. melody' = BZ!Waiting \/ melody' \in Playing
    BY <1>2, FromIsShaped DEF BZ!StartMelody
  <2> QED
    BY <1>2, <2>1, <2>2 DEF BZ!StartMelody, BuzzerInv, BZ!Waiting
<1>3. CASE BZ!StopMelody
  <2>1. melody.step # "sound"
    BY <1>3 DEF BZ!StopMelody
  <2> QED
    BY <1>3, <2>1 DEF BZ!StopMelody, BuzzerInv, BZ!Waiting
<1>4. CASE BZ!Sound
  <2>1. melody \in Playing
    BY <1>4 DEF BZ!Sound, BuzzerInv, BZ!Waiting
  <2>2. melody' \in Playing /\ melody'.step = "sound"
    BY <1>4, <2>1 DEF BZ!Sound, Playing
  <2> QED
    BY <1>4, <2>2 DEF BZ!Sound, BuzzerInv, BZ!Waiting
<1>5. CASE BZ!Silence
  <2>1. melody.note + 1 \in Nat
    BY <1>5 DEF BZ!Silence, BuzzerInv, BZ!Waiting, Playing
  <2>2. melody' = BZ!Waiting \/ melody' \in Playing
    BY <1>5, <2>1, FromIsShaped DEF BZ!Silence
  <2> QED
    BY <1>5, <2>2 DEF BZ!Silence, BuzzerInv, BZ!Waiting
<1>6. ASSUME NEW r \in Rings, BZ!Ring(r) PROVE BuzzerInv'
  <2>1. /\ ring' \in [Rings -> Nat]
        /\ ring'[r] = ring[r] - 1
    BY <1>6 DEF BZ!Ring, BuzzerInv, BZ!Waiting
  <2>2. buzzing' => ring[r] % 2 = 0
    BY <1>6 DEF BZ!Ring
  <2>3. ring[r] \in Nat /\ ring[r] > 0
    BY <1>6 DEF BZ!Ring, BuzzerInv, BZ!Waiting
  <2>4. buzzing' => ring'[r] > 0
    BY <2>1, <2>2, <2>3, EvenIsNotLast
  <2>5. buzzing' \in BOOLEAN /\ UNCHANGED melody
    BY <1>6 DEF BZ!Ring
  <2> QED
    BY <2>1, <2>4, <2>5 DEF BuzzerInv, BZ!Waiting
<1>7. CASE UNCHANGED BZ!vars
  BY <1>7 DEF BZ!vars, BuzzerInv, BZ!Waiting
<1> QED
  BY <1>1, <1>2, <1>3, <1>4, <1>5, <1>6, <1>7 DEF BZ!Next

\* The buzzer is silent when the melody and all signals are over, however
\* many of them sounded at once (_melodyTask, _ringTask of the washer).
THEOREM BuzzerFallsSilent ==
    ASSUME BZ!CountsAreNatural
    PROVE  BZ!Spec => []SilentInTheEnd
<1>1. BZ!Init => BuzzerInv
  <2> SUFFICES ASSUME BZ!Init PROVE BuzzerInv
    OBVIOUS
  <2>1. ring \in [Rings -> Nat] /\ melody = BZ!Waiting
    BY DEF BZ!Init
  <2>2. ~buzzing /\ buzzing \in BOOLEAN
    BY DEF BZ!Init
  <2> QED
    BY <2>1, <2>2 DEF BuzzerInv, BZ!Waiting
<1>2. BuzzerInv => SilentInTheEnd
  BY DEF BuzzerInv, BZ!Waiting, SilentInTheEnd, BZ!SilentInTheEnd, BZ!Waiting
<1>3. BuzzerInv /\ [BZ!Next]_(BZ!vars) => BuzzerInv'
  BY BZ!CountsAreNatural, BuzzerInvIsInductive
<1> QED
  BY BZ!CountsAreNatural, <1>1, <1>2, <1>3, PTL DEF BZ!Spec
=============================================================================
