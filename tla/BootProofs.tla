----------------------------- MODULE BootProofs ------------------------------
(***************************************************************************)
(* The boot state machine for every length of the queue, every number of   *)
(* attempts and of restarts. That a lost network is reported is not        *)
(* inductive: a FAILED_TO_CONNECT would be dropped by a state that was     *)
(* entered before wifi was launched, and the budget of attempts is whole   *)
(* only because every way to a connection restores it.                     *)
(***************************************************************************)
EXTENDS Boot, SequenceTheorems, TLAPS

States == {"HwInit", "Provision", "WifiInit", "TimeInit", "Work"}
Radios == {"off", "connecting", "up", "idle", "ap_starting", "ap"}

TypesAgree ==
  /\ queue \in Seq(Events)
  /\ pending \in [Tasks -> Events \cup {NoEvent}]
  /\ state \in States /\ radio \in Radios /\ reconnectAttempts \in Nat

BootInv ==
  /\ TypesAgree
  /\ state \in {"HwInit", "Provision"} => radio = "off"
  /\ radio = "up" => reconnectAttempts = 0
  /\ LostNetworkIsReported

-----------------------------------------------------------------------------
\* What is not the head stays in the queue, and nothing leaves by an append.
LEMMA OthersStayQueued ==
    ASSUME NEW S, NEW q \in Seq(S), q # <<>>, NEW e \in ToSet(q), e # Head(q)
    PROVE  e \in ToSet(Tail(q))
<1>1. Len(q) \in Nat \ {0} /\ DOMAIN q = 1 .. Len(q)
  BY EmptySeq, LenProperties
<1>2. /\ Tail(q) \in Seq(S) /\ Len(Tail(q)) = Len(q) - 1
      /\ \A i \in 1 .. Len(Tail(q)) : Tail(q)[i] = q[i + 1]
      /\ Head(q) = q[1]
  BY HeadTailProperties
<1>3. DOMAIN Tail(q) = 1 .. Len(Tail(q))
  BY <1>2, LenProperties
<1>4. PICK i \in DOMAIN q : q[i] = e
  BY DEF ToSet
<1>5. i # 1 /\ i - 1 \in 1 .. Len(Tail(q)) /\ Tail(q)[i - 1] = e
  BY <1>1, <1>2, <1>4
<1> QED
  BY <1>3, <1>5 DEF ToSet

LEMMA AppendedIsQueued ==
    ASSUME NEW S, NEW q \in Seq(S), NEW x \in S
    PROVE  ToSet(Append(q, x)) = ToSet(q) \cup {x}
<1>1. Len(q) \in Nat /\ DOMAIN q = 1 .. Len(q)
  BY LenProperties
<1>2. /\ Append(q, x) \in Seq(S) /\ Len(Append(q, x)) = Len(q) + 1
      /\ \A i \in 1 .. Len(q) : Append(q, x)[i] = q[i]
      /\ Append(q, x)[Len(q) + 1] = x
  BY AppendProperties
<1>3. DOMAIN Append(q, x) = 1 .. (Len(q) + 1)
  BY <1>2, LenProperties
<1> QED
  BY <1>1, <1>2, <1>3 DEF ToSet

\* A task pushes: nothing that was on its way is lost.
LEMMA PushKeepsOthers ==
    ASSUME TypesAgree, NEW t \in Tasks, Idle(t), NEW e \in Events,
           \/ pending' = [pending EXCEPT ![t] = e]
           \/ pending' = pending,
           queue' = queue, NEW f \in Events, OnItsWay(f)
    PROVE  OnItsWay(f)'
<1>1. f # NoEvent
  BY DEF Events, NoEvent
<1> QED
  BY <1>1 DEF TypesAgree, OnItsWay, Idle, ToSet, Tasks

\* Main takes an event: every other one is still on its way.
LEMMA DispatchKeepsOthers ==
    ASSUME TypesAgree, NEW e \in Events, Dispatch(e), NEW f \in Events, f # e, OnItsWay(f),
           \/ pending' = [pending EXCEPT !["main"] = "TRANSITION"]
           \/ pending' = pending
    PROVE  OnItsWay(f)'
<1>1. f # NoEvent /\ queue # <<>> /\ Head(queue) = e /\ queue' = Tail(queue)
      /\ pending["main"] = NoEvent
  BY DEF Events, NoEvent, Dispatch, Idle
<1>2. CASE f \in ToSet(queue)
  <2>1. f \in ToSet(Tail(queue))
    BY <1>1, <1>2, OthersStayQueued DEF TypesAgree
  <2> QED
    BY <1>1, <2>1 DEF OnItsWay, ToSet
<1>3. CASE \E t \in Tasks : pending[t] = f
  BY <1>1, <1>3 DEF OnItsWay, TypesAgree, Tasks
<1> QED
  BY <1>2, <1>3 DEF OnItsWay

\* An event that gets into the queue pushes no other out.
LEMMA EnqueueKeepsOthers ==
    ASSUME TypesAgree, NEW t \in Tasks, Enqueue(t), NEW f \in Events, OnItsWay(f)
    PROVE  OnItsWay(f)'
<1>1. /\ queue' = Append(queue, pending[t]) /\ pending[t] \in Events
      /\ pending' = [pending EXCEPT ![t] = NoEvent]
  BY DEF Enqueue, TypesAgree
<1>2. ToSet(queue') = ToSet(queue) \cup {pending[t]}
  BY <1>1, AppendedIsQueued DEF TypesAgree
<1>3. CASE f \in ToSet(queue) \/ pending[t] = f
  BY <1>2, <1>3 DEF OnItsWay, ToSet
<1>4. CASE \E u \in Tasks \ {t} : pending[u] = f
  BY <1>1, <1>4 DEF OnItsWay, TypesAgree, Tasks
<1> QED
  BY <1>3, <1>4 DEF OnItsWay

-----------------------------------------------------------------------------
\* Main handles an event. What it does to the radio is one of a few things.
MainDoes(e) ==
  /\ Dispatch(e)
  /\ pending' = pending \/ pending' = [pending EXCEPT !["main"] = "TRANSITION"]
  /\ state' \in States
  /\ \/ UNCHANGED <<radio, reconnectAttempts>>
        /\ (state' \in {"HwInit", "Provision"} => state \in {"HwInit", "Provision"})
        /\ (e = "FAILED_TO_CONNECT" => state \in {"HwInit", "Provision"})
     \/ /\ radio' = "connecting" /\ reconnectAttempts' = 0
        /\ state' \notin {"HwInit", "Provision"}
     \/ /\ radio' = "ap_starting" /\ reconnectAttempts' = reconnectAttempts
        /\ state' \notin {"HwInit", "Provision"}

\* Main handles the first event of the queue: what that does to state, radio and attempts.
LEMMA WhatMainDoes ==
    ASSUME BootInv, MainHandles
    PROVE  \E e \in Events : MainDoes(e)
<1>1. CASE HandleTransition
  <2>1. Dispatch("TRANSITION") /\ "TRANSITION" \in Events
    BY <1>1 DEF HandleTransition, Events
  <2>2. MainDoes("TRANSITION")
    BY <1>1, <2>1 DEF HandleTransition, EnterWork, MainDoes, States, radioVars
  <2> QED
    BY <2>1, <2>2
<1>2. ASSUME NEW e \in Events, HandleHwInit(e) PROVE MainDoes(e)
  <2>1. state = "HwInit" /\ Dispatch(e) /\ pending' = pending
    BY <1>2 DEF HandleHwInit
  <2>2. EnterWifiInit \/ EnterProvision \/ UNCHANGED <<state, radioVars>>
    BY <1>2 DEF HandleHwInit
  <2> QED
    BY <2>1, <2>2 DEF EnterWifiInit, EnterProvision, MainDoes, States, radioVars
<1>3. ASSUME NEW e \in Events, HandleProvision(e) PROVE MainDoes(e)
  <2>1. state = "Provision" /\ Dispatch(e) /\ pending' = pending
    BY <1>3 DEF HandleProvision
  <2>2. EnterWifiInit \/ UNCHANGED <<state, radioVars>>
    BY <1>3 DEF HandleProvision
  <2> QED
    BY <2>1, <2>2 DEF EnterWifiInit, MainDoes, States, radioVars
<1>4. ASSUME NEW e \in Events, HandleWifiInit(e) PROVE MainDoes(e)
  <2>1. state = "WifiInit" /\ Dispatch(e)
    BY <1>4 DEF HandleWifiInit
  <2>2. \/ EnterTimeInit /\ UNCHANGED pending /\ e = "CONNECTED"
        \/ Push("main", "TRANSITION") /\ Stay /\ e \in {"CONNECTED", "AP_STARTED"}
        \/ Reconnect /\ UNCHANGED <<pending, state>>
        \/ Stay /\ UNCHANGED pending /\ e # "FAILED_TO_CONNECT"
    BY <1>4 DEF HandleWifiInit
  <2> QED
    BY <2>1, <2>2
       DEF EnterTimeInit, Reconnect, Stay, Push, MainDoes, States, radioVars
<1>5. ASSUME NEW e \in Events, HandleTimeInit(e) PROVE MainDoes(e)
  <2>1. state = "TimeInit" /\ Dispatch(e)
    BY <1>5 DEF HandleTimeInit
  <2>2. \/ Push("main", "TRANSITION") /\ Stay /\ e = "SYNCED"
        \/ EnterWifiInit /\ UNCHANGED pending
        \/ Stay /\ UNCHANGED pending /\ e # "FAILED_TO_CONNECT"
    BY <1>5 DEF HandleTimeInit
  <2> QED
    BY <2>1, <2>2 DEF EnterWifiInit, Stay, Push, MainDoes, States, radioVars
<1>6. ASSUME NEW e \in Events, HandleWork(e) PROVE MainDoes(e)
  BY <1>6 DEF HandleWork, WorkReconnects, Reconnect, MainDoes, States, radioVars
<1> QED
  BY <1>1, <1>2, <1>3, <1>4, <1>5, <1>6 DEF MainHandles

LEMMA MainKeepsInv == ASSUME BootInv, MainHandles PROVE BootInv'
<1>1. PICK e \in Events : MainDoes(e)
  BY WhatMainDoes
<1>2. TypesAgree'
  <2>1. queue' \in Seq(Events)
    BY <1>1, HeadTailProperties DEF MainDoes, Dispatch, BootInv, TypesAgree
  <2>2. pending' \in [Tasks -> Events \cup {NoEvent}]
    BY <1>1 DEF MainDoes, BootInv, TypesAgree, Events
  <2> QED
    BY <1>1, <2>1, <2>2 DEF MainDoes, BootInv, TypesAgree, Radios
<1>3. LostNetworkIsReported'
  <2> SUFFICES ASSUME radio' = "idle" PROVE OnItsWay("FAILED_TO_CONNECT")'
    BY DEF LostNetworkIsReported
  <2>1. radio = "idle" /\ e # "FAILED_TO_CONNECT" /\ OnItsWay("FAILED_TO_CONNECT")
    BY <1>1 DEF MainDoes, BootInv, LostNetworkIsReported
  <2> QED
    BY <1>1, <2>1, DispatchKeepsOthers DEF MainDoes, BootInv, Events
<1>4. /\ state' \in {"HwInit", "Provision"} => radio' = "off"
      /\ radio' = "up" => reconnectAttempts' = 0
  BY <1>1 DEF MainDoes, BootInv
<1> QED
  BY <1>2, <1>3, <1>4 DEF BootInv

\* A producer pushes at most one event, of a task that is not blocked.
ProducerDoes(t, e) ==
  /\ Idle(t) /\ queue' = queue /\ state' = state
  /\ pending' = pending \/ pending' = [pending EXCEPT ![t] = e]
  /\ \/ UNCHANGED <<radio, reconnectAttempts>>
     \/ /\ radio \in {"connecting", "up"} /\ reconnectAttempts' \in Nat
        /\ \/ /\ radio' = "idle" /\ e = "FAILED_TO_CONNECT"
              /\ pending' = [pending EXCEPT ![t] = e]
           \/ radio' = "connecting"
           \/ radio' = "up" /\ reconnectAttempts' = 0
     \/ radio # "off" /\ radio' = "ap" /\ UNCHANGED reconnectAttempts

\* A producer has one event pending, or changes nothing that the proof is about.
LEMMA WhatProducersDo ==
    ASSUME BootInv, Producers
    PROVE  \/ \E t \in Tasks, e \in Events : ProducerDoes(t, e)
           \/ UNCHANGED <<queue, pending, state, radio, reconnectAttempts>>
<1>1. CASE StaDisconnected
  <2>1. reconnectAttempts' \in Nat
    BY <1>1 DEF StaDisconnected, BootInv, TypesAgree
  <2>2. ProducerDoes("sys_evt", "FAILED_TO_CONNECT")
    BY <1>1, <2>1 DEF StaDisconnected, StationOnly, Push, ProducerDoes
  <2> QED
    BY <2>2 DEF Tasks, Events
<1>2. CASE StaGotIp
  <2>1. ProducerDoes("sys_evt", "CONNECTED")
    BY <1>2 DEF StaGotIp, StationOnly, Push, ProducerDoes
  <2> QED
    BY <2>1 DEF Tasks, Events
<1>3. CASE ApStarted
  <2>1. ProducerDoes("sys_evt", "AP_STARTED")
    BY <1>3 DEF ApStarted, StationOnly, Push, ProducerDoes
  <2> QED
    BY <2>1 DEF Tasks, Events
<1>4. CASE ApClientChanges
  <2>1. PICK e \in {"DISCONNECTED", "CONNECTED"} : Push("sys_evt", e)
    BY <1>4 DEF ApClientChanges
  <2>2. ProducerDoes("sys_evt", e)
    BY <1>4, <2>1 DEF ApClientChanges, Push, ProducerDoes
  <2> QED
    BY <2>2 DEF Tasks, Events
<1>5. ASSUME NEW mode \in Modes, ProvisionMode(mode)
      PROVE  UNCHANGED <<queue, pending, state, radio, reconnectAttempts>>
  BY <1>5 DEF ProvisionMode, radioVars
<1>6. CASE ProvisionCredentials
  <2>1. ProducerDoes("sys_evt", "PROVISIONED")
    BY <1>6 DEF ProvisionCredentials, ProducerDoes, radioVars
  <2> QED
    BY <2>1 DEF Tasks, Events
<1>7. ASSUME NEW accepted \in BOOLEAN, ProvisionVerdict(accepted)
      PROVE  ProducerDoes("sys_evt", "PROVISIONED")
  BY <1>7 DEF ProvisionVerdict, Push, ProducerDoes, radioVars
<1>8. CASE TimeSynced
  <2>1. ProducerDoes("tcpip", "SYNCED")
    BY <1>8 DEF TimeSynced, Push, ProducerDoes, radioVars
  <2> QED
    BY <2>1 DEF Tasks, Events
<1>9. CASE SensorsInitialized
  <2>1. ProducerDoes("sensors", "ALL_SENSORS_INIT")
    BY <1>9 DEF SensorsInitialized, Push, ProducerDoes, radioVars
  <2> QED
    BY <2>1 DEF Tasks, Events
<1>10. CASE SensorReports
  <2>1. ProducerDoes("sensors", "VALUE_CHANGED")
    BY <1>10 DEF SensorReports, Push, ProducerDoes, radioVars
  <2> QED
    BY <2>1 DEF Tasks, Events
<1>11. CASE UpdateEnds
  <2>1. ProducerDoes("httpd", "UPDATE_END")
    BY <1>11 DEF UpdateEnds, Push, ProducerDoes, radioVars
  <2> QED
    BY <2>1 DEF Tasks, Events
<1> QED
  BY <1>1, <1>2, <1>3, <1>4, <1>5, <1>6, <1>7, <1>8, <1>9, <1>10, <1>11
     DEF Producers, Tasks, Events

LEMMA ProducersKeepInv == ASSUME BootInv, Producers PROVE BootInv'
<1>1. CASE UNCHANGED <<queue, pending, state, radio, reconnectAttempts>>
  BY <1>1 DEF BootInv, TypesAgree, LostNetworkIsReported, OnItsWay, ToSet
<1>2. ASSUME NEW t \in Tasks, NEW e \in Events, ProducerDoes(t, e) PROVE BootInv'
  <2>1. TypesAgree'
    BY <1>2 DEF ProducerDoes, BootInv, TypesAgree, Radios
  <2>2. /\ state' \in {"HwInit", "Provision"} => radio' = "off"
        /\ radio' = "up" => reconnectAttempts' = 0
    BY <1>2 DEF ProducerDoes, BootInv
  <2>3. ASSUME radio' = "idle" PROVE OnItsWay("FAILED_TO_CONNECT")'
    <3>1. CASE radio = "idle"
      BY <1>2, <3>1, PushKeepsOthers
         DEF ProducerDoes, BootInv, LostNetworkIsReported, Events
    <3>2. CASE radio # "idle"
      <4>1. pending' = [pending EXCEPT ![t] = "FAILED_TO_CONNECT"]
        BY <1>2, <2>3, <3>2 DEF ProducerDoes
      <4> QED
        BY <4>1 DEF BootInv, TypesAgree, OnItsWay, Tasks
    <3> QED
      BY <3>1, <3>2
  <2> QED
    BY <2>1, <2>2, <2>3 DEF BootInv, LostNetworkIsReported
<1> QED
  BY <1>1, <1>2, WhatProducersDo

\* A pending event that gets into the queue is on its way as before.
LEMMA EnqueueKeepsInv == ASSUME BootInv, NEW t \in Tasks, Enqueue(t) PROVE BootInv'
<1>1. /\ queue' = Append(queue, pending[t]) /\ pending[t] \in Events
      /\ pending' = [pending EXCEPT ![t] = NoEvent]
      /\ UNCHANGED <<state, radio, reconnectAttempts>>
  BY DEF Enqueue, BootInv, TypesAgree, radioVars
<1>2. queue' \in Seq(Events)
  BY <1>1, AppendProperties DEF BootInv, TypesAgree
<1>3. TypesAgree'
  BY <1>1, <1>2 DEF BootInv, TypesAgree
<1>4. LostNetworkIsReported'
  <2>1. "FAILED_TO_CONNECT" \in Events
    BY DEF Events
  <2> QED
    BY <1>1, <2>1, EnqueueKeepsOthers DEF BootInv, LostNetworkIsReported
<1> QED
  BY <1>1, <1>3, <1>4 DEF BootInv

LEMMA BootInvIsInductive == ASSUME BootInv, [Next]_vars PROVE BootInv'
<1>1. CASE UNCHANGED vars
  BY <1>1 DEF vars, BootInv, TypesAgree, radioVars, LostNetworkIsReported, OnItsWay, ToSet
<1>2. CASE StartAgain
  <2>1. << >> \in Seq(Events)
    OBVIOUS
  <2> QED
    BY <1>2, <2>1
       DEF StartAgain, PushesBoot, BootInv, TypesAgree, States, Radios, Events, Tasks,
           LostNetworkIsReported
<1> QED
  BY <1>1, <1>2, MainKeepsInv, ProducersKeepInv, EnqueueKeepsInv DEF Next

LEMMA BootInvAtFirst == ASSUME Init PROVE BootInv
<1>1. << >> \in Seq(Events)
  OBVIOUS
<1> QED
  BY <1>1 DEF Init, PushesBoot, BootInv, TypesAgree, States, Radios, Events, Tasks,
              LostNetworkIsReported

\* When the wifi handlers have given up, a FAILED_TO_CONNECT is on its way to a
\* state that reconnects, whatever else is queued and however often the device
\* started.
THEOREM LostNetworkIsAlwaysReported == Spec => []LostNetworkIsReported
<1>1. Init => BootInv
  BY BootInvAtFirst
<1>2. BootInv /\ [Next]_vars => BootInv'
  BY BootInvIsInductive
<1>3. BootInv => LostNetworkIsReported
  BY DEF BootInv
<1> QED
  BY <1>1, <1>2, <1>3, PTL DEF Spec

\* A connection that is lost gets its attempts: the device gives up straight
\* from "up" only when it may not try at all.
THEOREM NetworkAlwaysGetsItsRetries == Spec => NetworkGetsItsRetries
<1>1. Init => BootInv
  BY BootInvAtFirst
<1>2. BootInv /\ [Next]_vars => BootInv'
  BY BootInvIsInductive
<1>3. ASSUME BootInv, [Next]_vars, radio = "up", radio' = "idle" PROVE MaxRetry = 0
  <2>1. ~MainHandles
    BY <1>3, WhatMainDoes DEF MainDoes
  <2>2. ~StartAgain /\ \A t \in Tasks : ~Enqueue(t)
    BY <1>3 DEF StartAgain, Enqueue, radioVars
  <2>3. Producers
    BY <1>3, <2>1, <2>2 DEF Next, vars, radioVars
  <2>4. StaDisconnected
    BY <1>3, <2>3
       DEF Producers, StaGotIp, ApStarted, ApClientChanges, ProvisionMode,
           ProvisionCredentials, ProvisionVerdict, TimeSynced, SensorsInitialized,
           SensorReports, UpdateEnds, radioVars
  <2>5. reconnectAttempts' = 1 /\ reconnectAttempts' > MaxRetry
    BY <1>3, <2>4 DEF StaDisconnected, BootInv
  <2> QED
    BY <2>5, BootAssumption DEF BootAssumption
<1> QED
  BY <1>1, <1>2, <1>3, PTL DEF Spec, NetworkGetsItsRetries
=============================================================================
