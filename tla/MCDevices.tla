------------------------------ MODULE MCDevices ------------------------------
(***************************************************************************)
(* Devices of the projects: the cipher box, the tag readers, the two relay *)
(* boards, and keyboard, counter and buzzer of the washer. A build has one *)
(* of them: `build` says which; the variables of the others stay as they   *)
(* are.                                                                    *)
(***************************************************************************)
EXTENDS CipherBox

\* Of the keyboard, the counter and the buzzer.
CONSTANTS
    PullPeriod, RepeatPeriod, EdgeGap, Delay, LongPress, TickWrap,
    Base, FirstTarget, MqttValues,
    NotesSize, Rests, Beeps, Rings

VARIABLES
    build,
    near, states, rfidAt, idx, changed, notified, sender, copied, message, rfidTold, lost,
    rfidMoves, rfidFaults,
    modes, tick, period, lit, minTick, maxTick, relays, relayAt, m, count, mqtt, item, old,
    timers, sent, byApp, tornModes,
    server, client, connected, pause, pulling, answer, network, event, output, freed,
    changes, pullFaults,
    driver, level, button, reading, pushing, pollAge, edgeAge, looks, keyTold, forgot,
    lookAge, seen, missed, downFor, pressGap, verdict,
    value, target, multiplier, counterPc, arg, counterTold,
    melody, stopFlag, beeper, ring, buzzing

rfidVars == <<near, states, rfidAt, idx, changed, notified, sender, copied, message,
              rfidTold, lost, rfidMoves, rfidFaults>>
relayVars == <<modes, tick, period, lit, minTick, maxTick, relays, relayAt, m, count, mqtt,
               item, old, timers, sent, byApp, tornModes>>
pullerVars == <<server, client, connected, pause, pulling, answer, network, event, output,
                freed, changes, pullFaults>>
keyVars == <<driver, level, button, reading, pushing, pollAge, edgeAge, looks, keyTold,
             forgot, lookAge, seen, missed, downFor, pressGap, verdict>>
counterVars == <<value, target, multiplier, counterPc, arg, counterTold>>
buzzerVars == <<melody, stopFlag, beeper, ring, buzzing>>
serverVars == <<rfidVars, relayVars, pullerVars>>
washerVars == <<keyVars, counterVars, buzzerVars>>

RF == INSTANCE Rfids WITH
    Antennas <- {0, 1, 2}, Readers <- 2, Tags <- {1}, Misread <- {2},
    MaxMoves <- 3, MaxFaults <- 2,
    at <- rfidAt, told <- rfidTold, moves <- rfidMoves, faults <- rfidFaults
RE == INSTANCE Relay WITH
    Channels <- {0}, Periods <- {<<3, 3>>}, MaxTick <- 4, MaxMessages <- 2,
    output <- relays, at <- relayAt, torn <- tornModes
HP == INSTANCE HttpPuller WITH
    Lights <- {1, 2}, MaxChanges <- 2, MaxFaults <- 2,
    task <- pulling, faults <- pullFaults
KB == INSTANCE Keyboard WITH told <- keyTold
CN == INSTANCE Counter WITH pc <- counterPc, told <- counterTold
BZ == INSTANCE Buzzer WITH notified <- beeper

ASSUME KB!TimesFit
ASSUME CN!TargetIsAhead
ASSUME BZ!CountsAreNatural

Builds == {"cipher box", "rfids", "relay", "http relay", "keyboard", "counter", "buzzer"}

\* The second socket starts empty: to bound the number of states.
MCInit ==
    /\ build \in Builds
    /\ Init /\ RF!Init /\ RE!Init /\ HP!Init /\ KB!Init /\ CN!Init /\ BZ!Init
    /\ plugs[1] = 0 /\ (build # "cipher box" => plugs[0] = 0)
    /\ build # "http relay" => server = [l \in {1, 2} |-> "off"]
    /\ build # "keyboard" => driver = "poll" /\ level = "up"

Cipher == build = "cipher box" /\ UNCHANGED <<build, serverVars, washerVars>>
Rfid == build = "rfids" /\ UNCHANGED <<build, vars, relayVars, pullerVars, washerVars>>
Dimmed == build = "relay" /\ UNCHANGED <<build, vars, rfidVars, pullerVars, washerVars>>
Pulled == build = "http relay" /\ UNCHANGED <<build, vars, rfidVars, relayVars, washerVars>>
Keys == build = "keyboard" /\ UNCHANGED <<build, vars, serverVars, counterVars, buzzerVars>>
Counted == build = "counter" /\ UNCHANGED <<build, vars, serverVars, keyVars, buzzerVars>>
Buzzed == build = "buzzer" /\ UNCHANGED <<build, vars, serverVars, keyVars, counterVars>>

MCNext ==
    \/ Cipher /\ Next
    \/ Rfid /\ RF!Next
    \/ Dimmed /\ RE!Next
    \/ Pulled /\ HP!Next
    \/ Keys /\ KB!Next
    \/ Counted /\ CN!Next
    \/ Buzzed /\ BZ!Next

MCVars == <<build, vars, serverVars, washerVars>>

\* The fairness of the module that is built.
MCFairness ==
    /\ WF_MCVars(Cipher /\ TimePasses) /\ WF_MCVars(Cipher /\ ReadSocket)
    /\ WF_MCVars(Cipher /\ Revive(Sockets)) /\ WF_MCVars(Cipher /\ StartScan)
    /\ WF_MCVars(Cipher /\ Judge) /\ WF_MCVars(Cipher /\ Send(TRUE))
    /\ WF_MCVars(Rfid /\ RF!ReadAntenna) /\ WF_MCVars(Rfid /\ RF!TakeNotice)
    /\ WF_MCVars(Rfid /\ RF!Copy) /\ WF_MCVars(Rfid /\ RF!PostDone(TRUE))
    /\ WF_MCVars(Dimmed /\ RE!WakeUp) /\ WF_MCVars(Dimmed /\ RE!Dim(0))
    /\ SF_MCVars(Dimmed /\ RE!Client)
    /\ WF_MCVars(Dimmed /\ (\E k \in DOMAIN timers : RE!Restore(k)))
    /\ WF_MCVars(Pulled /\ HP!NetworkComes) /\ WF_MCVars(Pulled /\ HP!Deinit)
    /\ WF_MCVars(Pulled /\ HP!InitRequest) /\ WF_MCVars(Pulled /\ HP!StartRequest)
    /\ WF_MCVars(Pulled /\ HP!Act) /\ WF_MCVars(Pulled /\ HP!Answered)
    /\ WF_MCVars(Pulled /\ HP!RequestFails /\ ~(client /\ network))
    /\ WF_MCVars(Keys /\ KB!Tick)
    /\ \A t \in KB!Threads : WF_MCVars(Keys /\ KB!Work(t))

MCSpec == MCInit /\ [][MCNext]_MCVars /\ MCFairness

-----------------------------------------------------------------------------
\* TagsAreTold of Rfids: in the end the server knows every tag.
TagsAreTold == RF!TagsAreTold
\* ModeIsApplied of Relay: in the end the outputs are as the modes say.
ModeIsApplied == RE!ModeIsApplied
\* ServerIsFollowed of HttpPuller: in the end the relays are what the server says.
ServerIsFollowed == HP!ServerIsFollowed
\* SettledIsSeen of Keyboard: a button that rests is told of as it is.
SettledIsSeen == KB!SettledIsSeen
\* LongHoldForgets of Keyboard: only a long hold makes the device forget its network.
LongHoldForgets == KB!LongHoldForgets
\* TargetIsTold of Counter: a counter at its target has told so.
TargetIsTold == CN!TargetIsTold
\* SilentInTheEnd of Buzzer: the buzzer does not sound on when nobody plays.
SilentInTheEnd == BZ!SilentInTheEnd
=============================================================================
