------------------------------ MODULE CipherBox ------------------------------
(***************************************************************************)
(* The cipher box: a task reads the sockets of the box, one after another, *)
(* through the expander chip on the i2c bus, and posts the readings to a   *)
(* server (or publishes them, retained, to a broker) once a plug that      *)
(* changed has been at rest for the bounce time.                           *)
(***************************************************************************)
EXTENDS Integers, FiniteSets

CONSTANTS
    Sockets,    \* 0 .. n - 1, in the order they are read
    Values,     \* what the resistors of the plugs measure; 0 is an empty socket
    Error,      \* settings: readings that differ by no more are the same
    Bounce,     \* settings: the rest that makes a reading stable, in ticks
    Readings,   \* settings: readings averaged into one
    MaxMoves,   \* bound: plugs put in or taken out
    MaxFaults   \* bound: failures of bus, chip and network

ASSUME SocketsInOrder == Sockets = 0 .. Cardinality(Sockets) - 1

\* The resistors are chosen so far apart that no average of two of them hides
\* the change from one to the other.
ASSUME ValuesAreApart ==
    /\ Error \in Nat /\ 0 \in Values
    /\ \A v, w \in Values : v < w => w - v > 2 * Error

VARIABLES
    plugs,              \* what is in each socket
    ready,              \* the sockets whose pins of the chip are set up
    i2cError,           \* _i2cErrorFlag
    pc, at,             \* where the task is, and the socket it reads
    state, prevState,   \* the readings of this scan and of the one before
    broken,             \* sockets of this scan whose reading failed
    age, sended,        \* per socket: time since timestampUs, and the flag
    changedFlag,
    told,               \* what the server was told last
    moves, faults

box == <<plugs, moves>>
task == <<pc, at, state, prevState, broken, age, sended, changedFlag>>
vars == <<box, ready, i2cError, task, told, faults>>

Nothing == [s \in Sockets |-> 0]
Apart(v, w) == v - w > Error \/ w - v > Error

Init ==
    /\ plugs \in [Sockets -> Values]
    /\ ready = Sockets
    /\ i2cError = FALSE
    /\ pc = "first" /\ at = 0
    /\ state = Nothing /\ prevState = Nothing /\ broken = {}
    /\ age = [s \in Sockets |-> 0]
    /\ sended = [s \in Sockets |-> FALSE]
    /\ changedFlag = FALSE
    /\ told = <<>>
    /\ moves = 0 /\ faults = 0

-----------------------------------------------------------------------------
(* The box, the chip and the time                                          *)

Move(s, v) ==
    /\ moves < MaxMoves /\ moves' = moves + 1
    /\ v # plugs[s]
    /\ plugs' = [plugs EXCEPT ![s] = v]
    /\ UNCHANGED <<ready, i2cError, task, told, faults>>

\* The chip restarts, and what it was set up for is gone.
ChipRestarts ==
    /\ faults < MaxFaults /\ faults' = faults + 1
    /\ ready' = {}
    /\ UNCHANGED <<box, i2cError, task, told>>

TimePasses ==
    /\ \E s \in Sockets : age[s] <= Bounce
    /\ age' = [s \in Sockets |-> IF age[s] > Bounce THEN age[s] ELSE age[s] + 1]
    /\ UNCHANGED <<box, ready, i2cError, pc, at, state, prevState, broken, sended,
                   changedFlag, told, faults>>

-----------------------------------------------------------------------------
(* readPins(): the lines of the multiplexer select one socket after the    *)
(* other                                                                   *)

Scanning == pc \in {"first", "scan"}

\* The reading is kept; after the last socket the scan is judged.
Read(reading) ==
    /\ state' = [state EXCEPT ![at] = reading]
    /\ IF at + 1 \in Sockets
       THEN at' = at + 1 /\ UNCHANGED <<pc, prevState>>
       ELSE /\ at' = 0
            /\ IF pc = "first" THEN pc' = "top" /\ prevState' = state'
                               ELSE pc' = "judge" /\ UNCHANGED prevState
    /\ UNCHANGED <<age, sended, changedFlag, told>>

\* A socket whose pins are not set up reads as an empty one.
ReadSocket ==
    /\ Scanning
    /\ broken' = IF at = 0 THEN {} ELSE broken
    /\ Read(IF at \in ready THEN plugs[at] ELSE 0)
    /\ UNCHANGED <<box, ready, i2cError, faults>>

\* The plug is moved after n of the readings.
ReadMoving(v, n) ==
    /\ Scanning /\ at \in ready
    /\ moves < MaxMoves /\ moves' = moves + 1
    /\ v # plugs[at]
    /\ plugs' = [plugs EXCEPT ![at] = v]
    /\ broken' = IF at = 0 THEN {} ELSE broken
    /\ Read((n * plugs[at] + (Readings - n) * v) \div Readings)
    /\ UNCHANGED <<ready, i2cError, faults>>

\* A call fails: the flag is set by the callback, and the value stays 0.
ReadFails ==
    /\ Scanning
    /\ faults < MaxFaults /\ faults' = faults + 1
    /\ i2cError' = TRUE
    /\ broken' = (IF at = 0 THEN {} ELSE broken) \cup {at}
    /\ Read(0)
    /\ UNCHANGED <<box, ready>>

-----------------------------------------------------------------------------
(* _monitorTask()                                                          *)

\* The flag is cleared after _initExpander(), whatever became of its calls.
Revive(done) ==
    /\ pc = "top" /\ i2cError
    /\ IF done = Sockets THEN UNCHANGED faults
                         ELSE faults < MaxFaults /\ faults' = faults + 1
    /\ ready' = ready \cup done
    /\ i2cError' = FALSE
    /\ UNCHANGED <<box, task, told>>

StartScan ==
    /\ pc = "top" /\ ~i2cError
    /\ pc' = "scan"
    /\ UNCHANGED <<box, ready, i2cError, at, state, prevState, broken, age, sended,
                   changedFlag, told, faults>>

\* A mutant: the flag is not looked at after the scan.
ScanFailedNever == FALSE

ScanFailed == i2cError

Scrap ==
    /\ pc' = "top"
    /\ UNCHANGED <<prevState, age, sended, changedFlag, i2cError>>

\* Each socket is compared with the scan before; one that rested long enough
\* and was not told since calls for a message. An array of zeros is an error.
Compare ==
    LET unlike == {s \in Sockets : Apart(prevState[s], state[s])}
        rested == {s \in Sockets \ unlike : age[s] > Bounce /\ ~sended[s]}
    IN  /\ age' = [s \in Sockets |-> IF s \in unlike THEN 0 ELSE age[s]]
        /\ sended' = [s \in Sockets |-> IF s \in unlike THEN FALSE
                                        ELSE sended[s] \/ s \in rested]
        /\ changedFlag' = (changedFlag \/ rested # {})
        /\ IF state = Nothing
           THEN i2cError' = TRUE /\ pc' = "top" /\ UNCHANGED prevState
           ELSE /\ prevState' = state
                /\ pc' = (IF changedFlag' THEN "send" ELSE "top")
                /\ UNCHANGED i2cError

Judge ==
    /\ pc = "judge"
    /\ IF ScanFailed THEN Scrap ELSE Compare
    /\ UNCHANGED <<box, ready, at, state, broken, told, faults>>

\* HttpRequest::post() makes its client anew after a failure, and
\* MqttClient::publish() keeps its own: either can be called again.
Post(ok) ==
    IF ok THEN told' = prevState /\ UNCHANGED faults
          ELSE faults < MaxFaults /\ faults' = faults + 1 /\ UNCHANGED told

\* A mutant: a message that could not be sent is not tried again.
SendOnce(ok) ==
    /\ pc = "send" /\ pc' = "top"
    /\ Post(ok)
    /\ changedFlag' = FALSE
    /\ UNCHANGED <<box, ready, i2cError, at, state, prevState, broken, age, sended>>

Send(ok) ==
    /\ pc = "send" /\ pc' = "top"
    /\ Post(ok)
    /\ changedFlag' = ~ok
    /\ UNCHANGED <<box, ready, i2cError, at, state, prevState, broken, age, sended>>

-----------------------------------------------------------------------------
Next ==
    \/ \E s \in Sockets, v \in Values : Move(s, v)
    \/ ChipRestarts
    \/ TimePasses
    \/ ReadSocket
    \/ \E v \in Values, n \in 1 .. Readings - 1 : ReadMoving(v, n)
    \/ ReadFails
    \/ \E done \in SUBSET Sockets : Revive(done)
    \/ StartScan
    \/ Judge
    \/ \E ok \in BOOLEAN : Send(ok)

Fairness ==
    /\ WF_vars(TimePasses)
    /\ WF_vars(ReadSocket)
    /\ WF_vars(Revive(Sockets))
    /\ WF_vars(StartScan)
    /\ WF_vars(Judge)
    /\ WF_vars(Send(TRUE))

Spec == Init /\ [][Next]_vars /\ Fairness

-----------------------------------------------------------------------------
(* Readings of a scan in which a call failed are scrapped: no message says *)
(* of a plug what a failed reading left (the second test of the flag).     *)
NoFailureIsTold == pc = "send" => broken = {}

(* A reading is told right if it differs from the plug by no more than the *)
(* tolerance, as the average of a moment in which it was moved may.        *)
ToldRight == told # <<>> /\ \A s \in Sockets : ~Apart(told[s], plugs[s])
Empty == plugs = Nothing
SetUp == ready = Sockets

(* However plugs, bus, chip and network behaved before, the server knows   *)
(* in the end what is in the sockets: the debounce forgets no change and a *)
(* failed post is repeated. Left out are a box all of whose sockets are    *)
(* empty and a chip that was only half set up, which _monitorTask() does   *)
(* not notice.                                                             *)
PlugsAreTold == <>[](ToldRight \/ Empty \/ ~SetUp)
=============================================================================
