------------------------------ MODULE DmxLight ------------------------------
(***************************************************************************)
(* The DMX lamp controller. Messages of the mqtt broker set channels, start *)
(* sceneries on channels or clear everything; a task of its own plays the  *)
(* sceneries and sends the frame of all the channels 50 times a second.    *)
(* The handler of a message and the task share the sceneries (under a lock *)
(* held for one operation) and the frame buffer (without one).             *)
(***************************************************************************)
EXTENDS Integers, Sequences, SequencesExt, Functions

CONSTANTS
    LastChannel,    \* 511
    MaxVal,         \* 255
    Longest,        \* 255, the length the arrays of a message are said to have
    MaxTicks,       \* 65535, the longest time in ticks of 20 ms
    MaxRepeat,      \* 32767, the largest value of a counter
    Messages,       \* what the broker may deliver
    MaxMessages,    \* bound on messages and properties taken
    MaxFaults,      \* bound on losses of the broker or of the network
    MaxPlayed       \* bound on the ticks remembered of a scenery

ASSUME LimitsAreNatural ==
    {LastChannel, MaxVal, Longest, MaxTicks, MaxRepeat, MaxPlayed} \subseteq Nat \ {0}

\* The fields the handlers read. Times are in ticks; T has gone through the 16
\* bits of BaseEntry, and a field that is missing has its default.
ASSUME MessagesAreJson ==
    \A m \in Messages :
        CASE m.topic = "rgb" -> m.data \in Seq(Int)
          [] m.topic = "func" ->
                m.data \in Seq([i : Int, v : Int, a : Int, b : Int,
                                T : 0..MaxTicks, cycle : BOOLEAN])
          [] m.topic = "scenery" ->
                m.data \in Seq([i : Seq(Int), vals : Seq(Int), times : Seq(Int),
                                repeat : Seq([f : Int, t : Int, c : Int])])
          [] m.topic = "relay" -> m.data \in Int
          [] OTHER -> m.topic = "clear"

VARIABLES
    scenes,         \* SceneryHandler::_entries: channel |-> scenery
    buffer,         \* DmxHal::_buffer
    frame,          \* what was sent last
    task,           \* next statement of the task: "tick" or "send"
    todo,           \* what is left of the message in hand
    relay,          \* the relay of the second version of the board
    address,        \* _dmxAddress of the property "Channel value"
    link,           \* the mqtt client: "stopped", "connecting" or "connected"
    taken, faults,  \* counters of the bounds
    played,         \* channel |-> the indexes its scenery sent, one per tick
    cleared         \* the last thing asked of the channels was to clear them

vars == <<scenes, buffer, frame, task, todo, relay, address, link, taken,
          faults, played, cleared>>

Channels == 0..LastChannel
INFINITE == -1
Missing == -2       \* a field the message does not have
Byte(v) == v % (MaxVal + 1)

-----------------------------------------------------------------------------
(* Parsing a message                                                       *)

InBounds(v, low, high) == low <= v /\ v <= high

\* What the callback of an array keeps: the elements that are legal, until it
\* has as many as it takes.
Accepted(s, legal, most) ==
    LET kept[n \in 0..Len(s)] ==
            IF n = 0 THEN << >>
            ELSE IF s[n] \in legal /\ Len(kept[n - 1]) < most
                 THEN Append(kept[n - 1], s[n])
                 ELSE kept[n - 1]
    IN  kept[Len(s)]

\* The check of the length comes before the value is added: one more than is
\* meant gets in.
ParsedArray(vals, high) ==
    Accepted(vals, {v \in Range(vals) : InBounds(v, 0, high)}, Longest + 1)

OrDefault(v, default) == IF v = Missing THEN default ELSE v

\* A repeat that is out of bounds is left out, the scenery stays.
ParsedRepeat(repeat, length) ==
    LET legal == {r \in Range(repeat) :
                    /\ InBounds(OrDefault(r.f, -1), 0, length - 1)
                    /\ InBounds(OrDefault(r.t, -1), 0, length - 2)
                    /\ InBounds(OrDefault(r.c, -1), INFINITE, MaxRepeat)}
        kept == Accepted(repeat, legal, Len(repeat))
    IN  [i \in DOMAIN kept |->
            [from |-> kept[i].f, to |-> kept[i].t,
             times |-> OrDefault(kept[i].c, INFINITE), counter |-> 0]]

Add(channel, base, repeat) ==
    [op |-> "add", channel |-> channel, base |-> base, repeat |-> repeat]
Write(channel, val) == [op |-> "write", channel |-> channel, val |-> val]
Do(op) == [op |-> op]
Base(val, ticks) == [val |-> val, ticks |-> ticks]

\* The index moves on only past a legal value.
RgbSteps(m) ==
    LET legal == {v \in Range(m.data) : InBounds(v, 0, MaxVal)}
        kept == Accepted(m.data, legal, LastChannel + 1)
    IN  [i \in DOMAIN kept |-> Write(i - 1, kept[i])]

FunctionSteps(o) ==
    LET low == Byte(o.a)
        high == Byte(o.b)
        there == <<Base(low, 0), Base(high, o.T)>>
        loop == [from |-> 2, to |-> 0, times |-> INFINITE, counter |-> 0]
    IN  IF o.v # -1 THEN <<Write(o.i, Byte(o.v))>>
        ELSE IF o.cycle THEN <<Add(o.i, Append(there, Base(low, o.T)), <<loop>>)>>
        ELSE <<Add(o.i, there, << >>)>>

\* One object of "scenery": an error is published and the object left out,
\* or every channel gets a copy, one after the other.
ScenerySteps(o) ==
    LET channels == ParsedArray(o.i, LastChannel)
        vals == ParsedArray(o.vals, MaxVal)
        times == ParsedArray(o.times, MaxTicks)
        base == [n \in DOMAIN vals |-> Base(vals[n], times[n])]
    IN  IF \/ channels = << >> \/ vals = << >> \/ times = << >>
           \/ Len(vals) # Len(times)
        THEN <<Do("error")>>
        ELSE [n \in DOMAIN channels |->
                Add(channels[n], base, ParsedRepeat(o.repeat, Len(vals)))]

RelaySteps(m) == <<[op |-> "relay", val |-> m.data]>>

\* Mutant: the channels are put out before the sceneries are dropped.
ClearZeroFirst(m) == <<Do("zero"), Do("clear")>>
ClearSteps(m) == <<Do("clear"), Do("zero")>>

\* parseObjArray(): the steps of one object after the other.
Each(steps) == FlattenSeq(steps)

HandlerSteps(m) ==
    CASE m.topic = "rgb" -> RgbSteps(m)
      [] m.topic = "func" -> Each([n \in DOMAIN m.data |-> FunctionSteps(m.data[n])])
      [] m.topic = "scenery" -> Each([n \in DOMAIN m.data |-> ScenerySteps(m.data[n])])
      [] m.topic = "relay" -> RelaySteps(m)
      [] m.topic = "clear" -> ClearSteps(m)

-----------------------------------------------------------------------------
(* Playing a scenery                                                       *)

Toward0(a, b) == IF a >= 0 THEN a \div b ELSE -((-a) \div b)

Position(from, to, period, tick) ==
    IF period = 0 THEN from
    ELSE Byte(from + Toward0((to - from) * ((tick * 1000) \div period), 1000))

\* The value of a scenery: on its way from the entry before.
Value(e) ==
    LET now == e.base[e.index + 1]
    IN  Position(e.base[IF e.index = 0 THEN 1 ELSE e.index].val, now.val,
                 now.ticks, e.tickCount)

IsOver(e) == e.index >= Len(e.base)

\* The index is a byte.
Forward(e) == [e EXCEPT !.index = (e.index + 1) % (Longest + 1), !.tickCount = 0]
\* The entry jumped to is at its end at once.
Jump(e, to) == [e EXCEPT !.index = to, !.tickCount = e.base[to + 1].ticks]
Counted(c) == IF c = MaxRepeat THEN -MaxRepeat - 1 ELSE c + 1

FindRepeatPoint(e) == SelectInSeq(e.repeat, LAMBDA r : r.from = e.index)

\* Mutant: the counter of a loop that is through is not reset.
AdvanceKeepsCounter(e) ==
    LET r == FindRepeatPoint(e)
        loop == e.repeat[r]
    IN  CASE r = 0 -> Forward(e)
          [] r # 0 /\ loop.times = INFINITE -> Jump(e, loop.to)
          [] r # 0 /\ loop.times # INFINITE /\ loop.times = loop.counter + 1 -> Forward(e)
          [] OTHER -> Jump([e EXCEPT !.repeat[r].counter = Counted(loop.counter)], loop.to)

\* What follows the entry that has had its time.
Advance(e) ==
    LET r == FindRepeatPoint(e)
        loop == e.repeat[r]
    IN  CASE r = 0 -> Forward(e)
          [] r # 0 /\ loop.times = INFINITE -> Jump(e, loop.to)
          [] r # 0 /\ loop.times # INFINITE /\ loop.times = loop.counter + 1 ->
                Forward([e EXCEPT !.repeat[r].counter = 0])
          [] OTHER ->
                Jump([e EXCEPT !.repeat[r].counter = Counted(loop.counter)], loop.to)

Ticked(e) ==
    LET counted == [e EXCEPT !.tickCount = e.tickCount + 1]
    IN  IF counted.tickCount <= e.base[e.index + 1].ticks THEN counted
        ELSE Advance(counted)

-----------------------------------------------------------------------------

Init ==
    /\ scenes = << >> /\ played = << >>
    /\ buffer = [c \in Channels |-> 0] /\ frame = buffer
    /\ task = "tick" /\ todo = << >> /\ link = "stopped"
    /\ relay = 0 /\ address = 0
    /\ taken = 0 /\ faults = 0
    /\ cleared = TRUE

Remembered(c) ==
    IF Len(played[c]) < MaxPlayed THEN Append(played[c], scenes[c].index) ELSE played[c]

\* SceneryHandler::tick(): a scenery that is over is dropped a tick later.
Tick ==
    /\ task = "tick"
    /\ LET live == {c \in DOMAIN scenes : ~IsOver(scenes[c])}
       IN  /\ buffer' = [c \in Channels |->
                            IF c \in live THEN Value(scenes[c]) ELSE buffer[c]]
           /\ scenes' = [c \in live |-> Ticked(scenes[c])]
           /\ played' = [c \in live |-> Remembered(c)]
    /\ task' = "send"
    /\ UNCHANGED <<frame, todo, relay, address, link, taken, faults, cleared>>

Send ==
    /\ task = "send"
    /\ frame' = buffer
    /\ task' = "tick"
    /\ UNCHANGED <<scenes, buffer, todo, relay, address, link, taken, faults,
                   played, cleared>>

\* MQTT_EVENT_DATA: one message at a time is handled by the client's task.
Receive ==
    /\ link = "connected" /\ todo = << >> /\ taken < MaxMessages
    /\ \E m \in Messages :
          /\ todo' = HandlerSteps(m)
          /\ cleared' = (m.topic = "clear")
    /\ taken' = taken + 1
    /\ UNCHANGED <<scenes, buffer, frame, task, relay, address, link, faults, played>>

Step(op) == todo # << >> /\ Head(todo).op = op /\ todo' = Tail(todo)

\* DmxHal::write() leaves a channel out of range alone.
Written(c, v) == IF c \in Channels THEN [buffer EXCEPT ![c] = v] ELSE buffer

WriteStep ==
    /\ Step("write")
    /\ buffer' = Written(Head(todo).channel, Head(todo).val)
    /\ UNCHANGED <<scenes, frame, task, relay, address, link, taken, faults,
                   played, cleared>>

\* What a channel had gives way to the new.
Put(map, key, val) == [k \in DOMAIN map \cup {key} |-> IF k = key THEN val ELSE map[k]]

\* SceneryHandler::addScenery() replaces the scenery the channel has.
AddStep ==
    /\ Step("add")
    /\ LET s == Head(todo)
           new == [index |-> 0, tickCount |-> 0, base |-> s.base, repeat |-> s.repeat]
       IN  /\ scenes' = Put(scenes, s.channel, new)
           /\ played' = Put(played, s.channel, << >>)
    /\ UNCHANGED <<buffer, frame, task, relay, address, link, taken, faults, cleared>>

ClearStep ==
    /\ Step("clear")
    /\ scenes' = << >> /\ played' = << >>
    /\ UNCHANGED <<buffer, frame, task, relay, address, link, taken, faults, cleared>>

ZeroStep ==
    /\ Step("zero")
    /\ buffer' = [c \in Channels |-> 0]
    /\ UNCHANGED <<scenes, frame, task, relay, address, link, taken, faults,
                   played, cleared>>

\* The steps that touch no channel: publish() an error, setValue() of the relay.
OtherStep ==
    /\ \/ Step("error") /\ UNCHANGED relay
       \/ Step("relay") /\ relay' = Head(todo).val
    /\ UNCHANGED <<scenes, buffer, frame, task, address, link, taken, faults,
                   played, cleared>>

\* The properties "Channel value" and DMX address of the box (http server).
SetProperty ==
    /\ taken < MaxMessages /\ taken' = taken + 1
    /\ \/ /\ \E v \in {0, MaxVal} : buffer' = Written(address, v)
          /\ cleared' = FALSE
          /\ UNCHANGED address
       \/ /\ address' \in {LastChannel, LastChannel + 1}
          /\ UNCHANGED <<buffer, cleared>>
    /\ UNCHANGED <<scenes, frame, task, todo, relay, link, faults, played>>

\* MqttClient::handleEvent(): the network came or could not be had.
WifiEvent ==
    /\ \/ link = "stopped" /\ link' = "connecting" /\ UNCHANGED faults
       \/ /\ link # "stopped" /\ todo = << >> /\ faults < MaxFaults
          /\ link' = "stopped" /\ faults' = faults + 1
    /\ UNCHANGED <<scenes, buffer, frame, task, todo, relay, address, taken,
                   played, cleared>>

\* The client connects by itself, subscribing to the topics, and reconnects.
BrokerEvent ==
    /\ \/ link = "connecting" /\ link' = "connected" /\ UNCHANGED faults
       \/ /\ link = "connected" /\ todo = << >> /\ faults < MaxFaults
          /\ link' = "connecting" /\ faults' = faults + 1
    /\ UNCHANGED <<scenes, buffer, frame, task, todo, relay, address, taken,
                   played, cleared>>

Next == \/ Tick \/ Send \/ Receive \/ WriteStep \/ AddStep \/ ClearStep
        \/ ZeroStep \/ OtherStep \/ SetProperty \/ WifiEvent \/ BrokerEvent

Spec == Init /\ [][Next]_vars

-----------------------------------------------------------------------------
(* Properties                                                              *)

\* s, n times.
Repeated(n, s) == [k \in 1..n * Len(s) |-> s[((k - 1) % Len(s)) + 1]]

\* How often a loop is played. A count of 0 is reached when the counter has
\* gone through all its values.
Plays(r) ==
    CASE r.times = INFINITE -> MaxPlayed
      [] r.times = 0 -> 2 * (MaxRepeat + 1)
      [] OTHER -> r.times

\* The first of the loops of an entry counts. Its way has been gone once when
\* its end is reached, so there is one turn less than there are plays.
LoopOf(repeat, i) ==
    LET own == {n \in DOMAIN repeat : repeat[n].from = i}
        r == repeat[CHOOSE n \in own : \A m \in own : n <= m]
    IN  IF own = {} THEN [to |-> i, turns |-> 0]
        ELSE [to |-> r.to, turns |-> Plays(r) - 1]

\* An entry stays for its ticks and the one it begins with.
Stay(base, i) == Repeated(base[i + 1].ticks + 1, <<i>>)

\* After(base, loops)[to][from] is what is sent from the last tick of the entry
\* `from` until the entry `to` and its loop are through. The entry a loop goes
\* back to takes one tick.
After(base, loops) ==
    LET after[to \in 0..Len(base) - 1] ==
            LET way(first) == IF first >= to THEN << >>
                              ELSE after[to - 1][first] \o Stay(base, to)
                turn == <<loops[to].to>> \o way(loops[to].to)
            IN  [from \in 0..Len(base) - 1 |->
                    way(from) \o Repeated(loops[to].turns, turn)]
    IN  after

\* The reference: the indexes a scenery sends, tick by tick, when every loop in
\* it is written out.
WrittenOut(base, repeat) ==
    LET loops == [i \in 0..Len(base) - 1 |-> LoopOf(repeat, i)]
    IN  Stay(base, 0) \o After(base, loops)[Len(base) - 1][0]

GoesBack(repeat) == \A i \in DOMAIN repeat : repeat[i].to <= repeat[i].from

\* A scenery plays what its loops say when they are written out: the first
\* loop of an entry counts, a loop within a loop is played anew each time,
\* and after the last tick of the last entry the scenery is over. (One entry
\* more than the index can count to is let in, and then there is no end.)
PlaysAsWrittenOut ==
    \A c \in DOMAIN scenes :
        LET e == scenes[c]
            all == WrittenOut(e.base, e.repeat)
        IN  GoesBack(e.repeat) /\ Len(e.base) <= Longest =>
                /\ IsPrefix(played[c], all)
                /\ IsOver(e) /\ Len(played[c]) < MaxPlayed => played[c] = all

\* After a message that clears, and until something else is asked of the
\* channels, no scenery is left and all the channels are dark: no tick of the
\* task in the middle of the message brings a value back.
ClearedIsDark ==
    cleared /\ todo = << >> =>
        scenes = << >> /\ \A c \in Channels : buffer[c] = 0
=============================================================================
