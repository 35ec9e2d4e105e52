---------------------------- MODULE SensorHistory ----------------------------
(***************************************************************************)
(* The history of the sensors and who touches it: the sensor service task  *)
(* measures and reports changes (SensorService::_onPull), the main task    *)
(* takes the reports from the event queue and stores what changed by more  *)
(* than the precision (SensorStoreService, SensorStorage), an http task    *)
(* answers requests for a sensor's history (_sensor_data_cb).  There is no *)
(* lock between the three.                                                 *)
(*                                                                         *)
(* An address is a sensor and the index of one of its values.  Other       *)
(* events, SENSOR_INITIALIZED and SENSOR_LOST among them, only pass        *)
(* through the queue and are left out.  findValueIndex() is one step of    *)
(* the reader and a slot is read and written at once.                      *)
(***************************************************************************)
EXTENDS Integers, Sequences, FiniteSets

CONSTANTS Sensors,     \* what green_house registers, e.g. a DS18 and an AHT20
          ValueCount,  \* getIndexCount() of each
          Precision,   \* mapIndexToPrecision of each address
          Values,      \* what can be measured
          InvalidValue, \* what a sensor holds before its first measurement
          N,           \* BufferSize
          Rings,       \* size of _sensorData
          QueueSize,   \* events the queue holds
          MaxUpdates, MaxTime  \* bounds: updates in all, last value of the clock

Addresses == {a \in Sensors \X (0..1) : a[2] < ValueCount[a[1]]}

NoSensor == "none"

SensorHistoryAssumption ==
  /\ IsFiniteSet(Sensors) /\ NoSensor \notin Sensors
  /\ ValueCount \in [Sensors -> 1..2]
  /\ Precision \in [Addresses -> Nat]
  /\ Values \subseteq Nat /\ InvalidValue \in Int \ Values
  /\ N \in Nat /\ N >= 2
  /\ QueueSize \in Nat \ {0}
  /\ Rings \in Nat /\ Cardinality(Addresses) <= Rings /\ MaxTime \in Nat

VARIABLES value,       \* what each sensor measured last
          unreported,  \* the sensor whose event the service task is about to push
          events,      \* SENSOR_VALUE_CHANGED events in the queue
          synced, now, \* the clock
          addressMap,  \* _addressMap: from the addresses seen to their rings
          sensorData,  \* _sensorData
          main,        \* the main task inside _handleChangeEvent()
          reader,      \* the http task inside _sensor_data_cb()
          updates      \* updates so far

vars == <<value, unreported, events, synced, now, addressMap, sensorData, main, reader, updates>>

NoEntry == [of |-> <<NoSensor, 0>>]

Entry == [of : Addresses, value : Values, time : 0..MaxTime]

Ring == INSTANCE CycleBuffer WITH Values <- Entry, NoValue <- NoEntry, buffer <- sensorData[0]

Known(a) == a \in DOMAIN addressMap
\* _getSensorValueBuffer() of an address that has one.
BufferOf(a) == sensorData[addressMap[a]]

IdleMain == [pc |-> "idle"]
IdleReader == [pc |-> "idle"]

Init ==
  /\ value = [a \in Addresses |-> InvalidValue]
  /\ unreported = NoSensor
  /\ events = <<>>
  /\ synced = FALSE /\ now = 0
  /\ addressMap = <<>>
  /\ sensorData = [r \in 0..(Rings - 1) |-> Ring!Empty]
  /\ main = IdleMain
  /\ reader = IdleReader
  /\ updates = 0

-----------------------------------------------------------------------------
(* The clock *)

Sync == ~synced /\ synced' = TRUE
        /\ UNCHANGED <<value, unreported, events, now, addressMap, sensorData, main, reader, updates>>

Tick == now < MaxTime /\ now' = now + 1
        /\ UNCHANGED <<value, unreported, events, synced, addressMap, sensorData, main, reader, updates>>

-----------------------------------------------------------------------------
(* The sensor service task *)

\* What _doUpdate() takes for a change; a sensor of two values (SensorAht20)
\* sees none where only the second differs, and one where the second is equal.
IsChange(s, measured) ==
  IF ValueCount[s] = 1 THEN measured[0] # value[<<s, 0>>]
  ELSE measured[0] # value[<<s, 0>>] \/ measured[1] = value[<<s, 1>>]

\* update() returned true: the values are stored in the sensor, then _dropEvent().
Measure(s) ==
  /\ unreported = NoSensor /\ updates < MaxUpdates
  /\ \E measured \in [0..(ValueCount[s] - 1) -> Values] :
       /\ IsChange(s, measured)
       /\ value' = [a \in Addresses |-> IF a[1] = s THEN measured[a[2]] ELSE value[a]]
  /\ unreported' = s /\ updates' = updates + 1
  /\ UNCHANGED <<events, synced, now, addressMap, sensorData, main, reader>>

\* Mutant: an event that finds no room is lost.
DropEventNoWait ==
  /\ unreported # NoSensor
  /\ events' = IF Len(events) < QueueSize THEN Append(events, unreported) ELSE events
  /\ unreported' = NoSensor
  /\ UNCHANGED <<value, synced, now, addressMap, sensorData, main, reader, updates>>

\* pushEvent() waits for room.
DropEvent ==
  /\ unreported # NoSensor /\ Len(events) < QueueSize
  /\ events' = Append(events, unreported) /\ unreported' = NoSensor
  /\ UNCHANGED <<value, synced, now, addressMap, sensorData, main, reader, updates>>

-----------------------------------------------------------------------------
(* The main task *)

\* The loop of _handleChangeEvent() goes on to the next index.
NextIndex(s, i) ==
  IF i + 1 < ValueCount[s] THEN [pc |-> "compare", sensor |-> s, index |-> i + 1] ELSE IdleMain

\* handleEvent()
HandleEvent ==
  /\ main.pc = "idle" /\ events # <<>>
  /\ events' = Tail(events)
  /\ main' = IF synced THEN [pc |-> "compare", sensor |-> Head(events), index |-> 0] ELSE IdleMain
  /\ UNCHANGED <<value, unreported, synced, now, addressMap, sensorData, reader, updates>>

At(pc) == main.pc = pc
Address == <<main.sensor, main.index>>
Distance(x, y) == IF x > y THEN x - y ELSE y - x

\* getSensorLastValue(): none for an unknown address and for an empty buffer.
HasLast(a) == Known(a) /\ Ring!LastIndex(BufferOf(a)) # Ring!InvalidIndex
LastValue(a) == BufferOf(a).data[Ring!LastIndex(BufferOf(a))].value

\* The sensor's value is read to decide whether it is worth storing ...
Compare ==
  /\ At("compare")
  /\ main' = IF ~HasLast(Address) \/ Distance(value[Address], LastValue(Address)) > Precision[Address]
             THEN [main EXCEPT !.pc = "add"]
             ELSE NextIndex(main.sensor, main.index)
  /\ UNCHANGED <<value, unreported, events, synced, now, addressMap, sensorData, reader, updates>>

MapWith(a, r) == [b \in DOMAIN addressMap \cup {a} |-> IF b = a THEN r ELSE addressMap[b]]

\* Mutant: the index of the ring is the offset of the address.
WithAddressByOffset(a) == IF Known(a) THEN addressMap ELSE MapWith(a, a[2])

\* _addAddres(): a new address gets the next ring.
WithAddress(a) == IF Known(a) THEN addressMap ELSE MapWith(a, Cardinality(DOMAIN addressMap))

\* addSensorValue() ignores a value equal to the last one.
IsRepeated(a) == HasLast(a) /\ LastValue(a) = value[a]

\* ... and read again to be stored.
Add ==
  /\ At("add")
  /\ addressMap' = WithAddress(Address)
  /\ main' = IF IsRepeated(Address) THEN NextIndex(main.sensor, main.index)
             ELSE [pc |-> "push", sensor |-> main.sensor, index |-> main.index, value |-> value[Address]]
  /\ UNCHANGED <<value, unreported, events, synced, now, sensorData, reader, updates>>

\* The first half of pushValue(); counted when someone is reading.
Push ==
  LET r == addressMap[Address]
  IN  /\ At("push")
      /\ sensorData' = [sensorData EXCEPT
           ![r] = Ring!Stored(@, [of |-> Address, value |-> main.value, time |-> now])]
      /\ main' = [main EXCEPT !.pc = "advance"]
      /\ reader' = IF reader.pc # "idle" /\ reader.pushes < 2
                   THEN [reader EXCEPT !.pushes = @ + 1] ELSE reader
      /\ UNCHANGED <<value, unreported, events, synced, now, addressMap, updates>>

\* The second half.
Advance ==
  /\ At("advance")
  /\ sensorData' = [sensorData EXCEPT ![addressMap[Address]] = Ring!Advanced(@)]
  /\ main' = NextIndex(main.sensor, main.index)
  /\ UNCHANGED <<value, unreported, events, synced, now, addressMap, reader, updates>>

-----------------------------------------------------------------------------
(* The http task *)

Request(a, from) ==
  /\ reader.pc = "idle"
  /\ reader' = [pc |-> "find", address |-> a, from |-> from, wasKnown |-> Known(a), pushes |-> 0]
  /\ UNCHANGED <<value, unreported, events, synced, now, addressMap, sensorData, main, updates>>

\* The predicate of getSensorValues().
IsLater(e, from) == e.time > from

Find(b, from) == Ring!FindValueIndex(b, LAMBDA e : IsLater(e, from))

\* getSensorValues(): for an address nobody has stored yet the end of ring 0,
\* which the handler does not take for "nothing found".
FindFirst ==
  LET ring  == IF Known(reader.address) THEN addressMap[reader.address] ELSE 0
      first == IF Known(reader.address) THEN Find(sensorData[ring], reader.from)
               ELSE Ring!EndIndex(sensorData[ring])
  IN  /\ reader.pc = "find"
      /\ reader' = IF first = Ring!InvalidIndex THEN IdleReader
                   ELSE [pc |-> "found", address |-> reader.address, from |-> reader.from,
                         wasKnown |-> reader.wasKnown, pushes |-> reader.pushes,
                         ring |-> ring, index |-> first]
      /\ UNCHANGED <<value, unreported, events, synced, now, addressMap, sensorData, main, updates>>

\* getSensorValuesEnd(), called once.
FindEnd ==
  /\ reader.pc = "found"
  /\ reader' = [pc |-> "send", address |-> reader.address, from |-> reader.from,
                wasKnown |-> reader.wasKnown, pushes |-> reader.pushes,
                ring |-> reader.ring, index |-> reader.index,
                end |-> Ring!EndIndex(IF Known(reader.address) THEN BufferOf(reader.address)
                                      ELSE sensorData[0]),
                answer |-> <<>>]
  /\ UNCHANGED <<value, unreported, events, synced, now, addressMap, sensorData, main, updates>>

\* One round of the loop; iterators are compared by their indexes only.
SendEntry ==
  /\ reader.pc = "send" /\ reader.index # reader.end
  /\ reader' = [reader EXCEPT !.answer = Append(@, sensorData[reader.ring].data[reader.index]),
                              !.index = Ring!Wrap(@ + 1)]
  /\ UNCHANGED <<value, unreported, events, synced, now, addressMap, sensorData, main, updates>>

FinishAnswer ==
  /\ reader.pc = "send" /\ reader.index = reader.end
  /\ reader' = IdleReader
  /\ UNCHANGED <<value, unreported, events, synced, now, addressMap, sensorData, main, updates>>

Next ==
  \/ Sync \/ Tick
  \/ \E s \in Sensors : Measure(s)
  \/ DropEvent
  \/ HandleEvent \/ Compare \/ Add \/ Push \/ Advance
  \/ \E a \in Addresses, from \in 0..MaxTime : Request(a, from)
  \/ FindFirst \/ FindEnd \/ SendEntry \/ FinishAnswer

Spec == Init /\ [][Next]_vars

-----------------------------------------------------------------------------
(* Properties *)

\* Nothing of sensor s is on its way to the history.
Settled(s) ==
  /\ unreported # s
  /\ \A k \in DOMAIN events : events[k] # s
  /\ main.pc = "idle" \/ main.sensor # s

\* Although the value is read twice and the service task may measure between
\* the reads, a settled history ends within the precision of the sensor's
\* value: whatever a race leaves out, a later report brings in.
HistoryCatchesUp ==
  \A a \in Addresses : Settled(a[1]) /\ HasLast(a) => Distance(value[a], LastValue(a)) <= Precision[a]

InOrder(entries) ==
  \A j \in 1..(Len(entries) - 1) :
    /\ entries[j].of = entries[j + 1].of
    /\ entries[j].time <= entries[j + 1].time
    /\ entries[j].value # entries[j + 1].value

\* The later entries of all are those from some entry on.
IsTheLater(answer, entries, from) ==
  \E k \in 0..Len(entries) :
    /\ answer = SubSeq(entries, k + 1, Len(entries))
    /\ \A j \in 1..Len(entries) : entries[j].time > from <=> j > k

\* An answer for an address that was stored before the request has entries of
\* that address only, although the rings change while it is sent. One push may come
\* between any two of its steps and the client still gets the entries in the order
\* they were stored, without repeats: the slot that a push writes is never one
\* that an iteration visits. When nothing was pushed it is all that is stored and
\* later than the time asked for.
AnswerIsSound ==
  reader.pc = "send" /\ reader.wasKnown =>
    /\ \A k \in DOMAIN reader.answer : reader.answer[k].of = reader.address
    /\ reader.pushes <= 1 => InOrder(reader.answer)
    /\ reader.pushes = 0 /\ reader.index = reader.end =>
         IsTheLater(reader.answer, Ring!Readable(BufferOf(reader.address)), reader.from)
=============================================================================
