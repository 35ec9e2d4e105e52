----------------------------- MODULE CycleBuffer -----------------------------
(***************************************************************************)
(* util::CycleBuffer<T, N> (main/include/fb_cycle_buffer.hpp): an array of *)
(* N slots written round and round, with a read index that is pushed along *)
(* so that it never falls behind the oldest value.  The operators take the *)
(* buffer as a record, because SensorHistory keeps several of them; the    *)
(* state machine at the end is one buffer and its only operation that      *)
(* changes it.                                                             *)
(***************************************************************************)
EXTENDS Integers, Sequences

CONSTANTS N,       \* slots of the array
          Values,  \* T
          NoValue  \* content of a slot that was never written

ASSUME CycleBufferAssumption == /\ N \in Nat /\ N >= 2
                                /\ NoValue \notin Values

VARIABLE buffer

Slots == 0..(N - 1)

InvalidIndex == -1

\* i % _data.size() for the i that occur: one step, or one round, past a slot.
Wrap(i) == IF i < N THEN i ELSE i - N

Empty == [data |-> [i \in Slots |-> NoValue], write |-> 0, read |-> 0, length |-> 0]

\* Mutant: the read index moves only when the buffer was full before.
PushedLate(b, v) ==
  LET length == IF b.length < N THEN b.length + 1 ELSE N
  IN  [data   |-> [b.data EXCEPT ![b.write] = v],
       write  |-> Wrap(b.write + 1),
       length |-> length,
       read   |-> IF b.length = N THEN Wrap(b.read + 1) ELSE b.read]

\* The first half of pushValue(): store at the write index and advance it.
Stored(b, v) ==
  [data |-> [b.data EXCEPT ![b.write] = v], write |-> Wrap(b.write + 1),
   read |-> b.read, length |-> b.length]

\* The second half: count up to N; from the N-th value on the read index moves along.
Advanced(b) ==
  LET length == IF b.length < N THEN b.length + 1 ELSE N
  IN  [data |-> b.data, write |-> b.write, length |-> length,
       read |-> IF length = N THEN Wrap(b.read + 1) ELSE b.read]

\* pushValue()
Pushed(b, v) == Advanced(Stored(b, v))

\* How many steps of Iterator::operator++ lead from the read to the write index.
Count(b) == IF b.write >= b.read THEN b.write - b.read ELSE b.write - b.read + N

\* The values an iteration from the read index to end() visits.
Readable(b) == [k \in 1..Count(b) |-> b.data[Wrap(b.read + k - 1)]]

\* findValueIndex(): the first readable slot that satisfies the predicate.
FindValueIndex(b, Predicate(_)) ==
  LET hits == {k \in 1..Count(b) : Predicate(Readable(b)[k])}
  IN  IF hits = {} THEN InvalidIndex
      ELSE Wrap(b.read + (CHOOSE k \in hits : \A j \in hits : k <= j) - 1)

\* end()
EndIndex(b) == b.write

\* last(): the slot before the write index.
LastIndex(b) ==
  IF b.length <= 0 THEN InvalidIndex
  ELSE IF b.write = 0 THEN N - 1 ELSE b.write - 1

-----------------------------------------------------------------------------
Init == buffer = Empty

PushValue(v) == buffer' = Pushed(buffer, v)

Next == \E v \in Values : PushValue(v)

Spec == Init /\ [][Next]_buffer

-----------------------------------------------------------------------------
(* Properties *)

\* Types of the fields of a buffer.
TypeOK ==
  buffer \in [data : [Slots -> Values \cup {NoValue}], write : Slots, read : Slots,
              length : 0..N]

\* How the three counters of pushValue() depend on each other: until the array
\* has been filled once the values lie at its beginning, afterwards the read
\* index is one slot past the write index.
IndexesAgree ==
  IF buffer.length < N
  THEN buffer.read = 0 /\ buffer.write = buffer.length
  ELSE buffer.read = Wrap(buffer.write + 1)

\* No iteration reaches a slot that was never written (the array of a
\* CycleBuffer starts as raw memory).
ReadsWrittenSlots == \A k \in 1..Count(buffer) : Readable(buffer)[k] \in Values

\* last() is the value pushed last, the end of every iteration.
LastIsNewest ==
  IF Count(buffer) = 0 THEN LastIndex(buffer) = InvalidIndex
  ELSE /\ LastIndex(buffer) \in Slots
       /\ buffer.data[LastIndex(buffer)] = Readable(buffer)[Count(buffer)]

\* The readable part of the ring is the sequence of the last N - 1 values.
Recent == INSTANCE RecentValues WITH Window <- N - 1, recent <- Readable(buffer)

ImplementsRecent == Recent!Spec
=============================================================================
