---------------------------- MODULE SensorsProofs ----------------------------
(***************************************************************************)
(* Proofs about what is measured and pressed, for every set of sensors,    *)
(* size of a ring and number of buttons. Each part has an inductive        *)
(* invariant of its own:                                                   *)
(*   a ring alone    Inv, the three counters and what is written,          *)
(*   one button      GridInv, what the code has counted of the hold,       *)
(*   the matrix      MatrixInv, who has still to tell what was changed,    *)
(*   the history     HistoryInv, each ring between and after the halves    *)
(*                   of a push; CatchInv adds who will bring a value in,   *)
(*                   AnswerInv what a request has been sent so far.        *)
(***************************************************************************)
EXTENDS MCSensors, FiniteSets, FiniteSetTheorems, SequenceTheorems, WellFoundedInduction, TLAPS

-----------------------------------------------------------------------------
(* One ring *)

\* The slots that hold a value: those before the write index until the array
\* has been filled once, all of them afterwards.
Written ==
  \A i \in Slots : (buffer.length = N \/ i < buffer.write) => buffer.data[i] \in Values

Inv == TypeOK /\ IndexesAgree /\ Written

BufferType ==
  [data : [Slots -> Values \cup {NoValue}], write : Slots, read : Slots, length : 0..N]

-----------------------------------------------------------------------------
(* Helpers *)

\* One step, or one round, past a slot leads to a slot.
LEMMA WrapType ==
  ASSUME NEW i \in 0..(2 * N - 1)
  PROVE  Wrap(i) \in Slots
  BY CycleBufferAssumption DEF Wrap, Slots

\* What both halves of pushValue() leave in the four fields.
PushedFields(b, v) ==
  LET length == IF b.length < N THEN b.length + 1 ELSE N
  IN  [data   |-> [b.data EXCEPT ![b.write] = v],
       write  |-> Wrap(b.write + 1),
       length |-> length,
       read   |-> IF length = N THEN Wrap(b.read + 1) ELSE b.read]

LEMMA PushedIsItsFields ==
  ASSUME NEW b \in BufferType, NEW v \in Values
  PROVE  Pushed(b, v) = PushedFields(b, v)
  BY DEF Pushed, Stored, Advanced, PushedFields, BufferType

\* pushValue() keeps the types of the buffer.
LEMMA PushedType ==
  ASSUME NEW b \in BufferType, NEW v \in Values
  PROVE  PushedFields(b, v) \in BufferType
<1>1. b.write + 1 \in 0..(2 * N - 1) /\ b.read + 1 \in 0..(2 * N - 1)
  BY CycleBufferAssumption DEF BufferType, Slots
<1>2. Wrap(b.write + 1) \in Slots /\ Wrap(b.read + 1) \in Slots
  BY <1>1, WrapType
<1>3. [b.data EXCEPT ![b.write] = v] \in [Slots -> Values \cup {NoValue}]
  BY DEF BufferType
<1>4. (IF b.length < N THEN b.length + 1 ELSE N) \in 0..N
  BY CycleBufferAssumption DEF BufferType
<1> QED
  BY <1>2, <1>3, <1>4 DEF PushedFields, BufferType

\* An iteration visits at most N - 1 slots, all of the array.
LEMMA CountType ==
  ASSUME NEW b \in BufferType
  PROVE  /\ Count(b) \in 0..(N - 1)
         /\ \A k \in 1..Count(b) : Wrap(b.read + k - 1) \in Slots
<1>1. Count(b) \in 0..(N - 1)
  BY CycleBufferAssumption DEF BufferType, Slots, Count
<1>2. ASSUME NEW k \in 1..Count(b)
      PROVE  b.read + k - 1 \in 0..(2 * N - 1)
  BY <1>1, CycleBufferAssumption DEF BufferType, Slots
<1> QED
  BY <1>1, <1>2, WrapType

-----------------------------------------------------------------------------
(* The inductive invariant *)

LEMMA InitInv == Init => Inv
<1> SUFFICES ASSUME Init PROVE Inv
  OBVIOUS
<1>1. TypeOK
  BY CycleBufferAssumption DEF Init, Empty, TypeOK, Slots
<1>2. IndexesAgree
  BY CycleBufferAssumption DEF Init, Empty, IndexesAgree
<1>3. Written
  BY CycleBufferAssumption DEF Init, Empty, Written, Slots
<1> QED
  BY <1>1, <1>2, <1>3 DEF Inv

LEMMA NextInv == Inv /\ [Next]_buffer => Inv'
<1> SUFFICES ASSUME Inv, [Next]_buffer PROVE Inv'
  OBVIOUS
<1>1. ASSUME NEW v \in Values, PushValue(v)
      PROVE  Inv'
  <2>1. buffer \in BufferType /\ buffer' = PushedFields(buffer, v)
    BY <1>1, PushedIsItsFields DEF Inv, TypeOK, BufferType, PushValue
  <2>2. TypeOK'
    BY <2>1, PushedType DEF TypeOK, BufferType
  <2>3. IndexesAgree'
    BY <2>1, CycleBufferAssumption
       DEF Inv, IndexesAgree, PushedFields, Wrap, BufferType, Slots
  <2>4. Written'
    <3> SUFFICES ASSUME NEW i \in Slots, buffer'.length = N \/ i < buffer'.write
                 PROVE  buffer'.data[i] \in Values
      BY DEF Written
    <3>1. CASE i = buffer.write
      BY <2>1, <3>1 DEF PushedFields, BufferType
    <3>2. CASE i # buffer.write
      <4>1. buffer'.data[i] = buffer.data[i]
        BY <2>1, <3>2 DEF PushedFields, BufferType
      <4>2. buffer.length = N \/ i < buffer.write
        BY <2>1, <3>2, CycleBufferAssumption
           DEF Inv, IndexesAgree, PushedFields, Wrap, BufferType, Slots
      <4> QED
        BY <4>1, <4>2 DEF Inv, Written
    <3> QED
      BY <3>1, <3>2
  <2> QED
    BY <2>2, <2>3, <2>4 DEF Inv
<1>2. CASE UNCHANGED buffer
  BY <1>2 DEF Inv, TypeOK, IndexesAgree, Written
<1> QED
  BY <1>1, <1>2 DEF Next

\* The three counters stay consistent whatever is pushed, for every size of the
\* ring; this is the part of pushValue() that an off-by-one would break.
THEOREM CountersStayConsistent == Spec => [](TypeOK /\ IndexesAgree)
<1>1. Inv => TypeOK /\ IndexesAgree
  BY DEF Inv
<1> QED
  BY <1>1, InitInv, NextInv, PTL DEF Spec

-----------------------------------------------------------------------------
(* What readers see *)

\* Between read index and write index every slot has been written.
LEMMA InvReadsWritten == Inv => ReadsWrittenSlots
<1> SUFFICES ASSUME Inv, NEW k \in 1..Count(buffer)
             PROVE  Readable(buffer)[k] \in Values
  BY DEF ReadsWrittenSlots
<1> DEFINE i == Wrap(buffer.read + k - 1)
<1>1. buffer \in BufferType
  BY DEF Inv, TypeOK, BufferType
<1>2. i \in Slots
  BY <1>1, CountType
<1>3. buffer.length = N \/ i < buffer.write
  BY <1>1, CycleBufferAssumption
     DEF Inv, IndexesAgree, Count, Wrap, BufferType, Slots
<1>4. buffer.data[i] \in Values
  BY <1>2, <1>3 DEF Inv, Written
<1> QED
  BY <1>4 DEF Readable

\* No iteration over a history reads a slot of the array that was never
\* written, however often the ring has gone round.
THEOREM NoUnwrittenSlotIsRead == Spec => []ReadsWrittenSlots
  BY InitInv, NextInv, InvReadsWritten, PTL DEF Spec

\* The slot before the write index holds the newest value.
LEMMA InvLastIsNewest == Inv => LastIsNewest
<1> SUFFICES ASSUME Inv PROVE LastIsNewest
  OBVIOUS
<1>1. buffer \in BufferType
  BY DEF Inv, TypeOK, BufferType
<1>2. CASE Count(buffer) = 0
  BY <1>1, <1>2, CycleBufferAssumption
     DEF Inv, IndexesAgree, LastIsNewest, LastIndex, Count, Wrap, BufferType, Slots
<1>3. CASE Count(buffer) # 0
  <2> DEFINE last == Wrap(buffer.read + Count(buffer) - 1)
  <2>1. Count(buffer) \in 1..Count(buffer)
    BY <1>1, <1>3, CountType
  <2>2. Readable(buffer)[Count(buffer)] = buffer.data[last]
    BY <2>1 DEF Readable
  <2>3. LastIndex(buffer) = last
    BY <1>1, <1>3, CycleBufferAssumption
       DEF Inv, IndexesAgree, LastIndex, Count, Wrap, BufferType, Slots
  <2>4. last \in Slots
    BY <1>1, <2>1, CountType
  <2> QED
    BY <1>3, <2>2, <2>3, <2>4 DEF LastIsNewest
<1> QED
  BY <1>2, <1>3

\* last() names the newest value that an iteration reaches, also in the one
\* state where the write index has just gone round to slot 0.
THEOREM LastReturnsNewest == Spec => []LastIsNewest
  BY InitInv, NextInv, InvLastIsNewest, PTL DEF Spec

-----------------------------------------------------------------------------
(* Refinement of RecentValues *)

\* The readable part of a buffer is a sequence as long as the iteration.
LEMMA ReadableIsSeq ==
  ASSUME NEW b \in BufferType
  PROVE  /\ Readable(b) \in Seq(Values \cup {NoValue})
         /\ Len(Readable(b)) = Count(b)
         /\ \A k \in 1..Count(b) : Readable(b)[k] = b.data[Wrap(b.read + k - 1)]
<1>1. Count(b) \in Nat
  BY CountType, CycleBufferAssumption
<1>2. \A k \in 1..Count(b) : b.data[Wrap(b.read + k - 1)] \in Values \cup {NoValue}
  BY CountType DEF BufferType
<1> QED
  BY <1>1, <1>2 DEF Readable

\* A push below the window adds the value at the end.
LEMMA PushGrows ==
  ASSUME Inv, NEW v \in Values, PushValue(v), Count(buffer) < N - 1
  PROVE  Readable(buffer)' = Append(Readable(buffer), v)
<1> DEFINE s == Readable(buffer)
<1>1. buffer \in BufferType /\ buffer' = PushedFields(buffer, v) /\ buffer' \in BufferType
  BY PushedType, PushedIsItsFields DEF Inv, TypeOK, BufferType, PushValue
<1>2. /\ buffer.length < N /\ buffer.read = 0 /\ buffer.write = Count(buffer)
      /\ buffer'.read = 0 /\ buffer'.write = buffer.write + 1 /\ Count(buffer') = Count(buffer) + 1
  BY <1>1, CycleBufferAssumption
     DEF Inv, IndexesAgree, Count, PushedFields, Wrap, BufferType, Slots
<1>3. /\ Readable(buffer') \in Seq(Values \cup {NoValue}) /\ Len(Readable(buffer')) = Len(s) + 1
      /\ s \in Seq(Values \cup {NoValue}) /\ Len(s) = Count(buffer)
  BY <1>1, <1>2, ReadableIsSeq
<1>4. ASSUME NEW k \in 1..(Len(s) + 1)
      PROVE  Readable(buffer')[k] = Append(s, v)[k]
  <2>1. Readable(buffer')[k] = buffer'.data[k - 1] /\ k - 1 \in Slots
    BY <1>1, <1>2, <1>3, ReadableIsSeq, CountType, CycleBufferAssumption DEF Wrap, BufferType, Slots
  <2>2. CASE k = Len(s) + 1
    BY <1>1, <1>2, <1>3, <2>1, <2>2 DEF PushedFields, BufferType
  <2>3. CASE k # Len(s) + 1
    <3>1. k \in 1..Count(buffer) /\ k - 1 # buffer.write
      BY <1>2, <1>3, <2>3
    <3>2. buffer'.data[k - 1] = buffer.data[k - 1]
      BY <1>1, <2>1, <3>1 DEF PushedFields, BufferType
    <3>3. s[k] = buffer.data[k - 1]
      <4>1. Wrap(buffer.read + k - 1) = k - 1
        BY <1>2, <2>1, CycleBufferAssumption DEF Wrap, Slots
      <4> QED
        BY <1>1, <3>1, <4>1, ReadableIsSeq
    <3> QED
      BY <1>3, <2>1, <3>1, <3>2, <3>3
  <2> QED
    BY <2>2, <2>3
<1> QED
  BY <1>3, <1>4

\* A push into the full window gives up the oldest value.
LEMMA PushShifts ==
  ASSUME Inv, NEW v \in Values, PushValue(v), ~(Count(buffer) < N - 1)
  PROVE  Readable(buffer)' = Append(Tail(Readable(buffer)), v)
<1> DEFINE s == Readable(buffer)
<1>1. buffer \in BufferType /\ buffer' = PushedFields(buffer, v) /\ buffer' \in BufferType
  BY PushedType, PushedIsItsFields DEF Inv, TypeOK, BufferType, PushValue
<1>2. /\ buffer'.read = Wrap(buffer.read + 1) /\ buffer'.length = N
      /\ Count(buffer) = N - 1 /\ Count(buffer') = N - 1
      /\ buffer.write = Wrap(buffer.read + N - 1)
  <2>1. /\ buffer.read \in 0..(N - 1) /\ buffer.write \in 0..(N - 1) /\ buffer.length \in 0..N
        /\ N \in Nat /\ N >= 2
    BY <1>1, CycleBufferAssumption DEF BufferType, Slots
  <2>2. /\ buffer'.write = Wrap(buffer.write + 1)
        /\ buffer'.length = IF buffer.length < N THEN buffer.length + 1 ELSE N
        /\ buffer'.read = IF buffer'.length = N THEN Wrap(buffer.read + 1) ELSE buffer.read
    BY <1>1 DEF PushedFields
  <2>3. CASE buffer.length < N
    <3>1. buffer.read = 0 /\ buffer.write = N - 1 /\ buffer.length = N - 1
      BY <2>1, <2>3 DEF Inv, IndexesAgree, Count
    <3> QED
      BY <2>1, <2>2, <3>1 DEF Count, Wrap
  <2>4. CASE buffer.length = N
    <3>1. buffer.read = Wrap(buffer.write + 1)
      BY <2>1, <2>4 DEF Inv, IndexesAgree
    <3> QED
      BY <2>1, <2>2, <2>4, <3>1 DEF Count, Wrap
  <2> QED
    BY <2>1, <2>3, <2>4
<1>3. /\ Readable(buffer') \in Seq(Values \cup {NoValue}) /\ Len(Readable(buffer')) = N - 1
      /\ s \in Seq(Values \cup {NoValue}) /\ Len(s) = N - 1
  BY <1>1, <1>2, ReadableIsSeq
<1>4. ASSUME NEW k \in 1..(N - 1)
      PROVE  Readable(buffer')[k] = Append(Tail(s), v)[k]
  <2> DEFINE i == Wrap(buffer.read + k)
  <2>1. Wrap(buffer'.read + k - 1) = i /\ i \in Slots
    <3>1. buffer.read \in 0..(N - 1) /\ N \in Nat /\ N >= 2
      BY <1>1, CycleBufferAssumption DEF BufferType, Slots
    <3> QED
      BY <1>2, <3>1 DEF Wrap, Slots
  <2>2. Readable(buffer')[k] = buffer'.data[i]
    BY <1>1, <1>2, <2>1, ReadableIsSeq
  <2>3. CASE k = N - 1
    <3>1. i = buffer.write
      BY <1>1, <1>2, <2>3, CycleBufferAssumption DEF BufferType, Slots
    <3> QED
      BY <1>1, <1>3, <2>1, <2>2, <2>3, <3>1, CycleBufferAssumption DEF PushedFields, BufferType
  <2>4. CASE k # N - 1
    <3>1. i # buffer.write
      BY <1>1, <1>2, <2>4, CycleBufferAssumption DEF Wrap, BufferType, Slots
    <3>2. buffer'.data[i] = buffer.data[i]
      BY <1>1, <2>1, <3>1 DEF PushedFields, BufferType
    <3>3. k + 1 \in 1..Count(buffer) /\ buffer.read + (k + 1) - 1 = buffer.read + k
      BY <1>1, <1>2, <2>4, CycleBufferAssumption DEF BufferType, Slots
    <3>4. s[k + 1] = buffer.data[i]
      BY <1>1, <3>3, ReadableIsSeq
    <3> QED
      BY <1>3, <2>2, <2>4, <3>2, <3>4, CycleBufferAssumption
  <2> QED
    BY <2>3, <2>4
<1>5. Append(Tail(s), v) \in Seq(Values \cup {NoValue}) /\ Len(Append(Tail(s), v)) = N - 1
  BY <1>3, CycleBufferAssumption
<1> QED
  BY <1>3, <1>4, <1>5

\* The ring is the sequence of its last N - 1 values: pushValue() hides the
\* oldest value exactly when N - 1 are readable and changes no other, for every
\* size of the array.
THEOREM RingKeepsRecentValues == Spec => ImplementsRecent
<1>1. Init => Recent!Init
  BY CycleBufferAssumption DEF Init, Empty, Recent!Init, Readable, Count
<1>2. Inv /\ [Next]_buffer => [Recent!Next]_(Readable(buffer))
  <2> SUFFICES ASSUME Inv, [Next]_buffer PROVE [Recent!Next]_(Readable(buffer))
    OBVIOUS
  <2>1. ASSUME NEW v \in Values, PushValue(v) PROVE Recent!Next
    <3>1. Len(Readable(buffer)) = Count(buffer)
      BY ReadableIsSeq DEF Inv, TypeOK, BufferType
    <3>2. Recent!Push(v)
      BY <2>1, <3>1, PushGrows, PushShifts DEF Recent!Push
    <3> QED
      BY <3>2 DEF Recent!Next
  <2>2. CASE UNCHANGED buffer
    BY <2>2
  <2> QED
    BY <2>1, <2>2 DEF Next
<1> QED
  BY <1>1, <1>2, InitInv, NextInv, PTL DEF Spec, ImplementsRecent, Recent!Spec
-----------------------------------------------------------------------------
(* The hold of a button                                                    *)

\* What a hold may be told to have lasted.
Fits(ms, held, n) == ms <= held /\ held <= ms + DebounceMs + ScanMs * (n + 1)

GridInv ==
  /\ action \in {"RELEASED", "PRESSED", "STILL_PRESSED"}
  /\ duration \in Nat /\ cycles \in Nat /\ sinceTick \in Nat /\ span \in Nat
  /\ sinceRead \in 0 .. ScanMs
  /\ action # "RELEASED" => sinceTick = sinceRead
  /\ action = "PRESSED" => cycles = 0 /\ span = duration /\ duration <= DebounceMs
  /\ action = "STILL_PRESSED" =>
       duration <= StillMs /\ Fits(cycles * StillMs + duration, span, cycles)
  /\ action = "RELEASED" /\ span > 0 =>
       move.action = "RELEASED" /\ Fits(move.ms, span, cycles)

LEMMA GridNumbers ==
  ASSUME IG!InputGridAssumption
  PROVE  DebounceMs \in Nat /\ StillMs \in Nat /\ ScanMs \in Nat /\ MaxPause \in Nat
         /\ ScanMs <= MaxPause
  BY DEF IG!InputGridAssumption

\* One more cycle of StillMs, one more scan.
LEMMA OneMoreCycle ==
  ASSUME NEW n \in Nat, NEW still \in Nat, NEW scan \in Nat
  PROVE  /\ n * still \in Nat /\ scan * (n + 1) \in Nat
         /\ (n + 1) * still = n * still + still
         /\ scan * (n + 1 + 1) = scan * (n + 1) + scan
  BY SMT

LEMMA GridStarts == ASSUME IG!InputGridAssumption, IG!Init PROVE GridInv
  BY GridNumbers DEF IG!Init, GridInv

\* Time passes for the tick and for the scan alike.
LEMMA GridTime == ASSUME IG!InputGridAssumption, GridInv, IG!Time PROVE GridInv'
<1>1. UNCHANGED <<action, duration, cycles, span, move>> /\ sinceRead' = sinceRead + 1
  BY DEF IG!Time
<1>2. /\ sinceRead \in Nat /\ sinceRead < ScanMs /\ sinceTick \in Nat
      /\ sinceTick' = IF sinceTick < MaxPause THEN sinceTick + 1 ELSE MaxPause
  BY GridNumbers DEF GridInv, IG!Time
<1>3. sinceTick' \in Nat
  BY <1>2, GridNumbers
<1>5. ASSUME action # "RELEASED" PROVE sinceTick' = sinceRead'
  <2>1. sinceTick = sinceRead
    BY <1>5 DEF GridInv
  <2>2. sinceTick < MaxPause
    BY <1>2, <2>1, GridNumbers
  <2>3. sinceTick' = sinceTick + 1
    BY <1>2, <2>2
  <2> QED
    BY <1>1, <2>1, <2>3
<1>4. sinceRead' \in 0 .. ScanMs
  BY <1>1, <1>2, GridNumbers
<1> QED
  BY <1>1, <1>3, <1>4, <1>5, Zenon DEF GridInv

LEMMA GridPress ==
  ASSUME IG!InputGridAssumption, GridInv, sinceRead' = 0, IG!Press PROVE GridInv'
  BY GridNumbers DEF GridInv, IG!Press, IG!Restart

\* The debounce is counted, or is through.
LEMMA GridPassDebounce ==
  ASSUME IG!InputGridAssumption, GridInv, sinceRead' = 0, IG!PassDebounce PROVE GridInv'
<1>1. /\ DebounceMs \in Nat /\ StillMs \in Nat /\ ScanMs \in Nat
      /\ duration \in Nat /\ sinceTick \in Nat /\ sinceRead \in Nat /\ sinceRead <= ScanMs
      /\ cycles = 0 /\ sinceTick = sinceRead /\ span = duration /\ duration <= DebounceMs
      /\ action = "PRESSED"
  BY GridNumbers DEF GridInv, IG!PassDebounce
<1>2. span' = duration + sinceTick /\ span' \in Nat /\ cycles' = 0 /\ sinceTick' = 0
  BY <1>1 DEF IG!PassDebounce, IG!Restart, IG!Count
<1>3. CASE duration + sinceTick > DebounceMs
  <2>1. action' = "STILL_PRESSED" /\ duration' = 0
    BY <1>3 DEF IG!PassDebounce, IG!Restart
  <2>2. cycles' * StillMs + duration' = 0 /\ ScanMs * (cycles' + 1) = ScanMs
    BY <1>1, <1>2, <2>1
  <2>3. Fits(0, span', cycles')
    BY <1>1, <1>2, <2>2 DEF Fits
  <2> QED
    BY <1>1, <1>2, <2>1, <2>2, <2>3 DEF GridInv
<1>4. CASE ~(duration + sinceTick > DebounceMs)
  BY <1>1, <1>2, <1>4 DEF GridInv, IG!PassDebounce, IG!Count
<1> QED
  BY <1>3, <1>4

\* The hold is counted, and told cycle by cycle.
LEMMA GridUpdateHoldTime ==
  ASSUME IG!InputGridAssumption, GridInv, sinceRead' = 0, IG!UpdateHoldTime PROVE GridInv'
<1>1. /\ DebounceMs \in Nat /\ StillMs \in Nat /\ ScanMs \in Nat
      /\ duration \in Nat /\ cycles \in Nat /\ span \in Nat
      /\ sinceTick \in Nat /\ sinceTick <= ScanMs /\ sinceTick = sinceRead
      /\ duration <= StillMs /\ Fits(cycles * StillMs + duration, span, cycles)
  BY GridNumbers DEF GridInv, IG!UpdateHoldTime
<1>2. span' = span + sinceTick /\ span' \in Nat /\ sinceTick' = 0 /\ action' = "STILL_PRESSED"
  BY <1>1 DEF IG!UpdateHoldTime, IG!Restart, IG!Count
<1> DEFINE held == cycles * StillMs
           late == ScanMs * (cycles + 1)
<1>3. held \in Nat /\ late \in Nat
  BY <1>1, OneMoreCycle
<1>4. held + duration <= span /\ span <= held + duration + DebounceMs + late
  BY <1>1 DEF Fits
<1>5. CASE duration + sinceTick > StillMs
  <2>1. cycles' = cycles + 1 /\ duration' = 0
    BY <1>5 DEF IG!UpdateHoldTime, IG!Restart
  <2>2. cycles' * StillMs = held + StillMs /\ ScanMs * (cycles' + 1) = late + ScanMs
    BY <1>1, <2>1, OneMoreCycle
  <2> HIDE DEF held, late
  <2>3. held + StillMs <= span' /\ span' <= held + StillMs + DebounceMs + (late + ScanMs)
    BY <1>1, <1>2, <1>3, <1>4, <1>5
  <2>4. cycles' * StillMs + duration' = held + StillMs
    BY <1>1, <1>3, <2>1, <2>2
  <2>5. Fits(cycles' * StillMs + duration', span', cycles')
    BY <2>2, <2>3, <2>4 DEF Fits
  <2> QED
    BY <1>1, <1>2, <2>1, <2>5, GridNumbers DEF GridInv
<1>6. CASE ~(duration + sinceTick > StillMs)
  <2>1. cycles' = cycles /\ duration' = duration + sinceTick
    BY <1>6 DEF IG!UpdateHoldTime, IG!Count
  <2> HIDE DEF held, late
  <2>2. held + duration' <= span' /\ span' <= held + duration' + DebounceMs + late
    BY <1>1, <1>2, <1>3, <1>4, <2>1
  <2>3. Fits(cycles' * StillMs + duration', span', cycles')
    BY <2>1, <2>2 DEF Fits, held, late
  <2> QED
    BY <1>1, <1>2, <1>6, <2>1, <2>3, GridNumbers DEF GridInv
<1> QED
  BY <1>5, <1>6

\* A release tells what was counted; a button let go within the debounce tells nothing.
LEMMA GridRelease ==
  ASSUME IG!InputGridAssumption, GridInv, sinceRead' = 0, IG!Release \/ IG!Bounce
  PROVE  GridInv'
<1>1. CASE IG!Release
  <2>1. /\ action = "STILL_PRESSED" /\ action' = "RELEASED"
        /\ UNCHANGED <<duration, cycles, sinceTick, span>>
        /\ move' = [action |-> "RELEASED", ms |-> cycles * StillMs + duration]
    BY <1>1 DEF IG!Release, IG!Tell
  <2>2. Fits(cycles * StillMs + duration, span, cycles)
    BY <2>1 DEF GridInv
  <2>3. Fits(move'.ms, span', cycles')
    BY <2>1, <2>2
  <2> QED
    BY <2>1, <2>3, GridNumbers DEF GridInv
<1>2. CASE IG!Bounce
  BY <1>2, GridNumbers DEF GridInv, IG!Bounce
<1> QED
  BY <1>1, <1>2

\* HoldIsToldRight, for any times of the settings and any scan: the count starts
\* again with each StillMs, so each of its cycles may lose a scan, and no more.
THEOREM HoldIsMeasured == ASSUME IG!InputGridAssumption PROVE IG!Spec => []HoldIsToldRight
<1>1. IG!Init => GridInv
  BY GridStarts
<1>2. GridInv /\ [IG!Next]_(IG!vars) => GridInv'
  <2> SUFFICES ASSUME GridInv, [IG!Next]_(IG!vars) PROVE GridInv'
    OBVIOUS
  <2>1. CASE IG!HandleButton
    <3>1. sinceRead' = 0
      BY <2>1 DEF IG!HandleButton
    <3> QED
      BY <2>1, <3>1, GridPress, GridPassDebounce, GridUpdateHoldTime, GridRelease
         DEF IG!HandleButton
  <2>2. CASE IG!Time
    BY <2>2, GridTime
  <2>3. CASE IG!Move
    BY <2>3 DEF IG!Move, GridInv
  <2>4. CASE UNCHANGED IG!vars
    BY <2>4 DEF IG!vars, GridInv
  <2> QED
    BY <2>1, <2>2, <2>3, <2>4 DEF IG!Next
<1>3. GridInv => HoldIsToldRight
  BY DEF GridInv, Fits, HoldIsToldRight, IG!HoldIsToldRight
<1> QED
  BY <1>1, <1>2, <1>3, PTL DEF IG!Spec

-----------------------------------------------------------------------------
(* The matrix                                                              *)

Steps == [op : {"write", "flag", "goal", "check", "notify", "copy", "publish"},
          button : Nat, on : BOOLEAN]
Workers == {"grid", "mqtt"}

LastOf(s) == s[Len(s)]

\* The states were written but the flag is not set yet.
FlagIsDue == \E t \in Workers : IM!Now(t, "flag")
\* A thread will compare the states with the target.
CheckIsDue == \E t \in Workers : todo[t] # <<>> /\ LastOf(todo[t]).op \in {"check", "notify"}

\* The publisher copies one state after the other, then it publishes them.
PublisherSteps(s, n) ==
  /\ Len(s) = Size - n + 1 /\ LastOf(s).op = "publish"
  /\ \A k \in 1 .. Size - n : s[k].op = "copy" /\ s[k].button = n + k - 1

MatrixTypes ==
  /\ toggle \in [IM!Buttons -> BOOLEAN] /\ todo \in [IM!Threads -> Seq(Steps)]
  /\ copy \in Seq(BOOLEAN) /\ Len(copy) <= Size

\* Who writes a state has a check as the last thing to do.
WritesAreChecked ==
  \A t \in Workers :
    (\E k \in 1 .. Len(todo[t]) : todo[t][k].op = "write") => LastOf(todo[t]).op = "check"

MatrixInv ==
  /\ MatrixTypes
  /\ WritesAreChecked
  /\ todo["publisher"] # <<>> => PublisherSteps(todo["publisher"], Len(copy))
  /\ ~dirty /\ ~FlagIsDue =>
       IF todo["publisher"] = <<>> THEN \A b \in IM!Buttons : retained[b + 1] = toggle[b]
       ELSE \A b \in IM!Buttons : b < Len(copy) => copy[b + 1] = toggle[b]
  /\ enabled /\ toggle = goal /\ lastChange = "toggle" => finished \/ CheckIsDue

\* What a thread leaves when it has done its next step.
LEMMA TailKeepsLast ==
  ASSUME NEW S, NEW s \in Seq(S), s # <<>>
  PROVE  /\ Tail(s) \in Seq(S) /\ Len(Tail(s)) = Len(s) - 1 /\ Head(s) = s[1]
         /\ Len(s) \in Nat \ {0}
         /\ \A k \in 1 .. Len(s) - 1 : Tail(s)[k] = s[k + 1]
         /\ LastOf(s) # Head(s) => Tail(s) # <<>> /\ LastOf(Tail(s)) = LastOf(s)
<1>1. /\ Tail(s) \in Seq(S) /\ Len(Tail(s)) = Len(s) - 1 /\ Len(s) \in Nat \ {0}
      /\ \A k \in 1 .. Len(s) - 1 : Tail(s)[k] = s[k + 1]
  BY EmptySeq, HeadTailProperties
<1>2. Head(s) = s[1]
  BY <1>1
<1>3. ASSUME LastOf(s) # Head(s) PROVE Tail(s) # <<>> /\ LastOf(Tail(s)) = LastOf(s)
  <2>1. Len(s) # 1
    BY <1>2, <1>3 DEF LastOf
  <2>2. Len(<<>>) = 0
    BY EmptySeq
  <2>3. Tail(s) # <<>>
    BY <1>1, <2>1, <2>2
  <2> QED
    BY <1>1, <2>1, <2>3 DEF LastOf
<1> QED
  BY <1>1, <1>2, <1>3

\* The same step for every value.
LEMMA ForEachIsASeq ==
  ASSUME NEW values \in Seq(BOOLEAN),
         NEW op \in {"write", "flag", "goal", "check", "notify", "copy", "publish"}
  PROVE  /\ IM!ForEach(op, values) \in Seq(Steps)
         /\ Len(IM!ForEach(op, values)) = Len(values)
         /\ \A k \in 1 .. Len(values) :
              IM!ForEach(op, values)[k].op = op /\ IM!ForEach(op, values)[k].button = k - 1
<1> DEFINE step(i) == [op |-> op, button |-> i - 1, on |-> values[i]]
<1>1. Len(values) \in Nat /\ \A i \in 1 .. Len(values) : values[i] \in BOOLEAN
  BY LenProperties, ElementOfSeq
<1>2. \A i \in 1 .. Len(values) : step(i) \in Steps
  BY <1>1 DEF Steps
<1>3. IM!ForEach(op, values) = [i \in 1 .. Len(values) |-> step(i)]
  BY DEF IM!ForEach
<1>4. \A i \in 1 .. Len(values) : step(i).op = op /\ step(i).button = i - 1
  OBVIOUS
<1> HIDE DEF step
<1> QED
  BY <1>1, <1>2, <1>3, <1>4

\* One step at the end.
LEMMA DoIsLast ==
  ASSUME NEW s \in Seq(Steps), NEW d \in Steps
  PROVE  /\ s \o <<d>> \in Seq(Steps) /\ Len(s \o <<d>>) = Len(s) + 1 /\ s \o <<d>> # <<>>
         /\ LastOf(s \o <<d>>) = d
         /\ \A k \in 1 .. Len(s) : (s \o <<d>>)[k] = s[k]
<1>1. <<d>> \in Seq(Steps) /\ Len(<<d>>) = 1 /\ <<d>>[1] = d
  OBVIOUS
<1>2. Len(s) \in Nat
  BY LenProperties
<1>3. /\ s \o <<d>> \in Seq(Steps) /\ Len(s \o <<d>>) = Len(s) + Len(<<d>>)
      /\ \A k \in 1 .. Len(s) + Len(<<d>>) :
           (s \o <<d>>)[k] = IF k <= Len(s) THEN s[k] ELSE <<d>>[k - Len(s)]
  BY <1>1, ConcatProperties
<1>4. Len(<<>>) = 0
  BY EmptySeq
<1>5. s \o <<d>> # <<>> /\ Len(s \o <<d>>) = Len(s) + 1
  BY <1>1, <1>2, <1>3, <1>4
<1>6. (s \o <<d>>)[Len(s) + 1] = d
  BY <1>1, <1>2, <1>3
<1>7. \A k \in 1 .. Len(s) : (s \o <<d>>)[k] = s[k]
  BY <1>1, <1>2, <1>3
<1> QED
  BY <1>3, <1>5, <1>6, <1>7 DEF LastOf

\* The steps are things to do, known by their names.
LEMMA ItsIsAStep ==
  ASSUME MatrixTypes, NEW t \in IM!Threads, todo[t] # <<>>
  PROVE  /\ todo[t] \in Seq(Steps) /\ IM!Its(t) \in Steps /\ IM!Its(t) = todo[t][1]
         /\ Len(todo[t]) \in Nat \ {0} /\ LastOf(todo[t]) \in Steps
<1>1. todo[t] \in Seq(Steps)
  BY DEF MatrixTypes
<1>2. Len(todo[t]) \in Nat \ {0}
  BY <1>1, EmptySeq
<1> QED
  BY <1>1, <1>2, ElementOfSeq, TailKeepsLast DEF IM!Its, LastOf

\* A thread of the first two has got something new to do; nothing else happened.
LEMMA NewWorkKeeps ==
  ASSUME IM!InputMatrixAssumption, MatrixInv, NEW t \in Workers, NEW s \in Seq(Steps),
         todo[t] = <<>>, todo' = [todo EXCEPT ![t] = s],
         UNCHANGED <<toggle, goal, enabled, dirty, copy, retained, finished, lastChange>>,
         (\E k \in 1 .. Len(s) : s[k].op = "write") => LastOf(s).op = "check"
  PROVE  MatrixInv'
<1>1. t \in IM!Threads /\ t # "publisher" /\ Workers \subseteq IM!Threads
  BY DEF Workers, IM!Threads
<1>2. todo'[t] = s /\ \A u \in IM!Threads : u # t => todo'[u] = todo[u]
  BY <1>1 DEF MatrixInv, MatrixTypes
<1>3. todo'["publisher"] = todo["publisher"]
  BY <1>1, <1>2 DEF IM!Threads
<1>4. MatrixTypes'
  BY <1>1 DEF MatrixInv, MatrixTypes
<1>5. WritesAreChecked'
  BY <1>1, <1>2 DEF MatrixInv, WritesAreChecked
<1>6. FlagIsDue => FlagIsDue'
  BY <1>1, <1>2 DEF FlagIsDue, IM!Now
<1>7. CheckIsDue => CheckIsDue'
  BY <1>1, <1>2 DEF CheckIsDue
<1>8. (todo["publisher"] # <<>> => PublisherSteps(todo["publisher"], Len(copy)))'
  BY <1>3 DEF MatrixInv
<1>9. (~dirty /\ ~FlagIsDue =>
         IF todo["publisher"] = <<>> THEN \A b \in IM!Buttons : retained[b + 1] = toggle[b]
         ELSE \A b \in IM!Buttons : b < Len(copy) => copy[b + 1] = toggle[b])'
  BY <1>3, <1>6 DEF MatrixInv
<1>10. (enabled /\ toggle = goal /\ lastChange = "toggle" => finished \/ CheckIsDue)'
  BY <1>7 DEF MatrixInv
<1> QED
  BY <1>4, <1>5, <1>8, <1>9, <1>10 DEF MatrixInv

LEMMA MatrixStarts == ASSUME IM!InputMatrixAssumption, IM!Init PROVE MatrixInv
<1>1. <<>> \in Seq(Steps) /\ <<>> \in Seq(BOOLEAN) /\ Len(<<>>) = 0
  BY EmptySeq
<1>2. MatrixTypes
  BY <1>1 DEF IM!Init, MatrixTypes, IM!InputMatrixAssumption
<1>3. WritesAreChecked
  BY <1>1 DEF IM!Init, WritesAreChecked, Workers, IM!Threads
<1> QED
  BY <1>2, <1>3 DEF IM!Init, MatrixInv, IM!Threads

LEMMA MessagesAreSeqs ==
  ASSUME IM!InputMatrixAssumption, NEW values \in IM!Messages PROVE values \in Seq(BOOLEAN)
<1>1. PICK n \in 0 .. Size : values \in [1 .. n -> BOOLEAN]
  BY DEF IM!Messages
<1> QED
  BY <1>1 DEF IM!InputMatrixAssumption

\* A released button and a message begin writes that the flag and the check follow.
LEMMA InputsKeep ==
  ASSUME IM!InputMatrixAssumption, MatrixInv, IM!Released \/ IM!Message
  PROVE  MatrixInv'
<1> DEFINE check == [op |-> "check", button |-> 0, on |-> FALSE]
<1>1. check \in Steps
  BY DEF Steps
<1>2. CASE IM!Released
  <2>1. PICK b \in IM!Buttons :
          todo' = [todo EXCEPT !["grid"] = IM!Do("write", b, ~toggle[b]) \o IM!Do("check", 0, FALSE)]
    BY <1>2 DEF IM!Released
  <2> DEFINE write == [op |-> "write", button |-> b, on |-> ~toggle[b]]
  <2>2. write \in Steps /\ <<write>> \in Seq(Steps) /\ Len(<<write>>) = 1
    BY DEF Steps, IM!Buttons, IM!InputMatrixAssumption
  <2>3. todo' = [todo EXCEPT !["grid"] = <<write>> \o <<check>>]
    BY <2>1 DEF IM!Do
  <2>4. check.op = "check"
    OBVIOUS
  <2> HIDE DEF write, check
  <2>5. <<write>> \o <<check>> \in Seq(Steps) /\ LastOf(<<write>> \o <<check>>) = check
    BY <1>1, <2>2, DoIsLast
  <2>6. /\ "grid" \in Workers /\ todo["grid"] = <<>>
        /\ UNCHANGED <<toggle, goal, enabled, dirty, copy, retained, finished, lastChange>>
    BY <1>2 DEF IM!Released, Workers
  <2> QED
    BY <2>3, <2>4, <2>5, <2>6, NewWorkKeeps
<1>3. CASE IM!Message
  <2>1. /\ "mqtt" \in Workers /\ todo["mqtt"] = <<>>
        /\ UNCHANGED <<toggle, goal, enabled, dirty, copy, retained, finished, lastChange>>
    BY <1>3 DEF IM!Message, Workers
  <2>2. PICK values \in IM!Messages :
          \/ todo' = [todo EXCEPT !["mqtt"] = IM!TargetSteps(values)]
          \/ todo' = [todo EXCEPT !["mqtt"] = IM!ToggleMessage(values)]
    BY <1>3 DEF IM!Message
  <2>3. values \in Seq(BOOLEAN)
    BY MessagesAreSeqs
  <2>4. CASE todo' = [todo EXCEPT !["mqtt"] = IM!TargetSteps(values)]
    <3> DEFINE s == IM!TargetSteps(values)
    <3>1. s \in Seq(Steps) /\ \A k \in 1 .. Len(s) : s[k].op # "write"
      BY <2>3, ForEachIsASeq DEF IM!TargetSteps
    <3> QED
      BY <2>1, <2>4, <3>1, NewWorkKeeps
  <2>5. CASE todo' = [todo EXCEPT !["mqtt"] = IM!ToggleMessage(values)]
    <3> DEFINE s == IM!ToggleMessage(values)
    <3>1. s = IM!ForEach("write", values) \o <<check>> /\ check.op = "check"
      BY DEF IM!ToggleMessage, IM!Do
    <3>2. IM!ForEach("write", values) \in Seq(Steps)
      BY <2>3, ForEachIsASeq
    <3> HIDE DEF check
    <3>3. s \in Seq(Steps) /\ LastOf(s) = check
      BY <1>1, <3>1, <3>2, DoIsLast
    <3> HIDE DEF s
    <3> QED
      BY <2>1, <2>5, <3>1, <3>3, NewWorkKeeps DEF s
  <2> QED
    BY <2>2, <2>4, <2>5
<1> QED
  BY <1>2, <1>3

LEMMA EnableKeeps ==
  ASSUME MatrixInv, IM!Enable \/ IM!Pressed \/ IM!PublishMoves \/ UNCHANGED IM!vars
  PROVE  MatrixInv'
<1>1. /\ UNCHANGED <<toggle, goal, dirty, todo, copy, retained, finished>>
      /\ UNCHANGED <<enabled, lastChange>> \/ lastChange' = "enabled"
  BY DEF IM!Enable, IM!Pressed, IM!PublishMoves, IM!vars
<1>2. MatrixTypes' /\ WritesAreChecked' /\ (FlagIsDue' <=> FlagIsDue) /\ (CheckIsDue' <=> CheckIsDue)
  BY <1>1 DEF MatrixInv, MatrixTypes, WritesAreChecked, FlagIsDue, CheckIsDue, IM!Now
<1>3. (~dirty /\ ~FlagIsDue =>
         IF todo["publisher"] = <<>> THEN \A b \in IM!Buttons : retained[b + 1] = toggle[b]
         ELSE \A b \in IM!Buttons : b < Len(copy) => copy[b + 1] = toggle[b])'
  BY <1>1, <1>2 DEF MatrixInv
<1>4. (enabled /\ toggle = goal /\ lastChange = "toggle" => finished \/ CheckIsDue)'
  BY <1>1, <1>2 DEF MatrixInv
<1>5. (todo["publisher"] # <<>> => PublisherSteps(todo["publisher"], Len(copy)))'
  BY <1>1 DEF MatrixInv
<1> QED
  BY <1>2, <1>3, <1>4, <1>5 DEF MatrixInv

\* What the publisher does next.
LEMMA PublishersNext ==
  ASSUME IM!InputMatrixAssumption, MatrixInv, todo["publisher"] # <<>>
  PROVE  /\ Len(copy) \in 0 .. Size
         /\ \/ Len(copy) < Size /\ IM!Its("publisher").op = "copy"
               /\ IM!Its("publisher").button = Len(copy)
            \/ Len(copy) = Size /\ IM!Its("publisher").op = "publish"
<1>1. "publisher" \in IM!Threads /\ PublisherSteps(todo["publisher"], Len(copy))
  BY DEF MatrixInv, IM!Threads
<1>2. /\ IM!Its("publisher") = todo["publisher"][1]
      /\ Len(todo["publisher"]) \in Nat \ {0}
  BY <1>1, ItsIsAStep DEF MatrixInv
<1>3. Len(copy) \in Nat /\ Len(copy) <= Size /\ Size \in Nat
  BY LenProperties DEF MatrixInv, MatrixTypes, IM!InputMatrixAssumption
<1>4. CASE Len(copy) < Size
  <2>1. 1 \in 1 .. Size - Len(copy) /\ Len(copy) + 1 - 1 = Len(copy)
    BY <1>3, <1>4
  <2>2. todo["publisher"][1].op = "copy"
    BY <1>1, <2>1 DEF PublisherSteps
  <2>3. todo["publisher"][1].button = Len(copy)
    BY <1>1, <1>3, <2>1 DEF PublisherSteps
  <2> QED
    BY <1>2, <1>3, <1>4, <2>2, <2>3
<1>5. CASE Len(copy) = Size
  <2>1. Len(todo["publisher"]) = 1
    BY <1>1, <1>3, <1>5 DEF PublisherSteps
  <2> QED
    BY <1>1, <1>2, <1>3, <1>5, <2>1 DEF PublisherSteps, LastOf
<1> QED
  BY <1>3, <1>4, <1>5

\* Steps that are not the publisher's are those of the two others.
LEMMA WorkersOwn ==
  ASSUME IM!InputMatrixAssumption, MatrixInv, NEW t \in IM!Threads,
         NEW op \in {"write", "flag", "goal", "check", "notify"}, IM!Now(t, op)
  PROVE  /\ t \in Workers /\ t # "publisher" /\ todo[t] # <<>> /\ IM!Its(t).op = op
         /\ todo[t] \in Seq(Steps) /\ Len(todo[t]) \in Nat \ {0} /\ IM!Its(t) = todo[t][1]
<1>1. todo[t] # <<>> /\ IM!Its(t).op = op
  BY DEF IM!Now, IM!Its
<1>2. t # "publisher"
  BY <1>1, PublishersNext
<1> QED
  BY <1>1, <1>2, ItsIsAStep DEF MatrixInv, Workers, IM!Threads

\* Another sequence of steps for t that ends as before, or has no write in it.
LEMMA RestIsChecked ==
  ASSUME MatrixInv, NEW t \in Workers, NEW s \in Seq(Steps), todo' = [todo EXCEPT ![t] = s],
         (\E k \in 1 .. Len(s) : s[k].op = "write") => LastOf(s).op = "check"
  PROVE  /\ todo' \in [IM!Threads -> Seq(Steps)] /\ WritesAreChecked'
         /\ todo'[t] = s /\ todo'["publisher"] = todo["publisher"]
         /\ \A u \in Workers : u # t => todo'[u] = todo[u]
<1>1. t \in IM!Threads /\ t # "publisher" /\ Workers \subseteq IM!Threads
      /\ "publisher" \in IM!Threads
  BY DEF Workers, IM!Threads
<1>2. todo'[t] = s /\ \A u \in IM!Threads : u # t => todo'[u] = todo[u]
  BY <1>1 DEF MatrixInv, MatrixTypes
<1>3. todo' \in [IM!Threads -> Seq(Steps)]
  BY <1>1 DEF MatrixInv, MatrixTypes
<1>4. WritesAreChecked'
  BY <1>1, <1>2 DEF MatrixInv, WritesAreChecked
<1> QED
  BY <1>1, <1>2, <1>3, <1>4

\* After a step of t that is no write and no check.
LEMMA PassKeepsChecks ==
  ASSUME IM!InputMatrixAssumption, MatrixInv, NEW t \in Workers,
         todo[t] # <<>>, IM!Its(t).op \in {"flag", "goal", "notify"}, IM!Pass(t)
  PROVE  /\ todo' \in [IM!Threads -> Seq(Steps)] /\ WritesAreChecked'
         /\ todo'["publisher"] = todo["publisher"]
         /\ \A u \in Workers : u # t => todo'[u] = todo[u]
         /\ IM!Its(t).op # "notify" /\ CheckIsDue => CheckIsDue'
         /\ IM!Its(t).op # "flag" /\ FlagIsDue => FlagIsDue'
<1>1. t \in IM!Threads
  BY DEF Workers, IM!Threads
<1>2. /\ todo[t] \in Seq(Steps) /\ IM!Its(t) = todo[t][1] /\ IM!Its(t) = Head(todo[t])
      /\ Len(todo[t]) \in Nat \ {0}
  BY <1>1, ItsIsAStep DEF MatrixInv, IM!Its
<1> DEFINE s == Tail(todo[t])
<1>3. /\ s \in Seq(Steps) /\ Len(s) = Len(todo[t]) - 1
      /\ \A k \in 1 .. Len(todo[t]) - 1 : s[k] = todo[t][k + 1]
      /\ LastOf(todo[t]) # Head(todo[t]) => s # <<>> /\ LastOf(s) = LastOf(todo[t])
  BY <1>2, TailKeepsLast
<1>4. todo' = [todo EXCEPT ![t] = s]
  BY DEF IM!Pass
<1> HIDE DEF s
<1>5. ASSUME NEW k \in 1 .. Len(s), s[k].op = "write" PROVE LastOf(s).op = "check"
  <2>1. k + 1 \in 1 .. Len(todo[t]) /\ todo[t][k + 1].op = "write"
    BY <1>2, <1>3, <1>5
  <2>2. LastOf(todo[t]).op = "check"
    BY <2>1 DEF MatrixInv, WritesAreChecked
  <2>3. LastOf(todo[t]) # Head(todo[t])
    BY <1>2, <2>2
  <2> QED
    BY <1>3, <2>2, <2>3
<1>6. /\ todo' \in [IM!Threads -> Seq(Steps)] /\ WritesAreChecked'
      /\ todo'[t] = s /\ todo'["publisher"] = todo["publisher"]
      /\ \A u \in Workers : u # t => todo'[u] = todo[u]
  BY <1>3, <1>4, <1>5, RestIsChecked
<1>7. ASSUME IM!Its(t).op # "notify", CheckIsDue PROVE CheckIsDue'
  <2>1. PICK u \in Workers : todo[u] # <<>> /\ LastOf(todo[u]).op \in {"check", "notify"}
    BY <1>7 DEF CheckIsDue
  <2>2. CASE u # t
    BY <1>6, <2>1, <2>2 DEF CheckIsDue
  <2>3. CASE u = t
    <3>1. LastOf(todo[t]) # Head(todo[t])
      BY <1>2, <1>7, <2>1, <2>3
    <3> QED
      BY <1>3, <1>6, <2>1, <2>3, <3>1 DEF CheckIsDue
  <2> QED
    BY <2>2, <2>3
<1>8. ASSUME IM!Its(t).op # "flag", FlagIsDue PROVE FlagIsDue'
  <2>1. PICK u \in Workers : IM!Now(u, "flag")
    BY <1>8 DEF FlagIsDue
  <2>2. u # t
    BY <1>8, <2>1 DEF IM!Now, IM!Its
  <2> QED
    BY <1>6, <2>1, <2>2 DEF FlagIsDue, IM!Now
<1> QED
  BY <1>6, <1>7, <1>8

\* A thread writes a state and has the flag still to set.
LEMMA WriteKeeps ==
  ASSUME IM!InputMatrixAssumption, MatrixInv, NEW t \in IM!Threads, IM!Write(t)
  PROVE  MatrixInv'
<1> DEFINE flag == [op |-> "flag", button |-> IM!Its(t).button, on |-> IM!Its(t).on]
           s == <<flag>> \o Tail(todo[t])
<1>1. /\ t \in Workers /\ t # "publisher" /\ todo[t] # <<>> /\ IM!Its(t).op = "write"
      /\ todo[t] \in Seq(Steps) /\ Len(todo[t]) \in Nat \ {0} /\ IM!Its(t) = todo[t][1]
  BY WorkersOwn DEF IM!Write
<1>2. IM!Its(t) \in Steps
  BY <1>1, ElementOfSeq
<1>3. flag \in Steps /\ flag.op = "flag"
  BY <1>2 DEF Steps
<1>4. todo' = [todo EXCEPT ![t] = s]
  BY DEF IM!Write, IM!Do
<1>5. /\ toggle' = [toggle EXCEPT ![IM!Its(t).button] = IM!Its(t).on]
      /\ finished' = FALSE /\ lastChange' = "toggle"
      /\ UNCHANGED <<goal, enabled, dirty, copy, retained>>
  BY DEF IM!Write
<1> HIDE DEF flag
<1>6. /\ s \in Seq(Steps) /\ s # <<>> /\ Len(s) = Len(todo[t]) /\ s[1] = flag
      /\ \A k \in 2 .. Len(todo[t]) : s[k] = todo[t][k]
  <2> DEFINE rest == Tail(todo[t])
  <2>1. /\ rest \in Seq(Steps) /\ Len(rest) = Len(todo[t]) - 1
        /\ \A k \in 1 .. Len(todo[t]) - 1 : rest[k] = todo[t][k + 1]
    BY <1>1, TailKeepsLast
  <2>2. <<flag>> \in Seq(Steps) /\ Len(<<flag>>) = 1 /\ <<flag>>[1] = flag
    BY <1>3
  <2> HIDE DEF rest
  <2>3. /\ <<flag>> \o rest \in Seq(Steps) /\ Len(<<flag>> \o rest) = Len(<<flag>>) + Len(rest)
        /\ \A k \in 1 .. Len(<<flag>>) + Len(rest) :
             (<<flag>> \o rest)[k] = IF k <= Len(<<flag>>) THEN <<flag>>[k]
                                     ELSE rest[k - Len(<<flag>>)]
    BY <2>1, <2>2, ConcatProperties
  <2>4. s = <<flag>> \o rest
    BY DEF rest
  <2> HIDE DEF s
  <2>5. Len(s) = Len(todo[t]) /\ s[1] = flag
    BY <1>1, <2>1, <2>2, <2>3, <2>4
  <2>6. ASSUME NEW k \in 2 .. Len(todo[t]) PROVE s[k] = todo[t][k]
    <3>1. s[k] = rest[k - 1]
      BY <1>1, <2>1, <2>2, <2>3, <2>4
    <3>2. k - 1 \in 1 .. Len(todo[t]) - 1 /\ k - 1 + 1 = k
      BY <1>1
    <3> QED
      BY <2>1, <3>1, <3>2
  <2>7. s # <<>>
    <3>1. Len(<<>>) = 0
      BY EmptySeq
    <3> QED
      BY <1>1, <2>5, <3>1
  <2> QED
    BY <2>3, <2>4, <2>5, <2>6, <2>7
<1> HIDE DEF s
<1>7. LastOf(todo[t]).op = "check"
  <2>1. 1 \in 1 .. Len(todo[t]) /\ todo[t][1].op = "write"
    BY <1>1
  <2> QED
    BY <1>1, <2>1 DEF MatrixInv, WritesAreChecked
<1>8. LastOf(s).op = "check"
  <2>1. Len(todo[t]) # 1
    BY <1>1, <1>7 DEF LastOf
  <2> QED
    BY <1>1, <1>6, <1>7, <2>1 DEF LastOf
<1>9. /\ todo' \in [IM!Threads -> Seq(Steps)] /\ WritesAreChecked'
      /\ todo'[t] = s /\ todo'["publisher"] = todo["publisher"]
  BY <1>1, <1>4, <1>6, <1>8, RestIsChecked
<1>10. MatrixTypes'
  <2>1. IM!Its(t).on \in BOOLEAN
    BY <1>2 DEF Steps
  <2> QED
    BY <1>5, <1>9, <2>1 DEF MatrixInv, MatrixTypes
<1>11. FlagIsDue'
  <2>1. Head(s) = flag
    BY <1>6, TailKeepsLast
  <2>2. (todo[t] # <<>> /\ Head(todo[t]).op = "flag")'
    BY <1>3, <1>6, <1>9, <2>1
  <2> QED
    BY <1>1, <2>2 DEF FlagIsDue, IM!Now
<1>12. CheckIsDue'
  BY <1>1, <1>6, <1>8, <1>9 DEF CheckIsDue
<1>13. (todo["publisher"] # <<>> => PublisherSteps(todo["publisher"], Len(copy)))'
  BY <1>5, <1>9 DEF MatrixInv
<1> QED
  BY <1>9, <1>10, <1>11, <1>12, <1>13 DEF MatrixInv

\* The flag is set, a goal written, a finish told: what was owed is done.
LEMMA PassedKeeps ==
  ASSUME IM!InputMatrixAssumption, MatrixInv, NEW t \in IM!Threads,
         IM!SetFlag(t) \/ IM!WriteGoal(t) \/ IM!Notify(t)
  PROVE  MatrixInv'
<1>1. PICK op \in {"flag", "goal", "notify"} : IM!Now(t, op) /\ IM!Pass(t)
  BY DEF IM!SetFlag, IM!WriteGoal, IM!Notify
<1>2. t \in Workers /\ t # "publisher" /\ todo[t] # <<>> /\ IM!Its(t).op = op
  BY <1>1, WorkersOwn
<1>3. /\ UNCHANGED <<toggle, enabled, copy, retained>>
      /\ op = "flag" => dirty' = TRUE /\ UNCHANGED <<goal, finished, lastChange>>
      /\ op = "goal" => lastChange' = "goal" /\ UNCHANGED <<dirty, finished>>
      /\ op = "notify" => finished' = TRUE /\ UNCHANGED <<goal, dirty, lastChange>>
  BY <1>1, <1>2 DEF IM!SetFlag, IM!WriteGoal, IM!Notify, IM!Now, IM!Its
<1>4. /\ todo' \in [IM!Threads -> Seq(Steps)] /\ WritesAreChecked'
      /\ todo'["publisher"] = todo["publisher"]
      /\ op # "notify" /\ CheckIsDue => CheckIsDue'
      /\ op # "flag" /\ FlagIsDue => FlagIsDue'
  BY <1>1, <1>2, PassKeepsChecks
<1>5. MatrixTypes'
  BY <1>3, <1>4 DEF MatrixInv, MatrixTypes
<1>6. (todo["publisher"] # <<>> => PublisherSteps(todo["publisher"], Len(copy)))'
  BY <1>3, <1>4 DEF MatrixInv
<1>7. (~dirty /\ ~FlagIsDue =>
         IF todo["publisher"] = <<>> THEN \A b \in IM!Buttons : retained[b + 1] = toggle[b]
         ELSE \A b \in IM!Buttons : b < Len(copy) => copy[b + 1] = toggle[b])'
  BY <1>3, <1>4 DEF MatrixInv
<1>8. (enabled /\ toggle = goal /\ lastChange = "toggle" => finished \/ CheckIsDue)'
  BY <1>3, <1>4 DEF MatrixInv
<1> QED
  BY <1>4, <1>5, <1>6, <1>7, <1>8 DEF MatrixInv

LEMMA CheckKeeps ==
  ASSUME IM!InputMatrixAssumption, MatrixInv, NEW t \in IM!Threads, IM!Check(t)
  PROVE  MatrixInv'
<1> DEFINE note == [op |-> "notify", button |-> 0, on |-> FALSE]
           met == enabled /\ toggle = goal
           s == IF met THEN <<note>> ELSE <<>>
<1>1. t \in Workers /\ t # "publisher" /\ todo[t] # <<>> /\ IM!Its(t).op = "check"
  BY WorkersOwn DEF IM!Check
<1>2. /\ todo' = [todo EXCEPT ![t] = s]
      /\ UNCHANGED <<toggle, goal, enabled, dirty, copy, retained, finished, lastChange>>
  BY DEF IM!Check, IM!Do
<1>3. note \in Steps /\ note.op = "notify"
  BY DEF Steps
<1>4. /\ s \in Seq(Steps) /\ \A k \in 1 .. Len(s) : s[k].op # "write"
      /\ met => s # <<>> /\ LastOf(s).op = "notify"
  <2>1. <<>> \in Seq(Steps) /\ Len(<<>>) = 0
    BY EmptySeq
  <2> HIDE DEF note
  <2>2. <<note>> \in Seq(Steps) /\ Len(<<note>>) = 1 /\ <<note>>[1] = note
    BY <1>3
  <2>3. CASE met
    BY <1>3, <2>1, <2>2, <2>3 DEF LastOf
  <2>4. CASE ~met
    BY <2>1, <2>4
  <2> QED
    BY <2>3, <2>4
<1> HIDE DEF s, met
<1>5. /\ todo' \in [IM!Threads -> Seq(Steps)] /\ WritesAreChecked'
      /\ todo'[t] = s /\ todo'["publisher"] = todo["publisher"]
      /\ \A u \in Workers : u # t => todo'[u] = todo[u]
  BY <1>1, <1>2, <1>4, RestIsChecked
<1>6. FlagIsDue => FlagIsDue'
  <2> SUFFICES ASSUME FlagIsDue PROVE FlagIsDue'
    OBVIOUS
  <2>1. PICK u \in Workers : IM!Now(u, "flag")
    BY DEF FlagIsDue
  <2>2. u # t
    BY <1>1, <2>1 DEF IM!Now, IM!Its
  <2> QED
    BY <1>5, <2>1, <2>2 DEF FlagIsDue, IM!Now
<1>7. met => CheckIsDue'
  BY <1>1, <1>4, <1>5 DEF CheckIsDue
<1>8. MatrixTypes'
  BY <1>2, <1>5 DEF MatrixInv, MatrixTypes
<1>9. (todo["publisher"] # <<>> => PublisherSteps(todo["publisher"], Len(copy)))'
  BY <1>2, <1>5 DEF MatrixInv
<1>10. (~dirty /\ ~FlagIsDue =>
          IF todo["publisher"] = <<>> THEN \A b \in IM!Buttons : retained[b + 1] = toggle[b]
          ELSE \A b \in IM!Buttons : b < Len(copy) => copy[b + 1] = toggle[b])'
  BY <1>2, <1>5, <1>6 DEF MatrixInv
<1>11. (enabled /\ toggle = goal /\ lastChange = "toggle" => finished \/ CheckIsDue)'
  BY <1>2, <1>7 DEF met
<1> QED
  BY <1>5, <1>8, <1>9, <1>10, <1>11 DEF MatrixInv

\* The flag is cleared before the first state is copied.
LEMMA ClearFlagKeeps ==
  ASSUME IM!InputMatrixAssumption, MatrixInv, IM!ClearFlag PROVE MatrixInv'
<1> DEFINE no == [i \in 1 .. Size |-> FALSE]
           publish == [op |-> "publish", button |-> 0, on |-> FALSE]
           s == IM!ForEach("copy", no) \o <<publish>>
<1>1. /\ todo' = [todo EXCEPT !["publisher"] = s] /\ copy' = <<>>
      /\ UNCHANGED <<toggle, goal, enabled, finished, lastChange>>
  BY DEF IM!ClearFlag, IM!Do
<1>2. Size \in Nat /\ no \in Seq(BOOLEAN) /\ Len(no) = Size
  BY DEF IM!InputMatrixAssumption
<1>3. publish \in Steps /\ publish.op = "publish"
  BY DEF Steps
<1> HIDE DEF publish, no
<1>4. /\ IM!ForEach("copy", no) \in Seq(Steps) /\ Len(IM!ForEach("copy", no)) = Size
      /\ \A k \in 1 .. Size : /\ IM!ForEach("copy", no)[k].op = "copy"
                              /\ IM!ForEach("copy", no)[k].button = k - 1
  BY <1>2, ForEachIsASeq
<1>5. /\ s \in Seq(Steps) /\ Len(s) = Size + 1 /\ s # <<>> /\ LastOf(s) = publish
      /\ \A k \in 1 .. Size : s[k] = IM!ForEach("copy", no)[k]
  BY <1>3, <1>4, DoIsLast
<1> HIDE DEF s
<1>6. Len(<<>>) = 0 /\ <<>> \in Seq(BOOLEAN)
  BY EmptySeq
<1>7. PublisherSteps(s, 0)
  <2>1. Size - 0 = Size /\ \A k \in 1 .. Size : 0 + k - 1 = k - 1
    BY <1>2
  <2>2. Len(s) = Size - 0 + 1
    BY <1>2, <1>5
  <2>3. \A k \in 1 .. Size : s[k].op = "copy" /\ s[k].button = k - 1
    BY <1>4, <1>5
  <2> QED
    BY <1>3, <1>5, <2>1, <2>2, <2>3 DEF PublisherSteps
<1>8. "publisher" \in IM!Threads /\ "publisher" \notin Workers /\ Workers \subseteq IM!Threads
  BY DEF IM!Threads, Workers
<1>9. todo'["publisher"] = s /\ \A u \in Workers : todo'[u] = todo[u]
  BY <1>1, <1>8 DEF MatrixInv, MatrixTypes
<1>10. MatrixTypes'
  <2>1. Len(copy') <= Size /\ copy' \in Seq(BOOLEAN)
    BY <1>1, <1>2, <1>6
  <2> QED
    BY <1>1, <1>5, <1>8, <2>1 DEF MatrixInv, MatrixTypes
<1>11. WritesAreChecked'
  BY <1>9 DEF MatrixInv, WritesAreChecked
<1>12. (todo["publisher"] # <<>> => PublisherSteps(todo["publisher"], Len(copy)))'
  BY <1>1, <1>6, <1>7, <1>9
<1>13. (~dirty /\ ~FlagIsDue =>
          IF todo["publisher"] = <<>> THEN \A b \in IM!Buttons : retained[b + 1] = toggle[b]
          ELSE \A b \in IM!Buttons : b < Len(copy) => copy[b + 1] = toggle[b])'
  <2>1. todo'["publisher"] # <<>> /\ Len(copy') = 0
    BY <1>1, <1>5, <1>6, <1>9
  <2>2. \A b \in IM!Buttons : ~(b < Len(copy'))
    BY <2>1 DEF IM!Buttons
  <2> QED
    BY <2>1, <2>2
<1>14. CheckIsDue => CheckIsDue'
  BY <1>9 DEF CheckIsDue
<1>15. (enabled /\ toggle = goal /\ lastChange = "toggle" => finished \/ CheckIsDue)'
  BY <1>1, <1>14 DEF MatrixInv
<1> QED
  BY <1>10, <1>11, <1>12, <1>13, <1>15 DEF MatrixInv

\* The publisher copies the next state; one written later sets the flag again.
LEMMA CopyKeeps == ASSUME IM!InputMatrixAssumption, MatrixInv, IM!Copy PROVE MatrixInv'
<1> DEFINE p == todo["publisher"]
           rest == Tail(todo["publisher"])
<1>1. /\ p # <<>> /\ IM!Its("publisher").op = "copy"
      /\ todo' = [todo EXCEPT !["publisher"] = rest]
      /\ copy' = Append(copy, toggle[IM!Its("publisher").button])
      /\ UNCHANGED <<toggle, goal, enabled, dirty, retained, finished, lastChange>>
  BY DEF IM!Copy, IM!Now, IM!Its, IM!Pass
<1>2. /\ Len(copy) \in 0 .. Size /\ Len(copy) < Size /\ Size \in Nat
      /\ IM!Its("publisher").button = Len(copy)
  BY <1>1, PublishersNext DEF IM!InputMatrixAssumption
<1>3. /\ "publisher" \in IM!Threads /\ "publisher" \notin Workers
      /\ Workers \subseteq IM!Threads /\ Len(copy) \in IM!Buttons
  BY <1>2 DEF IM!Threads, Workers, IM!Buttons
<1>4. toggle[Len(copy)] \in BOOLEAN /\ copy \in Seq(BOOLEAN)
  BY <1>3 DEF MatrixInv, MatrixTypes
<1>5. /\ copy' \in Seq(BOOLEAN) /\ Len(copy') = Len(copy) + 1
      /\ \A k \in 1 .. Len(copy) : copy'[k] = copy[k]
      /\ copy'[Len(copy) + 1] = toggle[Len(copy)]
  BY <1>1, <1>2, <1>4, AppendProperties
<1>6. p \in Seq(Steps) /\ Len(p) = Size - Len(copy) + 1 /\ LastOf(p).op = "publish"
      /\ \A k \in 1 .. Size - Len(copy) : p[k].op = "copy" /\ p[k].button = Len(copy) + k - 1
  BY <1>1, <1>3 DEF MatrixInv, MatrixTypes, PublisherSteps
<1>7. /\ rest \in Seq(Steps) /\ Len(rest) = Len(p) - 1
      /\ \A k \in 1 .. Len(p) - 1 : rest[k] = p[k + 1]
      /\ LastOf(p) # Head(p) => rest # <<>> /\ LastOf(rest) = LastOf(p)
  BY <1>1, <1>6, TailKeepsLast
<1>8. LastOf(p) # Head(p)
  BY <1>1, <1>6 DEF IM!Its
<1> HIDE DEF p, rest
<1>9. PublisherSteps(rest, Len(copy) + 1)
  <2>1. Len(rest) = Size - (Len(copy) + 1) + 1
    BY <1>2, <1>6, <1>7
  <2>2. ASSUME NEW k \in 1 .. Size - (Len(copy) + 1)
        PROVE  rest[k].op = "copy" /\ rest[k].button = Len(copy) + 1 + k - 1
    <3>1. k + 1 \in 1 .. Size - Len(copy) /\ k \in 1 .. Len(p) - 1
      BY <1>2, <1>6
    <3>2. rest[k] = p[k + 1] /\ p[k + 1].op = "copy" /\ p[k + 1].button = Len(copy) + (k + 1) - 1
      BY <1>6, <1>7, <3>1
    <3> QED
      BY <1>2, <3>2
  <2> QED
    BY <1>6, <1>7, <1>8, <2>1, <2>2 DEF PublisherSteps
<1>10. todo'["publisher"] = rest /\ rest # <<>> /\ \A u \in Workers : todo'[u] = todo[u]
  BY <1>1, <1>3, <1>7, <1>8 DEF MatrixInv, MatrixTypes
<1>11. MatrixTypes'
  <2>1. Len(copy') <= Size
    BY <1>2, <1>5
  <2> QED
    BY <1>1, <1>3, <1>5, <1>7, <2>1 DEF MatrixInv, MatrixTypes
<1>12. WritesAreChecked'
  BY <1>10 DEF MatrixInv, WritesAreChecked
<1>13. (todo["publisher"] # <<>> => PublisherSteps(todo["publisher"], Len(copy)))'
  BY <1>5, <1>9, <1>10
<1>14. (FlagIsDue' <=> FlagIsDue) /\ (CheckIsDue' <=> CheckIsDue)
  BY <1>10 DEF FlagIsDue, CheckIsDue, IM!Now
<1>15. ASSUME ~dirty', ~FlagIsDue', NEW b \in IM!Buttons, b < Len(copy')
       PROVE  copy'[b + 1] = toggle'[b]
  <2>1. b \in Nat
    BY DEF IM!Buttons
  <2>2. CASE b = Len(copy)
    BY <1>1, <1>5, <2>2
  <2>3. CASE b # Len(copy)
    <3>1. b < Len(copy) /\ b + 1 \in 1 .. Len(copy)
      BY <1>2, <1>5, <1>15, <2>1, <2>3
    <3>2. copy[b + 1] = toggle[b]
      BY <1>1, <1>14, <1>15, <3>1 DEF MatrixInv, p
    <3> QED
      BY <1>1, <1>5, <3>1, <3>2
  <2> QED
    BY <2>2, <2>3
<1>16. (~dirty /\ ~FlagIsDue =>
          IF todo["publisher"] = <<>> THEN \A b \in IM!Buttons : retained[b + 1] = toggle[b]
          ELSE \A b \in IM!Buttons : b < Len(copy) => copy[b + 1] = toggle[b])'
  BY <1>10, <1>15
<1>17. (enabled /\ toggle = goal /\ lastChange = "toggle" => finished \/ CheckIsDue)'
  BY <1>1, <1>14 DEF MatrixInv
<1> QED
  BY <1>11, <1>12, <1>13, <1>16, <1>17 DEF MatrixInv

\* The copy is published: where it differs somebody still owes the news.
LEMMA PublishStateKeeps ==
  ASSUME IM!InputMatrixAssumption, MatrixInv, IM!PublishState PROVE MatrixInv'
<1>1. /\ todo["publisher"] # <<>> /\ IM!Its("publisher").op = "publish"
      /\ todo' = [todo EXCEPT !["publisher"] = Tail(todo["publisher"])]
      /\ retained' = copy
      /\ UNCHANGED <<toggle, goal, enabled, dirty, copy, finished, lastChange>>
  BY DEF IM!PublishState, IM!Now, IM!Its, IM!Pass
<1>2. Len(copy) = Size /\ Size \in Nat
  BY <1>1, PublishersNext DEF IM!InputMatrixAssumption
<1>3. /\ "publisher" \in IM!Threads /\ "publisher" \notin Workers /\ Workers \subseteq IM!Threads
  BY DEF IM!Threads, Workers
<1>4. Len(todo["publisher"]) = 1 /\ todo["publisher"] \in Seq(Steps)
  BY <1>1, <1>2, <1>3 DEF MatrixInv, MatrixTypes, PublisherSteps
<1>5. Tail(todo["publisher"]) = <<>>
  <2>1. /\ Tail(todo["publisher"]) \in Seq(Steps) /\ Len(Tail(todo["publisher"])) = 0
    BY <1>1, <1>4, TailKeepsLast
  <2> QED
    BY <2>1, EmptySeq
<1>6. todo'["publisher"] = <<>> /\ \A u \in Workers : todo'[u] = todo[u]
  BY <1>1, <1>3, <1>5 DEF MatrixInv, MatrixTypes
<1>7. MatrixTypes'
  <2>1. <<>> \in Seq(Steps)
    BY EmptySeq
  <2> QED
    BY <1>1, <1>3, <1>5, <2>1 DEF MatrixInv, MatrixTypes
<1>8. WritesAreChecked'
  BY <1>6 DEF MatrixInv, WritesAreChecked
<1>9. (FlagIsDue' <=> FlagIsDue) /\ (CheckIsDue' <=> CheckIsDue)
  BY <1>6 DEF FlagIsDue, CheckIsDue, IM!Now
<1>10. ASSUME ~dirty', ~FlagIsDue', NEW b \in IM!Buttons PROVE retained'[b + 1] = toggle'[b]
  <2>1. b < Len(copy)
    BY <1>2 DEF IM!Buttons
  <2> QED
    BY <1>1, <1>9, <1>10, <2>1 DEF MatrixInv
<1>11. (~dirty /\ ~FlagIsDue =>
          IF todo["publisher"] = <<>> THEN \A b \in IM!Buttons : retained[b + 1] = toggle[b]
          ELSE \A b \in IM!Buttons : b < Len(copy) => copy[b + 1] = toggle[b])'
  BY <1>6, <1>10
<1>12. (enabled /\ toggle = goal /\ lastChange = "toggle" => finished \/ CheckIsDue)'
  BY <1>1, <1>9 DEF MatrixInv
<1> QED
  BY <1>6, <1>7, <1>8, <1>11, <1>12 DEF MatrixInv

\* StatesAreTold, for any number of buttons, any messages and any order of the
\* accesses of the three threads: the flag is cleared before the first state is
\* read, and set after every write, so that a state that was copied too early is
\* copied again; and every write has a check behind it.
THEOREM StatesReachTheBroker ==
  ASSUME IM!InputMatrixAssumption PROVE IM!Spec => []StatesAreTold
<1>1. IM!Init => MatrixInv
  BY MatrixStarts
<1>2. MatrixInv /\ [IM!Next]_(IM!vars) => MatrixInv'
  <2> SUFFICES ASSUME MatrixInv, [IM!Next]_(IM!vars) PROVE MatrixInv'
    OBVIOUS
  <2>1. CASE IM!Released \/ IM!Message
    BY <2>1, InputsKeep
  <2>2. CASE IM!Enable \/ IM!Pressed \/ IM!PublishMoves \/ UNCHANGED IM!vars
    BY <2>2, EnableKeeps
  <2>3. ASSUME NEW t \in IM!Threads,
               \/ IM!Write(t) \/ IM!SetFlag(t) \/ IM!WriteGoal(t) \/ IM!Check(t) \/ IM!Notify(t)
        PROVE  MatrixInv'
    BY <2>3, WriteKeeps, PassedKeeps, CheckKeeps
  <2>4. CASE IM!ClearFlag \/ IM!Copy \/ IM!PublishState
    BY <2>4, ClearFlagKeeps, CopyKeeps, PublishStateKeeps
  <2> QED
    BY <2>1, <2>2, <2>3, <2>4 DEF IM!Next
<1>3. MatrixInv => StatesAreTold
  <2> SUFFICES ASSUME MatrixInv, IM!Quiet PROVE IM!LastStateIsPublished /\ IM!FinishedIsTold
    BY DEF StatesAreTold, IM!StatesAreTold, IM!LastStateIsPublished, IM!FinishedIsTold
  <2>1. todo["publisher"] = <<>> /\ ~FlagIsDue /\ ~CheckIsDue
    BY DEF IM!Quiet, FlagIsDue, CheckIsDue, IM!Now, IM!Threads, Workers
  <2> QED
    BY <2>1 DEF MatrixInv, IM!LastStateIsPublished, IM!FinishedIsTold
<1> QED
  BY <1>1, <1>2, <1>3, PTL DEF IM!Spec

-----------------------------------------------------------------------------
(* The rings of the history                                                *)

Round(i) == SH!Ring!Wrap(i)
Before(i) == IF i = 0 THEN BufferSize - 1 ELSE i - 1
RingSlots == 0 .. BufferSize - 1

Stores == [of : SH!Addresses, value : Int, time : Nat]
RingType ==
  [data : [RingSlots -> Stores \cup {SH!NoEntry}], write : RingSlots, read : RingSlots,
   length : 0 .. BufferSize]

\* mid: a push is between its two halves.
RingAgrees(b, mid) ==
  IF mid
  THEN IF b.length < BufferSize THEN b.read = 0 /\ b.write = Round(b.length + 1)
       ELSE b.read = b.write
  ELSE IF b.length < BufferSize THEN b.read = 0 /\ b.write = b.length
       ELSE b.read = Round(b.write + 1)

IsWritten(b, mid, i) ==
  b.length = BufferSize \/ (mid /\ b.length = BufferSize - 1) \/ i < b.write

\* Two entries one after the other.
Follows(e, f) == e.time <= f.time /\ e.value # f.value

\* What was written is of the address of the ring, until now, and each entry follows the
\* one before it but for the newest and the oldest.
RingHolds(b, mid, r, map, time) ==
  \A i \in RingSlots : IsWritten(b, mid, i) =>
    /\ b.data[i] \in Stores /\ b.data[i].of \in DOMAIN map /\ map[b.data[i].of] = r
    /\ b.data[i].time <= time
RingFollows(b, mid) ==
  \A i \in RingSlots :
    Round(i + 1) # b.write /\ IsWritten(b, mid, i) /\ IsWritten(b, mid, Round(i + 1)) =>
      Follows(b.data[i], b.data[Round(i + 1)])

RingInv(b, mid, r, map, time) ==
  b \in RingType /\ RingAgrees(b, mid) /\ RingHolds(b, mid, r, map, time) /\ RingFollows(b, mid)

LEMMA BufferSizes ==
  ASSUME SH!SensorHistoryAssumption
  PROVE  /\ BufferSize \in Nat /\ BufferSize >= 2 /\ Rings \in Nat
         /\ ValueCount \in [Sensors -> 1 .. 2] /\ Precision \in [SH!Addresses -> Nat]
         /\ Measured \subseteq Nat /\ InvalidValue \in Int /\ SH!NoSensor \notin Sensors
  BY DEF SH!SensorHistoryAssumption

\* Once round.
LEMMA RoundAndBefore ==
  ASSUME SH!SensorHistoryAssumption, NEW i \in RingSlots
  PROVE  /\ Round(i + 1) \in RingSlots /\ Before(i) \in RingSlots
         /\ Before(Round(i + 1)) = i /\ Round(Before(i) + 1) = i /\ Before(i) # i
         /\ Round(i + 1) = IF i = BufferSize - 1 THEN 0 ELSE i + 1
  BY BufferSizes DEF Round, SH!Ring!Wrap, Before, RingSlots

\* The first half of a push.
LEMMA StoredKeepsRing ==
  ASSUME SH!SensorHistoryAssumption, NEW b, NEW r, NEW map, NEW time \in Nat,
         RingInv(b, FALSE, r, map, time), NEW e \in Stores,
         e.of \in DOMAIN map, map[e.of] = r, e.time = time,
         b.length > 0 => b.data[Before(b.write)].value # e.value
  PROVE  LET c == SH!Ring!Stored(b, e)
         IN  /\ RingInv(c, TRUE, r, map, time)
             /\ c.write = Round(b.write + 1) /\ c.read = b.read /\ c.length = b.length
             /\ c.data[b.write] = e /\ \A i \in RingSlots : i # b.write => c.data[i] = b.data[i]
<1> DEFINE c == SH!Ring!Stored(b, e)
<1>1. /\ b \in RingType /\ b.write \in RingSlots /\ b.read \in RingSlots
      /\ b.length \in 0 .. BufferSize /\ b.data \in [RingSlots -> Stores \cup {SH!NoEntry}]
      /\ BufferSize \in Nat /\ BufferSize >= 2
  BY BufferSizes DEF RingInv, RingType
<1>2. c = [data |-> [b.data EXCEPT ![b.write] = e], write |-> Round(b.write + 1),
           read |-> b.read, length |-> b.length]
  BY DEF SH!Ring!Stored, Round
<1> HIDE DEF c
<1>3. /\ c.write = Round(b.write + 1) /\ c.read = b.read /\ c.length = b.length
      /\ c.data[b.write] = e /\ \A i \in RingSlots : i # b.write => c.data[i] = b.data[i]
  BY <1>1, <1>2
<1>4. Round(b.write + 1) \in RingSlots
      /\ Round(b.write + 1) = IF b.write = BufferSize - 1 THEN 0 ELSE b.write + 1
  BY <1>1, RoundAndBefore
<1>5. c \in RingType
  BY <1>1, <1>2, <1>4 DEF RingType
<1>6. RingAgrees(c, TRUE)
  <2>1. CASE b.length < BufferSize
    BY <1>3, <2>1 DEF RingInv, RingAgrees
  <2>2. CASE ~(b.length < BufferSize)
    BY <1>3, <2>2 DEF RingInv, RingAgrees
  <2> QED
    BY <2>1, <2>2
<1>7. ASSUME NEW i \in RingSlots, IsWritten(c, TRUE, i), i # b.write
      PROVE  IsWritten(b, FALSE, i)
  <2>1. b.length = BufferSize - 1 => b.write = BufferSize - 1
    BY <1>1 DEF RingInv, RingAgrees
  <2>2. i \in 0 .. BufferSize - 1
    BY DEF RingSlots
  <2> QED
    BY <1>1, <1>3, <1>4, <1>7, <2>1, <2>2 DEF IsWritten, RingSlots
<1>8. RingHolds(c, TRUE, r, map, time)
  <2> SUFFICES ASSUME NEW i \in RingSlots, IsWritten(c, TRUE, i)
               PROVE  /\ c.data[i] \in Stores /\ c.data[i].of \in DOMAIN map
                      /\ map[c.data[i].of] = r /\ c.data[i].time <= time
    BY DEF RingHolds
  <2>1. CASE i = b.write
    BY <1>3, <2>1
  <2>2. CASE i # b.write
    BY <1>3, <1>7, <2>2 DEF RingInv, RingHolds
  <2> QED
    BY <2>1, <2>2
<1>9. RingFollows(c, TRUE)
  <2> SUFFICES ASSUME NEW i \in RingSlots, Round(i + 1) # c.write,
                      IsWritten(c, TRUE, i), IsWritten(c, TRUE, Round(i + 1))
               PROVE  Follows(c.data[i], c.data[Round(i + 1)])
    BY DEF RingFollows
  <2>1. i # b.write
    BY <1>3
  <2>2. IsWritten(b, FALSE, i) /\ c.data[i] = b.data[i] /\ Round(i + 1) \in RingSlots
    BY <1>3, <1>7, <2>1, RoundAndBefore
  <2>3. CASE Round(i + 1) = b.write
    <3>1. i = Before(b.write)
      BY <2>3, RoundAndBefore
    <3>2. b.length > 0
      BY <1>1, <2>2 DEF RingInv, RingAgrees, IsWritten, RingSlots
    <3>3. b.data[i].time <= time
      BY <2>2 DEF RingInv, RingHolds
    <3> QED
      BY <1>3, <2>2, <2>3, <3>1, <3>2, <3>3 DEF Follows
  <2>4. CASE Round(i + 1) # b.write
    <3>1. IsWritten(b, FALSE, Round(i + 1)) /\ c.data[Round(i + 1)] = b.data[Round(i + 1)]
      BY <1>3, <1>7, <2>2, <2>4
    <3> QED
      BY <2>2, <2>4, <3>1 DEF RingInv, RingFollows
  <2> QED
    BY <2>3, <2>4
<1> QED
  BY <1>3, <1>5, <1>6, <1>8, <1>9 DEF RingInv, c

\* The second half.
LEMMA AdvancedKeepsRing ==
  ASSUME SH!SensorHistoryAssumption, NEW b, NEW r, NEW map, NEW time \in Nat,
         RingInv(b, TRUE, r, map, time)
  PROVE  LET c == SH!Ring!Advanced(b)
         IN  /\ RingInv(c, FALSE, r, map, time)
             /\ c.write = b.write /\ c.data = b.data /\ c.length > 0
             /\ b.read # b.write => c.read = b.read
<1> DEFINE c == SH!Ring!Advanced(b)
           more == IF b.length < BufferSize THEN b.length + 1 ELSE BufferSize
<1>1. /\ b \in RingType /\ b.write \in RingSlots /\ b.read \in RingSlots
      /\ b.length \in 0 .. BufferSize /\ b.data \in [RingSlots -> Stores \cup {SH!NoEntry}]
      /\ BufferSize \in Nat /\ BufferSize >= 2
  BY BufferSizes DEF RingInv, RingType
<1>2. c = [data |-> b.data, write |-> b.write, length |-> more,
           read |-> IF more = BufferSize THEN Round(b.read + 1) ELSE b.read]
  BY DEF SH!Ring!Advanced, Round
<1>3. more \in 1 .. BufferSize
      /\ (more = BufferSize <=> b.length \in {BufferSize - 1, BufferSize})
      /\ (more < BufferSize => more = b.length + 1)
  BY <1>1
<1> HIDE DEF c, more
<1>4. /\ c.write = b.write /\ c.data = b.data /\ c.length = more
      /\ c.read = IF more = BufferSize THEN Round(b.read + 1) ELSE b.read
  BY <1>2
<1>5. Round(b.read + 1) \in RingSlots
  BY <1>1, RoundAndBefore
<1>6. c \in RingType
  BY <1>1, <1>2, <1>3, <1>5 DEF RingType
<1>7. \/ more < BufferSize /\ b.read = 0 /\ b.write = more
      \/ more = BufferSize /\ b.read = b.write
  <2>1. CASE b.length < BufferSize - 1
    <3>1. b.length + 1 \in 0 .. BufferSize - 1 /\ b.length + 1 < BufferSize
      BY <1>1, <2>1
    <3>2. Round(b.length + 1) = b.length + 1
      BY <3>1 DEF Round, SH!Ring!Wrap
    <3>3. more = b.length + 1
      BY <1>1, <2>1 DEF more
    <3> QED
      BY <1>1, <2>1, <3>1, <3>2, <3>3 DEF RingInv, RingAgrees
  <2>2. CASE b.length = BufferSize - 1
    <3>1. Round(b.length + 1) = 0
      BY <1>1, <2>2 DEF Round, SH!Ring!Wrap
    <3> QED
      BY <1>1, <1>3, <2>2, <3>1 DEF RingInv, RingAgrees
  <2>3. CASE b.length = BufferSize
    BY <1>1, <1>3, <2>3 DEF RingInv, RingAgrees
  <2> QED
    BY <1>1, <2>1, <2>2, <2>3
<1>8. RingAgrees(c, FALSE)
  BY <1>1, <1>3, <1>4, <1>7 DEF RingAgrees
<1>9. ASSUME NEW i, IsWritten(c, FALSE, i) PROVE IsWritten(b, TRUE, i)
  BY <1>1, <1>3, <1>4, <1>9 DEF IsWritten
<1>10. RingHolds(c, FALSE, r, map, time)
  BY <1>4, <1>9 DEF RingInv, RingHolds
<1>11. RingFollows(c, FALSE)
  BY <1>4, <1>9 DEF RingInv, RingFollows
<1>12. b.read # b.write => c.read = b.read
  BY <1>3, <1>4, <1>7
<1>13. c.length > 0
  BY <1>1, <1>3, <1>4
<1>14. RingInv(c, FALSE, r, map, time)
  BY <1>6, <1>8, <1>10, <1>11 DEF RingInv
<1>15. c.write = b.write /\ c.data = b.data
  BY <1>4
<1> QED
  BY <1>12, <1>13, <1>14, <1>15 DEF c

\* A ring is empty at first.
LEMMA EmptyKeepsRing ==
  ASSUME SH!SensorHistoryAssumption, NEW r, NEW map, NEW time
  PROVE  RingInv(SH!Ring!Empty, FALSE, r, map, time)
<1>1. SH!Ring!Empty = [data |-> [i \in RingSlots |-> SH!NoEntry], write |-> 0, read |-> 0,
                       length |-> 0]
  BY DEF SH!Ring!Empty, SH!Ring!Slots, RingSlots
<1>2. SH!Ring!Empty \in RingType
  BY <1>1, BufferSizes DEF RingType, RingSlots
<1>3. \A i \in RingSlots : ~IsWritten(SH!Ring!Empty, FALSE, i)
  BY <1>1, BufferSizes DEF IsWritten, RingSlots
<1>4. RingAgrees(SH!Ring!Empty, FALSE)
  BY <1>1, BufferSizes DEF RingAgrees
<1> QED
  BY <1>2, <1>3, <1>4 DEF RingInv, RingHolds, RingFollows

-----------------------------------------------------------------------------
(* The history                                                             *)

MainStates ==
  [pc : {"idle"}] \cup [pc : {"compare", "add"}, sensor : Sensors, index : 0 .. 1]
  \cup [pc : {"push", "advance"}, sensor : Sensors, index : 0 .. 1, value : Int]

HistoryTypes ==
  /\ value \in [SH!Addresses -> Int] /\ unreported \in Sensors \cup {SH!NoSensor}
  /\ events \in Seq(Sensors) /\ now \in Nat
  /\ sensorData \in [0 .. Rings - 1 -> RingType]
  /\ main \in MainStates /\ (main.pc # "idle" => main.index < ValueCount[main.sensor])

\* Every address has a ring of its own, the next one when it comes.
RingsAreOwn ==
  /\ DOMAIN addressMap \subseteq SH!Addresses
  /\ \A a \in DOMAIN addressMap : addressMap[a] \in 0 .. Cardinality(DOMAIN addressMap) - 1
  /\ \A a, c \in DOMAIN addressMap : addressMap[a] = addressMap[c] => a = c

Mid(r) == main.pc = "advance" /\ addressMap[SH!Address] = r

RingsHold == \A r \in 0 .. Rings - 1 : RingInv(sensorData[r], Mid(r), r, addressMap, now)

Newest(b) == b.data[Before(b.write)].value

\* The value that is pushed is not the one before it.
PushIsNew ==
  /\ main.pc \in {"push", "advance"} => SH!Known(SH!Address)
  /\ main.pc = "push" /\ SH!BufferOf(SH!Address).length > 0 =>
       Newest(SH!BufferOf(SH!Address)) # main.value
  /\ main.pc = "advance" => Newest(SH!BufferOf(SH!Address)) = main.value

HistoryInv == HistoryTypes /\ RingsAreOwn /\ RingsHold /\ PushIsNew

\* What the history takes for a finite set is one.
LEMMA SameSets ==
  ASSUME NEW S
  PROVE  (SH!IsFiniteSet(S) <=> IsFiniteSet(S)) /\ SH!Cardinality(S) = Cardinality(S)
<1>1. SH!IsFiniteSet(S) <=> IsFiniteSet(S)
  BY DEF SH!IsFiniteSet, IsFiniteSet
<1>2. SH!Cardinality(S) = Cardinality(S)
  BY DEF SH!Cardinality, Cardinality
<1> QED
  BY <1>1, <1>2

LEMMA AddressesAreFinite ==
  ASSUME SH!SensorHistoryAssumption
  PROVE  IsFiniteSet(SH!Addresses) /\ Cardinality(SH!Addresses) <= Rings
<1>1. 0 \in Int /\ 1 \in Int
  OBVIOUS
<1>2. IsFiniteSet(0 .. 1)
  BY <1>1, FS_Interval
<1>3. IsFiniteSet(Sensors) /\ Cardinality(SH!Addresses) <= Rings
  BY SameSets DEF SH!SensorHistoryAssumption
<1>4. IsFiniteSet(Sensors \X (0 .. 1))
  BY <1>2, <1>3, FS_Product
<1>5. SH!Addresses \subseteq Sensors \X (0 .. 1)
  BY DEF SH!Addresses
<1>6. IsFiniteSet(SH!Addresses)
  BY <1>4, <1>5, FS_Subset
<1> QED
  BY <1>3, <1>6

\* There is a ring for every address.
LEMMA RingOfAddress ==
  ASSUME SH!SensorHistoryAssumption, RingsAreOwn
  PROVE  /\ Cardinality(DOMAIN addressMap) \in 0 .. Rings
         /\ \A a \in DOMAIN addressMap : addressMap[a] \in 0 .. Rings - 1
         /\ \A a \in SH!Addresses : a \notin DOMAIN addressMap =>
              Cardinality(DOMAIN addressMap) \in 0 .. Rings - 1
<1>1. /\ IsFiniteSet(DOMAIN addressMap)
      /\ Cardinality(DOMAIN addressMap) <= Cardinality(SH!Addresses)
      /\ \A a \in SH!Addresses : a \notin DOMAIN addressMap => DOMAIN addressMap # SH!Addresses
  BY AddressesAreFinite, FS_Subset DEF RingsAreOwn
<1>2. Cardinality(DOMAIN addressMap) \in Nat /\ Cardinality(SH!Addresses) \in Nat
  BY <1>1, AddressesAreFinite, FS_CardinalityType
<1>3. /\ Cardinality(DOMAIN addressMap) <= Rings /\ Rings \in Nat
      /\ DOMAIN addressMap # SH!Addresses =>
           Cardinality(DOMAIN addressMap) < Cardinality(SH!Addresses)
  <2>1. DOMAIN addressMap # SH!Addresses =>
          Cardinality(DOMAIN addressMap) # Cardinality(SH!Addresses)
    BY AddressesAreFinite, FS_Subset DEF RingsAreOwn
  <2> QED
    BY <1>1, <1>2, <2>1, AddressesAreFinite, BufferSizes
<1> QED
  BY <1>1, <1>2, <1>3, AddressesAreFinite DEF RingsAreOwn

\* The states of the main task.
LEMMA MainIs ==
  ASSUME HistoryTypes
  PROVE  /\ main.pc \in {"idle", "compare", "add", "push", "advance"}
         /\ main.pc # "idle" =>
              main.sensor \in Sensors /\ main.index \in 0 .. 1 /\ SH!Address \in SH!Addresses
         /\ main.pc \in {"compare", "add"} =>
              main \in [pc : {"compare", "add"}, sensor : Sensors, index : 0 .. 1]
         /\ main.pc \in {"push", "advance"} =>
              /\ main \in [pc : {"push", "advance"}, sensor : Sensors, index : 0 .. 1, value : Int]
              /\ main.value \in Int
<1>1. /\ main.pc \in {"idle", "compare", "add", "push", "advance"}
      /\ main.pc # "idle" => main.sensor \in Sensors /\ main.index \in 0 .. 1
      /\ main.pc \in {"compare", "add"} =>
           main \in [pc : {"compare", "add"}, sensor : Sensors, index : 0 .. 1]
      /\ main.pc \in {"push", "advance"} =>
           /\ main \in [pc : {"push", "advance"}, sensor : Sensors, index : 0 .. 1, value : Int]
           /\ main.value \in Int
  BY DEF HistoryTypes, MainStates
<1>2. main.pc # "idle" => SH!Address \in SH!Addresses
  BY <1>1 DEF HistoryTypes, SH!Address, SH!Addresses
<1> QED
  BY <1>1, <1>2

\* The loop over the values of a sensor.
LEMMA NextIndexIs ==
  ASSUME SH!SensorHistoryAssumption, NEW s \in Sensors, NEW i \in 0 .. 1
  PROVE  /\ SH!NextIndex(s, i) \in MainStates
         /\ SH!NextIndex(s, i).pc \in {"idle", "compare"}
         /\ SH!NextIndex(s, i).pc # "idle" =>
              /\ SH!NextIndex(s, i).sensor = s /\ SH!NextIndex(s, i).index = i + 1
              /\ i + 1 < ValueCount[s]
         /\ SH!NextIndex(s, i).pc = "idle" => ~(i + 1 < ValueCount[s])
<1>1. ValueCount[s] \in 1 .. 2
  BY BufferSizes
<1>2. CASE i + 1 < ValueCount[s]
  BY <1>1, <1>2 DEF SH!NextIndex, MainStates
<1>3. CASE ~(i + 1 < ValueCount[s])
  BY <1>3 DEF SH!NextIndex, SH!IdleMain, MainStates
<1> QED
  BY <1>2, <1>3

\* Addresses and time come, what is stored stays.
LEMMA RingGrows ==
  ASSUME NEW b, NEW mid, NEW r, NEW map, NEW time \in Nat, RingInv(b, mid, r, map, time),
         NEW more, NEW later \in Nat, time <= later, DOMAIN map \subseteq DOMAIN more,
         \A a \in DOMAIN map : more[a] = map[a]
  PROVE  RingInv(b, mid, r, more, later)
<1>1. RingHolds(b, mid, r, more, later)
  <2> SUFFICES ASSUME NEW i \in RingSlots, IsWritten(b, mid, i)
               PROVE  /\ b.data[i] \in Stores /\ b.data[i].of \in DOMAIN more
                      /\ more[b.data[i].of] = r /\ b.data[i].time <= later
    BY DEF RingHolds
  <2>1. /\ b.data[i] \in Stores /\ b.data[i].of \in DOMAIN map /\ map[b.data[i].of] = r
        /\ b.data[i].time <= time
    BY DEF RingInv, RingHolds
  <2>2. b.data[i].time \in Nat
    BY <2>1 DEF Stores
  <2> QED
    BY <2>1, <2>2
<1> QED
  BY <1>1 DEF RingInv

LEMMA HistoryStarts == ASSUME SH!SensorHistoryAssumption, SH!Init PROVE HistoryInv
<1>1. \A r \in 0 .. Rings - 1 : RingInv(SH!Ring!Empty, FALSE, r, addressMap, now)
  BY EmptyKeepsRing
<1>2. /\ main.pc = "idle" /\ main \in MainStates
  BY DEF SH!Init, SH!IdleMain, MainStates
<1>3. RingsHold
  BY <1>1, <1>2 DEF SH!Init, RingsHold, Mid
<1>4. DOMAIN addressMap = {}
  BY DEF SH!Init
<1>5. SH!Ring!Empty \in RingType
  BY EmptyKeepsRing DEF RingInv
<1>6. HistoryTypes
  <2>1. events \in Seq(Sensors)
    BY EmptySeq DEF SH!Init
  <2> QED
    BY <1>2, <1>5, <2>1, BufferSizes DEF SH!Init, HistoryTypes
<1>7. RingsAreOwn
  BY <1>4 DEF RingsAreOwn
<1> QED
  BY <1>2, <1>3, <1>6, <1>7 DEF HistoryInv, PushIsNew

\* Steps of the clock, the service task and the reader.
LEMMA OthersKeepHistory ==
  ASSUME SH!SensorHistoryAssumption, HistoryInv,
         UNCHANGED <<main, addressMap, sensorData>>, now' \in Nat, now <= now',
         value' \in [SH!Addresses -> Int], unreported' \in Sensors \cup {SH!NoSensor},
         events' \in Seq(Sensors)
  PROVE  HistoryInv'
<1>1. HistoryTypes'
  BY DEF HistoryInv, HistoryTypes
<1>2. RingsAreOwn'
  BY DEF HistoryInv, RingsAreOwn
<1>3. ASSUME NEW r \in 0 .. Rings - 1
      PROVE  RingInv(sensorData[r], Mid(r), r, addressMap, now')
  <2>1. RingInv(sensorData[r], Mid(r), r, addressMap, now) /\ now \in Nat
    BY DEF HistoryInv, RingsHold, HistoryTypes
  <2> QED
    BY <2>1, RingGrows
<1>4. \A r : Mid(r)' = Mid(r)
  BY DEF Mid, SH!Address
<1>5. RingsHold'
  BY <1>3, <1>4 DEF RingsHold
<1>6. PushIsNew'
  BY DEF HistoryInv, PushIsNew, SH!Known, SH!BufferOf, SH!Address
<1> QED
  BY <1>1, <1>2, <1>5, <1>6 DEF HistoryInv

\* A measurement changes the values of one sensor, which then owes the report.
LEMMA MeasureIs ==
  ASSUME SH!SensorHistoryAssumption, HistoryTypes, NEW s \in Sensors, SH!Measure(s)
  PROVE  /\ value' \in [SH!Addresses -> Int] /\ unreported = SH!NoSensor /\ unreported' = s
         /\ \A a \in SH!Addresses : a[1] # s => value'[a] = value[a]
         /\ UNCHANGED <<events, synced, now, addressMap, sensorData, main, reader>>
<1>1. PICK measured \in [0 .. (ValueCount[s] - 1) -> Measured] :
        value' = [a \in SH!Addresses |-> IF a[1] = s THEN measured[a[2]] ELSE value[a]]
  BY DEF SH!Measure
<1>2. ASSUME NEW a \in SH!Addresses PROVE value'[a] \in Int /\ (a[1] # s => value'[a] = value[a])
  <2>1. a \in Sensors \X (0 .. 1) /\ a[2] < ValueCount[a[1]]
    BY DEF SH!Addresses
  <2>2. CASE a[1] = s
    <3>1. a[2] \in 0 .. (ValueCount[s] - 1)
      BY <2>1, <2>2, BufferSizes
    <3>2. measured[a[2]] \in Int
      BY <3>1, BufferSizes
    <3> QED
      BY <1>1, <2>2, <3>2
  <2>3. CASE a[1] # s
    BY <1>1, <2>3 DEF HistoryTypes
  <2> QED
    BY <2>2, <2>3
<1>3. value' \in [SH!Addresses -> Int]
  BY <1>1, <1>2
<1> QED
  BY <1>2, <1>3 DEF SH!Measure

\* Sensors, clock and http server leave the rings alone.
LEMMA TasksKeepHistory ==
  ASSUME SH!SensorHistoryAssumption, HistoryInv,
         \/ SH!Sync \/ SH!Tick \/ SH!DropEvent
         \/ \E s \in Sensors : SH!Measure(s)
         \/ \E a \in SH!Addresses, from \in 0 .. MaxTime : SH!Request(a, from)
         \/ SH!FindFirst \/ SH!FindEnd \/ SH!SendEntry \/ SH!FinishAnswer
         \/ UNCHANGED SH!vars
  PROVE  HistoryInv'
<1>1. /\ value \in [SH!Addresses -> Int] /\ unreported \in Sensors \cup {SH!NoSensor}
      /\ events \in Seq(Sensors) /\ now \in Nat
  BY DEF HistoryInv, HistoryTypes
<1>2. CASE \E s \in Sensors : SH!Measure(s)
  BY <1>1, <1>2, MeasureIs, OthersKeepHistory DEF HistoryInv
<1>3. CASE SH!DropEvent
  <2>1. /\ unreported \in Sensors /\ unreported' = SH!NoSensor
        /\ events' = Append(events, unreported)
        /\ UNCHANGED <<value, now, main, addressMap, sensorData>>
    BY <1>1, <1>3 DEF SH!DropEvent
  <2>2. events' \in Seq(Sensors)
    BY <1>1, <2>1, AppendProperties
  <2> QED
    BY <1>1, <2>1, <2>2, OthersKeepHistory
<1>4. CASE SH!Tick
  BY <1>1, <1>4, OthersKeepHistory DEF SH!Tick
<1>5. CASE SH!Sync \/ SH!FindFirst \/ SH!FindEnd \/ SH!SendEntry \/ SH!FinishAnswer
           \/ UNCHANGED SH!vars \/ \E a \in SH!Addresses, from \in 0 .. MaxTime : SH!Request(a, from)
  <2>1. UNCHANGED <<value, unreported, events, now, addressMap, sensorData, main>>
    BY <1>5 DEF SH!Sync, SH!FindFirst, SH!FindEnd, SH!SendEntry, SH!FinishAnswer, SH!vars, SH!Request
  <2> QED
    BY <1>1, <2>1, OthersKeepHistory
<1> QED
  BY <1>2, <1>3, <1>4, <1>5

\* The main task has not begun to push.
LEMMA NotMidKeepsHistory ==
  ASSUME SH!SensorHistoryAssumption, HistoryInv,
         UNCHANGED <<value, unreported, now, addressMap, sensorData>>, events' \in Seq(Sensors),
         main.pc # "advance", main' \in MainStates, main'.pc \notin {"push", "advance"},
         main'.pc # "idle" => main'.index < ValueCount[main'.sensor]
  PROVE  HistoryInv'
<1>1. HistoryTypes'
  BY DEF HistoryInv, HistoryTypes
<1>2. RingsAreOwn' /\ PushIsNew'
  BY DEF HistoryInv, RingsAreOwn, PushIsNew
<1>3. \A r : Mid(r)' = FALSE /\ Mid(r) = FALSE
  BY DEF Mid
<1>4. RingsHold'
  BY <1>3 DEF HistoryInv, RingsHold
<1> QED
  BY <1>1, <1>2, <1>4 DEF HistoryInv

LEMMA HandleEventKeepsHistory ==
  ASSUME SH!SensorHistoryAssumption, HistoryInv, SH!HandleEvent PROVE HistoryInv'
<1>1. events \in Seq(Sensors) /\ events # <<>> /\ events' = Tail(events)
  BY DEF HistoryInv, HistoryTypes, SH!HandleEvent
<1>2. Head(events) \in Sensors /\ events' \in Seq(Sensors)
  BY <1>1, HeadTailProperties
<1>3. ValueCount[Head(events)] \in 1 .. 2
  BY <1>2, BufferSizes
<1>4. \/ main' = [pc |-> "idle"]
      \/ main' = [pc |-> "compare", sensor |-> Head(events), index |-> 0]
  BY DEF SH!HandleEvent, SH!IdleMain
<1>5. /\ main' \in MainStates /\ main'.pc \in {"idle", "compare"}
      /\ main'.pc # "idle" => main'.index < ValueCount[main'.sensor]
  BY <1>2, <1>3, <1>4 DEF MainStates
<1>6. UNCHANGED <<value, unreported, now, addressMap, sensorData>> /\ main.pc # "advance"
  BY DEF SH!HandleEvent
<1> QED
  BY <1>2, <1>5, <1>6, NotMidKeepsHistory

\* Main compares a value with the newest one of its ring.
LEMMA CompareKeepsHistory ==
  ASSUME SH!SensorHistoryAssumption, HistoryInv, SH!Compare PROVE HistoryInv'
<1>1. /\ main \in [pc : {"compare", "add"}, sensor : Sensors, index : 0 .. 1]
      /\ main.pc = "compare" /\ main.index < ValueCount[main.sensor]
  BY MainIs DEF HistoryInv, HistoryTypes, SH!Compare, SH!At
<1>2. main' = [main EXCEPT !.pc = "add"] \/ main' = SH!NextIndex(main.sensor, main.index)
  BY DEF SH!Compare
<1>3. /\ main' \in MainStates /\ main'.pc \notin {"push", "advance"}
      /\ main'.pc # "idle" => main'.index < ValueCount[main'.sensor]
  <2>1. CASE main' = [main EXCEPT !.pc = "add"]
    BY <1>1, <2>1 DEF MainStates
  <2>2. CASE main' = SH!NextIndex(main.sensor, main.index)
    BY <1>1, <2>2, NextIndexIs
  <2> QED
    BY <1>2, <2>1, <2>2
<1>4. UNCHANGED <<value, unreported, now, addressMap, sensorData, events>>
  BY DEF SH!Compare
<1> QED
  BY <1>1, <1>3, <1>4, NotMidKeepsHistory DEF HistoryInv, HistoryTypes

\* What getSensorLastValue() finds.
LEMMA LastIs ==
  ASSUME SH!SensorHistoryAssumption, HistoryTypes, RingsAreOwn, NEW a \in SH!Addresses
  PROVE  /\ SH!HasLast(a) <=> SH!Known(a) /\ SH!BufferOf(a).length > 0
         /\ SH!HasLast(a) => SH!LastValue(a) = Newest(SH!BufferOf(a))
<1>1. ASSUME SH!Known(a)
      PROVE  /\ SH!BufferOf(a).length > 0 <=> SH!Ring!LastIndex(SH!BufferOf(a)) # -1
             /\ SH!BufferOf(a).length > 0 =>
                  SH!Ring!LastIndex(SH!BufferOf(a)) = Before(SH!BufferOf(a).write)
  <2> DEFINE b == SH!BufferOf(a)
  <2>1. addressMap[a] \in 0 .. Rings - 1
    BY <1>1, RingOfAddress DEF SH!Known
  <2>2. b \in RingType
    BY <2>1 DEF HistoryTypes, SH!BufferOf
  <2> HIDE DEF b
  <2>3. b.length \in 0 .. BufferSize /\ b.write \in 0 .. BufferSize - 1 /\ BufferSize \in Nat
        /\ BufferSize >= 2
    BY <2>2, BufferSizes DEF RingType, RingSlots
  <2>4. (b.length > 0 <=> SH!Ring!LastIndex(b) # -1)
        /\ (b.length > 0 => SH!Ring!LastIndex(b) = Before(b.write))
    BY <2>3 DEF SH!Ring!LastIndex, SH!Ring!InvalidIndex, Before
  <2> QED
    BY <2>4 DEF b
<1>2. SH!HasLast(a) <=> SH!Known(a) /\ SH!BufferOf(a).length > 0
  BY <1>1 DEF SH!HasLast, SH!Ring!InvalidIndex
<1>3. SH!HasLast(a) => SH!LastValue(a) = Newest(SH!BufferOf(a))
  BY <1>1, <1>2 DEF SH!LastValue, Newest
<1> QED
  BY <1>2, <1>3

\* A new address gets a ring of its own, which is empty.
LEMMA WithAddressIs ==
  ASSUME SH!SensorHistoryAssumption, HistoryInv, main.pc = "add", NEW a \in SH!Addresses,
         addressMap' = SH!WithAddress(a)
  PROVE  /\ RingsAreOwn' /\ a \in DOMAIN addressMap' /\ DOMAIN addressMap \subseteq DOMAIN addressMap'
         /\ \A c \in DOMAIN addressMap : addressMap'[c] = addressMap[c]
         /\ addressMap'[a] \in 0 .. Rings - 1
         /\ ~SH!Known(a) => sensorData[addressMap'[a]].length = 0
<1>0. RingsAreOwn /\ DOMAIN addressMap \subseteq SH!Addresses
  BY DEF HistoryInv, RingsAreOwn
<1>1. CASE SH!Known(a)
  <2>1. addressMap' = addressMap
    BY <1>1 DEF SH!WithAddress
  <2> QED
    BY <1>0, <1>1, <2>1, RingOfAddress DEF RingsAreOwn, SH!Known
<1>2. CASE ~SH!Known(a)
  <2> DEFINE n == Cardinality(DOMAIN addressMap)
  <2>1. a \notin DOMAIN addressMap
    BY <1>2 DEF SH!Known
  <2>2. n \in 0 .. Rings - 1
    BY <1>0, <2>1, RingOfAddress
  <2>3. addressMap' = [c \in DOMAIN addressMap \cup {a} |-> IF c = a THEN n ELSE addressMap[c]]
    BY <1>2, SameSets DEF SH!WithAddress, SH!MapWith
  <2>4. IsFiniteSet(DOMAIN addressMap)
    BY <1>0, AddressesAreFinite, FS_Subset
  <2>5. Cardinality(DOMAIN addressMap \cup {a}) = n + 1
    BY <2>1, <2>4, FS_AddElement
  <2>6. DOMAIN addressMap' = DOMAIN addressMap \cup {a}
    BY <2>3
  <2>7. Cardinality(DOMAIN addressMap') = n + 1
    BY <2>5, <2>6
  <2> HIDE DEF n
  <2>8. /\ \A c \in DOMAIN addressMap : c # a /\ addressMap'[c] = addressMap[c]
        /\ addressMap'[a] = n
    BY <2>1, <2>3
  <2>9. \A c \in DOMAIN addressMap : addressMap[c] \in 0 .. n - 1
    BY <1>0 DEF RingsAreOwn, n
  <2>10. RingsAreOwn'
    <3>1. \A c \in DOMAIN addressMap' : addressMap'[c] \in 0 .. (n + 1) - 1
      BY <2>2, <2>6, <2>8, <2>9
    <3>2. ASSUME NEW c \in DOMAIN addressMap', NEW d \in DOMAIN addressMap',
                 addressMap'[c] = addressMap'[d]
          PROVE  c = d
      <4>1. \A x \in DOMAIN addressMap : addressMap'[x] # n
        BY <2>2, <2>8, <2>9
      <4>2. CASE c \in DOMAIN addressMap /\ d \in DOMAIN addressMap
        BY <1>0, <2>8, <3>2, <4>2 DEF RingsAreOwn
      <4>3. CASE c = a \/ d = a
        BY <2>6, <2>8, <3>2, <4>1, <4>3
      <4> QED
        BY <2>6, <4>2, <4>3
    <3>3. DOMAIN addressMap' \subseteq SH!Addresses
      BY <1>0, <2>6
    <3> QED
      BY <2>7, <3>1, <3>2, <3>3 DEF RingsAreOwn
  <2>11. sensorData[n].length = 0
    <3> DEFINE b == sensorData[n]
    <3>1. b \in RingType /\ RingAgrees(b, FALSE) /\ RingHolds(b, FALSE, n, addressMap, now)
      BY <2>2 DEF HistoryInv, RingsHold, RingInv, Mid
    <3> HIDE DEF b
    <3>2. ASSUME NEW i \in RingSlots, IsWritten(b, FALSE, i) PROVE FALSE
      <4>1. b.data[i].of \in DOMAIN addressMap /\ addressMap[b.data[i].of] = n
        BY <3>1, <3>2 DEF RingHolds
      <4>2. n \in Int /\ n \in 0 .. n - 1
        BY <2>2, <2>9, <4>1
      <4> QED
        BY <4>2
    <3>3. b.length \in 0 .. BufferSize /\ b.write \in 0 .. BufferSize - 1 /\ BufferSize >= 2
          /\ BufferSize \in Nat
      BY <3>1, BufferSizes DEF RingType, RingSlots
    <3>4. ~IsWritten(b, FALSE, 0)
      <4>1. 0 \in RingSlots
        BY <3>3 DEF RingSlots
      <4> QED
        BY <3>2, <4>1
    <3>5. b.length = 0
      BY <3>1, <3>3, <3>4 DEF RingAgrees, IsWritten
    <3> QED
      BY <3>5 DEF b
  <2>12. DOMAIN addressMap \subseteq DOMAIN addressMap' /\ a \in DOMAIN addressMap'
    BY <2>6
  <2> QED
    BY <2>2, <2>8, <2>10, <2>11, <2>12
<1> QED
  BY <1>1, <1>2

\* An address met for the first time gets a ring that no other has.
LEMMA AddKeepsHistory ==
  ASSUME SH!SensorHistoryAssumption, HistoryInv, SH!Add PROVE HistoryInv'
<1> DEFINE a == SH!Address
<1>1. /\ main \in [pc : {"compare", "add"}, sensor : Sensors, index : 0 .. 1]
      /\ main.pc = "add" /\ main.index < ValueCount[main.sensor] /\ a \in SH!Addresses
      /\ a = <<main.sensor, main.index>>
  BY MainIs DEF HistoryInv, HistoryTypes, SH!Add, SH!At, SH!Address
<1>2. /\ UNCHANGED <<value, unreported, events, now, sensorData>>
      /\ addressMap' = SH!WithAddress(a)
      /\ main' = IF SH!IsRepeated(a) THEN SH!NextIndex(main.sensor, main.index)
                 ELSE [pc |-> "push", sensor |-> main.sensor, index |-> main.index,
                       value |-> value[a]]
  BY DEF SH!Add
<1> HIDE DEF a
<1>3. /\ RingsAreOwn' /\ a \in DOMAIN addressMap' /\ DOMAIN addressMap \subseteq DOMAIN addressMap'
      /\ \A c \in DOMAIN addressMap : addressMap'[c] = addressMap[c]
      /\ addressMap'[a] \in 0 .. Rings - 1
      /\ ~SH!Known(a) => sensorData[addressMap'[a]].length = 0
  BY <1>1, <1>2, WithAddressIs
<1>4. value[a] \in Int
  BY <1>1 DEF HistoryInv, HistoryTypes
<1>5. /\ main' \in MainStates /\ main'.pc \in {"idle", "compare", "push"}
      /\ main'.pc # "idle" => main'.index < ValueCount[main'.sensor]
  <2>1. CASE SH!IsRepeated(a)
    BY <1>1, <1>2, <2>1, NextIndexIs
  <2>2. CASE ~SH!IsRepeated(a)
    BY <1>1, <1>2, <1>4, <2>2 DEF MainStates
  <2> QED
    BY <2>1, <2>2
<1>6. HistoryTypes'
  BY <1>2, <1>5 DEF HistoryInv, HistoryTypes
<1>7. ASSUME NEW r \in 0 .. Rings - 1
      PROVE  RingInv(sensorData[r], FALSE, r, addressMap', now)
  <2>1. RingInv(sensorData[r], FALSE, r, addressMap, now) /\ now \in Nat
    BY <1>1 DEF HistoryInv, RingsHold, HistoryTypes, Mid
  <2>2. now <= now
    BY <2>1
  <2> QED
    BY <1>3, <2>1, <2>2, RingGrows
<1>8. RingsHold'
  <2>1. \A r : Mid(r)' = FALSE
    BY <1>5 DEF Mid
  <2> QED
    BY <1>2, <1>7, <2>1 DEF RingsHold
<1>9. PushIsNew'
  <2>1. CASE SH!IsRepeated(a)
    <3>1. main'.pc \notin {"push", "advance"}
      BY <1>1, <1>2, <2>1, NextIndexIs
    <3> QED
      BY <3>1 DEF PushIsNew
  <2>2. CASE ~SH!IsRepeated(a)
    <3>1. main'.pc = "push" /\ main'.value = value[a]
      BY <1>2, <2>2
    <3>2. SH!Address' = a
      BY <1>1, <1>2, <2>2 DEF SH!Address
    <3>3. SH!Known(SH!Address)'
      BY <1>3, <3>2 DEF SH!Known
    <3>4. SH!BufferOf(SH!Address)' = sensorData[addressMap'[a]]
      BY <1>2, <3>2 DEF SH!BufferOf
    <3>5. ASSUME sensorData[addressMap'[a]].length > 0
          PROVE  Newest(sensorData[addressMap'[a]]) # value[a]
      <4>1. SH!Known(a)
        BY <1>3, <3>5
      <4>2. sensorData[addressMap'[a]] = SH!BufferOf(a)
        BY <1>3, <4>1 DEF SH!BufferOf, SH!Known
      <4>3. SH!HasLast(a) /\ SH!LastValue(a) = Newest(SH!BufferOf(a))
        BY <1>1, <3>5, <4>1, <4>2, LastIs DEF HistoryInv
      <4> QED
        BY <2>2, <4>2, <4>3 DEF SH!IsRepeated
    <3> QED
      BY <3>1, <3>3, <3>4, <3>5 DEF PushIsNew
  <2> QED
    BY <2>1, <2>2
<1> QED
  BY <1>3, <1>6, <1>8, <1>9 DEF HistoryInv

\* One ring changes, the one of the address the main task is at.
LEMMA PushKeepsHistory ==
  ASSUME SH!SensorHistoryAssumption, HistoryInv, SH!Push
  PROVE  /\ HistoryInv'
         /\ \A b \in DOMAIN addressMap : b # SH!Address => SH!BufferOf(b)' = SH!BufferOf(b)
<1> DEFINE a == SH!Address
           ring == addressMap[a]
           e == [of |-> a, value |-> main.value, time |-> now]
<1>1. /\ main \in [pc : {"push", "advance"}, sensor : Sensors, index : 0 .. 1, value : Int]
      /\ main.pc = "push" /\ main.index < ValueCount[main.sensor]
      /\ a \in SH!Addresses /\ main.value \in Int
  BY MainIs DEF HistoryInv, HistoryTypes, SH!Push, SH!At
<1>2. RingsAreOwn /\ a \in DOMAIN addressMap /\ ring \in 0 .. Rings - 1
  BY <1>1, RingOfAddress DEF HistoryInv, PushIsNew, SH!Known
<1>3. /\ UNCHANGED <<value, unreported, events, now, addressMap>>
      /\ sensorData' = [sensorData EXCEPT ![ring] = SH!Ring!Stored(@, e)]
      /\ main' = [main EXCEPT !.pc = "advance"]
  BY DEF SH!Push
<1>4. /\ now \in Nat /\ sensorData \in [0 .. Rings - 1 -> RingType]
      /\ now <= now
  <2>1. now \in Nat /\ sensorData \in [0 .. Rings - 1 -> RingType]
    BY DEF HistoryInv, HistoryTypes
  <2> QED
    BY <2>1
<1>5. SH!Address' = a
  BY <1>1, <1>3 DEF SH!Address
<1>6. \A q : Mid(q) = FALSE
  BY <1>1 DEF Mid
<1>7. RingInv(sensorData[ring], FALSE, ring, addressMap, now)
  BY <1>2, <1>6 DEF HistoryInv, RingsHold
<1>8. e \in Stores /\ e.of = a /\ e.value = main.value /\ e.time = now
  BY <1>1, <1>4 DEF Stores
<1>9. sensorData[ring] = SH!BufferOf(a)
  BY DEF SH!BufferOf
<1>10. sensorData[ring].length > 0 => sensorData[ring].data[Before(sensorData[ring].write)].value # e.value
  BY <1>1, <1>8, <1>9 DEF HistoryInv, PushIsNew, Newest
<1>11. /\ sensorData'[ring] = SH!Ring!Stored(sensorData[ring], e)
       /\ \A q \in 0 .. Rings - 1 : q # ring => sensorData'[q] = sensorData[q]
       /\ DOMAIN sensorData' = 0 .. Rings - 1
  BY <1>2, <1>3, <1>4
<1>12. addressMap[a] = ring
  OBVIOUS
<1> HIDE DEF a, ring, e
<1>23. e.of \in DOMAIN addressMap /\ addressMap[e.of] = ring
  BY <1>2, <1>8, <1>12
<1> DEFINE c == SH!Ring!Stored(sensorData[ring], e)
<1>13. /\ RingInv(c, TRUE, ring, addressMap, now)
       /\ c.write = Round(sensorData[ring].write + 1)
       /\ c.data[sensorData[ring].write] = e
  <2> HIDE DEF c
  <2>1. ASSUME NEW x \in Stores, x.of \in DOMAIN addressMap, addressMap[x.of] = ring, x.time = now,
               sensorData[ring].length > 0 =>
                 sensorData[ring].data[Before(sensorData[ring].write)].value # x.value
        PROVE  /\ RingInv(SH!Ring!Stored(sensorData[ring], x), TRUE, ring, addressMap, now)
               /\ SH!Ring!Stored(sensorData[ring], x).write = Round(sensorData[ring].write + 1)
               /\ SH!Ring!Stored(sensorData[ring], x).data[sensorData[ring].write] = x
    <3>1. /\ now \in Nat /\ RingInv(sensorData[ring], FALSE, ring, addressMap, now)
          /\ x \in Stores /\ x.of \in DOMAIN addressMap /\ addressMap[x.of] = ring
          /\ x.time = now
      BY <1>4, <1>7, <2>1
    <3>2. RingInv(SH!Ring!Stored(sensorData[ring], x), TRUE, ring, addressMap, now)
      BY <2>1, <3>1, StoredKeepsRing
    <3> QED
      BY <2>1, <3>1, <3>2, StoredKeepsRing
  <2> QED
    BY <1>8, <1>10, <1>23, <2>1 DEF c
<1>14. sensorData'[ring] = c
  BY <1>11
<1> HIDE DEF c
<1>15. c \in RingType /\ sensorData[ring].write \in RingSlots
  BY <1>7, <1>13 DEF RingInv, RingType
<1>16. sensorData' \in [0 .. Rings - 1 -> RingType]
  <2>1. \A q \in 0 .. Rings - 1 : sensorData'[q] \in RingType
    BY <1>4, <1>11, <1>14, <1>15
  <2>2. sensorData' = [q \in 0 .. Rings - 1 |-> sensorData'[q]]
    BY <1>3, <1>4
  <2> QED
    BY <2>1, <2>2
<1>17. main' \in MainStates /\ main'.pc = "advance" /\ main'.value = main.value
       /\ main'.index < ValueCount[main'.sensor]
  BY <1>1, <1>3 DEF MainStates
<1>18. HistoryTypes'
  BY <1>3, <1>16, <1>17 DEF HistoryInv, HistoryTypes
<1>19. RingsAreOwn'
  BY <1>2, <1>3 DEF RingsAreOwn
<1>20. RingsHold'
  <2>1. \A q : Mid(q)' <=> ring = q
    BY <1>3, <1>5, <1>12, <1>17 DEF Mid
  <2>2. ASSUME NEW q \in 0 .. Rings - 1 PROVE RingInv(sensorData'[q], ring = q, q, addressMap, now)
    <3>1. CASE q = ring
      BY <1>13, <1>14, <3>1
    <3>2. CASE q # ring
      <4>1. RingInv(sensorData[q], FALSE, q, addressMap, now)
        BY <1>6 DEF HistoryInv, RingsHold
      <4> QED
        BY <1>11, <3>2, <4>1
    <3> QED
      BY <3>1, <3>2
  <2>3. \A q : Mid(q)' = (ring = q)
    BY <2>1 DEF Mid
  <2> QED
    BY <1>3, <2>2, <2>3 DEF RingsHold
<1>21. PushIsNew'
  <2>1. SH!BufferOf(a)' = c
    BY <1>3, <1>12, <1>14 DEF SH!BufferOf, a, SH!Address
  <2>2. SH!BufferOf(SH!Address)' = c
    BY <1>3, <1>5, <1>12, <1>14 DEF SH!BufferOf
  <2>3. Before(c.write) = sensorData[ring].write
    BY <1>13, <1>15, RoundAndBefore
  <2>4. Newest(c) = main.value
    BY <1>8, <1>13, <2>3 DEF Newest
  <2>5. SH!Known(SH!Address)'
    BY <1>2, <1>3, <1>5 DEF SH!Known
  <2> QED
    BY <1>17, <2>2, <2>4, <2>5 DEF PushIsNew
<1>22. \A b \in DOMAIN addressMap : b # a => SH!BufferOf(b)' = SH!BufferOf(b)
  <2>1. \A b \in DOMAIN addressMap : addressMap[b] \in 0 .. Rings - 1
    BY <1>2, RingOfAddress
  <2>2. \A b \in DOMAIN addressMap : b # a => addressMap[b] # ring
    BY <1>2, <1>12 DEF RingsAreOwn
  <2> QED
    BY <1>3, <1>11, <2>1, <2>2 DEF SH!BufferOf
<1> QED
  BY <1>18, <1>19, <1>20, <1>21, <1>22 DEF HistoryInv, a

\* The second half of a push; the other rings stay as they are.
LEMMA AdvanceKeepsHistory ==
  ASSUME SH!SensorHistoryAssumption, HistoryInv, SH!Advance
  PROVE  /\ HistoryInv'
         /\ \A b \in DOMAIN addressMap : b # SH!Address => SH!BufferOf(b)' = SH!BufferOf(b)
         /\ SH!BufferOf(SH!Address).write = sensorData'[addressMap[SH!Address]].write
         /\ SH!BufferOf(SH!Address).data = sensorData'[addressMap[SH!Address]].data
         /\ Newest(sensorData'[addressMap[SH!Address]]) = main.value
<1> DEFINE a == SH!Address
           r == addressMap[a]
<1>1. /\ main \in [pc : {"push", "advance"}, sensor : Sensors, index : 0 .. 1, value : Int]
      /\ main.pc = "advance" /\ main.index < ValueCount[main.sensor]
      /\ a \in SH!Addresses /\ main.value \in Int
  BY MainIs DEF HistoryInv, HistoryTypes, SH!Advance, SH!At
<1>2. RingsAreOwn /\ a \in DOMAIN addressMap /\ r \in 0 .. Rings - 1
  BY <1>1, RingOfAddress DEF HistoryInv, PushIsNew, SH!Known
<1>3. /\ UNCHANGED <<value, unreported, events, now, addressMap>>
      /\ sensorData' = [sensorData EXCEPT ![r] = SH!Ring!Advanced(@)]
      /\ main' = SH!NextIndex(main.sensor, main.index)
  BY DEF SH!Advance
<1>4. now \in Nat /\ sensorData \in [0 .. Rings - 1 -> RingType]
  BY DEF HistoryInv, HistoryTypes
<1>5. \A q : Mid(q) = (r = q)
  BY <1>1 DEF Mid
<1>6. RingInv(sensorData[r], TRUE, r, addressMap, now)
  BY <1>2, <1>5 DEF HistoryInv, RingsHold
<1>7. sensorData[r] = SH!BufferOf(a) /\ addressMap[a] = r
  BY DEF SH!BufferOf
<1>8. /\ sensorData'[r] = SH!Ring!Advanced(sensorData[r])
      /\ \A q \in 0 .. Rings - 1 : q # r => sensorData'[q] = sensorData[q]
      /\ DOMAIN sensorData' = 0 .. Rings - 1
  BY <1>2, <1>3, <1>4
<1>9. Newest(SH!BufferOf(a)) = main.value
  BY <1>1 DEF HistoryInv, PushIsNew
<1>10. PushIsNew'
  <2>1. main'.pc \in {"idle", "compare"}
    BY <1>1, <1>3, NextIndexIs
  <2> QED
    BY <2>1 DEF PushIsNew
<1> HIDE DEF a, r
<1> DEFINE c == SH!Ring!Advanced(sensorData[r])
<1>11. /\ RingInv(c, FALSE, r, addressMap, now)
       /\ c.write = sensorData[r].write /\ c.data = sensorData[r].data
  BY <1>4, <1>6, AdvancedKeepsRing
<1>12. sensorData'[r] = c
  BY <1>8
<1> HIDE DEF c
<1>13. c \in RingType
  BY <1>11 DEF RingInv
<1>14. sensorData' \in [0 .. Rings - 1 -> RingType]
  <2>1. \A q \in 0 .. Rings - 1 : sensorData'[q] \in RingType
    BY <1>4, <1>8, <1>12, <1>13
  <2>2. sensorData' = [q \in 0 .. Rings - 1 |-> sensorData'[q]]
    BY <1>3, <1>4
  <2> QED
    BY <2>1, <2>2
<1>15. main' \in MainStates /\ main'.pc \in {"idle", "compare"}
       /\ (main'.pc # "idle" => main'.index < ValueCount[main'.sensor])
  BY <1>1, <1>3, NextIndexIs
<1>16. HistoryTypes'
  BY <1>3, <1>14, <1>15 DEF HistoryInv, HistoryTypes
<1>17. RingsAreOwn'
  BY <1>2, <1>3 DEF RingsAreOwn
<1>18. RingsHold'
  <2>1. \A q : Mid(q)' = FALSE
    BY <1>15 DEF Mid
  <2>2. ASSUME NEW q \in 0 .. Rings - 1 PROVE RingInv(sensorData'[q], FALSE, q, addressMap, now)
    <3>1. CASE q = r
      BY <1>11, <1>12, <3>1
    <3>2. CASE q # r
      <4>1. RingInv(sensorData[q], Mid(q), q, addressMap, now)
        BY DEF HistoryInv, RingsHold
      <4>2. Mid(q) = FALSE
        BY <1>5, <3>2
      <4> QED
        BY <1>8, <3>2, <4>1, <4>2
    <3> QED
      BY <3>1, <3>2
  <2> QED
    BY <1>3, <2>1, <2>2 DEF RingsHold
<1>19. \A b \in DOMAIN addressMap : b # a => SH!BufferOf(b)' = SH!BufferOf(b)
  <2>1. \A b \in DOMAIN addressMap : addressMap[b] \in 0 .. Rings - 1
    BY <1>2, RingOfAddress
  <2>2. \A b \in DOMAIN addressMap : b # a => addressMap[b] # r
    BY <1>2, <1>7 DEF RingsAreOwn
  <2> QED
    BY <1>3, <1>8, <2>1, <2>2 DEF SH!BufferOf
<1>20. /\ SH!BufferOf(a).write = sensorData'[addressMap[a]].write
       /\ SH!BufferOf(a).data = sensorData'[addressMap[a]].data
       /\ Newest(sensorData'[addressMap[a]]) = main.value
  BY <1>7, <1>9, <1>11, <1>12 DEF Newest
<1> QED
  BY <1>10, <1>16, <1>17, <1>18, <1>19, <1>20 DEF HistoryInv, a

\* The invariant of the history.
LEMMA StepKeepsHistory ==
  ASSUME SH!SensorHistoryAssumption, HistoryInv, SH!Next \/ UNCHANGED SH!vars PROVE HistoryInv'
<1>1. CASE \/ SH!Sync \/ SH!Tick \/ SH!DropEvent
           \/ \E s \in Sensors : SH!Measure(s)
           \/ \E a \in SH!Addresses, from \in 0 .. MaxTime : SH!Request(a, from)
           \/ SH!FindFirst \/ SH!FindEnd \/ SH!SendEntry \/ SH!FinishAnswer
           \/ UNCHANGED SH!vars
  BY <1>1, TasksKeepHistory
<1>2. CASE SH!HandleEvent
  BY <1>2, HandleEventKeepsHistory
<1>3. CASE SH!Compare
  BY <1>3, CompareKeepsHistory
<1>4. CASE SH!Add
  BY <1>4, AddKeepsHistory
<1>5. CASE SH!Push
  BY <1>5, PushKeepsHistory
<1>6. CASE SH!Advance
  BY <1>6, AdvanceKeepsHistory
<1> QED
  BY <1>1, <1>2, <1>3, <1>4, <1>5, <1>6 DEF SH!Next

-----------------------------------------------------------------------------
(* What is stored catches up with what was measured                        *)

\* A report of the sensor is under way.
Reported(s) == unreported = s \/ \E k \in DOMAIN events : events[k] = s

\* The main task has not yet come past the address.
Ahead(a) == main.pc # "idle" /\ main.sensor = a[1] /\ main.index <= a[2]

Close(a) == SH!Distance(value[a], SH!LastValue(a)) <= Precision[a]

StoredWhenSynced ==
  (main.pc # "idle" \/ \E a \in SH!Addresses : SH!HasLast(a)) => synced

CloseOrAhead ==
  \A a \in SH!Addresses : SH!HasLast(a) => Reported(a[1]) \/ Ahead(a) \/ Close(a)

\* The value about to be stored is still the sensor's, or a report will follow.
PushedIsReported ==
  main.pc \in {"push", "advance"} => Reported(main.sensor) \/ value[SH!Address] = main.value

CatchInv == HistoryInv /\ StoredWhenSynced /\ CloseOrAhead /\ PushedIsReported

\* Where getSensorLastValue() looks.
LEMMA LastIndexIs ==
  ASSUME NEW b, SH!Ring!LastIndex(b) # SH!Ring!InvalidIndex
  PROVE  SH!Ring!LastIndex(b) = Before(b.write)
  BY DEF SH!Ring!LastIndex, SH!Ring!InvalidIndex, Before

\* Nothing is as close as the value itself.
LEMMA SameIsClose ==
  ASSUME SH!SensorHistoryAssumption, NEW a \in SH!Addresses, NEW x \in Int
  PROVE  SH!Distance(x, x) <= Precision[a]
  BY BufferSizes DEF SH!Distance

\* Steps that leave the main task and the rings alone.
LEMMA OthersKeepCatch ==
  ASSUME SH!SensorHistoryAssumption, CatchInv, HistoryInv',
         UNCHANGED <<main, addressMap, sensorData>>, synced => synced',
         \A s \in Sensors : Reported(s) => Reported(s)',
         \A a \in SH!Addresses : value'[a] = value[a] \/ Reported(a[1])'
  PROVE  CatchInv'
<1>1. \A a : SH!HasLast(a)' = SH!HasLast(a) /\ SH!LastValue(a)' = SH!LastValue(a)
  BY DEF SH!HasLast, SH!LastValue, SH!Known, SH!BufferOf
<1>2. StoredWhenSynced'
  BY <1>1 DEF CatchInv, StoredWhenSynced
<1>3. ASSUME NEW a \in SH!Addresses, SH!HasLast(a)'
      PROVE  Reported(a[1])' \/ Ahead(a)' \/ Close(a)'
  <2>1. a[1] \in Sensors
    BY DEF SH!Addresses
  <2>2. Reported(a[1]) \/ Ahead(a) \/ Close(a)
    BY <1>1, <1>3 DEF CatchInv, CloseOrAhead
  <2>3. CASE Reported(a[1])
    BY <2>1, <2>3
  <2>4. CASE Ahead(a)
    BY <2>4 DEF Ahead
  <2>5. CASE Close(a)
    BY <1>1, <2>5 DEF Close
  <2> QED
    BY <2>2, <2>3, <2>4, <2>5
<1>4. CloseOrAhead'
  BY <1>3 DEF CloseOrAhead
<1>5. PushedIsReported'
  <2> SUFFICES ASSUME main.pc \in {"push", "advance"}
               PROVE  Reported(main.sensor)' \/ value'[SH!Address] = main.value
    BY DEF PushedIsReported, SH!Address
  <2>1. main.sensor \in Sensors /\ SH!Address \in SH!Addresses /\ SH!Address[1] = main.sensor
    BY MainIs DEF CatchInv, HistoryInv, SH!Address
  <2>2. Reported(main.sensor) \/ value[SH!Address] = main.value
    BY DEF CatchInv, PushedIsReported
  <2>3. value'[SH!Address] = value[SH!Address] \/ Reported(main.sensor)'
    BY <2>1
  <2>4. Reported(main.sensor) => Reported(main.sensor)'
    BY <2>1
  <2> QED
    BY <2>2, <2>3, <2>4
<1> QED
  BY <1>2, <1>4, <1>5 DEF CatchInv

LEMMA TasksKeepCatch ==
  ASSUME SH!SensorHistoryAssumption, CatchInv, HistoryInv',
         \/ SH!Sync \/ SH!Tick \/ SH!DropEvent
         \/ \E s \in Sensors : SH!Measure(s)
         \/ \E a \in SH!Addresses, from \in 0 .. MaxTime : SH!Request(a, from)
         \/ SH!FindFirst \/ SH!FindEnd \/ SH!SendEntry \/ SH!FinishAnswer
         \/ UNCHANGED SH!vars
  PROVE  CatchInv'
<1>1. CASE SH!Sync \/ SH!Tick \/ SH!FindFirst \/ SH!FindEnd \/ SH!SendEntry \/ SH!FinishAnswer
           \/ UNCHANGED SH!vars \/ \E a \in SH!Addresses, from \in 0 .. MaxTime : SH!Request(a, from)
  <2>1. UNCHANGED <<value, unreported, events, addressMap, sensorData, main>>
        /\ (synced => synced')
    BY <1>1 DEF SH!Sync, SH!Tick, SH!FindFirst, SH!FindEnd, SH!SendEntry, SH!FinishAnswer,
                SH!vars, SH!Request
  <2>2. \A s : Reported(s)' = Reported(s)
    BY <2>1 DEF Reported
  <2> QED
    BY <2>1, <2>2, OthersKeepCatch
<1>2. CASE SH!DropEvent
  <2>1. /\ UNCHANGED <<value, synced, addressMap, sensorData, main>>
        /\ events' = Append(events, unreported) /\ events \in Seq(Sensors)
        /\ unreported \in Sensors
    BY <1>2 DEF SH!DropEvent, CatchInv, HistoryInv, HistoryTypes
  <2>2. /\ Len(events) \in Nat /\ DOMAIN events = 1 .. Len(events)
        /\ DOMAIN events' = 1 .. Len(events) + 1 /\ events'[Len(events) + 1] = unreported
        /\ \A k \in 1 .. Len(events) : events'[k] = events[k]
    <3>1. Len(events') = Len(events) + 1 /\ events' \in Seq(Sensors) /\ Len(events) \in Nat
      BY <2>1, AppendProperties, LenProperties
    <3>2. DOMAIN events = 1 .. Len(events) /\ DOMAIN events' = 1 .. Len(events')
      BY <2>1, <3>1, LenProperties
    <3>3. \A k \in 1 .. Len(events) + 1 :
            events'[k] = IF k <= Len(events) THEN events[k] ELSE unreported
      BY <2>1, <3>1, AppendProperties
    <3>4. Len(events) + 1 \in 1 .. Len(events) + 1 /\ ~(Len(events) + 1 <= Len(events))
          /\ \A k \in 1 .. Len(events) : k \in 1 .. Len(events) + 1 /\ k <= Len(events)
      BY <3>1
    <3> QED
      BY <3>1, <3>2, <3>3, <3>4
  <2>3. Len(events) + 1 \in DOMAIN events' /\ DOMAIN events \subseteq DOMAIN events'
    BY <2>2
  <2>4. \A s \in Sensors : Reported(s) => Reported(s)'
    BY <2>2, <2>3 DEF Reported
  <2> QED
    BY <2>1, <2>4, OthersKeepCatch
<1>3. ASSUME NEW s \in Sensors, SH!Measure(s) PROVE CatchInv'
  <2>1. /\ unreported = SH!NoSensor /\ unreported' = s
        /\ \A a \in SH!Addresses : a[1] # s => value'[a] = value[a]
        /\ UNCHANGED <<events, synced, addressMap, sensorData, main>>
    BY <1>3, MeasureIs DEF CatchInv, HistoryInv
  <2>2. Reported(s)' /\ \A t \in Sensors : Reported(t) => Reported(t)'
    BY <2>1, BufferSizes DEF Reported
  <2>3. \A a \in SH!Addresses : value'[a] = value[a] \/ Reported(a[1])'
    BY <2>1, <2>2
  <2> QED
    BY <2>1, <2>2, <2>3, OthersKeepCatch
<1> QED
  BY <1>1, <1>2, <1>3

\* A report is handled before the clock has its time only when nothing is stored.
LEMMA HandleEventKeepsCatch ==
  ASSUME SH!SensorHistoryAssumption, CatchInv, HistoryInv', SH!HandleEvent PROVE CatchInv'
<1>1. /\ UNCHANGED <<value, unreported, synced, addressMap, sensorData>>
      /\ events \in Seq(Sensors) /\ events # <<>> /\ events' = Tail(events)
      /\ main.pc = "idle"
      /\ main' = IF synced THEN [pc |-> "compare", sensor |-> Head(events), index |-> 0]
                 ELSE [pc |-> "idle"]
  BY DEF SH!HandleEvent, CatchInv, HistoryInv, HistoryTypes, SH!IdleMain
<1>2. \A a : SH!HasLast(a)' = SH!HasLast(a) /\ SH!LastValue(a)' = SH!LastValue(a)
  BY <1>1 DEF SH!HasLast, SH!LastValue, SH!Known, SH!BufferOf
<1>3. \A s : Reported(s) => s = Head(events) \/ Reported(s)'
  <2>1. /\ Len(events) \in Nat \ {0} /\ DOMAIN events = 1 .. Len(events)
        /\ DOMAIN events' = 1 .. Len(events) - 1
        /\ \A k \in 1 .. Len(events) - 1 : events'[k] = events[k + 1]
        /\ Head(events) = events[1]
    <3>1. Len(events) \in Nat /\ DOMAIN events = 1 .. Len(events) /\ Len(events) # 0
      BY <1>1, LenProperties, EmptySeq
    <3>2. /\ events' \in Seq(Sensors) /\ Len(events') = Len(events) - 1
          /\ \A k \in 1 .. Len(Tail(events)) : Tail(events)[k] = events[k + 1]
      BY <1>1, HeadTailProperties
    <3>3. DOMAIN events' = 1 .. Len(events')
      BY <3>2, LenProperties
    <3>4. Head(events) = events[1]
      BY <1>1, SMT
    <3> QED
      BY <1>1, <3>1, <3>2, <3>3, <3>4
  <2>2. ASSUME NEW k \in 1 .. Len(events), k # 1
        PROVE  k - 1 \in DOMAIN events' /\ events'[k - 1] = events[k]
    <3>1. k - 1 \in 1 .. Len(events) - 1 /\ (k - 1) + 1 = k
      BY <2>1, <2>2
    <3> QED
      BY <2>1, <3>1
  <2> QED
    BY <1>1, <2>1, <2>2 DEF Reported
<1>4. main'.pc # "idle" => synced /\ main'.sensor = Head(events) /\ main'.index = 0
  BY <1>1
<1>5. main'.pc = "idle" => ~synced
  BY <1>1
<1>6. StoredWhenSynced'
  BY <1>1, <1>2, <1>4 DEF CatchInv, StoredWhenSynced
<1>7. ASSUME NEW a \in SH!Addresses, SH!HasLast(a)'
      PROVE  Reported(a[1])' \/ Ahead(a)' \/ Close(a)'
  <2>1. 0 <= a[2]
    BY DEF SH!Addresses
  <2>2. synced /\ (Reported(a[1]) \/ Ahead(a) \/ Close(a))
    BY <1>2, <1>7 DEF CatchInv, StoredWhenSynced, CloseOrAhead
  <2>3. a[1] = Head(events) => Ahead(a)'
    BY <1>4, <1>5, <2>1, <2>2 DEF Ahead
  <2>4. ~Ahead(a)
    BY <1>1 DEF Ahead
  <2>5. Close(a) => Close(a)'
    BY <1>1, <1>2 DEF Close
  <2> QED
    BY <1>3, <2>2, <2>3, <2>4, <2>5
<1>8. PushedIsReported'
  BY <1>1 DEF PushedIsReported
<1> QED
  BY <1>6, <1>7, <1>8 DEF CatchInv, CloseOrAhead

\* The loop comes past one address only.
LEMMA NextIndexPasses ==
  ASSUME SH!SensorHistoryAssumption, HistoryTypes, main.pc # "idle",
         main' = SH!NextIndex(main.sensor, main.index),
         NEW a \in SH!Addresses, a # SH!Address, Ahead(a)
  PROVE  Ahead(a)'
<1>1. /\ main.sensor \in Sensors /\ main.index \in 0 .. 1 /\ main.index < ValueCount[main.sensor]
      /\ ValueCount[main.sensor] \in 1 .. 2
  BY MainIs, BufferSizes DEF HistoryTypes
<1>2. a[1] = main.sensor /\ a[2] \in 0 .. 1 /\ a[2] < ValueCount[main.sensor]
      /\ a = <<a[1], a[2]>> /\ main.index <= a[2]
  BY DEF SH!Addresses, Ahead
<1>3. a[2] # main.index
  BY <1>2 DEF SH!Address
<1>4. main.index + 1 <= a[2] /\ main.index + 1 < ValueCount[main.sensor]
  BY <1>1, <1>2, <1>3
<1>5. main'.pc # "idle" /\ main'.sensor = main.sensor /\ main'.index = main.index + 1
  BY <1>1, <1>4, NextIndexIs
<1> QED
  BY <1>2, <1>4, <1>5 DEF Ahead

LEMMA LastValueType ==
  ASSUME SH!SensorHistoryAssumption, HistoryInv, main.pc # "advance",
         NEW a \in SH!Addresses, SH!HasLast(a)
  PROVE  SH!LastValue(a) \in Int
<1> DEFINE b == SH!BufferOf(a)
<1>1. /\ a \in DOMAIN addressMap /\ b.length > 0 /\ SH!LastValue(a) = b.data[Before(b.write)].value
  BY LastIs DEF HistoryInv, SH!Known, Newest
<1>2. addressMap[a] \in 0 .. Rings - 1
  BY <1>1, RingOfAddress DEF HistoryInv
<1>3. RingInv(b, FALSE, addressMap[a], addressMap, now)
  <2>1. RingInv(b, Mid(addressMap[a]), addressMap[a], addressMap, now)
    BY <1>2 DEF HistoryInv, RingsHold, SH!BufferOf
  <2>2. Mid(addressMap[a]) = FALSE
    BY DEF Mid
  <2> QED
    BY <2>1, <2>2
<1> HIDE DEF b
<1>4. b.write \in 0 .. BufferSize - 1 /\ b.length \in 0 .. BufferSize /\ BufferSize \in Nat
      /\ BufferSize >= 2
  BY <1>3, BufferSizes DEF RingInv, RingType, RingSlots
<1>5. Before(b.write) \in RingSlots
  BY <1>4, RoundAndBefore DEF RingSlots
<1>6. IsWritten(b, FALSE, Before(b.write))
  BY <1>1, <1>3, <1>4 DEF RingInv, RingAgrees, IsWritten, Before
<1>7. b.data[Before(b.write)] \in Stores
  BY <1>3, <1>5, <1>6 DEF RingInv, RingHolds
<1> QED
  BY <1>1, <1>7 DEF Stores

\* Steps of the main task: what holds for the address it is at is left to show.
LEMMA MainKeepsCatch ==
  ASSUME SH!SensorHistoryAssumption, CatchInv, HistoryInv', main.pc # "idle",
         UNCHANGED <<value, unreported, events, synced>>, NEW at, at = SH!Address,
         \A a \in SH!Addresses : a # at /\ SH!HasLast(a)' =>
           SH!HasLast(a) /\ SH!LastValue(a)' = SH!LastValue(a),
         \A a \in SH!Addresses : a # at /\ Ahead(a) => Ahead(a)',
         SH!HasLast(at)' => Reported(main.sensor) \/ Ahead(at)' \/ Close(at)',
         PushedIsReported'
  PROVE  CatchInv'
<1>1. StoredWhenSynced'
  BY DEF CatchInv, StoredWhenSynced
<1>2. at \in SH!Addresses /\ at[1] = main.sensor
  BY MainIs DEF CatchInv, HistoryInv, SH!Address
<1>3. \A s : Reported(s)' = Reported(s)
  BY DEF Reported
<1>4. ASSUME NEW a \in SH!Addresses, SH!HasLast(a)'
      PROVE  Reported(a[1])' \/ Ahead(a)' \/ Close(a)'
  <2>1. CASE a = at
    <3>1. Reported(main.sensor) \/ Ahead(at)' \/ Close(at)'
      BY <1>4, <2>1
    <3>2. Reported(main.sensor) => Reported(at[1])'
      BY <1>2, <1>3
    <3> QED
      BY <2>1, <3>1, <3>2
  <2>2. CASE a # at
    <3>1. SH!HasLast(a) /\ SH!LastValue(a)' = SH!LastValue(a)
      BY <1>4, <2>2
    <3>2. Reported(a[1]) \/ Ahead(a) \/ Close(a)
      BY <3>1 DEF CatchInv, CloseOrAhead
    <3>3. Close(a) => Close(a)'
      BY <3>1 DEF Close
    <3> QED
      BY <1>3, <2>2, <3>2, <3>3
  <2> QED
    BY <2>1, <2>2
<1> QED
  BY <1>1, <1>4 DEF CatchInv, CloseOrAhead

\* A value that is close to the stored one needs no push.
LEMMA CompareKeepsCatch ==
  ASSUME SH!SensorHistoryAssumption, CatchInv, HistoryInv', SH!Compare PROVE CatchInv'
<1> SUFFICES ASSUME NEW at, at = SH!Address PROVE CatchInv'
  OBVIOUS
<1>1. /\ UNCHANGED <<value, unreported, events, synced, addressMap, sensorData>>
      /\ main.pc = "compare"
      /\ main' = IF ~SH!HasLast(at) \/ SH!Distance(value[at], SH!LastValue(at)) > Precision[at]
                 THEN [main EXCEPT !.pc = "add"] ELSE SH!NextIndex(main.sensor, main.index)
  BY DEF SH!Compare, SH!At
<1>2. \A a : SH!HasLast(a)' = SH!HasLast(a) /\ SH!LastValue(a)' = SH!LastValue(a)
  BY <1>1 DEF SH!HasLast, SH!LastValue, SH!Known, SH!BufferOf
<1>3. /\ HistoryTypes /\ main \in [pc : {"compare", "add"}, sensor : Sensors, index : 0 .. 1]
      /\ at \in SH!Addresses /\ at = <<main.sensor, main.index>>
      /\ main.sensor \in Sensors /\ main.index \in 0 .. 1
  BY <1>1, MainIs DEF CatchInv, HistoryInv, SH!Address
<1>4. CASE main' = [main EXCEPT !.pc = "add"]
  <2>1. main'.pc = "add" /\ main'.sensor = main.sensor /\ main'.index = main.index
    BY <1>3, <1>4
  <2>2. \A a : Ahead(a) => Ahead(a)'
    BY <2>1 DEF Ahead
  <2>3. Ahead(at)'
    BY <1>3, <2>1 DEF Ahead
  <2>4. PushedIsReported'
    BY <2>1 DEF PushedIsReported
  <2> QED
    BY <1>1, <1>2, <2>2, <2>3, <2>4, MainKeepsCatch
<1>5. CASE ~(main' = [main EXCEPT !.pc = "add"])
  <2>1. /\ main' = SH!NextIndex(main.sensor, main.index) /\ SH!HasLast(at)
        /\ ~(SH!Distance(value[at], SH!LastValue(at)) > Precision[at])
    BY <1>1, <1>5
  <2>2. main'.pc \in {"idle", "compare"}
    BY <1>3, <2>1, NextIndexIs
  <2>3. PushedIsReported'
    BY <2>2 DEF PushedIsReported
  <2>4. Close(at)'
    <3>1. value[at] \in Int /\ Precision[at] \in Nat
      BY <1>3, BufferSizes DEF HistoryTypes
    <3>2. SH!LastValue(at) \in Int
      BY <1>3, <2>1, LastValueType DEF CatchInv
    <3>3. SH!Distance(value[at], SH!LastValue(at)) \in Int
      BY <3>1, <3>2 DEF SH!Distance
    <3>4. Close(at)
      BY <2>1, <3>1, <3>3 DEF Close
    <3> QED
      BY <1>1, <1>2, <3>4 DEF Close
  <2>5. \A a \in SH!Addresses : a # at /\ Ahead(a) => Ahead(a)'
    BY <1>1, <1>3, <2>1, NextIndexPasses
  <2> QED
    BY <1>1, <1>2, <2>3, <2>4, <2>5, MainKeepsCatch
<1> QED
  BY <1>4, <1>5

\* A value is pushed unless its ring ends with it.
LEMMA AddKeepsCatch ==
  ASSUME SH!SensorHistoryAssumption, CatchInv, HistoryInv', SH!Add PROVE CatchInv'
<1> SUFFICES ASSUME NEW at, at = SH!Address PROVE CatchInv'
  OBVIOUS
<1>1. /\ UNCHANGED <<value, unreported, events, synced, sensorData>> /\ main.pc = "add"
      /\ addressMap' = SH!WithAddress(at)
      /\ main' = IF SH!IsRepeated(at) THEN SH!NextIndex(main.sensor, main.index)
                 ELSE [pc |-> "push", sensor |-> main.sensor, index |-> main.index,
                       value |-> value[at]]
  BY DEF SH!Add, SH!At
<1>2. /\ HistoryTypes /\ at \in SH!Addresses /\ at = <<main.sensor, main.index>>
      /\ main.sensor \in Sensors /\ main.index \in 0 .. 1 /\ value[at] \in Int
  BY <1>1, MainIs DEF CatchInv, HistoryInv, HistoryTypes, SH!Address
<1>3. ASSUME NEW a, a # at \/ SH!Known(at), SH!HasLast(a)'
      PROVE  SH!HasLast(a) /\ SH!LastValue(a)' = SH!LastValue(a)
  <2>1. addressMap' = addressMap \/ (a # at /\ addressMap' = SH!MapWith(at, SH!Cardinality(DOMAIN addressMap)))
    BY <1>1, <1>3 DEF SH!WithAddress
  <2>2. CASE addressMap' = addressMap
    BY <1>1, <1>3, <2>2 DEF SH!HasLast, SH!LastValue, SH!Known, SH!BufferOf
  <2>3. CASE a # at /\ addressMap' = SH!MapWith(at, SH!Cardinality(DOMAIN addressMap))
    <3>1. a \in DOMAIN addressMap' => a \in DOMAIN addressMap /\ addressMap'[a] = addressMap[a]
      BY <2>3 DEF SH!MapWith
    <3> QED
      BY <1>1, <1>3, <3>1 DEF SH!HasLast, SH!LastValue, SH!Known, SH!BufferOf
  <2> QED
    BY <2>1, <2>2, <2>3
<1>4. CASE SH!IsRepeated(at)
  <2>1. main' = SH!NextIndex(main.sensor, main.index)
    BY <1>1, <1>4
  <2>2. PushedIsReported'
    <3>1. main'.pc \in {"idle", "compare"}
      BY <1>2, <2>1, NextIndexIs
    <3> QED
      BY <3>1 DEF PushedIsReported
  <2>3. SH!HasLast(at)' => Close(at)'
    <3>1. SH!Known(at) /\ SH!LastValue(at) = value[at]
      BY <1>4 DEF SH!IsRepeated, SH!HasLast
    <3>2. SH!HasLast(at)' => SH!LastValue(at)' = value'[at]
      BY <1>1, <1>3, <3>1
    <3> QED
      BY <1>1, <1>2, <3>2, SameIsClose DEF Close
  <2>4. \A a \in SH!Addresses : a # at /\ Ahead(a) => Ahead(a)'
    BY <1>1, <1>2, <2>1, NextIndexPasses
  <2> QED
    BY <1>1, <1>3, <2>2, <2>3, <2>4, MainKeepsCatch
<1>5. CASE ~SH!IsRepeated(at)
  <2>1. main'.pc = "push" /\ main'.sensor = main.sensor /\ main'.index = main.index
        /\ main'.value = value[at]
    BY <1>1, <1>5
  <2>2. \A a : Ahead(a) => Ahead(a)'
    BY <2>1 DEF Ahead
  <2>3. Ahead(at)'
    BY <1>2, <2>1 DEF Ahead
  <2>4. SH!Address' = at
    BY <1>2, <2>1 DEF SH!Address
  <2>5. PushedIsReported'
    BY <1>1, <2>1, <2>4 DEF PushedIsReported
  <2> QED
    BY <1>1, <1>3, <2>2, <2>3, <2>5, MainKeepsCatch
<1> QED
  BY <1>4, <1>5

\* Only the ring of the address the main task is at changes.
LEMMA OtherRingsStay ==
  ASSUME NEW at, UNCHANGED addressMap,
         \A b \in DOMAIN addressMap : b # at => SH!BufferOf(b)' = SH!BufferOf(b),
         NEW a, a # at, SH!HasLast(a)'
  PROVE  SH!HasLast(a) /\ SH!LastValue(a)' = SH!LastValue(a)
<1>1. a \in DOMAIN addressMap
  BY DEF SH!HasLast, SH!Known
<1>2. SH!BufferOf(a)' = SH!BufferOf(a)
  BY <1>1
<1> QED
  BY <1>1, <1>2 DEF SH!HasLast, SH!LastValue, SH!Known

LEMMA PushKeepsCatch ==
  ASSUME SH!SensorHistoryAssumption, CatchInv, SH!Push PROVE CatchInv'
<1> SUFFICES ASSUME NEW at, at = SH!Address PROVE CatchInv'
  OBVIOUS
<1>1. HistoryInv' /\ \A b \in DOMAIN addressMap : b # at => SH!BufferOf(b)' = SH!BufferOf(b)
  BY PushKeepsHistory DEF CatchInv
<1>2. /\ UNCHANGED <<value, unreported, events, synced, addressMap>> /\ main.pc = "push"
      /\ main' = [main EXCEPT !.pc = "advance"]
  BY DEF SH!Push, SH!At
<1>3. main \in [pc : {"push", "advance"}, sensor : Sensors, index : 0 .. 1, value : Int]
  BY <1>2, MainIs DEF CatchInv, HistoryInv
<1>4. /\ main'.pc = "advance" /\ main'.sensor = main.sensor /\ main'.index = main.index
      /\ main'.value = main.value /\ SH!Address' = at /\ at = <<main.sensor, main.index>>
      /\ main.index \in 0 .. 1
  BY <1>2, <1>3 DEF SH!Address
<1>5. (\A a : Ahead(a) => Ahead(a)') /\ Ahead(at)'
  BY <1>2, <1>4 DEF Ahead
<1>6. PushedIsReported'
  <2>1. Reported(main.sensor) \/ value[at] = main.value
    BY <1>2 DEF CatchInv, PushedIsReported
  <2>2. Reported(main.sensor)' <=> Reported(main.sensor)
    BY <1>2, <1>4 DEF Reported
  <2> QED
    BY <1>2, <1>4, <2>1, <2>2 DEF PushedIsReported
<1>7. \A a \in SH!Addresses : a # at /\ SH!HasLast(a)' =>
        SH!HasLast(a) /\ SH!LastValue(a)' = SH!LastValue(a)
  BY <1>1, <1>2, OtherRingsStay
<1> QED
  BY <1>1, <1>2, <1>5, <1>6, <1>7, MainKeepsCatch

LEMMA AdvanceKeepsCatch ==
  ASSUME SH!SensorHistoryAssumption, CatchInv, SH!Advance PROVE CatchInv'
<1> SUFFICES ASSUME NEW at, at = SH!Address PROVE CatchInv'
  OBVIOUS
<1>1. /\ HistoryInv' /\ \A b \in DOMAIN addressMap : b # at => SH!BufferOf(b)' = SH!BufferOf(b)
      /\ Newest(sensorData'[addressMap[at]]) = main.value
  BY AdvanceKeepsHistory DEF CatchInv
<1>2. /\ UNCHANGED <<value, unreported, events, synced, addressMap>> /\ main.pc = "advance"
      /\ main' = SH!NextIndex(main.sensor, main.index)
  BY DEF SH!Advance, SH!At
<1>3. /\ HistoryTypes /\ at \in SH!Addresses /\ value[at] \in Int
      /\ main.sensor \in Sensors /\ main.index \in 0 .. 1
  BY <1>2, MainIs DEF CatchInv, HistoryInv, HistoryTypes
<1>4. PushedIsReported'
  <2>1. main'.pc \in {"idle", "compare"}
    BY <1>2, <1>3, NextIndexIs
  <2> QED
    BY <2>1 DEF PushedIsReported
<1>5. SH!HasLast(at)' => SH!LastValue(at)' = main.value
  <2> SUFFICES ASSUME SH!HasLast(at)' PROVE SH!LastValue(at)' = main.value
    OBVIOUS
  <2> DEFINE b == sensorData'[addressMap[at]]
  <2>1. SH!Ring!LastIndex(b) # SH!Ring!InvalidIndex
        /\ SH!LastValue(at)' = b.data[SH!Ring!LastIndex(b)].value
    BY <1>2 DEF SH!HasLast, SH!LastValue, SH!BufferOf, SH!Ring!LastIndex, SH!Ring!InvalidIndex
  <2> HIDE DEF b
  <2>2. SH!Ring!LastIndex(b) = Before(b.write)
    BY <2>1, LastIndexIs
  <2> QED
    BY <1>1, <2>1, <2>2 DEF Newest, b
<1>6. SH!HasLast(at)' => Reported(main.sensor) \/ Close(at)'
  <2>1. Reported(main.sensor) \/ value'[at] = main.value
    BY <1>2 DEF CatchInv, PushedIsReported
  <2>2. SH!Distance(value[at], value[at]) <= Precision[at]
    BY <1>3, SameIsClose
  <2> QED
    BY <1>2, <1>5, <2>1, <2>2 DEF Close
<1>7. \A a \in SH!Addresses : a # at /\ Ahead(a) => Ahead(a)'
  BY <1>2, <1>3, NextIndexPasses
<1>8. \A a \in SH!Addresses : a # at /\ SH!HasLast(a)' =>
        SH!HasLast(a) /\ SH!LastValue(a)' = SH!LastValue(a)
  BY <1>1, <1>2, OtherRingsStay
<1> QED
  BY <1>1, <1>2, <1>4, <1>6, <1>7, <1>8, MainKeepsCatch

LEMMA StepKeepsCatch ==
  ASSUME SH!SensorHistoryAssumption, CatchInv, SH!Next \/ UNCHANGED SH!vars PROVE CatchInv'
<1>0. HistoryInv'
  BY StepKeepsHistory DEF CatchInv
<1>1. CASE \/ SH!Sync \/ SH!Tick \/ SH!DropEvent
           \/ \E s \in Sensors : SH!Measure(s)
           \/ \E a \in SH!Addresses, from \in 0 .. MaxTime : SH!Request(a, from)
           \/ SH!FindFirst \/ SH!FindEnd \/ SH!SendEntry \/ SH!FinishAnswer
           \/ UNCHANGED SH!vars
  BY <1>0, <1>1, TasksKeepCatch
<1>2. CASE SH!HandleEvent
  BY <1>0, <1>2, HandleEventKeepsCatch
<1>3. CASE SH!Compare
  BY <1>0, <1>3, CompareKeepsCatch
<1>4. CASE SH!Add
  BY <1>0, <1>4, AddKeepsCatch
<1>5. CASE SH!Push
  BY <1>5, PushKeepsCatch
<1>6. CASE SH!Advance
  BY <1>6, AdvanceKeepsCatch
<1> QED
  BY <1>1, <1>2, <1>3, <1>4, <1>5, <1>6 DEF SH!Next

\* When no report of a sensor is under way, what is stored of it is no further from what it
\* measured than the precision, whatever was measured between the two reads of the value.
THEOREM HistoryFollowsTheSensors ==
  ASSUME SH!SensorHistoryAssumption PROVE SH!Spec => []HistoryCatchesUp
<1>1. SH!Init => CatchInv
  <2> SUFFICES ASSUME SH!Init PROVE CatchInv
    OBVIOUS
  <2>1. \A a : ~SH!HasLast(a)
    BY DEF SH!Init, SH!HasLast, SH!Known
  <2>2. main.pc = "idle"
    BY DEF SH!Init, SH!IdleMain
  <2> QED
    BY <2>1, <2>2, HistoryStarts DEF CatchInv, StoredWhenSynced, CloseOrAhead, PushedIsReported
<1>2. CatchInv /\ [SH!Next]_SH!vars => CatchInv'
  BY StepKeepsCatch
<1>3. CatchInv => HistoryCatchesUp
  BY DEF CatchInv, CloseOrAhead, HistoryCatchesUp, SH!HistoryCatchesUp, SH!Settled, Reported,
         Ahead, Close
<1> QED
  BY <1>1, <1>2, <1>3, PTL DEF SH!Spec

-----------------------------------------------------------------------------
(* What a request is answered                                              *)

\* How long ago, of the rounds of the ring, a slot was written: the slot at the write index
\* is the oldest.
Age(b, i) == IF i >= b.write THEN i - b.write ELSE i - b.write + BufferSize

\* Entries are stored in the order of their times.
RingSorted(b, time) ==
  \A i \in RingSlots : b.data[i] \in Stores =>
    /\ b.data[i].time <= time
    /\ \A j \in RingSlots : b.data[j] \in Stores /\ Age(b, i) <= Age(b, j) =>
         b.data[i].time <= b.data[j].time

AllWritten(b, mid) == b.length = BufferSize \/ (mid /\ b.length = BufferSize - 1)

\* The k-th readable entry is the first that is later than the time asked for.
FirstLater(b, from, k) ==
  /\ k \in 1 .. SH!Ring!Count(b)
  /\ SH!Ring!Readable(b)[k].time > from
  /\ \A j \in 1 .. k - 1 : ~(SH!Ring!Readable(b)[j].time > from)

\* Every slot the iteration is still to visit, and the one it visited last, has an entry.
WalkIsWritten(b, mid, rd) ==
  AllWritten(b, mid) \/ IF rd.pc = "found" THEN rd.index < b.write
                        ELSE /\ rd.index <= rd.end /\ rd.end <= b.write
                             /\ rd.answer # <<>> => rd.index > 0

\* While the first push is not finished the last entry sent is the one before the index.
AnswerFollows(b, rd) ==
  rd.pc = "send" /\ rd.pushes <= 1 =>
    /\ SH!InOrder(rd.answer)
    /\ b.write = rd.end \/ (rd.pushes = 1 /\ b.write = Round(rd.end + 1))
    /\ rd.answer # <<>> =>
         Before(rd.index) # rd.end /\ rd.answer[Len(rd.answer)] = b.data[Before(rd.index)]

\* Without a push the answer is a piece of what can be read, from the first later entry on.
AnswerIsPiece(b, rd) ==
  /\ rd.pc = "found" /\ rd.pushes = 0 =>
       \E k \in RingSlots : FirstLater(b, rd.from, k) /\ rd.index = Round(b.read + k - 1)
  /\ rd.pc = "send" /\ rd.pushes = 0 =>
       \E k \in RingSlots :
         /\ FirstLater(b, rd.from, k)
         /\ k - 1 + Len(rd.answer) <= SH!Ring!Count(b)
         /\ rd.index = Round(b.read + (k - 1 + Len(rd.answer)))
         /\ \A j \in 1 .. Len(rd.answer) : rd.answer[j] = SH!Ring!Readable(b)[k - 1 + j]

AnswerIsRight(b, mid, rd) ==
  WalkIsWritten(b, mid, rd) /\ AnswerFollows(b, rd) /\ AnswerIsPiece(b, rd)

ReaderStates ==
  [pc : {"idle"}]
  \cup [pc : {"find"}, address : SH!Addresses, from : Nat, wasKnown : BOOLEAN, pushes : 0 .. 2]
  \cup [pc : {"found"}, address : SH!Addresses, from : Nat, wasKnown : BOOLEAN, pushes : 0 .. 2,
        ring : 0 .. Rings - 1, index : RingSlots]
  \cup [pc : {"send"}, address : SH!Addresses, from : Nat, wasKnown : BOOLEAN, pushes : 0 .. 2,
        ring : 0 .. Rings - 1, index : RingSlots, end : RingSlots,
        answer : Seq(Stores \cup {SH!NoEntry})]

\* The ring that a push is between its two halves in.
Pushing == IF main.pc = "advance" THEN addressMap[SH!Address] ELSE -1

Knows(rd, map, data, pushing) ==
  /\ rd.pc # "idle" /\ rd.wasKnown => rd.address \in DOMAIN map
  /\ rd.pc \in {"found", "send"} /\ rd.wasKnown =>
       rd.ring = map[rd.address] /\ AnswerIsRight(data[rd.ring], rd.ring = pushing, rd)
  /\ rd.pc = "send" /\ rd.wasKnown => \A k \in DOMAIN rd.answer : rd.answer[k].of = rd.address

RingsSorted == \A r \in 0 .. Rings - 1 : RingSorted(sensorData[r], now)

AnswerInv ==
  /\ HistoryInv /\ RingsSorted
  /\ reader \in ReaderStates /\ Knows(reader, addressMap, sensorData, Pushing)

\* The first half of a push makes the newest of the oldest.
LEMMA StoredKeepsSorted ==
  ASSUME SH!SensorHistoryAssumption, NEW b \in RingType, NEW time \in Nat, RingSorted(b, time),
         NEW e \in Stores, e.time = time
  PROVE  RingSorted(SH!Ring!Stored(b, e), time)
<1> DEFINE c == SH!Ring!Stored(b, e)
<1>1. /\ b.write \in 0 .. BufferSize - 1 /\ b.data \in [RingSlots -> Stores \cup {SH!NoEntry}]
      /\ BufferSize \in Nat /\ BufferSize >= 2
  BY BufferSizes DEF RingType, RingSlots
<1>2. c.data = [b.data EXCEPT ![b.write] = e] /\ c.write = Round(b.write + 1)
  BY DEF SH!Ring!Stored, Round
<1> HIDE DEF c
<1>3. c.data[b.write] = e /\ \A i \in RingSlots : i # b.write => c.data[i] = b.data[i]
  BY <1>1, <1>2 DEF RingSlots
<1>4. c.write = IF b.write = BufferSize - 1 THEN 0 ELSE b.write + 1
  BY <1>1, <1>2, RoundAndBefore DEF RingSlots
<1>5. /\ Age(c, b.write) = BufferSize - 1
      /\ \A i \in RingSlots : i # b.write =>
           Age(c, i) = Age(b, i) - 1 /\ Age(b, i) \in 1 .. BufferSize - 1
  <2>1. Age(c, b.write) = BufferSize - 1
    BY <1>1, <1>4 DEF Age
  <2>2. ASSUME NEW i \in 0 .. BufferSize - 1, i # b.write
        PROVE  Age(c, i) = Age(b, i) - 1 /\ Age(b, i) \in 1 .. BufferSize - 1
    <3>1. CASE b.write = BufferSize - 1
      BY <1>1, <1>4, <2>2, <3>1 DEF Age
    <3>2. CASE b.write # BufferSize - 1 /\ i > b.write
      BY <1>1, <1>4, <2>2, <3>2 DEF Age
    <3>3. CASE b.write # BufferSize - 1 /\ i < b.write
      BY <1>1, <1>4, <2>2, <3>3 DEF Age
    <3> QED
      BY <1>1, <2>2, <3>1, <3>2, <3>3
  <2> QED
    BY <2>1, <2>2 DEF RingSlots
<1>6. ASSUME NEW i \in RingSlots, c.data[i] \in Stores
      PROVE  /\ c.data[i].time <= time
             /\ \A j \in RingSlots : c.data[j] \in Stores /\ Age(c, i) <= Age(c, j) =>
                  c.data[i].time <= c.data[j].time
  <2>1. CASE i = b.write
    <3>1. c.data[i].time = time
      BY <1>3, <2>1
    <3>2. \A j \in RingSlots : Age(c, i) <= Age(c, j) => j = b.write
      BY <1>1, <1>5, <2>1
    <3> QED
      BY <1>3, <2>1, <3>1, <3>2
  <2>2. CASE i # b.write
    <3>1. /\ c.data[i] = b.data[i] /\ b.data[i].time <= time
          /\ \A j \in RingSlots : b.data[j] \in Stores /\ Age(b, i) <= Age(b, j) =>
               b.data[i].time <= b.data[j].time
      BY <1>3, <1>6, <2>2 DEF RingSorted
    <3>2. ASSUME NEW j \in RingSlots, c.data[j] \in Stores, Age(c, i) <= Age(c, j)
          PROVE  c.data[i].time <= c.data[j].time
      <4>1. CASE j = b.write
        BY <1>3, <3>1, <4>1
      <4>2. CASE j # b.write
        <5>1. Age(b, i) <= Age(b, j)
          BY <1>5, <2>2, <3>2, <4>2
        <5> QED
          BY <1>3, <3>1, <3>2, <4>2, <5>1
      <4> QED
        BY <4>1, <4>2
    <3> QED
      BY <3>1, <3>2
  <2> QED
    BY <2>1, <2>2
<1> QED
  BY <1>6 DEF RingSorted, c

\* What can be read lies from the read index to the write index, oldest first, and is written.
LEMMA ReadableIs ==
  ASSUME SH!SensorHistoryAssumption, NEW b, NEW mid \in BOOLEAN, NEW r, NEW map, NEW time,
         RingInv(b, mid, r, map, time)
  PROVE  /\ SH!Ring!Count(b) \in 0 .. BufferSize - 1
         /\ SH!Ring!Count(b) > 0 => b.read # b.write
         /\ DOMAIN SH!Ring!Readable(b) = 1 .. SH!Ring!Count(b)
         /\ \A k \in 1 .. SH!Ring!Count(b) :
              /\ Round(b.read + k - 1) \in RingSlots
              /\ SH!Ring!Readable(b)[k] = b.data[Round(b.read + k - 1)]
              /\ IsWritten(b, mid, Round(b.read + k - 1))
              /\ AllWritten(b, mid) \/ Round(b.read + k - 1) < b.write
              /\ \A j \in 1 .. k : Age(b, Round(b.read + j - 1)) <= Age(b, Round(b.read + k - 1))
<1>1. /\ b.write \in 0 .. BufferSize - 1 /\ b.read \in 0 .. BufferSize - 1
      /\ b.length \in 0 .. BufferSize /\ BufferSize \in Nat /\ BufferSize >= 2
  BY BufferSizes DEF RingInv, RingType, RingSlots
<1>2. SH!Ring!Count(b) = IF b.write >= b.read THEN b.write - b.read
                         ELSE b.write - b.read + BufferSize
  BY DEF SH!Ring!Count
<1>3. SH!Ring!Readable(b) = [k \in 1 .. SH!Ring!Count(b) |-> b.data[Round(b.read + k - 1)]]
  BY DEF SH!Ring!Readable, Round
<1> DEFINE n == SH!Ring!Count(b)
<1> HIDE DEF n
<1>4. n \in 0 .. BufferSize - 1 /\ (n > 0 => b.read # b.write)
  BY <1>1, <1>2 DEF n
<1>5. ASSUME NEW k \in 1 .. n
      PROVE  /\ Round(b.read + k - 1) \in RingSlots
             /\ Age(b, Round(b.read + k - 1)) = k - 1 + BufferSize - n
  BY <1>1, <1>2, <1>4 DEF n, Age, Round, SH!Ring!Wrap, RingSlots
<1>6. ~AllWritten(b, mid) => b.read = 0 /\ b.write = n
  <2>1. b.length < BufferSize => b.read = 0 \/ AllWritten(b, mid)
    BY <1>1 DEF RingInv, RingAgrees, AllWritten
  <2>2. ~AllWritten(b, mid) => b.read = 0
    BY <1>1, <2>1 DEF AllWritten
  <2> QED
    BY <1>1, <1>2, <2>2 DEF n
<1>7. ASSUME NEW k \in 1 .. n
      PROVE  AllWritten(b, mid) \/ Round(b.read + k - 1) < b.write
  BY <1>1, <1>4, <1>6 DEF Round, SH!Ring!Wrap
<1>8. ASSUME NEW k \in 1 .. n PROVE IsWritten(b, mid, Round(b.read + k - 1))
  BY <1>7 DEF IsWritten, AllWritten
<1>9. \A k \in 1 .. n : \A j \in 1 .. k :
        Age(b, Round(b.read + j - 1)) <= Age(b, Round(b.read + k - 1))
  <2> SUFFICES ASSUME NEW k \in 1 .. n, NEW j \in 1 .. k
               PROVE  Age(b, Round(b.read + j - 1)) <= Age(b, Round(b.read + k - 1))
    OBVIOUS
  <2>1. j \in 1 .. n
    BY <1>4
  <2>2. /\ Age(b, Round(b.read + j - 1)) = j - 1 + BufferSize - n
        /\ Age(b, Round(b.read + k - 1)) = k - 1 + BufferSize - n
    BY <1>5, <2>1
  <2> QED
    BY <1>1, <1>4, <2>2
<1> QED
  BY <1>3, <1>4, <1>5, <1>7, <1>8, <1>9 DEF n

\* A set of numbers has a least one.
LEMMA LeastOfSet ==
  ASSUME NEW S \in SUBSET Nat, S # {}
  PROVE  \E k \in S : \A j \in S : k <= j
<1>1. PICK k \in S : \A j \in S : <<j, k>> \notin OpToRel(<, Nat)
  BY WFMin, NatLessThanWellFounded
<1>2. ASSUME NEW j \in S PROVE k <= j
  <2>1. j \in Nat /\ k \in Nat
    BY <1>1
  <2>2. ~(j < k)
    BY <1>1, <2>1 DEF OpToRel
  <2> QED
    BY <2>1, <2>2
<1> QED
  BY <1>2

\* findValueIndex() finds the first that is later.
LEMMA FindIs ==
  ASSUME SH!SensorHistoryAssumption, NEW b, NEW mid \in BOOLEAN, NEW r, NEW map, NEW time,
         RingInv(b, mid, r, map, time), NEW from, SH!Find(b, from) # SH!Ring!InvalidIndex
  PROVE  \E k \in RingSlots : FirstLater(b, from, k) /\ SH!Find(b, from) = Round(b.read + k - 1)
<1> DEFINE n == SH!Ring!Count(b)
           hits == {k \in 1 .. n : SH!Ring!Readable(b)[k].time > from}
           first == CHOOSE k \in hits : \A j \in hits : k <= j
<1>1. SH!Find(b, from) = IF hits = {} THEN SH!Ring!InvalidIndex ELSE Round(b.read + first - 1)
  BY DEF SH!Find, SH!Ring!FindValueIndex, SH!IsLater, Round
<1>2. n \in 0 .. BufferSize - 1
  BY ReadableIs
<1>3. hits # {} /\ hits \in SUBSET Nat
  BY <1>1, <1>2
<1>4. \E k \in hits : \A j \in hits : k <= j
  BY <1>3, LeastOfSet
<1>5. first \in hits /\ \A j \in hits : first <= j
  BY <1>4
<1> HIDE DEF first
<1>6. \A k \in 1 .. n : k \in hits <=> SH!Ring!Readable(b)[k].time > from
  OBVIOUS
<1>7. first \in 1 .. n
  BY <1>5
<1> HIDE DEF hits, n
<1>8. ASSUME NEW j \in 1 .. first - 1 PROVE ~(SH!Ring!Readable(b)[j].time > from)
  <2>1. j \in 1 .. n /\ ~(first <= j)
    BY <1>2, <1>7
  <2> QED
    BY <1>5, <1>6, <2>1
<1>9. FirstLater(b, from, first)
  BY <1>5, <1>6, <1>7, <1>8 DEF FirstLater, n
<1>10. first \in RingSlots
  BY <1>2, <1>7, BufferSizes DEF RingSlots
<1> QED
  BY <1>1, <1>3, <1>9, <1>10

\* What the steps of a reader and of a push do with an answer.
Started(rd) ==
  /\ rd.pc \in {"found", "send"} /\ rd.pushes \in 0 .. 2 /\ rd.index \in RingSlots
  /\ rd.pc = "send" => rd.end \in RingSlots /\ rd.answer \in Seq(Stores \cup {SH!NoEntry})

\* What a reader does not know of itself is how much is pushed.
SameBut(rd, more) ==
  /\ more.pc = rd.pc /\ more.index = rd.index /\ more.from = rd.from
  /\ more.pc = "send" => more.end = rd.end /\ more.answer = rd.answer

\* That a push is counted makes no right answer wrong.
LEMMA PushElsewhere ==
  ASSUME NEW b, NEW mid, NEW rd, NEW more, Started(rd), AnswerIsRight(b, mid, rd),
         SameBut(rd, more), more.pushes = IF rd.pushes < 2 THEN rd.pushes + 1 ELSE 2
  PROVE  AnswerIsRight(b, mid, more)
<1>1. /\ rd.pushes \in 0 .. 2 /\ more.pushes \in 1 .. 2 /\ (more.pushes <= 1 => rd.pushes = 0)
      /\ rd.pc \in {"found", "send"}
  BY DEF Started
<1>2. WalkIsWritten(b, mid, more)
  BY <1>1 DEF AnswerIsRight, WalkIsWritten, SameBut
<1>3. AnswerFollows(b, more)
  BY <1>1 DEF AnswerIsRight, AnswerFollows, SameBut
<1>4. AnswerIsPiece(b, more)
  BY <1>1 DEF AnswerIsPiece
<1> QED
  BY <1>2, <1>3, <1>4 DEF AnswerIsRight

\* The first half of a push into the ring that is read.
LEMMA StoredKeepsAnswer ==
  ASSUME SH!SensorHistoryAssumption, NEW b, NEW r, NEW map, NEW time \in Nat,
         RingInv(b, FALSE, r, map, time), NEW e \in Stores,
         NEW rd, NEW more, Started(rd), AnswerIsRight(b, FALSE, rd),
         SameBut(rd, more), more.pushes = IF rd.pushes < 2 THEN rd.pushes + 1 ELSE 2
  PROVE  AnswerIsRight(SH!Ring!Stored(b, e), TRUE, more)
<1> DEFINE c == SH!Ring!Stored(b, e)
<1>1. /\ rd.pushes \in 0 .. 2 /\ more.pushes \in 1 .. 2 /\ (more.pushes <= 1 => rd.pushes = 0)
      /\ rd.pc \in {"found", "send"} /\ rd.index \in 0 .. BufferSize - 1
      /\ rd.pc = "send" => rd.end \in 0 .. BufferSize - 1
  BY DEF Started, RingSlots
<1>2. /\ b.write \in 0 .. BufferSize - 1 /\ b.length \in 0 .. BufferSize
      /\ b.data \in [RingSlots -> Stores \cup {SH!NoEntry}]
      /\ BufferSize \in Nat /\ BufferSize >= 2
  BY BufferSizes DEF RingInv, RingType, RingSlots
<1>3. /\ c.data = [b.data EXCEPT ![b.write] = e] /\ c.write = Round(b.write + 1)
      /\ c.length = b.length
  BY DEF SH!Ring!Stored, Round
<1> HIDE DEF c
<1>4. c.write = IF b.write = BufferSize - 1 THEN 0 ELSE b.write + 1
  BY <1>2, <1>3, RoundAndBefore DEF RingSlots
<1>5. ~AllWritten(c, TRUE) => ~AllWritten(b, FALSE) /\ c.write = b.write + 1
  BY <1>2, <1>3, <1>4 DEF AllWritten, RingInv, RingAgrees
<1>6. WalkIsWritten(c, TRUE, more)
  <2>1. CASE AllWritten(c, TRUE)
    BY <2>1 DEF WalkIsWritten
  <2>2. CASE ~AllWritten(c, TRUE)
    <3>1. /\ c.write = b.write + 1
          /\ IF rd.pc = "found" THEN rd.index < b.write
             ELSE /\ rd.index <= rd.end /\ rd.end <= b.write
                  /\ rd.answer # <<>> => rd.index > 0
      BY <1>5, <2>2 DEF AnswerIsRight, WalkIsWritten
    <3>2. CASE rd.pc = "found"
      <4>1. rd.index < c.write
        BY <1>1, <1>2, <3>1, <3>2
      <4> QED
        BY <3>2, <4>1 DEF WalkIsWritten, SameBut
    <3>3. CASE rd.pc = "send"
      <4>1. rd.end <= c.write
        BY <1>1, <1>2, <3>1, <3>3
      <4> QED
        BY <3>1, <3>3, <4>1 DEF WalkIsWritten, SameBut
    <3> QED
      BY <1>1, <3>2, <3>3
  <2> QED
    BY <2>1, <2>2
<1>7. AnswerFollows(c, more)
  <2> SUFFICES ASSUME rd.pc = "send", more.pushes = 1
               PROVE  /\ SH!InOrder(rd.answer)
                      /\ c.write = Round(rd.end + 1)
                      /\ rd.answer # <<>> =>
                           /\ Before(rd.index) # rd.end
                           /\ rd.answer[Len(rd.answer)] = c.data[Before(rd.index)]
    BY <1>1 DEF AnswerFollows, SameBut
  <2>1. /\ SH!InOrder(rd.answer) /\ b.write = rd.end
        /\ rd.answer # <<>> =>
             Before(rd.index) # rd.end /\ rd.answer[Len(rd.answer)] = b.data[Before(rd.index)]
    BY <1>1 DEF AnswerIsRight, AnswerFollows
  <2>2. Before(rd.index) \in RingSlots
    BY <1>1, RoundAndBefore DEF RingSlots
  <2> QED
    BY <1>2, <1>3, <2>1, <2>2
<1>8. AnswerIsPiece(c, more)
  BY <1>1 DEF AnswerIsPiece
<1> QED
  BY <1>6, <1>7, <1>8 DEF AnswerIsRight, c

\* The second half of a push into the ring that is read: the oldest entry may go.
LEMMA AdvancedKeepsAnswer ==
  ASSUME SH!SensorHistoryAssumption, NEW b, NEW r, NEW map, NEW time \in Nat,
         RingInv(b, TRUE, r, map, time), NEW rd, Started(rd), AnswerIsRight(b, TRUE, rd)
  PROVE  AnswerIsRight(SH!Ring!Advanced(b), FALSE, rd)
<1> DEFINE c == SH!Ring!Advanced(b)
<1>1. /\ c.write = b.write /\ c.data = b.data
      /\ c.length = IF b.length < BufferSize THEN b.length + 1 ELSE BufferSize
  BY DEF SH!Ring!Advanced
<1>2. b.read # b.write => c.read = b.read
  BY AdvancedKeepsRing
<1> HIDE DEF c
<1>3. b.length \in 0 .. BufferSize /\ BufferSize \in Nat /\ BufferSize >= 2
  BY BufferSizes DEF RingInv, RingType
<1>4. AllWritten(b, TRUE) => AllWritten(c, FALSE)
  BY <1>1, <1>3 DEF AllWritten
<1>5. WalkIsWritten(c, FALSE, rd)
  BY <1>1, <1>4 DEF AnswerIsRight, WalkIsWritten
<1>6. AnswerFollows(c, rd)
  BY <1>1 DEF AnswerIsRight, AnswerFollows
<1>7. ASSUME SH!Ring!Count(b) > 0
      PROVE  /\ c.read = b.read /\ SH!Ring!Count(c) = SH!Ring!Count(b)
             /\ SH!Ring!Readable(c) = SH!Ring!Readable(b)
  <2>1. c.read = b.read
    BY <1>2, <1>7, ReadableIs
  <2>2. SH!Ring!Count(c) = SH!Ring!Count(b)
    BY <1>1, <2>1 DEF SH!Ring!Count
  <2> QED
    BY <1>1, <2>1, <2>2 DEF SH!Ring!Readable
<1>8. ASSUME NEW from, NEW k, FirstLater(b, from, k)
      PROVE  /\ FirstLater(c, from, k) /\ c.read = b.read /\ SH!Ring!Count(c) = SH!Ring!Count(b)
             /\ SH!Ring!Readable(c) = SH!Ring!Readable(b)
  <2>1. SH!Ring!Count(b) \in 0 .. BufferSize - 1
    BY ReadableIs
  <2>2. k \in 1 .. SH!Ring!Count(b)
    BY <1>8 DEF FirstLater
  <2>3. SH!Ring!Count(b) > 0
    BY <1>3, <2>1, <2>2
  <2> QED
    BY <1>7, <1>8, <2>3 DEF FirstLater
<1>9. AnswerIsPiece(c, rd)
  <2>1. CASE rd.pc = "found" /\ rd.pushes = 0
    <3>1. PICK k \in RingSlots : FirstLater(b, rd.from, k) /\ rd.index = Round(b.read + k - 1)
      BY <2>1 DEF AnswerIsRight, AnswerIsPiece
    <3> QED
      BY <1>8, <2>1, <3>1 DEF AnswerIsPiece
  <2>2. CASE rd.pc = "send" /\ rd.pushes = 0
    <3>1. PICK k \in RingSlots :
            /\ FirstLater(b, rd.from, k)
            /\ k - 1 + Len(rd.answer) <= SH!Ring!Count(b)
            /\ rd.index = Round(b.read + (k - 1 + Len(rd.answer)))
            /\ \A j \in 1 .. Len(rd.answer) : rd.answer[j] = SH!Ring!Readable(b)[k - 1 + j]
      BY <2>2 DEF AnswerIsRight, AnswerIsPiece
    <3>2. /\ FirstLater(c, rd.from, k) /\ c.read = b.read /\ SH!Ring!Count(c) = SH!Ring!Count(b)
          /\ SH!Ring!Readable(c) = SH!Ring!Readable(b)
      BY <1>8, <3>1
    <3>3. /\ FirstLater(c, rd.from, k)
          /\ k - 1 + Len(rd.answer) <= SH!Ring!Count(c)
          /\ rd.index = Round(c.read + (k - 1 + Len(rd.answer)))
          /\ \A j \in 1 .. Len(rd.answer) : rd.answer[j] = SH!Ring!Readable(c)[k - 1 + j]
      BY <3>1, <3>2
    <3> QED
      BY <2>2, <3>3 DEF AnswerIsPiece
  <2> QED
    BY <2>1, <2>2 DEF AnswerIsPiece
<1> QED
  BY <1>5, <1>6, <1>9 DEF AnswerIsRight, c

\* From one slot to another.
Gap(r, w) == IF w >= r THEN w - r ELSE w - r + BufferSize

\* An iteration reaches the write index when it has visited all, and not before.
LEMMA StepOfWalk ==
  ASSUME SH!SensorHistoryAssumption, NEW r \in RingSlots, NEW w \in RingSlots,
         NEW m \in 0 .. Gap(r, w)
  PROVE  /\ Round(r + m) = w => m = Gap(r, w)
         /\ Round(r + m) # w =>
              /\ m + 1 \in 1 .. Gap(r, w)
              /\ Round(r + (m + 1)) =
                   IF Round(r + m) = BufferSize - 1 THEN 0 ELSE Round(r + m) + 1
<1>1. BufferSize \in Nat /\ BufferSize >= 2 /\ r \in 0 .. BufferSize - 1 /\ w \in 0 .. BufferSize - 1
  BY BufferSizes DEF RingSlots
<1>2. Gap(r, w) \in 0 .. BufferSize - 1 /\ m \in Int
  BY <1>1 DEF Gap
<1>3. Round(r + m) = w => m = Gap(r, w)
  BY <1>1, <1>2 DEF Round, SH!Ring!Wrap, Gap
<1>4. Round(r + Gap(r, w)) = w
  BY <1>1 DEF Round, SH!Ring!Wrap, Gap
<1>5. Round(r + m) # w => m + 1 \in 1 .. Gap(r, w)
  <2>1. Round(r + m) # w => m # Gap(r, w)
    BY <1>4
  <2> QED
    BY <1>2, <2>1
<1>6. ASSUME m + 1 \in 1 .. Gap(r, w)
      PROVE  Round(r + (m + 1)) = IF Round(r + m) = BufferSize - 1 THEN 0 ELSE Round(r + m) + 1
  <2>1. m + 1 <= BufferSize - 1
    BY <1>1, <1>2, <1>6
  <2> HIDE <1>6
  <2> QED
    BY <1>1, <1>2, <2>1 DEF Round, SH!Ring!Wrap
<1> QED
  BY <1>3, <1>5, <1>6

\* The request finds its first entry.
LEMMA FoundIsRight ==
  ASSUME SH!SensorHistoryAssumption, NEW b, NEW mid \in BOOLEAN, NEW r, NEW map, NEW time,
         RingInv(b, mid, r, map, time), NEW rd, rd.pc = "found", rd.index = SH!Find(b, rd.from),
         rd.index # SH!Ring!InvalidIndex
  PROVE  AnswerIsRight(b, mid, rd) /\ rd.index \in RingSlots
<1>1. PICK k \in RingSlots : FirstLater(b, rd.from, k) /\ rd.index = Round(b.read + k - 1)
  BY FindIs
<1>2. k \in 1 .. SH!Ring!Count(b)
  BY <1>1 DEF FirstLater
<1>3. rd.index \in RingSlots /\ (AllWritten(b, mid) \/ rd.index < b.write)
  BY <1>1, <1>2, ReadableIs
<1>4. WalkIsWritten(b, mid, rd)
  BY <1>3 DEF WalkIsWritten
<1>5. AnswerFollows(b, rd)
  BY DEF AnswerFollows
<1>6. AnswerIsPiece(b, rd)
  BY <1>1 DEF AnswerIsPiece
<1> QED
  BY <1>3, <1>4, <1>5, <1>6 DEF AnswerIsRight

\* It finds the end.
LEMMA EndIsRight ==
  ASSUME SH!SensorHistoryAssumption, NEW b \in RingType, NEW mid \in BOOLEAN, NEW rd, NEW more,
         Started(rd), rd.pc = "found", AnswerIsRight(b, mid, rd),
         more.pc = "send", more.index = rd.index, more.from = rd.from, more.pushes = rd.pushes,
         more.end = b.write, more.answer = <<>>
  PROVE  AnswerIsRight(b, mid, more)
<1>1. /\ b.write \in 0 .. BufferSize - 1 /\ rd.index \in 0 .. BufferSize - 1
      /\ BufferSize \in Nat /\ rd.pushes \in 0 .. 2 /\ b.read \in 0 .. BufferSize - 1
  BY BufferSizes DEF RingType, Started, RingSlots
<1>2. Len(more.answer) = 0
  BY EmptySeq
<1>3. WalkIsWritten(b, mid, more)
  BY <1>1 DEF AnswerIsRight, WalkIsWritten
<1>4. AnswerFollows(b, more)
  <2>1. SH!InOrder(more.answer)
    BY <1>2 DEF SH!InOrder
  <2> QED
    BY <2>1 DEF AnswerFollows
<1>5. ASSUME rd.pushes = 0
      PROVE  \E k \in RingSlots :
               /\ FirstLater(b, more.from, k)
               /\ k - 1 + Len(more.answer) <= SH!Ring!Count(b)
               /\ more.index = Round(b.read + (k - 1 + Len(more.answer)))
               /\ \A j \in 1 .. Len(more.answer) :
                    more.answer[j] = SH!Ring!Readable(b)[k - 1 + j]
  <2>1. PICK k \in RingSlots : FirstLater(b, rd.from, k) /\ rd.index = Round(b.read + k - 1)
    BY <1>5 DEF AnswerIsRight, AnswerIsPiece
  <2>2. k \in 1 .. SH!Ring!Count(b) /\ k \in Int
    BY <2>1 DEF FirstLater, RingSlots
  <2>3. k - 1 + 0 = k - 1 /\ k - 1 <= SH!Ring!Count(b) /\ b.read + (k - 1 + 0) = b.read + k - 1
    <3>1. SH!Ring!Count(b) \in Int
      BY <1>1 DEF SH!Ring!Count
    <3> QED
      BY <1>1, <2>2, <3>1
  <2>4. \A j \in 1 .. Len(more.answer) : FALSE
    BY <1>2
  <2>5. Round(b.read + (k - 1 + Len(more.answer))) = Round(b.read + k - 1)
        /\ k - 1 + Len(more.answer) <= SH!Ring!Count(b)
    BY <1>2, <2>3
  <2> QED
    BY <2>1, <2>4, <2>5
<1>6. AnswerIsPiece(b, more)
  BY <1>5 DEF AnswerIsPiece
<1> QED
  BY <1>3, <1>4, <1>6 DEF AnswerIsRight

\* One entry more is sent.
LEMMA SentIsRight ==
  ASSUME SH!SensorHistoryAssumption, NEW b, NEW mid \in BOOLEAN, NEW r, NEW map, NEW time \in Nat,
         RingInv(b, mid, r, map, time), NEW rd, NEW more,
         Started(rd), rd.pc = "send", AnswerIsRight(b, mid, rd), rd.index # rd.end,
         \A j \in DOMAIN rd.answer : rd.answer[j].of = b.data[rd.index].of,
         more.pc = "send", more.from = rd.from, more.pushes = rd.pushes, more.end = rd.end,
         more.index = Round(rd.index + 1), more.answer = Append(rd.answer, b.data[rd.index])
  PROVE  AnswerIsRight(b, mid, more) /\ IsWritten(b, mid, rd.index)
<1> DEFINE n == Len(rd.answer)
<1>1. /\ b.write \in 0 .. BufferSize - 1 /\ b.read \in 0 .. BufferSize - 1
      /\ rd.index \in 0 .. BufferSize - 1 /\ rd.end \in 0 .. BufferSize - 1
      /\ BufferSize \in Nat /\ BufferSize >= 2 /\ rd.pushes \in 0 .. 2
      /\ b.data \in [RingSlots -> Stores \cup {SH!NoEntry}]
      /\ rd.answer \in Seq(Stores \cup {SH!NoEntry})
      /\ b.data[rd.index] \in Stores \cup {SH!NoEntry}
  BY BufferSizes DEF RingInv, RingType, Started, RingSlots
<1>2. more.index = (IF rd.index = BufferSize - 1 THEN 0 ELSE rd.index + 1)
      /\ Before(more.index) = rd.index
  BY <1>1, RoundAndBefore DEF RingSlots
<1>3. /\ n \in Nat /\ Len(more.answer) = n + 1 /\ more.answer[n + 1] = b.data[rd.index]
      /\ \A j \in 1 .. n : more.answer[j] = rd.answer[j]
      /\ (rd.answer # <<>> <=> n > 0) /\ more.answer # <<>> /\ DOMAIN rd.answer = 1 .. n
  <2>1. n \in Nat /\ Len(more.answer) = n + 1 /\ DOMAIN rd.answer = 1 .. n
        /\ more.answer \in Seq(Stores \cup {SH!NoEntry})
    BY <1>1, AppendProperties, LenProperties
  <2>2. \A j \in 1 .. n + 1 :
          more.answer[j] = IF j <= n THEN rd.answer[j] ELSE b.data[rd.index]
    BY <1>1, AppendProperties
  <2>3. n + 1 \in 1 .. n + 1 /\ ~(n + 1 <= n) /\ \A j \in 1 .. n : j \in 1 .. n + 1 /\ j <= n
    BY <2>1
  <2>4. (rd.answer # <<>> <=> n # 0) /\ (more.answer # <<>> <=> n + 1 # 0)
    BY <1>1, <2>1, EmptySeq
  <2>5. n # 0 <=> n > 0
    BY <2>1
  <2>6. n + 1 # 0
    BY <2>1
  <2>7. more.answer[n + 1] = b.data[rd.index] /\ \A j \in 1 .. n : more.answer[j] = rd.answer[j]
    BY <2>2, <2>3
  <2> QED
    BY <2>1, <2>4, <2>5, <2>6, <2>7
<1>4. \/ AllWritten(b, mid)
      \/ /\ rd.index <= rd.end /\ rd.end <= b.write /\ (rd.answer # <<>> => rd.index > 0)
  BY DEF AnswerIsRight, WalkIsWritten
<1>5. IsWritten(b, mid, rd.index) /\ (rd.answer # <<>> => IsWritten(b, mid, Before(rd.index)))
  <2>1. CASE AllWritten(b, mid)
    BY <2>1 DEF IsWritten, AllWritten
  <2>2. CASE ~AllWritten(b, mid)
    BY <1>1, <1>4, <2>2 DEF IsWritten, Before
  <2> QED
    BY <2>1, <2>2
<1>6. WalkIsWritten(b, mid, more)
  BY <1>1, <1>2, <1>4 DEF WalkIsWritten
<1>7. AnswerFollows(b, more)
  <2> SUFFICES ASSUME rd.pushes <= 1 PROVE AnswerFollows(b, more)
    BY DEF AnswerFollows
  <2>1. /\ SH!InOrder(rd.answer)
        /\ b.write = rd.end \/ (rd.pushes = 1 /\ b.write = Round(rd.end + 1))
        /\ rd.answer # <<>> =>
             Before(rd.index) # rd.end /\ rd.answer[n] = b.data[Before(rd.index)]
    BY DEF AnswerIsRight, AnswerFollows
  <2>2. ASSUME rd.answer # <<>> PROVE Follows(rd.answer[n], b.data[rd.index])
    <3>1. Before(rd.index) \in RingSlots /\ Round(Before(rd.index) + 1) = rd.index
      BY <1>1, RoundAndBefore DEF RingSlots
    <3>2. rd.index # b.write
      <4>1. Before(Round(rd.end + 1)) = rd.end
        BY <1>1, RoundAndBefore DEF RingSlots
      <4> QED
        BY <2>1, <2>2, <4>1
    <3>3. Follows(b.data[Before(rd.index)], b.data[rd.index])
      BY <1>5, <2>2, <3>1, <3>2 DEF RingInv, RingFollows
    <3> QED
      BY <2>1, <2>2, <3>3
  <2>3. SH!InOrder(more.answer)
    <3> SUFFICES ASSUME NEW j \in 1 .. n
                 PROVE  /\ more.answer[j].of = more.answer[j + 1].of
                        /\ more.answer[j].time <= more.answer[j + 1].time
                        /\ more.answer[j].value # more.answer[j + 1].value
      BY <1>3 DEF SH!InOrder
    <3>1. CASE j = n
      <4>1. rd.answer # <<>>
        BY <1>3, <3>1
      <4>2. n \in DOMAIN rd.answer
        BY <1>3, <3>1
      <4>3. rd.answer[n].of = b.data[rd.index].of
        BY <4>2
      <4>4. Follows(rd.answer[n], b.data[rd.index])
        BY <2>2, <4>1
      <4> QED
        BY <1>3, <3>1, <4>3, <4>4 DEF Follows
    <3>2. CASE j # n
      <4>1. j \in 1 .. n - 1 /\ j + 1 \in 1 .. n
        BY <1>3, <3>2
      <4> QED
        BY <1>3, <2>1, <4>1 DEF SH!InOrder
    <3> QED
      BY <3>1, <3>2
  <2>4. Before(more.index) # more.end /\ more.answer[Len(more.answer)] = b.data[Before(more.index)]
    BY <1>2, <1>3
  <2> QED
    BY <2>1, <2>3, <2>4 DEF AnswerFollows
<1>8. ASSUME rd.pushes = 0
      PROVE  \E k \in RingSlots :
               /\ FirstLater(b, more.from, k)
               /\ k - 1 + Len(more.answer) <= SH!Ring!Count(b)
               /\ more.index = Round(b.read + (k - 1 + Len(more.answer)))
               /\ \A j \in 1 .. Len(more.answer) :
                    more.answer[j] = SH!Ring!Readable(b)[k - 1 + j]
  <2>1. PICK k \in RingSlots :
          /\ FirstLater(b, rd.from, k)
          /\ k - 1 + n <= SH!Ring!Count(b)
          /\ rd.index = Round(b.read + (k - 1 + n))
          /\ \A j \in 1 .. n : rd.answer[j] = SH!Ring!Readable(b)[k - 1 + j]
    BY <1>8 DEF AnswerIsRight, AnswerIsPiece
  <2>2. b.write = rd.end
    BY <1>8 DEF AnswerIsRight, AnswerFollows
  <2> DEFINE m == k - 1 + n
             count == SH!Ring!Count(b)
  <2>3. /\ count \in 0 .. BufferSize - 1 /\ k \in 1 .. count
        /\ count = Gap(b.read, b.write)
    BY <2>1, ReadableIs DEF FirstLater, SH!Ring!Count, Gap
  <2> HIDE DEF count
  <2>4. m \in 0 .. count /\ m + 1 = k - 1 + (n + 1) /\ (k - 1 + (n + 1)) - 1 = m
    BY <1>1, <1>3, <2>1, <2>3 DEF count
  <2>5. rd.index = Round(b.read + m)
    BY <2>1
  <2> HIDE DEF m
  <2>6. m + 1 \in 1 .. count /\ Round(b.read + (m + 1)) = more.index
    <3>1. m + 1 \in 1 .. count
          /\ Round(b.read + (m + 1)) = IF rd.index = BufferSize - 1 THEN 0 ELSE rd.index + 1
      <4>1. b.read \in RingSlots /\ b.write \in RingSlots /\ m \in 0 .. Gap(b.read, b.write)
        BY <1>1, <2>3, <2>4 DEF RingSlots
      <4>2. Round(b.read + m) # b.write
        BY <2>2, <2>5
      <4>3. m + 1 \in 1 .. Gap(b.read, b.write)
            /\ Round(b.read + (m + 1)) =
                 IF Round(b.read + m) = BufferSize - 1 THEN 0 ELSE Round(b.read + m) + 1
        BY <4>1, <4>2, StepOfWalk
      <4> QED
        BY <2>3, <2>5, <4>3
    <3> QED
      BY <1>2, <3>1
  <2>8. SH!Ring!Readable(b)[m + 1] = b.data[rd.index]
    <3>1. SH!Ring!Readable(b)[m + 1] = b.data[Round(b.read + (m + 1) - 1)]
      BY <2>6, ReadableIs DEF count
    <3>2. b.read + (m + 1) - 1 = b.read + m
      BY <1>1, <2>3, <2>4
    <3> QED
      BY <2>5, <3>1, <3>2
  <2>9. ASSUME NEW j \in 1 .. n + 1 PROVE more.answer[j] = SH!Ring!Readable(b)[k - 1 + j]
    <3>1. CASE j = n + 1
      BY <1>3, <2>4, <2>8, <3>1
    <3>2. CASE j # n + 1
      <4>1. j \in 1 .. n
        BY <1>3, <3>2
      <4> QED
        BY <1>3, <2>1, <4>1
    <3> QED
      BY <3>1, <3>2
  <2>10. k - 1 + Len(more.answer) = m + 1 /\ m + 1 <= count
    BY <1>3, <2>3, <2>4, <2>6
  <2> QED
    BY <1>3, <2>1, <2>6, <2>9, <2>10 DEF count
<1>9. AnswerIsPiece(b, more)
  BY <1>8 DEF AnswerIsPiece
<1> QED
  BY <1>5, <1>6, <1>7, <1>9 DEF AnswerIsRight

\* The states of a reader.
LEMMA ReaderIs ==
  ASSUME NEW rd \in ReaderStates
  PROVE  /\ rd.pc \in {"idle", "find", "found", "send"}
         /\ rd.pc # "idle" => /\ rd.address \in SH!Addresses /\ rd.from \in Nat
                             /\ rd.wasKnown \in BOOLEAN /\ rd.pushes \in 0 .. 2
         /\ rd.pc \in {"found", "send"} => Started(rd) /\ rd.ring \in 0 .. Rings - 1
<1>1. CASE rd.pc = "send"
  <2>1. rd \in [pc : {"send"}, address : SH!Addresses, from : Nat, wasKnown : BOOLEAN, pushes : 0 .. 2,
                ring : 0 .. Rings - 1, index : RingSlots, end : RingSlots,
                answer : Seq(Stores \cup {SH!NoEntry})]
    BY <1>1 DEF ReaderStates
  <2> QED
    BY <2>1 DEF Started
<1>2. CASE rd.pc = "found"
  <2>1. rd \in [pc : {"found"}, address : SH!Addresses, from : Nat, wasKnown : BOOLEAN, pushes : 0 .. 2,
                ring : 0 .. Rings - 1, index : RingSlots]
    BY <1>2 DEF ReaderStates
  <2> QED
    BY <2>1 DEF Started
<1>3. CASE rd.pc \notin {"found", "send"}
  BY <1>3 DEF ReaderStates
<1> QED
  BY <1>1, <1>2, <1>3

\* The rings, seen from a reader.
LEMMA RingsAre ==
  ASSUME SH!SensorHistoryAssumption, HistoryInv
  PROVE  /\ now \in Nat /\ sensorData \in [0 .. Rings - 1 -> RingType]
         /\ \A r \in 0 .. Rings - 1 : RingInv(sensorData[r], r = Pushing, r, addressMap, now)
<1>1. ASSUME NEW r \in 0 .. Rings - 1
      PROVE  RingInv(sensorData[r], r = Pushing, r, addressMap, now)
  <2>1. RingInv(sensorData[r], Mid(r), r, addressMap, now)
    BY DEF HistoryInv, RingsHold
  <2>2. Mid(r) = (r = Pushing)
    BY BufferSizes DEF Mid, Pushing
  <2> QED
    BY <2>1, <2>2
<1> QED
  BY <1>1 DEF HistoryInv, HistoryTypes

\* Steps that change neither a ring nor the request.
LEMMA OthersKeepAnswer ==
  ASSUME SH!SensorHistoryAssumption, AnswerInv, HistoryInv', UNCHANGED <<sensorData, reader>>,
         now' \in Nat, now <= now', Pushing' = Pushing,
         DOMAIN addressMap \subseteq DOMAIN addressMap',
         \A a \in DOMAIN addressMap : addressMap'[a] = addressMap[a]
  PROVE  AnswerInv'
<1>1. now \in Nat
  BY RingsAre DEF AnswerInv
<1>2. RingsSorted'
  <2> SUFFICES ASSUME NEW r \in 0 .. Rings - 1, NEW i \in RingSlots,
                      sensorData[r].data[i] \in Stores
               PROVE  /\ sensorData[r].data[i].time <= now'
                      /\ \A j \in RingSlots :
                           sensorData[r].data[j] \in Stores
                             /\ Age(sensorData[r], i) <= Age(sensorData[r], j) =>
                               sensorData[r].data[i].time <= sensorData[r].data[j].time
    BY DEF RingsSorted, RingSorted
  <2>1. /\ sensorData[r].data[i].time <= now
        /\ \A j \in RingSlots :
             sensorData[r].data[j] \in Stores /\ Age(sensorData[r], i) <= Age(sensorData[r], j) =>
               sensorData[r].data[i].time <= sensorData[r].data[j].time
    BY DEF AnswerInv, RingsSorted, RingSorted
  <2>2. sensorData[r].data[i].time \in Nat
    BY DEF Stores
  <2>3. sensorData[r].data[i].time <= now'
    BY <1>1, <2>1, <2>2
  <2> QED
    BY <2>1, <2>3
<1>3. Knows(reader, addressMap, sensorData, Pushing)
  BY DEF AnswerInv
<1>4. Knows(reader, addressMap', sensorData, Pushing)
  <2>1. reader.pc # "idle" /\ reader.wasKnown =>
          reader.address \in DOMAIN addressMap /\ reader.address \in DOMAIN addressMap'
          /\ addressMap'[reader.address] = addressMap[reader.address]
    BY <1>3 DEF Knows
  <2>2. reader.pc \in {"found", "send"} => reader.pc # "idle"
    OBVIOUS
  <2> QED
    BY <1>3, <2>1, <2>2 DEF Knows
<1>5. Knows(reader, addressMap, sensorData, Pushing)'
  BY <1>4
<1> QED
  BY <1>2, <1>5 DEF AnswerInv

\* Whoever pushes nothing leaves the answer alone.
LEMMA TasksKeepAnswer ==
  ASSUME SH!SensorHistoryAssumption, AnswerInv,
         \/ SH!Sync \/ SH!Tick \/ SH!DropEvent \/ SH!HandleEvent \/ SH!Compare \/ SH!Add
         \/ \E s \in Sensors : SH!Measure(s)
         \/ UNCHANGED SH!vars
  PROVE  AnswerInv'
<1>1. HistoryInv'
  BY StepKeepsHistory DEF AnswerInv, SH!Next
<1>2. now \in Nat /\ now <= now
  <2>1. now \in Nat
    BY RingsAre DEF AnswerInv
  <2> QED
    BY <2>1
<1>3. HistoryInv
  BY DEF AnswerInv
<1>4. CASE \/ SH!Sync \/ SH!Tick \/ SH!DropEvent \/ UNCHANGED SH!vars
           \/ \E s \in Sensors : SH!Measure(s)
  <2>1. UNCHANGED <<main, addressMap, sensorData, reader>> /\ (now' = now \/ now' = now + 1)
    BY <1>4 DEF SH!Sync, SH!Tick, SH!DropEvent, SH!vars, SH!Measure
  <2>2. now' \in Nat /\ now <= now'
    BY <1>2, <2>1
  <2>3. Pushing' = Pushing
    BY <2>1 DEF Pushing, SH!Address
  <2> QED
    BY <1>1, <2>1, <2>2, <2>3, OthersKeepAnswer
<1>5. CASE SH!HandleEvent \/ SH!Compare
  <2>1. UNCHANGED <<now, addressMap, sensorData, reader>> /\ main.pc # "advance"
    BY <1>5 DEF SH!HandleEvent, SH!Compare, SH!At
  <2>2. main'.pc # "advance"
    <3>1. CASE SH!HandleEvent
      BY <3>1 DEF SH!HandleEvent, SH!IdleMain
    <3>2. CASE SH!Compare
      <4>1. main \in [pc : {"compare", "add"}, sensor : Sensors, index : 0 .. 1]
            /\ main.sensor \in Sensors /\ main.index \in 0 .. 1
        BY <1>3, <3>2, MainIs DEF HistoryInv, SH!Compare, SH!At
      <4>2. main' = [main EXCEPT !.pc = "add"] \/ main' = SH!NextIndex(main.sensor, main.index)
        BY <3>2 DEF SH!Compare
      <4>3. CASE main' = [main EXCEPT !.pc = "add"]
        BY <4>1, <4>3
      <4>4. CASE main' = SH!NextIndex(main.sensor, main.index)
        BY <4>1, <4>4, NextIndexIs
      <4> QED
        BY <4>2, <4>3, <4>4
    <3> QED
      BY <1>5, <3>1, <3>2
  <2>3. Pushing' = Pushing
    BY <2>1, <2>2 DEF Pushing
  <2> QED
    BY <1>1, <1>2, <2>1, <2>3, OthersKeepAnswer
<1>6. CASE SH!Add
  <2>1. UNCHANGED <<now, sensorData, reader>> /\ main.pc = "add"
        /\ addressMap' = SH!WithAddress(SH!Address)
    BY <1>6 DEF SH!Add, SH!At
  <2>2. main.sensor \in Sensors /\ main.index \in 0 .. 1 /\ SH!Address \in SH!Addresses
    BY <1>3, <2>1, MainIs DEF HistoryInv
  <2>3. main'.pc # "advance"
    <3>1. \/ main' = SH!NextIndex(main.sensor, main.index)
          \/ main'.pc = "push"
      BY <1>6 DEF SH!Add
    <3> QED
      BY <2>2, <3>1, NextIndexIs
  <2>4. Pushing' = Pushing
    BY <2>1, <2>3 DEF Pushing
  <2>5. DOMAIN addressMap \subseteq DOMAIN addressMap'
        /\ \A a \in DOMAIN addressMap : addressMap'[a] = addressMap[a]
    BY <1>3, <2>1, <2>2, WithAddressIs
  <2> QED
    BY <1>1, <1>2, <2>1, <2>4, <2>5, OthersKeepAnswer
<1> QED
  BY <1>4, <1>5, <1>6

\* What a push does to the rings.
LEMMA PushIs ==
  ASSUME SH!SensorHistoryAssumption, HistoryInv, SH!Push
  PROVE  \E r \in 0 .. Rings - 1, e \in Stores :
           /\ e.time = now /\ Pushing = -1 /\ Pushing' = r
           /\ UNCHANGED <<addressMap, now>>
           /\ sensorData' = [sensorData EXCEPT ![r] = SH!Ring!Stored(sensorData[r], e)]
           /\ reader' = IF reader.pc # "idle" /\ reader.pushes < 2
                        THEN [reader EXCEPT !.pushes = reader.pushes + 1] ELSE reader
<1> DEFINE e == [of |-> SH!Address, value |-> main.value, time |-> now]
           r == addressMap[SH!Address]
<1>1. /\ main \in [pc : {"push", "advance"}, sensor : Sensors, index : 0 .. 1, value : Int]
      /\ main.pc = "push" /\ SH!Address \in SH!Addresses /\ main.value \in Int
  BY MainIs DEF HistoryInv, SH!Push, SH!At
<1>2. r \in 0 .. Rings - 1
  BY <1>1, RingOfAddress DEF HistoryInv, PushIsNew, SH!Known
<1>3. e \in Stores /\ e.time = now
  BY <1>1, RingsAre DEF Stores
<1>4. /\ UNCHANGED <<addressMap, now>> /\ main' = [main EXCEPT !.pc = "advance"]
      /\ sensorData' = [sensorData EXCEPT ![r] = SH!Ring!Stored(sensorData[r], e)]
      /\ reader' = IF reader.pc # "idle" /\ reader.pushes < 2
                   THEN [reader EXCEPT !.pushes = reader.pushes + 1] ELSE reader
  BY DEF SH!Push
<1>5. main'.pc = "advance" /\ SH!Address' = SH!Address
  BY <1>1, <1>4 DEF SH!Address
<1>6. Pushing = -1 /\ Pushing' = r
  BY <1>1, <1>4, <1>5 DEF Pushing
<1> QED
  BY <1>2, <1>3, <1>4, <1>6

LEMMA PushKeepsAnswer ==
  ASSUME SH!SensorHistoryAssumption, AnswerInv, SH!Push PROVE AnswerInv'
<1>1. HistoryInv' /\ HistoryInv
  BY StepKeepsHistory DEF AnswerInv, SH!Next
<1>2. PICK r \in 0 .. Rings - 1, e \in Stores :
        /\ e.time = now /\ Pushing = -1 /\ Pushing' = r
        /\ UNCHANGED <<addressMap, now>>
        /\ sensorData' = [sensorData EXCEPT ![r] = SH!Ring!Stored(sensorData[r], e)]
        /\ reader' = IF reader.pc # "idle" /\ reader.pushes < 2
                     THEN [reader EXCEPT !.pushes = reader.pushes + 1] ELSE reader
  BY <1>1, PushIs
<1>3. /\ now \in Nat /\ sensorData[r] \in RingType
      /\ RingInv(sensorData[r], FALSE, r, addressMap, now)
  <2>1. (r = Pushing) = FALSE
    BY <1>2, BufferSizes
  <2>2. RingInv(sensorData[r], r = Pushing, r, addressMap, now) /\ now \in Nat
        /\ sensorData[r] \in RingType
    BY <1>1, RingsAre
  <2> QED
    BY <2>1, <2>2
<1>4. /\ sensorData'[r] = SH!Ring!Stored(sensorData[r], e)
      /\ \A q \in 0 .. Rings - 1 : q # r => sensorData'[q] = sensorData[q]
  BY <1>1, <1>2, RingsAre
<1>5. RingsSorted'
  <2>1. ASSUME NEW q \in 0 .. Rings - 1 PROVE RingSorted(sensorData'[q], now)
    <3>1. RingSorted(sensorData[q], now)
      BY DEF AnswerInv, RingsSorted
    <3>2. CASE q = r
      BY <1>2, <1>3, <1>4, <3>1, <3>2, StoredKeepsSorted
    <3>3. CASE q # r
      BY <1>4, <3>1, <3>3
    <3> QED
      BY <3>2, <3>3
  <2> QED
    BY <1>2, <2>1 DEF RingsSorted
<1>6. reader \in ReaderStates /\ Knows(reader, addressMap, sensorData, Pushing)
  BY DEF AnswerInv
<1>7. /\ reader.pc = "idle" => reader' = reader
      /\ reader.pc # "idle" =>
           /\ reader' \in ReaderStates /\ reader'.pc = reader.pc
           /\ reader'.pushes = (IF reader.pushes < 2 THEN reader.pushes + 1 ELSE 2)
           /\ reader'.address = reader.address /\ reader'.wasKnown = reader.wasKnown
      /\ reader.pc \in {"found", "send"} =>
           SameBut(reader, reader') /\ reader'.ring = reader.ring
  <2>1. CASE reader.pc = "idle"
    BY <1>2, <2>1
  <2>2. ASSUME reader.pc # "idle", ~(reader.pushes < 2) PROVE reader' = reader /\ reader.pushes = 2
    BY <1>2, <1>6, <2>2, ReaderIs
  <2>3. ASSUME reader.pc # "idle", reader.pushes < 2
        PROVE  reader' = [reader EXCEPT !.pushes = reader.pushes + 1]
               /\ reader.pushes + 1 \in 0 .. 2
    BY <1>2, <1>6, <2>3, ReaderIs
  <2>4. CASE reader.pc # "idle" /\ ~(reader.pushes < 2)
    BY <1>6, <2>2, <2>4 DEF SameBut
  <2>5. CASE reader.pc = "find" /\ reader.pushes < 2
    BY <1>6, <2>3, <2>5 DEF ReaderStates
  <2>6. CASE reader.pc = "found" /\ reader.pushes < 2
    BY <1>6, <2>3, <2>6 DEF SameBut, ReaderStates
  <2>7. CASE reader.pc = "send" /\ reader.pushes < 2
    <3>1. reader \in [pc : {"send"}, address : SH!Addresses, from : Nat, wasKnown : BOOLEAN,
                      pushes : 0 .. 2, ring : 0 .. Rings - 1, index : RingSlots, end : RingSlots,
                      answer : Seq(Stores \cup {SH!NoEntry})]
      BY <1>6, <2>7 DEF ReaderStates
    <3> DEFINE answers == Seq(Stores \cup {SH!NoEntry})
    <3> HIDE DEF answers
    <3>2. reader \in [pc : {"send"}, address : SH!Addresses, from : Nat, wasKnown : BOOLEAN,
                      pushes : 0 .. 2, ring : 0 .. Rings - 1, index : RingSlots, end : RingSlots,
                      answer : answers]
      BY <3>1 DEF answers
    <3>3. /\ reader' \in [pc : {"send"}, address : SH!Addresses, from : Nat, wasKnown : BOOLEAN,
                          pushes : 0 .. 2, ring : 0 .. Rings - 1, index : RingSlots,
                          end : RingSlots, answer : answers]
          /\ SameBut(reader, reader') /\ reader'.pushes = reader.pushes + 1
          /\ reader'.address = reader.address /\ reader'.wasKnown = reader.wasKnown
          /\ reader'.ring = reader.ring
      BY <2>3, <2>7, <3>2 DEF SameBut
    <3>4. reader' \in ReaderStates
      BY <3>3 DEF ReaderStates, answers
    <3> QED
      BY <2>7, <3>3, <3>4
  <2> QED
    BY <1>6, <2>1, <2>4, <2>5, <2>6, <2>7, ReaderIs
<1>8. reader' \in ReaderStates
  BY <1>6, <1>7
<1>9. ASSUME reader.pc \in {"found", "send"}, reader.wasKnown
      PROVE  /\ reader'.ring = addressMap[reader'.address]
             /\ AnswerIsRight(sensorData'[reader'.ring], reader'.ring = r, reader')
  <2> DEFINE q == reader.ring
  <2>1. /\ q = addressMap[reader.address] /\ q \in 0 .. Rings - 1 /\ Started(reader)
        /\ AnswerIsRight(sensorData[q], q = Pushing, reader)
    BY <1>6, <1>9, ReaderIs DEF Knows
  <2>2. (q = Pushing) = FALSE
    BY <1>2, <2>1, BufferSizes
  <2>3. AnswerIsRight(sensorData[q], FALSE, reader)
    BY <2>1, <2>2
  <2>4. /\ reader'.ring = q /\ reader'.address = reader.address /\ SameBut(reader, reader')
        /\ reader'.pushes = (IF reader.pushes < 2 THEN reader.pushes + 1 ELSE 2)
    BY <1>7, <1>9
  <2> HIDE DEF q
  <2>5. CASE q = r
    <3>1. AnswerIsRight(SH!Ring!Stored(sensorData[r], e), TRUE, reader')
      BY <1>3, <2>1, <2>3, <2>4, <2>5, StoredKeepsAnswer
    <3> QED
      BY <1>4, <2>1, <2>4, <2>5, <3>1
  <2>6. CASE q # r
    <3>1. AnswerIsRight(sensorData[q], FALSE, reader')
      BY <2>1, <2>3, <2>4, PushElsewhere
    <3>2. (q = r) = FALSE
      BY <2>6
    <3> QED
      BY <1>4, <2>1, <2>4, <2>6, <3>1, <3>2
  <2> QED
    BY <2>5, <2>6
<1>10. Knows(reader', addressMap, sensorData', r)
  <2>1. CASE reader.pc = "idle"
    BY <1>7, <2>1 DEF Knows
  <2>2. CASE reader.pc # "idle"
    <3>1. /\ reader'.pc = reader.pc /\ reader'.address = reader.address
          /\ reader'.wasKnown = reader.wasKnown
          /\ reader'.pc = "send" => reader'.answer = reader.answer
      BY <1>7, <2>2 DEF SameBut
    <3> QED
      BY <1>6, <1>9, <2>2, <3>1 DEF Knows
  <2> QED
    BY <2>1, <2>2
<1>11. Knows(reader, addressMap, sensorData, Pushing)'
  BY <1>2, <1>10
<1> QED
  BY <1>1, <1>5, <1>8, <1>11 DEF AnswerInv

LEMMA AdvanceKeepsAnswer ==
  ASSUME SH!SensorHistoryAssumption, AnswerInv, SH!Advance PROVE AnswerInv'
<1>1. HistoryInv' /\ HistoryInv
  BY StepKeepsHistory DEF AnswerInv, SH!Next
<1> SUFFICES ASSUME NEW r, r = addressMap[SH!Address] PROVE AnswerInv'
  OBVIOUS
<1>2. /\ main.pc = "advance" /\ SH!Address \in SH!Addresses
      /\ main.sensor \in Sensors /\ main.index \in 0 .. 1
  BY <1>1, MainIs DEF HistoryInv, SH!Advance, SH!At
<1>3. r \in 0 .. Rings - 1
  BY <1>1, <1>2, RingOfAddress DEF HistoryInv, PushIsNew, SH!Known
<1>4. /\ UNCHANGED <<addressMap, now, reader>>
      /\ sensorData' = [sensorData EXCEPT ![r] = SH!Ring!Advanced(sensorData[r])]
      /\ main' = SH!NextIndex(main.sensor, main.index)
  BY DEF SH!Advance
<1>5. main'.pc # "advance"
  BY <1>2, <1>4, NextIndexIs
<1>6. Pushing = r /\ Pushing' = -1
  BY <1>2, <1>5 DEF Pushing
<1>7. /\ now \in Nat /\ RingInv(sensorData[r], TRUE, r, addressMap, now)
      /\ sensorData \in [0 .. Rings - 1 -> RingType]
  <2>1. RingInv(sensorData[r], r = Pushing, r, addressMap, now) /\ now \in Nat
        /\ sensorData \in [0 .. Rings - 1 -> RingType]
    BY <1>1, <1>3, RingsAre
  <2>2. (r = Pushing) = TRUE
    BY <1>6
  <2> QED
    BY <2>1, <2>2
<1>8. /\ sensorData'[r] = SH!Ring!Advanced(sensorData[r])
      /\ \A q \in 0 .. Rings - 1 : q # r => sensorData'[q] = sensorData[q]
  BY <1>3, <1>4, <1>7
<1>9. RingsSorted'
  <2>1. ASSUME NEW q \in 0 .. Rings - 1 PROVE RingSorted(sensorData'[q], now)
    <3>1. RingSorted(sensorData[q], now)
      BY DEF AnswerInv, RingsSorted
    <3>2. sensorData'[q].data = sensorData[q].data /\ sensorData'[q].write = sensorData[q].write
      BY <1>8 DEF SH!Ring!Advanced
    <3> QED
      BY <3>1, <3>2 DEF RingSorted, Age
  <2> QED
    BY <1>4, <2>1 DEF RingsSorted
<1>10. reader \in ReaderStates /\ Knows(reader, addressMap, sensorData, r)
  BY <1>6 DEF AnswerInv
<1>11. ASSUME reader.pc \in {"found", "send"}, reader.wasKnown
       PROVE  AnswerIsRight(sensorData'[reader.ring], reader.ring = -1, reader)
  <2> DEFINE q == reader.ring
  <2>1. /\ q \in 0 .. Rings - 1 /\ Started(reader)
        /\ AnswerIsRight(sensorData[q], q = r, reader)
    BY <1>10, <1>11, ReaderIs DEF Knows
  <2>2. (q = -1) = FALSE
    BY <2>1, BufferSizes
  <2> HIDE DEF q
  <2>3. CASE q = r
    <3>1. (q = r) = TRUE
      BY <2>3
    <3>2. AnswerIsRight(sensorData[r], TRUE, reader)
      BY <2>1, <2>3, <3>1
    <3>3. AnswerIsRight(SH!Ring!Advanced(sensorData[r]), FALSE, reader)
      BY <1>7, <2>1, <3>2, AdvancedKeepsAnswer
    <3> QED
      BY <1>8, <2>2, <2>3, <3>3 DEF q
  <2>4. CASE q # r
    <3>1. (q = r) = FALSE
      BY <2>4
    <3> QED
      BY <1>8, <2>1, <2>2, <2>4, <3>1 DEF q
  <2> QED
    BY <2>3, <2>4
<1>12. Knows(reader, addressMap, sensorData', -1)
  BY <1>10, <1>11 DEF Knows
<1>13. Knows(reader, addressMap, sensorData, Pushing)'
  BY <1>4, <1>6, <1>12
<1> QED
  BY <1>1, <1>4, <1>9, <1>10, <1>13 DEF AnswerInv

LEMMA ReaderKeepsAnswer ==
  ASSUME SH!SensorHistoryAssumption, AnswerInv,
         \/ SH!FindFirst \/ SH!FindEnd \/ SH!SendEntry \/ SH!FinishAnswer
         \/ \E a \in SH!Addresses, from \in 0 .. MaxTime : SH!Request(a, from),
         reader' \in ReaderStates, Knows(reader', addressMap, sensorData, Pushing)
  PROVE  AnswerInv'
<1>1. UNCHANGED <<main, addressMap, sensorData, now>>
  BY DEF SH!FindFirst, SH!FindEnd, SH!SendEntry, SH!FinishAnswer, SH!Request
<1>2. Pushing' = Pushing
  BY <1>1 DEF Pushing, SH!Address
<1>3. RingsSorted'
  BY <1>1 DEF AnswerInv, RingsSorted
<1>4. HistoryInv'
  BY StepKeepsHistory DEF AnswerInv, SH!Next
<1>5. Knows(reader, addressMap, sensorData, Pushing)'
  BY <1>1, <1>2
<1> QED
  BY <1>3, <1>4, <1>5 DEF AnswerInv

LEMMA RequestKeepsAnswer ==
  ASSUME SH!SensorHistoryAssumption, AnswerInv, NEW a \in SH!Addresses,
         NEW from \in 0 .. MaxTime, SH!Request(a, from)
  PROVE  AnswerInv'
<1>1. from \in Nat
  BY DEF SH!SensorHistoryAssumption
<1>2. reader' = [pc |-> "find", address |-> a, from |-> from, wasKnown |-> SH!Known(a),
                 pushes |-> 0]
  BY DEF SH!Request
<1>3. SH!Known(a) \in BOOLEAN
  BY DEF SH!Known
<1>4. reader' \in ReaderStates
  BY <1>1, <1>2, <1>3 DEF ReaderStates
<1>5. Knows(reader', addressMap, sensorData, Pushing)
  BY <1>2 DEF Knows, SH!Known
<1> QED
  BY <1>4, <1>5, ReaderKeepsAnswer

\* Where there is an address there is a ring.
LEMMA FirstRing ==
  ASSUME SH!SensorHistoryAssumption, NEW a \in SH!Addresses
  PROVE  0 \in 0 .. Rings - 1
<1>1. IsFiniteSet(SH!Addresses) /\ Cardinality(SH!Addresses) <= Rings /\ Rings \in Nat
  BY AddressesAreFinite, BufferSizes
<1>2. Cardinality(SH!Addresses) \in Nat /\ Cardinality(SH!Addresses) # 0
  BY <1>1, FS_CardinalityType, FS_EmptySet
<1> QED
  BY <1>1, <1>2

\* The server looks for the first entry later than the time asked for.
LEMMA FindFirstKeepsAnswer ==
  ASSUME SH!SensorHistoryAssumption, AnswerInv, SH!FindFirst PROVE AnswerInv'
<1>1. HistoryInv /\ reader \in ReaderStates /\ Knows(reader, addressMap, sensorData, Pushing)
      /\ reader.pc = "find"
  BY DEF AnswerInv, SH!FindFirst
<1>2. /\ reader.address \in SH!Addresses /\ reader.from \in Nat /\ reader.wasKnown \in BOOLEAN
      /\ reader.pushes \in 0 .. 2
      /\ (reader.wasKnown => SH!Known(reader.address))
  BY <1>1, ReaderIs DEF Knows, SH!Known
<1> DEFINE known == SH!Known(reader.address)
           ring == IF known THEN addressMap[reader.address] ELSE 0
           first == IF known THEN SH!Find(sensorData[ring], reader.from)
                    ELSE SH!Ring!EndIndex(sensorData[ring])
<1>3. reader' = IF first = SH!Ring!InvalidIndex THEN [pc |-> "idle"]
                ELSE [pc |-> "found", address |-> reader.address, from |-> reader.from,
                      wasKnown |-> reader.wasKnown, pushes |-> reader.pushes,
                      ring |-> ring, index |-> first]
  BY DEF SH!FindFirst, SH!IdleReader
<1>4. ring \in 0 .. Rings - 1
  BY <1>1, <1>2, RingOfAddress, FirstRing DEF HistoryInv, SH!Known
<1>5. RingInv(sensorData[ring], ring = Pushing, ring, addressMap, now)
      /\ sensorData[ring] \in RingType
  BY <1>1, <1>4, RingsAre
<1>6. known => ring = addressMap[reader.address] /\ first = SH!Find(sensorData[ring], reader.from)
  OBVIOUS
<1>7. ~known => first \in RingSlots
  BY <1>5 DEF SH!Ring!EndIndex, RingType
<1> HIDE DEF known, ring, first
<1>8. CASE first = SH!Ring!InvalidIndex
  <2>1. reader' = [pc |-> "idle"]
    BY <1>3, <1>8
  <2>2. reader' \in ReaderStates /\ Knows(reader', addressMap, sensorData, Pushing)
    BY <2>1 DEF ReaderStates, Knows
  <2> QED
    BY <2>2, ReaderKeepsAnswer
<1>9. CASE first # SH!Ring!InvalidIndex
  <2>1. /\ reader'.pc = "found" /\ reader'.address = reader.address /\ reader'.from = reader.from
        /\ reader'.wasKnown = reader.wasKnown /\ reader'.ring = ring /\ reader'.index = first
        /\ reader' = [pc |-> "found", address |-> reader.address, from |-> reader.from,
                      wasKnown |-> reader.wasKnown, pushes |-> reader.pushes,
                      ring |-> ring, index |-> first]
    BY <1>3, <1>9
  <2>2. ASSUME known
        PROVE  AnswerIsRight(sensorData[ring], ring = Pushing, reader') /\ first \in RingSlots
    <3>1. reader'.index = SH!Find(sensorData[ring], reader'.from)
          /\ reader'.index # SH!Ring!InvalidIndex
      BY <1>6, <1>9, <2>1, <2>2
    <3> HIDE DEF known
    <3>2. (ring = Pushing) \in BOOLEAN
      OBVIOUS
    <3>3. AnswerIsRight(sensorData[ring], ring = Pushing, reader') /\ reader'.index \in RingSlots
      BY <1>5, <2>1, <3>1, <3>2, FoundIsRight
    <3> QED
      BY <2>1, <3>3
  <2>3. first \in RingSlots
    BY <1>7, <2>2
  <2>4. reader' \in ReaderStates
    BY <1>2, <1>4, <2>1, <2>3 DEF ReaderStates
  <2>5. Knows(reader', addressMap, sensorData, Pushing)
    <3>1. reader.wasKnown => known /\ reader.address \in DOMAIN addressMap
      BY <1>2 DEF known, SH!Known
    <3> QED
      BY <1>6, <2>1, <2>2, <3>1 DEF Knows
  <2> QED
    BY <2>4, <2>5, ReaderKeepsAnswer
<1> QED
  BY <1>8, <1>9

\* The server takes the end of the ring as it is now.
LEMMA FindEndKeepsAnswer ==
  ASSUME SH!SensorHistoryAssumption, AnswerInv, SH!FindEnd PROVE AnswerInv'
<1>1. HistoryInv /\ reader \in ReaderStates /\ Knows(reader, addressMap, sensorData, Pushing)
      /\ reader.pc = "found"
  BY DEF AnswerInv, SH!FindEnd
<1>2. /\ reader.address \in SH!Addresses /\ reader.from \in Nat /\ reader.wasKnown \in BOOLEAN
      /\ reader.pushes \in 0 .. 2 /\ reader.ring \in 0 .. Rings - 1 /\ Started(reader)
      /\ reader.index \in RingSlots
  BY <1>1, ReaderIs DEF Started
<1> DEFINE known == SH!Known(reader.address)
           b == IF known THEN SH!BufferOf(reader.address) ELSE sensorData[0]
<1>3. reader' = [pc |-> "send", address |-> reader.address, from |-> reader.from,
                 wasKnown |-> reader.wasKnown, pushes |-> reader.pushes, ring |-> reader.ring,
                 index |-> reader.index, end |-> b.write, answer |-> <<>>]
  BY DEF SH!FindEnd, SH!Ring!EndIndex
<1>4. b \in RingType
  <2>1. 0 \in 0 .. Rings - 1 /\ (known => addressMap[reader.address] \in 0 .. Rings - 1)
    BY <1>1, <1>2, RingOfAddress, FirstRing DEF HistoryInv, SH!Known
  <2> QED
    BY <1>1, <2>1, RingsAre DEF SH!BufferOf
<1>5. b.write \in RingSlots /\ <<>> \in Seq(Stores \cup {SH!NoEntry})
  BY <1>4, EmptySeq DEF RingType
<1>6. ASSUME reader.wasKnown PROVE b = sensorData[reader.ring]
  BY <1>1, <1>6 DEF Knows, SH!Known, SH!BufferOf
<1> HIDE DEF known, b
<1> DEFINE answers == Seq(Stores \cup {SH!NoEntry})
<1>7. <<>> \in answers
  BY <1>5
<1> HIDE DEF answers
<1>8. reader' \in [pc : {"send"}, address : SH!Addresses, from : Nat, wasKnown : BOOLEAN,
                   pushes : 0 .. 2, ring : 0 .. Rings - 1, index : RingSlots, end : RingSlots,
                   answer : answers]
  BY <1>2, <1>3, <1>5, <1>7
<1>9. reader' \in ReaderStates
  BY <1>8 DEF ReaderStates, answers
<1>10. /\ reader'.pc = "send" /\ reader'.address = reader.address /\ reader'.from = reader.from
       /\ reader'.wasKnown = reader.wasKnown /\ reader'.pushes = reader.pushes
       /\ reader'.ring = reader.ring /\ reader'.index = reader.index /\ reader'.end = b.write
       /\ reader'.answer = <<>>
  BY <1>3
<1>11. ASSUME reader.wasKnown
       PROVE  /\ reader.address \in DOMAIN addressMap /\ reader.ring = addressMap[reader.address]
              /\ AnswerIsRight(sensorData[reader.ring], reader.ring = Pushing, reader')
  <2>1. /\ reader.address \in DOMAIN addressMap /\ reader.ring = addressMap[reader.address]
        /\ AnswerIsRight(b, reader.ring = Pushing, reader)
    BY <1>1, <1>6, <1>11 DEF Knows
  <2>2. (reader.ring = Pushing) \in BOOLEAN
    OBVIOUS
  <2>3. AnswerIsRight(b, reader.ring = Pushing, reader')
    BY <1>1, <1>2, <1>4, <1>10, <2>1, <2>2, EndIsRight
  <2> QED
    BY <1>6, <1>11, <2>1, <2>3
<1>12. \A k \in DOMAIN reader'.answer : FALSE
  BY <1>10
<1>13. Knows(reader', addressMap, sensorData, Pushing)
  BY <1>10, <1>11, <1>12 DEF Knows
<1> QED
  BY <1>9, <1>13, ReaderKeepsAnswer

\* An entry is sent: it is written, and follows the one sent before.
LEMMA SendEntryKeepsAnswer ==
  ASSUME SH!SensorHistoryAssumption, AnswerInv, SH!SendEntry PROVE AnswerInv'
<1> DEFINE answers == Seq(Stores \cup {SH!NoEntry})
           b == sensorData[reader.ring]
<1>1. HistoryInv /\ reader \in ReaderStates /\ Knows(reader, addressMap, sensorData, Pushing)
      /\ reader.pc = "send" /\ reader.index # reader.end
  BY DEF AnswerInv, SH!SendEntry
<1>2. /\ reader.ring \in 0 .. Rings - 1 /\ Started(reader) /\ reader.index \in RingSlots
      /\ reader.answer \in answers
      /\ reader \in [pc : {"send"}, address : SH!Addresses, from : Nat, wasKnown : BOOLEAN,
                     pushes : 0 .. 2, ring : 0 .. Rings - 1, index : RingSlots, end : RingSlots,
                     answer : answers]
  BY <1>1 DEF Started, ReaderStates
<1>3. reader' = [reader EXCEPT !.answer = Append(reader.answer, b.data[reader.index]),
                               !.index = Round(reader.index + 1)]
  BY DEF SH!SendEntry, Round
<1>4. RingInv(b, reader.ring = Pushing, reader.ring, addressMap, now) /\ b \in RingType
      /\ now \in Nat
  BY <1>1, <1>2, RingsAre
<1>5. b.data[reader.index] \in Stores \cup {SH!NoEntry}
  BY <1>2, <1>4 DEF RingType
<1>6. Append(reader.answer, b.data[reader.index]) \in answers
  BY <1>2, <1>5, AppendProperties
<1>7. Round(reader.index + 1) \in RingSlots
  BY <1>2, RoundAndBefore
<1> HIDE DEF b, answers
<1>8. reader' \in [pc : {"send"}, address : SH!Addresses, from : Nat, wasKnown : BOOLEAN,
                   pushes : 0 .. 2, ring : 0 .. Rings - 1, index : RingSlots, end : RingSlots,
                   answer : answers]
  BY <1>2, <1>3, <1>6, <1>7
<1>9. reader' \in ReaderStates
  BY <1>8 DEF ReaderStates, answers
<1>10. /\ reader'.pc = "send" /\ reader'.address = reader.address /\ reader'.from = reader.from
       /\ reader'.wasKnown = reader.wasKnown /\ reader'.pushes = reader.pushes
       /\ reader'.ring = reader.ring /\ reader'.end = reader.end
       /\ reader'.index = Round(reader.index + 1)
       /\ reader'.answer = Append(reader.answer, b.data[reader.index])
  BY <1>1, <1>2, <1>3
<1>11. ASSUME reader.wasKnown
       PROVE  /\ AnswerIsRight(sensorData[reader.ring], reader.ring = Pushing, reader')
              /\ \A k \in DOMAIN reader'.answer : reader'.answer[k].of = reader.address
  <2>1. /\ reader.address \in DOMAIN addressMap /\ reader.ring = addressMap[reader.address]
        /\ AnswerIsRight(b, reader.ring = Pushing, reader)
        /\ \A k \in DOMAIN reader.answer : reader.answer[k].of = reader.address
    BY <1>1, <1>11 DEF Knows, b
  <2>2. IsWritten(b, reader.ring = Pushing, reader.index)
    <3>1. \/ AllWritten(b, reader.ring = Pushing)
          \/ reader.index <= reader.end /\ reader.end <= b.write
      BY <1>1, <2>1 DEF AnswerIsRight, WalkIsWritten
    <3>2. CASE AllWritten(b, reader.ring = Pushing)
      BY <3>2 DEF AllWritten, IsWritten
    <3>3. CASE reader.index <= reader.end /\ reader.end <= b.write
      <4>1. reader.index \in Int /\ reader.end \in Int /\ b.write \in Int
        BY <1>1, <1>2, <1>4 DEF Started, RingType, RingSlots
      <4>2. reader.index < b.write
        BY <1>1, <3>3, <4>1
      <4> QED
        BY <4>2 DEF IsWritten
    <3> QED
      BY <3>1, <3>2, <3>3
  <2>3. b.data[reader.index].of = reader.address
    <3>1. b.data[reader.index].of \in DOMAIN addressMap
          /\ addressMap[b.data[reader.index].of] = reader.ring
      BY <1>2, <1>4, <2>2 DEF RingInv, RingHolds
    <3> QED
      BY <1>1, <2>1, <3>1 DEF HistoryInv, RingsAreOwn
  <2>4. \A k \in DOMAIN reader.answer : reader.answer[k].of = b.data[reader.index].of
    BY <2>1, <2>3
  <2>5. (reader.ring = Pushing) \in BOOLEAN
    OBVIOUS
  <2>6. AnswerIsRight(b, reader.ring = Pushing, reader')
    BY <1>1, <1>2, <1>4, <1>10, <2>1, <2>4, <2>5, SentIsRight
  <2>7. ASSUME NEW k \in DOMAIN reader'.answer PROVE reader'.answer[k].of = reader.address
    <3>1. /\ reader'.answer \in answers /\ Len(reader'.answer) = Len(reader.answer) + 1
          /\ Len(reader.answer) \in Nat /\ DOMAIN reader.answer = 1 .. Len(reader.answer)
      BY <1>2, <1>5, <1>6, <1>10, AppendProperties, LenProperties DEF answers
    <3>2. k \in 1 .. Len(reader.answer) + 1
      BY <2>7, <3>1, LenProperties DEF answers
    <3>3. reader'.answer[k] = IF k <= Len(reader.answer) THEN reader.answer[k]
                              ELSE b.data[reader.index]
      BY <1>2, <1>5, <1>10, <3>2, AppendProperties DEF answers
    <3>4. k <= Len(reader.answer) => k \in DOMAIN reader.answer
      BY <3>1, <3>2
    <3> QED
      BY <2>1, <2>3, <3>3, <3>4
  <2> QED
    BY <2>6, <2>7 DEF b
<1>12. Knows(reader', addressMap, sensorData, Pushing)
  BY <1>1, <1>10, <1>11 DEF Knows
<1> QED
  BY <1>9, <1>12, ReaderKeepsAnswer

LEMMA FinishKeepsAnswer ==
  ASSUME SH!SensorHistoryAssumption, AnswerInv, SH!FinishAnswer PROVE AnswerInv'
<1>1. reader' = [pc |-> "idle"]
  BY DEF SH!FinishAnswer, SH!IdleReader
<1>2. reader' \in ReaderStates /\ Knows(reader', addressMap, sensorData, Pushing)
  BY <1>1 DEF ReaderStates, Knows
<1> QED
  BY <1>2, ReaderKeepsAnswer

LEMMA AnswerStarts == ASSUME SH!SensorHistoryAssumption, SH!Init PROVE AnswerInv
<1>1. \A s \in 0 .. 1 : <<SH!NoSensor, s>> \notin SH!Addresses
  BY BufferSizes DEF SH!Addresses
<1>2. SH!NoEntry \notin Stores
  BY <1>1 DEF SH!NoEntry, Stores
<1>3. \A r \in 0 .. Rings - 1 : \A i \in RingSlots : sensorData[r].data[i] = SH!NoEntry
  BY DEF SH!Init, SH!Ring!Empty, SH!Ring!Slots, RingSlots
<1>4. RingsSorted
  BY <1>2, <1>3 DEF RingsSorted, RingSorted
<1>5. reader \in ReaderStates /\ Knows(reader, addressMap, sensorData, Pushing)
  BY DEF SH!Init, SH!IdleReader, ReaderStates, Knows
<1> QED
  BY <1>4, <1>5, HistoryStarts DEF AnswerInv

\* A whole answer without a push is what is later.
LEMMA WholeAnswer ==
  ASSUME SH!SensorHistoryAssumption, NEW b, NEW mid \in BOOLEAN, NEW r, NEW map, NEW time \in Nat,
         RingInv(b, mid, r, map, time), RingSorted(b, time), NEW rd, Started(rd),
         rd.from \in Nat, rd.pc = "send", rd.pushes = 0, rd.index = rd.end,
         AnswerIsRight(b, mid, rd)
  PROVE  SH!IsTheLater(rd.answer, SH!Ring!Readable(b), rd.from)
<1> DEFINE n == Len(rd.answer)
           all == SH!Ring!Readable(b)
<1>1. PICK k \in RingSlots :
        /\ FirstLater(b, rd.from, k)
        /\ k - 1 + n <= SH!Ring!Count(b)
        /\ rd.index = Round(b.read + (k - 1 + n))
        /\ \A j \in 1 .. n : rd.answer[j] = all[k - 1 + j]
  BY DEF AnswerIsRight, AnswerIsPiece
<1>2. b.write = rd.end /\ b.write \in RingSlots /\ b.read \in RingSlots
  BY DEF AnswerIsRight, AnswerFollows, RingInv, RingType
<1>3. /\ SH!Ring!Count(b) = Gap(b.read, b.write) /\ SH!Ring!Count(b) \in 0 .. BufferSize - 1
      /\ k \in 1 .. SH!Ring!Count(b) /\ BufferSize \in Nat
      /\ all[k].time > rd.from /\ \A j \in 1 .. k - 1 : ~(all[j].time > rd.from)
  BY <1>1, ReadableIs, BufferSizes DEF FirstLater, SH!Ring!Count, Gap
<1>4. n \in Nat /\ rd.answer \in Seq(Stores \cup {SH!NoEntry})
  BY LenProperties DEF Started
<1>5. k - 1 + n \in 0 .. Gap(b.read, b.write)
  BY <1>1, <1>3, <1>4
<1>6. k - 1 + n = SH!Ring!Count(b)
  <2>1. Round(b.read + (k - 1 + n)) = b.write
    BY <1>1, <1>2
  <2> HIDE DEF n
  <2>2. k - 1 + n = Gap(b.read, b.write)
    BY <1>2, <1>5, <2>1, StepOfWalk
  <2> QED
    BY <1>3, <2>2
<1>7. ASSUME NEW j \in 1 .. SH!Ring!Count(b)
      PROVE  /\ all[j] \in Stores /\ all[j].time \in Nat
             /\ \A i \in 1 .. j : all[i].time <= all[j].time
  <2>1. \A i \in 1 .. SH!Ring!Count(b) :
          /\ Round(b.read + i - 1) \in RingSlots /\ all[i] = b.data[Round(b.read + i - 1)]
          /\ IsWritten(b, mid, Round(b.read + i - 1))
    BY ReadableIs
  <2>2. \A i \in 1 .. SH!Ring!Count(b) : all[i] \in Stores
    BY <2>1 DEF RingInv, RingHolds
  <2>3. all[j].time \in Nat
    BY <2>2 DEF Stores
  <2>4. ASSUME NEW i \in 1 .. j PROVE all[i].time <= all[j].time
    <3>1. i \in 1 .. SH!Ring!Count(b)
      BY <1>3
    <3>2. Age(b, Round(b.read + i - 1)) <= Age(b, Round(b.read + j - 1))
      BY ReadableIs
    <3> QED
      BY <2>1, <2>2, <3>1, <3>2 DEF RingSorted
  <2> QED
    BY <2>2, <2>3, <2>4
<1>8. DOMAIN all = 1 .. SH!Ring!Count(b)
  BY ReadableIs
<1> DEFINE count == SH!Ring!Count(b)
<1>9. all \in Seq(Stores) /\ Len(all) = count
  <2>1. all = [j \in 1 .. count |-> all[j]]
    BY DEF SH!Ring!Readable
  <2>2. all \in [1 .. count -> Stores]
    BY <1>7, <2>1
  <2>3. count \in Nat
    BY <1>3
  <2> HIDE DEF all, count
  <2>4. all \in Seq(Stores)
    BY <2>2, <2>3, SeqDef
  <2>5. DOMAIN all = 1 .. Len(all) /\ Len(all) \in Nat
    BY <2>4, LenProperties
  <2> QED
    BY <1>8, <2>3, <2>4, <2>5 DEF count
<1> HIDE DEF all, count, n
<1>10. count \in Nat /\ k \in 1 .. count /\ k - 1 + n = count /\ n \in Nat
  BY <1>3, <1>4, <1>6 DEF count
<1>11. rd.answer = SubSeq(all, (k - 1) + 1, Len(all))
  <2>1. (k - 1) + 1 = k /\ k \in 1 .. Len(all) + 1 /\ Len(all) \in k - 1 .. Len(all)
        /\ Len(all) - k + 1 = n
    BY <1>9, <1>10
  <2>2. /\ SubSeq(all, k, Len(all)) \in Seq(Stores) /\ Len(SubSeq(all, k, Len(all))) = n
        /\ \A j \in 1 .. n : SubSeq(all, k, Len(all))[j] = all[k + j - 1]
    BY <1>9, <2>1, SubSeqProperties
  <2>3. \A j \in 1 .. n : k + j - 1 = k - 1 + j
    BY <1>10
  <2>4. \A j \in 1 .. n : SubSeq(all, k, Len(all))[j] = rd.answer[j]
    BY <1>1, <2>2, <2>3 DEF n, all
  <2>5. Len(rd.answer) = n
    BY DEF n
  <2>6. SubSeq(all, k, Len(all)) = rd.answer
    <3>1. SubSeq(all, k, Len(all)) \in Seq(Stores \cup {SH!NoEntry})
      BY <2>2, SeqMonotonic
    <3> QED
      BY <1>4, <2>2, <2>4, <2>5, <3>1, SeqEqual
  <2> QED
    BY <2>1, <2>6
<1>12. ASSUME NEW j \in 1 .. Len(all) PROVE all[j].time > rd.from <=> j > k - 1
  <2>1. j \in 1 .. count /\ j \in Int
    BY <1>9
  <2>2. CASE j < k
    <3>1. j \in 1 .. k - 1 /\ ~(j > k - 1)
      BY <1>10, <2>1, <2>2
    <3> QED
      BY <1>3, <3>1 DEF all
  <2>3. CASE ~(j < k)
    <3>1. k \in 1 .. j /\ j > k - 1
      BY <1>10, <2>1, <2>3
    <3>2. all[k].time <= all[j].time /\ all[k].time \in Nat /\ all[j].time \in Nat
      BY <1>7, <1>10, <2>1, <3>1 DEF count
    <3>3. all[k].time > rd.from
      BY <1>3 DEF all
    <3> QED
      BY <3>1, <3>2, <3>3
  <2> QED
    BY <2>2, <2>3
<1>13. k - 1 \in 0 .. Len(all)
  BY <1>9, <1>10
<1> QED
  BY <1>11, <1>12, <1>13 DEF SH!IsTheLater, all

\* A request for an address that is stored is answered with entries of that address only, in
\* the order they came if no more than one push comes meanwhile, and with all that are later
\* if none does, although nothing is locked.
THEOREM RequestIsAnsweredSoundly ==
  ASSUME SH!SensorHistoryAssumption PROVE SH!Spec => []AnswerIsSound
<1>1. SH!Init => AnswerInv
  BY AnswerStarts
<1>2. AnswerInv /\ [SH!Next]_SH!vars => AnswerInv'
  BY TasksKeepAnswer, PushKeepsAnswer, AdvanceKeepsAnswer, RequestKeepsAnswer,
     FindFirstKeepsAnswer, FindEndKeepsAnswer, SendEntryKeepsAnswer, FinishKeepsAnswer DEF SH!Next
<1>3. AnswerInv => AnswerIsSound
  <2> SUFFICES ASSUME AnswerInv, reader.pc = "send", reader.wasKnown
               PROVE  /\ \A k \in DOMAIN reader.answer : reader.answer[k].of = reader.address
                      /\ reader.pushes <= 1 => SH!InOrder(reader.answer)
                      /\ reader.pushes = 0 /\ reader.index = reader.end =>
                           SH!IsTheLater(reader.answer, SH!Ring!Readable(SH!BufferOf(reader.address)),
                                         reader.from)
    BY DEF AnswerIsSound, SH!AnswerIsSound
  <2>1. /\ HistoryInv /\ RingsSorted /\ reader \in ReaderStates
        /\ Knows(reader, addressMap, sensorData, Pushing)
    BY DEF AnswerInv
  <2>2. /\ Started(reader) /\ reader.ring \in 0 .. Rings - 1 /\ reader.from \in Nat
    BY <2>1, ReaderIs
  <2>3. /\ reader.ring = addressMap[reader.address]
        /\ AnswerIsRight(sensorData[reader.ring], reader.ring = Pushing, reader)
        /\ \A k \in DOMAIN reader.answer : reader.answer[k].of = reader.address
    BY <2>1 DEF Knows
  <2>4. /\ RingInv(sensorData[reader.ring], reader.ring = Pushing, reader.ring, addressMap, now)
        /\ RingSorted(sensorData[reader.ring], now) /\ now \in Nat
    BY <2>1, <2>2, RingsAre DEF RingsSorted
  <2>5. reader.pushes <= 1 => SH!InOrder(reader.answer)
    BY <2>3 DEF AnswerIsRight, AnswerFollows
  <2>6. ASSUME reader.pushes = 0, reader.index = reader.end
        PROVE  SH!IsTheLater(reader.answer, SH!Ring!Readable(sensorData[reader.ring]), reader.from)
    <3>1. (reader.ring = Pushing) \in BOOLEAN
      OBVIOUS
    <3> QED
      BY <2>2, <2>3, <2>4, <2>6, <3>1, WholeAnswer
  <2> QED
    BY <2>3, <2>5, <2>6 DEF SH!BufferOf
<1> QED
  BY <1>1, <1>2, <1>3, PTL DEF SH!Spec
=============================================================================
