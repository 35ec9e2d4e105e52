---------------------------- MODULE PlayersProofs ----------------------------
(***************************************************************************)
(* Proofs about light and sound, for any channels, sceneries, volumes,     *)
(* tracks and bounds. Five inductive invariants: DarkInv says how far a    *)
(* message that clears has come, PlayInv what a scenery has still to send, *)
(* VolumeInv what is left of a reset of the module, LineInv how far the    *)
(* parser may be out of step with a whole frame, and QuietInv what is on   *)
(* its way from the module while nothing goes wrong.                       *)
(***************************************************************************)
EXTENDS MCPlayers, SequenceTheorems, WellFoundedInduction, TLAPS

-----------------------------------------------------------------------------
(* The lamps                                                               *)

\* A message that clears drops the sceneries before it puts the channels out,
\* so no tick between the two has anything to bring back.
DarkInv ==
  cleared => \/ todo = <<Do("clear"), Do("zero")>>
             \/ todo = <<Do("zero")>> /\ scenes = << >>
             \/ /\ todo = << >> /\ scenes = << >>
                /\ buffer = [c \in Channels |-> 0]

LEMMA ClearingSteps ==
  /\ Head(<<Do("clear"), Do("zero")>>).op = "clear"
  /\ Tail(<<Do("clear"), Do("zero")>>) = <<Do("zero")>>
  /\ Head(<<Do("zero")>>).op = "zero"
  /\ Tail(<<Do("zero")>>) = << >>
<1>1. ASSUME NEW a, NEW b
      PROVE  /\ Head(<<a, b>>) = a /\ Tail(<<a, b>>) = <<b>>
             /\ Head(<<b>>) = b /\ Tail(<<b>>) = << >>
  OBVIOUS
<1>2. Do("clear").op = "clear" /\ Do("zero").op = "zero"
  BY DEF Do
<1> QED
  BY <1>1, <1>2

\* The task finds nothing to play and leaves the channels alone.
LEMMA TickOfNothing ==
  ASSUME Tick, scenes = << >>
  PROVE  /\ scenes' = << >> /\ UNCHANGED <<todo, cleared>>
         /\ buffer = [c \in Channels |-> 0] => buffer' = [c \in Channels |-> 0]
<1>1. {c \in DOMAIN scenes : ~IsOver(scenes[c])} = {}
  <2>1. DOMAIN scenes = {}
    OBVIOUS
  <2> QED
    BY <2>1
<1>2. buffer' = [c \in Channels |-> buffer[c]]
  BY <1>1 DEF Tick
<1>3. scenes' = << >>
  <2>1. scenes' = [c \in {} |-> Ticked(scenes[c])]
    BY <1>1 DEF Tick
  <2> QED
    BY <2>1
<1> QED
  BY <1>2, <1>3 DEF Tick

\* Nobody but a message and the tick writes what a clear has put out.
LEMMA OtherStepsKeepDark ==
  ASSUME DarkInv, [Next]_vars, ~Tick, ~Receive
  PROVE  DarkInv'
<1>1. CASE Send \/ WifiEvent \/ BrokerEvent \/ UNCHANGED vars
  BY <1>1 DEF DarkInv, Send, WifiEvent, BrokerEvent, vars
<1>2. CASE WriteStep \/ AddStep \/ OtherStep
  <2>1. /\ todo # << >> /\ Head(todo).op \in {"write", "add", "error", "relay"}
        /\ cleared' = cleared
    BY <1>2 DEF WriteStep, AddStep, OtherStep, Step
  <2> QED
    BY <2>1, ClearingSteps DEF DarkInv
<1>3. CASE ClearStep
  <2>1. cleared => todo = <<Do("clear"), Do("zero")>>
    BY <1>3, ClearingSteps DEF DarkInv, ClearStep, Step
  <2>2. cleared => todo' = <<Do("zero")>>
    BY <1>3, <2>1, ClearingSteps DEF ClearStep, Step
  <2> QED
    BY <1>3, <2>2 DEF DarkInv, ClearStep
<1>4. CASE ZeroStep
  <2>1. cleared => todo = <<Do("zero")>> /\ scenes = << >>
    BY <1>4, ClearingSteps DEF DarkInv, ZeroStep, Step
  <2>2. cleared => todo' = << >>
    BY <1>4, <2>1, ClearingSteps DEF ZeroStep, Step
  <2> QED
    BY <1>4, <2>1, <2>2 DEF DarkInv, ZeroStep
<1>5. CASE SetProperty
  BY <1>5 DEF DarkInv, SetProperty
<1> QED
  BY <1>1, <1>2, <1>3, <1>4, <1>5 DEF Next

\* After a message that clears, and until something else is asked of the
\* channels, nothing plays and all is dark, whatever the task did in the middle
\* of it (_handleClearTopic and SceneryHandler::tick).
THEOREM ClearedLampsAreDark == Spec => []ClearedIsDark
<1>1. Init => DarkInv
  BY DEF Init, DarkInv
<1>2. DarkInv /\ [Next]_vars => DarkInv'
  <2> SUFFICES ASSUME DarkInv, [Next]_vars PROVE DarkInv'
    OBVIOUS
  <2>1. CASE Tick
    <3>1. UNCHANGED <<todo, cleared>>
      BY <2>1 DEF Tick
    <3>2. CASE scenes = << >>
      BY <2>1, <3>2, TickOfNothing DEF DarkInv
    <3>3. CASE scenes # << >>
      BY <3>1, <3>3 DEF DarkInv
    <3> QED
      BY <3>2, <3>3
  <2>2. CASE Receive
    <3>1. PICK m \in Messages : todo' = HandlerSteps(m) /\ cleared' = (m.topic = "clear")
      BY <2>2 DEF Receive
    <3>2. m.topic = "clear" => HandlerSteps(m) = ClearSteps(m)
      BY DEF HandlerSteps
    <3> QED
      BY <3>1, <3>2 DEF DarkInv, ClearSteps
  <2> QED
    BY <2>1, <2>2, OtherStepsKeepDark
<1>3. DarkInv => ClearedIsDark
  BY DEF DarkInv, ClearedIsDark, Do
<1> QED
  BY <1>1, <1>2, <1>3, PTL DEF Spec


-----------------------------------------------------------------------------
(* Least numbers, recursion, and what the parser keeps                     *)

\* A set of numbers that is not empty has a least one.
LEMMA LeastOfSet ==
  ASSUME NEW S \in SUBSET Nat, S # {}
  PROVE  \E k \in S : \A j \in S : k <= j
<1>1. PICK k \in S : \A j \in S : <<j, k>> \notin OpToRel(<, Nat)
  BY WFMin, NatLessThanWellFounded
<1>2. ASSUME NEW j \in S PROVE k <= j
  <2>1. j \in Nat /\ k \in Nat
    BY <1>1
  <2>2. ~(j < k)
    BY <1>1, <2>1 DEF OpToRel
  <2> QED
    BY <2>1, <2>2
<1> QED
  BY <1>2

\* F takes N steps of g from x.
Unfolds(F, N, x, g) == F[0] = x /\ \A n \in 1..N : F[n] = g[n][F[n - 1]]

\* What is defined by recursion over numbers exists: a least number of steps
\* that cannot be taken would be one more than a number of steps that can.
LEMMA RecursionUnfolds ==
  ASSUME NEW N \in Nat, NEW X, NEW x \in X, NEW g \in [1..N -> [X -> X]]
  PROVE  \E F \in [0..N -> X] : Unfolds(F, N, x, g)
<1> DEFINE bad == {n \in 0..N : ~\E F \in [0..n -> X] : Unfolds(F, n, x, g)}
<1>1. SUFFICES ASSUME bad # {} PROVE FALSE
  <2>1. N \in 0..N
    OBVIOUS
  <2>2. bad = {} => N \notin bad
    OBVIOUS
  <2> QED
    BY <2>1, <2>2
<1>2. PICK k \in bad : \A j \in bad : k <= j
  <2>1. bad \in SUBSET Nat
    OBVIOUS
  <2> HIDE DEF bad
  <2> QED
    BY <1>1, <2>1, LeastOfSet
<1>3. k \in 0..N
  OBVIOUS
<1>4. k # 0
  <2>1. [n \in 0..0 |-> x] \in [0..0 -> X] /\ Unfolds([n \in 0..0 |-> x], 0, x, g)
    BY DEF Unfolds
  <2> QED
    BY <2>1
<1>5. k - 1 \in 0..N /\ k - 1 \notin bad
  BY <1>2, <1>3, <1>4
<1>6. PICK F \in [0..(k - 1) -> X] : Unfolds(F, k - 1, x, g)
  BY <1>5
<1> DEFINE G == [n \in 0..k |-> IF n = k THEN g[k][F[k - 1]] ELSE F[n]]
<1>7. G \in [0..k -> X]
  <2>1. k \in 1..N /\ F[k - 1] \in X
    BY <1>3, <1>4
  <2>2. g[k][F[k - 1]] \in X
    BY <2>1
  <2> QED
    BY <1>3, <2>2
<1>8. Unfolds(G, k, x, g)
  <2>1. G[0] = x
    BY <1>3, <1>4, <1>6 DEF Unfolds
  <2>2. ASSUME NEW n \in 1..k PROVE G[n] = g[n][G[n - 1]]
    <3>1. G[n - 1] = F[n - 1]
      BY <1>3, <1>4
    <3>2. CASE n = k
      BY <1>3, <1>4, <3>1, <3>2
    <3>3. CASE n # k
      <4>1. n \in 1..(k - 1)
        BY <1>3, <3>3
      <4>2. F[n] = g[n][F[n - 1]] /\ G[n] = F[n]
        BY <1>6, <4>1, <1>3 DEF Unfolds
      <4> QED
        BY <3>1, <4>2
    <3> QED
      BY <3>2, <3>3
  <2> QED
    BY <2>1, <2>2 DEF Unfolds
<1> QED
  BY <1>2, <1>7, <1>8

\* The callback keeps legal elements only, and not more than it takes.
LEMMA AcceptedAreLegal ==
  ASSUME NEW S, NEW s \in Seq(S), NEW legal, NEW most \in Nat
  PROVE  /\ Accepted(s, legal, most) \in Seq(S \cap legal)
         /\ Len(Accepted(s, legal, most)) <= most
<1> DEFINE X == {x \in Seq(S \cap legal) : Len(x) <= most}
           N == Len(s)
           take(n, x) == IF s[n] \in legal /\ Len(x) < most THEN Append(x, s[n]) ELSE x
           g == [n \in 1..N |-> [x \in X |-> take(n, x)]]
<1>1. N \in Nat /\ << >> \in X
  OBVIOUS
<1>2. ASSUME NEW n \in 1..N, NEW x \in X PROVE take(n, x) \in X
  <2>1. s[n] \in S
    OBVIOUS
  <2>2. CASE s[n] \in legal /\ Len(x) < most
    <3>1. Append(x, s[n]) \in Seq(S \cap legal) /\ Len(Append(x, s[n])) = Len(x) + 1
      BY <2>1, <2>2, AppendProperties
    <3> QED
      BY <2>2, <3>1
  <2> QED
    BY <2>2
<1>3. g \in [1..N -> [X -> X]]
  BY <1>2
<1> HIDE DEF X, g
<1>4. PICK F \in [0..N -> X] : Unfolds(F, N, << >>, g)
  BY <1>1, <1>3, RecursionUnfolds
<1>5. F = [n \in 0..N |-> IF n = 0 THEN << >>
                          ELSE IF s[n] \in legal /\ Len(F[n - 1]) < most
                               THEN Append(F[n - 1], s[n]) ELSE F[n - 1]]
  <2>1. F[0] = << >>
    BY <1>4 DEF Unfolds
  <2>2. ASSUME NEW n \in 1..N PROVE F[n] = take(n, F[n - 1])
    <3>1. F[n] = g[n][F[n - 1]]
      BY <1>4 DEF Unfolds
    <3>2. n - 1 \in 0..N
      BY <1>1
    <3>3. F[n - 1] \in X
      BY <1>4, <3>2
    <3> QED
      BY <3>1, <3>3 DEF g
  <2>3. F = [n \in 0..N |-> F[n]]
    BY <1>4
  <2> HIDE DEF take
  <2>4. \A n \in 0..N : F[n] = IF n = 0 THEN << >> ELSE take(n, F[n - 1])
    BY <1>1, <2>1, <2>2
  <2>5. F = [n \in 0..N |-> IF n = 0 THEN << >> ELSE take(n, F[n - 1])]
    BY <2>3, <2>4
  <2> QED
    BY <2>5 DEF take
<1> DEFINE K == CHOOSE f : f = [n \in 0..N |-> IF n = 0 THEN << >>
                          ELSE IF s[n] \in legal /\ Len(f[n - 1]) < most
                               THEN Append(f[n - 1], s[n]) ELSE f[n - 1]]
<1>6. K = [n \in 0..N |-> IF n = 0 THEN << >>
                          ELSE IF s[n] \in legal /\ Len(K[n - 1]) < most
                               THEN Append(K[n - 1], s[n]) ELSE K[n - 1]]
  BY <1>5
<1> HIDE DEF K
<1>7. Accepted(s, legal, most) = K[N]
  BY DEF Accepted, K
<1>8. K[N] \in X
  <2> DEFINE bad == {n \in 0..N : K[n] \notin X}
  <2>1. SUFFICES ASSUME bad # {} PROVE FALSE
    BY <1>1
  <2>2. PICK k \in bad : \A j \in bad : k <= j
    <3>1. bad \in SUBSET Nat
      BY <1>1
    <3> HIDE DEF bad
    <3> QED
      BY <2>1, <3>1, LeastOfSet
  <2>3. k \in 0..N /\ k # 0
    BY <1>1, <1>6
  <2>4. K[k - 1] \in X
    <3>1. k - 1 \in 0..N /\ ~(k <= k - 1)
      BY <1>1, <2>3
    <3>2. k - 1 \notin bad
      BY <2>2, <3>1
    <3> QED
      BY <3>1, <3>2
  <2>5. K[k] = take(k, K[k - 1])
    BY <1>6, <2>3
  <2>6. k \in 1..N
    BY <1>1, <2>3
  <2>7. K[k] \in X
    BY <1>2, <2>4, <2>5, <2>6
  <2> QED
    BY <2>2, <2>7
<1> QED
  BY <1>7, <1>8 DEF X

\* The steps of one object after the other.
LEMMA FlattenedType ==
  ASSUME NEW S, NEW s \in Seq(Seq(S))
  PROVE  FlattenSeq(s) \in Seq(S)
<1>1. CASE Len(s) = 0
  <2>1. FlattenSeq(s) = s /\ s = << >>
    BY <1>1 DEF FlattenSeq
  <2> QED
    BY <2>1
<1>2. CASE Len(s) # 0
  <2> DEFINE N == Len(s)
             X == Seq(S)
             g == [n \in 1..N |-> [x \in X |-> x \o s[n]]]
  <2>1. N \in Nat \ {0} /\ << >> \in X /\ \A n \in 1..N : s[n] \in X
    BY <1>2
  <2>2. g \in [1..N -> [X -> X]]
    <3>1. \A n \in 1..N, x \in X : x \o s[n] \in X
      BY <2>1, ConcatProperties
    <3> QED
      BY <3>1
  <2> HIDE DEF X, g, N
  <2>3. PICK F \in [0..N -> X] : Unfolds(F, N, << >>, g)
    BY <2>1, <2>2, RecursionUnfolds
  <2>4. F[0] = << >> /\ \A n \in 1..N : F[n - 1] \in X /\ F[n] = F[n - 1] \o s[n]
    <3>1. ASSUME NEW n \in 1..N PROVE F[n - 1] \in X /\ F[n] = g[n][F[n - 1]]
      <4>1. n - 1 \in 0..N
        BY <2>1
      <4> QED
        BY <2>3, <4>1 DEF Unfolds
    <3> QED
      BY <2>3, <3>1 DEF Unfolds, g
  <2> DEFINE G == [n \in 1..N |-> F[n]]
  <2>5. \A n \in 1..N : G[n] = IF n = 1 THEN s[n] ELSE G[n - 1] \o s[n]
    <3>1. << >> \o s[1] = s[1]
      BY <2>1, ConcatEmptySeq DEF X
    <3>2. ASSUME NEW n \in 1..N PROVE G[n] = IF n = 1 THEN s[n] ELSE G[n - 1] \o s[n]
      <4>1. G[n] = F[n] /\ (n # 1 => G[n - 1] = F[n - 1])
        BY <2>1
      <4>2. F[n] = F[n - 1] \o s[n] /\ F[0] = << >>
        BY <2>4
      <4> HIDE DEF G
      <4>3. n = 1 => F[n - 1] = F[0]
        OBVIOUS
      <4>4. n = 1 => G[n] = s[n]
        BY <3>1, <4>1, <4>2, <4>3
      <4>5. n # 1 => G[n] = G[n - 1] \o s[n]
        BY <4>1, <4>2
      <4> QED
        BY <4>4, <4>5
    <3> QED
      BY <3>2
  <2>6. G = [n \in 1..N |-> IF n = 1 THEN s[n] ELSE G[n - 1] \o s[n]]
    <3>1. G = [n \in 1..N |-> G[n]]
      OBVIOUS
    <3> HIDE DEF G
    <3> QED
      BY <2>5, <3>1
  <2> HIDE DEF G
  <2> DEFINE K == CHOOSE f : f = [n \in 1..N |-> IF n = 1 THEN s[n] ELSE f[n - 1] \o s[n]]
  <2>7. K = [n \in 1..N |-> IF n = 1 THEN s[n] ELSE K[n - 1] \o s[n]]
    BY <2>6
  <2> HIDE DEF K
  <2>8. FlattenSeq(s) = K[N]
    BY <1>2 DEF FlattenSeq, K, N
  <2>9. K[N] \in X
    <3> DEFINE bad == {n \in 1..N : K[n] \notin X}
    <3>1. SUFFICES ASSUME bad # {} PROVE FALSE
      BY <2>1
    <3>2. PICK k \in bad : \A j \in bad : k <= j
      <4>1. bad \in SUBSET Nat
        BY <2>1
      <4> HIDE DEF bad
      <4> QED
        BY <3>1, <4>1, LeastOfSet
    <3>3. k \in 1..N /\ k # 1
      BY <2>1, <2>7
    <3>4. k - 1 \in 1..N /\ K[k - 1] \in X
      <4>1. k - 1 \in 1..N /\ ~(k <= k - 1)
        BY <2>1, <3>3
      <4>2. k - 1 \notin bad
        BY <3>2, <4>1
      <4> QED
        BY <4>1, <4>2
    <3>5. K[k] = K[k - 1] \o s[k]
      BY <2>7, <3>3
    <3>6. K[k] \in X
      BY <2>1, <3>3, <3>4, <3>5, ConcatProperties DEF X
    <3> QED
      BY <3>2, <3>6
  <2> QED
    BY <2>8, <2>9 DEF X
<1> QED
  BY <1>1, <1>2

-----------------------------------------------------------------------------
(* Sequences repeated                                                      *)

\* Counting round and round.
LEMMA RoundOfNumbers ==
  ASSUME NEW k \in Nat, NEW L \in Nat \ {0}
  PROVE  /\ k % L \in 0..(L - 1)
         /\ k < L => k % L = k
         /\ (k + L) % L = k % L
<1>1. k % L \in 0..(L - 1) /\ k \div L \in Int
  OBVIOUS
<1>2. k < L => k % L = k
  OBVIOUS
<1>3. k = L * (k \div L) + (k % L)
  OBVIOUS
<1>4. ASSUME NEW j \in Int, NEW q \in Int, NEW r \in Int, j = L * q + r, 0 <= r, r < L
      PROVE  j % L = r
  BY <1>4
<1>5. k + L = L * ((k \div L) + 1) + (k % L)
  BY <1>1, <1>3
<1>6. (k + L) % L = k % L
  <2> DEFINE q == (k \div L) + 1
             r == k % L
  <2>1. q \in Int /\ r \in Int /\ 0 <= r /\ r < L /\ k + L = L * q + r /\ k + L \in Int
    BY <1>1, <1>5
  <2> HIDE DEF q
  <2> QED
    BY <1>4, <2>1
<1> QED
  BY <1>1, <1>2, <1>6

\* Of n rounds of a sequence.
LEMMA RepeatedType ==
  ASSUME NEW S, NEW s \in Seq(S), NEW n \in Nat
  PROVE  /\ Repeated(n, s) \in Seq(S)
         /\ Len(Repeated(n, s)) = n * Len(s)
<1>1. Len(s) \in Nat
  OBVIOUS
<1>2. n * Len(s) \in Nat
  BY <1>1
<1>3. ASSUME NEW k \in 1..n * Len(s) PROVE s[((k - 1) % Len(s)) + 1] \in S
  <2>1. Len(s) \in Nat \ {0}
    BY <1>1
  <2>2. k - 1 \in Nat
    BY <1>2
  <2>3a. (k - 1) % Len(s) \in 0..(Len(s) - 1)
    BY <2>1, <2>2, RoundOfNumbers
  <2>3. ((k - 1) % Len(s)) + 1 \in 1..Len(s)
    BY <1>1, <2>3a
  <2> QED
    BY <2>3
<1>4. Repeated(n, s) \in [1..n * Len(s) -> S]
  BY <1>3 DEF Repeated
<1> QED
  BY <1>2, <1>4

\* One more is one more in front.
LEMMA RepeatedOnce ==
  ASSUME NEW S, NEW s \in Seq(S), NEW n \in Nat
  PROVE  Repeated(n + 1, s) = s \o Repeated(n, s)
<1> DEFINE L == Len(s)
           m == n * L
<1>1. L \in Nat /\ m \in Nat /\ L = Len(s) /\ m = n * L
  <2>1. L \in Nat
    OBVIOUS
  <2> HIDE DEF L
  <2>2. m \in Nat
    BY <2>1
  <2> QED
    BY <2>1, <2>2 DEF L
<1>2. (n + 1) * Len(s) = m + L
  BY <1>1
<1> HIDE DEF L, m
<1>3. /\ Repeated(n + 1, s) \in Seq(S) /\ Len(Repeated(n + 1, s)) = m + L
      /\ Repeated(n, s) \in Seq(S) /\ Len(Repeated(n, s)) = m
  <2>1. n + 1 \in Nat
    OBVIOUS
  <2> QED
    BY <1>1, <1>2, <2>1, RepeatedType
<1>4. /\ s \o Repeated(n, s) \in Seq(S) /\ Len(s \o Repeated(n, s)) = L + m
      /\ \A k \in 1..L + m : (s \o Repeated(n, s))[k] =
              IF k <= L THEN s[k] ELSE Repeated(n, s)[k - L]
  BY <1>1, <1>3, ConcatProperties
<1>5. ASSUME NEW k \in 1..m + L
      PROVE  Repeated(n + 1, s)[k] = (s \o Repeated(n, s))[k]
  <2>1. L \in Nat \ {0} /\ k - 1 \in Nat
    BY <1>1
  <2>2. Repeated(n + 1, s)[k] = s[((k - 1) % L) + 1]
    BY <1>1, <1>2 DEF Repeated
  <2>3. CASE k <= L
    <3>1. (k - 1) % L = k - 1
      <4>1. k - 1 < L
        BY <1>1, <2>3
      <4> QED
        BY <2>1, <4>1, RoundOfNumbers
    <3> QED
      BY <1>1, <1>4, <2>2, <2>3, <3>1
  <2>4. CASE ~(k <= L)
    <3>1. k - L \in 1..m /\ k - L - 1 \in Nat /\ k - 1 = (k - L - 1) + L
      BY <1>1, <2>4
    <3>2. Repeated(n, s)[k - L] = s[((k - L - 1) % L) + 1]
      BY <1>1, <3>1 DEF Repeated
    <3>3. (k - 1) % L = (k - L - 1) % L
      <4>1. ((k - L - 1) + L) % L = (k - L - 1) % L
        BY <2>1, <3>1, RoundOfNumbers
      <4> QED
        BY <3>1, <4>1
    <3> QED
      BY <1>1, <1>4, <2>2, <2>4, <3>1, <3>2, <3>3
  <2> QED
    BY <2>3, <2>4
<1>6. Len(s \o Repeated(n, s)) = m + L /\ \A k \in 1..Len(Repeated(n + 1, s)) :
          Repeated(n + 1, s)[k] = (s \o Repeated(n, s))[k]
  BY <1>1, <1>3, <1>4, <1>5
<1> QED
  BY <1>3, <1>4, <1>6, SeqEqual

\* No round sends nothing.
LEMMA RepeatedNever ==
  ASSUME NEW S, NEW s \in Seq(S)
  PROVE  Repeated(0, s) = << >>
<1>1. Repeated(0, s) \in Seq(S) /\ Len(Repeated(0, s)) = 0
  BY RepeatedType
<1> QED
  BY <1>1

-----------------------------------------------------------------------------
(* A scenery written out                                                   *)

Entries == [val : Int, ticks : Nat]
Loops(n) == [0..n - 1 -> [to : 0..n - 1, turns : Nat]]
Row(n) == [0..n - 1 -> Seq(Nat)]

\* What is sent one after the other.
Then(s, t) == s \o t

\* Concatenation under a name of its own: a sequence of indexes again, with
\* nothing before or after it the same, and the same in any grouping.
LEMMA ThenIsASequence ==
  ASSUME NEW s \in Seq(Nat), NEW t \in Seq(Nat)
  PROVE  Then(s, t) \in Seq(Nat)
  BY ConcatProperties DEF Then

LEMMA ThenNothing ==
  ASSUME NEW s \in Seq(Nat)
  PROVE  Then(s, << >>) = s /\ Then(<< >>, s) = s
  BY ConcatEmptySeq DEF Then

\* Appending is associative, whatever the sequences are.
LEMMA ThenGroups ==
  ASSUME NEW r \in Seq(Nat), NEW s \in Seq(Nat), NEW t \in Seq(Nat)
  PROVE  Then(Then(r, s), t) = Then(r, Then(s, t))
  BY ConcatAssociative, Z3 DEF Then

\* What is sent from the last tick of an entry until the entry `to` has had its
\* time, and what a loop from `to` sends, given what is sent until `to - 1`.
Way(base, row, first, to) == IF first >= to THEN << >> ELSE Then(row[first], Stay(base, to))
Turn(base, loops, row, to) == Then(<<loops[to].to>>, Way(base, row, loops[to].to, to))
Through(base, loops, row, from, to) ==
  Then(Way(base, row, from, to), Repeated(loops[to].turns, Turn(base, loops, row, to)))

\* The time of an entry.
LEMMA StayType ==
  ASSUME NEW base \in Seq(Entries), NEW i \in 0..Len(base) - 1
  PROVE  /\ Stay(base, i) \in Seq(Nat)
         /\ base[i + 1].ticks \in Nat
<1>1. i + 1 \in 1..Len(base) /\ i \in Nat
  OBVIOUS
<1>2. base[i + 1].ticks \in Nat
  <2>1. base[i + 1] \in Entries
    BY <1>1
  <2> QED
    BY <2>1 DEF Entries
<1>3. <<i>> \in Seq(Nat)
  BY <1>1
<1>4. base[i + 1].ticks + 1 \in Nat
  BY <1>2
<1> QED
  BY <1>2, <1>3, <1>4, RepeatedType DEF Stay

\* Ways, turns and rows are made of sequences of indexes.
LEMMA ThroughType ==
  ASSUME NEW base \in Seq(Entries), NEW n \in Nat \ {0}, n = Len(base),
         NEW loops \in Loops(n), NEW row, NEW from \in 0..n - 1, NEW to \in 0..n - 1,
         to = 0 \/ row \in Row(n)
  PROVE  /\ Way(base, row, from, to) \in Seq(Nat)
         /\ Turn(base, loops, row, to) \in Seq(Nat)
         /\ Repeated(loops[to].turns, Turn(base, loops, row, to)) \in Seq(Nat)
         /\ Through(base, loops, row, from, to) \in Seq(Nat)
<1>1. ASSUME NEW i \in 0..n - 1 PROVE Way(base, row, i, to) \in Seq(Nat)
  <2>1. CASE i >= to
    BY <2>1 DEF Way
  <2>2. CASE ~(i >= to)
    <3>1. row[i] \in Seq(Nat)
      BY <2>2 DEF Row
    <3>2. Stay(base, to) \in Seq(Nat)
      BY StayType
    <3> QED
      BY <2>2, <3>1, <3>2, ThenIsASequence DEF Way
  <2> QED
    BY <2>1, <2>2
<1>2. loops[to].to \in 0..n - 1 /\ loops[to].turns \in Nat
  BY DEF Loops
<1>3. Turn(base, loops, row, to) \in Seq(Nat)
  <2>1. <<loops[to].to>> \in Seq(Nat)
    BY <1>2
  <2> QED
    BY <1>1, <1>2, <2>1, ThenIsASequence DEF Turn
<1>4. Repeated(loops[to].turns, Turn(base, loops, row, to)) \in Seq(Nat)
  BY <1>2, <1>3, RepeatedType
<1> QED
  BY <1>1, <1>3, <1>4, ThenIsASequence DEF Through

\* The way to an entry does not look at the row below the first.
LEMMA FirstRow ==
  ASSUME NEW base, NEW n \in Nat \ {0}, NEW loops \in Loops(n), NEW from \in 0..n - 1, NEW r, NEW s
  PROVE  Through(base, loops, r, from, 0) = Through(base, loops, s, from, 0)
<1>1. loops[0].to \in 0..n - 1
  BY DEF Loops
<1>2. \A i \in 0..n - 1 : Way(base, r, i, 0) = << >> /\ Way(base, s, i, 0) = << >>
  BY DEF Way
<1> QED
  BY <1>1, <1>2 DEF Through, Turn

\* After is what its definition says, row by row.
LEMMA AfterUnfolds ==
  ASSUME NEW base \in Seq(Entries), NEW n \in Nat \ {0}, n = Len(base), NEW loops \in Loops(n)
  PROVE  /\ After(base, loops) \in [0..n - 1 -> Row(n)]
         /\ \A to, from \in 0..n - 1 :
               After(base, loops)[to][from] =
                  Through(base, loops, After(base, loops)[to - 1], from, to)
<1> DEFINE line(row, to) == [from \in 0..n - 1 |-> Through(base, loops, row, from, to)]
           X == Row(n)
           g == [k \in 1..n |-> [row \in X |-> line(row, k - 1)]]
           x == [i \in 0..n - 1 |-> << >>]
<1>1. x \in X
  BY DEF Row
<1>2. \A to \in 0..n - 1, row \in X : line(row, to) \in X
  <2>1. ASSUME NEW to \in 0..n - 1, NEW row \in X, NEW from \in 0..n - 1
        PROVE  Through(base, loops, row, from, to) \in Seq(Nat)
    BY ThroughType
  <2> QED
    BY <2>1 DEF Row
<1>3. g \in [1..n -> [X -> X]]
  <2> HIDE DEF line, X
  <2>1. \A k \in 1..n : k - 1 \in 0..n - 1
    OBVIOUS
  <2> QED
    BY <1>2, <2>1
<1> HIDE DEF X, g, line, x
<1>4. PICK F \in [0..n -> X] : Unfolds(F, n, x, g)
  BY <1>1, <1>3, RecursionUnfolds
<1> DEFINE G == [to \in 0..n - 1 |-> F[to + 1]]
<1>5. ASSUME NEW to \in 0..n - 1
      PROVE  /\ G[to] \in X /\ G[to] = line(F[to], to)
             /\ to # 0 => G[to - 1] \in X /\ F[to] = G[to - 1]
  <2>1. to + 1 \in 1..n /\ to \in 0..n /\ to + 1 - 1 = to
    OBVIOUS
  <2>2. F[to + 1] = g[to + 1][F[to + 1 - 1]] /\ F[to + 1] \in X /\ F[to] \in X
    BY <1>4, <2>1 DEF Unfolds
  <2>3. F[to + 1] = line(F[to], to)
    BY <2>1, <2>2 DEF g
  <2>4. to # 0 => to - 1 \in 0..n - 1 /\ to - 1 + 1 = to
    OBVIOUS
  <2> QED
    BY <2>2, <2>3, <2>4
<1> DEFINE body(f) == [to \in 0..n - 1 |-> line(f[to - 1], to)]
<1>6. G = body(G)
  <2>1. ASSUME NEW to \in 0..n - 1 PROVE G[to] = line(G[to - 1], to)
    <3>1. CASE to = 0
      BY <1>5, <3>1, FirstRow DEF line
    <3>2. CASE to # 0
      BY <1>5, <3>2
    <3> QED
      BY <3>1, <3>2
  <2>2. G = [to \in 0..n - 1 |-> G[to]]
    OBVIOUS
  <2> HIDE DEF G
  <2> QED
    BY <2>1, <2>2
<1> HIDE DEF G
<1> DEFINE K == CHOOSE f : f = body(f)
<1>7. K = body(K)
  BY <1>6
<1>8. After(base, loops) = K
  BY DEF After, K, body, line, Through, Way, Turn, Then
<1> HIDE DEF K
<1>9. \A to \in 0..n - 1 : K[to] \in X
  <2> DEFINE bad == {to \in 0..n - 1 : K[to] \notin X}
  <2>1. SUFFICES ASSUME bad # {} PROVE FALSE
    OBVIOUS
  <2>2. PICK k \in bad : \A j \in bad : k <= j
    <3>1. bad \in SUBSET Nat
      OBVIOUS
    <3> HIDE DEF bad
    <3> QED
      BY <2>1, <3>1, LeastOfSet
  <2>3. k \in 0..n - 1 /\ K[k] = line(K[k - 1], k)
    BY <1>7
  <2>4. k = 0 \/ K[k - 1] \in X
    <3>1. CASE k # 0
      <4>1. k - 1 \in 0..n - 1 /\ ~(k <= k - 1)
        BY <2>3, <3>1
      <4>2. k - 1 \notin bad
        BY <2>2, <4>1
      <4> QED
        BY <4>1, <4>2
    <3> QED
      BY <3>1
  <2>5. line(K[k - 1], k) \in X
    <3>1. \A from \in 0..n - 1 : Through(base, loops, K[k - 1], from, k) \in Seq(Nat)
      BY <2>3, <2>4, ThroughType DEF X
    <3> QED
      BY <3>1 DEF line, X, Row
  <2> QED
    BY <2>2, <2>3, <2>5
<1>10. K \in [0..n - 1 -> X]
  BY <1>7, <1>9
<1>11. \A to, from \in 0..n - 1 : K[to][from] = Through(base, loops, K[to - 1], from, to)
  <2>1. \A to \in 0..n - 1 : K[to] = line(K[to - 1], to)
    BY <1>7
  <2> QED
    BY <2>1 DEF line
<1> QED
  BY <1>8, <1>10, <1>11 DEF X

\* Brackets may be moved.
LEMMA Regrouped ==
  ASSUME NEW r \in Seq(Nat), NEW s \in Seq(Nat), NEW a \in Seq(Nat), NEW t \in Seq(Nat),
         NEW u \in Seq(Nat)
  PROVE  /\ Then(Then(Then(r, Then(s, a)), t), u) = Then(r, Then(s, Then(Then(a, t), u)))
         /\ Then(Then(r, Then(s, a)), Then(t, u)) = Then(r, Then(s, Then(a, Then(t, u))))
<1>1. /\ Then(s, a) \in Seq(Nat) /\ Then(a, t) \in Seq(Nat) /\ Then(t, u) \in Seq(Nat)
      /\ Then(s, Then(a, t)) \in Seq(Nat)
  BY ThenIsASequence
<1>2. Then(Then(r, Then(s, a)), t) = Then(r, Then(s, Then(a, t)))
  <2>1. Then(Then(r, Then(s, a)), t) = Then(r, Then(Then(s, a), t))
    BY <1>1, ThenGroups
  <2>2. Then(Then(s, a), t) = Then(s, Then(a, t))
    BY ThenGroups
  <2> QED
    BY <2>1, <2>2
<1>3. Then(Then(r, Then(s, Then(a, t))), u) = Then(r, Then(s, Then(Then(a, t), u)))
  <2>1. Then(Then(r, Then(s, Then(a, t))), u) = Then(r, Then(Then(s, Then(a, t)), u))
    BY <1>1, ThenGroups
  <2>2. Then(Then(s, Then(a, t)), u) = Then(s, Then(Then(a, t), u))
    BY <1>1, ThenGroups
  <2> QED
    BY <2>1, <2>2
<1>4. Then(Then(r, Then(s, a)), Then(t, u)) = Then(r, Then(s, Then(a, Then(t, u))))
  <2>1. Then(Then(r, Then(s, a)), Then(t, u)) = Then(r, Then(Then(s, a), Then(t, u)))
    BY <1>1, ThenGroups
  <2>2. Then(Then(s, a), Then(t, u)) = Then(s, Then(a, Then(t, u)))
    BY <1>1, ThenGroups
  <2> QED
    BY <2>1, <2>2
<1> QED
  BY <1>2, <1>3, <1>4

\* One turn of the loop of an entry, and all that it makes.
TurnAt(base, loops, j) == Turn(base, loops, After(base, loops)[j - 1], j)
AllTurns(base, loops, j) == Repeated(loops[j].turns, TurnAt(base, loops, j))

\* A row can be read from its beginning, too: the turns of the entry, and then
\* the next entry and what follows it.
GoesOn(base, loops, m) ==
  \A j \in 0..m : After(base, loops)[m][j] =
      Then(AllTurns(base, loops, j),
           IF j = m THEN << >> ELSE Then(Stay(base, j + 1), After(base, loops)[m][j + 1]))

\* A turn sends a sequence of indexes.
LEMMA TurnType ==
  ASSUME NEW base \in Seq(Entries), NEW n \in Nat \ {0}, n = Len(base), NEW loops \in Loops(n),
         NEW j \in 0..n - 1
  PROVE  /\ TurnAt(base, loops, j) \in Seq(Nat)
         /\ AllTurns(base, loops, j) \in Seq(Nat)
         /\ j + 1 \in 0..n - 1 => Stay(base, j + 1) \in Seq(Nat)
<1>1. j = 0 \/ After(base, loops)[j - 1] \in Row(n)
  <2>1. j # 0 => j - 1 \in 0..n - 1
    OBVIOUS
  <2> QED
    BY <2>1, AfterUnfolds
<1>2. TurnAt(base, loops, j) \in Seq(Nat) /\ AllTurns(base, loops, j) \in Seq(Nat)
  BY <1>1, ThroughType DEF TurnAt, AllTurns
<1> QED
  BY <1>2, StayType

\* In every row the way from an entry is its turns and the way from the next.
LEMMA RowsGoOn ==
  ASSUME NEW base \in Seq(Entries), NEW n \in Nat \ {0}, n = Len(base), NEW loops \in Loops(n),
         NEW m \in 0..n - 1
  PROVE  GoesOn(base, loops, m)
<1> DEFINE A == After(base, loops)
           bad == {k \in 0..n - 1 : ~GoesOn(base, loops, k)}
<1>1. SUFFICES ASSUME bad # {} PROVE FALSE
  OBVIOUS
<1>2. PICK k \in bad : \A i \in bad : k <= i
  <2>1. bad \in SUBSET Nat
    OBVIOUS
  <2> HIDE DEF bad
  <2> QED
    BY <1>1, <2>1, LeastOfSet
<1>3. k \in 0..n - 1
  OBVIOUS
<1>3a. k # 0 => k - 1 \in 0..n - 1 /\ GoesOn(base, loops, k - 1)
  <2> SUFFICES ASSUME k # 0 PROVE k - 1 \in 0..n - 1 /\ GoesOn(base, loops, k - 1)
    OBVIOUS
  <2>1. k - 1 \in 0..n - 1 /\ ~(k <= k - 1)
    BY <1>3
  <2>2. k - 1 \notin bad
    BY <1>2, <2>1
  <2> QED
    BY <2>1, <2>2
<1>4. /\ \A i, j \in 0..n - 1 : A[i][j] \in Seq(Nat)
      /\ \A i, j \in 0..n - 1 : A[i][j] = Through(base, loops, A[i - 1], j, i)
  <2>1. A \in [0..n - 1 -> Row(n)]
    BY AfterUnfolds
  <2>2. \A i, j \in 0..n - 1 : A[i][j] = Through(base, loops, A[i - 1], j, i)
    BY AfterUnfolds
  <2> HIDE DEF A
  <2> QED
    BY <2>1, <2>2 DEF Row
<1> HIDE DEF A
<1>5. ASSUME NEW j \in 0..k
      PROVE  A[k][j] = Then(AllTurns(base, loops, j),
                              IF j = k THEN << >> ELSE Then(Stay(base, j + 1), A[k][j + 1]))
  <2> DEFINE U(i) == AllTurns(base, loops, i)
             S(i) == Stay(base, i)
  <2>0. j \in 0..n - 1
    BY <1>3
  <2>1. j \in 0..n - 1 /\ U(j) \in Seq(Nat) /\ U(k) \in Seq(Nat) /\ S(k) \in Seq(Nat)
    BY <1>3, <2>0, TurnType, StayType
  <2>2. /\ j = k => A[k][j] = Then(<< >>, U(k))
        /\ j # k => A[k][j] = Then(Then(A[k - 1][j], S(k)), U(k))
    BY <1>3, <1>3a, <1>4, <2>1 DEF Through, Way, AllTurns, TurnAt, A
  <2> HIDE DEF U, S
  <2>3. CASE j = k
    BY <2>1, <2>2, <2>3, ThenNothing DEF U
  <2>4. CASE j = k - 1
    <3>1. A[k - 1][j] = Then(U(j), << >>)
      BY <1>3, <1>3a, <2>4 DEF GoesOn, A, U
    <3>2. A[k - 1][j] = U(j)
      BY <2>1, <3>1, ThenNothing
    <3>3. A[k][k] = Then(<< >>, U(k))
      BY <1>3, <1>3a, <1>4 DEF Through, Way, AllTurns, TurnAt, A, U
    <3>4. A[k][k] = U(k)
      BY <2>1, <3>3, ThenNothing
    <3>5. A[k][j] = Then(Then(U(j), S(k)), U(k))
      BY <1>3, <1>3a, <2>2, <2>4, <3>2
    <3>6. A[k][j] = Then(U(j), Then(S(k), U(k)))
      BY <2>1, <3>5, ThenGroups
    <3>7. j + 1 = k /\ j # k
      BY <1>3, <1>3a, <2>4
    <3> QED
      BY <3>4, <3>6, <3>7 DEF U, S
  <2>5. CASE j < k - 1
    <3>1. /\ j + 1 \in 0..n - 1 /\ j \in 0..k - 1 /\ j + 1 # k /\ j # k /\ k # 0
          /\ S(j + 1) \in Seq(Nat) /\ A[k - 1][j + 1] \in Seq(Nat)
      BY <1>3, <1>3a, <1>4, <2>5, StayType DEF S
    <3>2. A[k - 1][j] = Then(U(j), Then(S(j + 1), A[k - 1][j + 1]))
      <4>1. k - 1 \in 0..n - 1 /\ GoesOn(base, loops, k - 1) /\ j # k - 1
        BY <1>3a, <2>5, <3>1
      <4>2. A[k - 1][j] = Then(AllTurns(base, loops, j),
                IF j = k - 1 THEN << >> ELSE Then(Stay(base, j + 1), A[k - 1][j + 1]))
        BY <3>1, <4>1 DEF GoesOn, A
      <4> QED
        BY <4>1, <4>2 DEF U, S
    <3>3. A[k][j + 1] = Then(Then(A[k - 1][j + 1], S(k)), U(k))
      BY <1>3, <1>3a, <1>4, <3>1, <2>5 DEF Through, Way, AllTurns, TurnAt, A, U, S
    <3>4. A[k][j] = Then(Then(Then(U(j), Then(S(j + 1), A[k - 1][j + 1])), S(k)), U(k))
      BY <2>2, <3>1, <3>2
    <3>5. A[k][j] = Then(U(j), Then(S(j + 1), A[k][j + 1]))
      <4>1. Then(Then(Then(U(j), Then(S(j + 1), A[k - 1][j + 1])), S(k)), U(k)) =
              Then(U(j), Then(S(j + 1), Then(Then(A[k - 1][j + 1], S(k)), U(k))))
        <5> DEFINE r == U(j)
                   s == S(j + 1)
                   a == A[k - 1][j + 1]
                   t == S(k)
                   u == U(k)
        <5>1. r \in Seq(Nat) /\ s \in Seq(Nat) /\ a \in Seq(Nat) /\ t \in Seq(Nat) /\ u \in Seq(Nat)
          BY <2>1, <3>1
        <5> HIDE DEF r, s, a, t, u
        <5>2. Then(Then(Then(r, Then(s, a)), t), u) = Then(r, Then(s, Then(Then(a, t), u)))
          BY <5>1, Regrouped
        <5> QED
          BY <5>2 DEF r, s, a, t, u
      <4> QED
        BY <3>3, <3>4, <4>1
    <3> QED
      BY <3>1, <3>5 DEF U, S
  <2> QED
    BY <1>3, <1>3a, <2>3, <2>4, <2>5
<1>6. GoesOn(base, loops, k)
  BY <1>5 DEF GoesOn, A
<1> QED
  BY <1>2, <1>6

-----------------------------------------------------------------------------
(* What a scenery has still to send                                        *)

\* g[j] is what is sent after the time of entry j, when left[j] turns of its
\* loop are left: those, and then the next entry and what follows it.
Beyond(base, g, j) ==
  IF j = Len(base) - 1 THEN << >> ELSE Then(Stay(base, j + 1), g[j + 1])
Ahead(base, loops, left, g, i) ==
  /\ g \in Row(Len(base)) /\ left \in [0..Len(base) - 1 -> Nat]
  /\ \A j \in i..Len(base) - 1 :
        g[j] = Then(Repeated(left[j], TurnAt(base, loops, j)), Beyond(base, g, j))

\* At the beginning all turns are left.
LEMMA AllAhead ==
  ASSUME NEW base \in Seq(Entries), NEW n \in Nat \ {0}, n = Len(base), NEW loops \in Loops(n)
  PROVE  Ahead(base, loops, [j \in 0..n - 1 |-> loops[j].turns], After(base, loops)[n - 1], 0)
<1> DEFINE g == After(base, loops)[n - 1]
           left == [j \in 0..n - 1 |-> loops[j].turns]
<1>1. n - 1 \in 0..n - 1
  OBVIOUS
<1>2. g \in Row(n)
  BY <1>1, AfterUnfolds
<1>3. left \in [0..n - 1 -> Nat]
  BY DEF Loops
<1>4. GoesOn(base, loops, n - 1)
  BY <1>1, RowsGoOn
<1>5. ASSUME NEW j \in 0..n - 1
      PROVE  g[j] = Then(Repeated(left[j], TurnAt(base, loops, j)), Beyond(base, g, j))
  BY <1>4 DEF GoesOn, AllTurns, Beyond
<1> QED
  BY <1>2, <1>3, <1>5 DEF Ahead

BeyondIsASequence(base, g, i) == Beyond(base, g, i) \in Seq(Nat)

\* What is sent past an entry is a sequence of indexes.
LEMMA BeyondType ==
  ASSUME NEW base \in Seq(Entries), NEW n \in Nat \ {0}, n = Len(base), NEW g \in Row(n),
         NEW i \in 0..n - 1
  PROVE  BeyondIsASequence(base, g, i)
<1>1. CASE i = n - 1
  BY <1>1 DEF Beyond, BeyondIsASequence
<1>2. CASE i # n - 1
  <2>1. i + 1 \in 0..n - 1
    BY <1>2
  <2>2. Stay(base, i + 1) \in Seq(Nat) /\ g[i + 1] \in Seq(Nat)
    BY <2>1, StayType DEF Row
  <2> QED
    BY <1>2, <2>2, ThenIsASequence DEF Beyond, BeyondIsASequence
<1> QED
  BY <1>1, <1>2

\* The turns left when the loop of entry i begins another.
LeftAfter(n, loops, left, i) ==
  [j \in 0..n - 1 |-> IF j < i THEN loops[j].turns ELSE IF j = i THEN left[i] - 1 ELSE left[j]]

\* The loop of entry i owes a turn.
HasTurn(base, n, loops, i, left, g) ==
  /\ base \in Seq(Entries) /\ n \in Nat \ {0} /\ n = Len(base) /\ loops \in Loops(n)
  /\ i \in 0..n - 1 /\ loops[i].to <= i
  /\ Ahead(base, loops, left, g, i) /\ left[i] > 0

\* Another turn of the loop of entry i: what is ahead begins with the entry it
\* goes back to, and goes on with all turns of the loops on the way.
LEMMA TurnTaken ==
  ASSUME NEW base, NEW n, NEW loops, NEW i, NEW left, NEW g, HasTurn(base, n, loops, i, left, g)
  PROVE  \E h : /\ Ahead(base, loops, LeftAfter(n, loops, left, i), h, loops[i].to)
                /\ g[i] = Then(<<loops[i].to>>, h[loops[i].to])
<1> DEFINE b == loops[i].to
           rest == LeftAfter(n, loops, left, i)
           A == After(base, loops)
           T == TurnAt(base, loops, i)
           X == Beyond(base, g, i)
           U == Repeated(left[i] - 1, T)
           Y == Then(U, X)
           h == [j \in 0..n - 1 |-> IF j < i THEN Then(A[i - 1][j], Then(Stay(base, i), Y))
                                    ELSE IF j = i THEN Y ELSE g[j]]
<1> USE DEF HasTurn
<1>0. rest = [j \in 0..n - 1 |-> IF j < i THEN loops[j].turns
                                 ELSE IF j = i THEN left[i] - 1 ELSE left[j]]
  BY DEF LeftAfter
<1> HIDE DEF rest
<1>1. /\ b \in 0..n - 1 /\ b <= i /\ left \in [0..n - 1 -> Nat] /\ g \in Row(n)
      /\ left[i] - 1 \in Nat /\ rest \in [0..n - 1 -> Nat]
  <2>1. b \in 0..n - 1 /\ \A j \in 0..n - 1 : loops[j].turns \in Nat
    BY DEF Loops
  <2>2. left \in [0..n - 1 -> Nat] /\ g \in Row(n)
    BY DEF Ahead
  <2>3. left[i] - 1 \in Nat
    BY <2>2
  <2> QED
    BY <1>0, <2>1, <2>2, <2>3
<1>2. T \in Seq(Nat) /\ X \in Seq(Nat) /\ U \in Seq(Nat) /\ Y \in Seq(Nat) /\ Stay(base, i) \in Seq(Nat)
  <2>1. T \in Seq(Nat) /\ Stay(base, i) \in Seq(Nat)
    BY TurnType, StayType
  <2>2. X \in Seq(Nat)
    BY <1>1, BeyondType DEF BeyondIsASequence
  <2>3. U \in Seq(Nat)
    BY <1>1, <2>1, RepeatedType
  <2> QED
    BY <2>1, <2>2, <2>3, ThenIsASequence
<1>3. g[i] = Then(T, Y)
  <2>1. g[i] = Then(Repeated(left[i], T), X)
    BY DEF Ahead
  <2>2. Repeated(left[i], T) = Then(T, U)
    <3>1. Repeated((left[i] - 1) + 1, T) = T \o Repeated(left[i] - 1, T)
      BY <1>1, <1>2, RepeatedOnce
    <3>2. (left[i] - 1) + 1 = left[i]
      BY <1>1
    <3> QED
      BY <3>1, <3>2 DEF Then
  <2> QED
    BY <1>2, <2>1, <2>2, ThenGroups
<1>4. \A j \in 0..n - 1 : j < i => i - 1 \in 0..n - 1 /\ A[i - 1][j] \in Seq(Nat)
  <2>1. A \in [0..n - 1 -> Row(n)]
    BY AfterUnfolds
  <2> HIDE DEF A
  <2>2. \A k, j \in 0..n - 1 : A[k][j] \in Seq(Nat)
    BY <2>1 DEF Row
  <2>3. \A j \in 0..n - 1 : j < i => i - 1 \in 0..n - 1
    OBVIOUS
  <2> QED
    BY <2>2, <2>3
<1>5. h \in Row(n)
  <2>1. ASSUME NEW j \in 0..n - 1 PROVE h[j] \in Seq(Nat)
    <3>1. CASE j < i
      <4>1. A[i - 1][j] \in Seq(Nat) /\ Then(Stay(base, i), Y) \in Seq(Nat)
        BY <1>2, <1>4, <3>1, ThenIsASequence
      <4>2. h[j] = Then(A[i - 1][j], Then(Stay(base, i), Y))
        BY <3>1
      <4> HIDE DEF h, Y, A
      <4> QED
        BY <4>1, <4>2, ThenIsASequence
    <3>2. CASE j = i
      BY <1>2, <3>2
    <3>3. CASE j > i
      <4>1. h[j] = g[j]
        BY <3>3
      <4>2. g[j] \in Seq(Nat)
        BY <1>1 DEF Row
      <4> HIDE DEF h
      <4> QED
        BY <4>1, <4>2
    <3> QED
      BY <3>1, <3>2, <3>3
  <2> HIDE DEF h
  <2>2. h = [j \in 0..n - 1 |-> h[j]]
    BY DEF h
  <2> QED
    BY <2>1, <2>2 DEF Row
<1>6. g[i] = Then(<<b>>, h[b])
  <2>1. T = Then(<<b>>, Way(base, A[i - 1], b, i)) /\ <<b>> \in Seq(Nat)
    BY <1>1 DEF TurnAt, Turn
  <2>2. CASE b = i
    <3>1. Way(base, A[i - 1], b, i) = << >>
      BY <1>1, <2>2 DEF Way
    <3>2. T = <<b>>
      BY <2>1, <3>1, ThenNothing
    <3>3. h[b] = Y
      BY <1>1, <2>2
    <3> QED
      BY <1>3, <3>2, <3>3
  <2>3. CASE b # i
    <3>1. b < i /\ A[i - 1][b] \in Seq(Nat)
      BY <1>1, <1>4, <2>3
    <3>2. Way(base, A[i - 1], b, i) = Then(A[i - 1][b], Stay(base, i))
      BY <1>1, <3>1 DEF Way
    <3>3. h[b] = Then(A[i - 1][b], Then(Stay(base, i), Y))
      BY <1>1, <3>1
    <3> DEFINE a == A[i - 1][b]
               s == Stay(base, i)
               o == <<b>>
    <3>4. /\ a \in Seq(Nat) /\ s \in Seq(Nat) /\ o \in Seq(Nat) /\ Y \in Seq(Nat)
          /\ g[i] = Then(Then(o, Then(a, s)), Y) /\ h[b] = Then(a, Then(s, Y))
      BY <1>2, <1>3, <2>1, <3>1, <3>2, <3>3
    <3> HIDE DEF a, s, o, Y, h
    <3>5. Then(a, s) \in Seq(Nat)
      BY <3>4, ThenIsASequence
    <3>6. Then(Then(o, Then(a, s)), Y) = Then(o, Then(Then(a, s), Y))
      BY <3>4, <3>5, ThenGroups
    <3>7. Then(Then(a, s), Y) = Then(a, Then(s, Y))
      BY <3>4, ThenGroups
    <3> QED
      BY <3>4, <3>6, <3>7 DEF o
  <2> QED
    BY <2>2, <2>3
<1>7. ASSUME NEW j \in b..n - 1
      PROVE  h[j] = Then(Repeated(rest[j], TurnAt(base, loops, j)), Beyond(base, h, j))
  <2>0. j \in 0..n - 1
    BY <1>1
  <2>1. CASE j > i
    <3> HIDE DEF HasTurn
    <3>0. n \in Nat /\ i \in 0..n - 1
      BY DEF HasTurn
    <3>1. rest[j] = left[j] /\ h[j] = g[j] /\ (j # n - 1 => h[j + 1] = g[j + 1])
      BY <1>0, <2>0, <2>1, <3>0
    <3> USE DEF HasTurn
    <3>2. g[j] = Then(Repeated(left[j], TurnAt(base, loops, j)), Beyond(base, g, j))
      BY <2>0, <2>1 DEF Ahead
    <3>3. Beyond(base, h, j) = Beyond(base, g, j)
      BY <3>1 DEF Beyond
    <3> QED
      BY <3>1, <3>2, <3>3
  <2>2. CASE j = i
    <3>1. rest[j] = left[i] - 1 /\ h[j] = Y /\ (j # n - 1 => h[j + 1] = g[j + 1])
      BY <1>0, <2>0, <2>2
    <3>3. Beyond(base, h, j) = X
      BY <2>2, <3>1 DEF Beyond
    <3> QED
      BY <2>2, <3>1, <3>3
  <2>3. CASE j < i
    <3> DEFINE s == Stay(base, i)
               a == A[i - 1][j]
               r == AllTurns(base, loops, j)
    <3>1. i - 1 \in 0..n - 1 /\ GoesOn(base, loops, i - 1) /\ j \in 0..i - 1 /\ j # n - 1
      BY <2>0, <2>3, RowsGoOn
    <3>2. a = Then(r, IF j = i - 1 THEN << >> ELSE Then(Stay(base, j + 1), A[i - 1][j + 1]))
      BY <3>1 DEF GoesOn
    <3>3. /\ a \in Seq(Nat) /\ r \in Seq(Nat) /\ s \in Seq(Nat)
          /\ h[j] = Then(a, Then(s, Y)) /\ Repeated(rest[j], TurnAt(base, loops, j)) = r
      BY <1>0, <1>2, <1>4, <2>0, <2>3, TurnType DEF AllTurns
    <3>4. CASE j = i - 1
      <4>1. a = r
        BY <3>2, <3>3, <3>4, ThenNothing
      <4>2. h[j + 1] = Y /\ Beyond(base, h, j) = Then(s, h[j + 1])
        BY <2>0, <3>1, <3>4 DEF Beyond
      <4> QED
        BY <3>3, <4>1, <4>2
    <3>5. CASE j # i - 1
      <4> DEFINE t == Stay(base, j + 1)
                 c == A[i - 1][j + 1]
      <4>1. j + 1 \in 0..n - 1 /\ j + 1 < i
        BY <2>0, <2>3, <3>5
      <4>2. t \in Seq(Nat) /\ c \in Seq(Nat) /\ a = Then(r, Then(t, c))
        BY <1>4, <3>2, <3>5, <4>1, StayType
      <4>3. h[j + 1] = Then(c, Then(s, Y)) /\ Beyond(base, h, j) = Then(t, h[j + 1])
        BY <3>1, <4>1 DEF Beyond
      <4>4. Y \in Seq(Nat)
        BY <1>2
      <4> HIDE DEF t, c, a, r, s, Y, h
      <4>5. Then(Then(r, Then(t, c)), Then(s, Y)) = Then(r, Then(t, Then(c, Then(s, Y))))
        BY <3>3, <4>2, <4>4, Regrouped
      <4> QED
        BY <3>3, <4>2, <4>3, <4>5
    <3> QED
      BY <3>4, <3>5
  <2> QED
    BY <2>0, <2>1, <2>2, <2>3
<1>8. Ahead(base, loops, rest, h, b)
  <2> HIDE DEF h
  <2> QED
    BY <1>1, <1>5, <1>7 DEF Ahead
<1> QED
  BY <1>6, <1>8 DEF rest

-----------------------------------------------------------------------------
(* The loops of a scenery                                                  *)

LoopEntries == [from : Nat, to : Nat, times : Int, counter : Int]

\* What a message may put into a scenery.
IsLegal(base, repeat) ==
  /\ base \in Seq(Entries) /\ base # << >> /\ repeat \in Seq(LoopEntries)
  /\ \A k \in DOMAIN repeat :
        /\ repeat[k].from < Len(base) /\ repeat[k].to < Len(base)
        /\ repeat[k].times \in -1..MaxRepeat

OwnOf(repeat, i) == {k \in DOMAIN repeat : repeat[k].from = i}
FirstOf(repeat, i) == CHOOSE k \in OwnOf(repeat, i) : \A m \in OwnOf(repeat, i) : k <= m
LoopsOf(base, repeat) == [i \in 0..Len(base) - 1 |-> LoopOf(repeat, i)]

\* Two lists of loops that differ in their counters.
SameLoops(r, s) ==
  /\ DOMAIN r = DOMAIN s
  /\ \A k \in DOMAIN r : r[k].from = s[k].from /\ r[k].to = s[k].to /\ r[k].times = s[k].times

\* The first loop of an entry is one of its loops.
LEMMA FirstIsOwn ==
  ASSUME NEW repeat \in Seq(LoopEntries), NEW i, OwnOf(repeat, i) # {}
  PROVE  /\ FirstOf(repeat, i) \in DOMAIN repeat /\ repeat[FirstOf(repeat, i)].from = i
         /\ repeat[FirstOf(repeat, i)] \in LoopEntries
<1>1. OwnOf(repeat, i) \in SUBSET Nat
  BY DEF OwnOf
<1>2. \E k \in OwnOf(repeat, i) : \A m \in OwnOf(repeat, i) : k <= m
  BY <1>1, LeastOfSet
<1>3. FirstOf(repeat, i) \in OwnOf(repeat, i)
  BY <1>2 DEF FirstOf
<1> QED
  BY <1>3 DEF OwnOf

\* SceneryHandler::_findRepeatPoint() finds the first loop of the entry.
LEMMA FindsFirst ==
  ASSUME NEW e, e.repeat \in Seq(LoopEntries)
  PROVE  FindRepeatPoint(e) = IF OwnOf(e.repeat, e.index) = {} THEN 0
                              ELSE FirstOf(e.repeat, e.index)
<1>1. {k \in 1..Len(e.repeat) : e.repeat[k].from = e.index} = OwnOf(e.repeat, e.index)
  BY DEF OwnOf
<1>2. Min(OwnOf(e.repeat, e.index)) = FirstOf(e.repeat, e.index)
  BY DEF Min, FirstOf
<1>3. FindRepeatPoint(e) = LET I == {k \in 1..Len(e.repeat) : e.repeat[k].from = e.index}
                           IN  IF I # {} THEN Min(I) ELSE 0
  BY DEF FindRepeatPoint, SelectInSeq
<1> QED
  BY <1>1, <1>2, <1>3

\* The first loop is the one written out.
LEMMA LoopOfFirst ==
  ASSUME NEW repeat, NEW i
  PROVE  LoopOf(repeat, i) =
            IF OwnOf(repeat, i) = {} THEN [to |-> i, turns |-> 0]
            ELSE [to |-> repeat[FirstOf(repeat, i)].to,
                  turns |-> Plays(repeat[FirstOf(repeat, i)]) - 1]
  BY DEF LoopOf, OwnOf, FirstOf

\* Counters have no part in what is written out.
LEMMA SameLoopsOf ==
  ASSUME NEW base, NEW r \in Seq(LoopEntries), NEW s \in Seq(LoopEntries), SameLoops(r, s)
  PROVE  /\ \A i : OwnOf(r, i) = OwnOf(s, i) /\ FirstOf(r, i) = FirstOf(s, i)
         /\ LoopsOf(base, r) = LoopsOf(base, s)
         /\ WrittenOut(base, r) = WrittenOut(base, s)
         /\ GoesBack(r) <=> GoesBack(s)
<1>1. \A i : OwnOf(r, i) = OwnOf(s, i)
  BY DEF SameLoops, OwnOf
<1>2. \A i : FirstOf(r, i) = FirstOf(s, i)
  BY <1>1 DEF FirstOf
<1>3. ASSUME NEW i PROVE LoopOf(r, i) = LoopOf(s, i)
  <2>1. CASE OwnOf(r, i) = {}
    BY <1>1, <2>1, LoopOfFirst
  <2>2. CASE OwnOf(r, i) # {}
    <3> DEFINE k == FirstOf(r, i)
    <3>1. k \in DOMAIN r /\ k = FirstOf(s, i) /\ OwnOf(s, i) # {}
      BY <1>1, <1>2, <2>2, FirstIsOwn
    <3>2. r[k].to = s[k].to /\ r[k].times = s[k].times
      BY <3>1 DEF SameLoops
    <3>3. Plays(r[k]) = Plays(s[k])
      BY <3>2 DEF Plays
    <3> HIDE DEF k
    <3>4. LoopOf(r, i) = [to |-> r[k].to, turns |-> Plays(r[k]) - 1]
      BY <2>2, LoopOfFirst DEF k
    <3>5. LoopOf(s, i) = [to |-> s[k].to, turns |-> Plays(s[k]) - 1]
      BY <3>1, LoopOfFirst DEF k
    <3> QED
      BY <3>2, <3>3, <3>4, <3>5
  <2> QED
    BY <2>1, <2>2
<1>4. LoopsOf(base, r) = LoopsOf(base, s)
  BY <1>3 DEF LoopsOf
<1>5. WrittenOut(base, r) = WrittenOut(base, s)
  BY <1>4 DEF WrittenOut, LoopsOf
<1>6. GoesBack(r) <=> GoesBack(s)
  BY DEF GoesBack, SameLoops
<1> QED
  BY <1>1, <1>2, <1>4, <1>5, <1>6

\* The loops of a legal scenery go to its entries.
LEMMA LoopsType ==
  ASSUME NEW base, NEW repeat, IsLegal(base, repeat)
  PROVE  /\ LoopsOf(base, repeat) \in Loops(Len(base))
         /\ GoesBack(repeat) => \A i \in 0..Len(base) - 1 : LoopsOf(base, repeat)[i].to <= i
<1>0. Len(base) \in Nat \ {0} /\ MaxPlayed \in Nat \ {0} /\ MaxRepeat \in Nat \ {0}
  BY LimitsAreNatural DEF IsLegal
<1>1. ASSUME NEW i \in 0..Len(base) - 1
      PROVE  /\ LoopOf(repeat, i) \in [to : 0..Len(base) - 1, turns : Nat]
             /\ GoesBack(repeat) => LoopOf(repeat, i).to <= i
  <2>1. CASE OwnOf(repeat, i) = {}
    <3>1. LoopOf(repeat, i) = [to |-> i, turns |-> 0]
      BY <2>1, LoopOfFirst
    <3> QED
      BY <3>1
  <2>2. CASE OwnOf(repeat, i) # {}
    <3> DEFINE k == FirstOf(repeat, i)
               r == repeat[k]
    <3>1. k \in DOMAIN repeat /\ r.from = i /\ r \in LoopEntries
      BY <2>2, FirstIsOwn DEF IsLegal
    <3>2. r.to < Len(base) /\ r.times \in -1..MaxRepeat /\ (GoesBack(repeat) => r.to <= i)
      BY <3>1 DEF IsLegal, GoesBack
    <3>3. LoopOf(repeat, i) = [to |-> r.to, turns |-> Plays(r) - 1]
      BY <2>2, LoopOfFirst
    <3> HIDE DEF r
    <3>4. Plays(r) - 1 \in Nat
      <4>1. CASE r.times = -1
        BY <1>0, <4>1 DEF Plays, INFINITE
      <4>2. CASE r.times = 0
        BY <1>0, <4>2 DEF Plays, INFINITE
      <4>3. CASE r.times \in 1..MaxRepeat
        BY <1>0, <4>3 DEF Plays, INFINITE
      <4> QED
        BY <1>0, <3>2, <4>1, <4>2, <4>3
    <3>5. r.to \in 0..Len(base) - 1
      BY <1>0, <3>1, <3>2 DEF LoopEntries
    <3> QED
      BY <3>2, <3>3, <3>4, <3>5
  <2> QED
    BY <2>1, <2>2
<1> QED
  BY <1>1 DEF LoopsOf, Loops

-----------------------------------------------------------------------------
(* One tick of a scenery                                                   *)

IsScenery(e) ==
  /\ e \in [index : Nat, tickCount : Nat, base : Seq(Entries), repeat : Seq(LoopEntries)]
  /\ IsLegal(e.base, e.repeat)
Moved(e, index, tickCount, repeat) ==
  [index |-> index, tickCount |-> tickCount, base |-> e.base, repeat |-> repeat]

OwnFirst(e) == e.repeat[FirstOf(e.repeat, e.index)]
HasOwn(e) == OwnOf(e.repeat, e.index) # {}
WithCounter(e, c) == [e.repeat EXCEPT ![FirstOf(e.repeat, e.index)].counter = c]
IsThrough(e) ==
  HasOwn(e) => OwnFirst(e).times # INFINITE /\ OwnFirst(e).times = OwnFirst(e).counter + 1
\* The loops after an entry that is through, and after another turn.
Reset(e) == IF HasOwn(e) THEN WithCounter(e, 0) ELSE e.repeat
Turned(e) ==
  IF OwnFirst(e).times = INFINITE THEN e.repeat ELSE WithCounter(e, Counted(OwnFirst(e).counter))

MovedTo(m, x, y) == [m EXCEPT !.index = x, !.tickCount = y]

\* A record is its fields; the prover sees it one field at a time.
LEMMA MovedOn ==
  ASSUME NEW e, NEW i, NEW t, NEW r, NEW x, NEW y
  PROVE  MovedTo(Moved(e, i, t, r), x, y) = Moved(e, x, y, r)
<1>1. ASSUME NEW A, NEW B, NEW C, NEW D,
             NEW m \in [index : A, tickCount : B, base : C, repeat : D]
      PROVE  m = [index |-> m.index, tickCount |-> m.tickCount, base |-> m.base,
                  repeat |-> m.repeat]
  OBVIOUS
<1> DEFINE m == Moved(e, i, t, r)
           s == [m EXCEPT !.index = x, !.tickCount = y]
<1>2. m \in [index : {i}, tickCount : {t}, base : {e.base}, repeat : {r}]
  BY DEF Moved
<1>3. m.base = e.base /\ m.repeat = r
  BY DEF Moved
<1> HIDE DEF m
<1>4. s \in [index : {x}, tickCount : {y}, base : {e.base}, repeat : {r}]
  BY <1>2
<1>5. s.index = x
  BY <1>2
<1>6. s.tickCount = y /\ s.base = e.base
  BY <1>2, <1>3
<1>7. s.repeat = r
  BY <1>2, <1>3
<1> HIDE DEF s
<1>8. s = [index |-> x, tickCount |-> y, base |-> e.base, repeat |-> r]
  BY <1>1, <1>4, <1>5, <1>6, <1>7
<1> QED
  BY <1>8 DEF m, s, Moved, MovedTo

\* The two ways to go on are a move of the index.
LEMMA ForwardIs == ASSUME NEW e PROVE Forward(e) = MovedTo(e, (e.index + 1) % (Longest + 1), 0)
  BY Zenon DEF Forward, MovedTo
LEMMA JumpIs == ASSUME NEW e, NEW to PROVE Jump(e, to) = MovedTo(e, to, e.base[to + 1].ticks)
  BY Zenon DEF Jump, MovedTo

\* The three outcomes of a tick, each with the loops it leaves.
LEMMA TickedIs ==
  ASSUME NEW e, IsScenery(e), e.index < Len(e.base)
  PROVE  /\ e.tickCount < e.base[e.index + 1].ticks =>
              Ticked(e) = Moved(e, e.index, e.tickCount + 1, e.repeat)
         /\ ~(e.tickCount < e.base[e.index + 1].ticks) /\ IsThrough(e) =>
              Ticked(e) = Moved(e, (e.index + 1) % (Longest + 1), 0, Reset(e))
         /\ ~(e.tickCount < e.base[e.index + 1].ticks) /\ ~IsThrough(e) =>
              Ticked(e) = Moved(e, OwnFirst(e).to, e.base[OwnFirst(e).to + 1].ticks, Turned(e))
<1> DEFINE c == [e EXCEPT !.tickCount = e.tickCount + 1]
           f == FirstOf(e.repeat, e.index)
<1>1. /\ e.index \in Nat /\ e.tickCount \in Nat /\ e.repeat \in Seq(LoopEntries)
      /\ e \in [index : Nat, tickCount : Nat, base : Seq(Entries), repeat : Seq(LoopEntries)]
      /\ e.index \in 0..Len(e.base) - 1
  BY DEF IsScenery
<1>2. e.base[e.index + 1].ticks \in Nat
  BY <1>1, StayType DEF IsScenery
<1>3. c = Moved(e, e.index, e.tickCount + 1, e.repeat)
  BY <1>1 DEF Moved
<1>4. /\ c.tickCount = e.tickCount + 1 /\ c.base = e.base /\ c.repeat = e.repeat
      /\ c.index = e.index
  BY <1>3 DEF Moved
<1> HIDE DEF c
<1>5. Ticked(e) = IF e.tickCount + 1 <= e.base[e.index + 1].ticks THEN c ELSE Advance(c)
  BY <1>4 DEF Ticked, c
<1>6. FindRepeatPoint(c) = IF HasOwn(e) THEN f ELSE 0
  BY <1>1, <1>4, FindsFirst DEF HasOwn
<1>7. HasOwn(e) => f \in DOMAIN e.repeat /\ f # 0
  BY <1>1, FirstIsOwn DEF HasOwn
<1>8. CASE e.tickCount < e.base[e.index + 1].ticks
  BY <1>1, <1>2, <1>3, <1>5, <1>8
<1>9. CASE ~(e.tickCount < e.base[e.index + 1].ticks)
  <2>1. Ticked(e) = Advance(c)
    BY <1>1, <1>2, <1>5, <1>9
  <2>2. CASE ~HasOwn(e)
    <3>1. Advance(c) = Forward(c) /\ IsThrough(e) /\ Reset(e) = e.repeat
      BY <1>6, <2>2 DEF Advance, IsThrough, Reset
    <3>2. Forward(c) = Moved(e, (e.index + 1) % (Longest + 1), 0, e.repeat)
      BY <1>3, <1>4, MovedOn, ForwardIs
    <3> QED
      BY <1>9, <2>1, <3>1, <3>2
  <2>3. CASE HasOwn(e)
    <3> DEFINE r == OwnFirst(e)
    <3>1. FindRepeatPoint(c) = f /\ f # 0 /\ c.repeat[f] = r /\ f \in DOMAIN e.repeat
      BY <1>4, <1>6, <1>7, <2>3 DEF OwnFirst
    <3> HIDE DEF r, f
    <3>2. CASE r.times = INFINITE
      <4>1. Advance(c) = Jump(c, r.to) /\ ~IsThrough(e) /\ Turned(e) = e.repeat
        <5>1. ~IsThrough(e) /\ Turned(e) = e.repeat
          BY <2>3, <3>2 DEF IsThrough, Turned, r
        <5>2. Advance(c) = Jump(c, c.repeat[f].to)
          BY <3>1, <3>2, Zenon DEF Advance
        <5> QED
          BY <3>1, <5>1, <5>2
      <4>2. Jump(c, r.to) = Moved(e, r.to, e.base[r.to + 1].ticks, e.repeat)
        BY <1>3, <1>4, MovedOn, JumpIs
      <4> QED
        BY <1>9, <2>1, <4>1, <4>2 DEF r
    <3>3. CASE r.times # INFINITE /\ r.times = r.counter + 1
      <4>1. /\ Advance(c) = Forward([c EXCEPT !.repeat[f].counter = 0]) /\ IsThrough(e)
            /\ Reset(e) = WithCounter(e, 0)
        BY <2>3, <3>1, <3>3 DEF Advance, IsThrough, Reset, r
      <4>2. [c EXCEPT !.repeat[f].counter = 0] = Moved(e, e.index, e.tickCount + 1, WithCounter(e, 0))
        BY <1>3 DEF Moved, WithCounter, f
      <4>3. Forward(Moved(e, e.index, e.tickCount + 1, WithCounter(e, 0)))
              = Moved(e, (e.index + 1) % (Longest + 1), 0, WithCounter(e, 0))
        <5>1. Moved(e, e.index, e.tickCount + 1, WithCounter(e, 0)).index = e.index
          BY DEF Moved
        <5> QED
          BY <5>1, MovedOn, ForwardIs
      <4> QED
        BY <1>9, <2>1, <4>1, <4>2, <4>3
    <3>4. CASE r.times # INFINITE /\ r.times # r.counter + 1
      <4> DEFINE w == WithCounter(e, Counted(r.counter))
      <4>1. /\ Advance(c) = Jump([c EXCEPT !.repeat[f].counter = Counted(r.counter)], r.to)
            /\ ~IsThrough(e) /\ Turned(e) = w
        BY <2>3, <3>1, <3>4 DEF Advance, IsThrough, Turned, r
      <4>2. [c EXCEPT !.repeat[f].counter = Counted(r.counter)]
              = Moved(e, e.index, e.tickCount + 1, w)
        BY <1>3 DEF Moved, WithCounter, f
      <4> HIDE DEF w
      <4>3. Jump(Moved(e, e.index, e.tickCount + 1, w), r.to)
              = Moved(e, r.to, e.base[r.to + 1].ticks, w)
        <5>1. Moved(e, e.index, e.tickCount + 1, w).base = e.base
          BY DEF Moved
        <5> QED
          BY <5>1, MovedOn, JumpIs
      <4> QED
        BY <1>9, <2>1, <4>1, <4>2, <4>3 DEF r
    <3> QED
      BY <3>2, <3>3, <3>4
  <2> QED
    BY <2>2, <2>3
<1> QED
  BY <1>8, <1>9

\* The loops keep their places; the first loop of the entry has the new count.
LEMMA WithCounterIs ==
  ASSUME NEW e, e.repeat \in Seq(LoopEntries), HasOwn(e), NEW c \in Int
  PROVE  /\ WithCounter(e, c) \in Seq(LoopEntries)
         /\ SameLoops(WithCounter(e, c), e.repeat)
         /\ \A k \in DOMAIN e.repeat : k # FirstOf(e.repeat, e.index) =>
               WithCounter(e, c)[k] = e.repeat[k]
         /\ WithCounter(e, c)[FirstOf(e.repeat, e.index)] = [OwnFirst(e) EXCEPT !.counter = c]
<1> DEFINE f == FirstOf(e.repeat, e.index)
           w == WithCounter(e, c)
<1>1. f \in DOMAIN e.repeat /\ OwnFirst(e) = e.repeat[f] /\ OwnFirst(e) \in LoopEntries
  BY FirstIsOwn DEF HasOwn, OwnFirst
<1>2. w = [e.repeat EXCEPT ![f] = [OwnFirst(e) EXCEPT !.counter = c]]
  BY <1>1 DEF WithCounter
<1>3. [OwnFirst(e) EXCEPT !.counter = c] \in LoopEntries
  BY <1>1 DEF LoopEntries
<1> HIDE DEF f, w
<1>4. w \in Seq(LoopEntries) /\ DOMAIN w = DOMAIN e.repeat
  BY <1>1, <1>2, <1>3
<1>5. \A k \in DOMAIN e.repeat : k # f => w[k] = e.repeat[k]
  BY <1>2
<1>6. w[f] = [OwnFirst(e) EXCEPT !.counter = c]
  BY <1>1, <1>2
<1>7. w[f].from = e.repeat[f].from /\ w[f].to = e.repeat[f].to /\ w[f].times = e.repeat[f].times
  BY <1>1, <1>6 DEF LoopEntries
<1>8. SameLoops(w, e.repeat)
  BY <1>4, <1>5, <1>7 DEF SameLoops
<1> QED
  BY <1>4, <1>5, <1>6, <1>8 DEF f, w

\* Only the count of the loop of the entry may be another.
CountsOn(e, r) ==
  /\ r \in Seq(LoopEntries) /\ SameLoops(r, e.repeat)
  /\ \A k \in DOMAIN e.repeat : e.repeat[k].from # e.index => r[k] = e.repeat[k]

\* No outcome of a tick changes another loop than that of the entry.
LEMMA LoopsCountOn ==
  ASSUME NEW e, IsScenery(e)
  PROVE  /\ CountsOn(e, e.repeat) /\ CountsOn(e, Reset(e))
         /\ ~IsThrough(e) => CountsOn(e, Turned(e))
<1>1. e.repeat \in Seq(LoopEntries) /\ CountsOn(e, e.repeat) /\ MaxRepeat \in Nat
  BY LimitsAreNatural DEF IsScenery, SameLoops, CountsOn
<1>2. HasOwn(e) => OwnFirst(e) \in LoopEntries
  BY <1>1, FirstIsOwn DEF HasOwn, OwnFirst
<1>3. HasOwn(e) => Counted(OwnFirst(e).counter) \in Int
  BY <1>1, <1>2 DEF Counted, LoopEntries
<1>4. ~IsThrough(e) => HasOwn(e)
  BY DEF IsThrough
<1>5. ASSUME NEW c \in Int, HasOwn(e) PROVE CountsOn(e, WithCounter(e, c))
  <2>1. e.repeat[FirstOf(e.repeat, e.index)].from = e.index
    BY <1>1, <1>5, FirstIsOwn DEF HasOwn
  <2>2. \A k \in DOMAIN e.repeat : k # FirstOf(e.repeat, e.index) =>
           WithCounter(e, c)[k] = e.repeat[k]
    BY <1>1, <1>5, WithCounterIs
  <2>3. WithCounter(e, c) \in Seq(LoopEntries) /\ SameLoops(WithCounter(e, c), e.repeat)
    BY <1>1, <1>5, WithCounterIs
  <2> QED
    BY <2>1, <2>2, <2>3 DEF CountsOn
<1>6. CountsOn(e, Reset(e))
  BY <1>1, <1>5 DEF Reset
<1>7. ~IsThrough(e) => CountsOn(e, Turned(e))
  BY <1>1, <1>3, <1>4, <1>5 DEF Turned
<1> QED
  BY <1>1, <1>6, <1>7

\* A scenery moved stays one, with the loops of the message.
LEMMA MovedType ==
  ASSUME NEW e, IsScenery(e), NEW i \in Nat, NEW t \in Nat, NEW r \in Seq(LoopEntries),
         SameLoops(r, e.repeat)
  PROVE  /\ IsScenery(Moved(e, i, t, r))
         /\ Moved(e, i, t, r).base = e.base /\ Moved(e, i, t, r).repeat = r
         /\ Moved(e, i, t, r).index = i /\ Moved(e, i, t, r).tickCount = t
         /\ GoesBack(r) <=> GoesBack(e.repeat)
<1>1. e.base \in Seq(Entries) /\ e.repeat \in Seq(LoopEntries) /\ IsLegal(e.base, e.repeat)
  BY DEF IsScenery
<1>2. IsLegal(e.base, r)
  BY <1>1 DEF IsLegal, SameLoops
<1>3. Moved(e, i, t, r)
        \in [index : Nat, tickCount : Nat, base : Seq(Entries), repeat : Seq(LoopEntries)]
  BY <1>1 DEF Moved
<1>4. GoesBack(r) <=> GoesBack(e.repeat)
  BY <1>1, SameLoopsOf
<1>5. /\ Moved(e, i, t, r).base = e.base /\ Moved(e, i, t, r).repeat = r
      /\ Moved(e, i, t, r).index = i /\ Moved(e, i, t, r).tickCount = t
  BY DEF Moved
<1> QED
  BY <1>2, <1>3, <1>4, <1>5 DEF IsScenery

\* Where the loop of an entry goes.
LEMMA FirstLeads ==
  ASSUME NEW e, IsScenery(e), HasOwn(e)
  PROVE  /\ OwnFirst(e) \in LoopEntries /\ OwnFirst(e).from = e.index
         /\ OwnFirst(e).to \in 0..Len(e.base) - 1 /\ OwnFirst(e).times \in -1..MaxRepeat
         /\ GoesBack(e.repeat) => OwnFirst(e).to <= e.index
         /\ e.base[OwnFirst(e).to + 1].ticks \in Nat
<1> DEFINE f == FirstOf(e.repeat, e.index)
<1>1. e.repeat \in Seq(LoopEntries) /\ e.base \in Seq(Entries) /\ IsLegal(e.base, e.repeat)
  BY DEF IsScenery
<1>2. f \in DOMAIN e.repeat /\ OwnFirst(e) = e.repeat[f] /\ OwnFirst(e) \in LoopEntries
      /\ OwnFirst(e).from = e.index
  BY <1>1, FirstIsOwn DEF HasOwn, OwnFirst
<1> HIDE DEF f
<1>3. OwnFirst(e).to < Len(e.base) /\ OwnFirst(e).times \in -1..MaxRepeat
  BY <1>1, <1>2 DEF IsLegal
<1>4. OwnFirst(e).to \in 0..Len(e.base) - 1
  <2>1. Len(e.base) \in Nat
    BY <1>1
  <2>2. OwnFirst(e).to \in Nat
    BY <1>2 DEF LoopEntries
  <2> QED
    BY <1>3, <2>1, <2>2
<1>5. e.base[OwnFirst(e).to + 1].ticks \in Nat
  BY <1>1, <1>4, StayType
<1>6. GoesBack(e.repeat) => OwnFirst(e).to <= e.index
  BY <1>2 DEF GoesBack
<1> QED
  BY <1>2, <1>3, <1>4, <1>5, <1>6

\* A tick leaves a scenery, with the entries and loops of the message.
LEMMA TickedStays ==
  ASSUME NEW e, IsScenery(e), e.index < Len(e.base)
  PROVE  /\ IsScenery(Ticked(e)) /\ Ticked(e).base = e.base
         /\ Ticked(e).repeat \in Seq(LoopEntries) /\ SameLoops(Ticked(e).repeat, e.repeat)
<1>1. /\ e.index \in Nat /\ e.tickCount \in Nat /\ e.repeat \in Seq(LoopEntries)
      /\ SameLoops(e.repeat, e.repeat) /\ Longest \in Nat
  BY LimitsAreNatural DEF IsScenery, SameLoops
<1>2. (e.index + 1) % (Longest + 1) \in Nat
  BY <1>1
<1>3. CASE e.tickCount < e.base[e.index + 1].ticks
  <2>1. Ticked(e) = Moved(e, e.index, e.tickCount + 1, e.repeat) /\ e.tickCount + 1 \in Nat
    BY <1>1, <1>3, TickedIs
  <2> QED
    BY <1>1, <2>1, MovedType
<1>4. CASE ~(e.tickCount < e.base[e.index + 1].ticks) /\ IsThrough(e)
  <2>1. Ticked(e) = Moved(e, (e.index + 1) % (Longest + 1), 0, Reset(e))
    BY <1>4, TickedIs
  <2>2. Reset(e) \in Seq(LoopEntries) /\ SameLoops(Reset(e), e.repeat) /\ 0 \in Nat
    BY LoopsCountOn DEF CountsOn
  <2> QED
    BY <1>2, <2>1, <2>2, MovedType
<1>5. CASE ~(e.tickCount < e.base[e.index + 1].ticks) /\ ~IsThrough(e)
  <2>1. Ticked(e) = Moved(e, OwnFirst(e).to, e.base[OwnFirst(e).to + 1].ticks, Turned(e))
    BY <1>5, TickedIs
  <2>2. Turned(e) \in Seq(LoopEntries) /\ SameLoops(Turned(e), e.repeat)
    BY <1>5, LoopsCountOn DEF CountsOn
  <2>3. HasOwn(e)
    BY <1>5 DEF IsThrough
  <2>4. OwnFirst(e).to \in Nat /\ e.base[OwnFirst(e).to + 1].ticks \in Nat
    <3>1. OwnFirst(e) \in LoopEntries
      BY <2>3, FirstLeads
    <3> QED
      BY <2>3, <3>1, FirstLeads DEF LoopEntries
  <2> DEFINE to == OwnFirst(e).to
             t == e.base[OwnFirst(e).to + 1].ticks
             r == Turned(e)
  <2>5. to \in Nat /\ t \in Nat /\ r \in Seq(LoopEntries) /\ SameLoops(r, e.repeat)
    BY <2>2, <2>4
  <2>6. Ticked(e) = Moved(e, to, t, r)
    BY <2>1
  <2> HIDE DEF to, t, r
  <2> QED
    BY <2>5, <2>6, MovedType
<1> QED
  BY <1>3, <1>4, <1>5

-----------------------------------------------------------------------------
(* The turns a loop has left                                               *)

\* Counters and turns. A loop without an end has turns for the rest of what is
\* remembered.
Owed(r) ==
  IF r.times # 0 THEN r.times - 1 - r.counter
  ELSE IF r.counter >= 0 THEN 2 * MaxRepeat + 1 - r.counter ELSE -1 - r.counter
CounterFits(r) ==
  r.counter \in (IF r.times = 0 THEN -MaxRepeat - 1..MaxRepeat ELSE 0..r.times - 1)
LeftFits(repeat, left, j, sent) ==
  IF OwnOf(repeat, j) = {} THEN left = 0
  ELSE LET r == repeat[FirstOf(repeat, j)]
       IN  IF r.times = INFINITE THEN left + sent >= MaxPlayed - 1
           ELSE CounterFits(r) /\ left = Owed(r)

\* The loops before an entry have not begun, or begin anew.
Untouched(repeat, i) ==
  \A j \in 0..i - 1 : OwnOf(repeat, j) # {} => repeat[FirstOf(repeat, j)].counter = 0

\* A loop whose counter is 0 has all its turns left.
LEMMA FreshFits ==
  ASSUME NEW base, NEW repeat, IsLegal(base, repeat), NEW j \in 0..Len(base) - 1, NEW sent \in Nat,
         OwnOf(repeat, j) # {} => repeat[FirstOf(repeat, j)].counter = 0
  PROVE  LeftFits(repeat, LoopsOf(base, repeat)[j].turns, j, sent)
<1>1. MaxPlayed \in Nat \ {0} /\ MaxRepeat \in Nat \ {0}
  BY LimitsAreNatural
<1>2. LoopsOf(base, repeat)[j] = LoopOf(repeat, j)
  BY DEF LoopsOf
<1>3. CASE OwnOf(repeat, j) = {}
  BY <1>2, <1>3, LoopOfFirst DEF LeftFits
<1>4. CASE OwnOf(repeat, j) # {}
  <2> DEFINE f == FirstOf(repeat, j)
             r == repeat[f]
  <2>1. f \in DOMAIN repeat /\ r.counter = 0
    BY <1>4, FirstIsOwn DEF IsLegal
  <2>2. r.times \in -1..MaxRepeat
    BY <2>1 DEF IsLegal
  <2>3. LoopsOf(base, repeat)[j].turns = Plays(r) - 1
    BY <1>2, <1>4, LoopOfFirst
  <2> HIDE DEF r
  <2>4. CASE r.times = INFINITE
    <3>1. Plays(r) - 1 + sent >= MaxPlayed - 1
      <4>1. Plays(r) = MaxPlayed
        BY <2>4 DEF Plays, INFINITE
      <4> QED
        BY <1>1, <4>1
    <3> QED
      BY <1>4, <2>3, <2>4, <3>1 DEF LeftFits, r
  <2>5. CASE r.times # INFINITE
    <3>1. r.times \in 0..MaxRepeat
      BY <1>1, <2>2, <2>5 DEF INFINITE
    <3>2. CounterFits(r) /\ Plays(r) - 1 = Owed(r)
      <4>1. CASE r.times = 0
        BY <1>1, <2>1, <4>1 DEF CounterFits, Owed, Plays, INFINITE
      <4>2. CASE r.times # 0
        BY <1>1, <2>1, <3>1, <4>2 DEF CounterFits, Owed, Plays, INFINITE
      <4> QED
        BY <4>1, <4>2
    <3> QED
      BY <1>4, <2>3, <2>5, <3>2 DEF LeftFits, r
  <2> QED
    BY <2>4, <2>5
<1> QED
  BY <1>3, <1>4

\* An entry is through when its loop has no turn left, but for a loop without
\* an end; otherwise one turn fewer is left.
LEMMA TurnsLeft ==
  ASSUME NEW r \in LoopEntries, r.times \in -1..MaxRepeat, r.times # INFINITE, CounterFits(r)
  PROVE  /\ Owed(r) \in Nat
         /\ Owed(r) = 0 <=> r.times = r.counter + 1
         /\ r.times # r.counter + 1 =>
              LET s == [r EXCEPT !.counter = Counted(r.counter)]
              IN  CounterFits(s) /\ Owed(s) = Owed(r) - 1
<1>1. MaxRepeat \in Nat \ {0} /\ r.times \in 0..MaxRepeat
  BY LimitsAreNatural DEF INFINITE
<1>2. r.counter \in Int
  BY DEF LoopEntries
<1> DEFINE s == [r EXCEPT !.counter = Counted(r.counter)]
<1>3. s.times = r.times /\ s.counter = Counted(r.counter)
  BY DEF LoopEntries
<1> HIDE DEF s
<1>4. CASE r.times = 0
  <2>1. r.counter \in -MaxRepeat - 1..MaxRepeat
    BY <1>4 DEF CounterFits
  <2>2. Owed(r) \in Nat /\ (Owed(r) = 0 <=> r.times = r.counter + 1)
    BY <1>1, <1>4, <2>1 DEF Owed
  <2>3. r.times # r.counter + 1 => CounterFits(s) /\ Owed(s) = Owed(r) - 1
    <3>1. CASE r.counter = MaxRepeat
      BY <1>1, <1>3, <1>4, <3>1 DEF CounterFits, Owed, Counted
    <3>2. CASE r.counter # MaxRepeat
      BY <1>1, <1>3, <1>4, <2>1, <3>2 DEF CounterFits, Owed, Counted
    <3> QED
      BY <3>1, <3>2
  <2> QED
    BY <2>2, <2>3 DEF s
<1>5. CASE r.times # 0
  <2>1. r.counter \in 0..r.times - 1
    BY <1>5 DEF CounterFits
  <2>2. Owed(r) \in Nat /\ (Owed(r) = 0 <=> r.times = r.counter + 1)
    BY <1>1, <1>5, <2>1 DEF Owed
  <2>3. r.times # r.counter + 1 => CounterFits(s) /\ Owed(s) = Owed(r) - 1
    BY <1>1, <1>3, <1>5, <2>1 DEF CounterFits, Owed, Counted
  <2> QED
    BY <2>2, <2>3 DEF s
<1> QED
  BY <1>4, <1>5

-----------------------------------------------------------------------------
(* A scenery on its way through what is written out                        *)

TicksOf(e) == e.base[e.index + 1].ticks
Whole(e) == WrittenOut(e.base, e.repeat)
OnItsWay(e, p) ==
  /\ e.index \in 0..Len(e.base) - 1 /\ e.tickCount \in 0..TicksOf(e)
  /\ Untouched(e.repeat, e.index)
  /\ \E left, g :
        /\ Ahead(e.base, LoopsOf(e.base, e.repeat), left, g, e.index)
        /\ \A j \in e.index..Len(e.base) - 1 : LeftFits(e.repeat, left[j], j, Len(p))
        /\ Whole(e) = Then(p, Then(Repeated(TicksOf(e) - e.tickCount + 1, <<e.index>>), g[e.index]))
Follows(e, p) ==
  /\ p \in Seq(Nat) /\ Len(p) <= MaxPlayed /\ IsPrefix(p, Whole(e))
  /\ Len(p) < MaxPlayed => IF e.index = Len(e.base) THEN p = Whole(e) ELSE OnItsWay(e, p)

\* What is sent is a beginning of all, and a tick adds one index.
LEMMA PrefixOf == ASSUME NEW p \in Seq(Nat), NEW s \in Seq(Nat) PROVE IsPrefix(p, Then(p, s))
  BY DEF IsPrefix, Then

\* What is sent by one tick goes to the end of what was sent.
LEMMA Sent ==
  ASSUME NEW p \in Seq(Nat), NEW i \in Nat
  PROVE  /\ Append(p, i) \in Seq(Nat) /\ Len(Append(p, i)) = Len(p) + 1
         /\ Append(p, i) = Then(p, <<i>>) /\ <<i>> \in Seq(Nat)
  BY DEF Then

\* The rest of the time of an entry, and its last tick.
LEMMA RestOfStay ==
  ASSUME NEW i \in Nat, NEW m \in Nat, NEW s \in Seq(Nat)
  PROVE  Then(Repeated(m, <<i>>), s) \in Seq(Nat)
<1>1. <<i>> \in Seq(Nat)
  OBVIOUS
<1> DEFINE r == Repeated(m, <<i>>)
<1>2. r \in Seq(Nat)
  BY <1>1, RepeatedType
<1> HIDE DEF r
<1>3. Then(r, s) \in Seq(Nat)
  BY <1>2, ThenIsASequence
<1> QED
  BY <1>3 DEF r

\* An entry whose ticks are used up adds nothing more.
LEMMA LastTick ==
  ASSUME NEW i \in Nat, NEW s \in Seq(Nat)
  PROVE  Then(Repeated(0, <<i>>), s) = s /\ Repeated(1, <<i>>) = <<i>>
<1> DEFINE o == <<i>>
<1>1. o \in Seq(Nat)
  OBVIOUS
<1> HIDE DEF o
<1>2. Repeated(0, o) = << >>
  BY <1>1, RepeatedNever
<1>3. Repeated(0 + 1, o) = Then(o, Repeated(0, o))
  BY <1>1, RepeatedOnce DEF Then
<1>4. Then(o, Repeated(0, o)) = o
  BY <1>1, <1>2, ThenNothing
<1>5. Then(Repeated(0, o), s) = s
  BY <1>2, ThenNothing
<1> QED
  BY <1>3, <1>4, <1>5 DEF o

\* A tick sends the entry; what follows is the rest of its time.
LEMMA SentOne ==
  ASSUME NEW p \in Seq(Nat), NEW i \in Nat, NEW m \in Nat, NEW s \in Seq(Nat)
  PROVE  Then(p, Then(Repeated(m + 1, <<i>>), s)) = Then(Append(p, i), Then(Repeated(m, <<i>>), s))
<1> DEFINE o == <<i>>
           r == Repeated(m, o)
<1>1. o \in Seq(Nat) /\ Append(p, i) = Then(p, o)
  BY Sent
<1>2. r \in Seq(Nat)
  BY <1>1, RepeatedType
<1>3. Repeated(m + 1, o) = Then(o, r)
  BY <1>1, RepeatedOnce DEF Then
<1> HIDE DEF r, o
<1>4. Then(r, s) \in Seq(Nat) /\ Then(Then(o, r), s) = Then(o, Then(r, s))
  BY <1>1, <1>2, ThenIsASequence, ThenGroups
<1>5. Then(p, Then(o, Then(r, s))) = Then(Then(p, o), Then(r, s))
  BY <1>1, <1>4, ThenGroups
<1> QED
  BY <1>1, <1>3, <1>4, <1>5 DEF o, r

\* The turns of the other loops are left as they were.
LEMMA OthersFit ==
  ASSUME NEW e, IsScenery(e), NEW r, CountsOn(e, r), NEW j, j # e.index
  PROVE  /\ OwnOf(r, j) = OwnOf(e.repeat, j)
         /\ OwnOf(r, j) # {} => r[FirstOf(r, j)] = e.repeat[FirstOf(e.repeat, j)]
         /\ \A left, sent : LeftFits(r, left, j, sent) <=> LeftFits(e.repeat, left, j, sent)
<1>1. r \in Seq(LoopEntries) /\ e.repeat \in Seq(LoopEntries) /\ SameLoops(r, e.repeat)
  BY DEF CountsOn, IsScenery
<1>2. OwnOf(r, j) = OwnOf(e.repeat, j) /\ FirstOf(r, j) = FirstOf(e.repeat, j)
  BY <1>1, SameLoopsOf
<1>3. OwnOf(r, j) # {} => r[FirstOf(r, j)] = e.repeat[FirstOf(e.repeat, j)]
  <2> SUFFICES ASSUME OwnOf(r, j) # {} PROVE r[FirstOf(r, j)] = e.repeat[FirstOf(e.repeat, j)]
    OBVIOUS
  <2> DEFINE f == FirstOf(e.repeat, j)
  <2>1. f \in DOMAIN e.repeat /\ e.repeat[f].from = j
    BY <1>1, <1>2, FirstIsOwn
  <2> HIDE DEF f
  <2>2. r[f] = e.repeat[f]
    BY <2>1 DEF CountsOn
  <2> QED
    BY <1>2, <2>2 DEF f
<1> QED
  BY <1>2, <1>3, Zenon DEF LeftFits

\* Turns left are enough after one more tick.
LEMMA FitsOn ==
  ASSUME NEW repeat, NEW left \in Nat, NEW j, NEW sent \in Nat, LeftFits(repeat, left, j, sent)
  PROVE  LeftFits(repeat, left, j, sent + 1)
  BY LimitsAreNatural DEF LeftFits

\* What is written out does not change with the place of the scenery.
LEMMA SameWhole ==
  ASSUME NEW e, IsScenery(e), NEW i, NEW t, NEW r, CountsOn(e, r)
  PROVE  /\ Whole(Moved(e, i, t, r)) = Whole(e) /\ LoopsOf(e.base, r) = LoopsOf(e.base, e.repeat)
         /\ Moved(e, i, t, r).base = e.base /\ Moved(e, i, t, r).repeat = r
         /\ Moved(e, i, t, r).index = i /\ Moved(e, i, t, r).tickCount = t
<1>1. r \in Seq(LoopEntries) /\ e.repeat \in Seq(LoopEntries) /\ SameLoops(r, e.repeat)
  BY DEF CountsOn, IsScenery
<1>2. /\ Moved(e, i, t, r).base = e.base /\ Moved(e, i, t, r).repeat = r
      /\ Moved(e, i, t, r).index = i /\ Moved(e, i, t, r).tickCount = t
  BY DEF Moved
<1>3. WrittenOut(e.base, r) = WrittenOut(e.base, e.repeat)
      /\ LoopsOf(e.base, r) = LoopsOf(e.base, e.repeat)
  BY <1>1, SameLoopsOf
<1> QED
  BY <1>2, <1>3 DEF Whole

\* What is ahead is made of sequences of indexes.
LEMMA AheadType ==
  ASSUME NEW base \in Seq(Entries), NEW loops, NEW left, NEW g, NEW i \in 0..Len(base) - 1,
         Ahead(base, loops, left, g, i)
  PROVE  /\ g[i] \in Seq(Nat) /\ \A j \in 0..Len(base) - 1 : left[j] \in Nat
         /\ g \in Row(Len(base))
<1>1. g \in Row(Len(base)) /\ left \in [0..Len(base) - 1 -> Nat]
  BY DEF Ahead
<1>2. g[i] \in Seq(Nat)
  BY <1>1 DEF Row
<1> QED
  BY <1>1, <1>2

\* The entry has more ticks to go.
LEMMA StayFollows ==
  ASSUME NEW e, IsScenery(e), NEW p \in Seq(Nat), Len(p) < MaxPlayed, OnItsWay(e, p),
         e.tickCount < TicksOf(e)
  PROVE  Follows(Moved(e, e.index, e.tickCount + 1, e.repeat), Append(p, e.index))
<1> DEFINE i == e.index
           n == Len(e.base)
           m == TicksOf(e) - e.tickCount
           q == Append(p, i)
           x == Moved(e, i, e.tickCount + 1, e.repeat)
<1>1. PICK left, g :
        /\ Ahead(e.base, LoopsOf(e.base, e.repeat), left, g, i)
        /\ \A j \in i..n - 1 : LeftFits(e.repeat, left[j], j, Len(p))
        /\ Whole(e) = Then(p, Then(Repeated(TicksOf(e) - e.tickCount + 1, <<i>>), g[i]))
  BY DEF OnItsWay
<1>2. /\ i \in 0..n - 1 /\ e.tickCount \in 0..TicksOf(e) /\ e.base \in Seq(Entries)
      /\ Untouched(e.repeat, i) /\ TicksOf(e) \in Nat
  <2>1. i \in 0..n - 1 /\ e.base \in Seq(Entries)
    BY DEF OnItsWay, IsScenery
  <2> QED
    BY <2>1, StayType DEF OnItsWay, TicksOf
<1>3. m \in Nat /\ e.tickCount + 1 \in 0..TicksOf(e) /\ i \in Nat
  BY <1>2
<1>4. g[i] \in Seq(Nat) /\ \A j \in 0..n - 1 : left[j] \in Nat
  BY <1>1, <1>2, AheadType
<1>5. /\ Whole(x) = Whole(e) /\ x.base = e.base /\ x.repeat = e.repeat /\ x.index = i
      /\ x.tickCount = e.tickCount + 1
  BY LoopsCountOn, SameWhole
<1>6. q \in Seq(Nat) /\ Len(q) = Len(p) + 1
  BY <1>3, Sent
<1> HIDE DEF x, q, m
<1>7. Whole(e) = Then(q, Then(Repeated(m, <<i>>), g[i])) /\ Then(Repeated(m, <<i>>), g[i]) \in Seq(Nat)
  <2> DEFINE s == g[i]
  <2>1. TicksOf(e) - e.tickCount + 1 = m + 1 /\ i \in Nat /\ m \in Nat
    BY <1>3 DEF m
  <2>2. s \in Seq(Nat) /\ Whole(e) = Then(p, Then(Repeated(m + 1, <<i>>), s))
    BY <1>1, <1>4, <2>1
  <2> HIDE DEF s, i
  <2>3. Then(p, Then(Repeated(m + 1, <<i>>), s)) = Then(Append(p, i), Then(Repeated(m, <<i>>), s))
    BY <2>1, <2>2, SentOne
  <2>4. Then(Repeated(m, <<i>>), s) \in Seq(Nat)
    BY <2>1, <2>2, RestOfStay
  <2> QED
    BY <2>2, <2>3, <2>4 DEF s, q
<1>8. IsPrefix(q, Whole(x))
  BY <1>5, <1>6, <1>7, PrefixOf
<1>9. TicksOf(x) = TicksOf(e) /\ TicksOf(x) - x.tickCount + 1 = m
  BY <1>2, <1>5 DEF TicksOf, m
<1>10. \A j \in i..n - 1 : LeftFits(e.repeat, left[j], j, Len(q))
  <2>1. ASSUME NEW j \in i..n - 1 PROVE LeftFits(e.repeat, left[j], j, Len(p) + 1)
    BY <1>1, <1>2, <1>4, FitsOn
  <2> QED
    BY <1>6, <2>1
<1>11. OnItsWay(x, q)
  <2>1. Ahead(x.base, LoopsOf(x.base, x.repeat), left, g, x.index)
    BY <1>1, <1>5
  <2>2. \A j \in x.index..Len(x.base) - 1 : LeftFits(x.repeat, left[j], j, Len(q))
    BY <1>5, <1>10
  <2>3. Whole(x) = Then(q, Then(Repeated(TicksOf(x) - x.tickCount + 1, <<x.index>>), g[x.index]))
    BY <1>5, <1>7, <1>9
  <2>4. /\ x.index \in 0..Len(x.base) - 1 /\ x.tickCount \in 0..TicksOf(x)
        /\ Untouched(x.repeat, x.index)
    BY <1>2, <1>3, <1>5, <1>9
  <2> QED
    BY <2>1, <2>2, <2>3, <2>4 DEF OnItsWay
<1>12. x.index # Len(x.base) /\ Len(q) <= MaxPlayed
  BY <1>2, <1>5, <1>6, LimitsAreNatural
<1> QED
  BY <1>6, <1>8, <1>11, <1>12 DEF Follows, x, q

\* The last tick of an entry leaves what is ahead of it.
LEMMA LastSent ==
  ASSUME NEW p \in Seq(Nat), NEW i \in Nat, NEW s \in Seq(Nat), NEW t \in Nat, NEW u \in 0..t, ~(u < t)
  PROVE  Then(p, Then(Repeated(t - u + 1, <<i>>), s)) = Then(Append(p, i), s)
<1>1. t - u + 1 = 0 + 1 /\ 0 \in Nat
  OBVIOUS
<1>2. Then(p, Then(Repeated(0 + 1, <<i>>), s)) = Then(Append(p, i), Then(Repeated(0, <<i>>), s))
  BY <1>1, SentOne
<1>3. Then(Repeated(0, <<i>>), s) = s
  BY LastTick
<1> QED
  BY <1>1, <1>2, <1>3

\* What is known when an entry has had its time.
AtItsEnd(e, p, left, g) ==
  /\ e.index \in 0..Len(e.base) - 1 /\ e.index \in Nat /\ e.base \in Seq(Entries)
  /\ e.tickCount = TicksOf(e)
  /\ Untouched(e.repeat, e.index)
  /\ Ahead(e.base, LoopsOf(e.base, e.repeat), left, g, e.index)
  /\ \A j \in e.index..Len(e.base) - 1 : LeftFits(e.repeat, left[j], j, Len(p))
  /\ \A j \in 0..Len(e.base) - 1 : left[j] \in Nat
  /\ Append(p, e.index) \in Seq(Nat) /\ Len(Append(p, e.index)) = Len(p) + 1
  /\ g[e.index] \in Seq(Nat) /\ g \in Row(Len(e.base))
  /\ Whole(e) = Then(Append(p, e.index), g[e.index])

\* An entry that has had its time has only what is ahead of it to send.
LEMMA EndReached ==
  ASSUME NEW e, IsScenery(e), NEW p \in Seq(Nat), OnItsWay(e, p), ~(e.tickCount < TicksOf(e))
  PROVE  \E left, g : AtItsEnd(e, p, left, g)
<1> DEFINE i == e.index
           n == Len(e.base)
<1>1. PICK left, g :
        /\ Ahead(e.base, LoopsOf(e.base, e.repeat), left, g, i)
        /\ \A j \in i..n - 1 : LeftFits(e.repeat, left[j], j, Len(p))
        /\ Whole(e) = Then(p, Then(Repeated(TicksOf(e) - e.tickCount + 1, <<i>>), g[i]))
  BY DEF OnItsWay
<1>2. i \in 0..n - 1 /\ i \in Nat /\ e.base \in Seq(Entries)
  BY DEF OnItsWay, IsScenery
<1>3. TicksOf(e) \in Nat /\ e.tickCount \in 0..TicksOf(e) /\ Untouched(e.repeat, i)
  BY <1>2, StayType DEF OnItsWay, TicksOf
<1>4. e.tickCount = TicksOf(e)
  BY <1>3
<1>5. /\ g[i] \in Seq(Nat) /\ \A j \in 0..n - 1 : left[j] \in Nat
      /\ g \in Row(n)
  BY <1>1, <1>2, AheadType
<1>6. Append(p, i) \in Seq(Nat) /\ Len(Append(p, i)) = Len(p) + 1
  BY <1>2, Sent
<1>7. Whole(e) = Then(Append(p, i), g[i])
  <2> DEFINE s == g[i]
             t == TicksOf(e)
             u == e.tickCount
  <2>1. s \in Seq(Nat) /\ t \in Nat /\ u \in 0..t /\ ~(u < t) /\ i \in Nat
    BY <1>2, <1>3, <1>5
  <2>2. Whole(e) = Then(p, Then(Repeated(t - u + 1, <<i>>), s))
    BY <1>1
  <2> HIDE DEF s, t, u, i
  <2>3. Then(p, Then(Repeated(t - u + 1, <<i>>), s)) = Then(Append(p, i), s)
    BY <2>1, LastSent
  <2> QED
    BY <2>2, <2>3 DEF s
<1>8. AtItsEnd(e, p, left, g)
  BY <1>1, <1>2, <1>3, <1>4, <1>5, <1>6, <1>7 DEF AtItsEnd
<1> QED
  BY <1>8

\* When the scenery goes on to the next entry no turn is left.
LEMMA NoTurnLeft ==
  ASSUME NEW e, IsScenery(e), NEW p, NEW left, NEW g, AtItsEnd(e, p, left, g), IsThrough(e)
  PROVE  left[e.index] = 0
<1>1. LeftFits(e.repeat, left[e.index], e.index, Len(p))
  <2>1. /\ e.index \in 0..Len(e.base) - 1
        /\ \A j \in e.index..Len(e.base) - 1 : LeftFits(e.repeat, left[j], j, Len(p))
    BY DEF AtItsEnd
  <2>2. e.index \in e.index..Len(e.base) - 1
    BY <2>1
  <2> QED
    BY <2>1, <2>2
<1>2. CASE ~HasOwn(e)
  BY <1>1, <1>2 DEF LeftFits, HasOwn
<1>3. CASE HasOwn(e)
  <2> DEFINE r == OwnFirst(e)
  <2>1. r.times # INFINITE /\ r.times = r.counter + 1
    BY <1>3 DEF IsThrough
  <2>2. CounterFits(r) /\ left[e.index] = Owed(r)
    BY <1>1, <1>3, <2>1 DEF LeftFits, HasOwn, OwnFirst
  <2>3. r \in LoopEntries /\ r.times \in -1..MaxRepeat
    BY <1>3, FirstLeads
  <2> HIDE DEF r
  <2>4. Owed(r) = 0
    BY <2>1, <2>2, <2>3, TurnsLeft
  <2> QED
    BY <2>2, <2>4
<1> QED
  BY <1>2, <1>3

\* The entry is through: the next one begins.
LEMMA ForwardFollows ==
  ASSUME NEW e, IsScenery(e), Len(e.base) <= Longest, NEW p \in Seq(Nat), Len(p) < MaxPlayed,
         OnItsWay(e, p), ~(e.tickCount < TicksOf(e)), IsThrough(e)
  PROVE  Follows(Moved(e, (e.index + 1) % (Longest + 1), 0, Reset(e)), Append(p, e.index))
<1> DEFINE i == e.index
           n == Len(e.base)
           q == Append(p, i)
           r == Reset(e)
           x == Moved(e, (i + 1) % (Longest + 1), 0, r)
           loops == LoopsOf(e.base, e.repeat)
<1>1. PICK left, g : AtItsEnd(e, p, left, g)
  BY EndReached
<1>2. /\ i \in 0..n - 1 /\ i \in Nat /\ n \in Nat /\ e.base \in Seq(Entries) /\ Untouched(e.repeat, i)
      /\ Ahead(e.base, loops, left, g, i)
      /\ \A j \in i..n - 1 : LeftFits(e.repeat, left[j], j, Len(p))
      /\ \A j \in 0..n - 1 : left[j] \in Nat
      /\ q \in Seq(Nat) /\ Len(q) = Len(p) + 1 /\ g \in Row(n) /\ Whole(e) = Then(q, g[i])
      /\ g[i] \in Seq(Nat)
  BY <1>1 DEF AtItsEnd
<1>3. left[i] = 0
  BY <1>1, NoTurnLeft
<1>4. CountsOn(e, r)
  BY LoopsCountOn
<1>5. (i + 1) % (Longest + 1) = i + 1
  <2>1. Longest \in Nat /\ i + 1 \in Nat /\ i + 1 < Longest + 1
    BY <1>2, LimitsAreNatural
  <2> HIDE DEF i
  <2>2. Longest + 1 \in Nat \ {0}
    BY <2>1
  <2> QED
    BY <2>1, <2>2, RoundOfNumbers
<1>6. /\ Whole(x) = Whole(e) /\ LoopsOf(e.base, r) = loops
      /\ x.base = e.base /\ x.repeat = r /\ x.index = i + 1 /\ x.tickCount = 0
  BY <1>4, <1>5, SameWhole
<1>7. g[i] = Beyond(e.base, g, i)
  <2>1. g[i] = Then(Repeated(left[i], TurnAt(e.base, loops, i)), Beyond(e.base, g, i))
    <3>1. i \in i..n - 1
      BY <1>2
    <3> QED
      BY <1>2, <3>1 DEF Ahead
  <2>2. n \in Nat \ {0} /\ loops \in Loops(n)
    BY <1>2, LoopsType DEF IsScenery
  <2>3. TurnAt(e.base, loops, i) \in Seq(Nat) /\ Beyond(e.base, g, i) \in Seq(Nat)
    BY <1>2, <2>2, TurnType, BeyondType DEF BeyondIsASequence
  <2>4. Repeated(left[i], TurnAt(e.base, loops, i)) = << >>
    BY <1>3, <2>3, RepeatedNever
  <2> QED
    BY <2>1, <2>3, <2>4, ThenNothing
<1>8. IsPrefix(q, Whole(x)) /\ Len(q) <= MaxPlayed
  <2>1. Len(p) \in Nat /\ MaxPlayed \in Nat
    BY LimitsAreNatural
  <2>2. IsPrefix(q, Then(q, g[i]))
    BY <1>2, PrefixOf
  <2> QED
    BY <1>2, <1>6, <2>1, <2>2
<1>9. CASE i = n - 1
  <2>1. Whole(e) = q
    BY <1>2, <1>7, <1>9, ThenNothing DEF Beyond
  <2>2. x.index = Len(x.base)
    BY <1>2, <1>6, <1>9
  <2> HIDE DEF x, q
  <2>3. Follows(x, q)
    BY <1>2, <1>6, <1>8, <2>1, <2>2 DEF Follows
  <2> QED
    BY <2>3 DEF x, q
<1>10. CASE i # n - 1
  <2>1. i + 1 \in 0..n - 1 /\ i + 1 # n
    BY <1>2, <1>10
  <2>2. TicksOf(x) = e.base[i + 1 + 1].ticks /\ TicksOf(x) \in Nat
    BY <1>2, <1>6, <2>1, StayType DEF TicksOf
  <2>3. Whole(e) = Then(q, Then(Stay(e.base, i + 1), g[i + 1]))
    BY <1>2, <1>7, <1>10 DEF Beyond
  <2>4. TicksOf(x) - x.tickCount + 1 = TicksOf(x) + 1
    BY <1>6, <2>2
  <2>5. Whole(x) = Then(q, Then(Repeated(TicksOf(x) - x.tickCount + 1, <<x.index>>), g[x.index]))
    BY <1>6, <2>2, <2>3, <2>4 DEF Stay
  <2>6. \A j \in i + 1..n - 1 : LeftFits(r, left[j], j, Len(q))
    <3>1. ASSUME NEW j \in i + 1..n - 1 PROVE LeftFits(r, left[j], j, Len(p) + 1)
      <4>1. LeftFits(e.repeat, left[j], j, Len(p)) /\ left[j] \in Nat /\ j # i
        BY <1>2
      <4>2. LeftFits(e.repeat, left[j], j, Len(p) + 1)
        BY <4>1, FitsOn
      <4> QED
        BY <1>4, <4>1, <4>2, OthersFit
    <3> QED
      BY <1>2, <3>1
  <2>7. Untouched(r, i + 1)
    <3>1. ASSUME NEW j \in 0..i, OwnOf(r, j) # {} PROVE r[FirstOf(r, j)].counter = 0
      <4>1. CASE j # i
        <5>1. /\ OwnOf(r, j) = OwnOf(e.repeat, j)
              /\ r[FirstOf(r, j)] = e.repeat[FirstOf(e.repeat, j)]
          BY <1>4, <3>1, <4>1, OthersFit
        <5>2. j \in 0..i - 1
          BY <1>2, <4>1
        <5> QED
          BY <1>2, <3>1, <5>1, <5>2 DEF Untouched
      <4>2. CASE j = i
        <5>1. e.repeat \in Seq(LoopEntries) /\ r \in Seq(LoopEntries) /\ SameLoops(r, e.repeat)
          BY <1>4 DEF IsScenery, CountsOn
        <5>2. OwnOf(r, i) = OwnOf(e.repeat, i) /\ FirstOf(r, i) = FirstOf(e.repeat, i)
          BY <5>1, SameLoopsOf
        <5>3. HasOwn(e) /\ r = WithCounter(e, 0)
          BY <3>1, <4>2, <5>2 DEF HasOwn, Reset
        <5>4. r[FirstOf(e.repeat, i)] = [OwnFirst(e) EXCEPT !.counter = 0]
          <6>1. 0 \in Int
            OBVIOUS
          <6>2. WithCounter(e, 0)[FirstOf(e.repeat, i)] = [OwnFirst(e) EXCEPT !.counter = 0]
            BY <5>1, <5>3, <6>1, WithCounterIs
          <6> QED
            BY <5>3, <6>2
        <5>5. OwnFirst(e) \in LoopEntries
          BY <5>3, FirstLeads
        <5>6. [OwnFirst(e) EXCEPT !.counter = 0].counter = 0
          BY <5>5 DEF LoopEntries
        <5> QED
          BY <4>2, <5>2, <5>4, <5>6
      <4> QED
        BY <4>1, <4>2
    <3>2. 0..(i + 1) - 1 = 0..i
      BY <1>2
    <3> QED
      BY <3>1, <3>2 DEF Untouched
  <2>8. Ahead(e.base, loops, left, g, i + 1)
    BY <1>2 DEF Ahead
  <2>9. x.tickCount \in 0..TicksOf(x) /\ x.index \in 0..Len(x.base) - 1 /\ x.index # Len(x.base)
    BY <1>6, <2>1, <2>2
  <2> HIDE DEF x, q, r, loops
  <2>10. OnItsWay(x, q)
    <3>1. Ahead(x.base, LoopsOf(x.base, x.repeat), left, g, x.index)
      BY <1>6, <2>8
    <3>2. \A j \in x.index..Len(x.base) - 1 : LeftFits(x.repeat, left[j], j, Len(q))
      BY <1>6, <2>6
    <3>3. Untouched(x.repeat, x.index)
      BY <1>6, <2>7
    <3> QED
      BY <2>5, <2>9, <3>1, <3>2, <3>3 DEF OnItsWay
  <2>11. Follows(x, q)
    BY <1>2, <1>8, <2>9, <2>10 DEF Follows
  <2> QED
    BY <2>11 DEF x, q, r
<1> QED
  BY <1>9, <1>10

\* Another turn is left, and it is one fewer after it.
LEMMA TurnLeft ==
  ASSUME NEW e, IsScenery(e), NEW p \in Seq(Nat), NEW left, NEW g, AtItsEnd(e, p, left, g),
         ~IsThrough(e), Len(p) + 1 < MaxPlayed
  PROVE  left[e.index] > 0 /\ LeftFits(Turned(e), left[e.index] - 1, e.index, Len(p) + 1)
<1> DEFINE i == e.index
           r == OwnFirst(e)
           f == FirstOf(e.repeat, i)
<1>1. /\ HasOwn(e) /\ (r.times = INFINITE \/ (r.times # INFINITE /\ r.times # r.counter + 1))
  BY DEF IsThrough
<1>2. r \in LoopEntries /\ r.times \in -1..MaxRepeat
  BY <1>1, FirstLeads
<1>3. LeftFits(e.repeat, left[i], i, Len(p)) /\ left[i] \in Nat
  <2>1. /\ i \in 0..Len(e.base) - 1 /\ \A j \in 0..Len(e.base) - 1 : left[j] \in Nat
        /\ \A j \in i..Len(e.base) - 1 : LeftFits(e.repeat, left[j], j, Len(p))
    BY DEF AtItsEnd
  <2>2. i \in i..Len(e.base) - 1
    BY <2>1
  <2> QED
    BY <2>1, <2>2
<1>4. /\ CountsOn(e, Turned(e)) /\ e.repeat \in Seq(LoopEntries)
      /\ Turned(e) \in Seq(LoopEntries) /\ SameLoops(Turned(e), e.repeat)
  BY LoopsCountOn DEF CountsOn, IsScenery
<1>5. OwnOf(Turned(e), i) # {} /\ FirstOf(Turned(e), i) = f
  BY <1>1, <1>4, SameLoopsOf DEF HasOwn
<1>6. Len(p) \in Nat /\ MaxPlayed \in Nat /\ MaxRepeat \in Nat
  BY LimitsAreNatural
<1>7. CASE r.times = INFINITE
  <2>1. left[i] + Len(p) >= MaxPlayed - 1
    BY <1>1, <1>3, <1>7 DEF LeftFits, HasOwn, OwnFirst
  <2>2. left[i] > 0 /\ left[i] - 1 + (Len(p) + 1) >= MaxPlayed - 1
    BY <1>3, <1>6, <2>1
  <2>3. Turned(e) = e.repeat
    BY <1>7 DEF Turned
  <2> QED
    BY <1>1, <1>7, <2>2, <2>3 DEF LeftFits, HasOwn, OwnFirst
<1>8. CASE r.times # INFINITE /\ r.times # r.counter + 1
  <2> DEFINE s == [r EXCEPT !.counter = Counted(r.counter)]
  <2>1. CounterFits(r) /\ left[i] = Owed(r)
    BY <1>1, <1>3, <1>8 DEF LeftFits, HasOwn, OwnFirst
  <2>2. /\ Owed(r) \in Nat /\ (Owed(r) = 0 <=> r.times = r.counter + 1)
        /\ CounterFits(s) /\ Owed(s) = Owed(r) - 1
    <3> HIDE DEF r
    <3> QED
      BY <1>2, <1>8, <2>1, TurnsLeft
  <2>3. left[i] > 0
    BY <1>8, <2>1, <2>2
  <2>4. Turned(e)[f] = s
    <3>1. Counted(r.counter) \in Int
      BY <1>2, <1>6 DEF Counted, LoopEntries
    <3>2. WithCounter(e, Counted(r.counter))[f] = s
      BY <1>1, <1>4, <3>1, WithCounterIs
    <3>3. Turned(e) = WithCounter(e, Counted(r.counter))
      BY <1>8 DEF Turned
    <3> QED
      BY <3>2, <3>3
  <2>5. s.times = r.times
    BY <1>2 DEF LoopEntries
  <2>6. LeftFits(Turned(e), left[i] - 1, i, Len(p) + 1)
    <3> HIDE DEF s, f, r
    <3> QED
      BY <1>5, <1>8, <2>1, <2>2, <2>4, <2>5 DEF LeftFits
  <2> QED
    BY <2>3, <2>6
<1> QED
  BY <1>1, <1>7, <1>8

\* The loop of the entry has a turn left: the entry it goes back to is next.
LEMMA JumpFollows ==
  ASSUME NEW e, IsScenery(e), GoesBack(e.repeat), NEW p \in Seq(Nat), Len(p) < MaxPlayed,
         OnItsWay(e, p), ~(e.tickCount < TicksOf(e)), ~IsThrough(e)
  PROVE  Follows(Moved(e, OwnFirst(e).to, e.base[OwnFirst(e).to + 1].ticks, Turned(e)),
                 Append(p, e.index))
<1> DEFINE i == e.index
           b == OwnFirst(e).to
           n == Len(e.base)
           q == Append(p, i)
           r == Turned(e)
           x == Moved(e, b, e.base[b + 1].ticks, r)
           loops == LoopsOf(e.base, e.repeat)
<1>1. PICK left, g : AtItsEnd(e, p, left, g)
  BY EndReached
<1>2. /\ i \in 0..n - 1 /\ i \in Nat /\ n \in Nat \ {0} /\ e.base \in Seq(Entries)
      /\ Untouched(e.repeat, i) /\ Ahead(e.base, loops, left, g, i)
      /\ q \in Seq(Nat) /\ Len(q) = Len(p) + 1 /\ g \in Row(n) /\ Whole(e) = Then(q, g[i])
      /\ g[i] \in Seq(Nat)
  BY <1>1 DEF AtItsEnd
<1>2a. /\ \A j \in i..n - 1 : LeftFits(e.repeat, left[j], j, Len(p))
       /\ \A j \in 0..n - 1 : left[j] \in Nat
  BY <1>1 DEF AtItsEnd
<1>3. HasOwn(e)
  BY DEF IsThrough
<1>4. b \in 0..n - 1 /\ b <= i /\ e.base[b + 1].ticks \in Nat
  BY <1>3, FirstLeads
<1>5. CountsOn(e, r)
  BY LoopsCountOn
<1>6. /\ Whole(x) = Whole(e) /\ LoopsOf(e.base, r) = loops
      /\ x.base = e.base /\ x.repeat = r /\ x.index = b /\ x.tickCount = e.base[b + 1].ticks
  BY <1>5, SameWhole
<1>7. IsLegal(e.base, r)
  <2>1. b \in Nat /\ r \in Seq(LoopEntries) /\ SameLoops(r, e.repeat)
    BY <1>4, <1>5 DEF CountsOn
  <2>2. IsScenery(x)
    BY <1>4, <2>1, MovedType
  <2> HIDE DEF x
  <2> QED
    BY <1>6, <2>2 DEF IsScenery
<1>8. IsPrefix(q, Whole(x)) /\ Len(q) <= MaxPlayed
  <2>1. Len(p) \in Nat /\ MaxPlayed \in Nat
    BY LimitsAreNatural
  <2>2. IsPrefix(q, Then(q, g[i]))
    BY <1>2, PrefixOf
  <2> QED
    BY <1>2, <1>6, <2>1, <2>2
<1>9. CASE Len(q) < MaxPlayed
  <2> DEFINE rest == LeftAfter(n, loops, left, i)
  <2>0. rest = [j \in 0..n - 1 |-> IF j < i THEN loops[j].turns
                                   ELSE IF j = i THEN left[i] - 1 ELSE left[j]]
    BY DEF LeftAfter
  <2> HIDE DEF rest
  <2>1. left[i] > 0 /\ LeftFits(r, left[i] - 1, i, Len(q))
    <3>1. Len(p) + 1 < MaxPlayed
      BY <1>2, <1>9
    <3> QED
      BY <1>1, <1>2, <3>1, TurnLeft
  <2>2. loops \in Loops(n) /\ loops[i].to = b
    <3>1. loops \in Loops(n)
      BY LoopsType DEF IsScenery
    <3>2. LoopOf(e.repeat, i) = [to |-> b, turns |-> Plays(OwnFirst(e)) - 1]
      BY <1>3, LoopOfFirst DEF HasOwn, OwnFirst
    <3>3. loops[i] = LoopOf(e.repeat, i)
      BY <1>2 DEF LoopsOf
    <3> QED
      BY <3>1, <3>2, <3>3
  <2>3. PICK h : Ahead(e.base, loops, rest, h, b) /\ g[i] = Then(<<b>>, h[b])
    <3> DEFINE base == e.base
    <3>0. HasTurn(base, n, loops, i, left, g)
      BY <1>2, <1>4, <2>1, <2>2 DEF HasTurn
    <3> HIDE DEF i, b, loops, n, base
    <3>1. \E h : /\ Ahead(base, loops, LeftAfter(n, loops, left, i), h, loops[i].to)
                 /\ g[i] = Then(<<loops[i].to>>, h[loops[i].to])
      BY <3>0, TurnTaken
    <3> QED
      BY <2>2, <3>1 DEF base, rest
  <2>4. \A j \in b..n - 1 : LeftFits(r, rest[j], j, Len(q))
    <3>1. ASSUME NEW j \in b..n - 1, j < i PROVE LeftFits(r, rest[j], j, Len(q))
      <4>1. j \in 0..n - 1 /\ j \in 0..i - 1 /\ rest[j] = loops[j].turns /\ Len(q) \in Nat
        BY <1>2, <1>4, <2>0, <3>1
      <4>2. OwnOf(r, j) # {} => r[FirstOf(r, j)].counter = 0
        <5>1. /\ OwnOf(r, j) = OwnOf(e.repeat, j)
              /\ OwnOf(r, j) # {} => r[FirstOf(r, j)] = e.repeat[FirstOf(e.repeat, j)]
          BY <1>5, <3>1, OthersFit
        <5> QED
          BY <1>2, <4>1, <5>1 DEF Untouched
      <4> HIDE DEF r, q, loops
      <4>3. LeftFits(r, LoopsOf(e.base, r)[j].turns, j, Len(q))
        BY <1>7, <4>1, <4>2, FreshFits
      <4> QED
        BY <1>6, <4>1, <4>3
    <3>2. rest[i] = left[i] - 1
      BY <1>2, <2>0
    <3>3. ASSUME NEW j \in b..n - 1, j > i PROVE LeftFits(r, rest[j], j, Len(q))
      <4>1. j \in i..n - 1 /\ j \in 0..n - 1 /\ rest[j] = left[j] /\ j # i
        BY <1>2, <1>4, <2>0, <3>3
      <4>2. LeftFits(e.repeat, left[j], j, Len(p)) /\ left[j] \in Nat
        BY <1>2a, <4>1
      <4>3. LeftFits(e.repeat, left[j], j, Len(p) + 1)
        BY <4>2, FitsOn
      <4>4. LeftFits(r, left[j], j, Len(p) + 1)
        BY <1>5, <4>1, <4>3, OthersFit
      <4> QED
        BY <1>2, <4>1, <4>4
    <3> HIDE DEF r, q
    <3>4. \A j \in b..n - 1 : j < i \/ j = i \/ j > i
      BY <1>2, <1>4
    <3> QED
      BY <2>1, <3>1, <3>2, <3>3, <3>4
  <2>5. TicksOf(x) = e.base[b + 1].ticks
    BY <1>6 DEF TicksOf
  <2>6. /\ x.index \in 0..Len(x.base) - 1 /\ x.index # Len(x.base) /\ x.tickCount \in 0..TicksOf(x)
        /\ TicksOf(x) - x.tickCount + 1 = 1
    BY <1>2, <1>4, <1>6, <2>5
  <2>7. Untouched(r, b)
    <3>1. ASSUME NEW j \in 0..b - 1, OwnOf(r, j) # {} PROVE r[FirstOf(r, j)].counter = 0
      <4>1. j \in 0..i - 1 /\ j # i
        BY <1>2, <1>4
      <4>2. /\ OwnOf(r, j) = OwnOf(e.repeat, j)
            /\ r[FirstOf(r, j)] = e.repeat[FirstOf(e.repeat, j)]
        BY <1>5, <3>1, <4>1, OthersFit
      <4> QED
        BY <1>2, <3>1, <4>1, <4>2 DEF Untouched
    <3> QED
      BY <3>1 DEF Untouched
  <2>8. Whole(x) = Then(q, Then(Repeated(TicksOf(x) - x.tickCount + 1, <<x.index>>), h[x.index]))
    <3>1. b \in Nat /\ << >> \in Seq(Nat)
      BY <1>4
    <3>2. Repeated(1, <<b>>) = <<b>>
      BY <3>1, LastTick
    <3> QED
      BY <1>2, <1>6, <2>3, <2>6, <3>2
  <2> HIDE DEF x, q, r, loops
  <2>9. OnItsWay(x, q)
    <3>1. Ahead(x.base, LoopsOf(x.base, x.repeat), rest, h, x.index)
      BY <1>6, <2>3
    <3>2. \A j \in x.index..Len(x.base) - 1 : LeftFits(x.repeat, rest[j], j, Len(q))
      BY <1>6, <2>4
    <3>3. Untouched(x.repeat, x.index)
      BY <1>6, <2>7
    <3> QED
      BY <2>6, <2>8, <3>1, <3>2, <3>3 DEF OnItsWay
  <2>10. Follows(x, q)
    BY <1>2, <1>8, <2>6, <2>9 DEF Follows
  <2> QED
    BY <2>10 DEF x, q, r
<1>10. CASE ~(Len(q) < MaxPlayed)
  <2> HIDE DEF x, q
  <2>1. Follows(x, q)
    BY <1>2, <1>8, <1>10 DEF Follows
  <2> QED
    BY <2>1 DEF x, q
<1> QED
  BY <1>9, <1>10

\* One tick of the task: the index sent is the next of those written out.
LEMMA TickedFollows ==
  ASSUME NEW e, IsScenery(e), GoesBack(e.repeat), Len(e.base) <= Longest, e.index < Len(e.base),
         NEW p, Follows(e, p),
         NEW q, q = IF Len(p) < MaxPlayed THEN Append(p, e.index) ELSE p
  PROVE  Follows(Ticked(e), q)
<1>1. p \in Seq(Nat) /\ Len(p) <= MaxPlayed /\ IsPrefix(p, Whole(e)) /\ Len(p) \in Nat
  BY DEF Follows
<1>2. CASE Len(p) < MaxPlayed
  <2>1. OnItsWay(e, p) /\ q = Append(p, e.index)
    BY <1>2 DEF Follows
  <2>2. CASE e.tickCount < TicksOf(e)
    BY <1>1, <1>2, <2>1, <2>2, TickedIs, StayFollows DEF TicksOf
  <2>3. CASE ~(e.tickCount < TicksOf(e)) /\ IsThrough(e)
    BY <1>1, <1>2, <2>1, <2>3, TickedIs, ForwardFollows DEF TicksOf
  <2>4. CASE ~(e.tickCount < TicksOf(e)) /\ ~IsThrough(e)
    BY <1>1, <1>2, <2>1, <2>4, TickedIs, JumpFollows DEF TicksOf
  <2> QED
    BY <2>2, <2>3, <2>4
<1>3. CASE ~(Len(p) < MaxPlayed)
  <2>1. q = p
    BY <1>3
  <2>2. /\ Ticked(e).base = e.base /\ e.repeat \in Seq(LoopEntries)
        /\ Ticked(e).repeat \in Seq(LoopEntries) /\ SameLoops(Ticked(e).repeat, e.repeat)
    BY TickedStays DEF IsScenery
  <2>3. Whole(Ticked(e)) = Whole(e)
    BY <2>2, SameLoopsOf DEF Whole
  <2> QED
    BY <1>1, <1>3, <2>1, <2>3 DEF Follows
<1> QED
  BY <1>2, <1>3

-----------------------------------------------------------------------------
(* What a message may ask for                                              *)

IsNew(repeat) == \A k \in DOMAIN repeat : repeat[k].counter = 0
AddSteps ==
  {s \in [op : {"add"}, channel : Int, base : Seq(Entries), repeat : Seq(LoopEntries)] :
      IsLegal(s.base, s.repeat) /\ IsNew(s.repeat)}
OtherSteps ==
  [op : {"write"}, channel : Int, val : Int] \cup [op : {"relay"}, val : Int]
    \cup [op : {"error", "clear", "zero"}]
StepSet == AddSteps \cup OtherSteps

\* The steps a message may have.
LEMMA AddIsAStep ==
  ASSUME NEW c \in Int, NEW base, NEW repeat, IsLegal(base, repeat), IsNew(repeat)
  PROVE  Add(c, base, repeat) \in StepSet
<1> DEFINE s == Add(c, base, repeat)
<1>1. s \in [op : {"add"}, channel : Int, base : Seq(Entries), repeat : Seq(LoopEntries)]
  BY DEF Add, IsLegal
<1>2. s.base = base /\ s.repeat = repeat
  BY DEF Add
<1> HIDE DEF s
<1>3. s \in AddSteps
  BY <1>1, <1>2 DEF AddSteps
<1> QED
  BY <1>3 DEF StepSet, s

\* The steps of the topics that start no scenery.
LEMMA OthersAreSteps ==
  /\ \A c, v \in Int : Write(c, v) \in StepSet
  /\ \A op \in {"error", "clear", "zero"} : Do(op) \in StepSet
  /\ \A v \in Int : [op |-> "relay", val |-> v] \in StepSet
<1>1. \A c, v \in Int : Write(c, v) \in OtherSteps
  BY DEF Write, OtherSteps
<1>2. \A op \in {"error", "clear", "zero"} : Do(op) \in OtherSteps
  BY DEF Do, OtherSteps
<1>3. \A v \in Int : [op |-> "relay", val |-> v] \in OtherSteps
  BY DEF OtherSteps
<1> QED
  BY <1>1, <1>2, <1>3 DEF StepSet

\* The elements of an array are within its bounds.
LEMMA ArrayOfBounds ==
  ASSUME NEW s \in Seq(Int), NEW high \in Nat
  PROVE  ParsedArray(s, high) \in Seq(0..high)
<1> DEFINE legal == {v \in Range(s) : InBounds(v, 0, high)}
<1>1. Longest + 1 \in Nat
  BY LimitsAreNatural
<1>2. Int \cap legal \subseteq 0..high
  BY DEF InBounds
<1>3. ParsedArray(s, high) = Accepted(s, legal, Longest + 1)
  BY DEF ParsedArray
<1> HIDE DEF legal
<1>4. ParsedArray(s, high) \in Seq(Int \cap legal)
  BY <1>1, <1>3, AcceptedAreLegal
<1> QED
  BY <1>2, <1>4

\* The loops that are kept go between the entries and have not begun.
LEMMA RepeatOfBounds ==
  ASSUME NEW repeat \in Seq([f : Int, t : Int, c : Int]), NEW length \in Nat
  PROVE  LET r == ParsedRepeat(repeat, length)
         IN  /\ r \in Seq(LoopEntries) /\ IsNew(r)
             /\ \A k \in DOMAIN r : /\ r[k].from < length /\ r[k].to < length
                                    /\ r[k].times \in -1..MaxRepeat
<1> DEFINE fields == [f : Int, t : Int, c : Int]
           legal == {r \in Range(repeat) :
                        /\ InBounds(OrDefault(r.f, -1), 0, length - 1)
                        /\ InBounds(OrDefault(r.t, -1), 0, length - 2)
                        /\ InBounds(OrDefault(r.c, -1), INFINITE, MaxRepeat)}
           kept == Accepted(repeat, legal, Len(repeat))
           loop(r) == [from |-> r.f, to |-> r.t, times |-> OrDefault(r.c, INFINITE), counter |-> 0]
           parsed == [k \in DOMAIN kept |-> loop(kept[k])]
<1>1. ParsedRepeat(repeat, length) = parsed
  BY DEF ParsedRepeat
<1>2. ASSUME NEW r \in fields \cap legal
      PROVE  /\ loop(r) \in LoopEntries /\ loop(r).from < length /\ loop(r).to < length
             /\ loop(r).times \in -1..MaxRepeat /\ loop(r).counter = 0
  <2>1. r.f \in Int /\ r.t \in Int /\ r.c \in Int
    OBVIOUS
  <2>2. /\ InBounds(OrDefault(r.f, -1), 0, length - 1)
        /\ InBounds(OrDefault(r.t, -1), 0, length - 2)
        /\ InBounds(OrDefault(r.c, -1), INFINITE, MaxRepeat)
    OBVIOUS
  <2>3. MaxRepeat \in Nat
    BY LimitsAreNatural
  <2>4. r.f \in Nat /\ r.f < length /\ r.t \in Nat /\ r.t < length
    BY <2>1, <2>2 DEF InBounds, OrDefault, Missing
  <2>5. OrDefault(r.c, INFINITE) \in -1..MaxRepeat
    BY <2>1, <2>2, <2>3 DEF InBounds, OrDefault, Missing, INFINITE
  <2>6. OrDefault(r.c, INFINITE) \in Int
    BY <2>3, <2>5
  <2> QED
    BY <2>4, <2>5, <2>6 DEF LoopEntries
<1>3. kept \in Seq(fields \cap legal)
  <2>1. Len(repeat) \in Nat /\ repeat \in Seq(fields)
    OBVIOUS
  <2> HIDE DEF legal, fields
  <2> QED
    BY <2>1, AcceptedAreLegal
<1> HIDE DEF kept, fields, legal
<1>4. DOMAIN kept = 1..Len(kept) /\ Len(kept) \in Nat /\ \A k \in DOMAIN kept : kept[k] \in fields \cap legal
  BY <1>3
<1>5. \A k \in DOMAIN kept :
         /\ parsed[k] \in LoopEntries /\ parsed[k].from < length /\ parsed[k].to < length
         /\ parsed[k].times \in -1..MaxRepeat /\ parsed[k].counter = 0
  <2>1. ASSUME NEW k \in DOMAIN kept PROVE parsed[k] = loop(kept[k]) /\ kept[k] \in fields \cap legal
    BY <1>4
  <2> HIDE DEF loop, parsed
  <2> QED
    BY <1>2, <2>1
<1>6. DOMAIN parsed = 1..Len(kept)
  BY <1>4
<1>7. parsed = [k \in 1..Len(kept) |-> parsed[k]]
  BY <1>4
<1> HIDE DEF parsed, loop
<1>8. parsed \in Seq(LoopEntries)
  BY <1>4, <1>5, <1>6, <1>7
<1> QED
  BY <1>1, <1>4, <1>5, <1>6, <1>8 DEF IsNew

\* A value cut to a byte.
LEMMA BytesAre == \A v \in Int : Byte(v) \in Nat
<1>1. MaxVal + 1 \in Nat \ {0}
  BY LimitsAreNatural
<1>2. ASSUME NEW m \in Nat \ {0}, NEW v \in Int PROVE v % m \in Nat
  OBVIOUS
<1> QED
  BY <1>1, <1>2 DEF Byte

\* The handlers of the topics ask for nothing else.
LEMMA RgbStepsAre ==
  ASSUME NEW m, m.data \in Seq(Int)
  PROVE  RgbSteps(m) \in Seq(StepSet)
<1> DEFINE legal == {v \in Range(m.data) : InBounds(v, 0, MaxVal)}
           kept == Accepted(m.data, legal, LastChannel + 1)
           steps == [k \in DOMAIN kept |-> Write(k - 1, kept[k])]
<1>1. kept \in Seq(Int)
  <2>1. LastChannel + 1 \in Nat
    BY LimitsAreNatural
  <2> HIDE DEF legal
  <2>2. kept \in Seq(Int \cap legal)
    BY <2>1, AcceptedAreLegal
  <2> HIDE DEF kept
  <2> QED
    BY <2>2
<1>2. RgbSteps(m) = steps
  BY DEF RgbSteps
<1> HIDE DEF kept
<1>3. ASSUME NEW k \in DOMAIN kept PROVE steps[k] \in StepSet
  <2>1. k - 1 \in Int /\ kept[k] \in Int
    BY <1>1
  <2>2. steps[k] = Write(k - 1, kept[k])
    OBVIOUS
  <2> QED
    BY <2>1, <2>2, OthersAreSteps
<1>4. DOMAIN steps = 1..Len(kept) /\ Len(kept) \in Nat /\ DOMAIN kept = 1..Len(kept)
  BY <1>1
<1>5. steps = [k \in 1..Len(kept) |-> steps[k]]
  BY <1>4
<1> HIDE DEF steps
<1>6. steps \in Seq(StepSet)
  BY <1>3, <1>4, <1>5
<1> QED
  BY <1>2, <1>6

Objects == [i : Int, v : Int, a : Int, b : Int, T : 0..MaxTicks, cycle : BOOLEAN]
SceneryObjects ==
  [i : Seq(Int), vals : Seq(Int), times : Seq(Int), repeat : Seq([f : Int, t : Int, c : Int])]

\* An object of "func" writes a channel or starts a fade of two or three entries,
\* whose loop lies within them.
LEMMA FunctionStepsAre ==
  ASSUME NEW o \in Objects
  PROVE  FunctionSteps(o) \in Seq(StepSet)
<1> DEFINE low == Byte(o.a)
           high == Byte(o.b)
           first == Base(low, 0)
           second == Base(high, o.T)
           third == Base(low, o.T)
           loop == [from |-> 2, to |-> 0, times |-> INFINITE, counter |-> 0]
<1>1. o.i \in Int /\ o.v \in Int /\ o.T \in Nat /\ MaxRepeat \in Nat
      /\ low \in Int /\ high \in Int /\ Byte(o.v) \in Int
  <2>1. o.i \in Int /\ o.v \in Int /\ o.a \in Int /\ o.b \in Int /\ o.T \in 0..MaxTicks
    BY DEF Objects
  <2>2. MaxTicks \in Nat /\ MaxRepeat \in Nat
    BY LimitsAreNatural
  <2>3. low \in Nat /\ high \in Nat /\ Byte(o.v) \in Nat
    BY <2>1, BytesAre
  <2> QED
    BY <2>1, <2>2, <2>3
<1>2. first \in Entries /\ second \in Entries /\ third \in Entries
  <2> HIDE DEF low, high
  <2> QED
    BY <1>1 DEF Base, Entries
<1>3. loop \in LoopEntries /\ loop.from = 2 /\ loop.to = 0 /\ loop.times = -1 /\ loop.counter = 0
  BY DEF LoopEntries, INFINITE
<1>4. FunctionSteps(o) =
        IF o.v # -1 THEN <<Write(o.i, Byte(o.v))>>
        ELSE IF o.cycle THEN <<Add(o.i, Append(<<first, second>>, third), <<loop>>)>>
        ELSE <<Add(o.i, <<first, second>>, << >>)>>
  BY Zenon DEF FunctionSteps
<1> HIDE DEF first, second, third, loop, low, high
<1>5. Write(o.i, Byte(o.v)) \in StepSet
  BY <1>1, OthersAreSteps
<1>6. Add(o.i, Append(<<first, second>>, third), <<loop>>) \in StepSet
  <2> DEFINE base == Append(<<first, second>>, third)
             repeat == <<loop>>
  <2>1. base \in Seq(Entries) /\ Len(base) = 3 /\ base # << >>
    <3>1. <<first, second>> \in Seq(Entries) /\ Len(<<first, second>>) = 2
      BY <1>2
    <3> DEFINE two == <<first, second>>
    <3> HIDE DEF two
    <3>2. Append(two, third) \in Seq(Entries) /\ Len(Append(two, third)) = 3
      BY <1>2, <3>1 DEF two
    <3> QED
      BY <3>2 DEF two
  <2>2. repeat \in Seq(LoopEntries) /\ DOMAIN repeat = {1} /\ repeat[1] = loop
    BY <1>3
  <2> HIDE DEF base, repeat
  <2>3. \A k \in DOMAIN repeat :
           /\ repeat[k].from = 2 /\ repeat[k].to = 0 /\ repeat[k].times = -1
           /\ repeat[k].counter = 0
    BY <1>3, <2>2
  <2>4. IsLegal(base, repeat) /\ IsNew(repeat)
    BY <1>1, <2>1, <2>2, <2>3 DEF IsLegal, IsNew
  <2>5. Add(o.i, base, repeat) \in StepSet
    BY <1>1, <2>4, AddIsAStep
  <2> QED
    BY <2>5 DEF base, repeat
<1>7. Add(o.i, <<first, second>>, << >>) \in StepSet
  <2> DEFINE base == <<first, second>>
  <2>1. base \in Seq(Entries) /\ base # << >>
    BY <1>2
  <2> HIDE DEF base
  <2>2. IsLegal(base, << >>) /\ IsNew(<< >>)
    BY <2>1 DEF IsLegal, IsNew
  <2>3. Add(o.i, base, << >>) \in StepSet
    BY <1>1, <2>2, AddIsAStep
  <2> QED
    BY <2>3 DEF base
<1>8. ASSUME NEW s \in StepSet PROVE <<s>> \in Seq(StepSet)
  OBVIOUS
<1> QED
  BY <1>4, <1>5, <1>6, <1>7, <1>8, Zenon

\* An object of "scenery" is left out or starts as many sceneries as it has channels,
\* each with repeats that lie within its values.
LEMMA SceneryStepsAre ==
  ASSUME NEW o \in SceneryObjects
  PROVE  ScenerySteps(o) \in Seq(StepSet)
<1> DEFINE channels == ParsedArray(o.i, LastChannel)
           vals == ParsedArray(o.vals, MaxVal)
           times == ParsedArray(o.times, MaxTicks)
           base == [k \in DOMAIN vals |-> Base(vals[k], times[k])]
           repeat == ParsedRepeat(o.repeat, Len(vals))
           add(k) == Add(channels[k], base, repeat)
           steps == [k \in DOMAIN channels |-> add(k)]
<1>1. /\ o.i \in Seq(Int) /\ o.vals \in Seq(Int) /\ o.times \in Seq(Int)
      /\ o.repeat \in Seq([f : Int, t : Int, c : Int])
      /\ LastChannel \in Nat /\ MaxVal \in Nat /\ MaxTicks \in Nat
  BY LimitsAreNatural DEF SceneryObjects
<1>2. channels \in Seq(0..LastChannel) /\ vals \in Seq(0..MaxVal) /\ times \in Seq(0..MaxTicks)
  BY <1>1, ArrayOfBounds
<1>3. ScenerySteps(o) =
        IF \/ channels = << >> \/ vals = << >> \/ times = << >> \/ Len(vals) # Len(times)
        THEN <<Do("error")>> ELSE steps
  BY Zenon DEF ScenerySteps
<1>4. <<Do("error")>> \in Seq(StepSet)
  <2>1. Do("error") \in StepSet
    BY OthersAreSteps
  <2> DEFINE s == Do("error")
  <2> HIDE DEF s
  <2>2. <<s>> \in Seq(StepSet)
    BY <2>1 DEF s
  <2> QED
    BY <2>2 DEF s
<1>5. Len(vals) \in Nat
  BY <1>2
<1>6. /\ repeat \in Seq(LoopEntries) /\ IsNew(repeat)
      /\ \A k \in DOMAIN repeat : /\ repeat[k].from < Len(vals) /\ repeat[k].to < Len(vals)
                                  /\ repeat[k].times \in -1..MaxRepeat
  BY <1>1, <1>5, RepeatOfBounds
<1> HIDE DEF channels, vals, times, repeat
<1>7. CASE vals # << >> /\ Len(vals) = Len(times)
  <2>1. ASSUME NEW k \in DOMAIN vals PROVE base[k] \in Entries
    <3>1. vals[k] \in Int /\ times[k] \in Nat
      <4>1. k \in 1..Len(vals) /\ k \in 1..Len(times)
        BY <1>2, <1>7
      <4>2. ASSUME NEW S, NEW s \in Seq(S), NEW j \in 1..Len(s) PROVE s[j] \in S
        OBVIOUS
      <4>3. vals[k] \in 0..MaxVal /\ times[k] \in 0..MaxTicks
        BY <1>2, <4>1, <4>2
      <4> QED
        BY <1>1, <4>3
    <3>2. base[k] = Base(vals[k], times[k])
      OBVIOUS
    <3> QED
      BY <3>1, <3>2 DEF Base, Entries
  <2>2. DOMAIN vals = 1..Len(vals) /\ DOMAIN base = 1..Len(vals) /\ Len(vals) # 0
    BY <1>2, <1>7
  <2>3. base = [k \in 1..Len(vals) |-> base[k]]
    BY <2>2
  <2> HIDE DEF base
  <2>4. base \in Seq(Entries) /\ Len(base) = Len(vals) /\ base # << >>
    BY <1>5, <2>1, <2>2, <2>3
  <2>5. IsLegal(base, repeat)
    BY <1>6, <2>4 DEF IsLegal
  <2>6. ASSUME NEW k \in DOMAIN channels PROVE add(k) \in StepSet
    <3>1. channels[k] \in Int
      BY <1>1, <1>2
    <3> QED
      BY <1>6, <2>5, <3>1, AddIsAStep
  <2>7. DOMAIN channels = 1..Len(channels) /\ Len(channels) \in Nat
    BY <1>2
  <2> HIDE DEF add
  <2>8. steps \in Seq(StepSet)
    BY <2>6, <2>7
  <2> QED
    BY <1>3, <1>4, <2>8
<1>8. CASE ~(vals # << >> /\ Len(vals) = Len(times))
  BY <1>3, <1>4, <1>8
<1> QED
  BY <1>7, <1>8

\* Nor does a message as a whole.
LEMMA MessageIsSteps ==
  ASSUME NEW m \in Messages
  PROVE  HandlerSteps(m) \in Seq(StepSet)
<1>1. CASE m.topic = "rgb"
  <2>1. m.data \in Seq(Int)
    BY <1>1, MessagesAreJson, Zenon
  <2>2. HandlerSteps(m) = RgbSteps(m)
    BY <1>1 DEF HandlerSteps
  <2> QED
    BY <2>1, <2>2, RgbStepsAre
<1>2. CASE m.topic = "func"
  <2> DEFINE each == [k \in DOMAIN m.data |-> FunctionSteps(m.data[k])]
  <2>1. m.data \in Seq(Objects)
    BY <1>2, MessagesAreJson DEF Objects
  <2>2. HandlerSteps(m) = FlattenSeq(each)
    BY <1>2 DEF HandlerSteps, Each
  <2>3. ASSUME NEW k \in DOMAIN m.data PROVE FunctionSteps(m.data[k]) \in Seq(StepSet)
    <3>1. m.data[k] \in Objects
      BY <2>1
    <3> QED
      BY <3>1, FunctionStepsAre
  <2>4. DOMAIN m.data = 1..Len(m.data) /\ Len(m.data) \in Nat
    BY <2>1
  <2>5. each \in Seq(Seq(StepSet))
    BY <2>3, <2>4
  <2> HIDE DEF each
  <2> QED
    BY <2>2, <2>5, FlattenedType
<1>3. CASE m.topic = "scenery"
  <2> DEFINE each == [k \in DOMAIN m.data |-> ScenerySteps(m.data[k])]
  <2>1. m.data \in Seq(SceneryObjects)
    BY <1>3, MessagesAreJson DEF SceneryObjects
  <2>2. HandlerSteps(m) = FlattenSeq(each)
    BY <1>3 DEF HandlerSteps, Each
  <2>3. ASSUME NEW k \in DOMAIN m.data PROVE ScenerySteps(m.data[k]) \in Seq(StepSet)
    <3>1. m.data[k] \in SceneryObjects
      BY <2>1
    <3> QED
      BY <3>1, SceneryStepsAre
  <2>4. DOMAIN m.data = 1..Len(m.data) /\ Len(m.data) \in Nat
    BY <2>1
  <2>5. each \in Seq(Seq(StepSet))
    BY <2>3, <2>4
  <2> HIDE DEF each
  <2> QED
    BY <2>2, <2>5, FlattenedType
<1>4. CASE m.topic = "relay"
  <2>1. m.data \in Int
    BY <1>4, MessagesAreJson
  <2> DEFINE s == [op |-> "relay", val |-> m.data]
  <2>2. s \in StepSet
    BY <2>1, OthersAreSteps
  <2>3. HandlerSteps(m) = <<s>>
    BY <1>4 DEF HandlerSteps, RelaySteps
  <2> HIDE DEF s
  <2> QED
    BY <2>2, <2>3
<1>5. CASE m.topic = "clear"
  <2> DEFINE s == Do("clear")
             t == Do("zero")
  <2>1. s \in StepSet /\ t \in StepSet
    BY OthersAreSteps
  <2>2. HandlerSteps(m) = <<s, t>>
    BY <1>5 DEF HandlerSteps, ClearSteps
  <2> HIDE DEF s, t
  <2> QED
    BY <2>1, <2>2
<1>6. m.topic \in {"rgb", "func", "scenery", "relay", "clear"}
  BY MessagesAreJson
<1> QED
  BY <1>1, <1>2, <1>3, <1>4, <1>5, <1>6

-----------------------------------------------------------------------------
(* The sceneries play as they are written out                              *)

\* A scenery put on a channel has all of it to send.
LEMMA BeginsToFollow ==
  ASSUME NEW base, NEW repeat, IsLegal(base, repeat), IsNew(repeat), NEW e,
         e = [index |-> 0, tickCount |-> 0, base |-> base, repeat |-> repeat]
  PROVE  IsScenery(e) /\ Follows(e, << >>)
<1> DEFINE n == Len(base)
           loops == LoopsOf(base, repeat)
           left == [j \in 0..n - 1 |-> loops[j].turns]
           g == After(base, loops)[n - 1]
<1>1. /\ base \in Seq(Entries) /\ n \in Nat \ {0} /\ repeat \in Seq(LoopEntries)
      /\ MaxPlayed \in Nat \ {0}
  BY LimitsAreNatural DEF IsLegal
<1>2. e.index = 0 /\ e.tickCount = 0 /\ e.base = base /\ e.repeat = repeat
  OBVIOUS
<1>3. IsScenery(e)
  BY <1>1, <1>2 DEF IsScenery
<1>4. loops \in Loops(n)
  BY LoopsType
<1> HIDE DEF loops
<1>5. Ahead(base, loops, left, g, 0)
  BY <1>1, <1>4, AllAhead
<1>6. 0 \in 0..n - 1 /\ base[0 + 1].ticks \in Nat /\ g[0] \in Seq(Nat) /\ Stay(base, 0) \in Seq(Nat)
  <2>1. 0 \in 0..n - 1
    BY <1>1
  <2> HIDE DEF g, left
  <2> QED
    BY <1>1, <1>5, <2>1, StayType, AheadType
<1>7. Whole(e) = Then(Stay(base, 0), g[0])
  <2>1. loops = [i \in 0..n - 1 |-> LoopOf(repeat, i)]
    BY DEF loops, LoopsOf
  <2> QED
    BY <1>2, <2>1 DEF Whole, WrittenOut, Then
<1> HIDE DEF g, left
<1>8. TicksOf(e) = base[0 + 1].ticks /\ TicksOf(e) \in Nat /\ TicksOf(e) - e.tickCount + 1 = TicksOf(e) + 1
  BY <1>2, <1>6 DEF TicksOf
<1>9. Whole(e) \in Seq(Nat) /\ Whole(e) = Then(<< >>, Whole(e))
  <2>1. Then(Stay(base, 0), g[0]) \in Seq(Nat)
    BY <1>6, ThenIsASequence
  <2> QED
    BY <1>7, <2>1, ThenNothing
<1>10. Whole(e) = Then(<< >>, Then(Repeated(TicksOf(e) - e.tickCount + 1, <<e.index>>), g[e.index]))
  BY <1>2, <1>7, <1>8, <1>9 DEF Stay
<1>11. ASSUME NEW j \in 0..n - 1 PROVE LeftFits(repeat, left[j], j, 0)
  <2>1. left[j] = loops[j].turns
    BY DEF left
  <2>2. OwnOf(repeat, j) # {} => repeat[FirstOf(repeat, j)].counter = 0
    BY <1>1, FirstIsOwn DEF IsNew
  <2>3. LeftFits(repeat, LoopsOf(base, repeat)[j].turns, j, 0)
    BY <2>2, FreshFits
  <2> QED
    BY <2>1, <2>3 DEF loops
<1>12. Untouched(repeat, 0)
  BY DEF Untouched
<1>13. Len(<< >>) = 0 /\ << >> \in Seq(Nat)
  OBVIOUS
<1>14. OnItsWay(e, << >>)
  <2>1. Ahead(e.base, LoopsOf(e.base, e.repeat), left, g, e.index)
    BY <1>2, <1>5 DEF loops
  <2>2. \A j \in e.index..Len(e.base) - 1 : LeftFits(e.repeat, left[j], j, Len(<< >>))
    BY <1>2, <1>11, <1>13
  <2>3. /\ e.index \in 0..Len(e.base) - 1 /\ e.tickCount \in 0..TicksOf(e)
        /\ Untouched(e.repeat, e.index)
    BY <1>2, <1>6, <1>8, <1>12
  <2> QED
    BY <1>10, <2>1, <2>2, <2>3 DEF OnItsWay
<1>15. IsPrefix(<< >>, Whole(e))
  <2>1. IsPrefix(<< >>, Then(<< >>, Whole(e)))
    BY <1>9, <1>13, PrefixOf
  <2> QED
    BY <1>9, <2>1
<1>16. e.index # Len(e.base)
  BY <1>1, <1>2
<1> QED
  BY <1>1, <1>3, <1>13, <1>14, <1>15, <1>16 DEF Follows

\* What is left of a message is made of steps, and every scenery that can play
\* as it is written out is on its way through that.
PlaysOn(e, p) ==
  /\ IsScenery(e)
  /\ GoesBack(e.repeat) /\ Len(e.base) <= Longest => Follows(e, p)
PlayInv ==
  /\ todo \in Seq(StepSet)
  /\ DOMAIN played = DOMAIN scenes
  /\ \A c \in DOMAIN scenes : PlaysOn(scenes[c], played[c])

\* The steps keep every scenery on its way.
LEMMA TickPlaysOn == ASSUME PlayInv, Tick PROVE PlayInv'
<1> DEFINE live == {c \in DOMAIN scenes : ~IsOver(scenes[c])}
<1>1. /\ scenes' = [c \in live |-> Ticked(scenes[c])]
      /\ played' = [c \in live |-> Remembered(c)] /\ todo' = todo
  BY DEF Tick
<1>2. ASSUME NEW c \in live PROVE PlaysOn(Ticked(scenes[c]), Remembered(c))
  <2> DEFINE e == scenes[c]
             p == played[c]
  <2>1. PlaysOn(e, p) /\ IsScenery(e) /\ ~IsOver(e)
    BY DEF PlayInv, PlaysOn
  <2>2. e.index < Len(e.base)
    BY <2>1 DEF IsOver, IsScenery
  <2>3. Remembered(c) = IF Len(p) < MaxPlayed THEN Append(p, e.index) ELSE p
    BY DEF Remembered
  <2> DEFINE q == Remembered(c)
  <2> HIDE DEF e, p, q
  <2>4. /\ IsScenery(Ticked(e)) /\ Ticked(e).base = e.base
        /\ Ticked(e).repeat \in Seq(LoopEntries) /\ SameLoops(Ticked(e).repeat, e.repeat)
        /\ e.repeat \in Seq(LoopEntries)
    BY <2>1, <2>2, TickedStays DEF IsScenery
  <2>5. GoesBack(Ticked(e).repeat) <=> GoesBack(e.repeat)
    BY <2>4, SameLoopsOf
  <2>6. ASSUME GoesBack(e.repeat), Len(e.base) <= Longest PROVE Follows(Ticked(e), q)
    <3>1. Follows(e, p)
      BY <2>1, <2>6 DEF PlaysOn
    <3>2. q = IF Len(p) < MaxPlayed THEN Append(p, e.index) ELSE p
      BY <2>3 DEF q
    <3> QED
      BY <2>1, <2>2, <2>6, <3>1, <3>2, TickedFollows
  <2>7. PlaysOn(Ticked(e), q)
    BY <2>4, <2>5, <2>6 DEF PlaysOn
  <2> QED
    BY <2>7 DEF e, q
<1> HIDE DEF live
<1>3. DOMAIN scenes' = live /\ DOMAIN played' = live
  BY <1>1
<1>4. \A c \in live : PlaysOn(scenes'[c], played'[c])
  BY <1>1, <1>2
<1> QED
  BY <1>1, <1>3, <1>4 DEF PlayInv

\* A new scenery has sent nothing and has all of it before it.
LEMMA AddPlaysOn == ASSUME PlayInv, AddStep PROVE PlayInv'
<1> DEFINE s == Head(todo)
           e == [index |-> 0, tickCount |-> 0, base |-> s.base, repeat |-> s.repeat]
<1>1. todo # << >> /\ s.op = "add" /\ todo' = Tail(todo)
  BY DEF AddStep, Step
<1>2. s \in StepSet /\ todo' \in Seq(StepSet)
  BY <1>1 DEF PlayInv
<1>3. s \in AddSteps
  <2> HIDE DEF s
  <2>1. s \notin OtherSteps
    BY <1>1 DEF OtherSteps
  <2> QED
    BY <1>2, <2>1 DEF StepSet
<1>4. IsLegal(s.base, s.repeat) /\ IsNew(s.repeat)
  BY <1>3 DEF AddSteps
<1>5. scenes' = Put(scenes, s.channel, e) /\ played' = Put(played, s.channel, << >>)
  BY DEF AddStep
<1> DEFINE ch == s.channel
<1>6. PlaysOn(e, << >>)
  <2> DEFINE base == s.base
             repeat == s.repeat
  <2>1. IsLegal(base, repeat) /\ IsNew(repeat) /\ e = [index |-> 0, tickCount |-> 0, base |-> base, repeat |-> repeat]
    BY <1>4
  <2> HIDE DEF base, repeat, e
  <2> QED
    BY <2>1, BeginsToFollow DEF PlaysOn
<1> HIDE DEF e, s, ch
<1>7. /\ DOMAIN scenes' = {ch} \cup DOMAIN scenes /\ DOMAIN played' = {ch} \cup DOMAIN played
      /\ scenes'[ch] = e /\ played'[ch] = << >>
      /\ \A c \in DOMAIN scenes : c # ch => scenes'[c] = scenes[c]
      /\ \A c \in DOMAIN played : c # ch => played'[c] = played[c]
  BY <1>5 DEF ch, Put
<1> QED
  BY <1>2, <1>6, <1>7 DEF PlayInv

\* PlayInv is inductive: a tick plays on, a message starts or drops whole sceneries.
LEMMA StepPlaysOn == PlayInv /\ [Next]_vars => PlayInv'
<1> SUFFICES ASSUME PlayInv, [Next]_vars PROVE PlayInv'
  OBVIOUS
<1>1. CASE Tick
  BY <1>1, TickPlaysOn
<1>2. CASE AddStep
  BY <1>2, AddPlaysOn
<1>3. CASE Receive
  <2>1. PICK m \in Messages : todo' = HandlerSteps(m)
    BY <1>3 DEF Receive
  <2>2. todo' \in Seq(StepSet)
    BY <2>1, MessageIsSteps
  <2>3. UNCHANGED <<scenes, played>>
    BY <1>3 DEF Receive
  <2> QED
    BY <2>2, <2>3 DEF PlayInv
<1>4. CASE ClearStep
  <2>1. todo # << >> /\ todo' = Tail(todo) /\ scenes' = << >> /\ played' = << >>
    BY <1>4 DEF ClearStep, Step
  <2>2. todo' \in Seq(StepSet)
    BY <2>1 DEF PlayInv
  <2> QED
    BY <2>1, <2>2 DEF PlayInv
<1>5. CASE WriteStep \/ ZeroStep \/ OtherStep
  <2>1. todo # << >> /\ todo' = Tail(todo) /\ UNCHANGED <<scenes, played>>
    BY <1>5 DEF WriteStep, ZeroStep, OtherStep, Step
  <2>2. todo' \in Seq(StepSet)
    BY <2>1 DEF PlayInv
  <2> QED
    BY <2>1, <2>2 DEF PlayInv
<1>6. CASE Send \/ SetProperty \/ WifiEvent \/ BrokerEvent \/ UNCHANGED vars
  <2>1. UNCHANGED <<todo, scenes, played>>
    BY <1>6 DEF Send, SetProperty, WifiEvent, BrokerEvent, vars
  <2> QED
    BY <2>1 DEF PlayInv
<1> QED
  BY <1>1, <1>2, <1>3, <1>4, <1>5, <1>6 DEF Next

\* What a scenery has sent is a beginning of what its loops say when they are
\* written out, and all of it when the scenery is over: loops within loops,
\* loops with a count of 0 or without an end, for sceneries of any length the
\* index can count (SceneryHandler::tick()).
THEOREM SceneriesPlayAsWrittenOut == Spec => []PlaysAsWrittenOut
<1>1. Init => PlayInv
  BY DEF Init, PlayInv
<1>2. PlayInv /\ [Next]_vars => PlayInv'
  BY StepPlaysOn
<1>3. PlayInv => PlaysAsWrittenOut
  <2> SUFFICES ASSUME PlayInv, NEW c \in DOMAIN scenes, GoesBack(scenes[c].repeat),
                      Len(scenes[c].base) <= Longest
               PROVE  /\ IsPrefix(played[c], Whole(scenes[c]))
                      /\ IsOver(scenes[c]) /\ Len(played[c]) < MaxPlayed =>
                            played[c] = Whole(scenes[c])
    BY DEF PlaysAsWrittenOut, Whole
  <2> DEFINE e == scenes[c]
             p == played[c]
  <2>1. IsScenery(e) /\ Follows(e, p)
    BY DEF PlayInv, PlaysOn
  <2> HIDE DEF e, p
  <2>2. IsPrefix(p, Whole(e))
    BY <2>1 DEF Follows
  <2>3. ASSUME IsOver(e), Len(p) < MaxPlayed PROVE p = Whole(e)
    <3>1. ~(e.index \in 0..Len(e.base) - 1)
      BY <2>1, <2>3 DEF IsOver, IsScenery
    <3>2. ~OnItsWay(e, p)
      BY <3>1 DEF OnItsWay
    <3> QED
      BY <2>1, <2>3, <3>2 DEF Follows
  <2> QED
    BY <2>2, <2>3 DEF e, p
<1> QED
  BY <1>1, <1>2, <1>3, PTL DEF Spec

-----------------------------------------------------------------------------
(* The player                                                              *)

\* What is left of a request that turns the loop off, once the module is reset.
Restoring(v) == <<[op |-> "SET_VOLUME", arg |-> v], [op |-> "looping", arg |-> FALSE]>>
Resetting(v) == <<[op |-> "RESET", arg |-> 0], [op |-> "SET_VOLUME", arg |-> v],
                  [op |-> "looping", arg |-> FALSE]>>

\* The steps of all the other requests leave the volume of the module alone, or
\* set it for the sensor too.
Harmless ==
  [op : {"volume", "volumeAndStore", "output", "play", "STOP_AUDIO", "SET_LOOP_MODE"},
   arg : Int] \cup [op : {"looping"}, arg : BOOLEAN]

\* Only a sensor that is ready resets the module, and the service leaves such a
\* sensor alone.
VolumeInv ==
  /\ ready => service = "idle"
  /\ stored \in Int /\ volume \in Int
  /\ module.volume \in 0..MaxVolume
  /\ module = [volume |-> module.volume, loop |-> module.loop, track |-> module.track]
  /\ \/ request \in Seq(Harmless)
     \/ ready /\ request \in {Resetting(volume), Restoring(volume)}
  /\ ready /\ ~doubtful => volume \in 0..MaxVolume
  /\ ready /\ ~doubtful /\ request # Restoring(volume) => volume = module.volume

\* What is left of a reset, step by step.
LEMMA StepsOfResetting ==
  ASSUME NEW v
  PROVE  /\ Head(Resetting(v)).op = "RESET" /\ Tail(Resetting(v)) = Restoring(v)
         /\ Head(Restoring(v)).op = "SET_VOLUME" /\ Head(Restoring(v)).arg = v
         /\ Tail(Restoring(v)) = <<[op |-> "looping", arg |-> FALSE]>>
         /\ Resetting(v) # Restoring(v) /\ Resetting(v) # << >> /\ Restoring(v) # << >>
<1>1. ASSUME NEW a, NEW b, NEW c
      PROVE  /\ Head(<<a, b, c>>) = a /\ Tail(<<a, b, c>>) = <<b, c>>
             /\ Head(<<a, b>>) = a /\ Tail(<<a, b>>) = <<b>>
  OBVIOUS
<1>2. /\ [op |-> "RESET", arg |-> 0].op = "RESET"
      /\ [op |-> "SET_VOLUME", arg |-> v].op = "SET_VOLUME"
      /\ [op |-> "SET_VOLUME", arg |-> v].arg = v
  OBVIOUS
<1>3. /\ Head(Resetting(v)).op = "RESET" /\ Tail(Resetting(v)) = Restoring(v)
      /\ Head(Restoring(v)).op = "SET_VOLUME" /\ Head(Restoring(v)).arg = v
      /\ Tail(Restoring(v)) = <<[op |-> "looping", arg |-> FALSE]>>
  BY <1>1, <1>2 DEF Resetting, Restoring
<1>4. Len(Resetting(v)) = 3 /\ Len(Restoring(v)) = 2
  BY DEF Resetting, Restoring
<1>5. Resetting(v) # Restoring(v)
  BY <1>4
<1>6. Resetting(v) # << >> /\ Restoring(v) # << >>
  BY <1>4, EmptySeq
<1> QED
  BY <1>3, <1>5, <1>6

\* A step that is neither a reset nor a volume to restore is of another request.
LEMMA HarmlessStep ==
  ASSUME request \in Seq(Harmless), request # << >>
  PROVE  /\ Head(request) \in Harmless /\ Tail(request) \in Seq(Harmless)
         /\ Head(request).op \notin {"RESET", "SET_VOLUME"}
<1>1. Head(request) \in Harmless /\ Tail(request) \in Seq(Harmless)
  BY HeadTailProperties
<1> QED
  BY <1>1 DEF Harmless

LEMMA OneIsASeq == ASSUME NEW S, NEW a \in S PROVE <<a>> \in Seq(S)
<1>1. << >> \in Seq(S) /\ Append(<< >>, a) = <<a>>
  OBVIOUS
<1> QED
  BY <1>1, AppendProperties

\* The steps of a request, one after the other.
LEMMA ThreeInARow ==
  ASSUME NEW S, NEW a \in S, NEW b \in S, NEW c \in S
  PROVE  <<a>> \o <<b>> \o <<c>> = <<a, b, c>>
<1> DEFINE t == <<a, b, c>>
<1>1. /\ <<a>> \in Seq(S) /\ <<b>> \in Seq(S) /\ <<c>> \in Seq(S) /\ t \in Seq(S)
      /\ Len(<<a>>) = 1 /\ Len(<<b>>) = 1 /\ Len(<<c>>) = 1 /\ Len(t) = 3
      /\ <<a>>[1] = a /\ <<b>>[1] = b /\ <<c>>[1] = c /\ t[1] = a /\ t[2] = b /\ t[3] = c
  OBVIOUS
<1>2. /\ <<a>> \o <<b>> \in Seq(S) /\ Len(<<a>> \o <<b>>) = 2
      /\ (<<a>> \o <<b>>)[1] = a /\ (<<a>> \o <<b>>)[2] = b
  BY <1>1, ConcatProperties
<1>3. /\ <<a>> \o <<b>> \o <<c>> \in Seq(S) /\ Len(<<a>> \o <<b>> \o <<c>>) = 3
      /\ (<<a>> \o <<b>> \o <<c>>)[1] = a
      /\ (<<a>> \o <<b>> \o <<c>>)[2] = b /\ (<<a>> \o <<b>> \o <<c>>)[3] = c
  BY <1>1, <1>2, ConcatProperties
<1>4. \A i \in 1..3 : (<<a>> \o <<b>> \o <<c>>)[i] = t[i]
  <2>1. \A i \in 1..3 : i = 1 \/ i = 2 \/ i = 3
    OBVIOUS
  <2> QED
    BY <2>1, <1>1, <1>3
<1> HIDE DEF t
<1>5. <<a>> \o <<b>> \o <<c>> = t
  <2>1. /\ <<a>> \o <<b>> \o <<c>> \in Seq(S) /\ t \in Seq(S)
        /\ Len(<<a>> \o <<b>> \o <<c>>) = Len(t)
        /\ \A i \in 1..Len(<<a>> \o <<b>> \o <<c>>) : (<<a>> \o <<b>> \o <<c>>)[i] = t[i]
    BY <1>1, <1>3, <1>4
  <2> QED
    BY <2>1, SeqEqual, Zenon
<1> QED
  BY <1>5 DEF t

\* A request is harmless to the volume, or resets a ready module and restores it.
LEMMA Asked ==
  ASSUME PL!LimitsAreNatural, VolumeInv, PL!Ask
  PROVE  \/ request' \in Seq(Harmless)
         \/ ready /\ request' = Resetting(volume)
<1>2. ASSUME NEW a \in Harmless
      PROVE  <<a>> \in Seq(Harmless)
  BY OneIsASeq
<1>11. ASSUME NEW a \in Harmless, NEW b \in Harmless, NEW c \in Harmless
       PROVE  <<a>> \o <<b>> \o <<c>> \in Seq(Harmless)
  <2>1. /\ <<a>> \in Seq(Harmless) /\ <<b>> \in Seq(Harmless) /\ <<c>> \in Seq(Harmless)
    BY <1>2
  <2> QED
    BY <2>1, ConcatProperties
<1>12. << >> \in Seq(Harmless)
  OBVIOUS
<1>3. ASSUME NEW x \in Int
      PROVE  /\ [op |-> "volume", arg |-> x] \in Harmless
             /\ [op |-> "volumeAndStore", arg |-> x] \in Harmless
             /\ [op |-> "output", arg |-> x] \in Harmless
             /\ [op |-> "play", arg |-> x] \in Harmless
             /\ [op |-> "STOP_AUDIO", arg |-> x] \in Harmless
             /\ [op |-> "SET_LOOP_MODE", arg |-> x] \in Harmless
  BY DEF Harmless
<1>4. [op |-> "looping", arg |-> TRUE] \in Harmless
  BY DEF Harmless
<1>5. /\ 0 \in Int /\ 1 \in Int /\ MaxVolume + 1 \in Int /\ LastOutput + 1 \in Int
      /\ Tracks + 2 \in Int /\ PL!Random \in Int /\ PL!Missing \in Int /\ stored \in Int
  BY DEF PL!LimitsAreNatural, PL!Random, PL!Missing, VolumeInv
<1>6. CASE \E t \in {PL!Random, PL!Missing, 0, Tracks + 2},
              c \in {PL!Random, PL!Missing, 1, LastOutput + 1} :
                request' = PL!PlayMessage(t, c)
  <2>1. PICK t \in Int, c \in Int : request' = PL!PlayMessage(t, c)
    BY <1>5, <1>6
  <2>2. \/ request' = << >>
        \/ request' = <<[op |-> "volume", arg |-> stored]>> \o <<[op |-> "output", arg |-> c]>>
                      \o <<[op |-> "play", arg |-> t]>>
    BY <2>1 DEF PL!PlayMessage, PL!Do
  <2>3. /\ [op |-> "volume", arg |-> stored] \in Harmless
        /\ [op |-> "output", arg |-> c] \in Harmless
        /\ [op |-> "play", arg |-> t] \in Harmless
    BY <1>3, <1>5
  <2> QED
    BY <2>2, <2>3, <1>11, <1>12
<1>7. CASE \E v \in {PL!Missing, 0, MaxVolume + 1} : request' = PL!VolumeMessage(v)
  <2>1. PICK v \in Int : request' = PL!VolumeMessage(v)
    BY <1>5, <1>7
  <2> QED
    BY <2>1, <1>2, <1>3, <1>12 DEF PL!VolumeMessage, PL!Do
<1>8. CASE \/ \E v \in {1, MaxVolume + 1} : request' = PL!Do("volume", v)
           \/ request' = PL!Do("play", 1)
           \/ request' = PL!Do("STOP_AUDIO", 0)
  BY <1>2, <1>3, <1>5, <1>8 DEF PL!Do
<1>9. CASE ready /\ request' = PL!LoopRequest(TRUE)
  <2>1. request' = <<[op |-> "SET_LOOP_MODE", arg |-> 0]>> \o <<[op |-> "STOP_AUDIO", arg |-> 0]>>
                   \o <<[op |-> "looping", arg |-> TRUE]>>
    BY <1>9 DEF PL!LoopRequest, PL!Do
  <2> QED
    BY <2>1, <1>3, <1>4, <1>5, <1>11
<1>10. CASE ready /\ request' = PL!LoopRequest(FALSE)
  <2> DEFINE a == [op |-> "RESET", arg |-> 0]
             b == [op |-> "SET_VOLUME", arg |-> volume]
             c == [op |-> "looping", arg |-> FALSE]
  <2>1. request' = <<a>> \o <<b>> \o <<c>>
    BY <1>10 DEF PL!LoopRequest, PL!Do
  <2>2. Resetting(volume) = <<a, b, c>>
    BY DEF Resetting
  <2> HIDE DEF a, b, c
  <2>3. a \in {a, b, c} /\ b \in {a, b, c} /\ c \in {a, b, c}
    OBVIOUS
  <2>4. <<a>> \o <<b>> \o <<c>> = <<a, b, c>>
    BY <2>3, ThreeInARow
  <2> QED
    BY <1>10, <2>1, <2>2, <2>4
<1> QED
  BY <1>6, <1>7, <1>8, <1>9, <1>10 DEF PL!Ask

\* The steps of the service, which start only with a sensor that is not ready.
LEMMA ServiceKeepsVolume ==
  ASSUME PL!LimitsAreNatural, VolumeInv,
         PL!GiveUp \/ PL!StartInit \/ PL!SetSource \/ PL!Count \/ PL!ReadVolume
  PROVE  VolumeInv'
<1>1. CASE PL!GiveUp \/ PL!StartInit \/ PL!SetSource
  BY <1>1 DEF VolumeInv, PL!GiveUp, PL!StartInit, PL!SetSource
<1>2. CASE PL!Count
  <2>1. ~ready /\ UNCHANGED <<ready, volume, stored, module, request, doubtful>>
    BY <1>2 DEF VolumeInv, PL!Count
  <2> QED
    BY <2>1 DEF VolumeInv
<1>3. CASE PL!ReadVolume
  <2>1. ~ready /\ service' = "idle" /\ UNCHANGED <<stored, module, request>>
    BY <1>3 DEF VolumeInv, PL!ReadVolume
  <2>2. volume' \in Int /\ (~doubtful' => volume' = module.volume)
    BY <1>3 DEF PL!ReadVolume, PL!LimitsAreNatural
  <2>3. request' \in Seq(Harmless)
    BY <2>1 DEF VolumeInv
  <2> QED
    BY <2>1, <2>2, <2>3 DEF VolumeInv
<1> QED
  BY <1>1, <1>2, <1>3

\* A new request and the settings of the player.
LEMMA RequestsKeepVolume ==
  ASSUME PL!LimitsAreNatural, VolumeInv,
         PL!Ask \/ PL!StoreVolume \/ PL!SetVolume \/ PL!SetOutput
  PROVE  VolumeInv'
<1>1. CASE PL!Ask
  <2>1. /\ request = << >>
        /\ UNCHANGED <<ready, service, stored, volume, module, doubtful>>
    BY <1>1 DEF PL!Ask
  <2>2. request # Restoring(volume)
    BY <2>1, StepsOfResetting
  <2> QED
    BY <1>1, <2>1, <2>2, Asked DEF VolumeInv
<1>2. CASE PL!StoreVolume
  <2>1. stored' \in Int
    BY <1>2 DEF PL!StoreVolume, PL!LimitsAreNatural
  <2> QED
    BY <1>2, <2>1 DEF PL!StoreVolume, VolumeInv
<1>3. CASE PL!SetVolume
  <2>1. request # << >> /\ Head(request).op \in {"volume", "volumeAndStore"}
        /\ request' = Tail(request) /\ UNCHANGED <<ready, service>>
    BY <1>3 DEF PL!SetVolume, PL!Now
  <2>2. request \in Seq(Harmless) /\ request' \in Seq(Harmless)
    BY <2>1, StepsOfResetting, HarmlessStep DEF VolumeInv
  <2>3. Head(request) \in Harmless
    BY <2>1, <2>2, HarmlessStep
  <2>4. CASE UNCHANGED <<module, volume, stored, doubtful>>
    BY <2>1, <2>2, <2>4, StepsOfResetting, HarmlessStep DEF VolumeInv
  <2>5. CASE /\ PL!Legal(PL!Arg) /\ volume' = PL!Arg
             /\ \/ module' = PL!After("SET_VOLUME", PL!Arg)
                \/ doubtful' = TRUE /\ module' = module
             /\ stored' \in {stored, PL!Arg}
    <3>1. PL!Arg \in 0..MaxVolume
      BY <2>1, <2>3, <2>5 DEF PL!Arg, Harmless, PL!Legal, PL!LimitsAreNatural
    <3>2. module' = [module EXCEPT !.volume = PL!Arg] \/ (doubtful' = TRUE /\ module' = module)
      BY <2>5 DEF PL!After
    <3>3. /\ module'.volume \in 0..MaxVolume
          /\ module' = [volume |-> module'.volume, loop |-> module'.loop, track |-> module'.track]
          /\ ~doubtful' => volume' = module'.volume
      BY <2>5, <3>1, <3>2 DEF VolumeInv
    <3>4. volume' \in Int /\ stored' \in Int
      BY <2>5, <3>1 DEF VolumeInv
    <3> QED
      BY <2>1, <2>2, <3>3, <3>4 DEF VolumeInv
  <2> QED
    BY <1>3, <2>4, <2>5 DEF PL!SetVolume
<1>4. CASE PL!SetOutput
  <2>1. request # << >> /\ Head(request).op = "output" /\ request' = Tail(request)
        /\ UNCHANGED <<ready, service, stored, volume, module, doubtful>>
    BY <1>4 DEF PL!SetOutput, PL!Now
  <2> QED
    BY <2>1, StepsOfResetting, HarmlessStep DEF VolumeInv
<1> QED
  BY <1>1, <1>2, <1>3, <1>4

\* The packets of a request on their way to the module.
LEMMA PacketsKeepVolume ==
  ASSUME PL!LimitsAreNatural, VolumeInv,
         PL!Play \/ PL!PlayUncounted \/ PL!SendPacket \/ PL!SetLooping
  PROVE  VolumeInv'
<1>1. CASE PL!Play \/ PL!PlayUncounted
  <2>1. /\ request # << >> /\ Head(request).op = "play" /\ request' = Tail(request)
        /\ UNCHANGED <<ready, service, stored, volume, doubtful>>
    BY <1>1 DEF PL!Play, PL!PlayUncounted, PL!Now
  <2>2. request \in Seq(Harmless) /\ request' \in Seq(Harmless)
    BY <2>1, StepsOfResetting, HarmlessStep DEF VolumeInv
  <2>3. request # Restoring(volume)
    BY <2>1, StepsOfResetting
  <2>4. \/ module' = module
        \/ \E t : module' = [module EXCEPT !.track = t]
    BY <1>1 DEF PL!Play, PL!PlayUncounted, PL!After
  <2>5. /\ module'.volume = module.volume
        /\ module' = [volume |-> module'.volume, loop |-> module'.loop, track |-> module'.track]
    BY <2>4 DEF VolumeInv
  <2> QED
    BY <2>1, <2>2, <2>3, <2>5 DEF VolumeInv
<1>2. CASE PL!SetLooping
  <2>1. /\ request # << >> /\ Head(request).op = "looping" /\ request' = Tail(request)
        /\ UNCHANGED <<ready, service, stored, volume, module, doubtful>>
    BY <1>2 DEF PL!SetLooping, PL!Now
  <2> QED
    BY <2>1, StepsOfResetting, HarmlessStep DEF VolumeInv
<1>3. CASE PL!SendPacket
  <2>1. PICK command \in {"STOP_AUDIO", "SET_LOOP_MODE", "RESET", "SET_VOLUME"} :
           /\ PL!Now(command)
           /\ \/ /\ command = "SET_VOLUME" => PL!Legal(PL!Arg)
                 /\ module' = PL!After(command, PL!Arg)
                 /\ doubtful' = (doubtful /\ command # "SET_VOLUME")
              \/ /\ doubtful' = (doubtful \/ command = "SET_VOLUME")
                 /\ UNCHANGED module
              \/ /\ command = "SET_VOLUME" /\ ~PL!Legal(PL!Arg)
                 /\ UNCHANGED <<module, doubtful>>
    BY <1>3 DEF PL!SendPacket
  <2>2. /\ request # << >> /\ Head(request).op = command /\ request' = Tail(request)
        /\ UNCHANGED <<ready, service, stored, volume>>
    BY <1>3, <2>1 DEF PL!SendPacket, PL!Now
  <2>3. CASE command \in {"STOP_AUDIO", "SET_LOOP_MODE"}
    <3>1. request \in Seq(Harmless) /\ request' \in Seq(Harmless)
      BY <2>2, <2>3, StepsOfResetting, HarmlessStep DEF VolumeInv
    <3>2. request # Restoring(volume)
      BY <2>2, <2>3, StepsOfResetting
    <3>3. \/ module' = module
          \/ module' = [module EXCEPT !.track = 0]
          \/ module' = [module EXCEPT !.loop = TRUE]
      BY <2>1, <2>3 DEF PL!After
    <3>4. /\ module'.volume = module.volume
          /\ module' = [volume |-> module'.volume, loop |-> module'.loop, track |-> module'.track]
      BY <3>3 DEF VolumeInv
    <3>5. ~doubtful' => ~doubtful
      BY <2>1, <2>3
    <3> QED
      BY <2>2, <3>1, <3>2, <3>4, <3>5 DEF VolumeInv
  <2>4. CASE command = "RESET"
    <3>1. ready /\ request' = Restoring(volume)
      BY <2>2, <2>4, StepsOfResetting, HarmlessStep DEF VolumeInv
    <3>2. module' = module \/ module' = PL!Reset
      BY <2>1, <2>4 DEF PL!After
    <3>3. /\ module'.volume \in 0..MaxVolume
          /\ module' = [volume |-> module'.volume, loop |-> module'.loop, track |-> module'.track]
      BY <3>2 DEF VolumeInv, PL!Reset, PL!LimitsAreNatural
    <3>4. ~doubtful' => ~doubtful
      BY <2>1, <2>4
    <3> QED
      BY <2>2, <3>1, <3>3, <3>4 DEF VolumeInv
  <2>5. CASE command = "SET_VOLUME"
    <3>1. ready /\ request = Restoring(volume)
      BY <2>2, <2>5, StepsOfResetting, HarmlessStep DEF VolumeInv
    <3>2. /\ PL!Arg = volume
          /\ request' = <<[op |-> "looping", arg |-> FALSE]>>
      BY <2>2, <3>1, StepsOfResetting DEF PL!Arg
    <3>3. request' \in Seq(Harmless)
      <4>1. [op |-> "looping", arg |-> FALSE] \in Harmless
        BY DEF Harmless
      <4> QED
        BY <3>2, <4>1, OneIsASeq
    <3>4. CASE module' = PL!After("SET_VOLUME", volume) /\ PL!Legal(volume)
      <4>1. module' = [volume |-> volume, loop |-> module.loop, track |-> module.track]
        BY <3>4 DEF PL!After, VolumeInv
      <4>2. volume \in 0..MaxVolume
        BY <3>4 DEF PL!Legal, VolumeInv, PL!LimitsAreNatural
      <4> QED
        BY <2>2, <3>1, <3>3, <4>1, <4>2 DEF VolumeInv
    <3>5. CASE doubtful' /\ UNCHANGED module
      BY <2>2, <3>1, <3>3, <3>5 DEF VolumeInv
    <3>6. CASE ~PL!Legal(volume) /\ UNCHANGED <<module, doubtful>>
      <4>1. doubtful
        BY <3>1, <3>6 DEF PL!Legal, VolumeInv, PL!LimitsAreNatural
      <4> QED
        BY <3>5, <3>6, <4>1
    <3> QED
      BY <2>1, <2>5, <3>2, <3>4, <3>5, <3>6
  <2> QED
    BY <2>3, <2>4, <2>5
<1> QED
  BY <1>1, <1>2, <1>3

\* With no request in hand, what the sensor calls its volume is what the module
\* plays at, through resets and restarts, for any volumes, tracks and messages; and
\* so it is again from the next volume on that gets to the module, after lost packets
\* and wrong answers (Mp3Sensor::_doInit, setVolume and setLoop, readVolume).
THEOREM VolumeStaysTrue ==
  ASSUME PL!LimitsAreNatural
  PROVE  PL!Spec => []VolumeIsTrue
<1>1. PL!Init => VolumeInv
  <2>1. 15 % (MaxVolume + 1) \in Int
    BY DEF PL!LimitsAreNatural
  <2>2. << >> \in Seq(Harmless)
    OBVIOUS
  <2> QED
    BY <2>1, <2>2 DEF PL!Init, VolumeInv, PL!Reset, PL!LimitsAreNatural
<1>2. VolumeInv /\ [PL!Next]_(PL!vars) => VolumeInv'
  <2> SUFFICES ASSUME VolumeInv, [PL!Next]_(PL!vars) PROVE VolumeInv'
    OBVIOUS
  <2>1. CASE PL!Restart
    <3>1. 15 % (MaxVolume + 1) \in Int /\ << >> \in Seq(Harmless)
      BY DEF PL!LimitsAreNatural
    <3> QED
      BY <2>1, <3>1 DEF PL!Restart, VolumeInv
  <2>2. CASE UNCHANGED PL!vars
    BY <2>2 DEF PL!vars, VolumeInv
  <2> QED
    BY <2>1, <2>2, ServiceKeepsVolume, RequestsKeepVolume, PacketsKeepVolume DEF PL!Next
<1>3. VolumeInv => VolumeIsTrue
  <2>1. << >> # Restoring(volume)
    BY StepsOfResetting
  <2> QED
    BY <2>1 DEF VolumeInv, VolumeIsTrue, PL!VolumeIsTrue
<1> QED
  BY <1>1, <1>2, <1>3, PTL DEF PL!Spec

-----------------------------------------------------------------------------
(* The driver of the module                                                *)

IsDriver(s) ==
  DOMAIN s = {"index", "received", "sending", "available", "type", "parameter"}

\* Where the parser stands after a byte; at 6 the frame ends, whole or wrong.
NextIndex(i, b) ==
  IF i = 0 THEN (IF b = 126 THEN 1 ELSE 0)
  ELSE IF i = 6 \/ (i = 1 /\ b # 255) \/ (i = 2 /\ b # 6) THEN 0
  ELSE i + 1

\* The bytes of a frame: the command, the parameter and the check sum may be
\* anything, but the command is none of the bytes that begin and end a frame.
Commands == Int \ {126, 239}
Frames == {PD!Frame(c, p) : c \in Commands, p \in Int}

\* A parser that was anywhere when a whole frame began has found its end with
\* it, in step with the frame or not.
Behind(i, line, c, p, s) ==
  \/ \E g \in Seq(Int) : line = g \o <<126, 255, 6, c, p, s, 239>>
  \/ line = <<255, 6, c, p, s, 239>> /\ i \in {0, 1, 4, 5, 6}
  \/ line = <<6, c, p, s, 239>> /\ i \in {0, 2, 5, 6}
  \/ line = <<c, p, s, 239>> /\ i \in {0, 3, 6}
  \/ line = <<p, s, 239>> /\ i \in {0, 4}
  \/ line = <<s, 239>> /\ i \in {0, 1, 5}
  \/ line = <<239>> /\ i \in {0, 1, 2, 6}
InStep(i, line) ==
  \/ line = << >> /\ i = 0
  \/ \E c \in Commands, p, s \in Int : Behind(i, line, c, p, s)

LineInv ==
  /\ IsDriver(d) /\ d.index \in 0..6
  /\ rx \in Seq(Int) /\ due \in Seq(Frames)
  /\ call \in PD!Calls /\ asked \in Nat
  /\ intact => InStep(d.index, rx)

-----------------------------------------------------------------------------
(* A quiet line                                                            *)

\* The line has the frame f from its byte i + 1 on, and rest after it.
OnLine(line, f, i, rest) ==
  /\ Len(line) = 7 - i + Len(rest)
  /\ \A j \in 1..7 - i : line[j] = f[i + j]
  /\ \A j \in 1..Len(rest) : line[7 - i + j] = rest[j]

\* Of that frame the parser s has read the first i bytes.
Reading(s, line, f, rest) ==
  /\ s.index \in 0..6
  /\ s.index > 0 => /\ s.received \in Seq(Int) /\ Len(s.received) = s.index
                    /\ \A j \in 1..s.index : s.received[j] = f[j]
  /\ OnLine(line, f, s.index, rest)

\* The command and the parameter that the parser has read.
HasRead(s, c, p) == s.received[4] = c /\ s.received[5] = p

\* What is on its way from the module, sent or not: nothing, a frame, or two.
NoneComes(s, line, sent) == line = << >> /\ sent = << >> /\ s.index = 0
OneComes(s, line, sent, f) ==
  \/ line = << >> /\ sent = <<f>> /\ s.index = 0
  \/ sent = << >> /\ Reading(s, line, f, << >>)
TwoCome(s, line, sent, f, g) ==
  \/ line = << >> /\ sent = <<f, g>> /\ s.index = 0
  \/ sent = <<g>> /\ Reading(s, line, f, << >>)
  \/ sent = << >> /\ Reading(s, line, f, g)

Acked == PD!Frame(65, 0)
Online == PD!Frame(63, 2)
Answered == PD!Frame(call.command, asked)

\* An answer comes before its acknowledgement, news of a start after it; no
\* call begins to send before its acknowledgement came.
Comes(s, line, sent) ==
  IF pc = "answer"
  THEN IF call.kind = "begin"
       THEN \/ ack /\ s.sending /\ TwoCome(s, line, sent, Acked, Online)
            \/ ~s.sending /\ OneComes(s, line, sent, Online)
       ELSE \/ ack /\ s.sending /\ TwoCome(s, line, sent, Answered, Acked)
            \/ ~ack /\ ~s.sending /\ OneComes(s, line, sent, Answered)
  ELSE \/ ack /\ s.sending /\ OneComes(s, line, sent, Acked)
       \/ ~s.sending /\ NoneComes(s, line, sent)

Quiet ==
  /\ ack \in BOOLEAN /\ d.sending \in BOOLEAN /\ d.available = FALSE
  /\ pc \in {"idle", "send", "answer", "poll"}
  /\ pc = "answer" => call.kind \in {"begin", "typed", "untyped"}
  /\ pc = "send" => call.kind # "poll"
  /\ pc = "poll" => call.kind = "poll"
  /\ pc = "idle" /\ PD!IsQuery => result = asked
  /\ Comes(d, rx, due)

QuietInv == ~disturbed => Quiet

-----------------------------------------------------------------------------
(* The parser, byte by byte                                                *)

\* What the two ways to end a frame leave in the globals.
LEMMA MessageShape ==
  ASSUME NEW s, NEW type, NEW parameter, IsDriver(s)
  PROVE  /\ IsDriver(PD!HandleMessage(s, type, parameter))
         /\ PD!HandleMessage(s, type, parameter).index = 0
  BY DEF PD!HandleMessage, IsDriver

\* A frame of news or of an answer makes the driver available with it.
LEMMA MessageIs ==
  ASSUME NEW s, NEW type, NEW parameter, IsDriver(s)
  PROVE  /\ PD!HandleMessage(s, type, parameter).sending = s.sending
         /\ PD!HandleMessage(s, type, parameter).available
         /\ PD!HandleMessage(s, type, parameter).type = type
         /\ PD!HandleMessage(s, type, parameter).parameter = parameter
  BY DEF PD!HandleMessage, IsDriver

\* An error sets the parser back to the start of a frame.
LEMMA ErrorIs ==
  ASSUME NEW s, NEW type, IsDriver(s)
  PROVE  IsDriver(PD!HandleError(s, type)) /\ PD!HandleError(s, type).index = 0
<1> DEFINE m == PD!HandleMessage(s, type, 0)
<1>1. IsDriver(m) /\ m.index = 0
  BY MessageShape
<1>2. PD!HandleError(s, type) = [m EXCEPT !.sending = FALSE]
  BY DEF PD!HandleError
<1> HIDE DEF m
<1> QED
  BY <1>1, <1>2 DEF IsDriver

\* A message without a case of its own is an error, and ends the frame too.
LEMMA StackEnds ==
  ASSUME NEW s, IsDriver(s), s.index = 0
  PROVE  IsDriver(PD!ParseStack(s)) /\ PD!ParseStack(s).index = 0
<1>1. \A type, p :
         /\ IsDriver(PD!HandleMessage(s, type, p)) /\ PD!HandleMessage(s, type, p).index = 0
         /\ IsDriver(PD!HandleError(s, type)) /\ PD!HandleError(s, type).index = 0
  BY MessageShape, ErrorIs
<1>2. \A disk, card, p :
         IsDriver(PD!Which(s, p, disk, card)) /\ PD!Which(s, p, disk, card).index = 0
  <2>1. \A p : /\ IsDriver([s EXCEPT !.parameter = p])
               /\ [s EXCEPT !.parameter = p].index = 0
    BY DEF IsDriver
  <2> QED
    BY <1>1, <2>1 DEF PD!Which
<1>3. IsDriver([s EXCEPT !.sending = FALSE]) /\ [s EXCEPT !.sending = FALSE].index = 0
  BY DEF IsDriver
<1> QED
  BY <1>1, <1>2, <1>3 DEF PD!ParseStack

\* The next index of the parser depends on its index and on the byte only.
LEMMA ReceivedIs ==
  ASSUME NEW s, NEW b, IsDriver(s), s.index \in 0..6
  PROVE  /\ IsDriver(PD!Received(s, b))
         /\ PD!Received(s, b).index = NextIndex(s.index, b)
<1> DEFINE took == [s EXCEPT !.index = s.index + 1, !.received = Append(s.received, b)]
<1>1. /\ IsDriver(took) /\ took.index = s.index + 1
      /\ IsDriver([took EXCEPT !.received = <<b>>])
      /\ [took EXCEPT !.received = <<b>>].index = s.index + 1
      /\ IsDriver([s EXCEPT !.index = 0]) /\ [s EXCEPT !.index = 0].index = 0
  BY DEF IsDriver
<1>2. IsDriver(PD!HandleError(s, "WrongStack")) /\ PD!HandleError(s, "WrongStack").index = 0
  BY MessageShape, ErrorIs
<1>3. /\ IsDriver(PD!ParseStack([s EXCEPT !.index = 0]))
      /\ PD!ParseStack([s EXCEPT !.index = 0]).index = 0
  BY <1>1, StackEnds
<1>4. CASE s.index = 0
  <2>1. PD!Received(s, b) = IF b = 126 THEN [took EXCEPT !.received = <<b>>] ELSE s
    BY <1>4 DEF PD!Received, PD!IsWrong, PD!Header
  <2> QED
    BY <1>1, <1>4, <2>1 DEF NextIndex
<1>5. CASE s.index # 0 /\ PD!IsWrong(s, b)
  <2>1. PD!Received(s, b) = PD!HandleError(s, "WrongStack")
    BY <1>5 DEF PD!Received
  <2> QED
    BY <1>2, <1>5, <2>1 DEF NextIndex, PD!IsWrong, PD!Version, PD!Length
<1>6. CASE s.index = 6 /\ ~PD!IsWrong(s, b)
  <2>1. PD!Received(s, b) = PD!ParseStack([s EXCEPT !.index = 0])
    BY <1>6 DEF PD!Received
  <2> QED
    BY <1>3, <1>6, <2>1 DEF NextIndex
<1>7. CASE s.index \in 1..5 /\ ~PD!IsWrong(s, b)
  <2>1. PD!Received(s, b) = took
    BY <1>7 DEF PD!Received
  <2> HIDE DEF took
  <2> QED
    BY <1>1, <1>7, <2>1 DEF NextIndex, PD!IsWrong, PD!Version, PD!Length
<1> QED
  BY <1>4, <1>5, <1>6, <1>7

LEMMA TailOfConcat ==
  ASSUME NEW S, NEW s \in Seq(S), NEW t \in Seq(S), s # << >>
  PROVE  Tail(s \o t) = Tail(s) \o t
<1>1. /\ s \o t \in Seq(S) /\ Len(s \o t) = Len(s) + Len(t)
      /\ \A i \in 1..Len(s) + Len(t) : (s \o t)[i] = IF i <= Len(s) THEN s[i] ELSE t[i - Len(s)]
  BY ConcatProperties
<1>2. /\ Len(s) \in Nat /\ Len(s) > 0 /\ Len(t) \in Nat
      /\ Tail(s) \in Seq(S) /\ Len(Tail(s)) = Len(s) - 1
      /\ \A i \in 1..Len(s) - 1 : Tail(s)[i] = s[i + 1]
  BY HeadTailProperties, EmptySeq, LenProperties
<1>3. s \o t # << >>
  BY <1>1, <1>2, EmptySeq
<1>4. /\ Tail(s \o t) \in Seq(S) /\ Len(Tail(s \o t)) = Len(s) + Len(t) - 1
      /\ \A i \in 1..Len(s) + Len(t) - 1 : Tail(s \o t)[i] = (s \o t)[i + 1]
  BY <1>1, <1>2, <1>3, HeadTailProperties
<1>5. /\ Tail(s) \o t \in Seq(S) /\ Len(Tail(s) \o t) = Len(s) - 1 + Len(t)
      /\ \A i \in 1..Len(s) - 1 + Len(t) :
            (Tail(s) \o t)[i] = IF i <= Len(s) - 1 THEN Tail(s)[i] ELSE t[i - (Len(s) - 1)]
  BY <1>2, ConcatProperties
<1>6. ASSUME NEW i \in 1..Len(s) + Len(t) - 1
      PROVE  Tail(s \o t)[i] = (Tail(s) \o t)[i]
  <2>1. i + 1 \in 1..Len(s) + Len(t) /\ i \in 1..Len(s) - 1 + Len(t)
    BY <1>2
  <2>2. Tail(s \o t)[i] = IF i + 1 <= Len(s) THEN s[i + 1] ELSE t[i + 1 - Len(s)]
    BY <1>1, <1>4, <2>1
  <2>3. (Tail(s) \o t)[i] = IF i <= Len(s) - 1 THEN s[i + 1] ELSE t[i - (Len(s) - 1)]
    BY <1>2, <1>5, <2>1
  <2>4. i + 1 - Len(s) = i - (Len(s) - 1) /\ (i + 1 <= Len(s) <=> i <= Len(s) - 1)
    BY <1>2, <2>1
  <2> QED
    BY <2>2, <2>3, <2>4
<1>7. /\ Len(Tail(s \o t)) = Len(Tail(s) \o t)
      /\ \A i \in 1..Len(Tail(s \o t)) : Tail(s \o t)[i] = (Tail(s) \o t)[i]
  BY <1>2, <1>4, <1>5, <1>6
<1> QED
  BY <1>4, <1>5, <1>7, SeqEqual, Zenon

\* A parser in any position is in step once a frame has passed.
LEMMA StayInStep ==
  ASSUME NEW i \in 0..6, NEW line \in Seq(Int), line # << >>, InStep(i, line)
  PROVE  InStep(NextIndex(i, Head(line)), Tail(line))
<1>1. PICK c \in Commands, p \in Int, s \in Int : Behind(i, line, c, p, s)
  BY DEF InStep
<1> DEFINE j == NextIndex(i, Head(line))
           f == <<126, 255, 6, c, p, s, 239>>
<1>2. c \in Int /\ c # 126 /\ c # 239
  BY DEF Commands
<1>3. ASSUME NEW g \in Seq(Int), line = g \o f
      PROVE  InStep(j, Tail(line))
  <2>1. f \in Seq(Int) /\ f # << >>
    BY <1>2
  <2>2. CASE g # << >>
    <3>1. Tail(line) = Tail(g) \o f /\ Tail(g) \in Seq(Int)
      <4> HIDE DEF f
      <4>1. Tail(g \o f) = Tail(g) \o f
        BY <2>1, <2>2, TailOfConcat
      <4>2. Tail(g) \in Seq(Int)
        BY <2>2, HeadTailProperties
      <4> QED
        BY <1>3, <4>1, <4>2
    <3>2. Behind(j, Tail(line), c, p, s)
      <4> HIDE DEF j
      <4> QED
        BY <3>1 DEF Behind
    <3> QED
      BY <1>1, <3>2 DEF InStep
  <2>3. CASE g = << >>
    <3>1. line = f
      BY <1>3, <2>1, <2>3, ConcatEmptySeq
    <3>2. Head(line) = 126 /\ Tail(line) = <<255, 6, c, p, s, 239>>
      BY <3>1
    <3>3. j \in {0, 1, 4, 5, 6}
      BY <3>2 DEF NextIndex
    <3> HIDE DEF j
    <3>4. Behind(j, Tail(line), c, p, s)
      BY <3>2, <3>3 DEF Behind
    <3> QED
      BY <1>1, <3>4 DEF InStep
  <2> QED
    BY <2>2, <2>3
<1>4. CASE line = <<255, 6, c, p, s, 239>> /\ i \in {0, 1, 4, 5, 6}
  <2>1. Head(line) = 255 /\ Tail(line) = <<6, c, p, s, 239>>
    BY <1>4
  <2>2. j \in {0, 2, 5, 6}
    BY <1>4, <2>1 DEF NextIndex
  <2> HIDE DEF j
  <2>3. Behind(j, Tail(line), c, p, s)
    BY <2>1, <2>2 DEF Behind
  <2> QED
    BY <1>1, <2>3 DEF InStep, j
<1>5. CASE line = <<6, c, p, s, 239>> /\ i \in {0, 2, 5, 6}
  <2>1. Head(line) = 6 /\ Tail(line) = <<c, p, s, 239>>
    BY <1>5
  <2>2. j \in {0, 3, 6}
    BY <1>5, <2>1 DEF NextIndex
  <2> HIDE DEF j
  <2>3. Behind(j, Tail(line), c, p, s)
    BY <2>1, <2>2 DEF Behind
  <2> QED
    BY <1>1, <2>3 DEF InStep, j
<1>6. CASE line = <<c, p, s, 239>> /\ i \in {0, 3, 6}
  <2>1. Head(line) = c /\ Tail(line) = <<p, s, 239>>
    BY <1>6
  <2>2. j \in {0, 4}
    BY <1>2, <1>6, <2>1 DEF NextIndex
  <2> HIDE DEF j
  <2>3. Behind(j, Tail(line), c, p, s)
    BY <2>1, <2>2 DEF Behind
  <2> QED
    BY <1>1, <2>3 DEF InStep, j
<1>7. CASE line = <<p, s, 239>> /\ i \in {0, 4}
  <2>1. Head(line) = p /\ Tail(line) = <<s, 239>>
    BY <1>7
  <2>2. j \in {0, 1, 5}
    BY <1>7, <2>1 DEF NextIndex
  <2> HIDE DEF j
  <2>3. Behind(j, Tail(line), c, p, s)
    BY <2>1, <2>2 DEF Behind
  <2> QED
    BY <1>1, <2>3 DEF InStep, j
<1>8. CASE line = <<s, 239>> /\ i \in {0, 1, 5}
  <2>1. Head(line) = s /\ Tail(line) = <<239>>
    BY <1>8
  <2>2. j \in {0, 1, 2, 6}
    BY <1>8, <2>1 DEF NextIndex
  <2> HIDE DEF j
  <2>3. Behind(j, Tail(line), c, p, s)
    BY <2>1, <2>2 DEF Behind
  <2> QED
    BY <1>1, <2>3 DEF InStep, j
<1>9. CASE line = <<239>> /\ i \in {0, 1, 2, 6}
  <2>1. Head(line) = 239 /\ Tail(line) = << >>
    BY <1>9
  <2>2. j = 0
    BY <1>9, <2>1 DEF NextIndex
  <2> HIDE DEF j
  <2> QED
    BY <2>1, <2>2 DEF InStep, j
<1> QED
  BY <1>1, <1>3, <1>4, <1>5, <1>6, <1>7, <1>8, <1>9 DEF Behind

-----------------------------------------------------------------------------
(* The line                                                                *)

\* All frames are seven bytes, of which three say what the frame is about.
LEMMA FrameIs ==
  ASSUME NEW f \in Frames
  PROVE  /\ f \in Seq(Int) /\ Len(f) = 7
         /\ \E c \in Commands, p, s \in Int : f = <<126, 255, 6, c, p, s, 239>>
<1>1. PICK c \in Commands, p \in Int : f = PD!Frame(c, p)
  BY DEF Frames
<1> DEFINE s == PD!CheckSum(c, p)
<1>2. s \in Int
  <2>1. -(255 + 6 + c + p) \in Int
    BY <1>1 DEF Commands
  <2> QED
    BY <2>1 DEF PD!CheckSum, PD!Version, PD!Length
<1>3. f = <<126, 255, 6, c, p, s, 239>>
  BY <1>1 DEF PD!Frame, PD!Header, PD!Version, PD!Length, PD!End
<1> HIDE DEF s
<1>4. f \in Seq(Int) /\ Len(f) = 7
  BY <1>1, <1>2, <1>3 DEF Commands
<1> QED
  BY <1>1, <1>2, <1>3, <1>4

\* What the module sends: answers, acknowledgements and news.
LEMMA SentAreFrames ==
  ASSUME LineInv
  PROVE  /\ PD!Transmit => PD!Reply \in Seq(Frames) /\ asked' \in Nat
         /\ PD!News => due' \in Seq(Frames)
<1>1. ASSUME NEW c \in {65, 63, 61, 58, 59, 64, 0, 3, 67, 72, 12}, NEW p \in Int
      PROVE  PD!Frame(c, p) \in Frames
  BY DEF Frames, Commands
<1>2. << >> \in Seq(Frames) /\ due \in Seq(Frames)
  BY DEF LineInv
<1>3. ASSUME PD!Transmit PROVE PD!Reply \in Seq(Frames) /\ asked' \in Nat
  <2>1. asked' \in Nat
    BY <1>3 DEF PD!Transmit, LineInv
  <2>2. call.command \in {0, 3, 67, 72, 12}
    BY DEF LineInv, PD!Calls, PD!Order, PD!Query
  <2>3. /\ PD!Frame(PD!Ack, 0) \in Frames /\ PD!Frame(PD!Online, 2) \in Frames
        /\ PD!Frame(call.command, asked') \in Frames
    BY <1>1, <2>1, <2>2 DEF PD!Ack, PD!Online
  <2>4. /\ <<PD!Frame(PD!Ack, 0)>> \in Seq(Frames)
        /\ <<PD!Frame(call.command, asked')>> \in Seq(Frames)
    BY <2>3, OneIsASeq
  <2> DEFINE acked == IF ack THEN <<PD!Frame(PD!Ack, 0)>> ELSE << >>
  <2>5. acked \in Seq(Frames)
    BY <1>2, <2>4
  <2>6. PD!Reply \in {acked, Append(acked, PD!Frame(PD!Online, 2)),
                      <<PD!Frame(call.command, asked')>> \o acked}
    BY DEF PD!Reply
  <2> HIDE DEF acked
  <2>7. Append(acked, PD!Frame(PD!Online, 2)) \in Seq(Frames)
    BY <2>3, <2>5, AppendProperties
  <2>8. <<PD!Frame(call.command, asked')>> \o acked \in Seq(Frames)
    BY <2>4, <2>5, ConcatProperties
  <2> QED
    BY <2>1, <2>5, <2>6, <2>7, <2>8
<1>4. ASSUME PD!News PROVE due' \in Seq(Frames)
  <2>1. /\ PD!Frame(PD!PlayFinished, 1) \in Frames /\ PD!Frame(PD!Inserted, 1) \in Frames
        /\ PD!Frame(PD!Removed, 2) \in Frames /\ PD!Frame(PD!Failure, 5) \in Frames
        /\ PD!Frame(PD!Online, 1) \in Frames /\ PD!Frame(0, 0) \in Frames
    BY <1>1 DEF PD!PlayFinished, PD!Inserted, PD!Removed, PD!Failure, PD!Online
  <2>2. \A f \in Frames : <<f>> \in Seq(Frames)
    BY OneIsASeq
  <2>3. <<PD!Frame(PD!PlayFinished, 1), PD!Frame(PD!PlayFinished, 1)>> \in Seq(Frames)
    BY <2>1
  <2>4. PICK f \in Seq(Frames) : due' = due \o f
    BY <1>4, <2>1, <2>2, <2>3 DEF PD!News
  <2> QED
    BY <1>2, <2>4, ConcatProperties
<1> QED
  BY <1>3, <1>4

\* A whole frame at the end of the line: whatever is before it, the parser will
\* be in step once it has passed.
LEMMA WholeFramePuts ==
  ASSUME LineInv, due # << >>
  PROVE  /\ rx \o Head(due) \in Seq(Int) /\ InStep(d.index, rx \o Head(due))
         /\ Tail(due) \in Seq(Frames)
         /\ \A i \in DOMAIN Head(due) : rx \o PD!RemoveAt(Head(due), i) \in Seq(Int)
<1>1. Head(due) \in Frames /\ Tail(due) \in Seq(Frames) /\ rx \in Seq(Int)
  BY HeadTailProperties DEF LineInv
<1> DEFINE f == Head(due)
<1>2. /\ f \in Seq(Int) /\ Len(f) = 7
      /\ \E c \in Commands, p, s \in Int : f = <<126, 255, 6, c, p, s, 239>>
  BY <1>1, FrameIs
<1> HIDE DEF f
<1>3. rx \o f \in Seq(Int)
  BY <1>1, <1>2, ConcatProperties
<1>4. InStep(d.index, rx \o f)
  BY <1>1, <1>2 DEF InStep, Behind
<1>5. ASSUME NEW i \in DOMAIN f
      PROVE  rx \o PD!RemoveAt(f, i) \in Seq(Int)
  <2>1. i \in 1..7 /\ \A j \in 1..7 : f[j] \in Int
    BY <1>2, ElementOfSeq, LenProperties
  <2>2. SubSeq(f, 1, i - 1) \in Seq(Int) /\ SubSeq(f, i + 1, Len(f)) \in Seq(Int)
    BY <1>2, <2>1, SubSeqProperties
  <2>3. SubSeq(f, 1, i - 1) \o SubSeq(f, i + 1, Len(f)) \in Seq(Int)
    BY <2>2, ConcatProperties
  <2> QED
    BY <1>1, <2>3, ConcatProperties DEF PD!RemoveAt
<1> QED
  BY <1>1, <1>3, <1>4, <1>5 DEF f

\* A byte is read: the parser goes on, or starts anew.
LEMMA ReadKeepsLine ==
  ASSUME LineInv, PD!ReadByte
  PROVE  LineInv'
<1> DEFINE b == Head(rx)
           r == PD!Received(d, b)
<1>1. /\ rx # << >> /\ rx' = Tail(rx)
      /\ d' = r \/ d' = [r EXCEPT !.available = FALSE]
      /\ UNCHANGED <<due, call, asked, intact>>
  BY DEF PD!ReadByte, PD!Return, PD!Consumed
<1>2. rx \in Seq(Int) /\ d.index \in 0..6 /\ IsDriver(d)
  BY DEF LineInv
<1>3. b \in Int /\ rx' \in Seq(Int)
  BY <1>1, <1>2, HeadTailProperties
<1>4. IsDriver(r) /\ r.index = NextIndex(d.index, b)
  BY <1>2, ReceivedIs
<1>5. r.index \in 0..6
  BY <1>2, <1>4 DEF NextIndex
<1>6. intact => InStep(r.index, rx')
  BY <1>1, <1>2, <1>4, StayInStep DEF LineInv
<1> HIDE DEF r
<1>7. IsDriver(d') /\ d'.index = r.index
  BY <1>1, <1>4 DEF IsDriver
<1> QED
  BY <1>1, <1>3, <1>5, <1>6, <1>7 DEF LineInv

\* The calls of the driver read nothing; a time-out starts the parser anew on an empty line.
LEMMA DriverKeepsLine ==
  ASSUME LineInv, PD!Begin \/ PD!Transmit \/ PD!TakeAvailable \/ PD!PollNothing
                  \/ PD!AckTimeOut \/ PD!AnswerTimeOut
  PROVE  LineInv'
<1>1. CASE PD!Begin \/ PD!PollNothing \/ PD!AnswerTimeOut
  <2>1. UNCHANGED <<d, rx, due, asked, intact>> /\ call' \in PD!Calls
    BY <1>1 DEF PD!Begin, PD!PollNothing, PD!AnswerTimeOut, LineInv
  <2> QED
    BY <2>1 DEF LineInv
<1>2. CASE PD!Transmit
  <2>1. /\ d' = [d EXCEPT !.sending = ack] /\ due' = due \o PD!Reply
        /\ UNCHANGED <<rx, call, intact>>
    BY <1>2 DEF PD!Transmit
  <2>2. IsDriver(d') /\ d'.index = d.index
    BY <2>1 DEF LineInv, IsDriver
  <2>3. due' \in Seq(Frames) /\ asked' \in Nat
    BY <1>2, <2>1, SentAreFrames, ConcatProperties DEF LineInv
  <2> QED
    BY <2>1, <2>2, <2>3 DEF LineInv
<1>3. CASE PD!TakeAvailable
  <2>1. d' = [d EXCEPT !.available = FALSE] /\ UNCHANGED <<rx, due, call, asked, intact>>
    BY <1>3 DEF PD!TakeAvailable, PD!Return, PD!Consumed
  <2>2. IsDriver(d') /\ d'.index = d.index
    BY <2>1 DEF LineInv, IsDriver
  <2> QED
    BY <2>1, <2>2 DEF LineInv
<1>4. CASE PD!AckTimeOut
  <2>1. /\ d' = PD!HandleError(d, "TimeOut") /\ rx = << >>
        /\ UNCHANGED <<rx, due, call, asked, intact>>
    BY <1>4 DEF PD!AckTimeOut
  <2>2. IsDriver(d') /\ d'.index = 0
    BY <2>1, ErrorIs DEF LineInv
  <2> QED
    BY <2>1, <2>2 DEF LineInv, InStep
<1> QED
  BY <1>1, <1>2, <1>3, <1>4

\* The module puts whole frames on the line, or a broken one after which the line
\* is no longer intact.
LEMMA ModuleKeepsLine ==
  ASSUME LineInv, PD!Deliver \/ PD!DeliverBroken \/ PD!News
  PROVE  LineInv'
<1>1. CASE PD!Deliver
  <2>1. /\ due # << >> /\ rx' = rx \o Head(due) /\ due' = Tail(due)
        /\ UNCHANGED <<d, call, asked>>
    BY <1>1 DEF PD!Deliver
  <2> QED
    BY <2>1, WholeFramePuts DEF LineInv
<1>2. CASE PD!DeliverBroken
  <2>1. due # << >> /\ due' = Tail(due) /\ UNCHANGED <<d, call, asked>>
    BY <1>2 DEF PD!DeliverBroken
  <2>2. intact' = FALSE
    BY <1>2, Zenon DEF PD!DeliverBroken
  <2>3. PICK i \in DOMAIN Head(due) : rx' = rx \o PD!RemoveAt(Head(due), i)
    BY <1>2 DEF PD!DeliverBroken
  <2> QED
    BY <2>1, <2>2, <2>3, WholeFramePuts DEF LineInv
<1>3. CASE PD!News
  <2>1. UNCHANGED <<d, rx, call, asked, intact>>
    BY <1>3 DEF PD!News
  <2> QED
    BY <1>3, <2>1, SentAreFrames DEF LineInv
<1> QED
  BY <1>1, <1>2, <1>3

LEMMA LineStarts == PD!Init => LineInv
<1> SUFFICES ASSUME PD!Init PROVE LineInv
  OBVIOUS
<1>1. IsDriver(d) /\ d.index = 0
  BY DEF PD!Init, IsDriver
<1>2. call \in PD!Calls
  BY DEF PD!Init, PD!Calls
<1> QED
  BY <1>1, <1>2 DEF PD!Init, LineInv, InStep

\* LineInv is inductive.
LEMMA StepKeepsLine == LineInv /\ [PD!Next]_(PD!vars) => LineInv'
<1> SUFFICES ASSUME LineInv, [PD!Next]_(PD!vars) PROVE LineInv'
  OBVIOUS
<1>1. CASE UNCHANGED PD!vars
  BY <1>1 DEF PD!vars, LineInv
<1> QED
  BY <1>1, ReadKeepsLine, DriverKeepsLine, ModuleKeepsLine DEF PD!Next

\* Whatever bytes were lost before it, a whole frame brings the parser to the
\* start of the next one, and it never writes past the buffer of a frame, for
\* any number of calls, frames on the line and losses (DF_available()).
THEOREM ParserAlwaysRecovers == PD!Spec => []ParserRecovers
<1>1. LineInv => ParserRecovers
  <2> SUFFICES ASSUME LineInv PROVE ParserRecovers
    OBVIOUS
  <2>1. ASSUME NEW c \in Commands, NEW p \in Int, NEW s \in Int, Behind(d.index, << >>, c, p, s)
        PROVE  FALSE
    <3>1. \/ \E g \in Seq(Int) : << >> = g \o <<126, 255, 6, c, p, s, 239>>
          \/ << >> = <<255, 6, c, p, s, 239>> \/ << >> = <<6, c, p, s, 239>>
          \/ << >> = <<c, p, s, 239>> \/ << >> = <<p, s, 239>> \/ << >> = <<s, 239>>
          \/ << >> = <<239>>
      BY <2>1 DEF Behind
    <3> DEFINE f == <<126, 255, 6, c, p, s, 239>>
    <3>2. f \in Seq(Int) /\ f # << >>
      BY <2>1 DEF Commands
    <3>3. ASSUME NEW g \in Seq(Int) PROVE g \o f # << >>
      <4> HIDE DEF f
      <4> QED
        BY <3>2, ConcatEqualIffEmpty
    <3> QED
      BY <3>1, <3>3
  <2>2. rx = << >> /\ intact => d.index = 0
    BY <2>1 DEF LineInv, InStep
  <2>3. d.index <= 6
    BY DEF LineInv
  <2> QED
    BY <2>2, <2>3 DEF ParserRecovers, PD!ParserRecovers
<1> QED
  BY <1>1, LineStarts, StepKeepsLine, PTL DEF PD!Spec

-----------------------------------------------------------------------------
(* A quiet line: the parser in step                                        *)

\* The bytes of a frame in their places.
LEMMA FrameBytes ==
  ASSUME NEW c \in Commands, NEW p \in Int
  PROVE  /\ PD!Frame(c, p) \in Frames
         /\ PD!Frame(c, p)[1] = 126 /\ PD!Frame(c, p)[2] = 255 /\ PD!Frame(c, p)[3] = 6
         /\ PD!Frame(c, p)[4] = c /\ PD!Frame(c, p)[5] = p
         /\ PD!Frame(c, p)[6] = PD!CheckSum(c, p) /\ PD!Frame(c, p)[7] = 239
<1>1. PD!Frame(c, p) = <<126, 255, 6, c, p, PD!CheckSum(c, p), 239>>
  BY DEF PD!Frame, PD!Header, PD!Version, PD!Length, PD!End
<1> QED
  BY <1>1 DEF Frames

\* The byte the parser takes is the next one of the frame.
LEMMA NextByte ==
  ASSUME NEW s, NEW line \in Seq(Int), NEW f, NEW rest \in Seq(Int),
         Reading(s, line, f, rest)
  PROVE  /\ line # << >> /\ Head(line) = f[s.index + 1]
         /\ Tail(line) \in Seq(Int) /\ OnLine(Tail(line), f, s.index + 1, rest)
<1> DEFINE i == s.index
           n == Len(rest)
<1>1. i \in 0..6 /\ n \in Nat
  BY LenProperties DEF Reading
<1>2. /\ Len(line) = 7 - i + n
      /\ \A j \in 1..7 - i : line[j] = f[i + j]
      /\ \A j \in 1..n : line[7 - i + j] = rest[j]
  BY DEF Reading, OnLine
<1> HIDE DEF i, n
<1>3. line # << >>
  BY <1>1, <1>2, EmptySeq
<1>4. /\ Tail(line) \in Seq(Int) /\ Len(Tail(line)) = 6 - i + n
      /\ \A j \in 1..6 - i + n : Tail(line)[j] = line[j + 1]
  BY <1>1, <1>2, <1>3, HeadTailProperties
<1>5. Head(line) = f[i + 1]
  <2>1. Head(line) = line[1] /\ 1 \in 1..7 - i
    BY <1>1, <1>3
  <2> QED
    BY <1>2, <2>1
<1>6. ASSUME NEW j \in 1..6 - i
      PROVE  Tail(line)[j] = f[i + 1 + j]
  <2>1. j \in 1..6 - i + n /\ j + 1 \in 1..7 - i /\ i + (j + 1) = i + 1 + j
    BY <1>1
  <2> QED
    BY <1>2, <1>4, <2>1
<1>7. ASSUME NEW j \in 1..n
      PROVE  Tail(line)[6 - i + j] = rest[j]
  <2>1. 6 - i + j \in 1..6 - i + n /\ 6 - i + j + 1 = 7 - i + j
    BY <1>1
  <2> QED
    BY <1>2, <1>4, <2>1
<1>8. 7 - (i + 1) = 6 - i
  BY <1>1
<1>9. OnLine(Tail(line), f, i + 1, rest)
  BY <1>4, <1>6, <1>7, <1>8 DEF OnLine, n
<1> QED
  BY <1>3, <1>4, <1>5, <1>9 DEF i

\* What becomes of a byte inside a frame, and of the first one.
LEMMA FirstByte ==
  ASSUME NEW s, s.index = 0
  PROVE  PD!Received(s, PD!Header) =
           [[s EXCEPT !.index = s.index + 1, !.received = Append(s.received, PD!Header)]
              EXCEPT !.received = <<PD!Header>>]
<1>1. ~PD!IsWrong(s, PD!Header)
  BY DEF PD!IsWrong
<1> QED
  BY <1>1 DEF PD!Received

\* A byte inside a frame that is as it has to be is only taken down.
LEMMA InnerByte ==
  ASSUME NEW s, NEW b, s.index # 0, s.index # 6, ~PD!IsWrong(s, b)
  PROVE  PD!Received(s, b) =
           [s EXCEPT !.index = s.index + 1, !.received = Append(s.received, b)]
  BY DEF PD!Received

\* In step with a frame the parser takes byte after byte of it.
LEMMA ReadsOn ==
  ASSUME NEW s, NEW line \in Seq(Int), NEW c \in Commands, NEW p \in Int,
         NEW rest \in Seq(Int),
         IsDriver(s), Reading(s, line, PD!Frame(c, p), rest), s.index < 6
  PROVE  LET r == PD!Received(s, Head(line))
         IN  /\ ~PD!Returns(s, Head(line))
             /\ IsDriver(r) /\ r.sending = s.sending /\ r.available = s.available
             /\ Reading(r, Tail(line), PD!Frame(c, p), rest)
<1> DEFINE f == PD!Frame(c, p)
<1>a. Reading(s, line, f, rest)
  OBVIOUS
<1> HIDE DEF f
<1>0. /\ line # << >> /\ Head(line) = f[s.index + 1]
      /\ OnLine(Tail(line), f, s.index + 1, rest)
  BY <1>a, NextByte
<1> DEFINE b == Head(line)
           r == PD!Received(s, b)
           i == s.index
           took == [s EXCEPT !.index = i + 1, !.received = Append(s.received, b)]
           began == [took EXCEPT !.received = <<b>>]
<1>1. i \in 0..5 /\ b = f[i + 1]
  BY <1>0, <1>a DEF Reading
<1>2. b \in Int
  BY <1>0, HeadTailProperties
<1>3. IsDriver(took) /\ took.index = i + 1 /\ took.received = Append(s.received, b)
  BY DEF IsDriver
<1>4. took.sending = s.sending /\ took.available = s.available
  BY DEF IsDriver
<1> HIDE DEF took
<1>5. /\ IsDriver(began) /\ began.index = i + 1 /\ began.received = <<b>>
      /\ began.sending = s.sending /\ began.available = s.available
  BY <1>3, <1>4 DEF IsDriver
<1>6. i = 0 => r = began
  <2> SUFFICES ASSUME i = 0 PROVE r = began
    OBVIOUS
  <2>1. b = PD!Header
    BY <1>1, FrameBytes DEF PD!Header, f
  <2>2. s.index = 0
    OBVIOUS
  <2>3. PD!Received(s, b) = [took EXCEPT !.received = <<b>>]
    BY <2>1, <2>2, FirstByte DEF took
  <2> QED
    BY <2>3
<1>7. i # 0 => r = took
  <2> SUFFICES ASSUME i # 0 PROVE r = took
    OBVIOUS
  <2>1. ~PD!IsWrong(s, b)
    BY <1>1, FrameBytes DEF PD!IsWrong, PD!Version, PD!Length, f
  <2>2. s.index # 0 /\ s.index # 6
    BY <1>1
  <2>3. PD!Received(s, b) = took
    BY <2>1, <2>2, InnerByte DEF took
  <2> QED
    BY <2>3
<1> HIDE DEF began, r
<1>8. /\ IsDriver(r) /\ r.index = i + 1 /\ r.sending = s.sending /\ r.available = s.available
  BY <1>3, <1>4, <1>5, <1>6, <1>7
<1>9. ~PD!Returns(s, b)
  BY <1>1, <1>8 DEF PD!Returns, r
<1>10. r.received \in Seq(Int) /\ Len(r.received) = i + 1 /\ \A j \in 1..i + 1 : r.received[j] = f[j]
  <2>1. CASE i = 0
    <3>1. r.received = <<b>> /\ b = f[1]
      BY <1>1, <1>5, <1>6, <2>1
    <3>2. Len(<<b>>) = 1 /\ <<b>>[1] = b /\ <<b>> \in Seq(Int)
      BY <1>2
    <3> QED
      BY <2>1, <3>1, <3>2
  <2>2. CASE i # 0
    <3> DEFINE got == s.received
    <3>1. r.received = Append(got, b)
      BY <1>3, <1>7, <2>2
    <3>2. got \in Seq(Int) /\ Len(got) = i /\ \A j \in 1..i : got[j] = f[j]
      BY <1>1, <1>a, <2>2 DEF Reading
    <3> HIDE DEF got, i, b
    <3>3. /\ Append(got, b) \in Seq(Int) /\ Len(Append(got, b)) = i + 1
          /\ Append(got, b)[i + 1] = b /\ \A j \in 1..i : Append(got, b)[j] = got[j]
      BY <1>2, <3>2, AppendProperties
    <3>4. \A j \in 1..i + 1 : j \in 1..i \/ j = i + 1
      BY <1>1
    <3> QED
      BY <1>1, <3>1, <3>2, <3>3, <3>4
  <2> QED
    BY <2>1, <2>2
<1>11. Reading(r, Tail(line), f, rest)
  <2>1. r.index \in 0..6
    BY <1>1, <1>8
  <2> QED
    BY <1>0, <1>8, <1>10, <2>1 DEF Reading
<1> QED
  BY <1>8, <1>9, <1>11 DEF r, f

\* The last byte of a frame the parser has been in step with.
LEMMA FrameEnds ==
  ASSUME NEW s, NEW line \in Seq(Int), NEW c \in Commands, NEW p \in Int,
         NEW rest \in Seq(Int),
         IsDriver(s), Reading(s, line, PD!Frame(c, p), rest), s.index = 6
  PROVE  /\ line # << >> /\ Tail(line) = rest
         /\ ~PD!IsWrong(s, Head(line))
         /\ PD!Received(s, Head(line)) = PD!ParseStack([s EXCEPT !.index = 0])
         /\ HasRead(s, c, p)
<1> DEFINE f == PD!Frame(c, p)
           b == Head(line)
<1>1. /\ f[4] = c /\ f[5] = p /\ f[6] = PD!CheckSum(c, p) /\ f[7] = 239
  BY FrameBytes
<1>2. Reading(s, line, f, rest)
  OBVIOUS
<1> HIDE DEF f
<1>3. /\ line # << >> /\ b = f[7]
      /\ Tail(line) \in Seq(Int) /\ OnLine(Tail(line), f, 7, rest)
  BY <1>2, NextByte
<1>4. s.received[4] = c /\ s.received[5] = p /\ s.received[6] = PD!CheckSum(c, p)
  <2> DEFINE got == s.received
             i == s.index
  <2>a. i > 0 => \A j \in 1..i : got[j] = f[j]
    BY <1>2, Zenon DEF Reading
  <2>b. i = 6
    OBVIOUS
  <2> HIDE DEF got, i
  <2>c. \A j \in 1..6 : got[j] = f[j]
    BY <2>a, <2>b
  <2>1. \A j \in 1..6 : s.received[j] = f[j]
    BY <2>c DEF got
  <2>2. s.received[4] = f[4] /\ s.received[5] = f[5] /\ s.received[6] = f[6]
    BY <2>1
  <2> QED
    BY <1>1, <2>2
<1>5. Tail(line) = rest
  <2> DEFINE t == Tail(line)
  <2>1. Len(t) = Len(rest) /\ \A j \in 1..Len(rest) : t[j] = rest[j]
    BY <1>3, LenProperties DEF OnLine
  <2> QED
    BY <1>3, <2>1, SeqEqual
<1>6. ~PD!IsWrong(s, b)
  <2>1. PD!IsValid(s.received)
    BY <1>4 DEF PD!IsValid
  <2>2. b = PD!End
    BY <1>1, <1>3 DEF PD!End
  <2> QED
    BY <2>1, <2>2 DEF PD!IsWrong
<1>7. PD!Received(s, b) = PD!ParseStack([s EXCEPT !.index = 0])
  BY <1>6 DEF PD!Received
<1> QED
  BY <1>3, <1>4, <1>5, <1>6, <1>7 DEF HasRead

\* What an acknowledgement, the news of a start and an answer make of the globals.
LEMMA AcknowledgementIs ==
  ASSUME NEW s, IsDriver(s), HasRead(s, 65, 0)
  PROVE  LET r == PD!ParseStack([s EXCEPT !.index = 0])
         IN  /\ IsDriver(r) /\ r.index = 0 /\ r.available = s.available
             /\ r.sending \in BOOLEAN /\ ~r.sending
<1> DEFINE z == [s EXCEPT !.index = 0]
<1>1. IsDriver(z) /\ z.index = 0 /\ z.received = s.received /\ z.available = s.available
  BY DEF IsDriver
<1> HIDE DEF z
<1>2. PD!ParseStack(z) = [z EXCEPT !.sending = FALSE]
  BY <1>1 DEF HasRead, PD!ParseStack, PD!Ack, PD!PlayFinished, PD!Online, PD!Inserted, PD!Removed,
              PD!Failure, PD!FeedBacks
<1>3. /\ IsDriver([z EXCEPT !.sending = FALSE]) /\ [z EXCEPT !.sending = FALSE].index = 0
      /\ [z EXCEPT !.sending = FALSE].available = z.available
  BY <1>1 DEF IsDriver
<1>4. [z EXCEPT !.sending = FALSE].sending \in BOOLEAN /\ ~[z EXCEPT !.sending = FALSE].sending
  BY <1>1 DEF IsDriver
<1> QED
  BY <1>1, <1>2, <1>3, <1>4 DEF z

\* The frame of a module that has started ends the wait for it.
LEMMA StartIs ==
  ASSUME NEW s, IsDriver(s), HasRead(s, 63, 2)
  PROVE  LET r == PD!ParseStack([s EXCEPT !.index = 0])
         IN  /\ IsDriver(r) /\ r.index = 0 /\ r.sending = s.sending /\ r.available
<1> DEFINE z == [s EXCEPT !.index = 0]
<1>1. IsDriver(z) /\ z.index = 0 /\ z.received = s.received /\ z.sending = s.sending
  BY DEF IsDriver
<1> HIDE DEF z
<1>2. PD!ParseStack(z) = PD!Which(z, 2, "USBOnline", "CardOnline")
  BY <1>1 DEF HasRead, PD!ParseStack, PD!Ack, PD!PlayFinished, PD!Online, PD!Inserted, PD!Removed,
              PD!Failure, PD!FeedBacks
<1>3. ~PD!Bit(2, 1) /\ PD!Bit(2, 2)
  BY DEF PD!Bit
<1>4. PD!ParseStack(z) = PD!HandleMessage(z, "CardOnline", 2)
  BY <1>2, <1>3 DEF PD!Which
<1> DEFINE r == PD!HandleMessage(z, "CardOnline", 2)
<1>5. IsDriver(r) /\ r.index = 0
  BY <1>1, MessageShape
<1>6. r.sending = z.sending /\ r.available
  BY <1>1, MessageIs
<1> HIDE DEF r
<1> QED
  BY <1>1, <1>4, <1>5, <1>6 DEF z, r

\* The frame of an answer brings its parameter.
LEMMA FeedBackIs ==
  ASSUME NEW s, NEW c \in {67, 72}, NEW p, IsDriver(s), HasRead(s, c, p)
  PROVE  LET r == PD!ParseStack([s EXCEPT !.index = 0])
         IN  /\ IsDriver(r) /\ r.index = 0 /\ r.sending = s.sending /\ r.available
             /\ r.type = "FeedBack" /\ r.parameter = p
<1> DEFINE z == [s EXCEPT !.index = 0]
<1>1. IsDriver(z) /\ z.index = 0 /\ z.received = s.received /\ z.sending = s.sending
  BY DEF IsDriver
<1> HIDE DEF z
<1>2. PD!ParseStack(z) = PD!HandleMessage(z, "FeedBack", p)
  BY <1>1 DEF HasRead, PD!ParseStack, PD!Ack, PD!PlayFinished, PD!Online, PD!Inserted, PD!Removed,
              PD!Failure, PD!FeedBacks
<1> DEFINE r == PD!HandleMessage(z, "FeedBack", p)
<1>3. IsDriver(r) /\ r.index = 0
  BY <1>1, MessageShape
<1>4. r.sending = z.sending /\ r.available /\ r.type = "FeedBack" /\ r.parameter = p
  BY <1>1, MessageIs
<1> HIDE DEF r
<1> QED
  BY <1>1, <1>2, <1>3, <1>4 DEF z, r

-----------------------------------------------------------------------------
(* A quiet line: what comes                                                *)

\* A frame that the parser has still to begin, and one that is sent after another.
LEMMA FrameBegins ==
  ASSUME NEW s, NEW f \in Frames, s.index = 0
  PROVE  Reading(s, f, f, << >>)
<1>1. Len(f) = 7 /\ Len(<< >>) = 0
  BY FrameIs
<1> QED
  BY <1>1 DEF Reading, OnLine

\* A frame behind one that was read to its end.
LEMMA FrameFollows ==
  ASSUME NEW s, NEW line \in Seq(Int), NEW f, NEW g \in Frames, Reading(s, line, f, << >>)
  PROVE  Reading(s, line \o g, f, g)
<1> DEFINE i == s.index
           both == line \o g
<1>1. g \in Seq(Int) /\ Len(g) = 7
  BY FrameIs
<1>2. i \in 0..6 /\ Len(line) = 7 - i /\ \A j \in 1..7 - i : line[j] = f[i + j]
  <2>1. Len(<< >>) = 0
    OBVIOUS
  <2> QED
    BY <2>1 DEF Reading, OnLine
<1> HIDE DEF i
<1>3. /\ Len(both) = Len(line) + Len(g)
      /\ \A j \in 1..Len(line) + Len(g) :
           both[j] = IF j <= Len(line) THEN line[j] ELSE g[j - Len(line)]
  BY <1>1, ConcatProperties
<1> HIDE DEF both
<1>4. Len(both) = 7 - i + Len(g)
  BY <1>1, <1>2, <1>3
<1>5. ASSUME NEW j \in 1..7 - i PROVE both[j] = f[i + j]
  <2>1. j \in 1..Len(line) + Len(g) /\ j <= Len(line)
    BY <1>1, <1>2
  <2> QED
    BY <1>2, <1>3, <2>1
<1>6. ASSUME NEW j \in 1..Len(g) PROVE both[7 - i + j] = g[j]
  <2> DEFINE k == 7 - i + j
  <2>1. k \in 1..Len(line) + Len(g) /\ ~(k <= Len(line)) /\ k - Len(line) = j
    BY <1>1, <1>2
  <2> HIDE DEF k
  <2>2. both[k] = g[k - Len(line)]
    BY <1>3, <2>1
  <2> QED
    BY <2>1, <2>2 DEF k
<1>7. OnLine(both, f, i, g)
  BY <1>4, <1>5, <1>6 DEF OnLine
<1> QED
  BY <1>7 DEF Reading, i, both

\* The module puts the next frame on the line.
LEMMA PutOne ==
  ASSUME NEW s, NEW line, NEW sent, NEW f \in Frames, OneComes(s, line, sent, f), sent # << >>
  PROVE  OneComes(s, line \o Head(sent), Tail(sent), f)
<1>1. line = << >> /\ sent = <<f>> /\ s.index = 0
  BY DEF OneComes
<1>2. Head(sent) = f /\ Tail(sent) = << >>
  BY <1>1
<1>3. f \in Seq(Int)
  BY FrameIs
<1>4. << >> \o f = f
  BY <1>3, ConcatEmptySeq
<1>5. Reading(s, f, f, << >>)
  BY <1>1, FrameBegins
<1> QED
  BY <1>1, <1>2, <1>4, <1>5 DEF OneComes

\* The module puts the next of two frames on the line.
LEMMA PutTwo ==
  ASSUME NEW s, NEW line \in Seq(Int), NEW sent, NEW f \in Frames, NEW g \in Frames,
         TwoCome(s, line, sent, f, g), sent # << >>
  PROVE  TwoCome(s, line \o Head(sent), Tail(sent), f, g)
<1>1. CASE line = << >> /\ sent = <<f, g>> /\ s.index = 0
  <2>1. Head(sent) = f /\ Tail(sent) = <<g>>
    BY <1>1
  <2>2. f \in Seq(Int)
    BY FrameIs
  <2>3. << >> \o f = f
    BY <2>2, ConcatEmptySeq
  <2>4. Reading(s, f, f, << >>)
    BY <1>1, FrameBegins
  <2> QED
    BY <1>1, <2>1, <2>3, <2>4 DEF TwoCome
<1>2. CASE sent = <<g>> /\ Reading(s, line, f, << >>)
  <2>1. Head(sent) = g /\ Tail(sent) = << >>
    BY <1>2
  <2>2. Reading(s, line \o g, f, g)
    BY <1>2, FrameFollows
  <2> QED
    BY <2>1, <2>2 DEF TwoCome
<1> QED
  BY <1>1, <1>2 DEF TwoCome

\* The parser takes a byte inside a frame.
LEMMA ByteOfOne ==
  ASSUME NEW s, NEW line \in Seq(Int), NEW sent, NEW c \in Commands, NEW p \in Int,
         IsDriver(s), OneComes(s, line, sent, PD!Frame(c, p)), line # << >>, s.index < 6
  PROVE  LET r == PD!Received(s, Head(line))
         IN  /\ ~PD!Returns(s, Head(line))
             /\ r.sending = s.sending /\ r.available = s.available
             /\ OneComes(r, Tail(line), sent, PD!Frame(c, p))
<1>1. sent = << >> /\ Reading(s, line, PD!Frame(c, p), << >>)
  BY DEF OneComes
<1>2. << >> \in Seq(Int)
  OBVIOUS
<1> QED
  BY <1>1, <1>2, ReadsOn DEF OneComes

\* A byte of the first of two frames does not end it.
LEMMA ByteOfTwo ==
  ASSUME NEW s, NEW line \in Seq(Int), NEW sent, NEW c \in Commands, NEW p \in Int,
         NEW g \in Frames,
         IsDriver(s), TwoCome(s, line, sent, PD!Frame(c, p), g), line # << >>, s.index < 6
  PROVE  LET r == PD!Received(s, Head(line))
         IN  /\ ~PD!Returns(s, Head(line))
             /\ r.sending = s.sending /\ r.available = s.available
             /\ TwoCome(r, Tail(line), sent, PD!Frame(c, p), g)
<1>1. \/ sent = <<g>> /\ Reading(s, line, PD!Frame(c, p), << >>)
      \/ sent = << >> /\ Reading(s, line, PD!Frame(c, p), g)
  BY DEF TwoCome
<1>2. << >> \in Seq(Int) /\ g \in Seq(Int)
  BY FrameIs
<1>3. CASE sent = <<g>> /\ Reading(s, line, PD!Frame(c, p), << >>)
  BY <1>2, <1>3, ReadsOn DEF TwoCome
<1>4. CASE sent = << >> /\ Reading(s, line, PD!Frame(c, p), g)
  BY <1>2, <1>4, ReadsOn DEF TwoCome
<1> QED
  BY <1>1, <1>3, <1>4

\* The parser takes the last byte of it.
LEMMA EndOfOne ==
  ASSUME NEW s, NEW line \in Seq(Int), NEW sent, NEW c \in Commands, NEW p \in Int,
         IsDriver(s), OneComes(s, line, sent, PD!Frame(c, p)), line # << >>, s.index = 6
  PROVE  /\ sent = << >> /\ Tail(line) = << >>
         /\ ~PD!IsWrong(s, Head(line))
         /\ PD!Received(s, Head(line)) = PD!ParseStack([s EXCEPT !.index = 0])
         /\ HasRead(s, c, p)
<1>1. sent = << >> /\ Reading(s, line, PD!Frame(c, p), << >>)
  BY DEF OneComes
<1>2. << >> \in Seq(Int)
  OBVIOUS
<1> QED
  BY <1>1, <1>2, FrameEnds

\* The last byte of the first frame; the second is left.
LEMMA EndOfTwo ==
  ASSUME NEW s, NEW line \in Seq(Int), NEW sent, NEW c \in Commands, NEW p \in Int,
         NEW g \in Frames,
         IsDriver(s), TwoCome(s, line, sent, PD!Frame(c, p), g), line # << >>, s.index = 6
  PROVE  /\ ~PD!IsWrong(s, Head(line))
         /\ PD!Received(s, Head(line)) = PD!ParseStack([s EXCEPT !.index = 0])
         /\ HasRead(s, c, p)
         /\ \A r : r.index = 0 => OneComes(r, Tail(line), sent, g)
<1>1. \/ sent = <<g>> /\ Reading(s, line, PD!Frame(c, p), << >>)
      \/ sent = << >> /\ Reading(s, line, PD!Frame(c, p), g)
  BY DEF TwoCome
<1>2. << >> \in Seq(Int) /\ g \in Seq(Int)
  BY FrameIs
<1>3. /\ ~PD!IsWrong(s, Head(line))
      /\ PD!Received(s, Head(line)) = PD!ParseStack([s EXCEPT !.index = 0])
      /\ HasRead(s, c, p)
  BY <1>1, <1>2, FrameEnds
<1>4. \/ sent = <<g>> /\ Tail(line) = << >>
      \/ sent = << >> /\ Tail(line) = g
  BY <1>1, <1>2, FrameEnds
<1>5. ASSUME NEW r, r.index = 0 PROVE OneComes(r, Tail(line), sent, g)
  <2>1. Reading(r, g, g, << >>)
    BY <1>5, FrameBegins
  <2> QED
    BY <1>4, <1>5, <2>1 DEF OneComes
<1> QED
  BY <1>3, <1>5

-----------------------------------------------------------------------------
(* A quiet line: the steps                                                 *)

\* What the driver asks for and the module answers are frames.
LEMMA FramesOfCalls ==
  ASSUME LineInv
  PROVE  /\ {63, 65, 67, 72} \subseteq Commands /\ {0, 2} \subseteq Int /\ asked \in Int
         /\ Acked \in Frames /\ Online \in Frames
         /\ call.kind \in {"order", "untyped", "typed", "begin", "poll"}
         /\ PD!IsQuery <=> call.kind \in {"typed", "untyped"}
         /\ call.kind \in {"typed", "untyped"} =>
              call.command \in {67, 72} /\ Answered \in Frames
<1>1. {63, 65, 67, 72} \subseteq Commands /\ {0, 2} \subseteq Int /\ asked \in Int
  BY DEF Commands, LineInv
<1>2. Acked \in Frames /\ Online \in Frames
  BY <1>1, FrameBytes DEF Acked, Online
<1>3. /\ call.kind \in {"order", "untyped", "typed", "begin", "poll"}
      /\ call.kind \in {"typed", "untyped"} => call.command \in {67, 72}
  BY DEF LineInv, PD!Calls, PD!Order, PD!Query
<1>4. call.kind \in {"typed", "untyped"} => Answered \in Frames
  BY <1>1, <1>3, FrameBytes DEF Answered
<1> QED
  BY <1>1, <1>2, <1>3, <1>4 DEF PD!IsQuery

\* A byte inside a frame changes nothing but how far it was read.
LEMMA InsideStaysQuiet ==
  ASSUME LineInv, Quiet, PD!ReadByte, d.index < 6
  PROVE  Quiet'
<1> DEFINE r == PD!Received(d, Head(rx))
<1>1. rx # << >> /\ rx' = Tail(rx) /\ UNCHANGED <<ack, call, due, asked>>
  BY DEF PD!ReadByte
<1>2. IsDriver(d) /\ rx \in Seq(Int)
  BY DEF LineInv
<1>3. /\ ~PD!Returns(d, Head(rx))
      /\ r.sending = d.sending /\ r.available = d.available
      /\ Comes(r, Tail(rx), due)
  <2>1. CASE pc # "answer"
    <3>1. ack /\ d.sending /\ OneComes(d, rx, due, Acked)
      BY <1>1, <2>1 DEF Quiet, Comes, NoneComes
    <3>2. /\ ~PD!Returns(d, Head(rx)) /\ r.sending = d.sending /\ r.available = d.available
          /\ OneComes(r, Tail(rx), due, Acked)
      BY <1>1, <1>2, <3>1, FramesOfCalls, ByteOfOne DEF Acked
    <3> HIDE DEF r
    <3> QED
      BY <2>1, <3>1, <3>2 DEF Comes
  <2>2. CASE pc = "answer" /\ call.kind = "begin"
    <3>1. CASE ack /\ d.sending /\ TwoCome(d, rx, due, Acked, Online)
      <4>1. /\ ~PD!Returns(d, Head(rx)) /\ r.sending = d.sending /\ r.available = d.available
            /\ TwoCome(r, Tail(rx), due, Acked, Online)
        BY <1>1, <1>2, <3>1, FramesOfCalls, ByteOfTwo DEF Acked
      <4> HIDE DEF r
      <4> QED
        BY <2>2, <3>1, <4>1 DEF Comes
    <3>2. CASE ~d.sending /\ OneComes(d, rx, due, Online)
      <4>1. /\ ~PD!Returns(d, Head(rx)) /\ r.sending = d.sending /\ r.available = d.available
            /\ OneComes(r, Tail(rx), due, Online)
        BY <1>1, <1>2, <3>2, FramesOfCalls, ByteOfOne DEF Online
      <4> HIDE DEF r
      <4> QED
        BY <2>2, <3>2, <4>1 DEF Comes
    <3> QED
      BY <2>2, <3>1, <3>2 DEF Quiet, Comes
  <2>3. CASE pc = "answer" /\ call.kind # "begin"
    <3>0. call.kind \in {"typed", "untyped"}
      BY <2>3 DEF Quiet
    <3>a. call.command \in Commands /\ asked \in Int /\ Acked \in Frames
      BY <3>0, FramesOfCalls
    <3>1. CASE ack /\ d.sending /\ TwoCome(d, rx, due, Answered, Acked)
      <4>1. /\ ~PD!Returns(d, Head(rx)) /\ r.sending = d.sending /\ r.available = d.available
            /\ TwoCome(r, Tail(rx), due, Answered, Acked)
        BY <1>1, <1>2, <3>a, <3>1, ByteOfTwo DEF Answered
      <4> HIDE DEF r
      <4> QED
        BY <2>3, <3>1, <4>1 DEF Comes
    <3>2. CASE ~ack /\ ~d.sending /\ OneComes(d, rx, due, Answered)
      <4>1. /\ ~PD!Returns(d, Head(rx)) /\ r.sending = d.sending /\ r.available = d.available
            /\ OneComes(r, Tail(rx), due, Answered)
        BY <1>1, <1>2, <3>a, <3>2, ByteOfOne DEF Answered
      <4> HIDE DEF r
      <4> QED
        BY <2>3, <3>2, <4>1 DEF Comes
    <3> QED
      BY <2>3, <3>1, <3>2 DEF Quiet, Comes
  <2> QED
    BY <2>1, <2>2, <2>3
<1>4. ~PD!Answers(d, Head(rx))
  BY <1>3 DEF PD!Answers
<1>5. d' = r /\ pc' = pc /\ result' = result
  BY <1>3, <1>4 DEF PD!ReadByte
<1> HIDE DEF r
<1>6. Comes(d', rx', due)
  BY <1>1, <1>3, <1>5
<1>7. Comes(d, rx, due)'
  BY <1>1, <1>5, <1>6 DEF Comes, Acked, Online, Answered
<1> QED
  BY <1>1, <1>3, <1>5, <1>7 DEF Quiet, PD!IsQuery

\* The last byte of a frame: an acknowledgement lets the next command out, the
\* rest ends the call.
LEMMA AcknowledgementStaysQuiet ==
  ASSUME LineInv, Quiet, PD!ReadByte, d.index = 6, ack, d.sending,
         \/ pc # "answer" /\ OneComes(d, rx, due, Acked)
         \/ pc = "answer" /\ call.kind = "begin" /\ TwoCome(d, rx, due, Acked, Online)
  PROVE  Quiet'
<1> DEFINE r == PD!Received(d, Head(rx))
<1>1. rx # << >> /\ rx' = Tail(rx) /\ UNCHANGED <<ack, call, due, asked>>
  BY DEF PD!ReadByte
<1>2. IsDriver(d) /\ rx \in Seq(Int) /\ 65 \in Commands /\ 0 \in Int /\ Online \in Frames
  BY FramesOfCalls DEF LineInv
<1>3. /\ r = PD!ParseStack([d EXCEPT !.index = 0]) /\ HasRead(d, 65, 0)
      /\ pc # "answer" => due = << >> /\ Tail(rx) = << >>
      /\ pc = "answer" => \A s : s.index = 0 => OneComes(s, Tail(rx), due, Online)
  <2>1. CASE pc # "answer"
    <3>1. OneComes(d, rx, due, PD!Frame(65, 0))
      BY <2>1 DEF Acked
    <3>2. due = << >> /\ Tail(rx) = << >>
      BY <1>1, <1>2, <3>1, EndOfOne
    <3>3. r = PD!ParseStack([d EXCEPT !.index = 0])
      BY <1>1, <1>2, <3>1, EndOfOne
    <3>4. HasRead(d, 65, 0)
      BY <1>1, <1>2, <3>1, EndOfOne
    <3> QED
      BY <2>1, <3>2, <3>3, <3>4
  <2>2. CASE pc = "answer"
    <3>1. TwoCome(d, rx, due, PD!Frame(65, 0), Online)
      BY <2>2 DEF Acked
    <3>2. \A s : s.index = 0 => OneComes(s, Tail(rx), due, Online)
      BY <1>1, <1>2, <3>1, EndOfTwo
    <3>3. r = PD!ParseStack([d EXCEPT !.index = 0])
      BY <1>1, <1>2, <3>1, EndOfTwo
    <3>4. HasRead(d, 65, 0)
      BY <1>1, <1>2, <3>1, EndOfTwo
    <3> QED
      BY <2>2, <3>2, <3>3, <3>4
  <2> QED
    BY <2>1, <2>2
<1>4. r.index = 0 /\ r.available = d.available /\ r.sending \in BOOLEAN /\ ~r.sending
  BY <1>2, <1>3, AcknowledgementIs
<1>5. ~PD!Answers(d, Head(rx)) /\ PD!Returns(d, Head(rx))
  <2>1. ~r.available
    BY <1>4 DEF Quiet
  <2> QED
    BY <1>4, <2>1 DEF PD!Answers, PD!Returns
<1>6. /\ d' = r /\ result' = result
      /\ pc' = IF pc = "poll" THEN "idle" ELSE pc
  BY <1>5 DEF PD!ReadByte
<1> HIDE DEF r
<1>7. Comes(r, Tail(rx), due) \/ pc = "poll"
  <2>1. CASE pc # "answer"
    BY <1>3, <1>4, <2>1 DEF Comes, NoneComes
  <2>2. CASE pc = "answer"
    BY <1>3, <1>4, <2>2 DEF Comes
  <2> QED
    BY <2>1, <2>2
<1>8. pc = "poll" => NoneComes(r, Tail(rx), due) /\ ~PD!IsQuery
  BY <1>3, <1>4, FramesOfCalls DEF NoneComes, Quiet
<1>9. Comes(d, rx, due)'
  BY <1>1, <1>4, <1>6, <1>7, <1>8 DEF Comes, Acked, Online, Answered
<1>10. ~PD!IsQuery' \/ pc' # "idle"
  BY <1>1, <1>6, <1>8 DEF PD!IsQuery, PD!ReadByte, PD!Waits
<1> QED
  BY <1>1, <1>4, <1>6, <1>9, <1>10 DEF Quiet, PD!IsQuery, PD!ReadByte, PD!Waits

\* A call that reads its message ends; the message is taken with it.
LEMMA ReturnIs ==
  ASSUME LineInv, Quiet, PD!ReadByte, d.index = 6, pc = "answer",
         NEW r, r = PD!Received(d, Head(rx)), IsDriver(r),
         r.index = 0, r.available, ~PD!IsWrong(d, Head(rx))
  PROVE  /\ IsDriver(d') /\ d'.index = 0 /\ d'.sending = r.sending /\ d'.available = FALSE
         /\ pc' = "idle" /\ result' = PD!Answer(r)
         /\ rx' = Tail(rx) /\ rx # << >>
         /\ UNCHANGED <<ack, call, due, asked>>
<1>1. PD!Answers(d, Head(rx)) /\ pc # "send" /\ pc # "poll"
  BY DEF PD!Answers, PD!Returns
<1>2. PD!Return(r)
  BY <1>1 DEF PD!ReadByte
<1>3. d' = [r EXCEPT !.available = FALSE] /\ pc' = "idle" /\ result' = PD!Answer(r)
  BY <1>1, <1>2 DEF PD!Return, PD!Consumed
<1>4. IsDriver(d') /\ d'.index = 0 /\ d'.sending = r.sending
  BY <1>3 DEF IsDriver
<1>5. d'.available = FALSE
  BY <1>3 DEF IsDriver
<1> QED
  BY <1>3, <1>4, <1>5 DEF PD!ReadByte

\* The answer to a reset is read: nothing is left on its way.
LEMMA StartStaysQuiet ==
  ASSUME LineInv, Quiet, PD!ReadByte, d.index = 6, ~d.sending,
         pc = "answer", call.kind = "begin", OneComes(d, rx, due, Online)
  PROVE  Quiet'
<1> DEFINE r == PD!Received(d, Head(rx))
<1>1. rx # << >> /\ IsDriver(d) /\ rx \in Seq(Int) /\ 63 \in Commands /\ 2 \in Int
  BY FramesOfCalls DEF LineInv, PD!ReadByte
<1>2. /\ r = PD!ParseStack([d EXCEPT !.index = 0]) /\ HasRead(d, 63, 2)
      /\ ~PD!IsWrong(d, Head(rx)) /\ due = << >> /\ Tail(rx) = << >>
  <2>1. OneComes(d, rx, due, PD!Frame(63, 2))
    BY DEF Online
  <2> QED
    BY <1>1, <2>1, EndOfOne
<1>3. IsDriver(r) /\ r.index = 0 /\ r.sending = d.sending /\ r.available
  BY <1>1, <1>2, StartIs
<1> HIDE DEF r
<1>4. /\ d'.index = 0 /\ d'.sending = r.sending /\ d'.available = FALSE
      /\ pc' = "idle" /\ rx' = Tail(rx) /\ UNCHANGED <<ack, call, due, asked>>
  BY <1>2, <1>3, ReturnIs DEF r
<1>5. Comes(d, rx, due)'
  BY <1>2, <1>3, <1>4 DEF Comes, NoneComes
<1>6. ~PD!IsQuery'
  BY <1>4 DEF PD!IsQuery
<1> QED
  BY <1>3, <1>4, <1>5, <1>6 DEF Quiet

\* The answer to a query is read: with acknowledgements one frame is left, else nothing.
LEMMA AnswerStaysQuiet ==
  ASSUME LineInv, Quiet, PD!ReadByte, d.index = 6,
         pc = "answer", call.kind \in {"typed", "untyped"},
         \/ ack /\ d.sending /\ TwoCome(d, rx, due, Answered, Acked)
         \/ ~ack /\ ~d.sending /\ OneComes(d, rx, due, Answered)
  PROVE  Quiet'
<1> DEFINE r == PD!Received(d, Head(rx))
<1>1. /\ rx # << >> /\ IsDriver(d) /\ rx \in Seq(Int)
      /\ call.command \in Commands /\ call.command \in {67, 72}
      /\ asked \in Int /\ Acked \in Frames
  BY FramesOfCalls DEF LineInv, PD!ReadByte
<1>2. /\ r = PD!ParseStack([d EXCEPT !.index = 0]) /\ HasRead(d, call.command, asked)
      /\ ~PD!IsWrong(d, Head(rx))
      /\ \/ /\ ack /\ d.sending
            /\ \A s : s.index = 0 => OneComes(s, Tail(rx), due, Acked)
         \/ ~ack /\ ~d.sending /\ due = << >> /\ Tail(rx) = << >>
  <2>1. CASE ack /\ d.sending /\ TwoCome(d, rx, due, Answered, Acked)
    <3>1. TwoCome(d, rx, due, PD!Frame(call.command, asked), Acked)
      BY <2>1 DEF Answered
    <3>2. \A s : s.index = 0 => OneComes(s, Tail(rx), due, Acked)
      BY <1>1, <3>1, EndOfTwo
    <3> QED
      BY <1>1, <2>1, <3>1, <3>2, EndOfTwo
  <2>2. CASE ~ack /\ ~d.sending /\ OneComes(d, rx, due, Answered)
    <3>1. OneComes(d, rx, due, PD!Frame(call.command, asked))
      BY <2>2 DEF Answered
    <3>2. /\ rx \in Seq(Int) /\ rx # << >> /\ d.index = 6 /\ IsDriver(d)
          /\ call.command \in Commands /\ asked \in Int
      BY <1>1
    <3>3. /\ due = << >> /\ Tail(rx) = << >>
          /\ ~PD!IsWrong(d, Head(rx))
          /\ PD!Received(d, Head(rx)) = PD!ParseStack([d EXCEPT !.index = 0])
          /\ HasRead(d, call.command, asked)
      BY <3>1, <3>2, EndOfOne
    <3> QED
      BY <2>2, <3>3
  <2> QED
    BY <2>1, <2>2
<1>3. /\ IsDriver(r) /\ r.index = 0 /\ r.sending = d.sending /\ r.available
      /\ r.type = "FeedBack" /\ r.parameter = asked
  BY <1>1, <1>2, FeedBackIs
<1> HIDE DEF r
<1>4. /\ d'.index = 0 /\ d'.sending = r.sending /\ d'.available = FALSE
      /\ pc' = "idle" /\ result' = PD!Answer(r)
      /\ rx' = Tail(rx) /\ UNCHANGED <<ack, call, due, asked>>
  BY <1>2, <1>3, ReturnIs DEF r
<1>5. result' = asked'
  BY <1>3, <1>4 DEF PD!Answer
<1>6. Comes(d, rx, due)'
  <2>1. \/ ack' /\ d'.sending /\ OneComes(d', rx', due', Acked)
        \/ ~d'.sending /\ NoneComes(d', rx', due')
    BY <1>2, <1>3, <1>4 DEF NoneComes
  <2> QED
    BY <1>4, <2>1 DEF Comes, Acked
<1> QED
  BY <1>3, <1>4, <1>5, <1>6 DEF Quiet

LEMMA TwoInARow == ASSUME NEW S, NEW a \in S, NEW b \in S PROVE <<a>> \o <<b>> = <<a, b>>
<1> DEFINE s == <<a>> \o <<b>>
           t == <<a, b>>
<1>1. /\ <<a>> \in Seq(S) /\ <<b>> \in Seq(S) /\ t \in Seq(S)
      /\ Len(<<a>>) = 1 /\ Len(<<b>>) = 1 /\ Len(t) = 2
      /\ <<a>>[1] = a /\ <<b>>[1] = b /\ t[1] = a /\ t[2] = b
  OBVIOUS
<1>2. s \in Seq(S) /\ Len(s) = 2 /\ s[1] = a /\ s[2] = b
  BY <1>1, ConcatProperties
<1> HIDE DEF s, t
<1>3. \A i \in 1..2 : s[i] = t[i]
  <2>1. \A i \in 1..2 : i = 1 \/ i = 2
    OBVIOUS
  <2> QED
    BY <1>1, <1>2, <2>1
<1>4. s = t
  BY <1>1, <1>2, <1>3, SeqEqual
<1> QED
  BY <1>4 DEF s, t

\* A byte of whatever is on its way.
LEMMA ReadStaysQuiet == ASSUME LineInv, Quiet, PD!ReadByte PROVE Quiet'
<1>1. rx # << >> /\ d.index \in 0..6
  BY DEF PD!ReadByte, LineInv
<1>2. CASE d.index < 6
  BY <1>2, InsideStaysQuiet
<1>3. CASE d.index = 6
  <2>1. CASE pc # "answer"
    <3>1. ack /\ d.sending /\ OneComes(d, rx, due, Acked)
      BY <1>1, <2>1 DEF Quiet, Comes, NoneComes
    <3> QED
      BY <1>3, <2>1, <3>1, AcknowledgementStaysQuiet
  <2>2. CASE pc = "answer" /\ call.kind = "begin"
    <3>1. \/ ack /\ d.sending /\ TwoCome(d, rx, due, Acked, Online)
          \/ ~d.sending /\ OneComes(d, rx, due, Online)
      BY <2>2 DEF Quiet, Comes
    <3> QED
      BY <1>3, <2>2, <3>1, AcknowledgementStaysQuiet, StartStaysQuiet
  <2>3. CASE pc = "answer" /\ call.kind # "begin"
    <3>1. /\ call.kind \in {"typed", "untyped"}
          /\ \/ ack /\ d.sending /\ TwoCome(d, rx, due, Answered, Acked)
             \/ ~ack /\ ~d.sending /\ OneComes(d, rx, due, Answered)
      BY <2>3 DEF Quiet, Comes
    <3> QED
      BY <1>3, <2>3, <3>1, AnswerStaysQuiet
  <2> QED
    BY <2>1, <2>2, <2>3
<1> QED
  BY <1>1, <1>2, <1>3

\* A command goes out only when nothing is on its way.
LEMMA TransmitStaysQuiet == ASSUME LineInv, Quiet, PD!Transmit PROVE Quiet'
<1>1. /\ pc = "send" /\ ~(ack /\ d.sending) /\ d' = [d EXCEPT !.sending = ack]
      /\ asked' = IF PD!IsQuery THEN asked + 1 ELSE asked
      /\ due' = due \o PD!Reply
      /\ pc' = IF call.kind = "order" THEN "idle" ELSE "answer"
      /\ UNCHANGED <<ack, call, rx>>
  BY DEF PD!Transmit
<1>2. ~d.sending /\ rx = << >> /\ due = << >> /\ d.index = 0
  BY <1>1 DEF Quiet, Comes, NoneComes
<1>3. d'.index = 0 /\ d'.available = d.available
  BY <1>1, <1>2 DEF LineInv, IsDriver
<1>4. d'.sending = ack
  BY <1>1 DEF LineInv, IsDriver
<1>5. due' = PD!Reply
  <2>1. PD!Reply \in Seq(Frames)
    BY SentAreFrames
  <2> QED
    BY <1>1, <1>2, <2>1, ConcatEmptySeq
<1>6. call.kind \in {"order", "begin", "typed", "untyped"}
  BY <1>1, FramesOfCalls DEF Quiet
<1>7. Comes(d, rx, due)'
  <2>1. CASE call.kind = "order"
    <3>1. due' = IF ack THEN <<Acked>> ELSE << >>
      BY <1>5, <2>1 DEF PD!Reply, PD!Ack, Acked
    <3>2. \/ ack' /\ d'.sending /\ OneComes(d', rx', due', Acked)
          \/ ~d'.sending /\ NoneComes(d', rx', due')
      BY <1>1, <1>2, <1>3, <1>4, <3>1 DEF OneComes, NoneComes
    <3> QED
      BY <1>1, <2>1, <3>2 DEF Comes, Acked
  <2>2. CASE call.kind = "begin"
    <3>1. due' = IF ack THEN <<Acked, Online>> ELSE <<Online>>
      <4>1. due' = Append(IF ack THEN <<Acked>> ELSE << >>, Online)
        BY <1>5, <2>2 DEF PD!Reply, PD!Ack, PD!Online, Acked, Online
      <4> QED
        BY <4>1
    <3>2. \/ ack' /\ d'.sending /\ TwoCome(d', rx', due', Acked, Online)
          \/ ~d'.sending /\ OneComes(d', rx', due', Online)
      BY <1>1, <1>2, <1>3, <1>4, <3>1 DEF OneComes, TwoCome
    <3> QED
      BY <1>1, <2>2, <3>2 DEF Comes, Acked, Online
  <2>3. CASE call.kind \in {"typed", "untyped"}
    <3> DEFINE f == PD!Frame(call.command, asked')
    <3>1. due' = IF ack THEN <<f, Acked>> ELSE <<f>>
      <4>1. due' = <<f>> \o (IF ack THEN <<Acked>> ELSE << >>)
        BY <1>5, <2>3 DEF PD!Reply, PD!Ack, Acked
      <4>2. f \in Frames /\ Acked \in Frames
        <5>1. call.command \in Commands /\ asked' \in Int /\ Acked \in Frames
          BY <1>1, <2>3, FramesOfCalls
        <5> QED
          BY <5>1, FrameBytes
      <4> HIDE DEF f
      <4>3. <<f>> \o <<Acked>> = <<f, Acked>> /\ <<f>> \o << >> = <<f>>
        BY <4>2, TwoInARow, OneIsASeq, ConcatEmptySeq
      <4> QED
        BY <4>1, <4>3
    <3> HIDE DEF f
    <3>2. \/ ack' /\ d'.sending /\ TwoCome(d', rx', due', f, Acked)
          \/ ~ack' /\ ~d'.sending /\ OneComes(d', rx', due', f)
      BY <1>1, <1>2, <1>3, <1>4, <3>1 DEF OneComes, TwoCome
    <3>3. Answered' = f
      BY <1>1 DEF Answered, f
    <3> QED
      BY <1>1, <2>3, <3>2, <3>3 DEF Comes, Acked
  <2> QED
    BY <1>6, <2>1, <2>2, <2>3
<1>8. pc' = "idle" => ~PD!IsQuery'
  BY <1>1 DEF PD!IsQuery
<1> QED
  BY <1>1, <1>3, <1>4, <1>6, <1>7, <1>8 DEF Quiet

\* The module sends what is due, in the order it became due.
LEMMA DeliverStaysQuiet == ASSUME LineInv, Quiet, PD!Deliver PROVE Quiet'
<1>1. /\ due # << >> /\ rx' = rx \o Head(due) /\ due' = Tail(due)
      /\ UNCHANGED <<ack, d, pc, call, result, asked>>
  BY DEF PD!Deliver
<1>2. rx \in Seq(Int) /\ Acked \in Frames /\ Online \in Frames
  BY FramesOfCalls DEF LineInv
<1>3. ASSUME NEW f \in Frames, OneComes(d, rx, due, f)
      PROVE  OneComes(d', rx', due', f)
  BY <1>1, <1>3, PutOne
<1>4. ASSUME NEW f \in Frames, NEW g \in Frames, TwoCome(d, rx, due, f, g)
      PROVE  TwoCome(d', rx', due', f, g)
  BY <1>1, <1>2, <1>4, PutTwo
<1>5. ~NoneComes(d, rx, due)
  BY <1>1 DEF NoneComes
<1>6. CASE pc # "answer"
  <2>1. ack' /\ d'.sending /\ OneComes(d', rx', due', Acked)
    BY <1>1, <1>2, <1>3, <1>5, <1>6 DEF Quiet, Comes
  <2>2. Comes(d, rx, due)'
    BY <1>1, <1>6, <2>1 DEF Comes, Acked
  <2> QED
    BY <1>1, <2>2 DEF Quiet, PD!IsQuery
<1>7. CASE pc = "answer" /\ call.kind = "begin"
  <2>1. \/ ack' /\ d'.sending /\ TwoCome(d', rx', due', Acked, Online)
        \/ ~d'.sending /\ OneComes(d', rx', due', Online)
    BY <1>1, <1>2, <1>3, <1>4, <1>7 DEF Quiet, Comes
  <2>2. Comes(d, rx, due)'
    BY <1>1, <1>7, <2>1 DEF Comes, Acked, Online
  <2> QED
    BY <1>1, <2>2 DEF Quiet, PD!IsQuery
<1>8. CASE pc = "answer" /\ call.kind # "begin"
  <2>0. Answered \in Frames
    BY <1>8, FramesOfCalls DEF Quiet
  <2>1. \/ ack' /\ d'.sending /\ TwoCome(d', rx', due', Answered, Acked)
        \/ ~ack' /\ ~d'.sending /\ OneComes(d', rx', due', Answered)
    BY <1>1, <1>2, <1>3, <1>4, <1>8, <2>0 DEF Quiet, Comes
  <2>2. Answered' = Answered
    BY <1>1 DEF Answered
  <2>3. Comes(d, rx, due)'
    BY <1>1, <1>8, <2>1, <2>2 DEF Comes, Acked
  <2> QED
    BY <1>1, <2>3 DEF Quiet, PD!IsQuery
<1> QED
  BY <1>6, <1>7, <1>8

\* A call begins, or a poll finds nothing.
LEMMA OthersStayQuiet ==
  ASSUME LineInv, Quiet, PD!Begin \/ PD!PollNothing \/ UNCHANGED PD!vars
  PROVE  Quiet'
<1>1. CASE PD!Begin
  <2>1. /\ pc = "idle" /\ pc' = IF call'.kind = "poll" THEN "poll" ELSE "send"
        /\ UNCHANGED <<ack, d, rx, due>>
    BY <1>1 DEF PD!Begin
  <2>2. Comes(d, rx, due)'
    BY <2>1 DEF Quiet, Comes, Acked
  <2> QED
    BY <2>1, <2>2 DEF Quiet
<1>2. CASE PD!PollNothing
  <2>1. pc = "poll" /\ pc' = "idle" /\ UNCHANGED <<ack, d, call, rx, due>>
    BY <1>2 DEF PD!PollNothing
  <2>2. Comes(d, rx, due)'
    BY <2>1 DEF Quiet, Comes, Acked
  <2> QED
    BY <2>1, <2>2 DEF Quiet, PD!IsQuery
<1>3. CASE UNCHANGED PD!vars
  <2>1. UNCHANGED <<ack, d, pc, call, result, rx, due, asked>>
    BY <1>3 DEF PD!vars
  <2>2. Comes(d, rx, due)'
    BY <2>1 DEF Quiet, Comes, Acked, Online, Answered
  <2> QED
    BY <2>1, <2>2 DEF Quiet, PD!IsQuery
<1> QED
  BY <1>1, <1>2, <1>3

\* QuietInv is inductive.
LEMMA StepStaysQuiet == LineInv /\ QuietInv /\ [PD!Next]_(PD!vars) => QuietInv'
<1> SUFFICES ASSUME LineInv, QuietInv, [PD!Next]_(PD!vars), ~disturbed' PROVE Quiet'
  BY DEF QuietInv
<1>1. CASE PD!AckTimeOut \/ PD!AnswerTimeOut \/ PD!DeliverBroken \/ PD!News
  BY <1>1, Zenon DEF PD!AckTimeOut, PD!AnswerTimeOut, PD!DeliverBroken, PD!News
<1>2. CASE \/ PD!Begin \/ PD!Transmit \/ PD!ReadByte \/ PD!TakeAvailable \/ PD!PollNothing
           \/ PD!Deliver \/ UNCHANGED PD!vars
  <2>1. disturbed' = disturbed
    BY <1>2 DEF PD!Begin, PD!Transmit, PD!ReadByte, PD!TakeAvailable, PD!PollNothing,
                PD!Deliver, PD!vars
  <2>2. Quiet
    BY <2>1 DEF QuietInv
  <2>3. ~PD!TakeAvailable
    BY <2>2 DEF Quiet, PD!TakeAvailable
  <2> QED
    BY <1>2, <2>2, <2>3, ReadStaysQuiet, TransmitStaysQuiet, DeliverStaysQuiet,
       OthersStayQuiet
<1> QED
  BY <1>1, <1>2 DEF PD!Next

\* Unless something was lost, came late or unasked for, a query returns what the
\* module answered to it, for any number of calls, with acknowledgements or without
\* (DF_sendStack(), DF_waitAvailable(), DF_available() and DF_read()).
THEOREM AnswersBelongToQueries == PD!Spec => []AnswerIsOfTheQuery
<1>1. PD!Init => QuietInv
  <2> SUFFICES ASSUME PD!Init PROVE Quiet
    BY DEF QuietInv
  <2>1. /\ d.index = 0 /\ d.sending \in BOOLEAN /\ d.available = FALSE
        /\ rx = << >> /\ due = << >> /\ pc = "idle" /\ ack \in BOOLEAN
    BY DEF PD!Init
  <2>2. ~d.sending /\ ~PD!IsQuery
    BY DEF PD!Init, PD!IsQuery, PD!Order
  <2> QED
    BY <2>1, <2>2 DEF Quiet, Comes, NoneComes
<1>2. QuietInv => AnswerIsOfTheQuery
  BY DEF QuietInv, Quiet, AnswerIsOfTheQuery, PD!AnswerIsOfTheQuery
<1> QED
  BY <1>1, <1>2, LineStarts, StepKeepsLine, StepStaysQuiet, PTL DEF PD!Spec
=============================================================================
