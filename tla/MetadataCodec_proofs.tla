------------------------ MODULE MetadataCodec_proofs ------------------------
(***************************************************************************)
(* What MetadataWriter writes MetadataReader reads back, for every value   *)
(* of every standard type: induction along the fields of a message, set    *)
(* out with explicit sets because a loop's result is a recursive function. *)
(***************************************************************************)
EXTENDS MetadataCodec, TLAPS, NaturalsInduction, WellFoundedInduction, SequenceTheorems

-----------------------------------------------------------------------------
(* Induction along a loop. *)

\* A set that holds 0, and each number up to n whose predecessor it holds,
\* holds all of them.
LEMMA UpTo ==
  ASSUME NEW n \in Nat, NEW S, 0 \in S, \A k \in 1..n : k - 1 \in S => k \in S
  PROVE  \A k \in 0..n : k \in S
<1> DEFINE B == (0..n) \ S
           R == OpToRel(<, Nat)
<1> SUFFICES ASSUME B # {}
             PROVE  FALSE
  OBVIOUS
<1>1. IsWellFoundedOn(R, Nat)
  BY NatLessThanWellFounded
<1>2. B \in SUBSET Nat
  OBVIOUS
<1>3. PICK b \in B : \A g \in B : ~ (<<g, b>> \in R)
  <2> HIDE DEF R, B
  <2> QED
    BY <1>1, <1>2, WFMin
<1>4. b \in 1..n /\ b \notin S
  OBVIOUS
<1>5. b - 1 \in B
  BY <1>4
<1>6. <<b - 1, b>> \in R
  BY <1>4 DEF OpToRel
<1> QED
  BY <1>3, <1>5, <1>6

\* Two runs of a loop that start alike and do the same from the same end alike.
LEMMA SameLoop ==
  ASSUME NEW n \in Nat, NEW s, NEW t, s[0] = t[0],
         \A k \in 1..n : s[k - 1] = t[k - 1] => s[k] = t[k]
  PROVE  \A k \in 0..n : s[k] = t[k]
<1> DEFINE S == {k \in 0..n : s[k] = t[k]}
<1>1. 0 \in S /\ \A k \in 1..n : k - 1 \in S => k \in S
  OBVIOUS
<1>2. \A k \in 0..n : k \in S
  <2> HIDE DEF S
  <2> QED
    BY <1>1, UpTo
<1> QED
  BY <1>2

\* s is what m rounds of the loop with the body F make of v.
Runs(s, m, V, v, F) ==
  s \in [0..m -> V] /\ s[0] = v /\ \A k \in 1..m : s[k] = F[<<k, s[k - 1]>>]

\* A loop whose body takes values to values can be run.
LEMMA LoopRuns ==
  ASSUME NEW n \in Nat, NEW V, NEW v \in V, NEW F \in [(1..n) \X V -> V]
  PROVE  \E s : Runs(s, n, V, v, F)
<1> DEFINE S == {m \in 0..n : \E s : Runs(s, m, V, v, F)}
<1>1. 0 \in S
  <2>1. Runs([k \in 0..0 |-> v], 0, V, v, F)
    BY DEF Runs
  <2> QED
    BY <2>1
<1>2. ASSUME NEW m \in 1..n, m - 1 \in S
      PROVE  m \in S
  <2>1. PICK s : Runs(s, m - 1, V, v, F)
    BY <1>2
  <2> DEFINE t == [k \in 0..m |-> IF k = m THEN F[<<m, s[m - 1]>>] ELSE s[k]]
  <2>2. s[m - 1] \in V /\ F[<<m, s[m - 1]>>] \in V
    BY <2>1 DEF Runs
  <2>3. t \in [0..m -> V] /\ t[0] = v
    BY <2>1, <2>2 DEF Runs
  <2>4. ASSUME NEW k \in 1..m
        PROVE  t[k] = F[<<k, t[k - 1]>>]
    <3>1. k - 1 \in 0..m /\ k - 1 # m /\ t[k - 1] = s[k - 1]
      OBVIOUS
    <3>2. CASE k = m
      BY <3>1, <3>2
    <3>3. CASE k # m
      <4>1. k \in 1..(m - 1)
        BY <3>3
      <4>2. s[k] = F[<<k, s[k - 1]>>]
        BY <2>1, <4>1 DEF Runs
      <4> QED
        BY <3>1, <3>3, <4>2
    <3> QED
      BY <3>2, <3>3
  <2>5. Runs(t, m, V, v, F)
    <3> HIDE DEF t
    <3> QED
      BY <2>3, <2>4 DEF Runs
  <2> QED
    BY <2>5
<1>3. n \in S
  <2> HIDE DEF S
  <2>1. \A k \in 0..n : k \in S
    BY <1>1, <1>2, UpTo
  <2> QED
    BY <2>1
<1> QED
  BY <1>3

-----------------------------------------------------------------------------
(* Messages and their sizes. *)

Fields(D) == [size : Nat, data : D]

\* The data of a message, and what a message is: a sequence of fields.
Data(m) == {m[i].data : i \in 1..Len(m)}
IsMessage(m) == m \in Seq(Fields(Data(m)))

\* A sequence of fields of any data is a message.
LEMMA MessageOf ==
  ASSUME NEW D, NEW m \in Seq(Fields(D))
  PROVE  IsMessage(m)
<1>1. Len(m) \in Nat /\ m \in [1..Len(m) -> Fields(D)]
  BY LenProperties
<1>2. \A i \in 1..Len(m) : m[i] \in Fields(Data(m))
  BY <1>1 DEF Fields, Data
<1>3. m \in [1..Len(m) -> Fields(Data(m))]
  BY <1>1, <1>2
<1> QED
  BY <1>1, <1>3, SeqDef DEF IsMessage

\* The sizes of the first fields of m, added up.
AreSums(S, m) ==
  /\ S \in [0..Len(m) -> Nat]
  /\ S[0] = 0
  /\ \A k \in 1..Len(m) : S[k] = S[k - 1] + m[k].size

Sums(m) == CHOOSE S : AreSums(S, m)
Total(m) == Sums(m)[Len(m)]

\* A message has a length, fields and sums.
LEMMA MessageParts ==
  ASSUME NEW m, IsMessage(m)
  PROVE  /\ Len(m) \in Nat
         /\ \A i \in 1..Len(m) : m[i] \in Fields(Data(m)) /\ m[i].size \in Nat
         /\ AreSums(Sums(m), m)
         /\ Total(m) \in Nat
<1>1. Len(m) \in Nat /\ m \in [1..Len(m) -> Fields(Data(m))]
  BY LenProperties DEF IsMessage
<1>2. \A i \in 1..Len(m) : m[i] \in Fields(Data(m)) /\ m[i].size \in Nat
  BY <1>1 DEF Fields
<1> DEFINE n == Len(m)
           F == [x \in (1..n) \X Nat |-> x[2] + m[x[1]].size]
<1>3. F \in [(1..n) \X Nat -> Nat]
  BY <1>2
<1>4. PICK S : Runs(S, n, Nat, 0, F)
  <2> HIDE DEF F
  <2> QED
    BY <1>1, <1>3, LoopRuns
<1>5. AreSums(S, m)
  <2>1. \A k \in 1..n : k - 1 \in 0..n /\ <<k, S[k - 1]>> \in (1..n) \X Nat
    BY <1>1, <1>4 DEF Runs
  <2>2. \A k \in 1..n : F[<<k, S[k - 1]>>] = S[k - 1] + m[k].size
    BY <2>1
  <2> HIDE DEF F
  <2> QED
    BY <1>4, <2>2 DEF Runs, AreSums
<1>6. AreSums(Sums(m), m)
  BY <1>5 DEF Sums
<1>7. Total(m) \in Nat
  BY <1>1, <1>6 DEF AreSums, Total
<1> QED
  BY <1>1, <1>2, <1>6, <1>7

\* The more fields the more bytes.
LEMMA SumsMonotone ==
  ASSUME NEW m, IsMessage(m), NEW j \in 0..Len(m), NEW k \in 0..Len(m), j <= k
  PROVE  Sums(m)[j] \in Nat /\ Sums(m)[k] \in Nat /\ Sums(m)[j] <= Sums(m)[k]
<1> DEFINE n == Len(m)
           S == Sums(m)
<1>1. n \in Nat /\ S \in [0..n -> Nat] /\ \A i \in 1..n : S[i] = S[i - 1] + m[i].size /\ m[i].size \in Nat
  BY MessageParts DEF AreSums
<1> HIDE DEF S
<1> DEFINE G == {e \in 0..(n - j) : S[j] <= S[j + e]}
<1>2. 0 \in G /\ n - j \in Nat
  BY <1>1
<1>3. ASSUME NEW e \in 1..(n - j), e - 1 \in G
      PROVE  e \in G
  <2>1. j + e \in 1..n /\ j + e - 1 = j + (e - 1) /\ j + (e - 1) \in 0..n
    BY <1>1
  <2>2. S[j] <= S[j + (e - 1)] /\ S[j + (e - 1)] \in Nat /\ S[j] \in Nat
    BY <1>1, <1>3, <2>1
  <2>3. S[j + e] = S[j + (e - 1)] + m[j + e].size /\ m[j + e].size \in Nat
    BY <1>1, <2>1
  <2> QED
    BY <2>1, <2>2, <2>3
<1>4. k - j \in 0..(n - j) /\ j + (k - j) = k
  BY <1>1
<1>5. k - j \in G
  <2> HIDE DEF G
  <2> QED
    BY <1>2, <1>3, <1>4, UpTo
<1> QED
  BY <1>1, <1>4, <1>5 DEF S

\* No more than all of them.
LEMMA SumsGrow ==
  ASSUME NEW m, IsMessage(m), NEW k \in 0..Len(m)
  PROVE  Sums(m)[k] \in Nat /\ Sums(m)[k] <= Total(m)
<1>1. Len(m) \in 0..Len(m) /\ k <= Len(m)
  BY MessageParts
<1> QED
  BY <1>1, SumsMonotone DEF Total

\* Messages of fields of the same sizes have the same sums.
LEMMA SameSizes ==
  ASSUME NEW m, NEW l, IsMessage(m), IsMessage(l), Len(m) = Len(l),
         \A i \in 1..Len(m) : m[i].size = l[i].size
  PROVE  Total(m) = Total(l)
<1> DEFINE n == Len(m)
           S == Sums(m)
           T == Sums(l)
<1>1. /\ n \in Nat /\ S[0] = 0 /\ T[0] = 0
      /\ \A i \in 1..n : S[i] = S[i - 1] + m[i].size /\ T[i] = T[i - 1] + l[i].size
  BY MessageParts DEF AreSums
<1> HIDE DEF S, T, n
<1>2. \A i \in 1..n : S[i - 1] = T[i - 1] => S[i] = T[i]
  BY <1>1 DEF n
<1>3. n \in Nat /\ S[0] = T[0]
  BY <1>1
<1>4. \A i \in 0..n : S[i] = T[i]
  BY ONLY <1>2, <1>3, SameLoop
<1> QED
  BY <1>1, <1>4 DEF S, T, n, Total

\* A message of fields no larger than b has b bytes for each at most.
LEMMA TotalBound ==
  ASSUME NEW m, IsMessage(m), NEW b \in Nat, \A i \in 1..Len(m) : m[i].size <= b
  PROVE  Total(m) <= b * Len(m)
<1> DEFINE n == Len(m)
           S == Sums(m)
<1>1. /\ n \in Nat /\ S \in [0..n -> Nat] /\ S[0] = 0
      /\ \A i \in 1..n : S[i] = S[i - 1] + m[i].size /\ m[i].size \in Nat
  BY MessageParts DEF AreSums
<1> DEFINE G == {k \in 0..n : S[k] <= b * k}
<1>2. 0 \in G
  BY <1>1
<1>3. ASSUME NEW k \in 1..n, k - 1 \in G
      PROVE  k \in G
  <2>1. PICK s \in Nat : s = S[k - 1] /\ s <= b * (k - 1)
    BY <1>1, <1>3
  <2>2. PICK z \in Nat : z = m[k].size /\ z <= b
    BY <1>1
  <2>3. S[k] = s + z
    BY <1>1, <2>1, <2>2
  <2>4. b * (k - 1) + b = b * k
    OBVIOUS
  <2>5. s + z <= b * k
    BY <2>1, <2>2, <2>4
  <2> QED
    BY <2>3, <2>5
<1>4. n \in G
  <2> HIDE DEF G
  <2>1. \A k \in 0..n : k \in G
    BY <1>1, <1>2, <1>3, UpTo
  <2> QED
    BY <1>1, <2>1
<1> QED
  BY <1>4 DEF Total

-----------------------------------------------------------------------------
(* Writing. *)

\* The first j values of g, and one more.
LEMMA OneMore ==
  ASSUME NEW j \in Nat, NEW g
  PROVE  Append([i \in 1..j |-> g[i]], g[j + 1]) = [i \in 1..(j + 1) |-> g[i]]
<1> DEFINE V == {g[i] : i \in 1..(j + 1)}
           s == [i \in 1..j |-> g[i]]
           t == [i \in 1..(j + 1) |-> g[i]]
<1>1. s \in Seq(V) /\ Len(s) = j
  <2>1. s \in [1..j -> V]
    OBVIOUS
  <2>2. s \in Seq(V)
    <3> HIDE DEF s, V
    <3> QED
      BY <2>1, SeqDef
  <2>3. DOMAIN s = 1..j /\ Len(s) \in Nat /\ DOMAIN s = 1..Len(s)
    BY <2>2, LenProperties
  <2> QED
    BY <2>2, <2>3
<1>2. t \in Seq(V) /\ Len(t) = j + 1
  <2>1. t \in [1..(j + 1) -> V] /\ j + 1 \in Nat
    OBVIOUS
  <2>2. t \in Seq(V)
    <3> HIDE DEF t, V
    <3> QED
      BY <2>1, SeqDef
  <2>3. DOMAIN t = 1..(j + 1) /\ Len(t) \in Nat /\ DOMAIN t = 1..Len(t)
    BY <2>2, LenProperties
  <2> QED
    BY <2>2, <2>3
<1>3. g[j + 1] \in V
  OBVIOUS
<1>4. /\ Append(s, g[j + 1]) \in Seq(V) /\ Len(Append(s, g[j + 1])) = j + 1
      /\ \A i \in 1..j : Append(s, g[j + 1])[i] = s[i]
      /\ Append(s, g[j + 1])[j + 1] = g[j + 1]
  <2> HIDE DEF s, V
  <2> QED
    BY <1>1, <1>3, AppendProperties
<1>5. \A i \in 1..(j + 1) : Append(s, g[j + 1])[i] = t[i]
  <2> SUFFICES ASSUME NEW i \in 1..(j + 1)
               PROVE  Append(s, g[j + 1])[i] = t[i]
    OBVIOUS
  <2>1. i \in 1..j \/ i = j + 1
    OBVIOUS
  <2>2. i \in 1..j => s[i] = g[i]
    OBVIOUS
  <2>3. t[i] = g[i]
    OBVIOUS
  <2> HIDE DEF s, t
  <2> QED
    BY <1>4, <2>1, <2>2, <2>3
<1> QED
  <2> HIDE DEF s, t, V
  <2>1. Append(s, g[j + 1]) = t
    BY <1>2, <1>4, <1>5, SeqEqual
  <2> QED
    BY <2>1 DEF s, t

\* The length of a sequence given by its values.
LEMMA LenOf ==
  ASSUME NEW j \in Nat, NEW g
  PROVE  Len([i \in 1..j |-> g[i]]) = j
<1> DEFINE V == {g[i] : i \in 1..j}
           s == [i \in 1..j |-> g[i]]
<1>1. s \in [1..j -> V] /\ DOMAIN s = 1..j
  OBVIOUS
<1> HIDE DEF s, V
<1>2. s \in Seq(V)
  BY <1>1, SeqDef
<1>3. DOMAIN s = 1..Len(s) /\ Len(s) \in Nat
  BY <1>2, LenProperties
<1>4. Len(s) = j
  BY <1>1, <1>3
<1> QED
  BY <1>4 DEF s

Writers(D) == [dest : Seq(Fields(D)), remaining : Int, desired : Int]

\* reserve() of one field makes a writer of a writer.
LEMMA ReserveType ==
  ASSUME NEW D, NEW w \in Writers(D), NEW f \in Fields(D)
  PROVE  Reserve(w, f) \in Writers(D)
<1> DEFINE Q == Seq(Fields(D))
<1>1. PICK a \in Q, c \in Int, d \in Int : w = [dest |-> a, remaining |-> c, desired |-> d]
  <2>1. w = [dest |-> w.dest, remaining |-> w.remaining, desired |-> w.desired]
        /\ w.dest \in Q /\ w.remaining \in Int /\ w.desired \in Int
    <3> HIDE DEF Q
    <3> QED
      BY DEF Writers, Q
  <2> QED
    BY <2>1
<1>2. PICK x \in Q : x = Append(a, f)
  BY AppendProperties
<1>3. PICK z \in Nat : z = f.size
  BY DEF Fields
<1>4. Reserve(w, f) \in {w, [dest |-> a, remaining |-> 0, desired |-> -BAD_VALUE],
                         [dest |-> a, remaining |-> 0, desired |-> d + z],
                         [dest |-> x, remaining |-> c - z, desired |-> d + z]}
  <2>1. w.dest = a /\ w.remaining = c /\ w.desired = d
    BY <1>1
  <2> QED
    BY <1>2, <1>3, <2>1 DEF Reserve
<1> HIDE DEF Q
<1> QED
  BY <1>1, <1>4 DEF Writers, Q, BAD_VALUE

\* The first k fields of m are in d.
Begins(d, m, k) == k <= Len(d) /\ \A i \in 1..k : d[i] = m[i]

\* The size asked for does not depend on the room, and is the total unless it
\* overflows; the fields that fit are written, all of them if there is room.
LEMMA WriterCounts ==
  ASSUME NEW m, IsMessage(m), Total(m) <= MaxInt32, NEW b \in Nat
  PROVE  /\ Written(m, b).desired = Total(m) /\ Written(m, b).dest \in Seq(Fields(Data(m)))
         /\ Total(m) <= b => Written(m, b).dest = m
         /\ \A k \in 0..Len(m) : Sums(m)[k] <= b => Begins(Written(m, b).dest, m, k)
<1> DEFINE n == Len(m)
           D == Data(m)
           V == Writers(D)
           v == [dest |-> <<>>, remaining |-> b, desired |-> 0]
           F == [x \in (1..n) \X V |-> Reserve(x[2], m[x[1]])]
           Is(w) == w = [k \in 0..n |-> IF k = 0 THEN v ELSE Reserve(w[k - 1], m[k])]
           W == CHOOSE w : Is(w)
           S == Sums(m)
<1>1. /\ n \in Nat /\ S \in [0..n -> Nat] /\ S[0] = 0 /\ S[n] = Total(m)
      /\ \A k \in 1..n : S[k] = S[k - 1] + m[k].size /\ m[k].size \in Nat /\ m[k] \in Fields(D)
  BY MessageParts DEF AreSums, Total
<1>2. v \in V
  BY EmptySeq DEF Writers
<1>3. F \in [(1..n) \X V -> V]
  BY <1>1, ReserveType
<1>4. PICK s : Runs(s, n, V, v, F)
  <2> HIDE DEF F, V, v
  <2> QED
    BY <1>1, <1>2, <1>3, LoopRuns
<1>5. Is(s)
  <2>1. s \in [0..n -> V] /\ s[0] = v
    BY <1>4 DEF Runs
  <2>2. ASSUME NEW k \in 1..n
        PROVE  s[k] = Reserve(s[k - 1], m[k])
    <3>1. s[k] = F[<<k, s[k - 1]>>]
      <4> HIDE DEF F, V, v
      <4> QED
        BY <1>4 DEF Runs
    <3>2. <<k, s[k - 1]>> \in (1..n) \X V
      <4> HIDE DEF F, V, v
      <4>1. k - 1 \in 0..n
        BY <1>1
      <4> QED
        BY <2>1, <4>1
    <3> HIDE DEF V
    <3> QED
      BY <3>1, <3>2
  <2> HIDE DEF V, v
  <2> QED
    BY <1>1, <2>1, <2>2
<1>6. Is(W)
  <2> HIDE DEF Is
  <2> QED
    BY <1>5
<1>7. Written(m, b) = W[n]
  BY DEF Written
<1> HIDE DEF W, S, n, D
<1>8. W[0] = v /\ \A k \in 1..n : W[k] = Reserve(W[k - 1], m[k])
  BY <1>1, <1>6
<1>9. \A k \in 0..n : W[k] = s[k] /\ s[k] \in Writers(D)
  <2>1. n \in Nat /\ \A j \in 1..n : j \in 0..n /\ j # 0
    BY <1>1
  <2>2. s[0] = v /\ \A j \in 1..n : s[j] = Reserve(s[j - 1], m[j])
    BY <1>5, <2>1
  <2>3. W[0] = s[0] /\ \A j \in 1..n : W[j - 1] = s[j - 1] => W[j] = s[j]
    <3> HIDE DEF v
    <3> QED
      BY ONLY <1>8, <2>2
  <2>4. \A j \in 0..n : W[j] = s[j]
    BY ONLY <2>1, <2>3, SameLoop
  <2>5. s \in [0..n -> Writers(D)]
    BY <1>4 DEF Runs
  <2> QED
    BY ONLY <2>4, <2>5
<1> DEFINE G == {k \in 0..n :
                   /\ W[k].desired = S[k]
                   /\ S[k] <= b => /\ W[k].remaining = b - S[k]
                                   /\ W[k].dest = [i \in 1..k |-> m[i]]
                   /\ \A i \in 1..k : S[i] <= b => i <= Len(W[k].dest) /\ W[k].dest[i] = m[i]}
<1>10. 0 \in G
  BY <1>1, <1>8
<1>11. ASSUME NEW k \in 1..n, k - 1 \in G
       PROVE  k \in G
  <2>1. /\ S[k] = S[k - 1] + m[k].size /\ m[k].size \in Nat /\ S[k - 1] \in Nat
        /\ S[k] <= Total(m) /\ Total(m) \in Nat /\ MaxInt32 \in Nat /\ k - 1 \in 0..n
    <3>1. k \in 0..Len(m) /\ k - 1 \in 0..n
      BY <1>1 DEF n
    <3>2. S[k] <= Total(m) /\ Total(m) \in Nat
      BY ONLY <3>1, IsMessage(m), SumsGrow, MessageParts DEF S
    <3> QED
      BY <1>1, <3>1, <3>2 DEF MaxInt32
  <2>2. W[k - 1].desired = S[k - 1] /\ W[k] = Reserve(W[k - 1], m[k])
    BY <1>8, <1>11
  <2>3. ~(W[k - 1].desired < 0) /\ ~(m[k].size > MaxInt32 - W[k - 1].desired)
    BY <2>1, <2>2
  <2>4. W[k].desired = S[k]
    BY <2>1, <2>2, <2>3 DEF Reserve
  <2>5. ASSUME S[k] <= b
        PROVE  W[k].remaining = b - S[k] /\ W[k].dest = [i \in 1..k |-> m[i]]
    <3>1. W[k - 1].remaining = b - S[k - 1] /\ W[k - 1].dest = [i \in 1..(k - 1) |-> m[i]]
      BY <1>11, <2>1, <2>5
    <3>2. ~(m[k].size > W[k - 1].remaining)
      BY <2>1, <2>5, <3>1
    <3>3. W[k].remaining = W[k - 1].remaining - m[k].size /\ W[k].dest = Append(W[k - 1].dest, m[k])
      BY <2>2, <2>3, <3>2 DEF Reserve
    <3>4. k - 1 \in Nat /\ k - 1 + 1 = k
      OBVIOUS
    <3>5. Append([i \in 1..(k - 1) |-> m[i]], m[k]) = [i \in 1..k |-> m[i]]
      BY <3>4, OneMore
    <3> QED
      BY <2>1, <3>1, <3>3, <3>5
  <2>6. ASSUME NEW i \in 1..k, S[i] <= b
        PROVE  i <= Len(W[k].dest) /\ W[k].dest[i] = m[i]
    <3> DEFINE d == W[k - 1].dest
    <3>1. d \in Seq(Fields(D)) /\ m[k] \in Fields(D)
      BY <1>1, <1>9, <2>1 DEF Writers
    <3>2. CASE i = k
      <4>1. W[k].dest = [j \in 1..k |-> m[j]]
        BY <2>5, <2>6, <3>2
      <4>2. Len([j \in 1..k |-> m[j]]) = k /\ [j \in 1..k |-> m[j]][k] = m[k]
        BY LenOf
      <4> QED
        BY <3>2, <4>1, <4>2
    <3>3. CASE i # k
      <4>1. i \in 1..(k - 1)
        BY <3>3
      <4>2. i <= Len(d) /\ d[i] = m[i]
        BY <1>11, <2>6, <4>1
      <4>3. W[k].dest \in {d, Append(d, m[k])}
        BY <2>2 DEF Reserve
      <4> HIDE DEF d
      <4>4. Len(d) \in Nat /\ Len(Append(d, m[k])) = Len(d) + 1 /\ (i <= Len(d) => Append(d, m[k])[i] = d[i])
        BY <3>1, <4>1, LenProperties, AppendProperties
      <4> QED
        BY <4>2, <4>3, <4>4
    <3> QED
      BY <3>2, <3>3
  <2> QED
    BY <2>4, <2>5, <2>6
<1>12. \A k \in 0..n : k \in G
  <2> HIDE DEF G
  <2> QED
    BY <1>1, <1>10, <1>11, UpTo
<1>13. m = [i \in 1..n |-> m[i]]
  BY LenProperties DEF IsMessage, n
<1>14. n \in 0..n
  BY <1>1
<1>15. Written(m, b).desired = Total(m) /\ (Total(m) <= b => Written(m, b).dest = m)
  BY <1>1, <1>7, <1>12, <1>13, <1>14
<1>16. Written(m, b).dest \in Seq(Fields(D))
  BY <1>7, <1>14, <1>9 DEF Writers
<1>17. ASSUME NEW k \in 0..n, S[k] <= b
       PROVE  Begins(Written(m, b).dest, m, k)
  <2>1. \A i \in 1..k : i \in 1..n /\ S[i] <= b
    <3>1. ASSUME NEW i \in 1..k
          PROVE  i \in 1..n /\ S[i] <= b
      <4>1. i \in 0..Len(m) /\ k \in 0..Len(m) /\ i <= k /\ i \in 1..n /\ n \in Nat
        BY <1>1 DEF n
      <4>2. S[i] \in Nat /\ S[k] \in Nat /\ S[i] <= S[k]
        BY ONLY <4>1, IsMessage(m), SumsMonotone DEF S
      <4> QED
        BY <1>17, <4>1, <4>2
    <3> QED
      BY <1>1, <3>1
  <2>2. \A i \in 1..k : i <= Len(W[n].dest) /\ W[n].dest[i] = m[i]
    BY <1>12, <1>14, <2>1
  <2>3. W[n].dest \in Seq(Fields(D))
    BY <1>9, <1>14 DEF Writers
  <2>4. k <= Len(W[n].dest)
    <3>1. Len(W[n].dest) \in Nat
      BY <2>3, LenProperties
    <3> QED
      BY <2>2, <3>1
  <2> QED
    BY <1>7, <2>2, <2>4 DEF Begins
<1> QED
  BY <1>15, <1>17, <1>16 DEF n, S, D

-----------------------------------------------------------------------------
(* Reading. *)

\* How many fields of m fit into b bytes.
Fit(m, b) == CHOOSE j \in 0..Len(m) : Sums(m)[j] <= b /\ (j < Len(m) => b < Sums(m)[j + 1])

\* The reader of the b bytes that encode() wrote m into, which has come to the
\* field after the first k, and keeps what it read since the first h; it fails at
\* the first field that did not fit, and stays there.
Passed(m, b, h, k) ==
  [message |-> Written(m, b).dest, at |-> k, remaining |-> b - Sums(m)[k], ok |-> TRUE,
   out |-> [i \in 1..(k - h) |-> m[h + i].data]]
Failed(m, b, h) ==
  [message |-> Written(m, b).dest, at |-> Fit(m, b), remaining |-> b - Sums(m)[Fit(m, b)],
   ok |-> FALSE, out |-> [i \in 1..(Fit(m, b) - h) |-> m[h + i].data]]
ReadTo(m, b, h, k) == IF Sums(m)[k] <= b THEN Passed(m, b, h, k) ELSE Failed(m, b, h)

Readable(m, b) == IsMessage(m) /\ b \in Nat /\ Total(m) <= MaxInt32

\* The number of fields that fit.
LEMMA FitIs ==
  ASSUME NEW m, NEW b, Readable(m, b)
  PROVE  /\ Fit(m, b) \in 0..Len(m) /\ Sums(m)[Fit(m, b)] <= b
         /\ \A k \in 0..Len(m) : Sums(m)[k] <= b <=> k <= Fit(m, b)
<1> DEFINE n == Len(m)
           S == Sums(m)
           Is(j) == S[j] <= b /\ (j < n => b < S[j + 1])
<1>1. n \in Nat /\ S \in [0..n -> Nat] /\ S[0] = 0 /\ b \in Nat
  BY MessageParts DEF Readable, AreSums
<1> HIDE DEF S
<1>2. \E j \in 0..n : Is(j)
  <2> SUFFICES ASSUME \A j \in 0..n : ~Is(j)
               PROVE  FALSE
    OBVIOUS
  <2> DEFINE G == {k \in 0..n : S[k] <= b}
  <2>1. 0 \in G
    BY <1>1
  <2>2. ASSUME NEW k \in 1..n, k - 1 \in G
        PROVE  k \in G
    <3>1. k - 1 \in 0..n /\ k - 1 < n /\ k - 1 + 1 = k /\ k \in 0..n
      BY <1>1
    <3> QED
      BY <1>1, <2>2, <3>1
  <2>3. n \in 0..n /\ n \in G
    <3>1. n \in 0..n
      BY <1>1
    <3> HIDE DEF G
    <3> QED
      BY <1>1, <2>1, <2>2, <3>1, UpTo
  <2> QED
    BY <1>1, <2>3
<1>3. Fit(m, b) \in 0..n /\ Is(Fit(m, b))
  <2>1. Fit(m, b) = CHOOSE j \in 0..n : Is(j)
    BY DEF Fit, S
  <2> HIDE DEF Is
  <2> QED
    BY <1>2, <2>1
<1>4. ASSUME NEW k \in 0..n
      PROVE  S[k] <= b <=> k <= Fit(m, b)
  <2> DEFINE j == Fit(m, b)
  <2>1. j \in 0..n /\ S[j] <= b /\ (j < n => b < S[j + 1])
    BY <1>3
  <2> HIDE DEF j
  <2>2. CASE k <= j
    <3>1. S[k] <= S[j] /\ S[k] \in Nat /\ S[j] \in Nat
      BY <2>1, <2>2, SumsMonotone DEF S, Readable
    <3> QED
      BY <1>1, <2>1, <2>2, <3>1 DEF j
  <2>3. CASE j < k
    <3>1. j + 1 \in 0..n /\ j < n /\ j + 1 <= k
      BY <1>1, <2>1, <2>3
    <3>2. S[j + 1] <= S[k] /\ S[k] \in Nat /\ S[j + 1] \in Nat
      BY <3>1, SumsMonotone DEF S, Readable
    <3> QED
      BY <1>1, <2>1, <2>3, <3>1, <3>2 DEF j
  <2> QED
    BY <1>1, <2>1, <2>2, <2>3
<1> QED
  BY <1>3, <1>4 DEF S

\* A reader that failed stays failed.
LEMMA ReadStays ==
  ASSUME NEW m, NEW b, Readable(m, b), NEW h \in Nat, NEW k \in 0..Len(m), NEW j \in 0..Len(m), k <= j,
         ~ReadTo(m, b, h, k).ok
  PROVE  /\ ReadTo(m, b, h, j) = ReadTo(m, b, h, k)
         /\ Count(ReadTo(m, b, h, k)) = 0
<1>1. ~(Sums(m)[k] <= b)
  BY DEF ReadTo, Passed
<1>2. ~(Sums(m)[j] <= b)
  <2>1. Len(m) \in Nat /\ Fit(m, b) \in 0..Len(m)
    BY MessageParts, FitIs DEF Readable
  <2> QED
    BY <1>1, <2>1, FitIs
<1>3. ReadTo(m, b, h, k) = Failed(m, b, h) /\ ReadTo(m, b, h, j) = Failed(m, b, h)
  BY <1>1, <1>2 DEF ReadTo
<1> QED
  BY <1>3 DEF Failed, Count

\* advance() over a field of the size asked for.
LEMMA ReadField ==
  ASSUME NEW m, NEW b, Readable(m, b), NEW h \in Nat, NEW k \in Nat, h <= k, k < Len(m)
  PROVE  /\ Advance(ReadTo(m, b, h, k), m[k + 1].size) = ReadTo(m, b, h, k + 1)
         /\ ReadTo(m, b, h, k + 1).ok => Count(ReadTo(m, b, h, k + 1)) = m[k + 1].data
<1> DEFINE S == Sums(m)
           r == ReadTo(m, b, h, k)
           z == m[k + 1].size
           d == Written(m, b).dest
           g == [i \in 1..(k + 1 - h) |-> m[h + i].data]
<1>1. /\ k + 1 \in 1..Len(m) /\ k + 1 - 1 = k /\ k \in 0..Len(m) /\ k + 1 \in 0..Len(m) /\ Len(m) \in Nat
      /\ k - h \in Nat /\ k - h + 1 = k + 1 - h /\ h + (k + 1 - h) = k + 1
  BY MessageParts DEF Readable
<1>2. S[k + 1] = S[k] + z /\ z \in Nat /\ S[k] \in Nat /\ S[k + 1] \in Nat /\ b \in Nat
  BY <1>1, MessageParts, SumsGrow DEF Readable, AreSums
<1>3. Append([i \in 1..(k - h) |-> g[i]], g[k - h + 1]) = [i \in 1..(k - h + 1) |-> g[i]]
  <2> HIDE DEF g
  <2> QED
    BY <1>1, OneMore
<1>4. /\ g[k + 1 - h] = m[k + 1].data
      /\ [i \in 1..(k - h) |-> g[i]] = [i \in 1..(k - h) |-> m[h + i].data]
      /\ [i \in 1..(k - h + 1) |-> g[i]] = g
  BY <1>1
<1>5. Append(Passed(m, b, h, k).out, m[k + 1].data) = g
  BY <1>1, <1>3, <1>4 DEF Passed
<1>6. Len(g) = k + 1 - h
  <2>1. Len([i \in 1..(k - h + 1) |-> g[i]]) = k - h + 1
    <3> HIDE DEF g
    <3> QED
      BY <1>1, LenOf
  <2> HIDE DEF g
  <2> QED
    BY <1>1, <1>4, <2>1
<1>7. Passed(m, b, h, k + 1) = [message |-> d, at |-> k + 1, remaining |-> b - S[k + 1], ok |-> TRUE, out |-> g]
  BY DEF Passed
<1> HIDE DEF g
<1>8. ReadTo(m, b, h, k + 1).ok => Count(ReadTo(m, b, h, k + 1)) = m[k + 1].data
  <2>1. CASE S[k + 1] <= b
    <3>1. ReadTo(m, b, h, k + 1).out = g
      BY <1>7, <2>1 DEF ReadTo
    <3> QED
      BY <1>4, <1>6, <3>1 DEF Count, Last
  <2>2. CASE ~(S[k + 1] <= b)
    BY <2>2 DEF ReadTo, Failed
  <2> QED
    BY <2>1, <2>2
<1>9. CASE S[k + 1] <= b
  <2>1. S[k] <= b /\ b - S[k] >= z /\ b - S[k] - z = b - S[k + 1]
    BY <1>2, <1>9
  <2>2. r = Passed(m, b, h, k)
    BY <2>1 DEF ReadTo
  <2>3. /\ r.ok /\ r.remaining >= z /\ r.at = k /\ r.message = d
        /\ r.remaining - z = b - S[k + 1]
    BY <2>1, <2>2 DEF Passed
  <2>4. Found(r, z) = m[k + 1].data
    <3>1. Begins(d, m, k + 1)
      BY <1>1, <1>9, WriterCounts DEF Readable
    <3>2. k + 1 <= Len(d) /\ d[k + 1] = m[k + 1]
      BY <1>1, <3>1 DEF Begins
    <3>3. d \in Seq(Fields(Data(m)))
      BY WriterCounts DEF Readable
    <3>4. k < Len(d)
      <4>1. Len(d) \in Nat
        BY <3>3, LenProperties
      <4> QED
        BY <3>2, <4>1
    <3> HIDE DEF d, r
    <3> QED
      BY <2>3, <3>2, <3>4 DEF Found
  <2>5. Append(r.out, m[k + 1].data) = g
    BY <1>5, <2>2
  <2>6. Advance(r, z) = [message |-> d, at |-> k + 1, remaining |-> b - S[k + 1], ok |-> TRUE, out |-> g]
    <3> HIDE DEF r, z, S, d
    <3> QED
      BY <2>3, <2>4, <2>5 DEF Advance
  <2>7. Advance(r, z) = Passed(m, b, h, k + 1)
    BY <1>7, <2>6
  <2>8. ReadTo(m, b, h, k + 1) = Passed(m, b, h, k + 1)
    BY <1>9 DEF ReadTo
  <2> QED
    BY <1>8, <2>7, <2>8
<1>10. CASE ~(S[k + 1] <= b)
  <2>1. ReadTo(m, b, h, k + 1) = Failed(m, b, h)
    BY <1>10 DEF ReadTo
  <2>2. CASE S[k] <= b
    <3>1. Fit(m, b) = k
      BY <1>1, <1>10, <2>2, FitIs
    <3>2. ~(b - S[k] >= z)
      BY <1>2, <1>10
    <3>3. r = Passed(m, b, h, k)
      BY <2>2 DEF ReadTo
    <3>4. ~(r.remaining >= z)
      BY <3>2, <3>3 DEF Passed
    <3>5. [message |-> r.message, at |-> r.at, remaining |-> r.remaining, ok |-> FALSE, out |-> r.out]
            = Failed(m, b, h)
      BY <3>1, <3>3 DEF Passed, Failed
    <3>6. Advance(r, z) = Failed(m, b, h)
      <4> HIDE DEF r, z
      <4> QED
        BY <3>4, <3>5 DEF Advance
    <3> QED
      BY <1>8, <2>1, <3>6
  <2>3. CASE ~(S[k] <= b)
    <3>1. r = Failed(m, b, h)
      BY <2>3 DEF ReadTo
    <3>2. /\ ~r.ok
          /\ [message |-> r.message, at |-> r.at, remaining |-> r.remaining, ok |-> FALSE, out |-> r.out] = r
      BY <3>1 DEF Failed
    <3>3. Advance(r, z) = r
      <4> HIDE DEF r, z
      <4> QED
        BY <3>2 DEF Advance
    <3> QED
      BY <1>8, <2>1, <3>1, <3>3
  <2> QED
    BY <2>2, <2>3
<1> QED
  BY <1>9, <1>10

-----------------------------------------------------------------------------
(* Parts of messages. *)

\* The elements of m after the first k begin with those of part.
Holds(m, k, part) ==
  k + Len(part) <= Len(m) /\ \A i \in 1..Len(part) : m[k + i] = part[i]

\* What holds two parts put together holds one after the other.
LEMMA HoldsBoth ==
  ASSUME NEW E, NEW m \in Seq(E), NEW k \in Nat, NEW a \in Seq(E), NEW b \in Seq(E),
         Holds(m, k, a \o b)
  PROVE  Holds(m, k, a) /\ Holds(m, k + Len(a), b)
<1>1. /\ Len(m) \in Nat /\ Len(a) \in Nat /\ Len(b) \in Nat /\ Len(a \o b) = Len(a) + Len(b)
      /\ \A i \in 1..(Len(a) + Len(b)) :
           (a \o b)[i] = IF i <= Len(a) THEN a[i] ELSE b[i - Len(a)]
  BY LenProperties, ConcatProperties
<1>2. k + Len(a) + Len(b) <= Len(m) /\ \A i \in 1..(Len(a) + Len(b)) : m[k + i] = (a \o b)[i]
  <2>1. k + Len(a \o b) <= Len(m) /\ \A i \in 1..Len(a \o b) : m[k + i] = (a \o b)[i]
    BY DEF Holds
  <2>2. k + (Len(a) + Len(b)) = k + Len(a) + Len(b) /\ Len(a \o b) = Len(a) + Len(b)
    BY <1>1
  <2> QED
    BY ONLY <2>1, <2>2
<1>3. ASSUME NEW i \in 1..Len(a)
      PROVE  m[k + i] = a[i]
  <2>1. i \in 1..(Len(a) + Len(b)) /\ i <= Len(a)
    BY <1>1
  <2>2. m[k + i] = (a \o b)[i]
    BY <1>2, <2>1
  <2> QED
    BY <1>1, <2>1, <2>2
<1>4. ASSUME NEW i \in 1..Len(b)
      PROVE  m[k + Len(a) + i] = b[i]
  <2>1. /\ Len(a) + i \in 1..(Len(a) + Len(b)) /\ ~(Len(a) + i <= Len(a)) /\ Len(a) + i - Len(a) = i
        /\ k + (Len(a) + i) = k + Len(a) + i
    BY <1>1
  <2>2. m[k + (Len(a) + i)] = (a \o b)[Len(a) + i]
    BY <1>2, <2>1
  <2> QED
    BY <1>1, <2>1, <2>2
<1>5. Holds(m, k, a)
  <2>1. k + Len(a) <= Len(m)
    BY <1>1, <1>2
  <2> QED
    BY <1>3, <2>1 DEF Holds
<1>6. Holds(m, k + Len(a), b)
  <2>1. k + Len(a) + Len(b) <= Len(m)
    BY <1>2
  <2> QED
    BY <1>4, <2>1 DEF Holds
<1> QED
  BY <1>5, <1>6

\* A part of a part is a part.
LEMMA HoldsPart ==
  ASSUME NEW m, NEW k \in Nat, NEW a, NEW j \in Nat, NEW b, Len(m) \in Nat, Len(a) \in Nat,
         Len(b) \in Nat, Holds(m, k, a), Holds(a, j, b)
  PROVE  Holds(m, k + j, b)
<1>1. k + Len(a) <= Len(m) /\ j + Len(b) <= Len(a)
  BY DEF Holds
<1>2. ASSUME NEW i \in 1..Len(b)
      PROVE  m[k + j + i] = b[i]
  <2>1. j + i \in 1..Len(a) /\ k + (j + i) = k + j + i
    BY <1>1
  <2>2. m[k + (j + i)] = a[j + i] /\ a[j + i] = b[i]
    BY <2>1 DEF Holds
  <2> QED
    BY <2>1, <2>2
<1>3. k + j + Len(b) <= Len(m)
  BY <1>1
<1> QED
  BY <1>2, <1>3 DEF Holds

\* Where the parts of a flattened sequence lie in it.
AreStarts(P, ss) ==
  /\ P \in [0..Len(ss) -> Nat]
  /\ P[0] = 0
  /\ P[Len(ss)] = Len(FlattenSeq(ss))
  /\ \A i \in 1..Len(ss) : /\ P[i] = P[i - 1] + Len(ss[i])
                           /\ Holds(FlattenSeq(ss), P[i - 1], ss[i])

\* A flattened sequence consists of its parts, in order.
LEMMA Flattened ==
  ASSUME NEW E, NEW ss \in Seq(Seq(E))
  PROVE  /\ FlattenSeq(ss) \in Seq(E)
         /\ \E P : AreStarts(P, ss)
<1> DEFINE n == Len(ss)
           V == Seq(E)
           F == [x \in (1..n) \X V |-> IF x[1] = 1 THEN ss[1] ELSE x[2] \o ss[x[1]]]
           Is(f) == f = [i \in 1..n |-> IF i = 1 THEN ss[i] ELSE f[i - 1] \o ss[i]]
           f == CHOOSE f : Is(f)
           t == [i \in 0..n |-> IF i = 0 THEN <<>> ELSE f[i]]
           P == [i \in 0..n |-> Len(t[i])]
<1>1. /\ n \in Nat
      /\ \A i \in 1..n : ss[i] \in V
  BY LenProperties
<1>2. <<>> \in V /\ Len(<<>>) = 0
  BY EmptySeq
<1>3. CASE n = 0
  <2>1. ss = <<>>
    BY <1>3, EmptySeq
  <2>2. FlattenSeq(ss) = <<>>
    BY <1>3, <2>1 DEF FlattenSeq
  <2>3. AreStarts([i \in 0..0 |-> 0], ss)
    BY <1>2, <1>3, <2>2 DEF AreStarts
  <2> QED
    BY <1>2, <2>2, <2>3
<1>4. CASE n # 0
  <2>1. F \in [(1..n) \X V -> V]
    <3>1. ASSUME NEW x \in (1..n) \X V
          PROVE  F[x] \in V
      <4>1. x[1] \in 1..n /\ x[2] \in V /\ ss[1] \in V /\ ss[x[1]] \in V
        BY <1>1, <1>4
      <4>2. x[2] \o ss[x[1]] \in V
        BY <4>1, ConcatProperties
      <4> HIDE DEF V
      <4> QED
        BY <4>1, <4>2
    <3> HIDE DEF V
    <3> QED
      BY <3>1
  <2>2. PICK s : Runs(s, n, V, <<>>, F)
    <3> HIDE DEF F, V
    <3> QED
      BY <1>1, <1>2, <2>1, LoopRuns
  <2>3. ASSUME NEW i \in 1..n
        PROVE  s[i] = (IF i = 1 THEN ss[i] ELSE s[i - 1] \o ss[i]) /\ s[i] \in V
    <3>1. s[i] = F[<<i, s[i - 1]>>] /\ s \in [0..n -> V] /\ i - 1 \in 0..n /\ i \in 0..n
      <4> HIDE DEF F, V
      <4> QED
        BY <1>1, <2>2 DEF Runs
    <3>2. <<i, s[i - 1]>> \in (1..n) \X V
      <4> HIDE DEF V
      <4> QED
        BY <3>1
    <3> HIDE DEF V
    <3> QED
      BY <3>1, <3>2
  <2> DEFINE u == [i \in 1..n |-> s[i]]
  <2>4. Is(u)
    <3>1. ASSUME NEW i \in 1..n
          PROVE  u[i] = IF i = 1 THEN ss[i] ELSE u[i - 1] \o ss[i]
      <4>1. i # 1 => i - 1 \in 1..n
        BY <1>1
      <4> QED
        BY <2>3, <4>1
    <3> QED
      BY <3>1
  <2>5. Is(f)
    <3> HIDE DEF Is, u
    <3> QED
      BY <2>4
  <2>6. FlattenSeq(ss) = f[n]
    BY <1>4 DEF FlattenSeq
  <2> HIDE DEF f, V
  <2>7. ASSUME NEW i \in 1..n
        PROVE  f[i] = IF i = 1 THEN ss[i] ELSE f[i - 1] \o ss[i]
    BY <2>5
  <2>8. t[0] = <<>> /\ (\A i \in 1..n : t[i] = f[i] /\ i - 1 \in 0..n /\ (i # 1 => t[i - 1] = f[i - 1]))
    BY <1>1
  <2> HIDE DEF t
  <2>9. \A i \in 0..n : t[i] \in V
    <3> DEFINE G == {i \in 0..n : t[i] \in V}
    <3>1. 0 \in G
      BY <1>1, <1>2, <2>8
    <3>2. ASSUME NEW i \in 1..n, i - 1 \in G
          PROVE  i \in G
      <4>1. t[i - 1] \in V /\ ss[i] \in V /\ t[i] = f[i] /\ i \in 0..n
        BY <1>1, <2>8, <3>2
      <4>2. CASE i = 1
        BY <2>7, <4>1, <4>2
      <4>3. CASE i # 1
        <5>1. t[i - 1] = f[i - 1] /\ t[i] = f[i - 1] \o ss[i]
          BY <2>8, <2>7, <4>1, <4>3
        <5>2. f[i - 1] \o ss[i] \in V
          BY <4>1, <5>1, ConcatProperties DEF V
        <5> QED
          BY <4>1, <5>1, <5>2
      <4> QED
        BY <4>2, <4>3
    <3> HIDE DEF G
    <3>3. \A i \in 0..n : i \in G
      BY <1>1, <3>1, <3>2, UpTo
    <3> QED
      BY <3>3 DEF G
  <2>10. ASSUME NEW i \in 1..n
        PROVE  /\ t[i] = t[i - 1] \o ss[i] /\ t[i - 1] \in V /\ t[i] \in V
               /\ Len(t[i]) = Len(t[i - 1]) + Len(ss[i]) /\ Len(t[i - 1]) \in Nat
    <3>1. i - 1 \in 0..n /\ i \in 0..n /\ t[i] = f[i] /\ ss[i] \in V /\ (i # 1 => t[i - 1] = f[i - 1])
      BY <1>1, <2>8
    <3>2. t[i - 1] \in V /\ t[i] \in V
      BY <2>9, <3>1
    <3>3. CASE i = 1
      <4>1. t[i - 1] = <<>> /\ t[i] = ss[i]
        BY <2>8, <2>7, <3>1, <3>3
      <4>2. <<>> \o ss[i] = ss[i]
        BY <3>1, ConcatEmptySeq DEF V
      <4>3. Len(ss[i]) \in Nat
        BY <3>1, LenProperties DEF V
      <4> QED
        BY <1>2, <3>2, <4>1, <4>2, <4>3
    <3>4. CASE i # 1
      <4>1. t[i] = t[i - 1] \o ss[i]
        BY <2>7, <3>1, <3>4
      <4>2. Len(t[i - 1] \o ss[i]) = Len(t[i - 1]) + Len(ss[i]) /\ Len(t[i - 1]) \in Nat
        BY <3>1, <3>2, ConcatProperties, LenProperties DEF V
      <4> QED
        BY <3>2, <4>1, <4>2
    <3> QED
      BY <3>3, <3>4
  <2>11. t[n] = f[n] /\ t[0] = <<>> /\ n \in 0..n
    BY <1>1, <1>4, <2>8
  <2>12. \A i \in 0..n : Holds(t[n], 0, t[n - i])
    <3> DEFINE G == {i \in 0..n : Holds(t[n], 0, t[n - i])}
    <3>1. 0 \in G
      <4>1. t[n] \in V /\ n - 0 = n /\ 0 \in 0..n
        BY <1>1, <2>9, <2>11
      <4>2. Len(t[n]) \in Nat
        BY <4>1, LenProperties DEF V
      <4>3. Holds(t[n], 0, t[n])
        BY <4>2 DEF Holds
      <4> QED
        BY <4>1, <4>3
    <3>2. ASSUME NEW i \in 1..n, i - 1 \in G
          PROVE  i \in G
      <4> DEFINE j == n - i + 1
      <4>1. j \in 1..n /\ n - (i - 1) = j /\ n - i = j - 1
        BY <1>1
      <4>2. Holds(t[n], 0, t[j - 1] \o ss[j])
        BY <2>10, <3>2, <4>1
      <4>3. t[n] \in Seq(E) /\ t[j - 1] \in Seq(E) /\ ss[j] \in Seq(E)
        BY <1>1, <2>9, <2>10, <2>11, <4>1 DEF V
      <4>4. Holds(t[n], 0, t[j - 1])
        <5> HIDE DEF j
        <5> QED
          BY <4>2, <4>3, HoldsBoth
      <4> QED
        BY <4>1, <4>4
    <3> HIDE DEF G
    <3>3. \A i \in 0..n : i \in G
      BY <1>1, <3>1, <3>2, UpTo
    <3> QED
      BY <3>3 DEF G
  <2>13. ASSUME NEW i \in 1..n
         PROVE  Holds(t[n], Len(t[i - 1]), ss[i])
    <3>1. n - i \in 0..n /\ n - (n - i) = i /\ Len(t[i - 1]) \in Nat /\ 0 + Len(t[i - 1]) = Len(t[i - 1])
      BY <1>1, <2>10
    <3>2. Holds(t[n], 0, t[i - 1] \o ss[i])
      BY <2>10, <2>12, <3>1
    <3>3. t[n] \in Seq(E) /\ t[i - 1] \in Seq(E) /\ ss[i] \in Seq(E)
      BY <1>1, <2>9, <2>10, <2>11 DEF V
    <3> QED
      BY <3>1, <3>2, <3>3, HoldsBoth
  <2>14. AreStarts(P, ss)
    <3>1. \A i \in 0..n : P[i] = Len(t[i]) /\ Len(t[i]) \in Nat
      BY <2>9, LenProperties DEF V
    <3>2. P \in [0..n -> Nat]
      BY <3>1
    <3>3. P[0] = 0 /\ P[n] = Len(FlattenSeq(ss))
      BY <1>1, <1>2, <2>6, <2>11, <3>1
    <3>4. ASSUME NEW i \in 1..n
          PROVE  P[i] = P[i - 1] + Len(ss[i]) /\ Holds(FlattenSeq(ss), P[i - 1], ss[i])
      <4>1. i - 1 \in 0..n /\ i \in 0..n
        BY <1>1
      <4>2. P[i] = Len(t[i]) /\ P[i - 1] = Len(t[i - 1])
        BY <3>1, <4>1
      <4> HIDE DEF P
      <4> QED
        BY <2>6, <2>10, <2>11, <2>13, <4>2
    <3> HIDE DEF P
    <3> QED
      BY <3>2, <3>3, <3>4 DEF AreStarts
  <2>15. f[n] \in Seq(E)
    BY <2>9, <2>11 DEF V
  <2> QED
    BY <2>6, <2>14, <2>15
<1> QED
  BY <1>3, <1>4

-----------------------------------------------------------------------------
(* Reading the parts of a value. *)

\* The reader stands before n numbers of size z.
AtInts(m, b, h, k, n, z) ==
  /\ Readable(m, b) /\ h \in Nat /\ k \in Nat /\ h <= k
  /\ n \in Nat /\ k + n <= Len(m) /\ \A i \in 1..n : m[k + i].size = z

\* A loop that reads numbers of one size.
LEMMA ReadsValues ==
  ASSUME NEW m, NEW b, NEW h, NEW k, NEW n, NEW z, AtInts(m, b, h, k, n, z)
  PROVE  ReadInts(z, n, ReadTo(m, b, h, k)) = ReadTo(m, b, h, k + n)
<1> USE DEF AtInts
<1> DEFINE r == ReadTo(m, b, h, k)
           g == [j \in 0..n |-> ReadTo(m, b, h, k + j)]
           Is(s) == s = [j \in 0..n |-> IF j = 0 THEN r
                                        ELSE IF s[j - 1].ok THEN Advance(s[j - 1], z) ELSE s[j - 1]]
           W == CHOOSE s : Is(s)
<1>1. ReadInts(z, n, r) = W[n]
  BY DEF ReadInts, Repeat
<1>2. ASSUME NEW j \in 1..n
      PROVE  (IF g[j - 1].ok THEN Advance(g[j - 1], z) ELSE g[j - 1]) = g[j]
  <2> DEFINE i == k + (j - 1)
  <2>1. j - 1 \in 0..n /\ j \in 0..n /\ i \in Nat /\ i + 1 = k + j /\ h <= i /\ i < Len(m)
    <3>1. Len(m) \in Nat
      BY MessageParts DEF Readable
    <3> QED
      BY <3>1
  <2>2. m[i + 1].size = z
    <3>1. m[k + j].size = z
      OBVIOUS
    <3> QED
      BY <2>1, <3>1
  <2>3. Advance(ReadTo(m, b, h, i), z) = ReadTo(m, b, h, i + 1)
    <3> HIDE DEF i
    <3> QED
      BY <2>1, <2>2, ReadField
  <2>4. g[j - 1] = ReadTo(m, b, h, i) /\ g[j] = ReadTo(m, b, h, i + 1)
    BY <2>1
  <2>5. ASSUME ~ReadTo(m, b, h, i).ok
        PROVE  ReadTo(m, b, h, i + 1) = ReadTo(m, b, h, i)
    <3>1. i \in 0..Len(m) /\ i + 1 \in 0..Len(m) /\ i <= i + 1
      BY <2>1, MessageParts DEF Readable
    <3> HIDE DEF i
    <3> QED
      BY <2>5, <3>1, ReadStays
  <2> HIDE DEF g, i
  <2> QED
    BY <2>3, <2>4, <2>5
<1>3. g[0] = r /\ g[n] = ReadTo(m, b, h, k + n) /\ k + 0 = k
  OBVIOUS
<1>4. g = [j \in 0..n |-> g[j]]
  OBVIOUS
<1> HIDE DEF g, r
<1>5. Is(g)
  <2>1. \A j \in 0..n : j = 0 \/ j \in 1..n
    OBVIOUS
  <2>2. \A j \in 0..n : g[j] = IF j = 0 THEN r ELSE IF g[j - 1].ok THEN Advance(g[j - 1], z) ELSE g[j - 1]
    BY <1>2, <1>3, <2>1
  <2> QED
    BY <1>4, <2>2
<1>6. Is(W)
  <2> HIDE DEF Is
  <2> QED
    BY <1>5
<1> HIDE DEF W
<1>7. W[0] = g[0]
  BY <1>3, <1>6
<1>8. \A j \in 1..n : W[j - 1] = g[j - 1] => W[j] = g[j]
  BY <1>2, <1>6
<1>9. \A j \in 0..n : W[j] = g[j]
  BY ONLY <1>7, <1>8, n \in Nat, SameLoop
<1> QED
  BY <1>1, <1>3, <1>9 DEF r

\* One field after another.
LEMMA Joined ==
  ASSUME NEW x, NEW y, NEW z
  PROVE  <<x>> \o <<y>> = <<x, y>> /\ <<x, y>> \o <<z>> = <<x, y, z>>
<1> DEFINE E == {x, y, z}
<1>1. /\ <<x>> \in Seq(E) /\ <<y>> \in Seq(E) /\ <<z>> \in Seq(E) /\ <<x, y>> \in Seq(E)
      /\ <<x, y, z>> \in Seq(E)
      /\ Len(<<x>>) = 1 /\ Len(<<y>>) = 1 /\ Len(<<z>>) = 1 /\ Len(<<x, y>>) = 2
      /\ Len(<<x, y, z>>) = 3
  OBVIOUS
<1>2. <<x>> \o <<y>> = <<x, y>>
  <2>1. /\ <<x>> \o <<y>> \in Seq(E) /\ Len(<<x>> \o <<y>>) = 2
        /\ (<<x>> \o <<y>>)[1] = x /\ (<<x>> \o <<y>>)[2] = y
    BY <1>1, ConcatProperties
  <2>2. \A i \in 1..2 : (<<x>> \o <<y>>)[i] = <<x, y>>[i]
    BY <2>1
  <2> QED
    BY <1>1, <2>1, <2>2, SeqEqual
<1>3. <<x, y>> \o <<z>> = <<x, y, z>>
  <2>1. /\ <<x, y>> \o <<z>> \in Seq(E) /\ Len(<<x, y>> \o <<z>>) = 3
        /\ (<<x, y>> \o <<z>>)[1] = x /\ (<<x, y>> \o <<z>>)[2] = y /\ (<<x, y>> \o <<z>>)[3] = z
    BY <1>1, ConcatProperties
  <2>2. \A i \in 1..3 : (<<x, y>> \o <<z>>)[i] = <<x, y, z>>[i]
    BY <2>1
  <2> QED
    BY <1>1, <2>1, <2>2, SeqEqual
<1> QED
  BY <1>2, <1>3

\* Messages are put together from messages.
LEMMA MessageJoin ==
  ASSUME NEW l, NEW m, IsMessage(l), IsMessage(m)
  PROVE  IsMessage(l \o m) /\ Len(l \o m) = Len(l) + Len(m)
<1> DEFINE D == Data(l) \cup Data(m)
<1>1. Fields(Data(l)) \subseteq Fields(D) /\ Fields(Data(m)) \subseteq Fields(D)
  BY DEF Fields
<1>2. l \in Seq(Fields(D)) /\ m \in Seq(Fields(D))
  <2> HIDE DEF D
  <2> QED
    BY <1>1, SeqMonotonic DEF IsMessage
<1>3. l \o m \in Seq(Fields(D)) /\ Len(l \o m) = Len(l) + Len(m)
  <2> HIDE DEF D
  <2> QED
    BY <1>2, ConcatProperties
<1> QED
  <2> HIDE DEF D
  <2> QED
    BY <1>3, MessageOf

\* Two messages that begin alike, and go on with fields of the same sizes, have
\* as many bytes.
LEMMA SameJoin ==
  ASSUME NEW h, NEW a, NEW b, IsMessage(h), IsMessage(a), IsMessage(b), Len(a) = Len(b),
         \A i \in 1..Len(a) : a[i].size = b[i].size
  PROVE  Total(h \o a) = Total(h \o b)
<1> DEFINE D == Data(h) \cup Data(a) \cup Data(b)
<1>1. /\ Fields(Data(h)) \subseteq Fields(D) /\ Fields(Data(a)) \subseteq Fields(D)
      /\ Fields(Data(b)) \subseteq Fields(D)
  BY DEF Fields
<1> HIDE DEF D
<1>2. h \in Seq(Fields(D)) /\ a \in Seq(Fields(D)) /\ b \in Seq(Fields(D))
  BY <1>1, SeqMonotonic DEF IsMessage
<1>3. /\ Len(h) \in Nat /\ Len(a) \in Nat
      /\ Len(h \o a) = Len(h) + Len(a) /\ Len(h \o b) = Len(h) + Len(b)
  BY <1>2, ConcatProperties, LenProperties
<1>4. ASSUME NEW i \in 1..(Len(h) + Len(a))
      PROVE  (h \o a)[i].size = (h \o b)[i].size
  <2>1. /\ (h \o a)[i] = IF i <= Len(h) THEN h[i] ELSE a[i - Len(h)]
        /\ (h \o b)[i] = IF i <= Len(h) THEN h[i] ELSE b[i - Len(h)]
    BY <1>2, <1>4, ConcatProperties
  <2>2. CASE i <= Len(h)
    BY <2>1, <2>2
  <2>3. CASE ~(i <= Len(h))
    <3>1. i - Len(h) \in 1..Len(a)
      BY <1>3, <2>3
    <3> QED
      BY <2>1, <2>3, <3>1
  <2> QED
    BY <2>2, <2>3
<1>5. IsMessage(h \o a) /\ IsMessage(h \o b)
  BY MessageJoin
<1> QED
  BY <1>3, <1>4, <1>5, SameSizes

\* ... and hold what they are put together from.
LEMMA HoldsJoin ==
  ASSUME NEW m, IsMessage(m), NEW k \in Nat, NEW a, IsMessage(a), NEW c, IsMessage(c),
         Holds(m, k, a \o c)
  PROVE  Holds(m, k, a) /\ Holds(m, k + Len(a), c)
<1> DEFINE D == Data(m) \cup Data(a) \cup Data(c)
<1>1. /\ Fields(Data(m)) \subseteq Fields(D) /\ Fields(Data(a)) \subseteq Fields(D)
      /\ Fields(Data(c)) \subseteq Fields(D)
  BY DEF Fields
<1> HIDE DEF D
<1>2. m \in Seq(Fields(D)) /\ a \in Seq(Fields(D)) /\ c \in Seq(Fields(D))
  BY <1>1, SeqMonotonic DEF IsMessage
<1> QED
  BY <1>2, HoldsBoth

\* ss is n messages in a row.
AreMessages(ss, n) ==
  n \in Nat /\ ss = [i \in 1..n |-> ss[i]] /\ \A i \in 1..n : IsMessage(ss[i])

\* A sequence of messages flattened is a message that holds them in order.
LEMMA MessageFlat ==
  ASSUME NEW n, NEW ss, AreMessages(ss, n)
  PROVE  Len(ss) = n /\ IsMessage(FlattenSeq(ss)) /\ \E P : AreStarts(P, ss)
<1> DEFINE D == UNION {Data(ss[i]) : i \in 1..n}
           V == Seq(Fields(D))
<1> USE DEF AreMessages
<1>1. ASSUME NEW i \in 1..n
      PROVE  ss[i] \in V
  <2>1. Fields(Data(ss[i])) \subseteq Fields(D)
    BY DEF Fields
  <2> HIDE DEF D
  <2> QED
    BY <2>1, SeqMonotonic DEF IsMessage
<1>2. ss \in [1..n -> V]
  <2> HIDE DEF V
  <2> QED
    BY <1>1
<1>3. ss \in Seq(V)
  <2> HIDE DEF V
  <2> QED
    BY <1>2, SeqDef
<1> HIDE DEF D
<1>4. Len(ss) = n
  <2>1. DOMAIN ss = 1..Len(ss) /\ Len(ss) \in Nat /\ DOMAIN ss = 1..n
    <3> HIDE DEF V
    <3> QED
      BY <1>2, <1>3, LenProperties
  <2> QED
    BY <2>1
<1>5. FlattenSeq(ss) \in Seq(Fields(D)) /\ \E P : AreStarts(P, ss)
  BY <1>3, Flattened
<1> QED
  BY <1>4, <1>5, MessageOf

\* Numbers of one size make a message.
LEMMA MessageOfInts ==
  ASSUME NEW v, Len(v) \in Nat, NEW z \in Nat
  PROVE  /\ IsMessage(Ints(z, v)) /\ Len(Ints(z, v)) = Len(v)
         /\ \A i \in 1..Len(v) : Ints(z, v)[i].size = z /\ Ints(z, v)[i].data = v[i]
<1> DEFINE n == Len(v)
           m == Ints(z, v)
           D == {v[i] : i \in 1..n}
<1>1. m \in [1..n -> Fields(D)] /\ DOMAIN m = 1..n
      /\ \A i \in 1..n : m[i].size = z /\ m[i].data = v[i]
  BY DEF Fields, Ints
<1> HIDE DEF D, m
<1>2. m \in Seq(Fields(D))
  BY <1>1, SeqDef
<1>3. DOMAIN m = 1..Len(m) /\ Len(m) \in Nat
  BY <1>2, LenProperties
<1>4. Len(m) = n
  BY <1>1, <1>3
<1>5. IsMessage(m)
  BY <1>2, MessageOf
<1> QED
  BY <1>1, <1>4, <1>5 DEF m

\* A number by itself is one field.
LEMMA MessageOfOne ==
  ASSUME NEW v
  PROVE  /\ IsMessage(Int32(v)) /\ Len(Int32(v)) = 1 /\ Int32(v)[1] = [size |-> 4, data |-> v]
         /\ IsMessage(Int64(v)) /\ Len(Int64(v)) = 1 /\ Int64(v)[1] = [size |-> 8, data |-> v]
<1>1. Int32(v) \in Seq(Fields({v})) /\ Len(Int32(v)) = 1 /\ Int32(v)[1] = [size |-> 4, data |-> v]
  BY DEF Int32, Fields
<1>2. Int64(v) \in Seq(Fields({v})) /\ Len(Int64(v)) = 1 /\ Int64(v)[1] = [size |-> 8, data |-> v]
  BY DEF Int64, Fields
<1> QED
  BY <1>1, <1>2, MessageOf

\* A string or byte vector is two fields.
LEMMA MessageOfBytes ==
  ASSUME NEW v, v.length \in Nat
  PROVE  /\ Bytes(v) = <<[size |-> 8, data |-> v.length], [size |-> v.length, data |-> v.bytes]>>
         /\ IsMessage(Bytes(v)) /\ Len(Bytes(v)) = 2
<1> DEFINE x == [size |-> 8, data |-> v.length]
           y == [size |-> v.length, data |-> v.bytes]
           D == {v.length, v.bytes}
<1>1. x \in Fields(D) /\ y \in Fields(D)
  BY DEF Fields
<1>2. Bytes(v) = <<x, y>>
  <2> SUFFICES Bytes(v) = <<x>> \o <<y>>
    <3> HIDE DEF x, y
    <3> QED
      BY Joined
  <2> QED
    BY DEF Bytes, Int64
<1>3. <<x, y>> \in Seq(Fields(D)) /\ Len(<<x, y>>) = 2
  <2> HIDE DEF x, y, D
  <2> QED
    BY <1>1
<1> QED
  <2> HIDE DEF D
  <2> QED
    BY <1>2, <1>3, MessageOf

\* An ExtendableType is one field more.
LEMMA MessageOfExtendable ==
  ASSUME NEW e, e.name.length \in Nat
  PROVE  IsMessage(ExtendableType(e)) /\ Len(ExtendableType(e)) = 3
<1>1. IsMessage(Bytes(e.name)) /\ Len(Bytes(e.name)) = 2
  BY MessageOfBytes
<1>2. IsMessage(Int64(e.value)) /\ Len(Int64(e.value)) = 1
  BY MessageOfOne
<1>3. IsMessage(ExtendableType(e))
      /\ Len(ExtendableType(e)) = Len(Bytes(e.name)) + Len(Int64(e.value))
  BY <1>1, <1>2, MessageJoin DEF ExtendableType
<1> QED
  BY <1>1, <1>2, <1>3

-----------------------------------------------------------------------------
(* Reading the kinds of values. *)

\* The reader stands before `part', which m holds after its first k fields.
At(m, b, h, k, part) ==
  /\ Readable(m, b) /\ h \in Nat /\ k \in Nat /\ h <= k
  /\ Holds(m, k, part)

\* What stands before two parts stands before the first, and once that has been
\* passed before the second.
LEMMA AtBoth ==
  ASSUME NEW m, NEW b, NEW h, NEW k, NEW a, IsMessage(a), NEW c, IsMessage(c),
         At(m, b, h, k, a \o c)
  PROVE  At(m, b, h, k, a) /\ At(m, b, h, k + Len(a), c)
<1>1. IsMessage(m) /\ k \in Nat /\ Len(a) \in Nat
  BY MessageParts DEF At, Readable
<1>2. Holds(m, k, a) /\ Holds(m, k + Len(a), c)
  BY <1>1, HoldsJoin DEF At
<1> QED
  BY <1>1, <1>2 DEF At

\* A reader that failed before `part' passes nothing of it.
LEMMA AtStays ==
  ASSUME NEW m, NEW b, NEW h, NEW k, NEW part, IsMessage(part), At(m, b, h, k, part),
         ~ReadTo(m, b, h, k).ok
  PROVE  ReadTo(m, b, h, k + Len(part)) = ReadTo(m, b, h, k)
<1>1. /\ Readable(m, b) /\ h \in Nat /\ k \in Nat /\ k + Len(part) <= Len(m)
      /\ Len(part) \in Nat /\ Len(m) \in Nat
  BY MessageParts DEF At, Holds, Readable
<1>2. k \in 0..Len(m) /\ k + Len(part) \in 0..Len(m) /\ k <= k + Len(part)
  BY <1>1
<1> QED
  BY <1>1, <1>2, ReadStays

\* A number, of which a reader that fails makes a count of 0.
LEMMA ReadsInt64 ==
  ASSUME NEW m, NEW b, NEW h, NEW k, NEW v, At(m, b, h, k, Int64(v))
  PROVE  /\ ReadInt64(ReadTo(m, b, h, k)) = ReadTo(m, b, h, k + 1)
         /\ Count(ReadTo(m, b, h, k + 1)) = IF ReadTo(m, b, h, k + 1).ok THEN v ELSE 0
<1>1. /\ k + 1 <= Len(m) /\ m[k + 1] = [size |-> 8, data |-> v]
      /\ Readable(m, b) /\ h \in Nat /\ k \in Nat /\ h <= k /\ Len(m) \in Nat
  <2>1. Len(Int64(v)) = 1 /\ Int64(v)[1] = [size |-> 8, data |-> v]
    BY MessageOfOne
  <2>2. Len(m) \in Nat
    BY MessageParts DEF At, Readable
  <2>3. 1 \in 1..Len(Int64(v))
    BY <2>1
  <2> QED
    BY <2>1, <2>2, <2>3 DEF At, Holds
<1>2. k < Len(m) /\ m[k + 1].size = 8 /\ m[k + 1].data = v
  BY <1>1
<1>3. ~ReadTo(m, b, h, k + 1).ok => Count(ReadTo(m, b, h, k + 1)) = 0
  BY DEF Count
<1> QED
  BY <1>1, <1>2, <1>3, ReadField DEF ReadInt64

\* Numbers of one size.
LEMMA ReadsInts ==
  ASSUME NEW m, NEW b, NEW h, NEW k, NEW z \in Nat, NEW v, Len(v) \in Nat,
         At(m, b, h, k, Ints(z, v))
  PROVE  ReadInts(z, Len(v), ReadTo(m, b, h, k)) = ReadTo(m, b, h, k + Len(v))
<1>1. AtInts(m, b, h, k, Len(v), z)
  BY MessageOfInts DEF At, Holds, AtInts
<1> QED
  BY <1>1, ReadsValues

\* A string or a byte vector: its length is read first, and then as many bytes.
LEMMA ReadsBytes ==
  ASSUME NEW m, NEW b, NEW h, NEW k, NEW v, v.length \in Nat, At(m, b, h, k, Bytes(v))
  PROVE  ReadBytes(ReadTo(m, b, h, k)) = ReadTo(m, b, h, k + 2)
<1>1. /\ k + 2 <= Len(m) /\ m[k + 1] = [size |-> 8, data |-> v.length]
      /\ m[k + 2] = [size |-> v.length, data |-> v.bytes]
      /\ Readable(m, b) /\ h \in Nat /\ k \in Nat /\ h <= k /\ Len(m) \in Nat
  <2>1. /\ Len(Bytes(v)) = 2 /\ Bytes(v)[1] = [size |-> 8, data |-> v.length]
        /\ Bytes(v)[2] = [size |-> v.length, data |-> v.bytes] /\ 1 \in 1..2 /\ 2 \in 1..2
    BY MessageOfBytes
  <2>2. Len(m) \in Nat
    BY MessageParts DEF At, Readable
  <2> QED
    BY <2>1, <2>2 DEF At, Holds
<1>2. /\ Advance(ReadTo(m, b, h, k), 8) = ReadTo(m, b, h, k + 1)
      /\ ReadTo(m, b, h, k + 1).ok => Count(ReadTo(m, b, h, k + 1)) = v.length
  <2>1. k < Len(m) /\ m[k + 1].size = 8 /\ m[k + 1].data = v.length
    BY <1>1
  <2> QED
    BY <1>1, <2>1, ReadField
<1>3. Advance(ReadTo(m, b, h, k + 1), v.length) = ReadTo(m, b, h, k + 2)
  <2>1. k + 1 \in Nat /\ h <= k + 1 /\ k + 1 < Len(m) /\ k + 1 + 1 = k + 2 /\ m[k + 2].size = v.length
    BY <1>1
  <2> QED
    BY <1>1, <2>1, ReadField
<1>4. ~ReadTo(m, b, h, k + 1).ok => ReadTo(m, b, h, k + 2) = ReadTo(m, b, h, k + 1)
  <2>1. k + 1 \in 0..Len(m) /\ k + 2 \in 0..Len(m) /\ k + 1 <= k + 2
    BY <1>1
  <2> QED
    BY <1>1, <2>1, ReadStays
<1> QED
  BY <1>2, <1>3, <1>4 DEF ReadBytes, ReadInt64

\* An ExtendableType.
LEMMA ReadsExtendable ==
  ASSUME NEW m, NEW b, NEW h, NEW k, NEW e, e.name.length \in Nat,
         At(m, b, h, k, ExtendableType(e))
  PROVE  ReadExtendable(ReadTo(m, b, h, k)) = ReadTo(m, b, h, k + 3)
<1>1. /\ IsMessage(Bytes(e.name)) /\ Len(Bytes(e.name)) = 2 /\ IsMessage(Int64(e.value))
  BY MessageOfBytes, MessageOfOne
<1>2. At(m, b, h, k, Bytes(e.name)) /\ At(m, b, h, k + 2, Int64(e.value))
  BY <1>1, AtBoth DEF ExtendableType
<1>3. k \in Nat /\ k + 2 + 1 = k + 3
  BY DEF At
<1> QED
  BY <1>2, <1>3, ReadsBytes, ReadsInt64 DEF ReadExtendable

\* A component of a plane layout is a message.
LEMMA MessageOfComponent ==
  ASSUME NEW c, c.type.name.length \in Nat
  PROVE  IsMessage(Component(c)) /\ Len(Component(c)) = 5
<1> DEFINE v == <<c.offsetInBits, c.sizeInBits>>
<1>1. Len(v) = 2
  OBVIOUS
<1> HIDE DEF v
<1>2. /\ IsMessage(ExtendableType(c.type)) /\ Len(ExtendableType(c.type)) = 3
      /\ IsMessage(Ints(8, v)) /\ Len(Ints(8, v)) = 2
  BY <1>1, MessageOfExtendable, MessageOfInts
<1>3. Component(c) = ExtendableType(c.type) \o Ints(8, v)
  BY DEF Component, v
<1>4. IsMessage(Component(c)) /\ Len(Component(c)) = 3 + 2
  BY <1>2, <1>3, MessageJoin
<1> QED
  BY <1>4

\* ... and is read in one go.
LEMMA ReadsComponent ==
  ASSUME NEW m, NEW b, NEW h, NEW k, NEW c, c.type.name.length \in Nat,
         At(m, b, h, k, Component(c))
  PROVE  ReadComponent(ReadTo(m, b, h, k)) = ReadTo(m, b, h, k + 5)
<1> DEFINE v == <<c.offsetInBits, c.sizeInBits>>
<1>1. Len(v) = 2
  OBVIOUS
<1> HIDE DEF v
<1>2. /\ IsMessage(ExtendableType(c.type)) /\ Len(ExtendableType(c.type)) = 3
      /\ IsMessage(Ints(8, v))
  BY <1>1, MessageOfExtendable, MessageOfInts
<1>3. Component(c) = ExtendableType(c.type) \o Ints(8, v)
  BY DEF Component, v
<1>4. At(m, b, h, k, ExtendableType(c.type)) /\ At(m, b, h, k + 3, Ints(8, v))
  BY <1>2, <1>3, AtBoth
<1>5. k + 3 + 2 = k + 5
  BY DEF At
<1>6. ReadExtendable(ReadTo(m, b, h, k)) = ReadTo(m, b, h, k + 3)
  BY <1>4, ReadsExtendable
<1>7. ReadInts(8, Len(v), ReadTo(m, b, h, k + 3)) = ReadTo(m, b, h, k + 3 + Len(v))
  <2>1. At(m, b, h, k + 3, Ints(8, v)) /\ Len(v) \in Nat /\ 8 \in Nat
    BY <1>1, <1>4
  <2> QED
    BY ONLY <2>1, ReadsInts
<1> QED
  BY <1>1, <1>5, <1>6, <1>7 DEF ReadComponent

-----------------------------------------------------------------------------
(* Reading vectors. *)

\* The reader stands before each of the messages of ss in turn.
Passes(m, b, h, k, n, ss, P) ==
  /\ n \in Nat /\ P[0] = 0 /\ P[n] = Len(FlattenSeq(ss)) /\ k \in Nat
  /\ \A i \in 1..n : /\ At(m, b, h, k + P[i - 1], ss[i])
                     /\ P[i] = P[i - 1] + Len(ss[i])
                     /\ P[i - 1] \in Nat

\* What stands before messages in a row stands before the first, and before each
\* next one when the one before it has been passed.
LEMMA AtEach ==
  ASSUME NEW m, NEW b, NEW h, NEW k, NEW n, NEW ss, AreMessages(ss, n), NEW P, AreStarts(P, ss),
         At(m, b, h, k, FlattenSeq(ss))
  PROVE  Passes(m, b, h, k, n, ss, P)
<1>1. Len(ss) = n /\ n \in Nat /\ IsMessage(FlattenSeq(ss)) /\ \A i \in 1..n : IsMessage(ss[i])
  BY MessageFlat DEF AreMessages
<1>2. IsMessage(m) /\ k \in Nat /\ h \in Nat /\ h <= k /\ Readable(m, b)
      /\ Holds(m, k, FlattenSeq(ss))
  BY DEF At, Readable
<1>3. ASSUME NEW i \in 1..n
      PROVE  /\ At(m, b, h, k + P[i - 1], ss[i])
             /\ P[i] = P[i - 1] + Len(ss[i]) /\ P[i - 1] \in Nat
  <2>1. i - 1 \in 0..n
    BY <1>1
  <2>2. /\ P[i - 1] \in Nat /\ P[i] = P[i - 1] + Len(ss[i])
        /\ Holds(FlattenSeq(ss), P[i - 1], ss[i])
    BY <1>1, <2>1 DEF AreStarts
  <2>3. Len(m) \in Nat /\ Len(FlattenSeq(ss)) \in Nat /\ Len(ss[i]) \in Nat
    BY <1>1, <1>2, MessageParts
  <2>4. Holds(m, k + P[i - 1], ss[i])
    BY <1>2, <2>2, <2>3, HoldsPart
  <2>5. k + P[i - 1] \in Nat /\ h <= k + P[i - 1]
    BY <1>2, <2>2
  <2> QED
    BY <1>2, <2>2, <2>4, <2>5 DEF At
<1> QED
  BY <1>1, <1>2, <1>3 DEF AreStarts, Passes

\* A loop of no rounds, which is what becomes of a count that could not be read.
LEMMA NoRounds ==
  ASSUME NEW r
  PROVE  ReadComponents(0, r) = r /\ ReadLayouts(0, r) = r /\ ReadRects(0, r) = r
<1>1. ReadComponents(0, r) = r
  <2> DEFINE Is(s) == s = [j \in 0..0 |-> IF j = 0 THEN r
                                          ELSE IF s[j - 1].ok THEN ReadComponent(s[j - 1]) ELSE s[j - 1]]
             W == CHOOSE s : Is(s)
  <2>1. ReadComponents(0, r) = W[0]
    BY DEF ReadComponents, Repeat
  <2>2. Is([j \in 0..0 |-> r])
    OBVIOUS
  <2>3. Is(W)
    <3> HIDE DEF Is
    <3> QED
      BY <2>2
  <2> HIDE DEF W
  <2>4. W[0] = r
    BY <2>3
  <2> QED
    BY <2>1, <2>4
<1>2. ReadLayouts(0, r) = r
  <2> DEFINE Is(s) == s = [j \in 0..0 |-> IF j = 0 THEN r
                                          ELSE IF s[j - 1].ok THEN ReadLayout(s[j - 1]) ELSE s[j - 1]]
             W == CHOOSE s : Is(s)
  <2>1. ReadLayouts(0, r) = W[0]
    BY DEF ReadLayouts, Repeat
  <2>2. Is([j \in 0..0 |-> r])
    OBVIOUS
  <2>3. Is(W)
    <3> HIDE DEF Is
    <3> QED
      BY <2>2
  <2> HIDE DEF W
  <2>4. W[0] = r
    BY <2>3
  <2> QED
    BY <2>1, <2>4
<1>3. ReadRects(0, r) = r
  <2> DEFINE Is(s) == s = [j \in 0..0 |-> IF j = 0 THEN r
                                          ELSE IF s[j - 1].ok THEN ReadRect(s[j - 1]) ELSE s[j - 1]]
             W == CHOOSE s : Is(s)
  <2>1. ReadRects(0, r) = W[0]
    BY DEF ReadRects, Repeat
  <2>2. Is([j \in 0..0 |-> r])
    OBVIOUS
  <2>3. Is(W)
    <3> HIDE DEF Is
    <3> QED
      BY <2>2
  <2> HIDE DEF W
  <2>4. W[0] = r
    BY <2>3
  <2> QED
    BY <2>1, <2>4
<1> QED
  BY <1>1, <1>2, <1>3

\* What a decoder takes for a component and for a layout.
FitsComponent(c) == c.type.name.length \in Nat
FitsLayout(p) ==
  /\ Len(p.components) \in Nat /\ \A i \in 1..Len(p.components) : FitsComponent(p.components[i])
  /\ Len(p.numbers) = 8

\* The components of a layout.
LEMMA ReadsComponents ==
  ASSUME NEW m, NEW b, NEW h, NEW k, NEW v, Len(v) \in Nat, \A i \in 1..Len(v) : FitsComponent(v[i]),
         NEW ss, ss = [i \in 1..Len(v) |-> Component(v[i])], At(m, b, h, k, FlattenSeq(ss))
  PROVE  ReadComponents(Len(v), ReadTo(m, b, h, k)) = ReadTo(m, b, h, k + Len(FlattenSeq(ss)))
<1> DEFINE n == Len(v)
           r == ReadTo(m, b, h, k)
<1>1. AreMessages(ss, n)
  <2>1. \A i \in 1..n : ss[i] = Component(v[i])
    OBVIOUS
  <2>2. \A i \in 1..n : IsMessage(ss[i])
    BY <2>1, MessageOfComponent DEF FitsComponent
  <2>3. ss = [i \in 1..n |-> ss[i]]
    OBVIOUS
  <2> QED
    BY <2>2, <2>3 DEF AreMessages
<1>2. PICK P : AreStarts(P, ss)
  BY <1>1, MessageFlat
<1>3. /\ P[0] = 0 /\ P[n] = Len(FlattenSeq(ss)) /\ k \in Nat
      /\ \A i \in 1..n : /\ At(m, b, h, k + P[i - 1], ss[i])
                         /\ P[i] = P[i - 1] + Len(ss[i])
                         /\ P[i - 1] \in Nat
  <2>1. Passes(m, b, h, k, n, ss, P)
    <3> HIDE DEF n
    <3> QED
      BY ONLY <1>1, <1>2, At(m, b, h, k, FlattenSeq(ss)), AtEach
  <2> QED
    BY <2>1 DEF Passes
<1> DEFINE g == [j \in 0..n |-> ReadTo(m, b, h, k + P[j])]
           Is(s) == s = [j \in 0..n |-> IF j = 0 THEN r
                                        ELSE IF s[j - 1].ok THEN ReadComponent(s[j - 1]) ELSE s[j - 1]]
           W == CHOOSE s : Is(s)
<1>4. ReadComponents(n, r) = W[n]
  BY DEF ReadComponents, Repeat
<1>5. ASSUME NEW j \in 1..n
      PROVE  (IF g[j - 1].ok THEN ReadComponent(g[j - 1]) ELSE g[j - 1]) = g[j]
  <2>1. j - 1 \in 0..n /\ j \in 0..n
    OBVIOUS
  <2>2. g[j - 1] = ReadTo(m, b, h, k + P[j - 1]) /\ g[j] = ReadTo(m, b, h, k + P[j])
    BY <2>1
  <2>3. At(m, b, h, k + P[j - 1], Component(v[j])) /\ ss[j] = Component(v[j]) /\ FitsComponent(v[j])
    BY <1>3
  <2>4. ReadComponent(ReadTo(m, b, h, k + P[j - 1])) = ReadTo(m, b, h, k + P[j - 1] + Len(Component(v[j])))
    BY <2>3, MessageOfComponent, ReadsComponent DEF FitsComponent
  <2>5. k + P[j - 1] + Len(Component(v[j])) = k + P[j]
    <3>1. P[j - 1] \in Nat /\ P[j] = P[j - 1] + Len(Component(v[j])) /\ IsMessage(Component(v[j]))
      BY <1>1, <1>3, <2>3 DEF AreMessages
    <3>2. Len(Component(v[j])) \in Nat
      BY <3>1, MessageParts
    <3> QED
      BY <1>3, <3>1, <3>2
  <2>6. ASSUME ~ReadTo(m, b, h, k + P[j - 1]).ok
        PROVE  ReadTo(m, b, h, k + P[j]) = ReadTo(m, b, h, k + P[j - 1])
    <3>1. IsMessage(Component(v[j]))
      BY <1>1, <2>3 DEF AreMessages
    <3> QED
      BY <2>3, <2>5, <2>6, <3>1, AtStays
  <2> HIDE DEF g
  <2> QED
    BY <2>2, <2>4, <2>5, <2>6
<1>6. g[0] = r /\ g[n] = ReadTo(m, b, h, k + Len(FlattenSeq(ss)))
  <2>1. 0 \in 0..n /\ n \in 0..n /\ k + P[0] = k /\ k + P[n] = k + Len(FlattenSeq(ss))
    BY <1>3
  <2> QED
    BY ONLY <2>1
<1>7. g = [j \in 0..n |-> g[j]]
  OBVIOUS
<1> HIDE DEF g, r
<1>8. Is(g)
  <2>1. \A j \in 0..n : j = 0 \/ j \in 1..n
    OBVIOUS
  <2>2. \A j \in 0..n : g[j] = IF j = 0 THEN r ELSE IF g[j - 1].ok THEN ReadComponent(g[j - 1]) ELSE g[j - 1]
    BY <1>5, <1>6, <2>1
  <2> QED
    BY <1>7, <2>2
<1>9. Is(W)
  <2> HIDE DEF Is
  <2> QED
    BY <1>8
<1> HIDE DEF W
<1>10. W[0] = g[0]
  BY <1>6, <1>9
<1>11. \A j \in 1..n : W[j - 1] = g[j - 1] => W[j] = g[j]
  BY <1>5, <1>9
<1>12. \A j \in 0..n : W[j] = g[j]
  BY ONLY <1>10, <1>11, n \in Nat, SameLoop
<1> QED
  BY <1>4, <1>6, <1>12 DEF r

\* A plane layout is a message.
LEMMA MessageOfLayout ==
  ASSUME NEW p, FitsLayout(p)
  PROVE  LET ss == [i \in 1..Len(p.components) |-> Component(p.components[i])] IN
         /\ IsMessage(PlaneLayout(p))
         /\ AreMessages(ss, Len(p.components))
         /\ IsMessage(Int64(Len(p.components)) \o FlattenSeq(ss)) /\ IsMessage(FlattenSeq(ss))
         /\ IsMessage(Int64(Len(p.components))) /\ IsMessage(Ints(8, p.numbers))
         /\ Len(Int64(Len(p.components)) \o FlattenSeq(ss)) = 1 + Len(FlattenSeq(ss))
         /\ Len(PlaneLayout(p)) = 1 + Len(FlattenSeq(ss)) + 8
<1> DEFINE v == p.components
           ss == [i \in 1..Len(v) |-> Component(v[i])]
<1>1. Len(v) \in Nat /\ Len(p.numbers) = 8 /\ \A i \in 1..Len(v) : v[i].type.name.length \in Nat
  BY DEF FitsLayout, FitsComponent
<1>2. AreMessages(ss, Len(v))
  <2>1. \A i \in 1..Len(v) : ss[i] = Component(v[i])
    OBVIOUS
  <2>2. \A i \in 1..Len(v) : IsMessage(ss[i])
    BY <1>1, <2>1, MessageOfComponent
  <2>3. ss = [i \in 1..Len(v) |-> ss[i]]
    OBVIOUS
  <2> HIDE DEF ss
  <2> QED
    BY <1>1, <2>2, <2>3 DEF AreMessages
<1> HIDE DEF ss
<1>3. IsMessage(FlattenSeq(ss))
  BY <1>2, MessageFlat
<1>4. IsMessage(Int64(Len(v))) /\ Len(Int64(Len(v))) = 1
  BY MessageOfOne
<1>5. IsMessage(Ints(8, p.numbers)) /\ Len(Ints(8, p.numbers)) = 8
  BY <1>1, MessageOfInts
<1>6. /\ IsMessage(Int64(Len(v)) \o FlattenSeq(ss))
      /\ Len(Int64(Len(v)) \o FlattenSeq(ss)) = 1 + Len(FlattenSeq(ss))
  BY <1>3, <1>4, MessageJoin
<1>7. PlaneLayout(p) = Int64(Len(v)) \o FlattenSeq(ss) \o Ints(8, p.numbers)
  BY DEF PlaneLayout, ss
<1>8. IsMessage(PlaneLayout(p)) /\ Len(PlaneLayout(p)) = 1 + Len(FlattenSeq(ss)) + 8
  BY <1>5, <1>6, <1>7, MessageJoin
<1> QED
  BY <1>2, <1>3, <1>4, <1>5, <1>6, <1>8 DEF ss

\* ... and is read in one go, its components in a loop.
LEMMA ReadsLayout ==
  ASSUME NEW m, NEW b, NEW h, NEW k, NEW p, FitsLayout(p), At(m, b, h, k, PlaneLayout(p))
  PROVE  ReadLayout(ReadTo(m, b, h, k)) = ReadTo(m, b, h, k + Len(PlaneLayout(p)))
<1> DEFINE v == p.components
           ss == [i \in 1..Len(v) |-> Component(v[i])]
           f == Len(FlattenSeq(ss))
<1>1. /\ IsMessage(Int64(Len(v)) \o FlattenSeq(ss)) /\ IsMessage(FlattenSeq(ss))
      /\ IsMessage(Int64(Len(v))) /\ IsMessage(Ints(8, p.numbers))
      /\ Len(Int64(Len(v)) \o FlattenSeq(ss)) = 1 + f
      /\ Len(PlaneLayout(p)) = 1 + f + 8
  BY MessageOfLayout
<1>2. PlaneLayout(p) = Int64(Len(v)) \o FlattenSeq(ss) \o Ints(8, p.numbers)
  BY DEF PlaneLayout
<1>3. Len(v) \in Nat /\ (\A i \in 1..Len(v) : FitsComponent(v[i])) /\ Len(p.numbers) = 8
  BY DEF FitsLayout
<1>4. ss = [i \in 1..Len(v) |-> Component(v[i])]
  OBVIOUS
<1>5. f \in Nat /\ k \in Nat
  BY <1>1, MessageParts DEF At
<1> HIDE DEF ss, v, f
<1>6. /\ At(m, b, h, k, Int64(Len(v)) \o FlattenSeq(ss))
      /\ At(m, b, h, k + (1 + f), Ints(8, p.numbers))
  <2> DEFINE a == Int64(Len(v)) \o FlattenSeq(ss)
             c == Ints(8, p.numbers)
  <2>1. IsMessage(a) /\ IsMessage(c) /\ Len(a) = 1 + f
    BY <1>1
  <2>2. At(m, b, h, k, a \o c)
    BY <1>2
  <2> HIDE DEF a, c
  <2>3. At(m, b, h, k, a) /\ At(m, b, h, k + Len(a), c)
    BY ONLY <2>1, <2>2, AtBoth
  <2> QED
    BY <2>1, <2>3 DEF a, c
<1>7. At(m, b, h, k, Int64(Len(v))) /\ At(m, b, h, k + 1, FlattenSeq(ss))
  <2>1. Len(Int64(Len(v))) = 1
    BY MessageOfOne
  <2> QED
    BY <1>1, <1>6, <2>1, AtBoth
<1> DEFINE n == Count(ReadTo(m, b, h, k + 1))
<1>8. /\ ReadInt64(ReadTo(m, b, h, k)) = ReadTo(m, b, h, k + 1)
      /\ n = IF ReadTo(m, b, h, k + 1).ok THEN Len(v) ELSE 0
  BY <1>7, ReadsInt64
<1> HIDE DEF n
<1>9. ReadComponents(n, ReadTo(m, b, h, k + 1)) = ReadTo(m, b, h, k + 1 + f)
  <2>1. ReadComponents(Len(v), ReadTo(m, b, h, k + 1))
          = ReadTo(m, b, h, k + 1 + Len(FlattenSeq(ss)))
    BY ONLY <1>3, <1>4, <1>7, ReadsComponents
  <2>2. ASSUME ~ReadTo(m, b, h, k + 1).ok
        PROVE  ReadTo(m, b, h, k + 1 + Len(FlattenSeq(ss))) = ReadTo(m, b, h, k + 1)
    BY <1>1, <1>7, <2>2, AtStays
  <2> QED
    BY <1>8, <2>1, <2>2, NoRounds DEF f
<1>10. ReadInts(8, 8, ReadTo(m, b, h, k + (1 + f))) = ReadTo(m, b, h, k + (1 + f) + 8)
  <2>1. At(m, b, h, k + (1 + f), Ints(8, p.numbers)) /\ Len(p.numbers) \in Nat /\ 8 \in Nat
    BY <1>3, <1>6
  <2>2. ReadInts(8, Len(p.numbers), ReadTo(m, b, h, k + (1 + f)))
          = ReadTo(m, b, h, k + (1 + f) + Len(p.numbers))
    BY ONLY <2>1, ReadsInts
  <2> QED
    BY <1>3, <2>2
<1>11. k + 1 + f = k + (1 + f) /\ k + (1 + f) + 8 = k + Len(PlaneLayout(p))
  BY <1>1, <1>5
<1>12. ReadLayout(ReadTo(m, b, h, k)) = ReadInts(8, 8, ReadComponents(n, ReadTo(m, b, h, k + 1)))
  BY <1>8 DEF ReadLayout, n
<1> QED
  BY <1>9, <1>10, <1>11, <1>12

\* The layouts of a buffer.
LEMMA ReadsLayouts ==
  ASSUME NEW m, NEW b, NEW h, NEW k, NEW v, Len(v) \in Nat, \A i \in 1..Len(v) : FitsLayout(v[i]),
         NEW ss, ss = [i \in 1..Len(v) |-> PlaneLayout(v[i])], At(m, b, h, k, FlattenSeq(ss))
  PROVE  ReadLayouts(Len(v), ReadTo(m, b, h, k)) = ReadTo(m, b, h, k + Len(FlattenSeq(ss)))
<1> DEFINE n == Len(v)
           r == ReadTo(m, b, h, k)
<1>1. AreMessages(ss, n)
  <2>1. \A i \in 1..n : ss[i] = PlaneLayout(v[i])
    OBVIOUS
  <2>2. \A i \in 1..n : IsMessage(ss[i])
    BY <2>1, MessageOfLayout
  <2>3. ss = [i \in 1..n |-> ss[i]]
    OBVIOUS
  <2> QED
    BY <2>2, <2>3 DEF AreMessages
<1>2. PICK P : AreStarts(P, ss)
  BY <1>1, MessageFlat
<1>3. /\ P[0] = 0 /\ P[n] = Len(FlattenSeq(ss)) /\ k \in Nat
      /\ \A i \in 1..n : /\ At(m, b, h, k + P[i - 1], ss[i])
                         /\ P[i] = P[i - 1] + Len(ss[i])
                         /\ P[i - 1] \in Nat
  <2>1. Passes(m, b, h, k, n, ss, P)
    <3> HIDE DEF n
    <3> QED
      BY ONLY <1>1, <1>2, At(m, b, h, k, FlattenSeq(ss)), AtEach
  <2> QED
    BY <2>1 DEF Passes
<1> DEFINE g == [j \in 0..n |-> ReadTo(m, b, h, k + P[j])]
           Is(s) == s = [j \in 0..n |-> IF j = 0 THEN r
                                        ELSE IF s[j - 1].ok THEN ReadLayout(s[j - 1]) ELSE s[j - 1]]
           W == CHOOSE s : Is(s)
<1>4. ReadLayouts(n, r) = W[n]
  BY DEF ReadLayouts, Repeat
<1>5. ASSUME NEW j \in 1..n
      PROVE  (IF g[j - 1].ok THEN ReadLayout(g[j - 1]) ELSE g[j - 1]) = g[j]
  <2>1. j - 1 \in 0..n /\ j \in 0..n
    OBVIOUS
  <2>2. g[j - 1] = ReadTo(m, b, h, k + P[j - 1]) /\ g[j] = ReadTo(m, b, h, k + P[j])
    BY <2>1
  <2>3. At(m, b, h, k + P[j - 1], PlaneLayout(v[j])) /\ ss[j] = PlaneLayout(v[j]) /\ FitsLayout(v[j])
    BY <1>3
  <2>4. ReadLayout(ReadTo(m, b, h, k + P[j - 1])) = ReadTo(m, b, h, k + P[j - 1] + Len(PlaneLayout(v[j])))
    BY <2>3, ReadsLayout
  <2>5. k + P[j - 1] + Len(PlaneLayout(v[j])) = k + P[j]
    <3>1. P[j - 1] \in Nat /\ P[j] = P[j - 1] + Len(PlaneLayout(v[j])) /\ IsMessage(PlaneLayout(v[j]))
      BY <1>1, <1>3, <2>3 DEF AreMessages
    <3>2. Len(PlaneLayout(v[j])) \in Nat
      BY <3>1, MessageParts
    <3> QED
      BY <1>3, <3>1, <3>2
  <2>6. ASSUME ~ReadTo(m, b, h, k + P[j - 1]).ok
        PROVE  ReadTo(m, b, h, k + P[j]) = ReadTo(m, b, h, k + P[j - 1])
    <3>1. IsMessage(PlaneLayout(v[j]))
      BY <1>1, <2>3 DEF AreMessages
    <3> QED
      BY <2>3, <2>5, <2>6, <3>1, AtStays
  <2> HIDE DEF g
  <2> QED
    BY <2>2, <2>4, <2>5, <2>6
<1>6. g[0] = r /\ g[n] = ReadTo(m, b, h, k + Len(FlattenSeq(ss)))
  <2>1. 0 \in 0..n /\ n \in 0..n /\ k + P[0] = k /\ k + P[n] = k + Len(FlattenSeq(ss))
    BY <1>3
  <2> QED
    BY ONLY <2>1
<1>7. g = [j \in 0..n |-> g[j]]
  OBVIOUS
<1> HIDE DEF g, r
<1>8. Is(g)
  <2>1. \A j \in 0..n : j = 0 \/ j \in 1..n
    OBVIOUS
  <2>2. \A j \in 0..n : g[j] = IF j = 0 THEN r ELSE IF g[j - 1].ok THEN ReadLayout(g[j - 1]) ELSE g[j - 1]
    BY <1>5, <1>6, <2>1
  <2> QED
    BY <1>7, <2>2
<1>9. Is(W)
  <2> HIDE DEF Is
  <2> QED
    BY <1>8
<1> HIDE DEF W
<1>10. W[0] = g[0]
  BY <1>6, <1>9
<1>11. \A j \in 1..n : W[j - 1] = g[j - 1] => W[j] = g[j]
  BY <1>5, <1>9
<1>12. \A j \in 0..n : W[j] = g[j]
  BY ONLY <1>10, <1>11, n \in Nat, SameLoop
<1> QED
  BY <1>4, <1>6, <1>12 DEF r

\* A rectangle is four numbers.
FitsRect(q) == Len(q) = 4

\* ... and is read in one go.
LEMMA ReadsRect ==
  ASSUME NEW m, NEW b, NEW h, NEW k, NEW q, FitsRect(q), At(m, b, h, k, Ints(4, q))
  PROVE  /\ ReadRect(ReadTo(m, b, h, k)) = ReadTo(m, b, h, k + Len(Ints(4, q)))
         /\ IsMessage(Ints(4, q))
<1>1. Len(q) \in Nat /\ 4 \in Nat /\ At(m, b, h, k, Ints(4, q))
  BY DEF FitsRect
<1>2. ReadInts(4, Len(q), ReadTo(m, b, h, k)) = ReadTo(m, b, h, k + Len(q))
  BY ONLY <1>1, ReadsInts
<1>3. IsMessage(Ints(4, q)) /\ Len(Ints(4, q)) = Len(q)
  BY <1>1, MessageOfInts
<1> QED
  BY <1>2, <1>3 DEF ReadRect, FitsRect

\* The rectangles of a crop.
LEMMA ReadsRects ==
  ASSUME NEW m, NEW b, NEW h, NEW k, NEW v, Len(v) \in Nat, \A i \in 1..Len(v) : FitsRect(v[i]),
         NEW ss, ss = [i \in 1..Len(v) |-> Ints(4, v[i])], At(m, b, h, k, FlattenSeq(ss))
  PROVE  ReadRects(Len(v), ReadTo(m, b, h, k)) = ReadTo(m, b, h, k + Len(FlattenSeq(ss)))
<1> DEFINE n == Len(v)
           r == ReadTo(m, b, h, k)
<1>1. AreMessages(ss, n)
  <2>1. \A i \in 1..n : ss[i] = Ints(4, v[i])
    OBVIOUS
  <2>2. \A i \in 1..n : IsMessage(ss[i])
    BY <2>1, MessageOfInts DEF FitsRect
  <2>3. ss = [i \in 1..n |-> ss[i]]
    OBVIOUS
  <2> QED
    BY <2>2, <2>3 DEF AreMessages
<1>2. PICK P : AreStarts(P, ss)
  BY <1>1, MessageFlat
<1>3. /\ P[0] = 0 /\ P[n] = Len(FlattenSeq(ss)) /\ k \in Nat
      /\ \A i \in 1..n : /\ At(m, b, h, k + P[i - 1], ss[i])
                         /\ P[i] = P[i - 1] + Len(ss[i])
                         /\ P[i - 1] \in Nat
  <2>1. Passes(m, b, h, k, n, ss, P)
    <3> HIDE DEF n
    <3> QED
      BY ONLY <1>1, <1>2, At(m, b, h, k, FlattenSeq(ss)), AtEach
  <2> QED
    BY <2>1 DEF Passes
<1> DEFINE g == [j \in 0..n |-> ReadTo(m, b, h, k + P[j])]
           Is(s) == s = [j \in 0..n |-> IF j = 0 THEN r
                                        ELSE IF s[j - 1].ok THEN ReadRect(s[j - 1]) ELSE s[j - 1]]
           W == CHOOSE s : Is(s)
<1>4. ReadRects(n, r) = W[n]
  BY DEF ReadRects, Repeat
<1>5. ASSUME NEW j \in 1..n
      PROVE  (IF g[j - 1].ok THEN ReadRect(g[j - 1]) ELSE g[j - 1]) = g[j]
  <2>1. j - 1 \in 0..n /\ j \in 0..n
    OBVIOUS
  <2>2. g[j - 1] = ReadTo(m, b, h, k + P[j - 1]) /\ g[j] = ReadTo(m, b, h, k + P[j])
    BY <2>1
  <2>3. At(m, b, h, k + P[j - 1], Ints(4, v[j])) /\ ss[j] = Ints(4, v[j]) /\ FitsRect(v[j])
    BY <1>3
  <2>4. ReadRect(ReadTo(m, b, h, k + P[j - 1])) = ReadTo(m, b, h, k + P[j - 1] + Len(Ints(4, v[j])))
    BY <2>3, ReadsRect
  <2>5. k + P[j - 1] + Len(Ints(4, v[j])) = k + P[j]
    <3>1. P[j - 1] \in Nat /\ P[j] = P[j - 1] + Len(Ints(4, v[j])) /\ IsMessage(Ints(4, v[j]))
      BY <1>1, <1>3, <2>3 DEF AreMessages
    <3>2. Len(Ints(4, v[j])) \in Nat
      BY <3>1, MessageParts
    <3> QED
      BY <1>3, <3>1, <3>2
  <2>6. ASSUME ~ReadTo(m, b, h, k + P[j - 1]).ok
        PROVE  ReadTo(m, b, h, k + P[j]) = ReadTo(m, b, h, k + P[j - 1])
    <3>1. IsMessage(Ints(4, v[j]))
      BY <1>1, <2>3 DEF AreMessages
    <3> QED
      BY <2>3, <2>5, <2>6, <3>1, AtStays
  <2> HIDE DEF g
  <2> QED
    BY <2>2, <2>4, <2>5, <2>6
<1>6. g[0] = r /\ g[n] = ReadTo(m, b, h, k + Len(FlattenSeq(ss)))
  <2>1. 0 \in 0..n /\ n \in 0..n /\ k + P[0] = k /\ k + P[n] = k + Len(FlattenSeq(ss))
    BY <1>3
  <2> QED
    BY ONLY <2>1
<1>7. g = [j \in 0..n |-> g[j]]
  OBVIOUS
<1> HIDE DEF g, r
<1>8. Is(g)
  <2>1. \A j \in 0..n : j = 0 \/ j \in 1..n
    OBVIOUS
  <2>2. \A j \in 0..n : g[j] = IF j = 0 THEN r ELSE IF g[j - 1].ok THEN ReadRect(g[j - 1]) ELSE g[j - 1]
    BY <1>5, <1>6, <2>1
  <2> QED
    BY <1>7, <2>2
<1>9. Is(W)
  <2> HIDE DEF Is
  <2> QED
    BY <1>8
<1> HIDE DEF W
<1>10. W[0] = g[0]
  BY <1>6, <1>9
<1>11. \A j \in 1..n : W[j - 1] = g[j - 1] => W[j] = g[j]
  BY <1>5, <1>9
<1>12. \A j \in 0..n : W[j] = g[j]
  BY ONLY <1>10, <1>11, n \in Nat, SameLoop
<1> QED
  BY <1>4, <1>6, <1>12 DEF r

-----------------------------------------------------------------------------
(* Whole values. *)

\* What a value of a kind consists of, wherever it comes from.
Fits(kind, value) ==
  /\ kind \in {"string", "bytes"} => value.length \in Nat
  /\ kind = "extendable" => value.name.length \in Nat
  /\ kind = "layouts" => Len(value) \in Nat /\ \A i \in 1..Len(value) : FitsLayout(value[i])
  /\ kind = "rects" => Len(value) \in Nat /\ \A i \in 1..Len(value) : FitsRect(value[i])
  /\ kind \in {"smpte2086", "cta861_3"} => Len(value) = Int32Fields[kind]

\* A vector is its length and its elements.
LEMMA MessageCounted ==
  ASSUME NEW n, NEW ss, AreMessages(ss, n)
  PROVE  /\ IsMessage(FlattenSeq(ss)) /\ IsMessage(Int64(n) \o FlattenSeq(ss))
         /\ Len(Int64(n) \o FlattenSeq(ss)) = 1 + Len(FlattenSeq(ss))
<1>1. IsMessage(Int64(n)) /\ Len(Int64(n)) = 1
  BY MessageOfOne
<1>2. IsMessage(FlattenSeq(ss))
  BY MessageFlat
<1> QED
  BY <1>1, <1>2, MessageJoin

\* ... of which the length is read first.
LEMMA ReadsCount ==
  ASSUME NEW m, NEW b, NEW h, NEW k, NEW n, NEW ss, AreMessages(ss, n),
         At(m, b, h, k, Int64(n) \o FlattenSeq(ss))
  PROVE  /\ ReadInt64(ReadTo(m, b, h, k)) = ReadTo(m, b, h, k + 1)
         /\ Count(ReadTo(m, b, h, k + 1)) = IF ReadTo(m, b, h, k + 1).ok THEN n ELSE 0
         /\ At(m, b, h, k + 1, FlattenSeq(ss))
         /\ ~ReadTo(m, b, h, k + 1).ok =>
              ReadTo(m, b, h, k + 1 + Len(FlattenSeq(ss))) = ReadTo(m, b, h, k + 1)
         /\ k + 1 + Len(FlattenSeq(ss)) = k + Len(Int64(n) \o FlattenSeq(ss))
<1>1. IsMessage(Int64(n)) /\ Len(Int64(n)) = 1
  BY MessageOfOne
<1>2. IsMessage(FlattenSeq(ss)) /\ Len(Int64(n) \o FlattenSeq(ss)) = 1 + Len(FlattenSeq(ss))
  BY MessageCounted
<1>3. At(m, b, h, k, Int64(n)) /\ At(m, b, h, k + 1, FlattenSeq(ss))
  BY <1>1, <1>2, AtBoth
<1>4. k \in Nat /\ Len(FlattenSeq(ss)) \in Nat
  BY <1>2, MessageParts DEF At
<1>5. ASSUME ~ReadTo(m, b, h, k + 1).ok
      PROVE  ReadTo(m, b, h, k + 1 + Len(FlattenSeq(ss))) = ReadTo(m, b, h, k + 1)
  BY <1>2, <1>3, <1>5, AtStays
<1> QED
  BY <1>2, <1>3, <1>4, <1>5, ReadsInt64

\* The layouts of a buffer, and the rectangles of a crop, are messages.
LEMMA MessagesOfVectors ==
  ASSUME NEW v
  PROVE  /\ Fits("layouts", v) => AreMessages([i \in 1..Len(v) |-> PlaneLayout(v[i])], Len(v))
         /\ Fits("rects", v) => AreMessages([i \in 1..Len(v) |-> Ints(4, v[i])], Len(v))
<1>1. ASSUME Fits("layouts", v)
      PROVE  AreMessages([i \in 1..Len(v) |-> PlaneLayout(v[i])], Len(v))
  <2> DEFINE ss == [i \in 1..Len(v) |-> PlaneLayout(v[i])]
  <2>1. \A i \in 1..Len(v) : ss[i] = PlaneLayout(v[i])
    OBVIOUS
  <2>2. Len(v) \in Nat /\ \A i \in 1..Len(v) : IsMessage(ss[i])
    BY <1>1, <2>1, MessageOfLayout DEF Fits
  <2>3. ss = [i \in 1..Len(v) |-> ss[i]]
    OBVIOUS
  <2> HIDE DEF ss
  <2> QED
    BY <2>2, <2>3 DEF AreMessages, ss
<1>2. ASSUME Fits("rects", v)
      PROVE  AreMessages([i \in 1..Len(v) |-> Ints(4, v[i])], Len(v))
  <2> DEFINE ss == [i \in 1..Len(v) |-> Ints(4, v[i])]
  <2>1. \A i \in 1..Len(v) : ss[i] = Ints(4, v[i])
    OBVIOUS
  <2>2. Len(v) \in Nat /\ \A i \in 1..Len(v) : IsMessage(ss[i])
    BY <1>2, <2>1, MessageOfInts DEF Fits, FitsRect
  <2>3. ss = [i \in 1..Len(v) |-> ss[i]]
    OBVIOUS
  <2> HIDE DEF ss
  <2> QED
    BY <2>2, <2>3 DEF AreMessages, ss
<1> QED
  BY <1>1, <1>2

Kinds == {"int64", "int32", "string", "bytes", "extendable", "layouts", "rects", "smpte2086",
          "cta861_3"}

\* A value of any kind is a message.
LEMMA MessageOfPayload ==
  ASSUME NEW kind \in Kinds, NEW v, Fits(kind, v)
  PROVE  IsMessage(Payload(kind, v))
<1>1. CASE kind \in {"int64", "int32"}
  BY <1>1, MessageOfOne DEF Payload
<1>2. CASE kind \in {"string", "bytes"}
  <2>1. Payload(kind, v) = Bytes(v) /\ v.length \in Nat
    BY <1>2 DEF Payload, Fits
  <2> QED
    BY <2>1, MessageOfBytes
<1>3. CASE kind = "extendable"
  <2>1. Payload(kind, v) = ExtendableType(v) /\ v.name.length \in Nat
    BY <1>3 DEF Payload, Fits
  <2> QED
    BY <2>1, MessageOfExtendable
<1>4. CASE kind = "layouts"
  <2> DEFINE ss == [i \in 1..Len(v) |-> PlaneLayout(v[i])]
  <2>1. Payload(kind, v) = Int64(Len(v)) \o FlattenSeq(ss)
    BY <1>4 DEF Payload
  <2>2. AreMessages(ss, Len(v))
    BY <1>4, MessagesOfVectors
  <2> HIDE DEF ss
  <2> QED
    BY <2>1, <2>2, MessageCounted
<1>5. CASE kind = "rects"
  <2> DEFINE ss == [i \in 1..Len(v) |-> Ints(4, v[i])]
  <2>1. Payload(kind, v) = Int64(Len(v)) \o FlattenSeq(ss)
    BY <1>5 DEF Payload
  <2>2. AreMessages(ss, Len(v))
    BY <1>5, MessagesOfVectors
  <2> HIDE DEF ss
  <2> QED
    BY <2>1, <2>2, MessageCounted
<1>6. CASE kind \in {"smpte2086", "cta861_3"}
  <2>1. Payload(kind, v) = Ints(4, v) /\ Len(v) \in Nat
    BY <1>6 DEF Payload, Fits, Int32Fields
  <2> QED
    BY <2>1, MessageOfInts
<1> QED
  BY <1>1, <1>2, <1>3, <1>4, <1>5, <1>6 DEF Kinds

\* A value of any kind is read in one go.
LEMMA ReadsPayload ==
  ASSUME NEW kind \in Kinds, NEW v, Fits(kind, v), NEW m, NEW b, NEW h, NEW k,
         At(m, b, h, k, Payload(kind, v))
  PROVE  ReadPayload(kind, ReadTo(m, b, h, k)) = ReadTo(m, b, h, k + Len(Payload(kind, v)))
<1>1. CASE kind = "int64"
  <2>1. Payload(kind, v) = Int64(v) /\ ReadPayload(kind, ReadTo(m, b, h, k)) = ReadInt64(ReadTo(m, b, h, k))
    BY <1>1 DEF Payload, ReadPayload, Int32Fields
  <2> QED
    BY <2>1, ReadsInt64, MessageOfOne
<1>2. CASE kind = "int32"
  <2>1. /\ Payload(kind, v) = Int32(v)
        /\ ReadPayload(kind, ReadTo(m, b, h, k)) = ReadInts(4, 1, ReadTo(m, b, h, k))
    BY <1>2 DEF Payload, ReadPayload, Int32Fields
  <2>2. Len(Int32(v)) = 1 /\ Int32(v)[1].size = 4
    <3>1. Int32(v)[1] = [size |-> 4, data |-> v] /\ Len(Int32(v)) = 1
      BY MessageOfOne
    <3> QED
      BY <3>1
  <2>3. k + 1 <= Len(m) /\ m[k + 1].size = 4
    <3>1. 1 \in 1..Len(Int32(v)) /\ Holds(m, k, Int32(v))
      BY <2>1, <2>2 DEF At
    <3> QED
      BY <2>2, <3>1 DEF Holds
  <2>4. AtInts(m, b, h, k, 1, 4)
    BY <2>3 DEF AtInts, At
  <2> QED
    BY <2>1, <2>2, <2>4, ReadsValues
<1>3. CASE kind \in {"string", "bytes"}
  <2>1. /\ Payload(kind, v) = Bytes(v) /\ v.length \in Nat
        /\ ReadPayload(kind, ReadTo(m, b, h, k)) = ReadBytes(ReadTo(m, b, h, k))
    BY <1>3 DEF Payload, Fits, ReadPayload, Int32Fields
  <2> QED
    BY <2>1, ReadsBytes, MessageOfBytes
<1>4. CASE kind = "extendable"
  <2>1. /\ Payload(kind, v) = ExtendableType(v) /\ v.name.length \in Nat
        /\ ReadPayload(kind, ReadTo(m, b, h, k)) = ReadExtendable(ReadTo(m, b, h, k))
    BY <1>4 DEF Payload, Fits, ReadPayload, Int32Fields
  <2> QED
    BY <2>1, ReadsExtendable, MessageOfExtendable
<1>5. CASE kind = "layouts"
  <2> DEFINE ss == [i \in 1..Len(v) |-> PlaneLayout(v[i])]
  <2>1. Payload(kind, v) = Int64(Len(v)) \o FlattenSeq(ss)
    BY <1>5 DEF Payload
  <2>2. AreMessages(ss, Len(v))
    BY <1>5, MessagesOfVectors
  <2>3. ss = [i \in 1..Len(v) |-> PlaneLayout(v[i])]
    OBVIOUS
  <2> HIDE DEF ss
  <2> DEFINE n == Count(ReadTo(m, b, h, k + 1))
  <2>4. /\ ReadInt64(ReadTo(m, b, h, k)) = ReadTo(m, b, h, k + 1)
        /\ n = IF ReadTo(m, b, h, k + 1).ok THEN Len(v) ELSE 0
        /\ At(m, b, h, k + 1, FlattenSeq(ss))
        /\ ~ReadTo(m, b, h, k + 1).ok =>
             ReadTo(m, b, h, k + 1 + Len(FlattenSeq(ss))) = ReadTo(m, b, h, k + 1)
        /\ k + 1 + Len(FlattenSeq(ss)) = k + Len(Payload(kind, v))
    BY <2>1, <2>2, ReadsCount
  <2>5. Len(v) \in Nat /\ \A i \in 1..Len(v) : FitsLayout(v[i])
    BY <1>5 DEF Fits
  <2>6. ReadLayouts(Len(v), ReadTo(m, b, h, k + 1)) = ReadTo(m, b, h, k + 1 + Len(FlattenSeq(ss)))
    BY ONLY <2>3, <2>4, <2>5, ReadsLayouts
  <2>7. ReadPayload(kind, ReadTo(m, b, h, k)) = ReadLayouts(n, ReadTo(m, b, h, k + 1))
    BY <1>5, <2>4 DEF ReadPayload, Int32Fields
  <2> HIDE DEF n
  <2> QED
    BY <2>4, <2>6, <2>7, NoRounds
<1>6. CASE kind = "rects"
  <2> DEFINE ss == [i \in 1..Len(v) |-> Ints(4, v[i])]
  <2>1. Payload(kind, v) = Int64(Len(v)) \o FlattenSeq(ss)
    BY <1>6 DEF Payload
  <2>2. AreMessages(ss, Len(v))
    BY <1>6, MessagesOfVectors
  <2>3. ss = [i \in 1..Len(v) |-> Ints(4, v[i])]
    OBVIOUS
  <2> HIDE DEF ss
  <2> DEFINE n == Count(ReadTo(m, b, h, k + 1))
  <2>4. /\ ReadInt64(ReadTo(m, b, h, k)) = ReadTo(m, b, h, k + 1)
        /\ n = IF ReadTo(m, b, h, k + 1).ok THEN Len(v) ELSE 0
        /\ At(m, b, h, k + 1, FlattenSeq(ss))
        /\ ~ReadTo(m, b, h, k + 1).ok =>
             ReadTo(m, b, h, k + 1 + Len(FlattenSeq(ss))) = ReadTo(m, b, h, k + 1)
        /\ k + 1 + Len(FlattenSeq(ss)) = k + Len(Payload(kind, v))
    BY <2>1, <2>2, ReadsCount
  <2>5. Len(v) \in Nat /\ \A i \in 1..Len(v) : FitsRect(v[i])
    BY <1>6 DEF Fits
  <2>6. ReadRects(Len(v), ReadTo(m, b, h, k + 1)) = ReadTo(m, b, h, k + 1 + Len(FlattenSeq(ss)))
    BY ONLY <2>3, <2>4, <2>5, ReadsRects
  <2>7. ReadPayload(kind, ReadTo(m, b, h, k)) = ReadRects(n, ReadTo(m, b, h, k + 1))
    BY <1>6, <2>4 DEF ReadPayload, Int32Fields
  <2> HIDE DEF n
  <2> QED
    BY <2>4, <2>6, <2>7, NoRounds
<1>7. CASE kind \in {"smpte2086", "cta861_3"}
  <2>1. /\ Payload(kind, v) = Ints(4, v) /\ Len(v) = Int32Fields[kind]
        /\ ReadPayload(kind, ReadTo(m, b, h, k)) = ReadInts(4, Int32Fields[kind], ReadTo(m, b, h, k))
    BY <1>7 DEF Payload, Fits, Int32Fields, ReadPayload
  <2>2. Int32Fields[kind] \in Nat
    BY <1>7 DEF Int32Fields
  <2>3. Len(v) \in Nat /\ 4 \in Nat /\ At(m, b, h, k, Ints(4, v))
    BY <2>1, <2>2
  <2>4. ReadInts(4, Len(v), ReadTo(m, b, h, k)) = ReadTo(m, b, h, k + Len(v))
    BY ONLY <2>3, ReadsInts
  <2>5. Len(Ints(4, v)) = Len(v)
    BY <2>3, MessageOfInts
  <2> QED
    BY <2>1, <2>4, <2>5
<1> QED
  BY <1>1, <1>2, <1>3, <1>4, <1>5, <1>6, <1>7 DEF Kinds

\* The message encode() writes.
Message(type, value) ==
  IF IsAbsent(type, value) THEN <<>> ELSE Header(type) \o Payload(Kind[type], value)

\* The header is three fields.
LEMMA MessageOfHeader ==
  ASSUME NEW type
  PROVE  /\ IsMessage(Header(type)) /\ Len(Header(type)) = 3
         /\ IsMessage(Bytes(HeaderName)) /\ Len(Bytes(HeaderName)) = 2
         /\ IsMessage(Int64(type)) /\ Header(type)[1].size = 8
<1>1. HeaderName.length \in Nat
  BY HeaderNameAssumption
<1> HIDE DEF HeaderName
<1>2. /\ Bytes(HeaderName) = <<[size |-> 8, data |-> HeaderName.length],
                               [size |-> HeaderName.length, data |-> HeaderName.bytes]>>
      /\ IsMessage(Bytes(HeaderName)) /\ Len(Bytes(HeaderName)) = 2
  BY <1>1, MessageOfBytes
<1>3. IsMessage(Int64(type)) /\ Len(Int64(type)) = 1
  BY MessageOfOne
<1>4. IsMessage(Header(type)) /\ Len(Header(type)) = 2 + 1
  BY <1>2, <1>3, MessageJoin DEF Header
<1>5. Header(type)[1].size = 8
  <2> DEFINE D == Data(Bytes(HeaderName)) \cup Data(Int64(type))
  <2>1. /\ Fields(Data(Bytes(HeaderName))) \subseteq Fields(D)
        /\ Fields(Data(Int64(type))) \subseteq Fields(D)
    BY DEF Fields
  <2> HIDE DEF D
  <2>2. Bytes(HeaderName) \in Seq(Fields(D)) /\ Int64(type) \in Seq(Fields(D))
    BY <1>2, <1>3, <2>1, SeqMonotonic DEF IsMessage
  <2>3. (Bytes(HeaderName) \o Int64(type))[1] = Bytes(HeaderName)[1]
    <3>1. 1 \in 1..(Len(Bytes(HeaderName)) + Len(Int64(type))) /\ 1 <= Len(Bytes(HeaderName))
      BY <1>2, <1>3
    <3> QED
      BY <2>2, <3>1, ConcatProperties
  <2>4. Bytes(HeaderName)[1] = [size |-> 8, data |-> HeaderName.length]
    BY <1>2
  <2> QED
    BY <2>3, <2>4 DEF Header
<1> QED
  BY <1>2, <1>3, <1>4, <1>5

\* checkHeader() of what encode() wrote into b bytes.
LEMMA ChecksHeader ==
  ASSUME NEW type, NEW m, NEW b, Readable(m, b), Holds(m, 0, Header(type))
  PROVE  checkHeader(type, Reader(Written(m, b).dest, b)) = ReadTo(m, b, 3, 3)
<1> DEFINE d == Written(m, b).dest
<1>1. Reader(d, b) = ReadTo(m, b, 0, 0)
  <2>1. Sums(m)[0] = 0 /\ b \in Nat
    BY MessageParts DEF Readable, AreSums
  <2>2. [i \in 1..(0 - 0) |-> m[0 + i].data] = <<>>
    OBVIOUS
  <2> QED
    BY <2>1, <2>2 DEF Reader, ReadTo, Passed
<1>2. At(m, b, 0, 0, Header(type))
  BY DEF At
<1>3. At(m, b, 0, 0, Bytes(HeaderName)) /\ At(m, b, 0, 2, Int64(type))
  <2>1. At(m, b, 0, 0, Bytes(HeaderName)) /\ At(m, b, 0, 0 + 2, Int64(type))
    BY <1>2, MessageOfHeader, AtBoth DEF Header
  <2> QED
    BY <2>1
<1>4. ReadBytes(ReadTo(m, b, 0, 0)) = ReadTo(m, b, 0, 2)
  <2>1. HeaderName.length \in Nat
    BY HeaderNameAssumption
  <2> HIDE DEF HeaderName
  <2>2. ReadBytes(ReadTo(m, b, 0, 0)) = ReadTo(m, b, 0, 0 + 2)
    BY <1>3, <2>1, ReadsBytes
  <2> QED
    BY <2>2
<1>5. ReadInt64(ReadTo(m, b, 0, 2)) = ReadTo(m, b, 0, 3)
  <2>1. ReadInt64(ReadTo(m, b, 0, 2)) = ReadTo(m, b, 0, 2 + 1)
    BY <1>3, ReadsInt64
  <2> QED
    BY <2>1
<1>6. ReadInt64(ReadBytes(Reader(d, b))) = ReadTo(m, b, 0, 3) /\ Reader(d, b).message = d
  BY <1>1, <1>4, <1>5 DEF Reader
<1> HIDE DEF d
<1> DEFINE matches == ReadTo(m, b, 0, 3).ok /\ ReadTo(m, b, 0, 3).out = DataOfFields(Header(type))
<1>7. checkHeader(type, Reader(d, b))
        = [message |-> d, at |-> ReadTo(m, b, 0, 3).at, remaining |-> ReadTo(m, b, 0, 3).remaining,
           ok |-> matches, out |-> <<>>]
  BY <1>6, Zenon DEF checkHeader
<1>8. CASE Sums(m)[3] <= b
  <2>1. ReadTo(m, b, 0, 3) = Passed(m, b, 0, 3) /\ ReadTo(m, b, 3, 3) = Passed(m, b, 3, 3)
    BY <1>8 DEF ReadTo
  <2>2. Passed(m, b, 0, 3).out = DataOfFields(Header(type))
    <3>1. Len(Header(type)) = 3
      BY MessageOfHeader
    <3>2. \A i \in 1..3 : m[0 + i] = Header(type)[i]
      BY <3>1 DEF Holds
    <3>3. [i \in 1..(3 - 0) |-> m[0 + i].data] = [i \in 1..3 |-> Header(type)[i].data]
      BY <3>2
    <3> QED
      BY <3>1, <3>3 DEF Passed, DataOfFields
  <2>3. /\ Passed(m, b, 0, 3).ok /\ Passed(m, b, 0, 3).at = 3
        /\ Passed(m, b, 0, 3).remaining = b - Sums(m)[3]
    BY DEF Passed
  <2>4. [i \in 1..(3 - 3) |-> m[3 + i].data] = <<>>
    OBVIOUS
  <2>5. Passed(m, b, 3, 3) = [message |-> d, at |-> 3, remaining |-> b - Sums(m)[3], ok |-> TRUE, out |-> <<>>]
    BY <2>4 DEF Passed, d
  <2>6. matches = TRUE
    BY <2>1, <2>2, <2>3
  <2> HIDE DEF matches
  <2>7. checkHeader(type, Reader(d, b)) = ReadTo(m, b, 3, 3)
    BY <1>7, <2>1, <2>3, <2>5, <2>6
  <2> QED
    BY <2>7 DEF d
<1>9. CASE ~(Sums(m)[3] <= b)
  <2> DEFINE j == Fit(m, b)
  <2>1. ReadTo(m, b, 0, 3) = Failed(m, b, 0) /\ ReadTo(m, b, 3, 3) = Failed(m, b, 3)
    BY <1>9 DEF ReadTo
  <2>2. j \in Nat /\ j < 3
    <3>1. Len(m) \in Nat /\ 3 \in 0..Len(m)
      <4>1. Len(m) \in Nat /\ Len(Header(type)) = 3
        BY MessageOfHeader, MessageParts DEF Readable
      <4> QED
        BY <4>1 DEF Holds
    <3>2. j \in 0..Len(m) /\ ~(3 <= j)
      BY <1>9, <3>1, FitIs
    <3> QED
      BY <3>1, <3>2
  <2> HIDE DEF j
  <2>3. [i \in 1..(j - 3) |-> m[3 + i].data] = <<>>
    <3>1. 1..(j - 3) = {}
      BY <2>2
    <3> QED
      BY <3>1
  <2>4. /\ Failed(m, b, 0).ok = FALSE /\ Failed(m, b, 0).at = j
        /\ Failed(m, b, 0).remaining = b - Sums(m)[j]
    BY DEF Failed, j
  <2>5. Failed(m, b, 3) = [message |-> d, at |-> j, remaining |-> b - Sums(m)[j], ok |-> FALSE, out |-> <<>>]
    BY <2>3 DEF Failed, j, d
  <2>6. matches = FALSE
    BY <2>1, <2>4
  <2> HIDE DEF matches
  <2>7. checkHeader(type, Reader(d, b)) = ReadTo(m, b, 3, 3)
    BY <1>7, <2>1, <2>4, <2>5, <2>6
  <2> QED
    BY <2>7 DEF d
<1> QED
  BY <1>8, <1>9

\* The kind of a type.
LEMMA KindOfType ==
  ASSUME NEW type \in StandardMetadataType
  PROVE  Kind[type] \in Kinds
BY DEF StandardMetadataType, Kind, Kinds

\* The message of a value that is there, which begins with a length.
LEMMA MessageOfValue ==
  ASSUME NEW type \in StandardMetadataType, NEW value, ~IsAbsent(type, value), Fits(Kind[type], value)
  PROVE  LET m == Message(type, value)
             p == Payload(Kind[type], value)
         IN /\ IsMessage(m) /\ Len(m) = 3 + Len(p) /\ Len(p) \in Nat
            /\ Holds(m, 0, Header(type)) /\ Holds(m, 3, p)
            /\ Total(m) >= 8
<1> DEFINE p == Payload(Kind[type], value)
           m == Message(type, value)
<1>1. m = Header(type) \o p
  BY DEF Message
<1>2. /\ IsMessage(Header(type)) /\ Len(Header(type)) = 3 /\ Header(type)[1].size = 8
      /\ IsMessage(p)
  BY MessageOfHeader, KindOfType, MessageOfPayload
<1>3. IsMessage(m) /\ Len(m) = 3 + Len(p) /\ Len(p) \in Nat
  BY <1>1, <1>2, MessageJoin, MessageParts
<1> HIDE DEF m, p
<1>4. Holds(m, 0, m)
  <2>1. Len(m) \in Nat
    BY <1>3, MessageParts
  <2> QED
    BY <2>1 DEF Holds
<1>5. Holds(m, 0, Header(type)) /\ Holds(m, 3, p)
  <2>1. Holds(m, 0, Header(type)) /\ Holds(m, 0 + 3, p)
    BY <1>1, <1>2, <1>3, <1>4, HoldsJoin
  <2> QED
    BY <2>1
<1>6. Total(m) >= 8
  <2>1. 0 \in 0..Len(m) /\ 1 \in 1..Len(m) /\ 1 \in 0..Len(m) /\ 1 - 1 = 0
    BY <1>3
  <2>2. m[1].size = 8
    <3>1. m[0 + 1] = Header(type)[1]
      BY <1>2, <1>5 DEF Holds
    <3> QED
      BY <1>2, <3>1
  <2>3. Sums(m)[0] = 0 /\ Sums(m)[1] = Sums(m)[0] + m[1].size
    BY <1>3, <2>1, MessageParts DEF AreSums
  <2>4. Sums(m)[1] <= Total(m) /\ Total(m) \in Nat
    BY <1>3, <2>1, SumsGrow, MessageParts
  <2> QED
    BY <2>2, <2>3, <2>4
<1> QED
  BY <1>3, <1>5, <1>6 DEF m, p

\* What decode() makes of what encode() wrote into b bytes: the value if its
\* message fits, and a refusal if it does not.
LEMMA Decodes ==
  ASSUME NEW type \in StandardMetadataType, NEW value, ~IsAbsent(type, value),
         Fits(Kind[type], value), Total(Message(type, value)) <= MaxInt32,
         NEW b \in Nat, Kind[type] \in Optional => b # 0
  PROVE  LET m == Message(type, value) IN
         decode(type, Written(m, b).dest, b)
           = IF Total(m) <= b THEN [ok |-> TRUE, value |-> Decoded(type, value)]
                              ELSE [ok |-> FALSE, value |-> <<>>]
<1> DEFINE p == Payload(Kind[type], value)
           m == Message(type, value)
           d == Written(m, b).dest
           l == 3 + Len(p)
<1>1. /\ IsMessage(m) /\ Len(m) = l /\ Len(p) \in Nat
      /\ Holds(m, 0, Header(type)) /\ Holds(m, 3, p)
  BY MessageOfValue
<1> HIDE DEF m, p
<1>2. Readable(m, b)
  BY <1>1 DEF Readable, m
<1>3. checkHeader(type, Reader(d, b)) = ReadTo(m, b, 3, 3)
  BY <1>1, <1>2, ChecksHeader
<1>4. At(m, b, 3, 3, p)
  BY <1>1, <1>2 DEF At
<1>5. ReadPayload(Kind[type], ReadTo(m, b, 3, 3)) = ReadTo(m, b, 3, l)
  BY <1>4, KindOfType, ReadsPayload DEF p
<1>6. Passed(m, b, 3, l).out = DataOfFields(p)
  <2>1. l - 3 = Len(p) /\ \A i \in 1..Len(p) : m[3 + i] = p[i]
    BY <1>1 DEF Holds
  <2>2. [i \in 1..(l - 3) |-> m[3 + i].data] = [i \in 1..Len(p) |-> p[i].data]
    BY <2>1
  <2> QED
    BY <2>2 DEF Passed, DataOfFields
<1>7. decode(type, d, b) = [ok |-> ReadTo(m, b, 3, l).ok,
                            value |-> IF ReadTo(m, b, 3, l).ok THEN ReadTo(m, b, 3, l).out ELSE <<>>]
  <2> HIDE DEF d, l
  <2>1. ~(Kind[type] \in Optional /\ b = 0)
    OBVIOUS
  <2> QED
    BY <1>3, <1>5, <2>1, Zenon DEF decode
<1>8. Decoded(type, value) = DataOfFields(p)
  BY DEF Decoded, p
<1>9. Sums(m)[l] = Total(m)
  BY <1>1 DEF Total
<1>10. CASE Total(m) <= b
  <2>1. ReadTo(m, b, 3, l) = Passed(m, b, 3, l) /\ Passed(m, b, 3, l).ok = TRUE
    BY <1>9, <1>10 DEF ReadTo, Passed
  <2> HIDE DEF d, l
  <2>2. decode(type, d, b) = [ok |-> TRUE, value |-> Decoded(type, value)]
    BY <1>6, <1>7, <1>8, <2>1
  <2> QED
    BY <1>10, <2>2 DEF m, d
<1>11. CASE ~(Total(m) <= b)
  <2>1. ReadTo(m, b, 3, l).ok = FALSE
    BY <1>9, <1>11 DEF ReadTo, Failed
  <2> HIDE DEF d, l
  <2>2. decode(type, d, b) = [ok |-> FALSE, value |-> <<>>]
    BY <1>7, <2>1
  <2> QED
    BY <1>11, <2>2 DEF m, d
<1> QED
  BY <1>10, <1>11

\* No message is one.
LEMMA EmptyMessage == IsMessage(<<>>) /\ Total(<<>>) = 0
<1>1. <<>> \in Seq(Fields(Data(<<>>))) /\ Len(<<>>) = 0
  BY EmptySeq
<1>2. IsMessage(<<>>)
  BY <1>1 DEF IsMessage
<1>3. AreSums(Sums(<<>>), <<>>)
  BY <1>2, MessageParts
<1> QED
  BY <1>1, <1>2, <1>3 DEF AreSums, Total

\* MetadataValue<type>::encode and ::decode: whatever room the caller offers,
\* encode() asks for the size of the message, which depends on the value alone;
\* what it writes into that much room or more decode() reads back as the value,
\* for every standard type and every value whose message int32_t can measure.
THEOREM RoundTrip ==
  ASSUME NEW type \in StandardMetadataType, NEW value,
         IsAbsent(type, value) \/ Fits(Kind[type], value),
         Total(Message(type, value)) <= MaxInt32, NEW b \in Nat
  PROVE  LET written == encode(type, value, b) IN
         /\ written.desired = Total(Message(type, value))
         /\ written.desired \in Nat
         /\ written.desired <= b =>
              /\ written.dest = Message(type, value)
              /\ decode(type, written.dest, written.desired)
                   = [ok |-> TRUE, value |-> Decoded(type, value)]
<1> DEFINE m == Message(type, value)
<1>1. encode(type, value, b) = Written(m, b)
  BY DEF encode, Message
<1>2. IsMessage(m)
  <2>1. CASE IsAbsent(type, value)
    BY <2>1, EmptyMessage DEF Message
  <2>2. CASE ~IsAbsent(type, value)
    BY <2>2, MessageOfHeader, KindOfType, MessageOfPayload, MessageJoin DEF Message
  <2> QED
    BY <2>1, <2>2
<1>3. Total(m) \in Nat
  BY <1>2, MessageParts
<1>4. Written(m, b).desired = Total(m) /\ (Total(m) <= b => Written(m, b).dest = m)
  <2> HIDE DEF m
  <2>1. Total(m) <= MaxInt32
    BY DEF m
  <2> QED
    BY <1>2, <2>1, WriterCounts
<1>5. decode(type, m, Total(m)) = [ok |-> TRUE, value |-> Decoded(type, value)]
  <2>1. CASE IsAbsent(type, value)
    BY <2>1, EmptyMessage DEF Message, IsAbsent, decode, Decoded
  <2>2. CASE ~IsAbsent(type, value)
    <3>1. Fits(Kind[type], value) /\ Total(m) # 0 /\ Total(m) <= Total(m)
      BY <1>3, <2>2, MessageOfValue
    <3>2. Written(m, Total(m)).dest = m
      <4> HIDE DEF m
      <4>1. Total(m) <= MaxInt32
        BY DEF m
      <4> QED
        BY <1>2, <1>3, <3>1, <4>1, WriterCounts
    <3> QED
      BY <1>3, <2>2, <3>1, <3>2, Decodes
  <2> QED
    BY <2>1, <2>2
<1> HIDE DEF m
<1>6. /\ encode(type, value, b).desired = Total(m) /\ Total(m) \in Nat
      /\ Total(m) <= b => /\ encode(type, value, b).dest = m
                          /\ decode(type, encode(type, value, b).dest, encode(type, value, b).desired)
                               = [ok |-> TRUE, value |-> Decoded(type, value)]
  BY <1>1, <1>3, <1>4, <1>5
<1> QED
  BY <1>6 DEF m

\* MetadataReader::advance: what encode() wrote into a buffer too
\* small for the value no decode() takes for a value, wherever in the header, a
\* count, a string or a vector it was cut off; but an optional value and a
\* buffer of no bytes at all, which stands for std::nullopt.
THEOREM ShortRefused ==
  ASSUME NEW type \in StandardMetadataType, NEW value, ~IsAbsent(type, value),
         Fits(Kind[type], value), Total(Message(type, value)) <= MaxInt32,
         NEW b \in Nat, b < Total(Message(type, value)), Kind[type] \in Optional => b # 0
  PROVE  ~decode(type, encode(type, value, b).dest, b).ok
<1> DEFINE m == Message(type, value)
<1>1. encode(type, value, b) = Written(m, b)
  BY DEF encode, Message
<1>2. Total(m) \in Nat
  BY MessageOfValue, MessageParts
<1>3. decode(type, Written(m, b).dest, b)
        = IF Total(m) <= b THEN [ok |-> TRUE, value |-> Decoded(type, value)]
                           ELSE [ok |-> FALSE, value |-> <<>>]
  BY Decodes
<1>4. b < Total(m)
  OBVIOUS
<1> HIDE DEF m
<1>5. ~(Total(m) <= b)
  BY <1>2, <1>4
<1> QED
  BY <1>1, <1>3, <1>5

-----------------------------------------------------------------------------
(* Messages that int32_t can measure. *)

\* No more than c fields, each no larger than a short string.
IsShort(m, c) == IsMessage(m) /\ Len(m) <= c /\ \A i \in 1..Len(m) : m[i].size <= 255

\* Their total is within bounds.
LEMMA ShortTotal ==
  ASSUME NEW c \in 0..100, NEW m, IsShort(m, c)
  PROVE  Total(m) <= MaxInt32
<1>1. Len(m) \in Nat /\ Len(m) <= 100 /\ IsMessage(m) /\ \A i \in 1..Len(m) : m[i].size <= 255
  BY MessageParts DEF IsShort
<1>2. Total(m) <= 255 * Len(m) /\ Total(m) \in Nat
  <2>1. PICK x \in Nat : x = 255
    OBVIOUS
  <2>2. IsMessage(m) /\ \A i \in 1..Len(m) : m[i].size <= x
    BY <1>1, <2>1
  <2>3. Total(m) <= x * Len(m)
    BY ONLY <2>2, x \in Nat, TotalBound
  <2>4. Total(m) \in Nat
    BY <1>1, MessageParts
  <2> QED
    BY <2>1, <2>3, <2>4
<1> QED
  BY <1>1, <1>2 DEF MaxInt32

\* Two of them together.
LEMMA ShortJoin ==
  ASSUME NEW c \in Nat, NEW d \in Nat, NEW a, NEW b, IsShort(a, c), IsShort(b, d)
  PROVE  IsShort(a \o b, c + d)
<1> DEFINE D == Data(a) \cup Data(b)
<1>1. IsMessage(a) /\ IsMessage(b)
  BY DEF IsShort
<1>2. Fields(Data(a)) \subseteq Fields(D) /\ Fields(Data(b)) \subseteq Fields(D)
  BY DEF Fields
<1> HIDE DEF D
<1>3. a \in Seq(Fields(D)) /\ b \in Seq(Fields(D))
  BY <1>1, <1>2, SeqMonotonic DEF IsMessage
<1>4. /\ Len(a) \in Nat /\ Len(b) \in Nat
      /\ \A i \in 1..(Len(a) + Len(b)) : (a \o b)[i] = IF i <= Len(a) THEN a[i] ELSE b[i - Len(a)]
  BY <1>3, ConcatProperties, LenProperties
<1>5. IsMessage(a \o b) /\ Len(a \o b) = Len(a) + Len(b)
  BY <1>1, MessageJoin
<1>6. ASSUME NEW i \in 1..(Len(a) + Len(b))
      PROVE  (a \o b)[i].size <= 255
  <2>1. CASE i <= Len(a)
    BY <1>4, <2>1 DEF IsShort
  <2>2. CASE ~(i <= Len(a))
    <3>1. i - Len(a) \in 1..Len(b)
      BY <1>4, <2>2
    <3> QED
      BY <1>4, <2>2, <3>1 DEF IsShort
  <2> QED
    BY <2>1, <2>2
<1>7. Len(a) + Len(b) <= c + d
  BY <1>4 DEF IsShort
<1> QED
  BY <1>5, <1>6, <1>7 DEF IsShort

\* Several of them in a row.
LEMMA ShortFlat ==
  ASSUME NEW c \in Nat, NEW n, NEW ss, AreMessages(ss, n), \A i \in 1..n : IsShort(ss[i], c)
  PROVE  IsShort(FlattenSeq(ss), c * n)
<1> DEFINE D == UNION {Data(ss[i]) : i \in 1..n}
           E == {f \in Fields(D) : f.size <= 255}
<1>1. /\ n \in Nat /\ Len(ss) = n /\ IsMessage(FlattenSeq(ss))
      /\ \A i \in 1..n : IsMessage(ss[i])
  BY MessageFlat DEF AreMessages
<1>2. ASSUME NEW i \in 1..n
      PROVE  ss[i] \in Seq(E)
  <2>1. /\ Len(ss[i]) \in Nat /\ ss[i] \in [1..Len(ss[i]) -> Fields(Data(ss[i]))]
        /\ \A j \in 1..Len(ss[i]) : ss[i][j].size <= 255
    BY <1>1, LenProperties DEF IsMessage, IsShort
  <2>2. Fields(Data(ss[i])) \subseteq Fields(D)
    BY DEF Fields
  <2> HIDE DEF D
  <2>3. ss[i] \in [1..Len(ss[i]) -> E]
    BY <2>1, <2>2
  <2> HIDE DEF E
  <2> QED
    BY <2>1, <2>3, SeqDef
<1>3. ss \in Seq(Seq(E))
  <2> HIDE DEF E
  <2>1. ss \in [1..n -> Seq(E)]
    BY <1>2 DEF AreMessages
  <2> DEFINE V == Seq(E)
  <2>2. ss \in [1..n -> V]
    BY <2>1
  <2> HIDE DEF V
  <2>3. ss \in Seq(V)
    BY <1>1, <2>2, SeqDef
  <2> QED
    BY <2>3 DEF V
<1>4. FlattenSeq(ss) \in Seq(E)
  <2> HIDE DEF E
  <2> QED
    BY <1>3, Flattened
<1>5. \A i \in 1..Len(FlattenSeq(ss)) : FlattenSeq(ss)[i].size <= 255
  <2> DEFINE t == FlattenSeq(ss)
  <2>1. t \in [1..Len(t) -> E]
    <3> HIDE DEF E, t
    <3> QED
      BY <1>4, LenProperties DEF t
  <2> HIDE DEF t, D
  <2> QED
    BY <2>1 DEF t
<1>6. PICK P : AreStarts(P, ss)
  BY MessageFlat
<1> DEFINE G == {k \in 0..n : P[k] <= c * k}
<1>7. 0 \in G
  BY <1>1, <1>6 DEF AreStarts
<1>8. ASSUME NEW k \in 1..n, k - 1 \in G
      PROVE  k \in G
  <2>1. k \in 0..n /\ k - 1 \in 0..n
    BY <1>1
  <2>2. PICK p \in Nat : p = P[k - 1] /\ p <= c * (k - 1)
    BY <1>1, <1>6, <1>8, <2>1 DEF AreStarts
  <2>3. PICK l \in Nat : l = Len(ss[k]) /\ l <= c
    BY <1>1, MessageParts DEF IsShort
  <2>4. P[k] = p + l
    BY <1>1, <1>6, <2>2, <2>3 DEF AreStarts
  <2>5. c * (k - 1) + c = c * k
    BY <1>1
  <2>6. p + l <= c * k
    <3>1. k - 1 \in Nat /\ k \in Nat
      BY <1>1
    <3>2. c * (k - 1) \in Nat /\ c * k \in Nat
      BY <3>1
    <3> QED
      BY <2>2, <2>3, <2>5, <3>2
  <2> QED
    BY <2>1, <2>4, <2>6
<1>9. n \in G
  <2> HIDE DEF G
  <2>1. \A k \in 0..n : k \in G
    BY <1>1, <1>7, <1>8, UpTo
  <2> QED
    BY <1>1, <2>1
<1>10. Len(FlattenSeq(ss)) <= c * n
  BY <1>1, <1>6, <1>9 DEF AreStarts
<1> QED
  BY <1>1, <1>5, <1>10 DEF IsShort

\* Fewer fields are no more.
LEMMA ShortWithin ==
  ASSUME NEW c \in Nat, NEW d \in Nat, c <= d, NEW m, IsShort(m, c)
  PROVE  IsShort(m, d)
<1>1. Len(m) \in Nat
  BY MessageParts DEF IsShort
<1> QED
  BY <1>1 DEF IsShort

\* The simple values.
LEMMA ShortNumbers ==
  ASSUME NEW v
  PROVE  /\ IsShort(Int32(v), 1) /\ IsShort(Int64(v), 1)
         /\ \A z \in 0..255, n \in Nat : Len(v) = n => IsShort(Ints(z, v), n)
         /\ v.length \in 0..255 => IsShort(Bytes(v), 2)
<1>1. IsShort(Int32(v), 1) /\ IsShort(Int64(v), 1)
  <2>1. /\ IsMessage(Int32(v)) /\ Len(Int32(v)) = 1 /\ Int32(v)[1] = [size |-> 4, data |-> v]
        /\ IsMessage(Int64(v)) /\ Len(Int64(v)) = 1 /\ Int64(v)[1] = [size |-> 8, data |-> v]
    BY MessageOfOne
  <2>2. \A i \in 1..1 : Int32(v)[i].size <= 255 /\ Int64(v)[i].size <= 255
    BY <2>1
  <2> QED
    BY <2>1, <2>2 DEF IsShort
<1>2. ASSUME NEW z \in 0..255, NEW n \in Nat, Len(v) = n
      PROVE  IsShort(Ints(z, v), n)
  <2>1. Len(v) \in Nat /\ z \in Nat
    BY <1>2
  <2>2. IsMessage(Ints(z, v)) /\ Len(Ints(z, v)) = Len(v) /\ \A i \in 1..Len(v) : Ints(z, v)[i].size = z
    BY ONLY <2>1, MessageOfInts
  <2> DEFINE m == Ints(z, v)
  <2>3. IsMessage(m) /\ Len(m) = n /\ n <= n
    BY <1>2, <2>2
  <2>4. ASSUME NEW i \in 1..Len(m)
        PROVE  m[i].size <= 255
    <3>1. i \in 1..Len(v)
      BY <2>2
    <3>2. m[i].size = z
      BY ONLY <2>2, <3>1
    <3>3. z <= 255
      OBVIOUS
    <3> HIDE DEF m
    <3> QED
      BY ONLY <3>2, <3>3
  <2> HIDE DEF m
  <2>5. IsShort(m, n)
    BY <2>3, <2>4 DEF IsShort
  <2> QED
    BY <2>5 DEF m
<1>3. ASSUME v.length \in 0..255
      PROVE  IsShort(Bytes(v), 2)
  <2>1. /\ IsMessage(Bytes(v)) /\ Len(Bytes(v)) = 2
        /\ Bytes(v) = <<[size |-> 8, data |-> v.length], [size |-> v.length, data |-> v.bytes]>>
    BY <1>3, MessageOfBytes
  <2>2. Bytes(v)[1].size = 8 /\ Bytes(v)[2].size = v.length
    BY <2>1
  <2>3. \A i \in 1..2 : Bytes(v)[i].size <= 255
    BY <1>3, <2>2
  <2> QED
    BY <2>1, <2>3 DEF IsShort
<1> QED
  BY <1>1, <1>2, <1>3

\* Values of few and short parts, as the mapper provides them.
SmallLayout(p) ==
  /\ Len(p.components) \in 0..4 /\ Len(p.numbers) = 8
  /\ \A i \in 1..Len(p.components) : p.components[i].type.name.length \in 0..255

IsSmall(kind, value) ==
  /\ kind \in {"string", "bytes"} => value.length \in 0..255
  /\ kind = "extendable" => value.name.length \in 0..255
  /\ kind = "layouts" => Len(value) \in 0..3 /\ \A i \in 1..Len(value) : SmallLayout(value[i])
  /\ kind = "rects" => Len(value) \in 0..3 /\ \A i \in 1..Len(value) : FitsRect(value[i])
  /\ kind \in {"smpte2086", "cta861_3"} => Len(value) = Int32Fields[kind]

\* They are values,
LEMMA SmallLayouts ==
  ASSUME NEW p, SmallLayout(p)
  PROVE  FitsLayout(p)
<1>1. /\ \A x : x \in 0..255 => x \in Nat
      /\ \A x : x \in 0..4 => x \in Nat
  OBVIOUS
<1>2. Len(p.components) \in Nat
  BY <1>1, Zenon DEF SmallLayout
<1>3. \A i \in 1..Len(p.components) : p.components[i].type.name.length \in Nat
  BY <1>1, Zenon DEF SmallLayout
<1> QED
  BY <1>2, <1>3, Zenon DEF SmallLayout, FitsLayout, FitsComponent

\* of every kind,
LEMMA SmallFits ==
  ASSUME NEW kind, NEW v, IsSmall(kind, v)
  PROVE  Fits(kind, v)
<1>1. /\ \A x : x \in 0..255 => x \in Nat
      /\ \A x : x \in 0..3 => x \in Nat
  OBVIOUS
<1> QED
  BY <1>1, SmallLayouts, Zenon DEF IsSmall, Fits

\* and so are their extendable types and components,
LEMMA ShortComponent ==
  /\ \A e : e.name.length \in 0..255 => IsShort(ExtendableType(e), 3)
  /\ \A c : c.type.name.length \in 0..255 => IsShort(Component(c), 5)
<1>1. ASSUME NEW e, e.name.length \in 0..255
      PROVE  IsShort(ExtendableType(e), 3)
  <2>1. IsShort(Bytes(e.name), 2) /\ IsShort(Int64(e.value), 1)
    BY <1>1, ShortNumbers
  <2>2. IsShort(ExtendableType(e), 2 + 1)
    BY <2>1, ShortJoin DEF ExtendableType
  <2> QED
    BY <2>2
<1>2. ASSUME NEW c, c.type.name.length \in 0..255
      PROVE  IsShort(Component(c), 5)
  <2> DEFINE v == <<c.offsetInBits, c.sizeInBits>>
  <2>1. Len(v) = 2 /\ 8 \in 0..255 /\ 2 \in Nat
    OBVIOUS
  <2>2. Component(c) = ExtendableType(c.type) \o Ints(8, v)
    BY DEF Component
  <2> HIDE DEF v
  <2>3. IsShort(Ints(8, v), 2)
    BY ONLY <2>1, ShortNumbers
  <2>4. IsShort(ExtendableType(c.type), 3)
    BY <1>1, <1>2
  <2>5. IsShort(Component(c), 3 + 2)
    BY <2>2, <2>3, <2>4, ShortJoin
  <2> QED
    BY <2>5
<1> QED
  BY <1>1, <1>2

\* the layouts,
LEMMA ShortLayout ==
  ASSUME NEW p, SmallLayout(p)
  PROVE  IsShort(PlaneLayout(p), 29)
<1> DEFINE v == p.components
           ss == [i \in 1..Len(v) |-> Component(v[i])]
<1>1. /\ Len(v) \in 0..4 /\ Len(p.numbers) = 8
      /\ \A i \in 1..Len(v) : v[i].type.name.length \in 0..255
  BY DEF SmallLayout
<1>2. PlaneLayout(p) = Int64(Len(v)) \o FlattenSeq(ss) \o Ints(8, p.numbers)
  BY DEF PlaneLayout
<1>3. AreMessages(ss, Len(v))
  <2>1. FitsLayout(p)
    BY SmallLayouts
  <2> QED
    BY <2>1, MessageOfLayout
<1>4. \A i \in 1..Len(v) : IsShort(ss[i], 5)
  BY <1>1, ShortComponent
<1> HIDE DEF ss, v
<1>5. PICK n \in 0..4 : n = Len(v)
  BY <1>1
<1>6. IsShort(FlattenSeq(ss), 5 * n)
  BY <1>3, <1>4, <1>5, ShortFlat
<1>7. IsShort(FlattenSeq(ss), 20)
  BY <1>6, ShortWithin
<1>8. IsShort(Int64(Len(v)), 1)
  BY ShortNumbers
<1>9. IsShort(Ints(8, p.numbers), 8)
  <2>1. Len(p.numbers) = 8 /\ 8 \in 0..255 /\ 8 \in Nat
    BY <1>1
  <2> QED
    BY ONLY <2>1, ShortNumbers
<1>10. IsShort(Int64(Len(v)) \o FlattenSeq(ss), 1 + 20)
  BY <1>7, <1>8, ShortJoin
<1>11. IsShort(PlaneLayout(p), 1 + 20 + 8)
  BY <1>2, <1>9, <1>10, ShortJoin
<1> QED
  BY <1>11

\* and the whole.
LEMMA ShortPayload ==
  ASSUME NEW kind \in Kinds, NEW v, IsSmall(kind, v)
  PROVE  IsShort(Payload(kind, v), 88)
<1>1. Fits(kind, v)
  BY SmallFits
<1>2. CASE kind \in {"int64", "int32"}
  <2>1. IsShort(Payload(kind, v), 1)
    BY <1>2, ShortNumbers DEF Payload
  <2> QED
    BY <2>1, ShortWithin
<1>3. CASE kind \in {"string", "bytes"}
  <2>1. Payload(kind, v) = Bytes(v) /\ v.length \in 0..255
    BY <1>3 DEF Payload, IsSmall
  <2>2. IsShort(Bytes(v), 2)
    BY <2>1, ShortNumbers
  <2> QED
    BY <2>1, <2>2, ShortWithin
<1>4. CASE kind = "extendable"
  <2>1. Payload(kind, v) = ExtendableType(v) /\ v.name.length \in 0..255
    BY <1>4 DEF Payload, IsSmall
  <2> QED
    BY <2>1, ShortComponent, ShortWithin
<1>5. CASE kind = "layouts"
  <2> DEFINE ss == [i \in 1..Len(v) |-> PlaneLayout(v[i])]
  <2>1. Payload(kind, v) = Int64(Len(v)) \o FlattenSeq(ss)
    BY <1>5 DEF Payload
  <2>2. AreMessages(ss, Len(v))
    BY <1>1, <1>5, MessagesOfVectors
  <2>3. Len(v) \in 0..3 /\ \A i \in 1..Len(v) : SmallLayout(v[i])
    BY <1>5 DEF IsSmall
  <2>4. \A i \in 1..Len(v) : IsShort(ss[i], 29)
    BY <2>3, ShortLayout
  <2> HIDE DEF ss
  <2>5. PICK n \in 0..3 : n = Len(v)
    BY <2>3
  <2>6. IsShort(FlattenSeq(ss), 29 * n)
    BY <2>2, <2>4, <2>5, ShortFlat
  <2>7. IsShort(FlattenSeq(ss), 87) /\ IsShort(Int64(Len(v)), 1)
    BY <2>6, ShortWithin, ShortNumbers
  <2>8. IsShort(Payload(kind, v), 1 + 87)
    BY <2>1, <2>7, ShortJoin
  <2> QED
    BY <2>8
<1>6. CASE kind = "rects"
  <2> DEFINE ss == [i \in 1..Len(v) |-> Ints(4, v[i])]
  <2>1. Payload(kind, v) = Int64(Len(v)) \o FlattenSeq(ss)
    BY <1>6 DEF Payload
  <2>2. AreMessages(ss, Len(v))
    BY <1>1, <1>6, MessagesOfVectors
  <2>3. Len(v) \in 0..3 /\ \A i \in 1..Len(v) : Len(v[i]) = 4
    BY <1>6 DEF IsSmall, FitsRect
  <2>4. \A i \in 1..Len(v) : IsShort(ss[i], 4)
    <3>1. 4 \in 0..255 /\ 4 \in Nat
      OBVIOUS
    <3>2. \A w : Len(w) = 4 => IsShort(Ints(4, w), 4)
      BY ONLY <3>1, ShortNumbers
    <3> QED
      BY <2>3, <3>2
  <2> HIDE DEF ss
  <2>5. PICK n \in 0..3 : n = Len(v)
    BY <2>3
  <2>6. IsShort(FlattenSeq(ss), 4 * n)
    BY <2>2, <2>4, <2>5, ShortFlat
  <2>7. IsShort(FlattenSeq(ss), 12) /\ IsShort(Int64(Len(v)), 1)
    BY <2>6, ShortWithin, ShortNumbers
  <2>8. IsShort(Payload(kind, v), 1 + 12)
    BY <2>1, <2>7, ShortJoin
  <2> QED
    BY <2>8, ShortWithin
<1>7. CASE kind \in {"smpte2086", "cta861_3"}
  <2>1. Payload(kind, v) = Ints(4, v)
    BY <1>7 DEF Payload
  <2>2. PICK n \in 0..10 : Len(v) = n
    <3>1. Len(v) = Int32Fields[kind]
      BY <1>7 DEF IsSmall
    <3>2. Int32Fields[kind] \in 0..10
      BY <1>7 DEF Int32Fields
    <3> QED
      BY <3>1, <3>2
  <2>3. 4 \in 0..255 /\ n \in Nat
    OBVIOUS
  <2>4. IsShort(Ints(4, v), n)
    BY ONLY <2>2, <2>3, ShortNumbers
  <2> QED
    BY <2>1, <2>4, ShortWithin
<1> QED
  BY <1>2, <1>3, <1>4, <1>5, <1>6, <1>7 DEF Kinds

\* encode() measures all of them.
LEMMA SmallMessages ==
  ASSUME NEW type \in StandardMetadataType, NEW value, IsSmall(Kind[type], value),
         ~IsAbsent(type, value)
  PROVE  Fits(Kind[type], value) /\ Total(Message(type, value)) <= MaxInt32
<1>1. IsShort(Payload(Kind[type], value), 88)
  BY KindOfType, ShortPayload
<1>2. IsShort(Header(type), 2 + 1)
  <2>1. HeaderName.length \in 0..255
    BY HeaderNameAssumption
  <2> HIDE DEF HeaderName
  <2>2. IsShort(Bytes(HeaderName), 2) /\ IsShort(Int64(type), 1)
    BY <2>1, ShortNumbers
  <2> QED
    BY <2>2, ShortJoin DEF Header
<1>3. IsShort(Message(type, value), 2 + 1 + 88)
  BY <1>1, <1>2, ShortJoin DEF Message
<1>4. IsShort(Message(type, value), 91)
  BY <1>3
<1> QED
  BY <1>4, ShortTotal, SmallFits

-----------------------------------------------------------------------------
(* Refusals. *)

\* What is shorter than the length of a string is no string of any kind, whatever
\* the buffer holds.
LEMMA TooShort ==
  ASSUME NEW type \in StandardMetadataType, Kind[type] \in {"string", "bytes"},
         NEW message, NEW size \in 1..7
  PROVE  ~decode(type, message, size).ok
<1> DEFINE r == Reader(message, size)
           f == [message |-> message, at |-> 0, remaining |-> size, ok |-> FALSE, out |-> <<>>]
<1>2. ReadInt64(r) = f
  <2>1. ~(r.remaining >= 8)
    BY DEF Reader
  <2>2. [message |-> r.message, at |-> r.at, remaining |-> r.remaining, ok |-> FALSE,
         out |-> r.out] = f
    BY DEF Reader
  <2> HIDE DEF r, f
  <2> QED
    BY <2>1, <2>2 DEF ReadInt64, Advance
<1>3. ReadBytes(r) = f /\ ReadInt64(f) = f
  <2>1. /\ f.ok = FALSE
        /\ [message |-> f.message, at |-> f.at, remaining |-> f.remaining, ok |-> FALSE,
            out |-> f.out] = f
    OBVIOUS
  <2> HIDE DEF r, f
  <2> QED
    BY <1>2, <2>1 DEF ReadBytes, ReadInt64, Advance
<1>4. PICK a, b, c : checkHeader(type, r)
                       = [message |-> a, at |-> b, remaining |-> c, ok |-> FALSE, out |-> <<>>]
  <2>1. ReadInt64(ReadBytes(r)).ok = FALSE
    BY <1>3
  <2>2. (ReadInt64(ReadBytes(r)).ok /\ ReadInt64(ReadBytes(r)).out = DataOfFields(Header(type))) = FALSE
    BY <2>1
  <2>3. checkHeader(type, r)
          = [message |-> r.message, at |-> ReadInt64(ReadBytes(r)).at,
             remaining |-> ReadInt64(ReadBytes(r)).remaining, ok |-> FALSE, out |-> <<>>]
    BY <2>2, Zenon DEF checkHeader
  <2> QED
    BY <2>3
<1>5. size # 0
  OBVIOUS
<1>6. ~ReadPayload(Kind[type], checkHeader(type, r)).ok
  <2> DEFINE q == [message |-> a, at |-> b, remaining |-> c, ok |-> FALSE, out |-> <<>>]
  <2>1. ReadInt64(q) = q
    BY DEF ReadInt64, Advance
  <2>2. ReadBytes(q) = q
    BY <2>1 DEF ReadBytes
  <2>3. ReadPayload(Kind[type], q) = ReadBytes(q)
    BY DEF ReadPayload, Int32Fields
  <2>4. q.ok = FALSE /\ checkHeader(type, r) = q
    BY <1>4
  <2> HIDE DEF q, r
  <2> QED
    BY <2>2, <2>3, <2>4
<1>7. decode(type, message, size).ok = ReadPayload(Kind[type], checkHeader(type, r)).ok
  <2> DEFINE p == ReadPayload(Kind[type], checkHeader(type, r))
  <2>1. decode(type, message, size) = [ok |-> p.ok, value |-> IF p.ok THEN p.out ELSE <<>>]
    BY <1>5, Zenon DEF decode
  <2> HIDE DEF p
  <2>2. decode(type, message, size).ok = p.ok
    BY <2>1
  <2> QED
    BY <2>2 DEF p
<1> QED
  BY <1>6, <1>7

=============================================================================
