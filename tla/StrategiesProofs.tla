-------------------------- MODULE StrategiesProofs --------------------------
(***************************************************************************)
(* Proofs about the three strategies, for any configurations, prices and   *)
(* probabilities, and any number of bars and restarts: what a strategy     *)
(* keeps is what its history says, the model learns from outcomes, and     *)
(* signals follow from the bars.                                           *)
(*                                                                         *)
(* First what the definitions that compute are: sums, the newest members   *)
(* of a sequence, and a ring that holds them.                              *)
(***************************************************************************)
EXTENDS Strategies, WellFoundedInduction, FiniteSetTheorems, SequenceTheorems, TLAPS

LEMMA Smallest ==
  ASSUME NEW T \in SUBSET Nat, T # {}
  PROVE  \E x \in T : \A y \in T : x <= y
<1>1. IsWellFoundedOn(OpToRel(<, Nat), Nat)
  BY NatLessThanWellFounded
<1>2. PICK x \in T : \A y \in T : <<y, x>> \notin OpToRel(<, Nat)
  BY <1>1, WFMin, Zenon
<1>3. \A y \in T : ~(y < x)
  BY <1>2 DEF OpToRel
<1>4. x \in Nat /\ \A y \in T : y \in Nat
  OBVIOUS
<1>5. \A y \in T : x <= y
  BY <1>3, <1>4
<1>6. QED
  BY <1>2, <1>5

(* A set of numbers that contains 0 and with each number the next is Nat.  *)
LEMMA Counting ==
  ASSUME NEW T, 0 \in T, \A n \in Nat : n \in T => n + 1 \in T
  PROVE  \A n \in Nat : n \in T
<1>1. SUFFICES ASSUME NEW m \in Nat, m \notin T PROVE FALSE
  OBVIOUS
<1>2. PICK x \in {n \in Nat : n \notin T} : \A y \in {n \in Nat : n \notin T} : x <= y
  <2>1. {n \in Nat : n \notin T} \in SUBSET Nat /\ {n \in Nat : n \notin T} # {}
    BY <1>1
  <2> QED
    BY <2>1, Smallest, Zenon
<1>3. x \in Nat /\ x # 0 /\ x \notin T
  BY <1>2
<1>4. x - 1 \in Nat /\ x - 1 < x /\ (x - 1) + 1 = x
  BY <1>3
<1>5. x - 1 \in T
  BY <1>2, <1>4
<1>6. QED
  BY <1>3, <1>4, <1>5

(* g takes base through the first n of the steps.                          *)
Takes(g, base, step, n) == g = [i \in 0 .. n |-> IF i = 0 THEN base ELSE step[i][g[i - 1]]]

(* Steps that stay in R can be taken.                                      *)
LEMMA StepsTaken ==
  ASSUME NEW n \in Nat, NEW R, NEW base \in R, NEW step \in [1 .. n -> [R -> R]]
  PROVE  \E g \in [0 .. n -> R] : Takes(g, base, step, n)
<1> DEFINE T == {m \in Nat : m <= n => \E g \in [0 .. m -> R] : Takes(g, base, step, m)}
<1>1. 0 \in T
  <2> DEFINE g == [i \in 0 .. 0 |-> base]
  <2>1. g \in [0 .. 0 -> R]
    OBVIOUS
  <2>2. g = [i \in 0 .. 0 |-> IF i = 0 THEN base ELSE step[i][g[i - 1]]]
    OBVIOUS
  <2>3. QED
    BY <2>1, <2>2 DEF Takes
<1>2. ASSUME NEW m \in Nat, m \in T
      PROVE  m + 1 \in T
  <2> SUFFICES ASSUME m + 1 <= n
               PROVE  \E h \in [0 .. m + 1 -> R] : Takes(h, base, step, m + 1)
    OBVIOUS
  <2>1. PICK g \in [0 .. m -> R] : Takes(g, base, step, m)
    BY <1>2
  <2>2. \A i \in 0 .. m : g[i] = IF i = 0 THEN base ELSE step[i][g[i - 1]]
    BY <2>1, Zenon DEF Takes
  <2> DEFINE h == [i \in 0 .. m + 1 |-> IF i = 0 THEN base ELSE step[i][g[i - 1]]]
  <2>3. \A i \in 0 .. m : i \in 0 .. m + 1 /\ h[i] = g[i]
    BY <2>2
  <2>4. \A i \in 0 .. m + 1 : i # 0 => i - 1 \in 0 .. m /\ i \in 1 .. n
    OBVIOUS
  <2>5. h \in [0 .. m + 1 -> R]
    <3>1. \A i \in 0 .. m + 1 : (IF i = 0 THEN base ELSE step[i][g[i - 1]]) \in R
      BY <2>1, <2>4
    <3>2. QED
      BY <3>1
  <2>6. h = [i \in 0 .. m + 1 |-> IF i = 0 THEN base ELSE step[i][h[i - 1]]]
    <3>1. \A i \in 0 .. m + 1 : i # 0 => h[i - 1] = g[i - 1]
      BY <2>3, <2>4
    <3>2. QED
      BY <3>1
  <2> HIDE DEF h
  <2>7. QED
    BY <2>5, <2>6 DEF Takes
<1> HIDE DEF T
<1>3. n \in T
  BY <1>1, <1>2, Counting
<1>4. QED
  BY <1>3 DEF T

-----------------------------------------------------------------------------
(* Sums.                                                                   *)

AreSums(f, s) == f = [n \in 0 .. Len(s) |-> IF n = 0 THEN 0 ELSE f[n - 1] + s[n]]

(* The sums of the first members of a sequence.                            *)
Sums(s) == CHOOSE f : AreSums(f, s)

LEMMA SumIs == \A s : SumOf(s) = Sums(s)[Len(s)]
BY DEF SumOf, Sums, AreSums

LEMMA SumsAre ==
  ASSUME NEW s \in Seq(Int)
  PROVE  AreSums(Sums(s), s) /\ Sums(s) \in [0 .. Len(s) -> Int]
<1> DEFINE n == Len(s)
           step == [i \in 1 .. n |-> [x \in Int |-> x + s[i]]]
<1>1. n \in Nat /\ step \in [1 .. n -> [Int -> Int]] /\ \A i \in 1 .. n : s[i] \in Int
  OBVIOUS
<1> HIDE DEF step, n
<1>2. PICK g \in [0 .. n -> Int] : Takes(g, 0, step, n)
  <2>1. 0 \in Int
    OBVIOUS
  <2>2. QED
    BY <1>1, <2>1, StepsTaken
<1>3. AreSums(g, s)
  <2>1. g = [i \in 0 .. n |-> IF i = 0 THEN 0 ELSE step[i][g[i - 1]]]
    BY <1>2 DEF Takes
  <2>2. \A i \in 0 .. n : i # 0 => step[i][g[i - 1]] = g[i - 1] + s[i]
    <3> SUFFICES ASSUME NEW i \in 0 .. n, i # 0
                 PROVE  step[i][g[i - 1]] = g[i - 1] + s[i]
      OBVIOUS
    <3>1. i \in 1 .. n /\ i - 1 \in 0 .. n
      BY <1>1
    <3>2. g[i - 1] \in Int
      BY <1>2, <3>1
    <3>3. QED
      BY <3>1, <3>2 DEF step
  <2>3. g = [i \in 0 .. n |-> IF i = 0 THEN 0 ELSE g[i - 1] + s[i]]
    BY <2>1, <2>2
  <2>4. QED
    BY <2>3 DEF AreSums, n
<1> DEFINE f == Sums(s)
<1>4. AreSums(f, s)
  BY <1>3, Zenon DEF Sums
<1>5. DOMAIN f = 0 .. n /\ \A i \in 0 .. n : f[i] = IF i = 0 THEN 0 ELSE f[i - 1] + s[i]
  BY <1>4, Zenon DEF AreSums, n
<1> HIDE DEF f
<1> DEFINE T == {i \in Nat : i <= n => f[i] \in Int}
<1>6. \A i \in Nat : i \in T
  <2>1. 0 \in T
    BY <1>1, <1>5
  <2>2. ASSUME NEW i \in Nat, i \in T PROVE i + 1 \in T
    <3> SUFFICES ASSUME i + 1 <= n PROVE f[i + 1] \in Int
      OBVIOUS
    <3>1. i + 1 \in 0 .. n /\ i + 1 \in 1 .. n /\ (i + 1) - 1 = i /\ i + 1 # 0 /\ i <= n
      BY <1>1
    <3>2. f[i + 1] = f[i] + s[i + 1]
      BY <1>5, <3>1
    <3>3. f[i] \in Int /\ s[i + 1] \in Int
      BY <1>1, <2>2, <3>1
    <3>4. QED
      BY <3>2, <3>3
  <2> HIDE DEF T
  <2>3. QED
    BY <2>1, <2>2, Counting
<1>7. \A i \in 0 .. n : f[i] \in Int
  BY <1>1, <1>6
<1>8. f = [i \in 0 .. n |-> IF i = 0 THEN 0 ELSE f[i - 1] + s[i]]
  BY <1>4 DEF AreSums, n
<1>9. QED
  BY <1>4, <1>5, <1>7, <1>8 DEF f, n

(* The sum of a sequence, of one with a member more, of one after another. *)
LEMMA SumInt ==
  ASSUME NEW s \in Seq(Int)
  PROVE  SumOf(s) \in Int
BY SumsAre, SumIs, LenProperties

LEMMA SumStep ==
  ASSUME NEW s \in Seq(Int), NEW n \in 0 .. Len(s)
  PROVE  Sums(s)[n] \in Int /\ Sums(s)[n] = IF n = 0 THEN 0 ELSE Sums(s)[n - 1] + s[n]
<1>1. AreSums(Sums(s), s) /\ Sums(s) \in [0 .. Len(s) -> Int]
  BY SumsAre
<1>2. QED
  BY <1>1 DEF AreSums

(* Sequences that begin alike have the same first sums.                    *)
LEMMA SumsAgree ==
  ASSUME NEW s \in Seq(Int), NEW t \in Seq(Int), NEW n \in Nat, n <= Len(s), n <= Len(t),
         \A i \in 1 .. n : s[i] = t[i]
  PROVE  Sums(s)[n] = Sums(t)[n]
<1> DEFINE T == {m \in Nat : m <= n => Sums(s)[m] = Sums(t)[m]}
<1>1. 0 \in T
  <2>1. 0 \in 0 .. Len(s) /\ 0 \in 0 .. Len(t)
    OBVIOUS
  <2>2. QED
    BY <2>1, SumStep
<1>2. ASSUME NEW m \in Nat, m \in T PROVE m + 1 \in T
  <2> SUFFICES ASSUME m + 1 <= n PROVE Sums(s)[m + 1] = Sums(t)[m + 1]
    OBVIOUS
  <2>1. m + 1 \in 0 .. Len(s) /\ m + 1 \in 0 .. Len(t) /\ (m + 1) - 1 = m /\ m + 1 \in 1 .. n
    OBVIOUS
  <2>2. Sums(s)[m + 1] = Sums(s)[m] + s[m + 1] /\ Sums(t)[m + 1] = Sums(t)[m] + t[m + 1]
    BY <2>1, SumStep
  <2>3. QED
    BY <1>2, <2>1, <2>2
<1> HIDE DEF T
<1>3. n \in T
  BY <1>1, <1>2, Counting
<1>4. QED
  BY <1>3 DEF T

LEMMA SumEmpty == SumOf(<<>>) = 0
<1>1. <<>> \in Seq(Int) /\ Len(<<>>) = 0 /\ 0 \in 0 .. Len(<<>>)
  OBVIOUS
<1>2. QED
  BY <1>1, SumStep, SumIs

LEMMA SumAppend ==
  ASSUME NEW s \in Seq(Int), NEW x \in Int
  PROVE  SumOf(Append(s, x)) = SumOf(s) + x
<1> DEFINE t == Append(s, x)
           n == Len(s)
<1>1. t \in Seq(Int) /\ n \in Nat /\ Len(t) = n + 1 /\ t[n + 1] = x /\ \A i \in 1 .. n : t[i] = s[i]
  OBVIOUS
<1> HIDE DEF t
<1>2. Sums(t)[n] = Sums(s)[n]
  <2>1. n <= Len(t) /\ n <= Len(s)
    BY <1>1
  <2>2. QED
    BY <1>1, <2>1, SumsAgree
<1>3. n + 1 \in 0 .. Len(t) /\ n + 1 # 0 /\ (n + 1) - 1 = n
  BY <1>1
<1>4. Sums(t)[n + 1] = Sums(t)[n] + t[n + 1]
  BY <1>1, <1>3, SumStep
<1>5. QED
  BY <1>1, <1>2, <1>4, SumIs DEF t

LEMMA SumJoined ==
  ASSUME NEW s \in Seq(Int), NEW t \in Seq(Int)
  PROVE  SumOf(s \o t) = SumOf(s) + SumOf(t)
<1> DEFINE u == s \o t
           a == Len(s)
           b == Len(t)
           T == {m \in Nat : m <= b => Sums(u)[a + m] = Sums(s)[a] + Sums(t)[m]}
<1>1. /\ u \in Seq(Int) /\ a \in Nat /\ b \in Nat /\ Len(u) = a + b
      /\ \A i \in 1 .. a : u[i] = s[i]
      /\ \A i \in 1 .. b : u[a + i] = t[i]
  OBVIOUS
<1> HIDE DEF u
<1>2. Sums(s)[a] \in Int
  BY <1>1, SumStep
<1>3. 0 \in T
  <2>1. Sums(u)[a] = Sums(s)[a]
    <3>1. a <= Len(u) /\ a <= Len(s)
      BY <1>1
    <3>2. QED
      BY <1>1, <3>1, SumsAgree
  <2>2. Sums(t)[0] = 0
    BY <1>1, SumStep
  <2>3. QED
    BY <1>1, <1>2, <2>1, <2>2
<1>4. ASSUME NEW m \in Nat, m \in T PROVE m + 1 \in T
  <2> SUFFICES ASSUME m + 1 <= b PROVE Sums(u)[a + (m + 1)] = Sums(s)[a] + Sums(t)[m + 1]
    OBVIOUS
  <2>1. /\ a + (m + 1) \in 0 .. Len(u) /\ m + 1 \in 0 .. Len(t) /\ m \in 0 .. Len(t)
        /\ a + (m + 1) # 0 /\ (a + (m + 1)) - 1 = a + m /\ (m + 1) - 1 = m /\ m + 1 \in 1 .. b
    BY <1>1
  <2>2. Sums(u)[a + (m + 1)] = Sums(u)[a + m] + u[a + (m + 1)]
    BY <1>1, <2>1, SumStep
  <2>3. Sums(t)[m + 1] = Sums(t)[m] + t[m + 1] /\ Sums(t)[m] \in Int
    BY <2>1, SumStep
  <2>4. t[m + 1] \in Int /\ u[a + (m + 1)] = t[m + 1]
    BY <1>1, <2>1
  <2>5. QED
    BY <1>2, <1>4, <2>2, <2>3, <2>4
<1> HIDE DEF T
<1>5. b \in T
  BY <1>1, <1>3, <1>4, Counting
<1>6. QED
  <2>1. Sums(u)[a + b] = Sums(s)[a] + Sums(t)[b]
    BY <1>1, <1>5 DEF T
  <2>2. SumOf(u) = Sums(u)[a + b] /\ SumOf(s) = Sums(s)[a] /\ SumOf(t) = Sums(t)[b]
    BY <1>1, SumIs
  <2>3. QED
    BY <2>1, <2>2 DEF u

(* Without its first member.                                               *)
LEMMA SumOfTail ==
  ASSUME NEW s \in Seq(Int), s # <<>>
  PROVE  SumOf(Tail(s)) = SumOf(s) - s[1]
<1>1. /\ Tail(s) \in Seq(Int) /\ <<s[1]>> \in Seq(Int) /\ s[1] \in Int
      /\ s = <<s[1]>> \o Tail(s)
  OBVIOUS
<1>2. SumOf(<<s[1]>>) = s[1]
  <2>1. <<>> \in Seq(Int) /\ <<s[1]>> = Append(<<>>, s[1])
    OBVIOUS
  <2>2. SumOf(Append(<<>>, s[1])) = SumOf(<<>>) + s[1]
    BY <1>1, <2>1, SumAppend
  <2>3. QED
    BY <1>1, <2>1, <2>2, SumEmpty
<1>3. SumOf(s) = SumOf(<<s[1]>>) + SumOf(Tail(s))
  BY <1>1, SumJoined
<1>4. SumOf(Tail(s)) \in Int
  BY <1>1, SumInt
<1>5. QED
  BY <1>1, <1>2, <1>3, <1>4

(* Members of at most m add up to at most m times their number.            *)
LEMMA SumBounded ==
  ASSUME NEW s \in Seq(Int), NEW m \in Nat, \A i \in 1 .. Len(s) : s[i] \in 0 .. m
  PROVE  SumOf(s) \in 0 .. m * Len(s)
<1> DEFINE T == {n \in Nat : n <= Len(s) => Sums(s)[n] \in 0 .. m * n}
<1>1. Len(s) \in Nat
  OBVIOUS
<1>2. 0 \in T
  BY <1>1, SumStep
<1>3. ASSUME NEW n \in Nat, n \in T PROVE n + 1 \in T
  <2> SUFFICES ASSUME n + 1 <= Len(s) PROVE Sums(s)[n + 1] \in 0 .. m * (n + 1)
    OBVIOUS
  <2>1. n + 1 \in 0 .. Len(s) /\ n + 1 # 0 /\ (n + 1) - 1 = n /\ n + 1 \in 1 .. Len(s)
    BY <1>1
  <2>2. Sums(s)[n + 1] = Sums(s)[n] + s[n + 1]
    BY <2>1, SumStep
  <2>3. s[n + 1] \in 0 .. m /\ Sums(s)[n] \in 0 .. m * n
    BY <1>1, <1>3, <2>1
  <2>4. m * (n + 1) = m * n + m /\ m * n \in Nat
    OBVIOUS
  <2> DEFINE p == m * n
  <2>5. p \in Nat /\ Sums(s)[n] \in 0 .. p /\ m * (n + 1) = p + m
    BY <2>3, <2>4
  <2> HIDE DEF p
  <2>6. QED
    BY <2>2, <2>3, <2>5
<1> HIDE DEF T
<1>4. Len(s) \in T
  BY <1>1, <1>2, <1>3, Counting
<1>5. QED
  BY <1>1, <1>4, SumIs DEF T

LEMMA Joined ==
  ASSUME NEW S, NEW s \in Seq(S), NEW t \in Seq(S)
  PROVE  /\ s \o t \in Seq(S) /\ Len(s \o t) = Len(s) + Len(t)
         /\ \A i \in 1 .. Len(s) + Len(t) :
               (s \o t)[i] = IF i <= Len(s) THEN s[i] ELSE t[i - Len(s)]
BY ConcatProperties, Zenon

(* Where the i-th of n members is when the first is behind place at.       *)
Slot(at, i, n) == IF at + i <= n THEN at + i ELSE at + i - n

(* A turned sequence adds up to the same.                                  *)
LEMMA SumTurned ==
  ASSUME NEW s \in Seq(Int), NEW t \in Seq(Int), Len(s) = Len(t), NEW at \in 0 .. Len(s),
         \A i \in 1 .. Len(s) : s[Slot(at, i, Len(s))] = t[i]
  PROVE  SumOf(s) = SumOf(t)
<1> DEFINE n == Len(s)
           a == SubSeq(s, 1, at)
           b == SubSeq(s, at + 1, n)
<1>1. n \in Nat /\ at \in Nat /\ at <= n /\ Len(t) = n
  OBVIOUS
<1>2. a \in Seq(Int) /\ Len(a) = at /\ \A i \in 1 .. at : a[i] = s[i]
  BY <1>1
<1>3. b \in Seq(Int) /\ Len(b) = n - at /\ \A i \in 1 .. n - at : b[i] = s[at + i]
  BY <1>1
<1> HIDE DEF a, b, n
<1>4. s = a \o b
  <2>1. a \o b \in Seq(Int) /\ Len(a \o b) = n
    <3>1. Len(a) + Len(b) = n
      BY <1>1, <1>2, <1>3
    <3>2. QED
      BY <1>2, <1>3, <3>1, Joined
  <2>2. \A i \in 1 .. n : (a \o b)[i] = s[i]
    <3> SUFFICES ASSUME NEW i \in 1 .. n PROVE (a \o b)[i] = s[i]
      OBVIOUS
    <3>1. (a \o b)[i] = IF i <= Len(a) THEN a[i] ELSE b[i - Len(a)]
      <4>1. i \in 1 .. Len(a) + Len(b)
        BY <1>1, <1>2, <1>3
      <4>2. a \in Seq(Int) /\ b \in Seq(Int)
        BY <1>2, <1>3
      <4>3. \A k \in 1 .. Len(a) + Len(b) :
              (a \o b)[k] = IF k <= Len(a) THEN a[k] ELSE b[k - Len(a)]
        BY <4>2, Joined
      <4>4. QED
        BY <4>1, <4>3, Zenon
    <3>2. i <= at => i \in 1 .. at
      BY <1>1
    <3>3. i > at => i - at \in 1 .. n - at /\ at + (i - at) = i
      BY <1>1
    <3>4. CASE i <= at
      BY <1>2, <3>1, <3>2, <3>4
    <3>5. CASE ~(i <= at)
      <4>1. i - at \in 1 .. n - at /\ at + (i - at) = i
        BY <1>1, <3>3, <3>5
      <4>2. b[i - at] = s[i]
        BY <1>3, <4>1
      <4>3. QED
        BY <1>2, <3>1, <3>5, <4>2
    <3>6. QED
      BY <3>4, <3>5
  <2>3. QED
    BY <2>1, <2>2, SeqEqual DEF n
<1>5. t = b \o a
  <2>1. b \o a \in Seq(Int) /\ Len(b \o a) = n
    <3>1. Len(b) + Len(a) = n
      BY <1>1, <1>2, <1>3
    <3>2. QED
      BY <1>2, <1>3, <3>1, Joined
  <2>2. \A i \in 1 .. n : (b \o a)[i] = t[i]
    <3> SUFFICES ASSUME NEW i \in 1 .. n PROVE (b \o a)[i] = t[i]
      OBVIOUS
    <3>1. t[i] = s[Slot(at, i, n)]
      BY DEF n
    <3>2. (b \o a)[i] = IF i <= Len(b) THEN b[i] ELSE a[i - Len(b)]
      <4>1. i \in 1 .. Len(b) + Len(a)
        BY <1>1, <1>2, <1>3
      <4>2. b \in Seq(Int) /\ a \in Seq(Int)
        BY <1>2, <1>3
      <4>3. \A k \in 1 .. Len(b) + Len(a) :
              (b \o a)[k] = IF k <= Len(b) THEN b[k] ELSE a[k - Len(b)]
        BY <4>2, Joined
      <4>4. QED
        BY <4>1, <4>3, Zenon
    <3>3. CASE at + i <= n
      <4>1. i \in 1 .. n - at /\ i <= Len(b)
        BY <1>1, <1>3, <3>3
      <4>2. QED
        BY <1>3, <3>1, <3>2, <3>3, <4>1 DEF Slot
    <3>4. CASE ~(at + i <= n)
      <4>1. i - (n - at) \in 1 .. at /\ ~(i <= n - at) /\ at + i - n = i - (n - at)
        BY <1>1, <3>4
      <4>2. QED
        BY <1>2, <1>3, <3>1, <3>2, <3>4, <4>1 DEF Slot
    <3>5. QED
      BY <3>3, <3>4
  <2>3. QED
    BY <1>1, <2>1, <2>2, SeqEqual
<1>6. SumOf(a) \in Int /\ SumOf(b) \in Int
  BY <1>2, <1>3, SumInt
<1>7. SumOf(s) = SumOf(a) + SumOf(b) /\ SumOf(t) = SumOf(b) + SumOf(a)
  BY <1>2, <1>3, <1>4, <1>5, SumJoined
<1>8. QED
  BY <1>6, <1>7

-----------------------------------------------------------------------------
(* The newest members of a sequence, and rings that hold them.             *)

LEMMA MaxOfTwo ==
  ASSUME NEW a \in Int, NEW b \in Int
  PROVE  Max({a, b}) = IF a < b THEN b ELSE a
<1> DEFINE m == IF a < b THEN b ELSE a
<1>1. m \in {a, b} /\ \A y \in {a, b} : m >= y
  OBVIOUS
<1>2. \A x \in {a, b} : (\A y \in {a, b} : x >= y) => x = m
  OBVIOUS
<1> HIDE DEF m
<1>3. QED
  BY <1>1, <1>2 DEF Max, m

(* The number of members of s there are of the n newest.                   *)
Some(s, n) == IF Len(s) < n THEN Len(s) ELSE n

LEMMA NewestIs ==
  ASSUME NEW S, NEW s \in Seq(S), NEW n \in Nat \ {0}
  PROVE  /\ Newest(s, n) \in Seq(S) /\ Len(Newest(s, n)) = Some(s, n)
         /\ Some(s, n) \in 0 .. Len(s)
         /\ \A i \in 1 .. Some(s, n) : Newest(s, n)[i] = s[Len(s) - Some(s, n) + i]
<1> DEFINE k == Some(s, n)
           first == Len(s) - k + 1
<1>1. Len(s) \in Nat /\ k \in 0 .. Len(s) /\ first \in 1 .. Len(s) + 1
  <2> DEFINE l == Len(s)
  <2>1. l \in Nat /\ n \in Nat /\ k = IF l < n THEN l ELSE n
    BY DEF Some
  <2> HIDE DEF l, k
  <2>2. l \in Nat /\ k \in 0 .. l /\ l - k + 1 \in 1 .. l + 1
    BY <2>1
  <2>3. QED
    BY <2>2 DEF l
<1>2. Max({1, Len(s) - n + 1}) = first
  <2> DEFINE l == Len(s)
  <2>1. l \in Nat /\ n \in Nat /\ 1 \in Int /\ l - n + 1 \in Int
    BY <1>1
  <2>2. Max({1, l - n + 1}) = IF 1 < l - n + 1 THEN l - n + 1 ELSE 1
    <3> HIDE DEF l
    <3>1. QED
      BY <2>1, MaxOfTwo
  <2>3. k = IF l < n THEN l ELSE n
    BY DEF Some
  <2> HIDE DEF l, k
  <2>4. (IF 1 < l - n + 1 THEN l - n + 1 ELSE 1) = l - k + 1
    BY <2>1, <2>3
  <2>5. QED
    BY <2>2, <2>4 DEF l
<1>3. Newest(s, n) = SubSeq(s, first, Len(s))
  BY <1>2 DEF Newest
<1>4. \A i \in first .. Len(s) : s[i] \in S
  BY <1>1
<1> HIDE DEF first, k
<1>5. /\ SubSeq(s, first, Len(s)) \in Seq(S)
      /\ Len(SubSeq(s, first, Len(s))) = Len(s) - first + 1
      /\ \A i \in 1 .. Len(s) - first + 1 : SubSeq(s, first, Len(s))[i] = s[first + i - 1]
  BY <1>1, <1>4
<1>6. Len(s) - first + 1 = k /\ \A i \in 1 .. k : first + i - 1 = Len(s) - k + i
  BY <1>1 DEF first
<1>7. QED
  BY <1>1, <1>3, <1>5, <1>6 DEF k

LEMMA NewestOnly ==
  ASSUME NEW S, NEW s \in Seq(S), NEW n \in Nat \ {0}, NEW t \in Seq(S), Len(t) = Some(s, n),
         \A i \in 1 .. Some(s, n) : t[i] = s[Len(s) - Some(s, n) + i]
  PROVE  t = Newest(s, n)
<1>1. /\ Newest(s, n) \in Seq(S) /\ Len(Newest(s, n)) = Some(s, n)
      /\ \A i \in 1 .. Some(s, n) : Newest(s, n)[i] = s[Len(s) - Some(s, n) + i]
  BY NewestIs
<1>2. QED
  BY <1>1, SeqEqual

(* When there are n, the oldest of them makes room.                        *)
LEMMA NewestNext ==
  ASSUME NEW S, NEW s \in Seq(S), NEW n \in Nat \ {0}, NEW x \in S
  PROVE  Newest(Append(s, x), n)
             = Append(IF Len(s) < n THEN Newest(s, n) ELSE Tail(Newest(s, n)), x)
<1> DEFINE k == Some(s, n)
           old == Newest(s, n)
           t == Append(s, x)
<1>1. /\ old \in Seq(S) /\ Len(old) = k /\ k \in 0 .. Len(s) /\ Len(s) \in Nat
      /\ \A i \in 1 .. k : old[i] = s[Len(s) - k + i]
  <2>1. Len(s) \in Nat
    OBVIOUS
  <2>2. QED
    BY <2>1, NewestIs, Zenon
<1>2. /\ t \in Seq(S) /\ Len(t) = Len(s) + 1 /\ t[Len(s) + 1] = x
      /\ \A i \in 1 .. Len(s) : t[i] = s[i]
  OBVIOUS
<1> HIDE DEF old, t, k
<1>3. CASE Len(s) < n
  <2> DEFINE new == Append(old, x)
  <2>1. k = Len(s) /\ Some(t, n) = k + 1
    BY <1>1, <1>2, <1>3 DEF Some, k
  <2>2. new \in Seq(S) /\ Len(new) = k + 1 /\ new[k + 1] = x /\ \A i \in 1 .. k : new[i] = old[i]
    BY <1>1
  <2>3. \A i \in 1 .. k + 1 : new[i] = t[Len(t) - (k + 1) + i]
    BY <1>1, <1>2, <2>1, <2>2
  <2> HIDE DEF new
  <2>4. new = Newest(t, n)
    BY <1>2, <2>1, <2>2, <2>3, NewestOnly
  <2>5. QED
    BY <1>3, <2>4 DEF new, old, t
<1>4. CASE ~(Len(s) < n)
  <2> DEFINE new == Append(Tail(old), x)
  <2>1. k = n /\ Some(t, n) = n /\ old # <<>> /\ Len(s) >= n
    BY <1>1, <1>2, <1>4 DEF Some, k
  <2>2. /\ Tail(old) \in Seq(S) /\ Len(Tail(old)) = n - 1
        /\ \A i \in 1 .. n - 1 : Tail(old)[i] = old[i + 1]
    BY <1>1, <2>1
  <2>3. /\ new \in Seq(S) /\ Len(new) = n /\ new[n] = x
        /\ \A i \in 1 .. n - 1 : new[i] = old[i + 1]
    BY <2>2
  <2> HIDE DEF new
  <2>4. ASSUME NEW i \in 1 .. n PROVE new[i] = t[Len(t) - n + i]
    <3>1. CASE i = n
      <4>1. Len(t) - n + i = Len(s) + 1
        BY <1>1, <1>2, <3>1
      <4>2. QED
        BY <1>2, <2>3, <3>1, <4>1
    <3>2. CASE i # n
      <4>1. i \in 1 .. n - 1 /\ i + 1 \in 1 .. k /\ Len(s) - k + (i + 1) \in 1 .. Len(s)
        BY <1>1, <2>1, <3>2
      <4>2. Len(t) - n + i = Len(s) - k + (i + 1)
        BY <1>1, <1>2, <2>1
      <4>3. QED
        BY <1>1, <1>2, <2>3, <4>1, <4>2
    <3>3. QED
      BY <3>1, <3>2
  <2>5. new = Newest(t, n)
    BY <1>2, <2>1, <2>3, <2>4, NewestOnly
  <2>6. QED
    BY <1>4, <2>5 DEF new, old, t
<1>5. QED
  BY <1>3, <1>4

LEMMA NewestOfNewest ==
  ASSUME NEW S, NEW s \in Seq(S), NEW n \in Nat \ {0}, NEW m \in Nat \ {0}, m <= n
  PROVE  Newest(Newest(s, n), m) = Newest(s, m)
<1> DEFINE t == Newest(s, n)
           u == Newest(t, m)
           k == Some(s, n)
           j == Some(s, m)
<1>1. /\ t \in Seq(S) /\ Len(t) = k /\ k \in 0 .. Len(s) /\ Len(s) \in Nat
      /\ \A i \in 1 .. k : t[i] = s[Len(s) - k + i]
  BY NewestIs
<1>2. j = Some(t, m) /\ j \in 0 .. k
  BY <1>1 DEF Some
<1>3. u \in Seq(S) /\ Len(u) = j /\ \A i \in 1 .. j : u[i] = t[k - j + i]
  <2> HIDE DEF t, j, k
  <2>1. /\ u \in Seq(S) /\ Len(u) = Some(t, m)
        /\ \A i \in 1 .. Some(t, m) : u[i] = t[Len(t) - Some(t, m) + i]
    BY <1>1, NewestIs
  <2>2. QED
    BY <1>1, <1>2, <2>1
<1> HIDE DEF t, u, k, j
<1>4. \A i \in 1 .. j : u[i] = s[Len(s) - j + i]
  <2> SUFFICES ASSUME NEW i \in 1 .. j PROVE u[i] = s[Len(s) - j + i]
    OBVIOUS
  <2>1. k \in Nat /\ j \in Nat /\ j <= k /\ Len(s) \in Nat
    BY <1>1, <1>2
  <2>2. i \in Nat /\ 1 <= i /\ i <= j
    BY <2>1
  <2>3. k - j + i \in 1 .. k /\ Len(s) - k + (k - j + i) = Len(s) - j + i
    BY <2>1, <2>2
  <2>4. QED
    BY <1>1, <1>3, <2>3
<1>5. u = Newest(s, m)
  BY <1>3, <1>4, NewestOnly DEF j
<1>6. QED
  BY <1>5 DEF u, t

(* A ring of a size holds the newest of what it was given, the oldest of   *)
(* them at the place to write next.                                        *)
Ringed(ring, at, size, given) ==
    /\ Len(ring) = Some(given, size)
    /\ at \in 0 .. size - 1 /\ (Len(ring) < size => at = 0)
    /\ \A i \in 1 .. Len(ring) : ring[Slot(at, i, Len(ring))] = given[Len(given) - Len(ring) + i]

LEMMA RingGrows ==
  ASSUME NEW S, NEW ring \in Seq(S), NEW given \in Seq(S), NEW size \in Nat \ {0}, NEW at, NEW x \in S,
         Ringed(ring, at, size, given), Len(ring) < size
  PROVE  Append(ring, x) \in Seq(S) /\ Ringed(Append(ring, x), at, size, Append(given, x))
<1> DEFINE new == Append(ring, x)
           now == Append(given, x)
           n == Len(ring)
<1>1. /\ n \in Nat /\ n = Len(given) /\ at = 0 /\ Len(given) < size
      /\ \A i \in 1 .. n : ring[i] = given[i]
  <2>1. Len(ring) \in Nat /\ Len(given) \in Nat /\ size \in Nat
    OBVIOUS
  <2>2. n = Len(given) /\ at = 0 /\ Len(given) < size
    BY <2>1 DEF Ringed, Some
  <2>3. \A i \in 1 .. n : Slot(at, i, n) = i /\ n - n + i = i
    BY <2>1, <2>2 DEF Slot
  <2>4. QED
    BY <2>1, <2>2, <2>3 DEF Ringed
<1>2. /\ new \in Seq(S) /\ Len(new) = n + 1 /\ new[n + 1] = x /\ \A i \in 1 .. n : new[i] = ring[i]
      /\ Len(now) = n + 1 /\ now[n + 1] = x /\ \A i \in 1 .. n : now[i] = given[i]
  BY <1>1
<1> HIDE DEF new, now, n
<1>3. \A i \in 1 .. n + 1 : new[i] = now[i]
  BY <1>1, <1>2
<1>4. \A i \in 1 .. n + 1 : Slot(at, i, n + 1) = i /\ (n + 1) - (n + 1) + i = i
  BY <1>1 DEF Slot
<1>5. n + 1 = Some(now, size) /\ at \in 0 .. size - 1
  BY <1>1, <1>2 DEF Some, n
<1>6. QED
  BY <1>1, <1>2, <1>3, <1>4, <1>5 DEF Ringed, new, now

(* The place after the last one is the first.                              *)
LEMMA Turned ==
  ASSUME NEW size \in Nat \ {0}, NEW at \in 0 .. size - 1
  PROVE  (at + 1) % size = IF at + 1 = size THEN 0 ELSE at + 1
<1>1. at + 1 < size => (at + 1) % size = at + 1
  OBVIOUS
<1>2. size % size = 0
  OBVIOUS
<1>3. QED
  BY <1>1, <1>2

LEMMA RingTurns ==
  ASSUME NEW S, NEW ring \in Seq(S), NEW given \in Seq(S), NEW size \in Nat \ {0}, NEW at, NEW x \in S,
         Ringed(ring, at, size, given), ~(Len(ring) < size)
  PROVE  /\ [ring EXCEPT ![at + 1] = x] \in Seq(S)
         /\ Ringed([ring EXCEPT ![at + 1] = x], (at + 1) % size, size, Append(given, x))
<1> DEFINE new == [ring EXCEPT ![at + 1] = x]
           now == Append(given, x)
           next1 == (at + 1) % size
<1>1. /\ Len(ring) = size /\ Len(given) \in Nat /\ Len(given) >= size /\ at \in 0 .. size - 1
      /\ \A i \in 1 .. size : ring[Slot(at, i, size)] = given[Len(given) - size + i]
  <2>1. Len(ring) \in Nat /\ Len(given) \in Nat /\ size \in Nat
    OBVIOUS
  <2>2. Len(ring) = size /\ Len(given) >= size
    BY <2>1 DEF Ringed, Some
  <2>3. QED
    BY <2>1, <2>2 DEF Ringed
<1>2. /\ new \in Seq(S) /\ Len(new) = size
      /\ \A i \in 1 .. size : new[i] = IF i = at + 1 THEN x ELSE ring[i]
  BY <1>1
<1>3. /\ Len(now) = Len(given) + 1 /\ now[Len(given) + 1] = x
      /\ \A i \in 1 .. Len(given) : now[i] = given[i]
  BY <1>1
<1>4. next1 = IF at + 1 = size THEN 0 ELSE at + 1
  BY <1>1, Turned
<1> HIDE DEF new, now, next1
<1>5. ASSUME NEW i \in 1 .. size
      PROVE  new[Slot(next1, i, size)] = now[Len(now) - size + i]
  <2>1. CASE i = size
    <3>1. Slot(next1, i, size) = at + 1 /\ at + 1 \in 1 .. size /\ Len(now) - size + i = Len(given) + 1
      <4>1. at \in Int /\ 0 <= at /\ at <= size - 1 /\ size \in Nat \ {0}
        BY <1>1
      <4>2. Slot(next1, i, size) = IF next1 + size <= size THEN next1 + size ELSE next1 + size - size
        BY <2>1 DEF Slot
      <4>3. Slot(next1, i, size) = at + 1 /\ at + 1 \in 1 .. size
        BY <1>4, <4>1, <4>2
      <4>4. Len(now) - size + i = Len(given) + 1
        BY <1>1, <1>3, <2>1, <4>1
      <4>5. QED
        BY <4>3, <4>4
    <3>2. new[at + 1] = x
      BY <1>2, <3>1
    <3>3. QED
      BY <1>3, <3>1, <3>2
  <2>2. CASE i # size
    <3>1. /\ i + 1 \in 1 .. size /\ Slot(next1, i, size) = Slot(at, i + 1, size)
          /\ Slot(at, i + 1, size) \in 1 .. size /\ Slot(at, i + 1, size) # at + 1
      <4>1. /\ at \in Int /\ 0 <= at /\ at <= size - 1 /\ size \in Nat \ {0}
            /\ i \in Int /\ 1 <= i /\ i + 1 <= size
        BY <1>1, <2>2
      <4>2. /\ Slot(next1, i, size) = IF next1 + i <= size THEN next1 + i ELSE next1 + i - size
            /\ Slot(at, i + 1, size)
                  = IF at + (i + 1) <= size THEN at + (i + 1) ELSE at + (i + 1) - size
        BY DEF Slot
      <4>3. i + 1 \in 1 .. size /\ Slot(next1, i, size) = Slot(at, i + 1, size)
        BY <1>4, <4>1, <4>2
      <4>4. Slot(at, i + 1, size) \in 1 .. size /\ Slot(at, i + 1, size) # at + 1
        BY <4>1, <4>2
      <4>5. QED
        BY <4>3, <4>4
    <3> DEFINE p == Slot(at, i + 1, size)
               q == Len(given) - size + (i + 1)
    <3>3. /\ Len(now) - size + i = Len(given) - size + (i + 1)
          /\ Len(given) - size + (i + 1) \in 1 .. Len(given)
      BY <1>1, <1>3, <3>1
    <3>4. new[p] = ring[p] /\ ring[p] = given[q] /\ now[q] = given[q]
      BY <1>1, <1>2, <1>3, <3>1, <3>3
    <3>5. QED
      BY <3>1, <3>3, <3>4
  <2>3. QED
    BY <2>1, <2>2
<1>6. Some(now, size) = size /\ next1 \in 0 .. size - 1
  BY <1>1, <1>3, <1>4 DEF Some
<1>7. Ringed(new, next1, size, now)
  BY <1>2, <1>5, <1>6 DEF Ringed
<1>8. QED
  BY <1>2, <1>7 DEF new, now, next1

(* So does a queue that drops the oldest.                                  *)
LEMMA RingShifts ==
  ASSUME NEW S, NEW ring \in Seq(S), NEW given \in Seq(S), NEW size \in Nat \ {0}, NEW x \in S,
         Ringed(ring, 0, size, given), ~(Len(ring) < size)
  PROVE  /\ Append(Tail(ring), x) \in Seq(S)
         /\ Ringed(Append(Tail(ring), x), 0, size, Append(given, x))
<1> DEFINE new == Append(Tail(ring), x)
           now == Append(given, x)
<1>1. /\ Len(ring) = size /\ Len(given) \in Nat /\ Len(given) >= size /\ ring # <<>>
      /\ \A i \in 1 .. size : Slot(0, i, size) = i
      /\ \A i \in 1 .. size : ring[i] = given[Len(given) - size + i]
  <2>1. Len(ring) \in Nat /\ Len(given) \in Nat /\ size \in Nat /\ size # 0
    OBVIOUS
  <2>2. Len(ring) = size /\ Len(given) >= size
    BY <2>1 DEF Ringed, Some
  <2>3. \A i \in 1 .. size : Slot(0, i, size) = i
    BY <2>1 DEF Slot
  <2>4. ring # <<>>
    BY <2>1, <2>2
  <2>5. QED
    BY <2>1, <2>2, <2>3, <2>4 DEF Ringed
<1>2. /\ Tail(ring) \in Seq(S) /\ Len(Tail(ring)) = size - 1
      /\ \A i \in 1 .. size - 1 : Tail(ring)[i] = ring[i + 1]
  BY <1>1
<1>3. /\ new \in Seq(S) /\ Len(new) = size /\ new[size] = x
      /\ \A i \in 1 .. size - 1 : new[i] = ring[i + 1]
  BY <1>2
<1>4. /\ Len(now) = Len(given) + 1 /\ now[Len(given) + 1] = x
      /\ \A i \in 1 .. Len(given) : now[i] = given[i]
  BY <1>1
<1> HIDE DEF new, now
<1>5. ASSUME NEW i \in 1 .. size
      PROVE  new[i] = now[Len(now) - size + i]
  <2>1. CASE i = size
    <3>1. Len(now) - size + i = Len(given) + 1
      BY <1>1, <1>4, <2>1
    <3>2. QED
      BY <1>3, <1>4, <2>1, <3>1
  <2>2. CASE i # size
    <3>1. /\ i \in 1 .. size - 1 /\ i + 1 \in 1 .. size
          /\ Len(now) - size + i = Len(given) - size + (i + 1)
          /\ Len(given) - size + (i + 1) \in 1 .. Len(given)
      BY <1>1, <1>4, <2>2
    <3>2. QED
      BY <1>1, <1>3, <1>4, <3>1
  <2>3. QED
    BY <2>1, <2>2
<1>6. Some(now, size) = size /\ 0 \in 0 .. size - 1
  BY <1>1, <1>4 DEF Some
<1>7. \A i \in 1 .. size : Slot(0, i, size) = i
  BY <1>1
<1>8. Ringed(new, 0, size, now)
  BY <1>3, <1>5, <1>6, <1>7 DEF Ringed
<1>9. QED
  BY <1>3, <1>8 DEF new, now

(* Read from the oldest, a ring is the newest.                             *)
LEMMA RingRead ==
  ASSUME NEW S, NEW ring \in Seq(S), NEW given \in Seq(S), NEW size \in Nat \ {0}, NEW at,
         Ringed(ring, at, size, given)
  PROVE  SubSeq(ring, at + 1, Len(ring)) \o SubSeq(ring, 1, at) = Newest(given, size)
<1> DEFINE n == Len(ring)
           a == SubSeq(ring, at + 1, n)
           b == SubSeq(ring, 1, at)
           t == Newest(given, size)
<1>1. n \in Nat /\ at \in Nat /\ at <= n /\ n = Some(given, size)
  BY DEF Ringed, Some
<1>2. a \in Seq(S) /\ Len(a) = n - at /\ \A i \in 1 .. n - at : a[i] = ring[at + i]
  BY <1>1
<1>3. b \in Seq(S) /\ Len(b) = at /\ \A i \in 1 .. at : b[i] = ring[i]
  BY <1>1
<1>4. t \in Seq(S) /\ Len(t) = n /\ \A i \in 1 .. n : t[i] = ring[Slot(at, i, n)]
  <2>1. t \in Seq(S) /\ Len(t) = n /\ \A i \in 1 .. n : t[i] = given[Len(given) - n + i]
    BY <1>1, NewestIs
  <2>2. QED
    BY <2>1 DEF Ringed
<1> HIDE DEF a, b, n, t
<1>5. a \o b \in Seq(S) /\ Len(a \o b) = n
  <2>1. Len(a) + Len(b) = n
    BY <1>1, <1>2, <1>3
  <2>2. QED
    BY <1>2, <1>3, <2>1, Joined
<1>6. ASSUME NEW i \in 1 .. n PROVE (a \o b)[i] = t[i]
  <2>1. i \in 1 .. Len(a) + Len(b)
    BY <1>1, <1>2, <1>3
  <2>2. \A k \in 1 .. Len(a) + Len(b) : (a \o b)[k] = IF k <= Len(a) THEN a[k] ELSE b[k - Len(a)]
    BY <1>2, <1>3, Joined
  <2>3. (a \o b)[i] = IF i <= Len(a) THEN a[i] ELSE b[i - Len(a)]
    BY <2>1, <2>2, Zenon
  <2>4. CASE at + i <= n
    <3>1. i \in 1 .. n - at /\ i <= Len(a)
      BY <1>1, <1>2, <2>4
    <3>2. QED
      BY <1>2, <1>4, <2>3, <2>4, <3>1 DEF Slot
  <2>5. CASE ~(at + i <= n)
    <3>1. i - (n - at) \in 1 .. at /\ ~(i <= n - at) /\ at + i - n = i - (n - at)
      BY <1>1, <2>5
    <3>2. QED
      BY <1>2, <1>3, <1>4, <2>3, <2>5, <3>1 DEF Slot
  <2>6. QED
    BY <2>4, <2>5
<1>7. a \o b = t
  BY <1>4, <1>5, <1>6, SeqEqual
<1>8. QED
  BY <1>7 DEF a, b, n, t

-----------------------------------------------------------------------------
(* What a constructor accepted, and a bar that is not ignored.             *)

LEMMA ConfigIs ==
  ASSUME config \in Configs, Valid(config)
  PROVE  /\ config.kind \in {"crossover", "reversion", "logistic"}
         /\ Window \in Nat \ {0}
         /\ config.kind # "logistic" => config.long = Window
         /\ config.kind = "logistic" => config.horizon \in Nat \ {0} /\ config.minTraining \in Int
         /\ config.kind = "crossover" =>
               config.short \in Nat \ {0} /\ config.long \in Nat /\ config.short < config.long
<1>1. \/ config.kind = "crossover" /\ config.short \in Int /\ config.long \in Int
      \/ config.kind = "reversion" /\ config.long \in Int
      \/ config.kind = "logistic" /\ config.horizon \in Int /\ config.minTraining \in Int
  BY StrategiesAssumption
<1>2. CASE config.kind = "crossover"
  <2>1. config.short > 0 /\ config.long > config.short
    BY <1>2 DEF Valid
  <2>2. config.short \in Int /\ config.long \in Int
    BY <1>1, <1>2
  <2>3. Window = config.long
    BY <1>2 DEF Window
  <2>4. QED
    BY <1>2, <2>1, <2>2, <2>3
<1>3. CASE config.kind = "reversion"
  <2>1. config.long >= 2
    BY <1>3 DEF Valid
  <2>2. config.long \in Int
    BY <1>1, <1>3
  <2>3. Window = config.long
    BY <1>3 DEF Window
  <2>4. QED
    BY <1>3, <2>1, <2>2, <2>3
<1>4. CASE config.kind = "logistic"
  <2>1. config.horizon >= 1
    BY <1>4 DEF Valid
  <2>2. config.horizon \in Int /\ config.minTraining \in Int
    BY <1>1, <1>4
  <2>3. Window = FeatureWindow
    BY <1>4 DEF Window
  <2>4. QED
    BY <1>4, <2>1, <2>2, <2>3, StrategiesAssumption
<1>5. QED
  BY <1>1, <1>2, <1>3, <1>4

LEMMA MaxCloseIs ==
  ASSUME NEW n \in Nat \ {0}
  PROVE  MaxClose(n) \in Nat /\ n * n * MaxClose(n) <= Largest
<1> DEFINE a == Largest \div n
           b == a \div n
<1>1. Largest \in Nat
  BY StrategiesAssumption
<1>2. a \in Nat /\ n * a <= Largest
  BY <1>1
<1>3. b \in Nat /\ n * b <= a
  BY <1>2
<1> HIDE DEF a, b
<1>4. n * (n * b) <= n * a
  BY <1>2, <1>3
<1>5. n * n * b = n * (n * b) /\ n * (n * b) \in Int /\ n * a \in Int
  BY <1>2, <1>3
<1>6. n * n * b <= Largest
  BY <1>1, <1>2, <1>4, <1>5
<1>7. QED
  BY <1>3, <1>6 DEF MaxClose, a, b

LEMMA NotIgnored ==
  ASSUME config \in Configs, Valid(config), lastTime \in Nat, NEW event \in MarketEvents, IgnoreReason(event) = None
  PROVE  /\ event.price \in Prices /\ event.price \in Int /\ event.price > 0
         /\ event.time \in Nat /\ event.time > lastTime
         /\ config.kind = "crossover" => event.price <= MaxClose(config.long)
<1>1. /\ event.price \in Prices \cup {0, None} /\ event.time \in {lastTime, lastTime + 1}
  BY DEF MarketEvents
<1>2. /\ None # "NotABar" /\ None # "SymbolNotAllowlisted" /\ None # "PriceAbsent"
      /\ None # "PriceInvalid" /\ None # "PriceAboveMaxClose"
      /\ None # "TimeNotAfterLastAccepted"
  BY StrategiesAssumption DEF Reasons
<1>3. event.type = "Bar" /\ Contains(config.symbols, event.symbol)
  BY <1>2 DEF IgnoreReason
<1>4. None = IF event.price = None THEN "PriceAbsent"
             ELSE IF event.price <= 0 THEN "PriceInvalid"
             ELSE IF config.kind = "crossover" /\ event.price > MaxClose(config.long)
                  THEN "PriceAboveMaxClose"
             ELSE IF event.time <= lastTime THEN "TimeNotAfterLastAccepted" ELSE None
  BY <1>3 DEF IgnoreReason
<1>5. /\ event.price # None /\ ~(event.price <= 0)
      /\ ~(config.kind = "crossover" /\ event.price > MaxClose(config.long))
      /\ ~(event.time <= lastTime)
  BY <1>2, <1>4
<1>6. event.price \in Prices /\ event.price \in Int
  <2>1. event.price # 0
    BY <1>5
  <2>2. event.price \in Prices
    BY <1>1, <1>5, <2>1
  <2>3. QED
    BY <2>2, StrategiesAssumption
<1>7. config.kind = "crossover" => MaxClose(config.long) \in Int
  <2>1. config.kind = "crossover" => config.long \in Nat \ {0}
    BY ConfigIs
  <2>2. QED
    BY <2>1, MaxCloseIs
<1>8. QED
  BY <1>1, <1>5, <1>6, <1>7

-----------------------------------------------------------------------------
(* What a strategy keeps of its bars.                                      *)

Bars == [close : Prices, time : Nat, probability : Probabilities \cup {None}]

Given == Closes(history)

(* Types, and what was accepted.                                           *)
BarsInv ==
    /\ config \in Configs /\ Valid(config)
    /\ history \in Seq(Bars) /\ lastTime \in Nat
    /\ lastTime = IF history = <<>> THEN 0 ELSE Last(history).time
    /\ \A i \in 1 .. Len(history) :
          /\ history[i].close > 0
          /\ config.kind = "crossover" => history[i].close <= MaxClose(config.long)

WindowInv ==
    /\ closes \in Seq(Prices) /\ Ringed(closes, next, Window, Given)
    /\ config.kind = "logistic" => next = 0
    /\ IF config.kind = "crossover"
       THEN longSum = SumOf(Newest(Given, Window)) /\ shortSum = SumOf(Newest(Given, config.short))
       ELSE longSum = 0 /\ shortSum = 0

LEMMA InSeq ==
  ASSUME NEW S, NEW T, S \subseteq T, NEW s \in Seq(S)
  PROVE  s \in Seq(T)
<1>1. Len(s) \in Nat /\ DOMAIN s = 1 .. Len(s) /\ \A i \in 1 .. Len(s) : s[i] \in S
  OBVIOUS
<1>2. s = [i \in 1 .. Len(s) |-> s[i]]
  BY <1>1
<1>3. \A i \in 1 .. Len(s) : s[i] \in T
  BY <1>1
<1>4. s \in [1 .. Len(s) -> T]
  BY <1>2, <1>3
<1>5. QED
  BY <1>1, <1>4

LEMMA ClosesAre ==
  ASSUME NEW bars \in Seq(Bars)
  PROVE  /\ Closes(bars) \in Seq(Prices) /\ Closes(bars) \in Seq(Int)
         /\ Len(Closes(bars)) = Len(bars) /\ \A i \in 1 .. Len(bars) : Closes(bars)[i] = bars[i].close
<1>1. DOMAIN bars = 1 .. Len(bars) /\ Len(bars) \in Nat
  OBVIOUS
<1>2. \A i \in 1 .. Len(bars) : bars[i] \in Bars
  OBVIOUS
<1>3. \A i \in 1 .. Len(bars) : bars[i].close \in Prices /\ bars[i].close \in Int
  BY <1>2, StrategiesAssumption DEF Bars
<1>4. Closes(bars) = [i \in 1 .. Len(bars) |-> bars[i].close]
  BY <1>1 DEF Closes
<1>5. QED
  BY <1>1, <1>3, <1>4

LEMMA ClosesNext ==
  ASSUME NEW bars \in Seq(Bars), NEW bar \in Bars
  PROVE  Closes(Append(bars, bar)) = Append(Closes(bars), bar.close)
<1> DEFINE new == Append(bars, bar)
           a == Closes(new)
           b == Append(Closes(bars), bar.close)
<1>1. /\ new \in Seq(Bars) /\ Len(bars) \in Nat /\ Len(new) = Len(bars) + 1 /\ new[Len(bars) + 1] = bar
      /\ \A i \in 1 .. Len(bars) : new[i] = bars[i]
  OBVIOUS
<1>2. bar.close \in Prices
  BY DEF Bars
<1>3. /\ Closes(bars) \in Seq(Prices) /\ Len(Closes(bars)) = Len(bars)
      /\ \A i \in 1 .. Len(bars) : Closes(bars)[i] = bars[i].close
  BY ClosesAre
<1>4. /\ b \in Seq(Prices) /\ Len(b) = Len(bars) + 1 /\ b[Len(bars) + 1] = bar.close
      /\ \A i \in 1 .. Len(bars) : b[i] = bars[i].close
  BY <1>1, <1>2, <1>3
<1> HIDE DEF new, b
<1>5. a \in Seq(Prices) /\ Len(a) = Len(new) /\ \A i \in 1 .. Len(new) : a[i] = new[i].close
  BY <1>1, ClosesAre
<1> HIDE DEF a
<1>6. \A i \in 1 .. Len(new) : a[i] = b[i]
  BY <1>1, <1>4, <1>5
<1>7. a = b
  BY <1>1, <1>4, <1>5, <1>6, SeqEqual
<1>8. QED
  BY <1>7 DEF a, b, new

LEMMA ClosesOfNewest ==
  ASSUME NEW bars \in Seq(Bars), NEW n \in Nat \ {0}
  PROVE  Closes(Newest(bars, n)) = Newest(Closes(bars), n)
<1> DEFINE t == Newest(bars, n)
           a == Closes(t)
           k == Some(bars, n)
<1>1. /\ t \in Seq(Bars) /\ Len(t) = k /\ k \in 0 .. Len(bars)
      /\ \A i \in 1 .. k : t[i] = bars[Len(bars) - k + i]
  BY NewestIs
<1>2. /\ Closes(bars) \in Seq(Prices) /\ Len(Closes(bars)) = Len(bars) /\ Len(bars) \in Nat
      /\ \A i \in 1 .. Len(bars) : Closes(bars)[i] = bars[i].close
  BY ClosesAre, LenProperties
<1> HIDE DEF t
<1>3. a \in Seq(Prices) /\ Len(a) = k /\ \A i \in 1 .. k : a[i] = t[i].close
  BY <1>1, ClosesAre
<1>4. k = Some(Closes(bars), n)
  BY <1>2 DEF Some
<1> HIDE DEF a, k
<1>5. ASSUME NEW i \in 1 .. k PROVE a[i] = Closes(bars)[Len(Closes(bars)) - k + i]
  <2>1. Len(bars) - k + i \in 1 .. Len(bars)
    BY <1>1, <1>2
  <2>2. QED
    BY <1>1, <1>2, <1>3, <2>1
<1>6. a = Newest(Closes(bars), n)
  BY <1>2, <1>3, <1>4, <1>5, NewestOnly
<1>7. QED
  BY <1>6 DEF a, t

(* The sum of the newest, when there is one more.                          *)
LEMMA SumNext ==
  ASSUME NEW s \in Seq(Int), NEW n \in Nat \ {0}, NEW x \in Int
  PROVE  SumOf(Newest(Append(s, x), n))
             = SumOf(Newest(s, n)) + x - (IF Len(s) < n THEN 0 ELSE s[Len(s) - n + 1])
<1> DEFINE old == Newest(s, n)
<1>1. /\ old \in Seq(Int) /\ Len(old) = Some(s, n)
      /\ \A i \in 1 .. Some(s, n) : old[i] = s[Len(s) - Some(s, n) + i]
  BY NewestIs
<1>2. Newest(Append(s, x), n) = Append(IF Len(s) < n THEN old ELSE Tail(old), x)
  BY NewestNext
<1> HIDE DEF old
<1>3. SumOf(old) \in Int
  BY <1>1, SumInt
<1>4. CASE Len(s) < n
  <2>1. SumOf(Append(old, x)) = SumOf(old) + x
    BY <1>1, SumAppend
  <2>2. QED
    BY <1>2, <1>3, <1>4, <2>1 DEF old
<1>5. CASE ~(Len(s) < n)
  <2>1. Some(s, n) = n /\ 1 \in 1 .. n
    BY <1>5 DEF Some
  <2>2. old # <<>> /\ old[1] = s[Len(s) - n + 1] /\ old[1] \in Int
    BY <1>1, <2>1
  <2>3. Tail(old) \in Seq(Int) /\ SumOf(Tail(old)) = SumOf(old) - old[1]
    BY <1>1, <2>2, SumOfTail
  <2>4. SumOf(Append(Tail(old), x)) = SumOf(Tail(old)) + x
    BY <2>3, SumAppend
  <2>5. SumOf(old) - old[1] + x = SumOf(old) + x - old[1]
    BY <1>3, <2>2
  <2>6. QED
    BY <1>2, <1>5, <2>2, <2>3, <2>4, <2>5 DEF old
<1>6. QED
  BY <1>4, <1>5

LEMMA TurnedBy ==
  ASSUME NEW size \in Nat \ {0}, NEW at \in 0 .. size - 1, NEW d \in 0 .. size - 1
  PROVE  (at + d) % size = IF at + d < size THEN at + d ELSE at + d - size
<1>1. at + d < size => (at + d) % size = at + d
  OBVIOUS
<1>2. ~(at + d < size) => (at + d) % size = at + d - size
  <2> DEFINE e == at + d - size
  <2>1. ~(at + d < size) => e \in 0 .. size - 1 /\ at + d = e + 1 * size
    OBVIOUS
  <2>2. QED
    BY <2>1
<1>3. QED
  BY <1>1, <1>2

LEMMA BarTaken ==
  ASSUME BarsInv, NEW event \in MarketEvents, NEW probability \in Told, Accept(event, probability)
  PROVE  /\ event.price \in Prices /\ event.price \in Int
         /\ BarsInv' /\ config' = config /\ Window' = Window
         /\ Given \in Seq(Prices) /\ Given \in Seq(Int) /\ Given' = Append(Given, event.price)
         /\ Len(Given) = Len(history)
<1> DEFINE bar == [close |-> event.price, time |-> event.time, probability |-> probability]
<1>1. /\ IgnoreReason(event) = None /\ history' = Append(history, bar) /\ config' = config
      /\ lastTime' = event.time
  BY DEF Accept
<1>2. /\ event.price \in Prices /\ event.price \in Int /\ event.price > 0
      /\ event.time \in Nat /\ event.time > lastTime
      /\ config.kind = "crossover" => event.price <= MaxClose(config.long)
  BY <1>1, NotIgnored DEF BarsInv
<1>3. probability \in Probabilities \cup {None}
  BY DEF Told
<1>4. bar \in Bars
  BY <1>2, <1>3 DEF Bars
<1>5. history \in Seq(Bars)
  BY DEF BarsInv
<1>6. bar.close = event.price /\ bar.time = event.time
  OBVIOUS
<1> HIDE DEF bar
<1>7. /\ history' \in Seq(Bars) /\ Len(history) \in Nat /\ Len(history') = Len(history) + 1
      /\ history'[Len(history) + 1] = bar /\ history' # <<>>
      /\ \A i \in 1 .. Len(history) : history'[i] = history[i]
  BY <1>1, <1>4, <1>5
<1>8. Last(history') = bar
  BY <1>7 DEF Last
<1>9. BarsInv'
  <2>1. lastTime' = IF history' = <<>> THEN 0 ELSE Last(history').time
    BY <1>1, <1>6, <1>7, <1>8
  <2>2. ASSUME NEW i \in 1 .. Len(history')
        PROVE  /\ history'[i].close > 0
               /\ config'.kind = "crossover" => history'[i].close <= MaxClose(config'.long)
    <3>1. CASE i = Len(history) + 1
      BY <1>1, <1>2, <1>6, <1>7, <3>1
    <3>2. CASE i # Len(history) + 1
      <4>1. i \in 1 .. Len(history) /\ history'[i] = history[i]
        BY <1>7, <3>2
      <4>2. QED
        BY <1>1, <4>1 DEF BarsInv
    <3>3. QED
      BY <3>1, <3>2
  <2>3. Valid(config')
    BY <1>1 DEF BarsInv
  <2>4. QED
    BY <1>1, <1>2, <1>7, <2>1, <2>2, <2>3 DEF BarsInv, MaxClose
<1>10. Window' = Window
  BY <1>1 DEF Window
<1>11. Given' = Append(Given, event.price)
  BY <1>1, <1>4, <1>5, <1>6, ClosesNext DEF Given
<1>12. QED
  BY <1>1, <1>2, <1>5, <1>9, <1>10, <1>11, ClosesAre DEF Given

LEMMA KeepWindow ==
  ASSUME BarsInv, WindowInv, config.kind # "logistic", NEW x \in Prices, Keep(x),
         Given' = Append(Given, x), Given \in Seq(Prices), Window' = Window
  PROVE  closes' \in Seq(Prices) /\ Ringed(closes', next', Window', Given')
<1>1. /\ closes \in Seq(Prices) /\ Ringed(closes, next, Window, Given)
      /\ Window \in Nat \ {0} /\ config.long = Window
  BY ConfigIs DEF BarsInv, WindowInv
<1>2. CASE Len(closes) < Window
  <2>1. closes' = Append(closes, x) /\ next' = next
    BY <1>2 DEF Keep
  <2>2. QED
    BY <1>1, <1>2, <2>1, RingGrows
<1>3. CASE ~(Len(closes) < Window)
  <2>1. closes' = [closes EXCEPT ![next + 1] = x] /\ next' = (next + 1) % Window
    BY <1>1, <1>3 DEF Keep
  <2>2. QED
    BY <1>1, <1>3, <2>1, RingTurns
<1>4. QED
  BY <1>2, <1>3

(* The close that leaves a window is the oldest of it.                     *)
LEMMA KeepSumsIs ==
  ASSUME BarsInv, WindowInv, config.kind = "crossover", NEW x \in Prices, x \in Int, KeepSums(x),
         Given' = Append(Given, x), Given \in Seq(Int)
  PROVE  longSum' = SumOf(Newest(Given', Window)) /\ shortSum' = SumOf(Newest(Given', config.short))
<1> DEFINE l == config.long
           s == config.short
           n == Len(Given)
<1>1. /\ Ringed(closes, next, Window, Given) /\ Window = l
      /\ l \in Nat \ {0} /\ s \in Nat \ {0} /\ s < l /\ n \in Nat
  BY ConfigIs DEF BarsInv, WindowInv
<1>2. longSum = SumOf(Newest(Given, l)) /\ shortSum = SumOf(Newest(Given, s))
  BY <1>1 DEF WindowInv
<1>3. SumOf(Newest(Given', l)) = longSum + x - (IF n < l THEN 0 ELSE Given[n - l + 1])
  BY <1>1, <1>2, SumNext
<1>4. SumOf(Newest(Given', s)) = shortSum + x - (IF n < s THEN 0 ELSE Given[n - s + 1])
  BY <1>1, <1>2, SumNext
<1>5. longSum \in Int /\ shortSum \in Int
  <2>1. Newest(Given, l) \in Seq(Int) /\ Newest(Given, s) \in Seq(Int)
    BY <1>1, NewestIs
  <2>2. QED
    BY <1>2, <2>1, SumInt
<1>6. CASE n < l
  <2>1. Len(closes) = n /\ next = 0 /\ \A i \in 1 .. n : closes[i] = Given[i]
    <3>1. Len(closes) = n /\ next = 0
      BY <1>1, <1>6 DEF Ringed, Some
    <3>2. \A i \in 1 .. n : Slot(next, i, n) = i /\ n - n + i = i
      BY <1>1, <3>1 DEF Slot
    <3>3. QED
      BY <1>1, <3>1, <3>2 DEF Ringed
  <2>2. longSum' = longSum + x
    BY <1>1, <1>6, <2>1 DEF KeepSums
  <2>3. shortSum' = shortSum + x - (IF n >= s THEN closes[n + 1 - s] ELSE 0)
    BY <1>1, <1>6, <2>1 DEF KeepSums
  <2>4. n >= s => closes[n + 1 - s] = Given[n - s + 1]
    BY <1>1, <2>1
  <2>5. shortSum' = SumOf(Newest(Given', s))
    <3>1. CASE n >= s
      BY <1>1, <1>4, <2>3, <2>4, <3>1
    <3>2. CASE ~(n >= s)
      BY <1>1, <1>4, <2>3, <3>2
    <3>3. QED
      BY <3>1, <3>2
  <2>6. longSum' = SumOf(Newest(Given', l))
    BY <1>3, <1>5, <1>6, <2>2
  <2>7. QED
    BY <1>1, <2>5, <2>6
<1>7. CASE ~(n < l)
  <2>1. /\ Len(closes) = l /\ next \in 0 .. l - 1
        /\ \A i \in 1 .. l : closes[Slot(next, i, l)] = Given[n - l + i]
    BY <1>1, <1>7 DEF Ringed, Some
  <2>2. longSum' = longSum + x - closes[next + 1] /\ shortSum' = shortSum + x - closes[LeavesShort + 1]
    BY <1>1, <1>7, <2>1 DEF KeepSums
  <2>3. closes[next + 1] = Given[n - l + 1]
    <3>1. 1 \in 1 .. l /\ Slot(next, 1, l) = next + 1
      BY <1>1, <2>1 DEF Slot
    <3>2. QED
      BY <2>1, <3>1
  <2>4. closes[LeavesShort + 1] = Given[n - s + 1]
    <3>1. LeavesShort = (next + (l - s)) % l
      <4>1. next + l - s = next + (l - s)
        BY <1>1, <2>1
      <4>2. QED
        BY <4>1 DEF LeavesShort
    <3>2. l - s \in 0 .. l - 1
      BY <1>1
    <3>3. LeavesShort = IF next + (l - s) < l THEN next + (l - s) ELSE next + (l - s) - l
      BY <1>1, <2>1, <3>1, <3>2, TurnedBy
    <3>4. /\ (l - s) + 1 \in 1 .. l /\ Slot(next, (l - s) + 1, l) = LeavesShort + 1
          /\ n - l + ((l - s) + 1) = n - s + 1
      <4> DEFINE d == l - s
                 p == LeavesShort
      <4>1. /\ d \in 0 .. l - 1 /\ p = IF next + d < l THEN next + d ELSE next + d - l
            /\ n - l + (d + 1) = n - s + 1
        BY <1>1, <3>2, <3>3
      <4>2. l \in Nat /\ next \in Int /\ d \in Int /\ 0 <= d /\ d <= l - 1
        BY <1>1, <2>1, <4>1
      <4> HIDE DEF d, p, l
      <4>3. d + 1 \in 1 .. l
        BY <4>2
      <4>4. Slot(next, d + 1, l) = IF next + (d + 1) <= l THEN next + (d + 1) ELSE next + (d + 1) - l
        BY DEF Slot
      <4>5. Slot(next, d + 1, l) = p + 1
        BY <4>1, <4>2, <4>4
      <4>6. QED
        BY <4>1, <4>3, <4>5 DEF d, p, l
    <3>5. QED
      BY <2>1, <3>4
  <2>5. ~(n < s)
    BY <1>1, <1>7
  <2>6. longSum' = SumOf(Newest(Given', l))
    BY <1>3, <1>7, <2>2, <2>3
  <2>7. shortSum' = SumOf(Newest(Given', s))
    BY <1>4, <2>2, <2>4, <2>5
  <2>8. QED
    BY <1>1, <2>6, <2>7
<1>8. QED
  BY <1>6, <1>7

LEMMA WindowStep ==
  ASSUME BarsInv, WindowInv, NEW event \in MarketEvents, NEW probability \in Told,
         Accept(event, probability)
  PROVE  WindowInv'
<1> DEFINE x == event.price
<1>1. /\ x \in Prices /\ x \in Int /\ config' = config /\ Window' = Window
      /\ Given \in Seq(Prices) /\ Given \in Seq(Int) /\ Given' = Append(Given, x)
  BY BarTaken
<1>2. Crossover(x) \/ Reversion(x) \/ Logistic(x, probability)
  BY DEF Accept
<1>3. CASE Crossover(x)
  <2>1. config.kind = "crossover" /\ Keep(x) /\ KeepSums(x)
    BY <1>3 DEF Crossover
  <2>2. closes' \in Seq(Prices) /\ Ringed(closes', next', Window', Given')
    BY <1>1, <2>1, KeepWindow
  <2>3. /\ longSum' = SumOf(Newest(Given', Window))
        /\ shortSum' = SumOf(Newest(Given', config.short))
    BY <1>1, <2>1, KeepSumsIs
  <2>4. QED
    BY <1>1, <2>1, <2>2, <2>3 DEF WindowInv
<1>4. CASE Reversion(x)
  <2>1. config.kind = "reversion" /\ Keep(x) /\ UNCHANGED <<shortSum, longSum>>
    BY <1>4 DEF Reversion
  <2>2. closes' \in Seq(Prices) /\ Ringed(closes', next', Window', Given')
    BY <1>1, <2>1, KeepWindow
  <2>3. QED
    BY <1>1, <2>1, <2>2 DEF WindowInv
<1>5. CASE Logistic(x, probability)
  <2>1. /\ config.kind = "logistic" /\ UNCHANGED <<next, shortSum, longSum>>
        /\ closes' = Append(IF Len(closes) = Window THEN Tail(closes) ELSE closes, x)
    BY <1>5 DEF Logistic
  <2>2. /\ closes \in Seq(Prices) /\ Ringed(closes, next, Window, Given) /\ next = 0
        /\ Window \in Nat \ {0}
    BY <2>1, ConfigIs DEF BarsInv, WindowInv
  <2>3. Len(closes) = Window <=> ~(Len(closes) < Window)
    <3>1. Len(closes) = Some(Given, Window) /\ Len(Given) \in Nat
      BY <1>1, <2>2 DEF Ringed
    <3>2. QED
      BY <2>2, <3>1 DEF Some
  <2>4. closes' \in Seq(Prices) /\ Ringed(closes', 0, Window, Given')
    <3>1. CASE Len(closes) < Window
      <4>1. closes' = Append(closes, x)
        BY <2>1, <2>3, <3>1
      <4>2. QED
        BY <1>1, <2>2, <3>1, <4>1, RingGrows
    <3>2. CASE ~(Len(closes) < Window)
      <4>1. closes' = Append(Tail(closes), x)
        BY <2>1, <2>3, <3>2
      <4>2. QED
        BY <1>1, <2>2, <3>2, <4>1, RingShifts
    <3>3. QED
      BY <3>1, <3>2
  <2>5. QED
    BY <1>1, <2>1, <2>2, <2>4 DEF WindowInv
<1>6. QED
  BY <1>2, <1>3, <1>4, <1>5

-----------------------------------------------------------------------------
(* What the logistic strategy waits for and has learnt.                    *)

(* The sample of the i-th bar, and what became of it.                      *)
SampleOf(bars, i) ==
    [bar |-> i - 1, close |-> bars[i].close, probability |-> bars[i].probability,
     behind |-> i - Window]

OutcomeOf(bars, i) == Outcome(SampleOf(bars, i), bars[i + config.horizon].close)

(* How many of n bars have statistics, and how many of those wait.         *)
Measured(n) == IF n < Window THEN 0 ELSE n - Window + 1

Waits(n) == IF Measured(n) < config.horizon THEN Measured(n) ELSE config.horizon

Samples ==
    [bar : Int, close : Prices, probability : Probabilities \cup {None}, behind : Int]

Outcomes == [bar : Int, up : BOOLEAN, right : BOOLEAN, behind : Int]

Rights(outcomes) == [i \in DOMAIN outcomes |-> outcomes[i].right]

ScoredInv ==
    /\ trained \in Nat /\ trained = Len(scores) /\ trained = Cardinality(Known(history, accepted))
    /\ scores \in Seq(Outcomes)
    /\ {scores[i].bar + 1 : i \in 1 .. Len(scores)} = Known(history, accepted)
    /\ \A i \in 1 .. Len(scores) : scores[i] = OutcomeOf(history, scores[i].bar + 1)
    /\ \A i, j \in 1 .. Len(scores) : i < j => scores[i].bar < scores[j].bar
    /\ hits \in Seq(BOOLEAN) /\ Ringed(hits, nextHit, AccuracyWindow, Rights(scores))

WaitingInv ==
    /\ observed = Measured(accepted)
    /\ pending \in Seq(Samples) /\ Len(pending) = Waits(accepted)
    /\ \A k \in 1 .. Len(pending) : pending[k] = SampleOf(history, accepted - Len(pending) + k)

LearnInv ==
    IF config.kind = "logistic" THEN WaitingInv /\ ScoredInv
    ELSE /\ pending = <<>> /\ observed = 0 /\ trained = 0
         /\ hits = <<>> /\ nextHit = 0 /\ scores = <<>>

LEMMA LogisticIs ==
  ASSUME BarsInv, config.kind = "logistic"
  PROVE  /\ Window \in Nat \ {0} /\ config.horizon \in Nat \ {0} /\ history \in Seq(Bars)
         /\ accepted \in Nat /\ Measured(accepted) \in Nat /\ Waits(accepted) \in 0 .. accepted
         /\ Waits(accepted) <= config.horizon
<1> DEFINE n == accepted
           w == Window
           h == config.horizon
<1>1. w \in Nat \ {0} /\ h \in Nat \ {0} /\ history \in Seq(Bars)
  BY ConfigIs DEF BarsInv
<1>2. n \in Nat
  BY <1>1 DEF accepted
<1>3. Measured(n) = IF n < w THEN 0 ELSE n - w + 1
  BY DEF Measured
<1>4. Waits(n) = IF Measured(n) < h THEN Measured(n) ELSE h
  BY DEF Waits
<1> HIDE DEF n, w, h
<1>5. Measured(n) \in 0 .. n
  BY <1>1, <1>2, <1>3
<1>6. Waits(n) \in 0 .. n /\ Waits(n) <= h
  BY <1>1, <1>2, <1>4, <1>5
<1>7. QED
  BY <1>1, <1>2, <1>5, <1>6 DEF n, w, h

(* Bars that come later change nothing of what is known of earlier ones.   *)
LEMMA KnownStays ==
  ASSUME config.kind = "logistic", BarsInv,
         NEW bars \in Seq(Bars), NEW bar \in Bars, NEW n \in Nat, n <= Len(bars)
  PROVE  Known(Append(bars, bar), n) = Known(bars, n)
<1> DEFINE w == Window
           h == config.horizon
           new == Append(bars, bar)
<1>1. w \in Nat \ {0} /\ h \in Nat \ {0}
  BY LogisticIs
<1>2. Len(bars) \in Nat /\ \A i \in 1 .. Len(bars) : new[i] = bars[i]
  OBVIOUS
<1> HIDE DEF w, h, new
<1>3. ASSUME NEW i \in w .. n - h PROVE new[i] = bars[i] /\ new[i + h] = bars[i + h]
  BY <1>1, <1>2
<1>4. /\ Known(new, n) = {i \in w .. n - h : ~TooSmall(new[i].close, new[i + h].close)}
      /\ Known(bars, n) = {i \in w .. n - h : ~TooSmall(bars[i].close, bars[i + h].close)}
  BY DEF Known, w, h
<1>5. Known(new, n) = Known(bars, n)
  BY <1>3, <1>4, Zenon
<1>6. QED
  BY <1>5 DEF new

LEMMA KnownIs ==
  ASSUME config.kind = "logistic", BarsInv, NEW bars \in Seq(Bars), NEW n \in Nat
  PROVE  /\ Known(bars, n) \subseteq Window .. n - config.horizon
         /\ IsFiniteSet(Known(bars, n)) /\ Cardinality(Known(bars, n)) \in Nat
<1>1. Window \in Nat \ {0} /\ config.horizon \in Nat \ {0}
  BY LogisticIs
<1>2. Known(bars, n) \subseteq Window .. n - config.horizon
  BY DEF Known
<1>3. Window \in Int /\ n - config.horizon \in Int
  BY <1>1
<1>4. IsFiniteSet(Window .. n - config.horizon)
  BY <1>3, FS_Interval
<1>5. IsFiniteSet(Known(bars, n))
  BY <1>2, <1>4, FS_Subset
<1>6. QED
  BY <1>2, <1>5, FS_CardinalityType

(* The bar that makes n + 1 settles the one a horizon before it.           *)
LEMMA KnownNext ==
  ASSUME config.kind = "logistic", BarsInv, NEW bars \in Seq(Bars), NEW n \in Nat
  PROVE  Known(bars, n + 1) =
            IF /\ n + 1 - config.horizon >= Window
               /\ ~TooSmall(bars[n + 1 - config.horizon].close, bars[n + 1].close)
            THEN Known(bars, n) \cup {n + 1 - config.horizon} ELSE Known(bars, n)
<1> DEFINE w == Window
           h == config.horizon
           k == (n + 1) - h
           Counts(i) == ~TooSmall(bars[i].close, bars[i + h].close)
<1>1. w \in Nat \ {0} /\ h \in Nat \ {0}
  BY LogisticIs
<1>3. k \in Int /\ n - h = k - 1 /\ k + h = n + 1 /\ n + 1 - h = k
  BY <1>1
<1>4. Counts(k) <=> ~TooSmall(bars[k].close, bars[n + 1].close)
  BY <1>3
<1> HIDE DEF w, h, k, Counts
<1>2. /\ Known(bars, n + 1) = {i \in w .. k : Counts(i)}
      /\ Known(bars, n) = {i \in w .. n - h : Counts(i)}
  <2>1. Known(bars, n + 1) = {i \in w .. k : Counts(i)}
    BY DEF Known, w, h, k, Counts
  <2>2. Known(bars, n) = {i \in w .. n - h : Counts(i)}
    BY DEF Known, w, h, Counts
  <2>3. QED
    BY <2>1, <2>2
<1>5. w .. k = IF k >= w THEN (w .. k - 1) \cup {k} ELSE {}
  <2>1. CASE k >= w
    <3>1. \A i : i \in w .. k <=> i \in w .. k - 1 \/ i = k
      BY <1>1, <1>3, <2>1
    <3>2. w .. k = (w .. k - 1) \cup {k}
      BY <3>1, Zenon
    <3>3. QED
      BY <2>1, <3>2
  <2>2. CASE ~(k >= w)
    BY <1>1, <1>3, <2>2
  <2>3. QED
    BY <2>1, <2>2
<1>6. ~(k >= w) => w .. k - 1 = {}
  BY <1>1, <1>3
<1>7. Known(bars, n + 1) = IF k >= w /\ Counts(k) THEN Known(bars, n) \cup {k} ELSE Known(bars, n)
  <2>1. CASE k >= w
    <3>1. w .. k = (w .. k - 1) \cup {k}
      BY <1>5, <2>1
    <3>2. QED
      BY <1>2, <1>3, <2>1, <3>1
  <2>2. CASE ~(k >= w)
    BY <1>2, <1>3, <1>5, <1>6, <2>2
  <2>3. QED
    BY <2>1, <2>2
<1>8. QED
  BY <1>3, <1>4, <1>7 DEF w, h, k

(* The oldest sample is due, and no other, when as many wait as the horizon. *)
LEMMA ReadyIs ==
  ASSUME BarsInv, config.kind = "logistic", WaitingInv
  PROVE  Ready = IF Len(pending) = config.horizon THEN 1 ELSE 0
<1> DEFINE n == accepted
           p == Len(pending)
           h == config.horizon
           due == {k \in DOMAIN pending : \A m \in 1 .. k : Due(pending[m])}
<1>1. n \in Nat /\ p \in 0 .. n /\ p <= h /\ h \in Nat \ {0}
  BY LogisticIs DEF WaitingInv
<1>2. DOMAIN pending = 1 .. p
  BY DEF WaitingInv
<1>3. ASSUME NEW k \in 1 .. p PROVE Due(pending[k]) <=> k = 1 /\ p = h
  <2>1. pending[k].bar = n - p + k - 1
    <3>1. pending[k] = SampleOf(history, n - p + k)
      BY DEF WaitingInv
    <3>2. SampleOf(history, n - p + k).bar = (n - p + k) - 1
      BY DEF SampleOf
    <3> HIDE DEF n, p, h
    <3>3. QED
      BY <1>1, <3>1, <3>2
  <2>2. Due(pending[k]) <=> n - pending[k].bar >= h
    BY DEF Due
  <2> HIDE DEF n, p, h
  <2>3. QED
    BY <1>1, <2>1, <2>2
<1>4. CASE p = h
  <2>1. ASSUME NEW k \in 1 .. p PROVE (\A m \in 1 .. k : Due(pending[m])) <=> k = 1
    <3> HIDE DEF n, p, h
    <3>1. CASE k = 1
      BY <1>1, <1>3, <1>4, <3>1
    <3>2. CASE k # 1
      <4>1. k \in 1 .. k /\ ~Due(pending[k])
        BY <1>1, <1>3, <3>2
      <4>2. QED
        BY <3>2, <4>1
    <3>3. QED
      BY <3>1, <3>2
  <2>2. 1 \in 1 .. p
    BY <1>1, <1>4
  <2>3. due = {1}
    BY <1>2, <2>1, <2>2
  <2>4. Cardinality({1}) = 1
    BY FS_Singleton
  <2>5. QED
    BY <1>4, <2>3, <2>4 DEF Ready
<1>5. CASE p # h
  <2>1. ASSUME NEW k \in 1 .. p PROVE ~\A m \in 1 .. k : Due(pending[m])
    <3> HIDE DEF n, p, h
    <3>1. k \in 1 .. k /\ ~Due(pending[k])
      BY <1>1, <1>3, <1>5
    <3>2. QED
      BY <3>1
  <2>2. due = {}
    BY <1>2, <2>1
  <2>3. Cardinality({}) = 0
    BY FS_EmptySet
  <2>4. QED
    BY <1>5, <2>2, <2>3 DEF Ready
<1>6. QED
  BY <1>4, <1>5

(* train_due() of one sample.                                              *)
AreLearned(f, close) ==
    f = [n \in 0 .. Ready |->
            IF n = 0
            THEN [hits |-> hits, next |-> nextHit, trained |-> trained, scores |-> scores]
            ELSE IF TooSmall(pending[n].close, close) THEN f[n - 1]
            ELSE Score(f[n - 1], Outcome(pending[n], close))]

Learned(close) == CHOOSE f : AreLearned(f, close)

LEMMA TrainDueIs ==
  ASSUME NEW close, TrainDue(close), Ready \in {0, 1}
  PROVE  IF Ready = 0 \/ TooSmall(pending[1].close, close)
         THEN hits' = hits /\ nextHit' = nextHit /\ trained' = trained /\ scores' = scores
         ELSE LET outcome == Outcome(pending[1], close)
                  full == Len(hits) = AccuracyWindow
              IN  /\ hits' = IF full THEN [hits EXCEPT ![nextHit + 1] = outcome.right]
                             ELSE Append(hits, outcome.right)
                  /\ nextHit' = IF full THEN (nextHit + 1) % AccuracyWindow ELSE nextHit
                  /\ trained' = trained + 1
                  /\ scores' = Append(scores, outcome)
<1> DEFINE base == [hits |-> hits, next |-> nextHit, trained |-> trained, scores |-> scores]
           one == IF TooSmall(pending[1].close, close) THEN base
                  ELSE Score(base, Outcome(pending[1], close))
           f == Learned(close)
           g == [n \in 0 .. Ready |-> IF n = 0 THEN base ELSE one]
<1>1. /\ hits' = f[Ready].hits /\ nextHit' = f[Ready].next
      /\ trained' = f[Ready].trained /\ scores' = f[Ready].scores
  BY DEF TrainDue, Learned, AreLearned
<1>2. AreLearned(g, close)
  <2>1. ASSUME NEW n \in 0 .. Ready
        PROVE  g[n] = IF n = 0 THEN base
                      ELSE IF TooSmall(pending[n].close, close) THEN g[n - 1]
                      ELSE Score(g[n - 1], Outcome(pending[n], close))
    <3>1. CASE n = 0
      BY <3>1
    <3>2. CASE n # 0
      <4>1. n = 1 /\ 0 \in 0 .. Ready /\ n - 1 = 0
        BY <3>2
      <4>2. g[n] = one /\ g[n - 1] = base
        BY <4>1
      <4> HIDE DEF g, base
      <4>3. QED
        BY <3>2, <4>1, <4>2
    <3>3. QED
      BY <3>1, <3>2
  <2> HIDE DEF one
  <2>2. g = [n \in 0 .. Ready |->
              IF n = 0 THEN base
              ELSE IF TooSmall(pending[n].close, close) THEN g[n - 1]
              ELSE Score(g[n - 1], Outcome(pending[n], close))]
    BY <2>1
  <2>3. QED
    BY <2>2 DEF AreLearned
<1>3. AreLearned(f, close)
  BY <1>2 DEF Learned
<1> HIDE DEF f, g
<1>4. \A n \in 0 .. Ready :
         f[n] = IF n = 0 THEN base
                ELSE IF TooSmall(pending[n].close, close) THEN f[n - 1]
                ELSE Score(f[n - 1], Outcome(pending[n], close))
  BY <1>3, Zenon DEF AreLearned
<1>5. f[0] = base
  BY <1>4
<1>6. Ready = 1 => f[1] = one
  BY <1>4, <1>5
<1>7. CASE Ready = 0 \/ TooSmall(pending[1].close, close)
  <2>1. f[Ready] = base
    BY <1>5, <1>6, <1>7
  <2>2. QED
    BY <1>1, <1>7, <2>1
<1>8. CASE ~(Ready = 0 \/ TooSmall(pending[1].close, close))
  <2> DEFINE outcome == Outcome(pending[1], close)
             full == Len(hits) = AccuracyWindow
  <2>1. f[Ready] = Score(base, outcome)
    BY <1>6, <1>8
  <2> HIDE DEF outcome
  <2>2. /\ f[Ready].hits = IF full THEN [hits EXCEPT ![nextHit + 1] = outcome.right]
                           ELSE Append(hits, outcome.right)
        /\ f[Ready].next = IF full THEN (nextHit + 1) % AccuracyWindow ELSE nextHit
        /\ f[Ready].trained = trained + 1
        /\ f[Ready].scores = Append(scores, outcome)
    BY <2>1 DEF Score
  <2>3. QED
    BY <1>1, <1>8, <2>2 DEF outcome
<1>9. QED
  BY <1>7, <1>8

LEMMA WaitsNext ==
  ASSUME BarsInv, config.kind = "logistic", NEW n \in Nat
  PROVE  /\ Measured(n) \in Nat /\ Waits(n) \in 0 .. n /\ Waits(n) <= config.horizon
         /\ n + 1 < Window => /\ Measured(n) = 0 /\ Measured(n + 1) = 0
                              /\ Waits(n) = 0 /\ Waits(n + 1) = 0
         /\ n + 1 >= Window => /\ Measured(n) = (n + 1) - Window
                               /\ Measured(n + 1) = Measured(n) + 1
                               /\ Waits(n + 1) = IF Waits(n) = config.horizon THEN Waits(n)
                                                 ELSE Waits(n) + 1
         /\ Waits(n) = config.horizon <=> (n + 1) - config.horizon >= Window
<1> DEFINE w == Window
           h == config.horizon
           a == Measured(n)
           b == Measured(n + 1)
<1>1. w \in Nat \ {0} /\ h \in Nat \ {0}
  BY LogisticIs
<1>2. /\ a = IF n < w THEN 0 ELSE n - w + 1
      /\ b = IF n + 1 < w THEN 0 ELSE (n + 1) - w + 1
      /\ Waits(n) = IF a < h THEN a ELSE h
      /\ Waits(n + 1) = IF b < h THEN b ELSE h
  BY DEF Measured, Waits
<1> HIDE DEF w, h, a, b
<1>3. a \in 0 .. n /\ (a # 0 => a = n - w + 1 /\ n >= w)
  BY <1>1, <1>2
<1>4. Waits(n) \in 0 .. n /\ Waits(n) <= h
  BY <1>1, <1>2, <1>3
<1>5. ASSUME n + 1 < w PROVE a = 0 /\ b = 0 /\ Waits(n) = 0 /\ Waits(n + 1) = 0
  BY <1>1, <1>2, <1>5
<1>6. ASSUME n + 1 >= w PROVE a = (n + 1) - w /\ b = a + 1
  BY <1>1, <1>2, <1>6
<1>7. ASSUME n + 1 >= w PROVE Waits(n + 1) = IF Waits(n) = h THEN Waits(n) ELSE Waits(n) + 1
  <2>1. b = a + 1 /\ a \in Nat
    BY <1>3, <1>6, <1>7
  <2>2. QED
    BY <1>1, <1>2, <2>1
<1>8. Waits(n) = h <=> (n + 1) - h >= w
  <2>1. Waits(n) = h <=> a >= h
    BY <1>1, <1>2, <1>3
  <2>2. a >= h <=> n >= w /\ n - w + 1 >= h
    BY <1>1, <1>2
  <2>3. QED
    BY <1>1, <2>1, <2>2
<1>9. QED
  BY <1>3, <1>4, <1>5, <1>6, <1>7, <1>8 DEF w, h, a, b

LEMMA SampleStays ==
  ASSUME NEW bars \in Seq(Bars), NEW bar \in Bars, NEW i \in 1 .. Len(bars)
  PROVE  SampleOf(Append(bars, bar), i) = SampleOf(bars, i)
<1>1. Append(bars, bar)[i] = bars[i]
  OBVIOUS
<1>2. QED
  BY <1>1, Zenon DEF SampleOf

LEMMA OutcomeStays ==
  ASSUME BarsInv, config.kind = "logistic",
         NEW bars \in Seq(Bars), NEW bar \in Bars, NEW i \in 1 .. Len(bars) - config.horizon
  PROVE  OutcomeOf(Append(bars, bar), i) = OutcomeOf(bars, i)
<1>1. config.horizon \in Nat \ {0} /\ Len(bars) \in Nat
  BY LogisticIs
<1>2. i \in 1 .. Len(bars) /\ i + config.horizon \in 1 .. Len(bars)
  BY <1>1
<1>3. /\ SampleOf(Append(bars, bar), i) = SampleOf(bars, i)
      /\ Append(bars, bar)[i + config.horizon] = bars[i + config.horizon]
  BY <1>2, SampleStays
<1>4. QED
  BY <1>3, Zenon DEF OutcomeOf

(* What a bar does to a logistic strategy.                                 *)
LEMMA LogisticTaken ==
  ASSUME BarsInv, WindowInv, config.kind = "logistic", WaitingInv,
         NEW event \in MarketEvents, NEW probability \in Told, Accept(event, probability)
  PROVE  LET n == accepted
             x == event.price
             bar == [close |-> x, time |-> event.time, probability |-> probability]
             ready == IF Len(pending) = config.horizon THEN 1 ELSE 0
         IN  /\ n \in Nat /\ bar \in Bars /\ history' = Append(history, bar) /\ accepted' = n + 1
             /\ Logistic(x, probability)
             /\ Ready = ready /\ TrainDue(x)
             /\ IF n + 1 < Window THEN pending' = Waiting /\ observed' = observed
                ELSE /\ observed' = observed + 1
                     /\ pending' = Append(Waiting, [bar |-> n, close |-> x, probability |-> probability,
                                                    behind |-> observed])
<1> DEFINE n == accepted
           x == event.price
           bar == [close |-> x, time |-> event.time, probability |-> probability]
<1>1. /\ n \in Nat /\ history \in Seq(Bars) /\ Window \in Nat \ {0}
  BY LogisticIs
<1>2. bar \in Bars /\ history' = Append(history, bar)
  <2>1. /\ event.price \in Prices /\ event.time \in Nat
    <3>1. IgnoreReason(event) = None
      BY DEF Accept
    <3>2. QED
      BY <3>1, NotIgnored DEF BarsInv
  <2>2. probability \in Probabilities \cup {None}
    BY DEF Told
  <2>3. QED
    BY <2>1, <2>2 DEF Accept, Bars
<1>3. accepted' = n + 1
  <2> HIDE DEF bar
  <2>1. QED
    BY <1>1, <1>2 DEF accepted
<1>4. Logistic(x, probability)
  BY DEF Accept, Crossover, Reversion
<1>5. TrainDue(x)
  BY <1>4 DEF Logistic
<1>6. Ready = IF Len(pending) = config.horizon THEN 1 ELSE 0
  BY ReadyIs
<1>7. Len(closes') < Window <=> n + 1 < Window
  <2>1. WindowInv' /\ Window' = Window /\ Given' \in Seq(Int) /\ Len(Given') = n + 1
    <3>1. WindowInv' /\ Window' = Window /\ BarsInv'
      BY WindowStep, BarTaken
    <3>2. history' \in Seq(Bars) /\ Len(history') = n + 1
      BY <1>3, <3>1 DEF BarsInv, accepted
    <3>3. QED
      BY <3>1, <3>2, ClosesAre DEF Given
  <2>2. Len(closes') = Some(Given', Window)
    BY <2>1 DEF WindowInv, Ringed
  <2>3. QED
    BY <1>1, <2>1, <2>2 DEF Some
<1>8. IF n + 1 < Window THEN pending' = Waiting /\ observed' = observed
      ELSE /\ observed' = observed + 1
           /\ pending' = Append(Waiting, [bar |-> n, close |-> x, probability |-> probability,
                                          behind |-> observed])
  <2>1. CASE n + 1 < Window
    BY <1>4, <1>7, <2>1 DEF Logistic
  <2>2. CASE ~(n + 1 < Window)
    BY <1>4, <1>7, <2>2 DEF Logistic
  <2>3. QED
    BY <2>1, <2>2
<1>9. QED
  BY <1>1, <1>2, <1>3, <1>4, <1>5, <1>6, <1>8

LEMMA WaitingStep ==
  ASSUME BarsInv, WindowInv, config.kind = "logistic", WaitingInv,
         NEW event \in MarketEvents, NEW probability \in Told, Accept(event, probability)
  PROVE  WaitingInv'
<1> DEFINE n == accepted
           x == event.price
           h == config.horizon
           p == Len(pending)
           r == Ready
           bar == [close |-> x, time |-> event.time, probability |-> probability]
           sample == [bar |-> n, close |-> x, probability |-> probability, behind |-> observed]
<1>1. /\ n \in Nat /\ bar \in Bars /\ history' = Append(history, bar) /\ accepted' = n + 1
      /\ r = IF p = h THEN 1 ELSE 0
      /\ IF n + 1 < Window THEN pending' = Waiting /\ observed' = observed
         ELSE observed' = observed + 1 /\ pending' = Append(Waiting, sample)
  BY LogisticTaken, Zenon
<1>2. /\ observed = Measured(n) /\ pending \in Seq(Samples) /\ p = Waits(n)
      /\ \A k \in 1 .. p : pending[k] = SampleOf(history, n - p + k)
  BY DEF WaitingInv
<1>3. /\ Measured(n) \in Nat /\ p \in 0 .. n /\ p <= h
      /\ n + 1 < Window => /\ Measured(n) = 0 /\ Measured(n + 1) = 0 /\ p = 0 /\ Waits(n + 1) = 0
      /\ n + 1 >= Window => /\ Measured(n) = (n + 1) - Window /\ Measured(n + 1) = Measured(n) + 1
                            /\ Waits(n + 1) = IF p = h THEN p ELSE p + 1
      /\ Window \in Nat \ {0} /\ h \in Nat \ {0} /\ history \in Seq(Bars)
  BY <1>1, <1>2, WaitsNext, LogisticIs
<1>4. config' = config
  BY DEF Accept
<1> HIDE DEF n, x, h, p, r, bar, sample
<1>5. r \in {0, 1} /\ r <= p
  BY <1>1, <1>3
<1>6. /\ Waiting \in Seq(Samples) /\ Len(Waiting) = p - r
      /\ \A k \in 1 .. p - r : Waiting[k] = SampleOf(history, (n - p) + (r + k))
  <2> DEFINE s == SubSeq(pending, r + 1, p)
  <2>1. Waiting = s
    BY DEF Waiting, r, p
  <2>2. r + 1 \in 1 .. p + 1 /\ p \in Nat /\ r \in Nat
    BY <1>3, <1>5
  <2>3. s \in Seq(Samples) /\ Len(s) = p - r /\ \A k \in 1 .. p - r : s[k] = pending[r + k]
    BY <1>2, <2>2, SubSeqProperties DEF p
  <2> HIDE DEF s
  <2>4. ASSUME NEW k \in 1 .. p - r PROVE s[k] = SampleOf(history, (n - p) + (r + k))
    <3>1. r + k \in 1 .. p
      BY <1>3, <1>5
    <3>2. pending[r + k] = SampleOf(history, n - p + (r + k))
      BY <1>2, <3>1, Zenon
    <3>3. QED
      BY <2>3, <3>2
  <2>5. QED
    BY <2>1, <2>3, <2>4
<1>7. accepted' = n + 1 /\ Window' = Window
  BY <1>1, <1>4 DEF Window
<1>8. ASSUME NEW i \in 1 .. n PROVE SampleOf(history', i) = SampleOf(history, i)
  <2>1. i \in 1 .. Len(history)
    BY DEF n, accepted
  <2>2. QED
    BY <1>1, <1>3, <2>1, SampleStays
<1>9. /\ observed' = Measured(n + 1)
      /\ pending' \in Seq(Samples) /\ Len(pending') = Waits(n + 1)
      /\ \A k \in 1 .. Len(pending') : pending'[k] = SampleOf(history', (n + 1) - Len(pending') + k)
  <2>1. CASE n + 1 < Window
    <3>1. pending' = Waiting /\ p = 0 /\ r = 0 /\ observed' = observed
      BY <1>1, <1>3, <1>5, <2>1
    <3>2. Len(pending') = 0
      BY <1>6, <3>1
    <3>3. QED
      BY <1>2, <1>3, <1>6, <2>1, <3>1, <3>2
  <2>2. CASE ~(n + 1 < Window)
    <3>1. /\ pending' = Append(Waiting, sample) /\ observed' = observed + 1
          /\ Measured(n) = (n + 1) - Window /\ Measured(n + 1) = Measured(n) + 1
          /\ Waits(n + 1) = IF p = h THEN p ELSE p + 1
      BY <1>1, <1>3, <2>2
    <3>2. sample = SampleOf(history', n + 1) /\ sample \in Samples
      <4>1. history'[n + 1] = bar
        <5>1. n + 1 = Len(history) + 1
          BY DEF n, accepted
        <5>2. QED
          BY <1>1, <1>3, <5>1
      <4>2. bar.close = x /\ bar.probability = probability
        BY DEF bar
      <4>3. SampleOf(history', n + 1)
              = [bar |-> (n + 1) - 1, close |-> x, probability |-> probability,
                 behind |-> (n + 1) - Window]
        BY <4>1, <4>2 DEF SampleOf
      <4>4. (n + 1) - 1 = n /\ (n + 1) - Window = observed /\ observed \in Int /\ n \in Int
        BY <1>1, <1>2, <1>3, <3>1
      <4>5. x \in Prices /\ probability \in Probabilities \cup {None}
        BY <1>1, <4>2 DEF Bars
      <4>6. sample \in Samples
        BY <4>4, <4>5 DEF sample, Samples
      <4>7. QED
        BY <4>3, <4>4, <4>6 DEF sample
    <3>3. /\ pending' \in Seq(Samples) /\ Len(pending') = (p - r) + 1
          /\ pending'[(p - r) + 1] = sample
          /\ \A k \in 1 .. p - r : pending'[k] = Waiting[k]
      BY <1>3, <1>5, <1>6, <3>1, <3>2
    <3>4. Len(pending') = Waits(n + 1)
      BY <1>1, <1>3, <1>5, <3>1, <3>3
    <3>5. ASSUME NEW k \in 1 .. Len(pending')
          PROVE  pending'[k] = SampleOf(history', (n + 1) - Len(pending') + k)
      <4>1. CASE k = (p - r) + 1
        <5>1. (n + 1) - Len(pending') + k = n + 1
          BY <1>1, <1>3, <1>5, <3>3, <4>1
        <5>2. QED
          BY <3>2, <3>3, <4>1, <5>1
      <4>2. CASE k # (p - r) + 1
        <5>1. k \in 1 .. p - r
          BY <1>3, <1>5, <3>3, <4>2
        <5>2. (n + 1) - Len(pending') + k = (n - p) + (r + k) /\ (n - p) + (r + k) \in 1 .. n
          BY <1>1, <1>3, <1>5, <3>3, <5>1
        <5>3. pending'[k] = SampleOf(history, (n - p) + (r + k))
          BY <1>6, <3>3, <5>1
        <5>4. QED
          BY <1>8, <5>2, <5>3
      <4>3. QED
        BY <4>1, <4>2
    <3>6. QED
      BY <1>2, <3>1, <3>3, <3>4, <3>5
  <2>3. QED
    BY <2>1, <2>2
<1>10. QED
  <2>1. Measured(accepted)' = Measured(n + 1) /\ Waits(accepted)' = Waits(n + 1)
    BY <1>4, <1>7 DEF Measured, Waits, Window
  <2>2. ASSUME NEW k \in 1 .. Len(pending')
        PROVE  (pending[k] = SampleOf(history, accepted - Len(pending) + k))'
    <3>1. pending'[k] = SampleOf(history', (n + 1) - Len(pending') + k)
      BY <1>9
    <3>2. QED
      BY <1>4, <1>7, <3>1 DEF SampleOf, Window
  <2>3. QED
    BY <1>9, <2>1, <2>2 DEF WaitingInv

LEMMA RightsAre ==
  ASSUME NEW outcomes \in Seq(Outcomes)
  PROVE  /\ Rights(outcomes) \in Seq(BOOLEAN) /\ Len(Rights(outcomes)) = Len(outcomes)
         /\ \A i \in 1 .. Len(outcomes) : Rights(outcomes)[i] = outcomes[i].right
<1>1. DOMAIN outcomes = 1 .. Len(outcomes) /\ Len(outcomes) \in Nat
  OBVIOUS
<1>2. \A i \in 1 .. Len(outcomes) : outcomes[i] \in Outcomes
  OBVIOUS
<1>3. \A i \in 1 .. Len(outcomes) : outcomes[i].right \in BOOLEAN
  BY <1>2 DEF Outcomes
<1>4. Rights(outcomes) = [i \in 1 .. Len(outcomes) |-> outcomes[i].right]
  BY <1>1 DEF Rights
<1>5. QED
  BY <1>1, <1>3, <1>4

LEMMA RightsNext ==
  ASSUME NEW outcomes \in Seq(Outcomes), NEW outcome \in Outcomes
  PROVE  Rights(Append(outcomes, outcome)) = Append(Rights(outcomes), outcome.right)
<1> DEFINE new == Append(outcomes, outcome)
           n == Len(outcomes)
           a == Rights(new)
           b == Append(Rights(outcomes), outcome.right)
<1>1. /\ new \in Seq(Outcomes) /\ n \in Nat /\ Len(new) = n + 1 /\ new[n + 1] = outcome
      /\ \A i \in 1 .. n : new[i] = outcomes[i]
  OBVIOUS
<1>2. outcome.right \in BOOLEAN
  BY DEF Outcomes
<1>3. /\ Rights(outcomes) \in Seq(BOOLEAN) /\ Len(Rights(outcomes)) = n
      /\ \A i \in 1 .. n : Rights(outcomes)[i] = outcomes[i].right
  BY RightsAre
<1>4. /\ b \in Seq(BOOLEAN) /\ Len(b) = n + 1 /\ b[n + 1] = outcome.right
      /\ \A i \in 1 .. n : b[i] = Rights(outcomes)[i]
  BY <1>1, <1>2, <1>3, AppendProperties
<1> HIDE DEF new, b, n
<1>5. a \in Seq(BOOLEAN) /\ Len(a) = n + 1 /\ \A i \in 1 .. n + 1 : a[i] = new[i].right
  BY <1>1, RightsAre
<1> HIDE DEF a
<1>6. \A i \in 1 .. n + 1 : a[i] = b[i]
  <2>1. ASSUME NEW i \in 1 .. n + 1 PROVE a[i] = b[i]
    <3>1. CASE i = n + 1
      BY <1>1, <1>4, <1>5, <3>1
    <3>2. CASE i # n + 1
      <4>1. i \in 1 .. n
        BY <1>1, <3>2
      <4>2. a[i] = new[i].right /\ new[i] = outcomes[i] /\ b[i] = outcomes[i].right
        BY <1>1, <1>3, <1>4, <1>5, <4>1
      <4>3. QED
        BY <4>2
    <3>3. QED
      BY <3>1, <3>2
  <2>2. QED
    BY <2>1
<1>7. a = b
  BY <1>4, <1>5, <1>6, SeqEqual
<1>8. QED
  BY <1>7 DEF a, b, new

LEMMA Equality ==
  ASSUME NEW a, NEW b
  PROVE  (a = b) \in BOOLEAN
OBVIOUS

LEMMA OutcomeIs ==
  ASSUME BarsInv, config.kind = "logistic",
         NEW bars \in Seq(Bars), NEW i \in 1 .. Len(bars) - config.horizon
  PROVE  OutcomeOf(bars, i) \in Outcomes /\ OutcomeOf(bars, i).bar = i - 1
<1> DEFINE up == bars[i + config.horizon].close > bars[i].close
           right == (bars[i].probability >= 50) = up
           o == [bar |-> i - 1, up |-> up, right |-> right, behind |-> i - Window]
<1>1. OutcomeOf(bars, i) = o
  BY DEF OutcomeOf, Outcome, SampleOf
<1>2. i - 1 \in Int /\ i - Window \in Int
  BY LogisticIs
<1>3. up \in BOOLEAN
  <2>1. config.horizon \in Nat /\ Len(bars) \in Nat
    BY LogisticIs
  <2>2. i \in 1 .. Len(bars) /\ i + config.horizon \in 1 .. Len(bars)
    BY <2>1
  <2>3. bars[i] \in Bars /\ bars[i + config.horizon] \in Bars
    BY <2>2
  <2>4. bars[i].close \in Int /\ bars[i + config.horizon].close \in Int
    BY <2>3, StrategiesAssumption DEF Bars
  <2>5. QED
    BY <2>4
<1>4. right \in BOOLEAN
  BY Equality
<1> HIDE DEF up, right
<1>5. o \in Outcomes
  BY <1>2, <1>3, <1>4 DEF Outcomes
<1>6. QED
  BY <1>1, <1>5

(* The bar a horizon ago is scored, or nothing is.                         *)
LEMMA ScoredStep ==
  ASSUME BarsInv, WindowInv, config.kind = "logistic", WaitingInv, ScoredInv,
         NEW event \in MarketEvents, NEW probability \in Told, Accept(event, probability)
  PROVE  ScoredInv'
<1> DEFINE n == accepted
           x == event.price
           h == config.horizon
           p == Len(pending)
           k == (n + 1) - h
           bar == [close |-> x, time |-> event.time, probability |-> probability]
           old == Known(history, n)
           new == Known(history', n + 1)
           moved == k >= Window /\ ~TooSmall(history'[k].close, history'[n + 1].close)
           outcome == OutcomeOf(history', k)
<1>1. /\ n \in Nat /\ bar \in Bars /\ history' = Append(history, bar) /\ accepted' = n + 1
      /\ Ready = IF p = h THEN 1 ELSE 0
      /\ TrainDue(x)
  BY LogisticTaken, Zenon
<1>2. /\ p \in 0 .. n /\ p <= h /\ (p = h <=> k >= Window)
      /\ Window \in Nat \ {0} /\ h \in Nat \ {0} /\ history \in Seq(Bars)
      /\ pending \in Seq(Samples)
      /\ \A i \in 1 .. p : pending[i] = SampleOf(history, n - p + i)
  BY <1>1, WaitsNext, LogisticIs DEF WaitingInv
<1>3. config' = config /\ Window' = Window /\ BarsInv'
  BY BarTaken
<1>4. n = Len(history) /\ history' \in Seq(Bars)
  BY <1>3 DEF accepted, BarsInv
<1>5. history'[n + 1] = bar /\ bar.close = x
  <2> HIDE DEF bar
  <2>1. history'[n + 1] = bar
    BY <1>1, <1>2, <1>4
  <2>2. QED
    BY <2>1 DEF bar
<1> HIDE DEF bar
<1>6. new = IF moved THEN old \cup {k} ELSE old
  <2>1. Known(history', n) = old
    BY <1>1, <1>2, <1>4, KnownStays
  <2>2. n + 1 - h = k
    <3> HIDE DEF n, h
    <3>1. QED
      BY <1>1, <1>2
  <2>3. QED
    BY <1>1, <1>3, <1>4, <2>1, <2>2, KnownNext
<1>7. /\ old \subseteq Window .. n - h /\ IsFiniteSet(old) /\ Cardinality(old) \in Nat
  BY <1>1, <1>2, KnownIs
<1>8. ASSUME NEW i \in Window .. n - h PROVE OutcomeOf(history', i) = OutcomeOf(history, i)
  <2>1. i \in 1 .. Len(history) - h
    BY <1>1, <1>2, <1>4
  <2>2. QED
    BY <1>1, <1>2, <2>1, OutcomeStays
<1>9. /\ trained \in Nat /\ trained = Len(scores) /\ trained = Cardinality(old)
      /\ scores \in Seq(Outcomes)
      /\ {scores[i].bar + 1 : i \in 1 .. Len(scores)} = old
      /\ \A i \in 1 .. Len(scores) : scores[i] = OutcomeOf(history, scores[i].bar + 1)
      /\ \A i, j \in 1 .. Len(scores) : i < j => scores[i].bar < scores[j].bar
      /\ hits \in Seq(BOOLEAN) /\ Ringed(hits, nextHit, AccuracyWindow, Rights(scores))
  BY DEF ScoredInv
<1>10. \A i \in 1 .. Len(scores) : scores[i].bar + 1 \in old /\ scores[i].bar \in Int
  <2>1. \A i \in 1 .. Len(scores) : scores[i] \in Outcomes
    <3>1. scores \in Seq(Outcomes)
      BY <1>9
    <3>2. QED
      BY <3>1
  <2>2. \A i \in 1 .. Len(scores) : scores[i].bar \in Int
    BY <2>1 DEF Outcomes
  <2>3. QED
    BY <1>9, <2>2
<1>11. \A i \in 1 .. Len(scores) : scores[i] = OutcomeOf(history', scores[i].bar + 1)
  BY <1>7, <1>8, <1>9, <1>10
<1>12. IF moved
       THEN /\ hits' = IF Len(hits) = AccuracyWindow THEN [hits EXCEPT ![nextHit + 1] = outcome.right]
                       ELSE Append(hits, outcome.right)
            /\ nextHit' = IF Len(hits) = AccuracyWindow THEN (nextHit + 1) % AccuracyWindow ELSE nextHit
            /\ trained' = trained + 1
            /\ scores' = Append(scores, outcome)
       ELSE hits' = hits /\ nextHit' = nextHit /\ trained' = trained /\ scores' = scores
  <2>1. CASE Ready = 0
    <3>1. ~moved
      BY <1>1, <1>2, <2>1
    <3>2. QED
      BY <1>1, <2>1, <3>1, TrainDueIs
  <2>2. CASE Ready # 0
    <3>1. p = h /\ Ready = 1 /\ k >= Window
      BY <1>1, <1>2, <2>2
    <3>2. pending[1] = SampleOf(history', k) /\ 1 \in 1 .. p
      <4>1. 1 \in 1 .. p /\ n - p + 1 = k /\ k \in 1 .. n
        <5> HIDE DEF n, p, h
        <5>1. QED
          BY <1>1, <1>2, <3>1
      <4>2. SampleOf(history', k) = SampleOf(history, k)
        BY <1>1, <1>2, <1>4, <4>1, SampleStays
      <4>3. QED
        BY <1>2, <4>1, <4>2
    <3>3. pending[1].close = history'[k].close
      BY <3>2 DEF SampleOf
    <3>4. outcome = Outcome(pending[1], x)
      <4>1. k + h = n + 1
        <5> HIDE DEF n, h
        <5>1. QED
          BY <1>1, <1>2
      <4>2. history'[k + h].close = x
        BY <1>5, <4>1
      <4> HIDE DEF k
      <4>3. QED
        BY <3>2, <4>2 DEF OutcomeOf
    <3>5. moved <=> ~TooSmall(pending[1].close, x)
      BY <1>5, <3>1, <3>3
    <3> HIDE DEF moved, outcome
    <3>6. QED
      BY <1>1, <3>1, <3>4, <3>5, TrainDueIs
  <2>3. QED
    BY <2>1, <2>2
<1>13. ASSUME moved PROVE outcome \in Outcomes /\ outcome.bar = k - 1 /\ k \notin old /\ k \in Int
  <2>3. k >= Window
    BY <1>13
  <2>1. k \in Int /\ k \notin Window .. n - h
    <3> HIDE DEF n, h
    <3>1. QED
      BY <1>1, <1>2
  <2>2. outcome \in Outcomes /\ outcome.bar = k - 1
    <3>1. k \in 1 .. Len(history') - h
      <4>1. Len(history') = n + 1
        BY <1>1 DEF accepted
      <4> HIDE DEF n, h
      <4>2. QED
        BY <1>1, <1>2, <2>3, <4>1
    <3>2. QED
      BY <1>4, <3>1, OutcomeIs
  <2>4. QED
    BY <1>7, <2>1, <2>2
<1> HIDE DEF n, p, k, moved, outcome, old, new
<1>14. /\ trained' \in Nat /\ trained' = Len(scores') /\ trained' = Cardinality(new)
       /\ scores' \in Seq(Outcomes)
       /\ {scores'[i].bar + 1 : i \in 1 .. Len(scores')} = new
       /\ \A i \in 1 .. Len(scores') : scores'[i] = OutcomeOf(history', scores'[i].bar + 1)
       /\ \A i, j \in 1 .. Len(scores') : i < j => scores'[i].bar < scores'[j].bar
       /\ hits' \in Seq(BOOLEAN) /\ Ringed(hits', nextHit', AccuracyWindow, Rights(scores'))
  <2>1. CASE ~moved
    <3>1. /\ new = old /\ hits' = hits /\ nextHit' = nextHit /\ trained' = trained
          /\ scores' = scores
      BY <1>6, <1>12, <2>1
    <3>2. QED
      BY <1>9, <1>11, <3>1
  <2>2. CASE moved
    <3>1. /\ new = old \cup {k} /\ outcome \in Outcomes /\ outcome.bar = k - 1 /\ k \notin old
          /\ k \in Int
      BY <1>6, <1>13, <2>2
    <3>2. trained' = trained + 1 /\ scores' = Append(scores, outcome)
      BY <1>12, <2>2
    <3>3. /\ scores' \in Seq(Outcomes) /\ Len(scores) \in Nat /\ Len(scores') = Len(scores) + 1
          /\ scores'[Len(scores) + 1] = outcome
          /\ \A i \in 1 .. Len(scores) : scores'[i] = scores[i]
      <4>1. scores \in Seq(Outcomes) /\ outcome \in Outcomes
        BY <1>9, <3>1
      <4>2. QED
        BY <3>2, <4>1
    <3>4. Cardinality(new) = Cardinality(old) + 1
      BY <1>7, <3>1, FS_AddElement
    <3>5. outcome.bar + 1 = k
      BY <3>1
    <3>6. {scores'[i].bar + 1 : i \in 1 .. Len(scores')} = new
      <4> DEFINE all == {scores'[i].bar + 1 : i \in 1 .. Len(scores')}
      <4>1. ASSUME NEW y \in all PROVE y \in new
        <5>1. PICK i \in 1 .. Len(scores') : y = scores'[i].bar + 1
          OBVIOUS
        <5>2. CASE i = Len(scores) + 1
          BY <3>1, <3>3, <3>5, <5>1, <5>2
        <5>3. CASE i # Len(scores) + 1
          <6>1. i \in 1 .. Len(scores)
            BY <3>3, <5>3
          <6>2. QED
            BY <1>10, <3>1, <3>3, <5>1, <6>1
        <5>4. QED
          BY <5>2, <5>3
      <4>2. ASSUME NEW y \in new PROVE y \in all
        <5>1. CASE y = k
          <6>1. Len(scores) + 1 \in 1 .. Len(scores')
            BY <3>3
          <6>2. QED
            BY <3>3, <3>5, <5>1, <6>1
        <5>2. CASE y # k
          <6>1. y \in {scores[i].bar + 1 : i \in 1 .. Len(scores)}
            BY <1>9, <3>1, <5>2
          <6>2. PICK i \in 1 .. Len(scores) : y = scores[i].bar + 1
            BY <6>1
          <6>3. i \in 1 .. Len(scores') /\ scores'[i] = scores[i]
            BY <3>3
          <6>4. QED
            BY <6>2, <6>3
        <5>3. QED
          BY <5>1, <5>2
      <4> HIDE DEF all
      <4>3. all = new
        BY <4>1, <4>2
      <4>4. QED
        BY <4>3 DEF all
    <3>7. ASSUME NEW i \in 1 .. Len(scores')
          PROVE  scores'[i] = OutcomeOf(history', scores'[i].bar + 1)
      <4>1. CASE i = Len(scores) + 1
        BY <3>3, <3>5, <4>1 DEF outcome
      <4>2. CASE i # Len(scores) + 1
        <5>1. i \in 1 .. Len(scores)
          BY <3>3, <4>2
        <5>2. QED
          BY <1>11, <3>3, <5>1
      <4>3. QED
        BY <4>1, <4>2
    <3>8. ASSUME NEW i \in 1 .. Len(scores'), NEW j \in 1 .. Len(scores'), i < j
          PROVE  scores'[i].bar < scores'[j].bar
      <4>1. i \in 1 .. Len(scores)
        BY <3>3, <3>8
      <4>2. CASE j = Len(scores) + 1
        <5>1. scores[i].bar + 1 \in old /\ scores[i].bar \in Int
          BY <1>10, <4>1
        <5>2. scores[i].bar + 1 <= n - h
          BY <1>7, <5>1
        <5>3. n - h = k - 1 /\ n - h \in Int
          <6> HIDE DEF h
          <6>1. QED
            BY <1>1, <1>2 DEF k
        <5>4. scores[i].bar < k - 1
          BY <3>1, <5>1, <5>2, <5>3
        <5>5. QED
          BY <3>1, <3>3, <4>1, <4>2, <5>4
      <4>3. CASE j # Len(scores) + 1
        <5>1. j \in 1 .. Len(scores)
          BY <3>3, <4>3
        <5>2. QED
          BY <1>9, <3>3, <3>8, <4>1, <5>1
      <4>4. QED
        BY <4>2, <4>3
    <3>9. hits' \in Seq(BOOLEAN) /\ Ringed(hits', nextHit', AccuracyWindow, Rights(scores'))
      <4> DEFINE r == outcome.right
      <4>1. r \in BOOLEAN
        BY <3>1 DEF Outcomes
      <4>2. /\ Rights(scores) \in Seq(BOOLEAN) /\ Rights(scores') = Append(Rights(scores), r)
            /\ AccuracyWindow \in Nat \ {0}
        BY <1>9, <3>1, <3>2, RightsAre, RightsNext, StrategiesAssumption
      <4>3. Len(hits) = AccuracyWindow <=> ~(Len(hits) < AccuracyWindow)
        <5>1. Len(hits) = Some(Rights(scores), AccuracyWindow) /\ Len(Rights(scores)) \in Nat
          BY <1>9, <4>2 DEF Ringed
        <5>2. QED
          BY <4>2, <5>1 DEF Some
      <4>4. CASE Len(hits) < AccuracyWindow
        <5>1. hits' = Append(hits, r) /\ nextHit' = nextHit
          BY <1>12, <2>2, <4>3, <4>4
        <5> HIDE DEF r
        <5>2. /\ Append(hits, r) \in Seq(BOOLEAN)
              /\ Ringed(Append(hits, r), nextHit, AccuracyWindow,
                        Append(Rights(scores), r))
          BY <1>9, <4>1, <4>2, <4>4, RingGrows, Zenon
        <5>3. QED
          BY <4>2, <5>1, <5>2, Zenon
      <4>5. CASE ~(Len(hits) < AccuracyWindow)
        <5>1. /\ hits' = [hits EXCEPT ![nextHit + 1] = r]
              /\ nextHit' = (nextHit + 1) % AccuracyWindow
          BY <1>12, <2>2, <4>3, <4>5
        <5> HIDE DEF r
        <5>2. /\ [hits EXCEPT ![nextHit + 1] = r] \in Seq(BOOLEAN)
              /\ Ringed([hits EXCEPT ![nextHit + 1] = r], (nextHit + 1) % AccuracyWindow, AccuracyWindow,
                        Append(Rights(scores), r))
          BY <1>9, <4>1, <4>2, <4>5, RingTurns, Zenon
        <5>3. QED
          BY <4>2, <5>1, <5>2, Zenon
      <4>6. QED
        BY <4>4, <4>5
    <3>10. QED
      BY <1>9, <3>2, <3>3, <3>4, <3>6, <3>7, <3>8, <3>9
  <2>3. QED
    BY <2>1, <2>2
<1>15. QED
  <2>1. Known(history, accepted)' = new
    BY <1>1, <1>3 DEF Known, TooSmall, Window, new
  <2>2. ASSUME NEW i \in 1 .. Len(scores')
        PROVE  (scores[i] = OutcomeOf(history, scores[i].bar + 1))'
    <3>1. scores'[i] = OutcomeOf(history', scores'[i].bar + 1)
      BY <1>14
    <3>2. QED
      BY <1>3, <3>1 DEF OutcomeOf, Outcome, SampleOf, Window
  <2>3. QED
    BY <1>14, <2>1, <2>2 DEF ScoredInv

LEMMA LearnStep ==
  ASSUME BarsInv, WindowInv, LearnInv,
         NEW event \in MarketEvents, NEW probability \in Told, Accept(event, probability)
  PROVE  LearnInv'
<1>1. config' = config
  BY DEF Accept
<1>2. CASE config.kind = "logistic"
  <2>1. WaitingInv /\ ScoredInv
    BY <1>2 DEF LearnInv
  <2>2. WaitingInv' /\ ScoredInv'
    BY <1>2, <2>1, WaitingStep, ScoredStep
  <2>3. QED
    BY <1>1, <1>2, <2>2 DEF LearnInv
<1>3. CASE config.kind # "logistic"
  <2>1. UNCHANGED learnVars
    BY <1>3 DEF Accept, Crossover, Reversion, Logistic
  <2>2. QED
    BY <1>1, <1>3, <2>1 DEF LearnInv, learnVars
<1>4. QED
  BY <1>2, <1>3

-----------------------------------------------------------------------------
(* What a bar says, and the side the bars have put a strategy on.          *)

LEMMA MaxIs ==
  ASSUME NEW T \in SUBSET Int, NEW m \in T, \A x \in T : m >= x
  PROVE  Max(T) = m
<1>1. \A x \in T : (\A y \in T : x >= y) => x = m
  BY DEF Max
<1>2. \A y \in T : m >= y
  OBVIOUS
<1>3. Max(T) \in T /\ \A y \in T : Max(T) >= y
  BY <1>2, Zenon DEF Max
<1>4. QED
  BY <1>1, <1>3

LEMMA MaxIn ==
  ASSUME NEW n \in Nat, NEW T \in SUBSET (1 .. n), T # {}
  PROVE  Max(T) \in T
<1> DEFINE D == {d \in Nat : n - d \in T}
<1>1. D # {}
  <2>1. PICK x \in T : TRUE
    OBVIOUS
  <2>2. n - x \in Nat /\ n - (n - x) = x
    OBVIOUS
  <2>3. QED
    BY <2>1, <2>2
<1>2. PICK d \in D : \A e \in D : d <= e
  BY <1>1, Smallest
<1>3. d \in Nat /\ n - d \in T
  OBVIOUS
<1>4. ASSUME NEW x \in T PROVE n - d >= x
  <2>1. n - x \in Nat /\ n - (n - x) = x
    OBVIOUS
  <2>2. d <= n - x
    BY <1>2, <2>1
  <2>3. QED
    BY <1>3, <2>2
<1>5. T \subseteq Int
  OBVIOUS
<1>6. Max(T) = n - d
  BY <1>3, <1>4, <1>5, MaxIs
<1>7. QED
  BY <1>3, <1>6

(* What the bars up to the n-th say is not changed by later ones.          *)
LEMMA SaysStays ==
  ASSUME NEW bars \in Seq(Bars), NEW bar \in Bars, NEW n \in 1 .. Len(bars)
  PROVE  Says(Append(bars, bar), n) = Says(bars, n)
<1> DEFINE new == Append(bars, bar)
<1>1. /\ new \in Seq(Bars) /\ Len(bars) \in Nat /\ Len(new) = Len(bars) + 1
      /\ \A i \in 1 .. Len(bars) : new[i] = bars[i]
  OBVIOUS
<1> HIDE DEF new
<1>2. SubSeq(new, 1, n) = SubSeq(bars, 1, n)
  <2> DEFINE a == SubSeq(new, 1, n)
             b == SubSeq(bars, 1, n)
  <2>1. 1 \in 1 .. Len(new) + 1 /\ n \in 1 - 1 .. Len(new) /\ n \in 1 - 1 .. Len(bars)
        /\ 1 \in 1 .. Len(bars) + 1
    BY <1>1
  <2>2. a \in Seq(Bars) /\ Len(a) = n /\ \A i \in 1 .. n : a[i] = new[i]
    BY <1>1, <2>1
  <2>3. b \in Seq(Bars) /\ Len(b) = n /\ \A i \in 1 .. n : b[i] = bars[i]
    BY <1>1, <2>1
  <2> HIDE DEF a, b
  <2>4. \A i \in 1 .. n : a[i] = b[i]
    BY <1>1, <2>2, <2>3
  <2>5. a = b
    BY <2>2, <2>3, <2>4, SeqEqual
  <2>6. QED
    BY <2>5 DEF a, b
<1>3. new[n] = bars[n]
  BY <1>1
<1>4. Says(new, n) = Says(bars, n)
  BY <1>2, <1>3 DEF Says
<1>5. QED
  BY <1>4 DEF new

LEMMA DecidedStays ==
  ASSUME BarsInv, NEW bars \in Seq(Bars), NEW bar \in Bars, NEW n \in 1 .. Len(bars)
  PROVE  Decided(Append(bars, bar), n) <=> Decided(bars, n)
<1>1. n \in Nat /\ n <= Len(bars)
  OBVIOUS
<1>2. config.kind = "logistic" => Known(Append(bars, bar), n) = Known(bars, n)
  BY <1>1, KnownStays
<1>3. QED
  BY <1>2 DEF Decided

(* The side moves with a bar that decides, or stays.                       *)
LEMMA SideNext ==
  ASSUME BarsInv, NEW bars \in Seq(Bars), NEW bar \in Bars
  PROVE  LET new == Append(bars, bar)
             n == Len(bars) + 1
         IN  SideOf(new) =
                IF Decided(new, n) /\ Says(new, n) \in Holds(config.kind)
                THEN IF Says(new, n) = "Inside" THEN "None" ELSE Says(new, n)
                ELSE SideOf(bars)
<1> DEFINE new == Append(bars, bar)
           n == Len(bars) + 1
           Moves(b, i) == Decided(b, i) /\ Says(b, i) \in Holds(config.kind)
           old == {i \in DOMAIN bars : Moves(bars, i)}
           said == {i \in DOMAIN new : Moves(new, i)}
<1>1. Len(bars) \in Nat /\ DOMAIN bars = 1 .. Len(bars) /\ DOMAIN new = 1 .. n
  OBVIOUS
<1>2. /\ SideOf(new) = IF said = {} \/ Says(new, Max(said)) = "Inside" THEN "None"
                       ELSE Says(new, Max(said))
      /\ SideOf(bars) = IF old = {} \/ Says(bars, Max(old)) = "Inside" THEN "None"
                        ELSE Says(bars, Max(old))
  BY Zenon DEF SideOf
<1>3. \A i \in 1 .. Len(bars) : Says(new, i) = Says(bars, i) /\ (Moves(new, i) <=> Moves(bars, i))
  BY SaysStays, DecidedStays
<1> HIDE DEF new, Moves
<1>4. old = {i \in 1 .. Len(bars) : Moves(bars, i)} /\ said = {i \in 1 .. n : Moves(new, i)}
  BY <1>1
<1> HIDE DEF old, said
<1>5. CASE Moves(new, n)
  <2>1. n \in said /\ said \subseteq Int /\ \A i \in said : n >= i
    BY <1>1, <1>4, <1>5
  <2>2. Max(said) = n
    BY <2>1, MaxIs
  <2> HIDE DEF n
  <2>3. QED
    BY <1>2, <1>5, <2>1, <2>2 DEF Moves, new, n
<1>6. CASE ~Moves(new, n)
  <2>1. said = old
    <3>1. \A i : i \in 1 .. n <=> i \in 1 .. Len(bars) \/ i = n
      BY <1>1
    <3> HIDE DEF n
    <3>2. \A i : i \in said <=> i \in old
      BY <1>3, <1>4, <1>6, <3>1
    <3>3. QED
      BY <3>2
  <2>2. old # {} => Says(new, Max(old)) = Says(bars, Max(old))
    <3>1. old # {} => Max(old) \in 1 .. Len(bars)
      <4>1. old \subseteq 1 .. Len(bars)
        BY <1>4
      <4>2. QED
        BY <1>1, <4>1, MaxIn
    <3>2. QED
      BY <1>3, <3>1
  <2> HIDE DEF n
  <2>3. SideOf(new) = SideOf(bars)
    BY <1>2, <2>1, <2>2
  <2>4. QED
    BY <1>6, <2>3 DEF Moves, new, n
<1>7. QED
  BY <1>5, <1>6

(* Sums over a ring are those over what it holds, in whatever order.       *)
LEMMA SumOverRing ==
  ASSUME NEW ring \in Seq(Int), NEW given \in Seq(Int), NEW size \in Nat \ {0}, NEW at,
         Ringed(ring, at, size, given), NEW g \in [Int -> Int]
  PROVE  SumOf([i \in DOMAIN ring |-> g[ring[i]]])
             = SumOf([i \in DOMAIN Newest(given, size) |-> g[Newest(given, size)[i]]])
<1> DEFINE newest == Newest(given, size)
           n == Len(ring)
           s == [i \in DOMAIN ring |-> g[ring[i]]]
           t == [i \in DOMAIN newest |-> g[newest[i]]]
<1>1. /\ newest \in Seq(Int) /\ Len(newest) = Some(given, size)
      /\ \A i \in 1 .. Some(given, size) : newest[i] = given[Len(given) - Some(given, size) + i]
  BY NewestIs
<1>2. /\ n = Some(given, size) /\ at \in 0 .. size - 1 /\ (n < size => at = 0)
      /\ \A i \in 1 .. n : ring[Slot(at, i, n)] = given[Len(given) - n + i]
  BY DEF Ringed
<1> HIDE DEF newest
<1>3. n \in Nat /\ n <= size /\ DOMAIN ring = 1 .. n /\ DOMAIN newest = 1 .. n
  <2>1. n \in Nat /\ Len(given) \in Nat /\ DOMAIN ring = 1 .. n
    BY LenProperties
  <2>2. DOMAIN newest = 1 .. n
    BY <1>1, <1>2
  <2> HIDE DEF n
  <2>3. n <= size
    BY <1>2, <2>1 DEF Some
  <2>4. QED
    BY <2>1, <2>2, <2>3
<1>4. /\ \A i \in 1 .. n : ring[i] \in Int /\ newest[i] \in Int
      /\ \A i \in 1 .. n : newest[i] = ring[Slot(at, i, n)]
  <2>1. \A i \in 1 .. n : ring[i] \in Int
    OBVIOUS
  <2>2. \A i \in 1 .. n : newest[i] \in Int
    BY <1>1, <1>3
  <2> HIDE DEF n
  <2>3. \A i \in 1 .. n : newest[i] = ring[Slot(at, i, n)]
    BY <1>1, <1>2
  <2>4. QED
    BY <2>1, <2>2, <2>3
<1> HIDE DEF n
<1>5. s = [i \in 1 .. n |-> g[ring[i]]] /\ t = [i \in 1 .. n |-> g[newest[i]]]
  BY <1>3
<1> HIDE DEF s, t
<1>6. /\ s \in Seq(Int) /\ Len(s) = n /\ \A i \in 1 .. n : s[i] = g[ring[i]]
      /\ t \in Seq(Int) /\ Len(t) = n /\ \A i \in 1 .. n : t[i] = g[newest[i]]
  <2>1. n \in Nat /\ \A i \in 1 .. n : g[ring[i]] \in Int /\ g[newest[i]] \in Int
    BY <1>3, <1>4
  <2>2. s \in Seq(Int) /\ Len(s) = n /\ \A i \in 1 .. n : s[i] = g[ring[i]]
    BY <1>5, <2>1
  <2>3. t \in Seq(Int) /\ Len(t) = n /\ \A i \in 1 .. n : t[i] = g[newest[i]]
    BY <1>5, <2>1
  <2>4. QED
    BY <2>2, <2>3
<1>7. at \in 0 .. n
  BY <1>2, <1>3
<1>8. ASSUME NEW i \in 1 .. n PROVE s[Slot(at, i, n)] = t[i]
  <2>1. Slot(at, i, n) \in 1 .. n
    BY <1>3, <1>7 DEF Slot
  <2>2. QED
    BY <1>4, <1>6, <2>1
<1>9. SumOf(s) = SumOf(t)
  BY <1>6, <1>7, <1>8, SumTurned
<1>10. QED
  BY <1>9 DEF s, t, newest

LEMMA ZoneTurned ==
  ASSUME NEW ring \in Seq(Int), NEW given \in Seq(Int), NEW size \in Nat \ {0}, NEW at,
         Ringed(ring, at, size, given), NEW x \in Int
  PROVE  Zone(ring, x) = Zone(Newest(given, size), x)
<1> DEFINE newest == Newest(given, size)
           off == [v \in Int |-> v - x]
           sq == [v \in Int |-> (v - x) * (v - x)]
<1>1. /\ newest \in Seq(Int) /\ Len(newest) = Some(given, size) /\ Len(ring) = Some(given, size)
  BY NewestIs DEF Ringed
<1>2. off \in [Int -> Int] /\ sq \in [Int -> Int]
  OBVIOUS
<1>3. /\ \A i \in DOMAIN ring : ring[i] \in Int
      /\ \A i \in DOMAIN newest : newest[i] \in Int
  BY <1>1
<1> HIDE DEF newest
<1>4. /\ [i \in DOMAIN ring |-> off[ring[i]]] = [i \in DOMAIN ring |-> ring[i] - x]
      /\ [i \in DOMAIN newest |-> off[newest[i]]] = [i \in DOMAIN newest |-> newest[i] - x]
      /\ [i \in DOMAIN ring |-> sq[ring[i]]]
            = [i \in DOMAIN ring |-> (ring[i] - x) * (ring[i] - x)]
      /\ [i \in DOMAIN newest |-> sq[newest[i]]]
            = [i \in DOMAIN newest |-> (newest[i] - x) * (newest[i] - x)]
  BY <1>3
<1> HIDE DEF off, sq
<1>5. /\ SumOf([i \in DOMAIN ring |-> off[ring[i]]]) = SumOf([i \in DOMAIN newest |-> off[newest[i]]])
      /\ SumOf([i \in DOMAIN ring |-> sq[ring[i]]]) = SumOf([i \in DOMAIN newest |-> sq[newest[i]]])
  BY <1>2, SumOverRing DEF newest
<1>6. Offset(ring, x) = Offset(newest, x)
  BY <1>4, <1>5 DEF Offset
<1>7. Spread(ring, x) = Spread(newest, x)
  BY <1>1, <1>4, <1>5, <1>6 DEF Spread
<1>8. Zone(ring, x) = Zone(newest, x)
  BY <1>6, <1>7 DEF Zone
<1>9. QED
  BY <1>8 DEF newest

LatchInv ==
    /\ latch = SideOf(history) /\ latch \in Actions
    /\ report \in [verdict : {"None", "Ignored", "WarmingUp", "Evaluated"}, action : Actions]

LEMMA SaysIs ==
  ASSUME BarsInv, NEW bars, NEW n
  PROVE  /\ config.kind = "crossover" => Says(bars, n) \in {"None", "Buy", "Sell"}
         /\ config.kind # "crossover" => Says(bars, n) \in {"Buy", "Sell", "Inside", "Between"}
<1>1. config.kind \in {"crossover", "reversion", "logistic"}
  BY ConfigIs DEF BarsInv
<1>2. CASE config.kind = "crossover"
  <2>1. \A a, b : Side(a, b) \in {"None", "Buy", "Sell"}
    BY DEF Side
  <2>2. QED
    BY <1>2, <2>1 DEF Says
<1>3. CASE config.kind = "reversion"
  <2>1. \A a, b : Zone(a, b) \in {"Buy", "Sell", "Inside", "Between"}
    BY DEF Zone
  <2>2. QED
    BY <1>3, <2>1 DEF Says
<1>4. CASE config.kind = "logistic"
  <2>1. \A a : Leaning(a) \in {"Buy", "Sell", "Inside", "Between"}
    BY DEF Leaning
  <2>2. QED
    BY <1>4, <2>1 DEF Says
<1>5. QED
  BY <1>1, <1>2, <1>3, <1>4

(* The newest bar is judged by the state as its history would have it.     *)
LEMMA BarJudged ==
  ASSUME BarsInv, WindowInv, LearnInv,
         NEW event \in MarketEvents, NEW probability \in Told, Accept(event, probability)
  PROVE  LET n == Len(history')
             side == Says(history', n)
         IN  IF ~Decided(history', n) THEN WarmUp
             ELSE IF config.kind = "crossover" THEN Cross(side) ELSE Banded(side)
<1> DEFINE n == Len(history')
           x == event.price
           side == Says(history', n)
           window == Newest(Given', Window)
<1>1. /\ x \in Prices /\ x \in Int /\ BarsInv' /\ config' = config /\ Window' = Window
      /\ Given \in Seq(Prices) /\ Given \in Seq(Int) /\ Given' = Append(Given, x)
      /\ Len(Given) = Len(history)
  BY BarTaken
<1>2. WindowInv' /\ LearnInv'
  BY WindowStep, LearnStep
<1>3. Window \in Nat \ {0} /\ config.kind \in {"crossover", "reversion", "logistic"}
  BY ConfigIs DEF BarsInv
<1>4. history' \in Seq(Bars) /\ n \in Nat /\ Len(Given') = n
      /\ Given' \in Seq(Prices) /\ Given' \in Seq(Int)
  <2>1. history' \in Seq(Bars)
    BY <1>1 DEF BarsInv
  <2>2. QED
    BY <2>1, ClosesAre DEF Given
<1>5. n = Len(history) + 1 /\ n # 0
  <2>1. Len(Append(Given, x)) = Len(Given) + 1 /\ Len(Given) \in Nat
    BY <1>1
  <2>2. QED
    BY <1>1, <1>4, <2>1
<1>6. closes' \in Seq(Prices) /\ Ringed(closes', next', Window, Given')
  BY <1>1, <1>2 DEF WindowInv
<1>7. Len(closes') < Window <=> n < Window
  <2>1. Len(closes') = Some(Given', Window)
    BY <1>6 DEF Ringed
  <2> HIDE DEF n
  <2>2. QED
    BY <1>3, <1>4, <2>1 DEF Some
<1>8. Closes(Newest(SubSeq(history', 1, n), Window)) = window
  <2>1. SubSeq(history', 1, n) = history'
    <3> DEFINE s == SubSeq(history', 1, n)
    <3>1. 1 \in 1 .. Len(history') + 1 /\ n \in 1 - 1 .. Len(history')
      BY <1>4
    <3>2. s \in Seq(Bars) /\ Len(s) = n /\ \A i \in 1 .. n : s[i] = history'[i]
      BY <1>4, <3>1
    <3> HIDE DEF s
    <3>3. s = history'
      BY <1>4, <3>2, SeqEqual
    <3>4. QED
      BY <3>3 DEF s
  <2>2. Closes(Newest(history', Window)) = Newest(Closes(history'), Window)
    BY <1>3, <1>4, ClosesOfNewest
  <2>3. QED
    BY <2>1, <2>2 DEF Given
<1>9. Crossover(x) \/ Reversion(x) \/ Logistic(x, probability)
  BY DEF Accept
<1> HIDE DEF n, window
<1>10. CASE config.kind = "crossover"
  <2>1. /\ longSum' = SumOf(window) /\ shortSum' = SumOf(Newest(Given', config.short))
        /\ config.short \in Nat \ {0} /\ config.short < Window
    <3>1. config.short \in Nat \ {0} /\ config.short < Window
      BY <1>10, ConfigIs DEF BarsInv
    <3>2. QED
      BY <1>1, <1>2, <1>10, <3>1 DEF WindowInv, window
  <2>2. Newest(window, config.short) = Newest(Given', config.short)
    BY <1>3, <1>4, <2>1, NewestOfNewest DEF window
  <2>3. side = Side(SumOf(Newest(window, config.short)), SumOf(window))
    BY <1>8, <1>10 DEF Says
  <2>4. Decided(history', n) <=> ~(n < Window)
    BY <1>3, <1>4, <1>10 DEF Decided
  <2>5. IF Len(closes') < Window THEN WarmUp ELSE Cross(Side(shortSum', longSum'))
    BY <1>9, <1>10 DEF Crossover, Reversion, Logistic
  <2> HIDE DEF side
  <2>6. QED
    BY <1>7, <1>10, <2>1, <2>2, <2>3, <2>4, <2>5 DEF side, n
<1>11. CASE config.kind = "reversion"
  <2>1. Last(window) = x
    <3>1. /\ window \in Seq(Int) /\ Len(window) = Some(Given', Window)
          /\ Some(Given', Window) \in 0 .. Len(Given')
          /\ \A i \in 1 .. Some(Given', Window) :
                window[i] = Given'[Len(Given') - Some(Given', Window) + i]
      BY <1>3, <1>4, NewestIs DEF window
    <3>2. Some(Given', Window) # 0
      BY <1>3, <1>4, <1>5 DEF Some
    <3>3. Len(window) \in 1 .. n /\ window[Len(window)] = Given'[n]
      <4> DEFINE k == Some(Given', Window)
      <4>1. k \in 1 .. k /\ n - k + k = n /\ k \in 1 .. n
        <5>1. k \in 0 .. n /\ k # 0 /\ n \in Nat
          BY <1>4, <3>1, <3>2
        <5> HIDE DEF k
        <5>2. QED
          BY <5>1
      <4>2. window[k] = Given'[n - k + k]
        BY <1>4, <3>1, <4>1
      <4>3. QED
        BY <3>1, <4>1, <4>2
    <3>4. Given'[n] = x
      BY <1>1, <1>5
    <3>5. QED
      BY <3>3, <3>4 DEF Last
  <2>2. side = Zone(window, x)
    BY <1>8, <1>11, <2>1 DEF Says
  <2>3. Zone(closes', x) = Zone(window, x)
    <3>1. closes' \in Seq(Int)
      BY <1>6, InSeq, StrategiesAssumption
    <3>2. QED
      BY <1>1, <1>3, <1>4, <1>6, <3>1, ZoneTurned DEF window
  <2>4. Decided(history', n) <=> ~(n < Window)
    BY <1>3, <1>4, <1>11 DEF Decided
  <2>5. IF Len(closes') < Window THEN WarmUp ELSE Banded(Zone(closes', x))
    BY <1>9, <1>11 DEF Crossover, Reversion, Logistic
  <2> HIDE DEF side
  <2>6. QED
    BY <1>7, <1>11, <2>2, <2>3, <2>4, <2>5 DEF side, n
<1>12. CASE config.kind = "logistic"
  <2>1. side = Leaning(probability)
    <3>1. history'[n].probability = probability
      <4> DEFINE bar == [close |-> x, time |-> event.time, probability |-> probability]
      <4>1. history' = Append(history, bar) /\ bar.probability = probability
        BY DEF Accept
      <4>2. history \in Seq(Bars)
        BY DEF BarsInv
      <4> HIDE DEF bar
      <4>3. history'[n] = bar
        BY <1>5, <4>1, <4>2
      <4>4. QED
        BY <4>1, <4>3
    <3>2. QED
      BY <1>12, <3>1 DEF Says
  <2>2. trained' = Cardinality(Known(history', n)) /\ trained' \in Nat
    <3>1. ScoredInv'
      BY <1>1, <1>2, <1>12 DEF LearnInv
    <3>2. trained' = Cardinality(Known(history, accepted)') /\ trained' \in Nat
      BY <3>1 DEF ScoredInv
    <3>3. Known(history, accepted)' = Known(history', n)
      BY <1>1 DEF Known, TooSmall, Window, accepted, n
    <3>4. QED
      BY <3>2, <3>3
  <2>3. config.minTraining \in Int
    BY <1>12, ConfigIs DEF BarsInv
  <2>4. Decided(history', n) <=> ~(n < Window) /\ ~(trained' < config.minTraining)
    BY <1>3, <1>4, <1>12, <2>2, <2>3 DEF Decided
  <2>5. /\ Len(closes') < Window => WarmUp
        /\ ~(Len(closes') < Window) =>
              IF trained' < config.minTraining THEN WarmUp ELSE Banded(Leaning(probability))
    BY <1>9, <1>12 DEF Crossover, Reversion, Logistic
  <2> HIDE DEF side
  <2>6. QED
    BY <1>7, <1>12, <2>1, <2>4, <2>5 DEF side, n
<1>13. QED
  BY <1>3, <1>10, <1>11, <1>12

LEMMA SideAfter ==
  ASSUME BarsInv, LatchInv, NEW event \in MarketEvents, NEW probability \in Told,
         Accept(event, probability)
  PROVE  LET n == Len(history')
             side == Says(history', n)
         IN  SideOf(history') =
                IF Decided(history', n) /\ side \in Holds(config.kind)
                THEN IF side = "Inside" THEN "None" ELSE side ELSE latch
<1> DEFINE bar == [close |-> event.price, time |-> event.time, probability |-> probability]
<1>1. history' = Append(history, bar) /\ history \in Seq(Bars)
  BY DEF Accept, BarsInv
<1>2. bar \in Bars
  <2>1. event.price \in Prices /\ event.time \in Nat
    <3>1. IgnoreReason(event) = None
      BY DEF Accept
    <3>2. QED
      BY <3>1, NotIgnored DEF BarsInv
  <2>2. QED
    BY <2>1 DEF Told, Bars
<1> HIDE DEF bar
<1>3. Len(history') = Len(history) + 1
  BY <1>1, <1>2
<1>4. QED
  BY <1>1, <1>2, <1>3, SideNext DEF LatchInv

LEMMA LatchStep ==
  ASSUME BarsInv, WindowInv, LearnInv, LatchInv,
         NEW event \in MarketEvents, NEW probability \in Told, Accept(event, probability)
  PROVE  LatchInv' /\ report'.action = SignalDue
<1> DEFINE n == Len(history')
           side == Says(history', n)
           decided == Decided(history', n)
<1>1. IF ~decided THEN WarmUp
      ELSE IF config.kind = "crossover" THEN Cross(side) ELSE Banded(side)
  BY BarJudged
<1>2. /\ config.kind = "crossover" => side \in {"None", "Buy", "Sell"}
      /\ config.kind # "crossover" => side \in {"Buy", "Sell", "Inside", "Between"}
  BY SaysIs
<1>3. SideOf(history') = IF decided /\ side \in Holds(config.kind)
                         THEN IF side = "Inside" THEN "None" ELSE side ELSE latch
  BY SideAfter
<1>4. latch = SideOf(history) /\ latch \in Actions
  BY DEF LatchInv
<1>5. SignalDue = IF /\ decided /\ side \in {"Buy", "Sell"} /\ side # latch
                     /\ config.kind = "crossover" => latch # "None"
                  THEN side ELSE "None"
  BY <1>4 DEF SignalDue
<1> HIDE DEF n, side, decided
<1>6. /\ latch' = SideOf(history') /\ latch' \in Actions
      /\ \E verdict \in {"WarmingUp", "Evaluated"} :
            report' = [verdict |-> verdict, action |-> SignalDue]
      /\ SignalDue \in Actions
  <2>1. CASE ~decided
    <3>1. latch' = latch /\ report' = [verdict |-> "WarmingUp", action |-> "None"]
      BY <1>1, <2>1 DEF WarmUp, Tell
    <3>2. SignalDue = "None"
      BY <1>5, <2>1
    <3>3. QED
      BY <1>3, <1>4, <2>1, <3>1, <3>2 DEF Actions
  <2>2. CASE decided /\ config.kind = "crossover"
    <3>1. Cross(side)
      BY <1>1, <2>2
    <3>2. side \in Holds(config.kind) <=> side \in {"Buy", "Sell"}
      BY <2>2 DEF Holds
    <3>3. CASE side = "None"
      BY <1>3, <1>4, <1>5, <2>2, <3>1, <3>2, <3>3 DEF Cross, Decide, Tell, Actions
    <3>4. CASE side # "None"
      <4>1. /\ latch' = side
            /\ report' = [verdict |-> "Evaluated",
                          action |-> IF latch \in {"None", side} THEN "None" ELSE side]
        BY <3>1, <3>4 DEF Cross, Decide, Tell
      <4>2. side \in {"Buy", "Sell"}
        BY <1>2, <2>2, <3>4
      <4>3. SignalDue = IF latch \in {"None", side} THEN "None" ELSE side
        BY <1>5, <2>2, <4>2
      <4>4. QED
        BY <1>3, <2>2, <3>2, <4>1, <4>2, <4>3 DEF Actions
    <3>5. QED
      BY <3>3, <3>4
  <2>3. CASE decided /\ config.kind # "crossover"
    <3>1. Banded(side) /\ side \in {"Buy", "Sell", "Inside", "Between"}
      BY <1>1, <1>2, <2>3
    <3>2. side \in Holds(config.kind) <=> side \in {"Buy", "Sell", "Inside"}
      BY <2>3 DEF Holds
    <3>3. SignalDue = IF side \in {"Buy", "Sell"} /\ side # latch THEN side ELSE "None"
      BY <1>5, <2>3
    <3>4. CASE side \in {"Buy", "Sell"} /\ side # latch
      <4>1. latch' = side /\ report' = [verdict |-> "Evaluated", action |-> side]
        BY <3>1, <3>4 DEF Banded, Decide, Tell
      <4>2. QED
        BY <1>3, <2>3, <3>2, <3>3, <3>4, <4>1 DEF Actions
    <3>5. CASE ~(side \in {"Buy", "Sell"} /\ side # latch)
      <4>1. /\ latch' = IF side = "Inside" THEN "None" ELSE latch
            /\ report' = [verdict |-> "Evaluated", action |-> "None"]
        BY <3>1, <3>5 DEF Banded, Decide, Tell
      <4>2. QED
        BY <1>3, <1>4, <2>3, <3>1, <3>2, <3>3, <3>5, <4>1 DEF Actions
    <3>6. QED
      BY <3>4, <3>5
  <2>4. QED
    BY <2>1, <2>2, <2>3
<1>7. SideOf(history)' = SideOf(history')
  <2>1. config' = config
    BY DEF Accept
  <2>2. ASSUME NEW i PROVE Says(history, i)' = Says(history', i)
    BY <2>1 DEF Says, Side, Zone, Leaning, Window
  <2>3. ASSUME NEW i PROVE Decided(history, i)' <=> Decided(history', i)
    BY <2>1 DEF Decided, Known, TooSmall, Window
  <2>4. QED
    BY <2>1, <2>2, <2>3 DEF SideOf
<1>8. QED
  BY <1>6, <1>7 DEF LatchInv

-----------------------------------------------------------------------------
(* A strategy before its first bar, at the beginning or after on_start().  *)
Blank ==
    /\ config \in Configs /\ Valid(config)
    /\ closes = <<>> /\ next = 0 /\ shortSum = 0 /\ longSum = 0
    /\ lastTime = 0 /\ latch = "None"
    /\ pending = <<>> /\ observed = 0 /\ trained = 0 /\ hits = <<>> /\ nextHit = 0
    /\ history = <<>> /\ scores = <<>>

BlankInv == BarsInv /\ WindowInv /\ LearnInv /\ latch = SideOf(history)

LEMMA NoneOfNone ==
  ASSUME NEW S, NEW n \in Nat \ {0}
  PROVE  Newest(<<>>, n) = <<>> /\ <<>> \in Seq(S) /\ Ringed(<<>>, 0, n, <<>>)
<1>1. <<>> \in Seq(S) /\ Len(<<>>) = 0
  OBVIOUS
<1>2. Some(<<>>, n) = 0
  BY <1>1 DEF Some
<1>3. Newest(<<>>, n) = <<>>
  <2>1. Newest(<<>>, n) \in Seq(S) /\ Len(Newest(<<>>, n)) = 0
    BY <1>1, <1>2, NewestIs
  <2>2. QED
    BY <2>1
<1>4. Ringed(<<>>, 0, n, <<>>)
  BY <1>1, <1>2 DEF Ringed
<1>5. QED
  BY <1>1, <1>3, <1>4

LEMMA BlankHolds == Blank => BlankInv
<1> SUFFICES ASSUME Blank PROVE BlankInv
  OBVIOUS
<1>1. /\ config \in Configs /\ Valid(config) /\ history = <<>> /\ closes = <<>> /\ next = 0
      /\ shortSum = 0 /\ longSum = 0 /\ lastTime = 0 /\ latch = "None"
      /\ pending = <<>> /\ observed = 0 /\ trained = 0 /\ hits = <<>> /\ nextHit = 0 /\ scores = <<>>
  BY DEF Blank
<1>2. history \in Seq(Bars) /\ Len(history) = 0
  BY <1>1
<1>3. BarsInv
  BY <1>1, <1>2 DEF BarsInv
<1>4. Given = <<>>
  <2>1. Given \in Seq(Prices) /\ Len(Given) = 0
    BY <1>2, ClosesAre DEF Given
  <2>2. QED
    BY <2>1
<1>5. /\ Window \in Nat \ {0}
      /\ config.kind = "crossover" => config.short \in Nat \ {0}
      /\ config.kind = "logistic" => config.horizon \in Nat \ {0}
  BY <1>1, ConfigIs
<1>6. WindowInv
  <2>1. closes \in Seq(Prices) /\ Ringed(closes, next, Window, Given)
    BY <1>1, <1>4, <1>5, NoneOfNone
  <2>2. SumOf(Newest(Given, Window)) = 0
    BY <1>4, <1>5, NoneOfNone, SumEmpty
  <2>3. config.kind = "crossover" => SumOf(Newest(Given, config.short)) = 0
    BY <1>4, <1>5, NoneOfNone, SumEmpty
  <2>4. QED
    BY <1>1, <2>1, <2>2, <2>3 DEF WindowInv
<1>7. LearnInv
  <2>1. CASE config.kind = "logistic"
    <3>1. accepted = 0
      BY <1>2 DEF accepted
    <3>2. Measured(0) = 0 /\ Waits(0) = 0
      BY <1>5, <2>1 DEF Measured, Waits
    <3>3. pending \in Seq(Samples) /\ Len(pending) = 0
      BY <1>1
    <3>4. WaitingInv
      BY <1>1, <3>1, <3>2, <3>3 DEF WaitingInv
    <3>5. Known(history, accepted) = {}
      <4> DEFINE w == Window
                 h == config.horizon
      <4>1. w \in Nat \ {0} /\ h \in Nat \ {0}
        BY <1>5, <2>1
      <4>2. Known(history, accepted) \subseteq w .. 0 - h
        BY <3>1 DEF Known
      <4> HIDE DEF w, h
      <4>3. w .. 0 - h = {}
        BY <4>1
      <4>4. QED
        BY <4>2, <4>3
    <3>6. Cardinality({}) = 0
      BY FS_EmptySet
    <3>7. scores \in Seq(Outcomes) /\ Len(scores) = 0 /\ hits \in Seq(BOOLEAN)
      BY <1>1
    <3>8. Ringed(hits, nextHit, AccuracyWindow, Rights(scores))
      <4>1. Rights(scores) \in Seq(BOOLEAN) /\ Len(Rights(scores)) = 0
        BY <3>7, RightsAre
      <4>2. Rights(scores) = <<>>
        BY <4>1
      <4>3. QED
        BY <1>1, <4>2, NoneOfNone, StrategiesAssumption
    <3>9. ScoredInv
      <4>1. {scores[i].bar + 1 : i \in 1 .. Len(scores)} = {}
        BY <3>7
      <4>2. QED
        BY <1>1, <3>5, <3>6, <3>7, <3>8, <4>1 DEF ScoredInv
    <3>10. QED
      BY <2>1, <3>4, <3>9 DEF LearnInv
  <2>2. CASE config.kind # "logistic"
    BY <1>1, <2>2 DEF LearnInv
  <2>3. QED
    BY <2>1, <2>2
<1>8. latch = SideOf(history)
  <2>1. {n \in DOMAIN history : Decided(history, n) /\ Says(history, n) \in Holds(config.kind)} = {}
    BY <1>1
  <2>2. SideOf(history) = "None"
    BY <2>1 DEF SideOf
  <2>3. QED
    BY <1>1, <2>2
<1>9. QED
  BY <1>3, <1>6, <1>7, <1>8 DEF BlankInv

(* The inductive invariant.                                                *)
Inv == BarsInv /\ WindowInv /\ LearnInv /\ LatchInv

LEMMA InvInit == Init => Inv
<1>1. Init => Blank
  BY DEF Init, Blank
<1>2. Init => latch \in Actions /\ report \in [verdict : {"None", "Ignored", "WarmingUp", "Evaluated"},
                                               action : Actions]
  BY DEF Init, Actions
<1>3. QED
  BY <1>1, <1>2, BlankHolds DEF BlankInv, Inv, LatchInv

LEMMA InvStays ==
  ASSUME Inv, UNCHANGED <<config, stateVars>>,
         report' \in [verdict : {"None", "Ignored", "WarmingUp", "Evaluated"}, action : Actions]
  PROVE  Inv'
<1>1. /\ config' = config /\ closes' = closes /\ next' = next /\ shortSum' = shortSum
      /\ longSum' = longSum /\ lastTime' = lastTime /\ latch' = latch /\ pending' = pending
      /\ observed' = observed /\ trained' = trained /\ hits' = hits /\ nextHit' = nextHit
      /\ history' = history /\ scores' = scores
  BY DEF stateVars, learnVars
<1>2. BarsInv'
  BY <1>1 DEF Inv, BarsInv, Valid, MaxClose
<1>3. Window' = Window /\ Given' = Given /\ accepted' = accepted
  BY <1>1 DEF Window, Given, accepted
<1>4. WindowInv'
  BY <1>1, <1>3 DEF Inv, WindowInv
<1>5. Known(history, accepted)' = Known(history, accepted)
  BY <1>1, <1>3 DEF Known, TooSmall, Window, accepted
<1>6. LearnInv'
  <2>1. Measured(accepted)' = Measured(accepted) /\ Waits(accepted)' = Waits(accepted)
    BY <1>1, <1>3 DEF Measured, Waits, Window, accepted
  <2>2. CASE config.kind = "logistic"
    <3>1. WaitingInv /\ ScoredInv
      BY <2>2 DEF Inv, LearnInv
    <3>2. ASSUME NEW k \in 1 .. Len(pending')
          PROVE  (pending[k] = SampleOf(history, accepted - Len(pending) + k))'
      <4>1. pending[k] = SampleOf(history, accepted - Len(pending) + k)
        BY <1>1, <3>1 DEF WaitingInv
      <4>2. QED
        BY <1>1, <1>3, <4>1 DEF SampleOf, Window
    <3>3. WaitingInv'
      BY <1>1, <2>1, <3>1, <3>2 DEF WaitingInv
    <3>4. ASSUME NEW i \in 1 .. Len(scores')
          PROVE  (scores[i] = OutcomeOf(history, scores[i].bar + 1))'
      <4>1. scores[i] = OutcomeOf(history, scores[i].bar + 1)
        BY <1>1, <3>1 DEF ScoredInv
      <4>2. QED
        BY <1>1, <1>3, <4>1 DEF OutcomeOf, Outcome, SampleOf, Window
    <3>5. ScoredInv'
      BY <1>1, <1>5, <3>1, <3>4 DEF ScoredInv
    <3>6. QED
      BY <1>1, <2>2, <3>3, <3>5 DEF LearnInv
  <2>3. CASE config.kind # "logistic"
    BY <1>1, <2>3 DEF Inv, LearnInv
  <2>4. QED
    BY <2>2, <2>3
<1>7. LatchInv'
  <2>1. ASSUME NEW i PROVE Says(history, i)' = Says(history, i)
    BY <1>1 DEF Says, Side, Zone, Leaning, Window
  <2>2. ASSUME NEW i PROVE Decided(history, i)' <=> Decided(history, i)
    BY <1>1 DEF Decided, Known, TooSmall, Window
  <2>3. SideOf(history)' = SideOf(history)
    BY <1>1, <2>1, <2>2 DEF SideOf
  <2>4. QED
    BY <1>1, <2>3 DEF Inv, LatchInv
<1>8. QED
  BY <1>2, <1>4, <1>6, <1>7 DEF Inv

LEMMA InvStep == Inv /\ [Next]_vars => Inv'
<1> SUFFICES ASSUME Inv, [Next]_vars PROVE Inv'
  OBVIOUS
<1>1. CASE OnStart
  <2>1. Blank'
    <3>1. config' = config
      BY <1>1 DEF OnStart
    <3>2. Valid(config)'
      BY <3>1 DEF Inv, BarsInv, Valid, MaxClose
    <3>3. config' \in Configs
      BY <3>1 DEF Inv, BarsInv
    <3>4. QED
      BY <1>1, <3>2, <3>3 DEF OnStart, Blank
  <2>2. Blank' => BlankInv'
    BY BlankHolds, PTL
  <2>3. latch' \in Actions /\ report' = report
    BY <1>1 DEF OnStart, Actions
  <2>4. QED
    BY <2>1, <2>2, <2>3 DEF BlankInv, Inv, LatchInv
<1>2. ASSUME NEW event \in MarketEvents, Ignore(event) PROVE Inv'
  <2>1. /\ UNCHANGED <<config, stateVars>>
        /\ report' = [verdict |-> "Ignored", action |-> "None"]
    BY <1>2 DEF Ignore, Tell
  <2>2. QED
    BY <2>1, InvStays DEF Actions
<1>3. ASSUME NEW event \in MarketEvents, NEW probability \in Told, Accept(event, probability)
      PROVE  Inv'
  <2>1. BarsInv /\ WindowInv /\ LearnInv /\ LatchInv
    BY DEF Inv
  <2>2. BarsInv'
    BY <1>3, <2>1, BarTaken
  <2>3. WindowInv' /\ LearnInv' /\ LatchInv'
    BY <1>3, <2>1, WindowStep, LearnStep, LatchStep
  <2>4. QED
    BY <2>2, <2>3 DEF Inv
<1>4. CASE UNCHANGED vars
  BY <1>4, InvStays DEF vars, Inv, LatchInv
<1>5. QED
  BY <1>1, <1>2, <1>3, <1>4 DEF Next, OnMarketEvent

(* What a strategy keeps stays true to the bars accepted.                  *)
THEOREM InvHolds == Spec => []Inv
<1>1. QED
  BY InvInit, InvStep, PTL DEF Spec

-----------------------------------------------------------------------------
(* No sum of closes, times a window, exceeds the largest integer.          *)
LEMMA SumsBounded ==
  ASSUME Inv, config.kind = "crossover", NEW n \in Nat \ {0}
  PROVE  SumOf(Newest(Given, n)) \in 0 .. MaxClose(config.long) * n
<1> DEFINE m == MaxClose(config.long)
           newest == Newest(Given, n)
           k == Some(Given, n)
<1>1. /\ history \in Seq(Bars)
      /\ \A i \in 1 .. Len(history) : history[i].close > 0 /\ history[i].close <= m
      /\ config.long \in Nat \ {0}
  BY ConfigIs DEF Inv, BarsInv
<1>2. m \in Nat
  BY <1>1, MaxCloseIs
<1>3. /\ Given \in Seq(Int) /\ Len(Given) = Len(history)
      /\ \A i \in 1 .. Len(history) : Given[i] = history[i].close
  BY <1>1, ClosesAre DEF Given
<1>4. /\ newest \in Seq(Int) /\ Len(newest) = k /\ k \in 0 .. Len(Given)
      /\ \A i \in 1 .. k : newest[i] = Given[Len(Given) - k + i]
  BY <1>3, NewestIs
<1>5. k <= n /\ Len(Given) \in Nat
  BY <1>3 DEF Some
<1> HIDE DEF m, newest, k
<1>6. ASSUME NEW i \in 1 .. k PROVE newest[i] \in 0 .. m
  <2>1. Len(Given) - k + i \in 1 .. Len(Given)
    BY <1>4, <1>5
  <2>2. newest[i] \in Int
    BY <1>4
  <2>3. newest[i] > 0 /\ newest[i] <= m
    BY <1>1, <1>3, <1>4, <2>1
  <2>4. QED
    BY <1>2, <2>2, <2>3
<1>7. SumOf(newest) \in 0 .. m * k
  BY <1>2, <1>4, <1>6, SumBounded
<1>8. m * k <= m * n /\ m * k \in Nat /\ m * n \in Nat
  <2>1. \A a, b, c \in Nat : b <= c => a * b <= a * c
    OBVIOUS
  <2>2. k \in Nat /\ n \in Nat /\ k <= n
    BY <1>4, <1>5
  <2>3. QED
    BY <1>2, <2>1, <2>2
<1>9. SumOf(newest) \in 0 .. m * n
  BY <1>7, <1>8
<1>10. QED
  BY <1>9 DEF m, newest

LEMMA SumsFit ==
  ASSUME Inv, config.kind = "crossover"
  PROVE  /\ shortSum \in Nat /\ longSum \in Nat
         /\ shortSum * config.long <= Largest /\ longSum * config.short <= Largest
<1> DEFINE m == MaxClose(config.long)
           s == config.short
           l == config.long
<1>1. s \in Nat \ {0} /\ l \in Nat \ {0} /\ s < l /\ Window = l
  BY ConfigIs DEF Inv, BarsInv
<1>2. m \in Nat /\ l * l * m <= Largest /\ Largest \in Nat
  BY <1>1, MaxCloseIs, StrategiesAssumption
<1>3. longSum \in 0 .. m * l /\ shortSum \in 0 .. m * s
  <2>1. longSum = SumOf(Newest(Given, l)) /\ shortSum = SumOf(Newest(Given, s))
    BY <1>1 DEF Inv, WindowInv
  <2>2. QED
    BY <1>1, <2>1, SumsBounded
<1> HIDE DEF m, s, l
<1>4. shortSum * l <= (m * s) * l /\ longSum * s <= (m * l) * s
  <2>1. \A a, b, c \in Nat : a <= b => a * c <= b * c
    OBVIOUS
  <2>2. shortSum \in Nat /\ longSum \in Nat /\ m * s \in Nat /\ m * l \in Nat
        /\ shortSum <= m * s /\ longSum <= m * l
    BY <1>1, <1>2, <1>3
  <2>3. QED
    BY <1>1, <2>1, <2>2
<1>5. (m * s) * l <= l * l * m /\ (m * l) * s <= l * l * m
  <2>1. (m * s) * l = (l * m) * s /\ (m * l) * s = (l * m) * s /\ l * l * m = (l * m) * l
    BY <1>1, <1>2
  <2>2. \A a, b, c \in Nat : b <= c => a * b <= a * c
    OBVIOUS
  <2>3. l * m \in Nat /\ s \in Nat /\ l \in Nat /\ s <= l
    BY <1>1, <1>2
  <2>4. (l * m) * s <= (l * m) * l
    BY <2>2, <2>3
  <2>5. QED
    BY <2>1, <2>4
<1>6. shortSum * l \in Nat /\ longSum * s \in Nat /\ l * l * m \in Nat
      /\ (m * s) * l \in Nat /\ (m * l) * s \in Nat
  BY <1>1, <1>2, <1>3
<1>7. shortSum * l <= Largest /\ longSum * s <= Largest
  BY <1>2, <1>4, <1>5, <1>6
<1>8. QED
  BY <1>1, <1>2, <1>3, <1>7 DEF s, l

-----------------------------------------------------------------------------
(* The properties.                                                         *)

(* The ring of results is one whatever the kind.                           *)
LEMMA HitsAre ==
  ASSUME Inv
  PROVE  /\ scores \in Seq(Outcomes) /\ hits \in Seq(BOOLEAN)
         /\ Ringed(hits, nextHit, AccuracyWindow, Rights(scores))
         /\ observed \in Nat /\ trained \in Nat
<1>1. CASE config.kind = "logistic"
  <2>1. WaitingInv /\ ScoredInv
    BY <1>1 DEF Inv, LearnInv
  <2>2. Measured(accepted) \in Nat
    BY <1>1, LogisticIs DEF Inv
  <2>3. QED
    BY <2>1, <2>2 DEF WaitingInv, ScoredInv
<1>2. CASE config.kind # "logistic"
  <2>1. observed = 0 /\ trained = 0 /\ hits = <<>> /\ nextHit = 0 /\ scores = <<>>
    BY <1>2 DEF Inv, LearnInv
  <2>2. scores \in Seq(Outcomes) /\ Len(scores) = 0
    BY <2>1
  <2>3. Rights(scores) = <<>>
    <3>1. Rights(scores) \in Seq(BOOLEAN) /\ Len(Rights(scores)) = 0
      BY <2>2, RightsAre
    <3>2. QED
      BY <3>1
  <2>4. Ringed(hits, nextHit, AccuracyWindow, Rights(scores))
    BY <2>1, <2>3, NoneOfNone, StrategiesAssumption
  <2>5. scores \in Seq(Outcomes) /\ hits \in Seq(BOOLEAN)
    BY <2>1
  <2>6. QED
    BY <2>1, <2>4, <2>5
<1>3. QED
  BY <1>1, <1>2

LEMMA TypesHold ==
  ASSUME Inv
  PROVE  TypeOK
<1>1. config \in Configs /\ lastTime \in Nat
  BY DEF Inv, BarsInv
<1>2. Window \in Nat \ {0}
  BY ConfigIs DEF Inv, BarsInv
<1>3. closes \in Seq(Prices) /\ Len(closes) <= Window /\ next \in 0 .. Window - 1
  <2>1. /\ closes \in Seq(Prices) /\ Len(closes) = Some(Given, Window) /\ next \in 0 .. Window - 1
    BY DEF Inv, WindowInv, Ringed
  <2>2. Given \in Seq(Prices)
    BY ClosesAre DEF Given, Inv, BarsInv
  <2>3. Len(Given) \in Nat
    BY <2>2
  <2>4. QED
    BY <1>2, <2>1, <2>3 DEF Some
<1>4. shortSum \in Nat /\ longSum \in Nat
  <2>1. CASE config.kind = "crossover"
    BY <2>1, SumsFit
  <2>2. CASE config.kind # "crossover"
    BY <2>2 DEF Inv, WindowInv
  <2>3. QED
    BY <2>1, <2>2
<1>5. /\ hits \in Seq(BOOLEAN) /\ Len(hits) <= AccuracyWindow /\ nextHit \in 0 .. AccuracyWindow - 1
      /\ observed \in Nat /\ trained \in Nat
  <2>1. /\ scores \in Seq(Outcomes) /\ hits \in Seq(BOOLEAN)
        /\ Ringed(hits, nextHit, AccuracyWindow, Rights(scores))
        /\ observed \in Nat /\ trained \in Nat
    BY HitsAre
  <2>2. Len(hits) = Some(Rights(scores), AccuracyWindow) /\ nextHit \in 0 .. AccuracyWindow - 1
    BY <2>1 DEF Ringed
  <2>3. Len(Rights(scores)) \in Nat
    BY <2>1, RightsAre, LenProperties
  <2>4. Len(hits) <= AccuracyWindow
    BY <2>2, <2>3, StrategiesAssumption DEF Some
  <2>5. QED
    BY <2>1, <2>2, <2>4
<1>6. latch \in Actions
      /\ report \in [verdict : {"None", "Ignored", "WarmingUp", "Evaluated"}, action : Actions]
  BY DEF Inv, LatchInv
<1>7. QED
  BY <1>1, <1>3, <1>4, <1>5, <1>6 DEF TypeOK

LEMMA WindowSays ==
  ASSUME Inv
  PROVE  WindowIsNewest
<1> DEFINE newest == Closes(Newest(history, Window))
<1>1. history \in Seq(Bars) /\ Window \in Nat \ {0}
  BY ConfigIs DEF Inv, BarsInv
<1>2. Given \in Seq(Prices) /\ Given \in Seq(Int)
  BY <1>1, ClosesAre DEF Given
<1>3. newest = Newest(Given, Window)
  BY <1>1, ClosesOfNewest DEF Given
<1> HIDE DEF newest
<1>4. closes \in Seq(Prices) /\ Ringed(closes, next, Window, Given)
  BY DEF Inv, WindowInv
<1>5. SubSeq(closes, next + 1, Len(closes)) \o SubSeq(closes, 1, next) = newest
  BY <1>1, <1>2, <1>3, <1>4, RingRead
<1>6. ASSUME config.kind = "crossover"
      PROVE  longSum = SumOf(newest) /\ shortSum = SumOf(Newest(newest, config.short))
  <2>1. config.short \in Nat \ {0} /\ config.short <= Window
    BY <1>6, ConfigIs DEF Inv, BarsInv
  <2>2. Newest(newest, config.short) = Newest(Given, config.short)
    BY <1>1, <1>2, <1>3, <2>1, NewestOfNewest
  <2>3. QED
    BY <1>3, <1>6, <2>2 DEF Inv, WindowInv
<1>7. lastTime = (IF history = <<>> THEN 0 ELSE Last(history).time)
  BY DEF Inv, BarsInv
<1>8. QED
  BY <1>5, <1>6, <1>7 DEF WindowIsNewest, newest

(* All a strategy keeps is what the bars accepted since on_start() say:    *)
(* rings, running sums and the latch, and no product of a sum overflows.   *)
THEOREM StateStaysHistory == Spec => []StateIsHistory
<1>1. Inv => StateIsHistory
  <2> SUFFICES ASSUME Inv PROVE StateIsHistory
    OBVIOUS
  <2>1. TypeOK /\ WindowIsNewest
    BY TypesHold, WindowSays
  <2>2. LatchByHistory
    BY DEF Inv, LatchInv, LatchByHistory
  <2>3. ExactArithmetic
    BY SumsFit DEF ExactArithmetic
  <2>4. QED
    BY <2>1, <2>2, <2>3 DEF StateIsHistory
<1>2. QED
  BY <1>1, InvHolds, PTL

LEMMA OutcomesSay ==
  ASSUME Inv
  PROVE  TrainedOnOutcomes
<1> SUFFICES ASSUME config.kind = "logistic"
             PROVE  /\ trained = Len(scores)
                    /\ {score.bar + 1 : score \in ToSet(scores)} = Known(history, accepted)
                    /\ \A i, j \in DOMAIN scores : i < j => scores[i].bar < scores[j].bar
                    /\ \A score \in ToSet(scores) :
                          LET bar == history[score.bar + 1]
                              up == history[score.bar + 1 + config.horizon].close > bar.close
                          IN  score = [bar |-> score.bar, up |-> up,
                                       right |-> ((bar.probability >= 50) = up),
                                       behind |-> score.bar + 1 - Window]
  BY Zenon DEF TrainedOnOutcomes
<1>1. /\ trained = Len(scores) /\ scores \in Seq(Outcomes)
      /\ {scores[i].bar + 1 : i \in 1 .. Len(scores)} = Known(history, accepted)
      /\ \A i \in 1 .. Len(scores) : scores[i] = OutcomeOf(history, scores[i].bar + 1)
      /\ \A i, j \in 1 .. Len(scores) : i < j => scores[i].bar < scores[j].bar
  BY DEF Inv, LearnInv, ScoredInv
<1>2. DOMAIN scores = 1 .. Len(scores) /\ \A i \in 1 .. Len(scores) : scores[i] \in Outcomes
  <2>1. scores \in Seq(Outcomes)
    BY <1>1
  <2>2. QED
    BY <2>1
<1>3. ToSet(scores) = {scores[i] : i \in 1 .. Len(scores)}
  BY <1>2 DEF ToSet
<1>4. {score.bar + 1 : score \in ToSet(scores)} = {scores[i].bar + 1 : i \in 1 .. Len(scores)}
  BY <1>3
<1>5. ASSUME NEW score \in ToSet(scores)
      PROVE  LET bar == history[score.bar + 1]
                 up == history[score.bar + 1 + config.horizon].close > bar.close
             IN  score = [bar |-> score.bar, up |-> up, right |-> ((bar.probability >= 50) = up),
                          behind |-> score.bar + 1 - Window]
  <2> DEFINE b == score.bar
             up == history[(b + 1) + config.horizon].close > history[b + 1].close
  <2>1. score = OutcomeOf(history, b + 1) /\ b \in Int
    <3>1. PICK i \in 1 .. Len(scores) : score = scores[i]
      BY <1>3
    <3>2. QED
      BY <1>1, <1>2, <3>1 DEF Outcomes
  <2>2. OutcomeOf(history, b + 1)
          = [bar |-> (b + 1) - 1, up |-> up, right |-> ((history[b + 1].probability >= 50) = up),
             behind |-> (b + 1) - Window]
    BY DEF OutcomeOf, Outcome, SampleOf
  <2>3. (b + 1) - 1 = b /\ (b + 1) - Window = b + 1 - Window
    <3>1. Window \in Int
      BY LogisticIs DEF Inv
    <3> HIDE DEF b
    <3>2. QED
      BY <2>1, <3>1
  <2> HIDE DEF up
  <2>4. score = [bar |-> b, up |-> up, right |-> ((history[b + 1].probability >= 50) = up),
                 behind |-> b + 1 - Window]
    BY <2>1, <2>2, <2>3
  <2>5. QED
    BY <2>4, Zenon DEF up
<1>6. QED
  BY <1>1, <1>2, <1>4, <1>5

LEMMA AccuracySays ==
  ASSUME Inv
  PROVE  AccuracyIsOfNewest
<1> DEFINE A == AccuracyWindow
           newest == Newest(scores, A)
           t == Rights(newest)
           k == Some(scores, A)
           r == Rights(scores)
<1>1. /\ scores \in Seq(Outcomes) /\ hits \in Seq(BOOLEAN) /\ Ringed(hits, nextHit, A, r)
      /\ A \in Nat \ {0}
  BY HitsAre, StrategiesAssumption
<1>2. /\ newest \in Seq(Outcomes) /\ Len(newest) = k /\ k \in 0 .. Len(scores)
      /\ \A i \in 1 .. k : newest[i] = scores[Len(scores) - k + i]
  BY <1>1, NewestIs, Zenon
<1>3. r \in Seq(BOOLEAN) /\ Len(r) = Len(scores) /\ Len(scores) \in Nat
      /\ \A i \in 1 .. Len(scores) : r[i] = scores[i].right
  BY <1>1, RightsAre, LenProperties
<1>4. t \in Seq(BOOLEAN) /\ Len(t) = k /\ \A i \in 1 .. k : t[i] = newest[i].right
  BY <1>2, RightsAre
<1>5. k = Some(r, A)
  BY <1>3 DEF Some
<1> HIDE DEF k, t, newest, r
<1>6. ASSUME NEW i \in 1 .. k PROVE t[i] = r[Len(r) - k + i]
  <2>1. Len(scores) - k + i \in 1 .. Len(scores)
    BY <1>2, <1>3
  <2>2. t[i] = newest[i].right /\ newest[i] = scores[Len(scores) - k + i]
    BY <1>2, <1>4
  <2>3. QED
    BY <1>3, <2>1, <2>2
<1>7. t = Newest(r, A)
  BY <1>1, <1>3, <1>4, <1>5, <1>6, NewestOnly
<1>8. SubSeq(hits, nextHit + 1, Len(hits)) \o SubSeq(hits, 1, nextHit) = t
  <2>1. SubSeq(hits, nextHit + 1, Len(hits)) \o SubSeq(hits, 1, nextHit) = Newest(r, A)
    BY <1>1, <1>3, RingRead, Zenon
  <2>2. QED
    BY <1>7, <2>1
<1>9. QED
  BY <1>8 DEF AccuracyIsOfNewest, t, newest, Rights

(* The logistic model is trained once, in order and in time on every       *)
(* outcome known, and judged by the newest of them.                        *)
THEOREM LearningHolds == Spec => []LearnsFromOutcomes
<1>1. Inv => LearnsFromOutcomes
  BY OutcomesSay, AccuracySays DEF LearnsFromOutcomes
<1>2. QED
  BY <1>1, InvHolds, PTL

(* A bar that is accepted emits the signal its history says, and no other: *)
(* one to an excursion, none at the first side of the averages.            *)
THEOREM SignalsFollowHistory == Spec => SignalsByHistory
<1>1. Inv /\ [Next]_vars => [Len(history') > Len(history) => report'.action = SignalDue]_vars
  <2> SUFFICES ASSUME Inv, Next
               PROVE  Len(history') > Len(history) => report'.action = SignalDue
    OBVIOUS
  <2>1. Len(history) \in Nat
    BY DEF Inv, BarsInv
  <2>2. CASE OnStart
    <3>1. Len(history') = 0
      BY <2>2 DEF OnStart
    <3>2. QED
      BY <2>1, <3>1
  <2>3. ASSUME NEW event \in MarketEvents, Ignore(event)
        PROVE  Len(history') > Len(history) => report'.action = SignalDue
    <3>1. history' = history
      BY <2>3 DEF Ignore, stateVars
    <3>2. QED
      BY <2>1, <3>1
  <2>4. ASSUME NEW event \in MarketEvents, NEW probability \in Told, Accept(event, probability)
        PROVE  report'.action = SignalDue
    BY <2>4, LatchStep DEF Inv
  <2>5. QED
    BY <2>2, <2>3, <2>4 DEF Next, OnMarketEvent
<1>2. QED
  BY <1>1, InvHolds, PTL DEF Spec, SignalsByHistory
=============================================================================
