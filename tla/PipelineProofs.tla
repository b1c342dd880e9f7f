--------------------------- MODULE PipelineProofs ---------------------------
(***************************************************************************)
(* What the steps of a run's components keep, for any symbols, prices,     *)
(* fees, limits and order of events: the lemmas that the proofs about      *)
(* their compositions share; and before them what those need to know of    *)
(* sums over finite sets and of sequences.                                 *)
(*                                                                         *)
(* The recursion by which the community modules define SumFunctionOnSet    *)
(* has a solution, and the sum does not depend on the order in which it    *)
(* takes the elements.  Induction is by the smallest counterexample, since *)
(* the provers cannot instantiate an induction theorem whose parameter is  *)
(* an operator.                                                            *)
(***************************************************************************)
EXTENDS Pipeline, TLAPS, WellFoundedInduction, FiniteSetTheorems, SequenceTheorems

LEMMA Smallest ==
  ASSUME NEW T \in SUBSET Nat, T # {}
  PROVE  \E x \in T : \A y \in T : x <= y
<1>1. IsWellFoundedOn(OpToRel(<, Nat), Nat)
  BY NatLessThanWellFounded
<1>2. PICK x \in T : \A y \in T : <<y, x>> \notin OpToRel(<, Nat)
  BY <1>1, WFMin, Zenon
<1>3. \A y \in T : ~(y < x)
  BY <1>2 DEF OpToRel
<1>4. x \in Nat /\ \A y \in T : y \in Nat
  OBVIOUS
<1>5. \A y \in T : x <= y
  BY <1>3, <1>4
<1>6. x \in T
  BY <1>2
<1>7. QED
  BY <1>5, <1>6

(* A set of numbers that contains 0 and with each number the next is Nat.  *)
LEMMA Induction ==
  ASSUME NEW T, 0 \in T, \A n \in Nat : n \in T => n + 1 \in T
  PROVE  \A n \in Nat : n \in T
<1>1. SUFFICES ASSUME NEW m \in Nat, m \notin T PROVE FALSE
  OBVIOUS
<1>2. PICK x \in {n \in Nat : n \notin T} : \A y \in {n \in Nat : n \notin T} : x <= y
  <2>1. {n \in Nat : n \notin T} \in SUBSET Nat /\ {n \in Nat : n \notin T} # {}
    BY <1>1
  <2> QED
    BY <2>1, Smallest, Zenon
<1>3. x \in Nat /\ x # 0 /\ x \notin T
  BY <1>2
<1>4. x - 1 \in Nat /\ x - 1 < x /\ (x - 1) + 1 = x
  BY <1>3
<1>5. x - 1 \in T
  BY <1>2, <1>4
<1>6. QED
  BY <1>3, <1>4, <1>5

-----------------------------------------------------------------------------
Chosen(s) == CHOOSE x \in s : TRUE

Small(S, n) == {t \in SUBSET S : Cardinality(t) <= n}

(* The recursion, up to the subsets of n elements.                         *)
SolvesUpTo(g, f, S, n) ==
    g = [s \in Small(S, n) |-> IF s = {} THEN 0 ELSE f[Chosen(s)] + g[s \ {Chosen(s)}]]

Solves(g, f, S) ==
    g = [s \in SUBSET S |-> IF s = {} THEN 0 ELSE f[Chosen(s)] + g[s \ {Chosen(s)}]]

LEMMA ChosenIn ==
  ASSUME NEW S, IsFiniteSet(S), NEW s \in SUBSET S, s # {}
  PROVE  /\ Chosen(s) \in s /\ s \ {Chosen(s)} \in SUBSET S
         /\ Cardinality(s) \in Nat /\ Cardinality(s \ {Chosen(s)}) = Cardinality(s) - 1
<1>1. Chosen(s) \in s
  BY DEF Chosen
<1>2. IsFiniteSet(s) 
  BY FS_Subset
<1>3. QED
  BY <1>1, <1>2, FS_RemoveElement, FS_CardinalityType

LEMMA OneLess ==
  ASSUME NEW S, IsFiniteSet(S), NEW x \in S, NEW n \in Nat, Cardinality(S) = n + 1
  PROVE  S \ {x} \in SUBSET S /\ Cardinality(S \ {x}) = n
<1>1. Cardinality(S \ {x}) = Cardinality(S) - 1
  BY FS_RemoveElement
<1>2. QED
  BY <1>1

LEMMA RecursionSolved ==
  ASSUME NEW f, NEW S, IsFiniteSet(S)
  PROVE  \E g : Solves(g, f, S)
<1> DEFINE T == {n \in Nat : \E g : SolvesUpTo(g, f, S, n)}
<1>1. 0 \in T
  <2> DEFINE g == [s \in Small(S, 0) |-> 0]
  <2>1. \A s \in Small(S, 0) : s = {}
    <3> SUFFICES ASSUME NEW s \in Small(S, 0) PROVE s = {}
      OBVIOUS
    <3>1. IsFiniteSet(s) /\ Cardinality(s) <= 0
      BY FS_Subset DEF Small
    <3>2. QED
      BY <3>1, FS_CardinalityType, FS_EmptySet
  <2>2. SolvesUpTo(g, f, S, 0)
    BY <2>1 DEF SolvesUpTo
  <2>3. QED
    BY <2>2
<1>2. ASSUME NEW n \in Nat, n \in T
      PROVE  n + 1 \in T
  <2>1. PICK g : SolvesUpTo(g, f, S, n)
    BY <1>2
  <2> DEFINE h == [s \in Small(S, n + 1) |->
                     IF s = {} THEN 0 ELSE f[Chosen(s)] + g[s \ {Chosen(s)}]]
  <2>2. \A s \in Small(S, n) : s \in Small(S, n + 1) /\ h[s] = g[s]
    <3> SUFFICES ASSUME NEW s \in Small(S, n) PROVE s \in Small(S, n + 1) /\ h[s] = g[s]
      OBVIOUS
    <3>1. s \in SUBSET S /\ IsFiniteSet(s) /\ Cardinality(s) <= n
      BY FS_Subset DEF Small
    <3>2. s \in Small(S, n + 1)
      BY <3>1, FS_CardinalityType DEF Small
    <3>3. g[s] = IF s = {} THEN 0 ELSE f[Chosen(s)] + g[s \ {Chosen(s)}]
      BY <2>1, Zenon DEF SolvesUpTo
    <3>4. QED
      BY <3>2, <3>3
  <2>3. \A s \in Small(S, n + 1) : s # {} => s \ {Chosen(s)} \in Small(S, n)
    <3> SUFFICES ASSUME NEW s \in Small(S, n + 1), s # {} PROVE s \ {Chosen(s)} \in Small(S, n)
      OBVIOUS
    <3>1. s \in SUBSET S /\ Cardinality(s) <= n + 1
      BY DEF Small
    <3>2. QED
      BY <3>1, ChosenIn DEF Small
  <2> HIDE DEF h
  <2>4. h = [s \in Small(S, n + 1) |->
               IF s = {} THEN 0 ELSE f[Chosen(s)] + h[s \ {Chosen(s)}]]
    <3>1. h = [s \in Small(S, n + 1) |->
                 IF s = {} THEN 0 ELSE f[Chosen(s)] + g[s \ {Chosen(s)}]]
      BY DEF h
    <3>2. \A s \in Small(S, n + 1) : s # {} => h[s \ {Chosen(s)}] = g[s \ {Chosen(s)}]
      BY <2>2, <2>3
    <3>3. QED
      BY <3>1, <3>2
  <2>5. SolvesUpTo(h, f, S, n + 1)
    BY <2>4 DEF SolvesUpTo
  <2>6. QED
    BY <2>5
<1> HIDE DEF T
<1>3. Cardinality(S) \in T
  BY <1>1, <1>2, Induction, FS_CardinalityType
<1>4. PICK g : SolvesUpTo(g, f, S, Cardinality(S))
  BY <1>3 DEF T
<1>5. Small(S, Cardinality(S)) = SUBSET S
  BY FS_Subset DEF Small
<1>6. QED
  BY <1>4, <1>5 DEF SolvesUpTo, Solves

(* Two solutions agree where both are defined.                             *)
LEMMA SolutionsAgree ==
  ASSUME NEW f, NEW S, IsFiniteSet(S), NEW R \in SUBSET S, NEW g, NEW h,
         Solves(g, f, S), Solves(h, f, R)
  PROVE  g[R] = h[R]
<1> DEFINE T == {n \in Nat : \A s \in SUBSET R : Cardinality(s) = n => g[s] = h[s]}
<1>0. IsFiniteSet(R)
  BY FS_Subset
<1>a. \A s \in SUBSET R : g[s] = IF s = {} THEN 0 ELSE f[Chosen(s)] + g[s \ {Chosen(s)}]
  BY Zenon DEF Solves
<1>b. \A s \in SUBSET R : h[s] = IF s = {} THEN 0 ELSE f[Chosen(s)] + h[s \ {Chosen(s)}]
  BY Zenon DEF Solves
<1>1. 0 \in T
  <2>1. \A s \in SUBSET R : Cardinality(s) = 0 => s = {}
    BY <1>0, FS_Subset, FS_EmptySet
  <2>2. QED
    BY <2>1, <1>a, <1>b
<1>2. ASSUME NEW n \in Nat, n \in T
      PROVE  n + 1 \in T
  <2> SUFFICES ASSUME NEW s \in SUBSET R, Cardinality(s) = n + 1
               PROVE  g[s] = h[s]
    OBVIOUS
  <2>1. s # {}
    BY FS_EmptySet
  <2>2. s \ {Chosen(s)} \in SUBSET R /\ Cardinality(s \ {Chosen(s)}) = n
    BY <1>0, <2>1, ChosenIn
  <2>3. g[s \ {Chosen(s)}] = h[s \ {Chosen(s)}]
    BY <1>2, <2>2
  <2>4. QED
    BY <1>a, <1>b, <2>1, <2>3
<1> HIDE DEF T
<1>3. \A n \in Nat : n \in T
  BY <1>1, <1>2, Induction
<1>4. Cardinality(R) \in Nat /\ R \in SUBSET R
  BY <1>0, FS_CardinalityType
<1>5. QED
  BY <1>3, <1>4 DEF T

Solution(f, S) == CHOOSE g : Solves(g, f, S)

LEMMA SumIsSolution ==
  ASSUME NEW f, NEW S
  PROVE  SumFunctionOnSet(f, S) = Solution(f, S)[S]
BY DEF SumFunctionOnSet, FoldFunctionOnSet, MapThenFoldSet, Solution, Solves, Chosen

(* The sum of no elements, and of one more than those of a smaller set.    *)
LEMMA SumEmpty ==
  ASSUME NEW f
  PROVE  SumFunctionOnSet(f, {}) = 0
<1>1. PICK g : Solves(g, f, {})
  BY RecursionSolved, FS_EmptySet
<1>2. Solves(Solution(f, {}), f, {})
  BY <1>1 DEF Solution
<1>3. QED
  BY <1>2, SumIsSolution DEF Solves

LEMMA SumChosen ==
  ASSUME NEW f, NEW S, IsFiniteSet(S), S # {}
  PROVE  /\ Chosen(S) \in S
         /\ SumFunctionOnSet(f, S) = f[Chosen(S)] + SumFunctionOnSet(f, S \ {Chosen(S)})
<1> DEFINE R == S \ {Chosen(S)}
<1>1. Chosen(S) \in S /\ R \in SUBSET S /\ IsFiniteSet(R)
  BY FS_Subset DEF Chosen
<1>2. Solves(Solution(f, S), f, S) /\ Solves(Solution(f, R), f, R)
  BY <1>1, RecursionSolved DEF Solution
<1>3. Solution(f, S)[S] = f[Chosen(S)] + Solution(f, S)[R]
  BY <1>2 DEF Solves
<1> HIDE DEF R
<1>4. Solution(f, S)[R] = Solution(f, R)[R]
  <2>1. \A g, h : Solves(g, f, S) /\ Solves(h, f, R) => g[R] = h[R]
    BY <1>1, SolutionsAgree
  <2>2. QED
    BY <1>2, <2>1
<1>5. QED
  BY <1>1, <1>3, <1>4, SumIsSolution DEF R

-----------------------------------------------------------------------------
(* f has whole values on S.                                                *)
Whole(f, S) == IsFiniteSet(S) /\ \A x \in S : f[x] \in Int

LEMMA SumInt ==
  ASSUME NEW f, NEW S, Whole(f, S)
  PROVE  SumFunctionOnSet(f, S) \in Int
<1> DEFINE T == {n \in Nat : \A s \in SUBSET S : Cardinality(s) = n => SumFunctionOnSet(f, s) \in Int}
<1>1. 0 \in T
  BY SumEmpty, FS_Subset, FS_EmptySet DEF Whole
<1>2. ASSUME NEW n \in Nat, n \in T PROVE n + 1 \in T
  <2> SUFFICES ASSUME NEW s \in SUBSET S, Cardinality(s) = n + 1
               PROVE  SumFunctionOnSet(f, s) \in Int
    OBVIOUS
  <2>1. s # {} /\ IsFiniteSet(s)
    BY FS_EmptySet, FS_Subset DEF Whole
  <2>2. /\ Chosen(s) \in s
        /\ SumFunctionOnSet(f, s) = f[Chosen(s)] + SumFunctionOnSet(f, s \ {Chosen(s)})
    BY <2>1, SumChosen
  <2>3. s \ {Chosen(s)} \in SUBSET S /\ Cardinality(s \ {Chosen(s)}) = n
    BY <2>1, ChosenIn DEF Whole
  <2>4. SumFunctionOnSet(f, s \ {Chosen(s)}) \in Int
    BY <1>2, <2>3
  <2>5. QED
    BY <2>2, <2>4 DEF Whole
<1> HIDE DEF T
<1>3. \A n \in Nat : n \in T
  BY <1>1, <1>2, Induction
<1>4. Cardinality(S) \in Nat /\ S \in SUBSET S
  BY FS_CardinalityType DEF Whole
<1>5. QED
  BY <1>3, <1>4 DEF T

(* The sum is that of any one element and of the rest.                     *)
LEMMA SumAny ==
  ASSUME NEW f, NEW S, Whole(f, S), NEW x \in S
  PROVE  SumFunctionOnSet(f, S) = f[x] + SumFunctionOnSet(f, S \ {x})
<1> DEFINE T == {n \in Nat : \A s \in SUBSET S : \A y \in s : Cardinality(s) = n =>
                   SumFunctionOnSet(f, s) = f[y] + SumFunctionOnSet(f, s \ {y})}
<1>0. \A s \in SUBSET S : Whole(f, s)
  BY FS_Subset DEF Whole
<1>1. 0 \in T
  BY <1>0, FS_EmptySet DEF Whole
<1>2. ASSUME NEW n \in Nat, n \in T PROVE n + 1 \in T
  <2> SUFFICES ASSUME NEW s \in SUBSET S, NEW y \in s, Cardinality(s) = n + 1
               PROVE  SumFunctionOnSet(f, s) = f[y] + SumFunctionOnSet(f, s \ {y})
    OBVIOUS
  <2> DEFINE c == Chosen(s)
             r == s \ {c}
  <2>1. s # {} /\ IsFiniteSet(s)
    BY <1>0 DEF Whole
  <2>2. c \in s /\ SumFunctionOnSet(f, s) = f[c] + SumFunctionOnSet(f, r)
    BY <2>1, SumChosen
  <2>3. r \in SUBSET S /\ Cardinality(r) = n
    BY <2>1, ChosenIn DEF Whole
  <2> HIDE DEF c, r
  <2>4. CASE y = c
    BY <2>2, <2>4 DEF r
  <2>5. CASE y # c
    <3>1. y \in r
      BY <2>5 DEF r
    <3>2. SumFunctionOnSet(f, r) = f[y] + SumFunctionOnSet(f, r \ {y})
      BY <1>2, <2>3, <3>1
    <3>3. c \in s \ {y} /\ s \ {y} \in SUBSET S /\ Cardinality(s \ {y}) = n
      <4>1. Cardinality(s \ {y}) = Cardinality(s) - 1
        BY <2>1, FS_RemoveElement
      <4>2. Cardinality(s \ {y}) = n
        BY <4>1
      <4>3. QED
        BY <4>2, <2>2, <2>5
    <3>4. SumFunctionOnSet(f, s \ {y}) = f[c] + SumFunctionOnSet(f, (s \ {y}) \ {c})
      BY <1>2, <3>3
    <3>5. (s \ {y}) \ {c} = r \ {y}
      BY DEF r
    <3>6. f[y] \in Int /\ f[c] \in Int /\ SumFunctionOnSet(f, r \ {y}) \in Int
      <4>1. Whole(f, r \ {y})
        BY <1>0, <2>3
      <4>2. QED
        BY <4>1, <2>2, SumInt DEF Whole
    <3>7. SumFunctionOnSet(f, s \ {y}) = f[c] + SumFunctionOnSet(f, r \ {y})
      BY <3>4, <3>5
    <3>8. SumFunctionOnSet(f, s) = f[c] + (f[y] + SumFunctionOnSet(f, r \ {y}))
      BY <2>2, <3>2
    <3>9. QED
      <4> DEFINE rest == SumFunctionOnSet(f, r \ {y})
      <4>1. f[c] + (f[y] + rest) = f[y] + (f[c] + rest)
        BY <3>6
      <4>2. QED
        BY <3>7, <3>8, <4>1
  <2>6. QED
    BY <2>4, <2>5
<1> HIDE DEF T
<1>3. \A n \in Nat : n \in T
  BY <1>1, <1>2, Induction
<1>4. Cardinality(S) \in Nat /\ S \in SUBSET S
  BY FS_CardinalityType DEF Whole
<1>5. QED
  BY <1>3, <1>4 DEF T

(* The sum depends on the values on S alone, and grows with each of them.  *)
LEMMA SumMonotone ==
  ASSUME NEW f, NEW g, NEW S, Whole(f, S), Whole(g, S), \A x \in S : f[x] <= g[x]
  PROVE  SumFunctionOnSet(f, S) <= SumFunctionOnSet(g, S)
<1> DEFINE T == {n \in Nat : \A s \in SUBSET S : Cardinality(s) = n =>
                   SumFunctionOnSet(f, s) <= SumFunctionOnSet(g, s)}
<1>0. \A s \in SUBSET S : Whole(f, s) /\ Whole(g, s)
  BY FS_Subset DEF Whole
<1>1. 0 \in T
  BY <1>0, SumEmpty, FS_EmptySet DEF Whole
<1>2. ASSUME NEW n \in Nat, n \in T PROVE n + 1 \in T
  <2> SUFFICES ASSUME NEW s \in SUBSET S, Cardinality(s) = n + 1
               PROVE  SumFunctionOnSet(f, s) <= SumFunctionOnSet(g, s)
    OBVIOUS
  <2>1. s # {} /\ IsFiniteSet(s)
    BY <1>0, FS_EmptySet DEF Whole
  <2>2. PICK y \in s : TRUE
    BY <2>1
  <2>3. s \ {y} \in SUBSET S /\ Cardinality(s \ {y}) = n
    BY <2>1, <2>2, OneLess
  <2>4. /\ SumFunctionOnSet(f, s) = f[y] + SumFunctionOnSet(f, s \ {y})
        /\ SumFunctionOnSet(g, s) = g[y] + SumFunctionOnSet(g, s \ {y})
    BY <1>0, <2>2, SumAny
  <2>5. SumFunctionOnSet(f, s \ {y}) <= SumFunctionOnSet(g, s \ {y})
    BY <1>2, <2>3
  <2>6. /\ SumFunctionOnSet(f, s \ {y}) \in Int /\ SumFunctionOnSet(g, s \ {y}) \in Int
        /\ f[y] \in Int /\ g[y] \in Int /\ f[y] <= g[y]
    BY <1>0, <2>2, <2>3, SumInt DEF Whole
  <2>7. QED
    BY <2>4, <2>5, <2>6
<1> HIDE DEF T
<1>3. \A n \in Nat : n \in T
  BY <1>1, <1>2, Induction
<1>4. Cardinality(S) \in Nat /\ S \in SUBSET S
  BY FS_CardinalityType DEF Whole
<1>5. QED
  BY <1>3, <1>4 DEF T

LEMMA SumAgrees ==
  ASSUME NEW f, NEW g, NEW S, Whole(f, S), \A x \in S : f[x] = g[x]
  PROVE  SumFunctionOnSet(f, S) = SumFunctionOnSet(g, S)
<1>1. Whole(g, S) /\ \A x \in S : f[x] <= g[x] /\ g[x] <= f[x]
  BY DEF Whole
<1>2. /\ SumFunctionOnSet(f, S) <= SumFunctionOnSet(g, S)
      /\ SumFunctionOnSet(g, S) <= SumFunctionOnSet(f, S)
  BY <1>1, SumMonotone
<1>3. SumFunctionOnSet(f, S) \in Int /\ SumFunctionOnSet(g, S) \in Int
  BY <1>1, SumInt
<1>4. QED
  BY <1>2, <1>3

LEMMA SumNat ==
  ASSUME NEW f, NEW S, Whole(f, S), \A x \in S : f[x] >= 0
  PROVE  SumFunctionOnSet(f, S) \in Nat /\ \A x \in S : f[x] <= SumFunctionOnSet(f, S)
<1> DEFINE T == {n \in Nat : \A s \in SUBSET S : Cardinality(s) = n =>
                   SumFunctionOnSet(f, s) \in Nat}
<1>0. \A s \in SUBSET S : Whole(f, s)
  BY FS_Subset DEF Whole
<1>1. 0 \in T
  BY <1>0, SumEmpty, FS_EmptySet DEF Whole
<1>2. ASSUME NEW n \in Nat, n \in T PROVE n + 1 \in T
  <2> SUFFICES ASSUME NEW s \in SUBSET S, Cardinality(s) = n + 1
               PROVE  SumFunctionOnSet(f, s) \in Nat
    OBVIOUS
  <2>1. s # {} /\ IsFiniteSet(s)
    BY <1>0, FS_EmptySet DEF Whole
  <2>2. PICK y \in s : TRUE
    BY <2>1
  <2>3. s \ {y} \in SUBSET S /\ Cardinality(s \ {y}) = n
    BY <2>1, <2>2, OneLess
  <2>4. SumFunctionOnSet(f, s) = f[y] + SumFunctionOnSet(f, s \ {y})
    BY <1>0, <2>2, SumAny
  <2>5. SumFunctionOnSet(f, s \ {y}) \in Nat
    BY <1>2, <2>3
  <2>6. f[y] \in Nat
    BY <2>2 DEF Whole
  <2>7. QED
    BY <2>4, <2>5, <2>6
<1> HIDE DEF T
<1>3. \A n \in Nat : n \in T
  BY <1>1, <1>2, Induction
<1>4. \A s \in SUBSET S : SumFunctionOnSet(f, s) \in Nat
  BY <1>0, <1>3, FS_CardinalityType DEF T, Whole
<1>5. ASSUME NEW x \in S PROVE f[x] <= SumFunctionOnSet(f, S)
  <2>1. SumFunctionOnSet(f, S) = f[x] + SumFunctionOnSet(f, S \ {x})
    BY SumAny
  <2>2. SumFunctionOnSet(f, S \ {x}) \in Nat /\ f[x] \in Int
    BY <1>4 DEF Whole
  <2>3. QED
    BY <2>1, <2>2
<1>6. QED
  BY <1>4, <1>5

-----------------------------------------------------------------------------
(* How the sum changes when at most one element comes, goes or changes.    *)

At(f, S, x) == IF x \in S THEN f[x] ELSE 0

LEMMA SumChange ==
  ASSUME NEW f, NEW S, Whole(f, S), NEW g, NEW R, Whole(g, R),
         NEW x, S \ {x} = R \ {x}, \A y \in S \ {x} : f[y] = g[y]
  PROVE  SumFunctionOnSet(g, R) = SumFunctionOnSet(f, S) - At(f, S, x) + At(g, R, x)
<1> DEFINE rest == SumFunctionOnSet(f, S \ {x})
<1>1. Whole(f, S \ {x}) /\ Whole(g, R \ {x})
  BY FS_Subset DEF Whole
<1>2. SumFunctionOnSet(g, R \ {x}) = rest /\ rest \in Int
  BY <1>1, SumAgrees, SumInt
<1> HIDE DEF rest
<1>3. SumFunctionOnSet(f, S) = At(f, S, x) + rest /\ At(f, S, x) \in Int
  <2>1. CASE x \in S
    BY <2>1, SumAny DEF rest, At, Whole
  <2>2. CASE x \notin S
    <3>1. S \ {x} = S
      BY <2>2
    <3>2. rest = SumFunctionOnSet(f, S)
      BY <3>1, Zenon DEF rest
    <3>3. QED
      BY <2>2, <3>2, <1>2 DEF At
  <2>3. QED
    BY <2>1, <2>2
<1>4. SumFunctionOnSet(g, R) = At(g, R, x) + rest /\ At(g, R, x) \in Int
  <2>1. CASE x \in R
    BY <2>1, <1>2, SumAny DEF At, Whole
  <2>2. CASE x \notin R
    <3>1. R \ {x} = R
      BY <2>2
    <3>2. QED
      BY <2>2, <3>1, <1>2 DEF At
  <2>3. QED
    BY <2>1, <2>2
<1>5. QED
  BY <1>2, <1>3, <1>4

-----------------------------------------------------------------------------
(* The element of a finite set of numbers that has i - 1 smaller ones.     *)
LEMMA NthIn ==
  ASSUME NEW S \in SUBSET Nat, IsFiniteSet(S), NEW i \in 1..Cardinality(S)
  PROVE  \E x \in S : Cardinality({y \in S : y <= x}) = i
<1> DEFINE T == {n \in Nat : \A s \in SUBSET S : Cardinality(s) = n =>
                   \A k \in 1..n : \E x \in s : Cardinality({y \in s : y <= x}) = k}
<1>1. 0 \in T
  OBVIOUS
<1>2. ASSUME NEW n \in Nat, n \in T PROVE n + 1 \in T
  <2> SUFFICES ASSUME NEW s \in SUBSET S, Cardinality(s) = n + 1, NEW k \in 1..(n + 1)
               PROVE  \E x \in s : Cardinality({y \in s : y <= x}) = k
    OBVIOUS
  <2>1. s # {} /\ IsFiniteSet(s) /\ s \in SUBSET Nat
    <3>1. IsFiniteSet(s)
      BY FS_Subset
    <3>2. s # {}
      BY FS_EmptySet
    <3>3. QED
      BY <3>1, <3>2
  <2>2. PICK m \in s : \A y \in s : m <= y
    BY <2>1, Smallest
  <2>3. s \ {m} \in SUBSET S /\ Cardinality(s \ {m}) = n /\ IsFiniteSet(s \ {m})
    BY <2>1, OneLess, FS_Subset
  <2>4. CASE k = 1
    <3>1. \A y \in s : y <= m <=> y = m
      BY <2>1, <2>2
    <3>1a. {y \in s : y <= m} = {m}
      BY <3>1
    <3>2. QED
      BY <2>4, <3>1a, FS_Singleton
  <2>5. CASE k # 1
    <3>1. k - 1 \in 1..n
      BY <2>5
    <3>2. PICK x \in s \ {m} : Cardinality({y \in s \ {m} : y <= x}) = k - 1
      BY <1>2, <2>3, <3>1
    <3> DEFINE below == {y \in s \ {m} : y <= x}
    <3>3. {y \in s : y <= x} = below \cup {m} /\ m \notin below
      BY <2>1, <2>2
    <3>4. IsFiniteSet(below)
      BY <2>3, FS_Subset
    <3> HIDE DEF below
    <3>5. Cardinality(below \cup {m}) = Cardinality(below) + 1
      BY <3>3, <3>4, FS_AddElement
    <3>6. Cardinality(below) + 1 = k
      BY <3>2 DEF below
    <3>7. QED
      BY <3>3, <3>5, <3>6
  <2>6. QED
    BY <2>4, <2>5
<1> HIDE DEF T
<1>3. Cardinality(S) \in T
  BY <1>1, <1>2, Induction, FS_CardinalityType
<1>4. QED
  BY <1>3 DEF T

-----------------------------------------------------------------------------
(* new is old without its i-th element and then out, of which it may lack  *)
(* some, and src[k] says where its k-th element was.                       *)
Sourced(old, i, out, new, src) ==
    /\ src \in [1..Len(new) -> 1..(Len(old) + Len(out))]
    /\ \A k \in 1..Len(new) :
          /\ src[k] # i
          /\ new[k] = IF src[k] <= Len(old) THEN old[src[k]] ELSE out[src[k] - Len(old)]
    /\ \A k, l \in 1..Len(new) : k < l => src[k] < src[l]

Complete(old, i, out, new, src) ==
    \A m \in 1..(Len(old) + Len(out)) : m # i => \E k \in 1..Len(new) : src[k] = m

(* The place in old and out of what is at k, when old has L elements, out  *)
(* has M and lacks the r-th, and R of old stay (r = 0 or i = 0: none goes).*)
Place(k, L, R, i, r) ==
    IF k <= R THEN (IF i = 0 \/ k < i THEN k ELSE k + 1)
    ELSE (IF r = 0 \/ k - R < r THEN L + (k - R) ELSE L + (k - R) + 1)

PlacesFit(L, M, R, N, i, r) ==
    /\ \A k \in 1..N : Place(k, L, R, i, r) \in 1..(L + M) /\ Place(k, L, R, i, r) # i
    /\ \A k \in 1..N : k <= R <=> Place(k, L, R, i, r) <= L
    /\ \A k, l \in 1..N : k < l => Place(k, L, R, i, r) < Place(l, L, R, i, r)
    /\ r = 0 => \A m \in 1..(L + M) : m # i => \E k \in 1..N : Place(k, L, R, i, r) = m

LEMMA Placed ==
  ASSUME NEW L \in Nat, NEW M \in Nat, NEW i \in 0..L, NEW r \in 0..M,
         NEW R \in Nat, R = (IF i = 0 THEN L ELSE L - 1),
         NEW N \in Nat, N = (IF r = 0 THEN R + M ELSE R + M - 1)
  PROVE  PlacesFit(L, M, R, N, i, r)
<1>1. \A k \in 1..N : Place(k, L, R, i, r) \in 1..(L + M) /\ Place(k, L, R, i, r) # i
  BY DEF Place
<1>2. \A k \in 1..N : k <= R <=> Place(k, L, R, i, r) <= L
  BY DEF Place
<1>3. \A k, l \in 1..N : k < l => Place(k, L, R, i, r) < Place(l, L, R, i, r)
  BY DEF Place
<1>4. ASSUME r = 0, NEW m \in 1..(L + M), m # i
      PROVE  \E k \in 1..N : Place(k, L, R, i, r) = m
  <2> DEFINE k == IF m > L THEN m - L + R ELSE IF i = 0 \/ m < i THEN m ELSE m - 1
  <2>1. k \in 1..N /\ Place(k, L, R, i, r) = m
    BY <1>4 DEF Place
  <2>2. QED
    BY <2>1
<1>5. QED
  BY <1>1, <1>2, <1>3, <1>4 DEF PlacesFit

LEMMA Concat ==
  ASSUME NEW E, NEW s \in Seq(E), NEW t \in Seq(E)
  PROVE  /\ s \o t \in Seq(E) /\ Len(s \o t) = Len(s) + Len(t)
         /\ Len(s) \in Nat /\ Len(t) \in Nat /\ Len(s \o t) \in Nat
         /\ \A k \in 1..Len(s \o t) :
               (s \o t)[k] = IF k <= Len(s) THEN s[k] ELSE t[k - Len(s)]
<1>1. /\ s \o t \in Seq(E) /\ Len(s \o t) = Len(s) + Len(t)
      /\ \A k \in 1..(Len(s) + Len(t)) :
            (s \o t)[k] = IF k <= Len(s) THEN s[k] ELSE t[k - Len(s)]
  BY ConcatProperties
<1>2. Len(s) \in Nat /\ Len(t) \in Nat /\ Len(s \o t) \in Nat
  BY <1>1, LenProperties
<1>3. QED
  BY <1>1, <1>2, Zenon

LEMMA SourcedBy ==
  ASSUME NEW E, NEW old \in Seq(E), NEW out \in Seq(E), NEW i \in 0..Len(old),
         NEW r \in 0..Len(out), NEW rest \in Seq(E), NEW less \in Seq(E),
         Len(rest) = (IF i = 0 THEN Len(old) ELSE Len(old) - 1),
         \A k \in 1..Len(rest) : rest[k] = old[IF i = 0 \/ k < i THEN k ELSE k + 1],
         Len(less) = (IF r = 0 THEN Len(out) ELSE Len(out) - 1),
         \A k \in 1..Len(less) : less[k] = out[IF r = 0 \/ k < r THEN k ELSE k + 1]
  PROVE  /\ rest \o less \in Seq(E)
         /\ \E src : /\ Sourced(old, i, out, rest \o less, src)
                     /\ r = 0 => Complete(old, i, out, rest \o less, src)
<1> DEFINE new == rest \o less
           L == Len(old)
           M == Len(out)
           R == Len(rest)
           N == Len(new)
           src == [k \in 1..N |-> Place(k, L, R, i, r)]
<1>0. /\ new \in Seq(E) /\ N = R + Len(less) /\ R \in Nat /\ Len(less) \in Nat /\ N \in Nat
      /\ \A k \in 1..N : new[k] = IF k <= R THEN rest[k] ELSE less[k - R]
  BY Concat, Zenon
<1>1. L \in Nat /\ M \in Nat
  BY LenProperties
<1>3. /\ i \in 0..L /\ r \in 0..M
      /\ R = (IF i = 0 THEN L ELSE L - 1)
      /\ Len(less) = (IF r = 0 THEN M ELSE M - 1)
  OBVIOUS
<1>4. /\ \A k \in 1..R : rest[k] = old[IF i = 0 \/ k < i THEN k ELSE k + 1]
      /\ \A k \in 1..Len(less) : less[k] = out[IF r = 0 \/ k < r THEN k ELSE k + 1]
  OBVIOUS
<1> HIDE DEF new, L, M, R, N
<1>2. N = (IF r = 0 THEN R + M ELSE R + M - 1)
  BY <1>0, <1>1, <1>3
<1>a. PlacesFit(L, M, R, N, i, r)
  <2>1. N \in Nat /\ R \in Nat
    BY <1>0
  <2>2. i \in 0..L /\ r \in 0..M /\ R = (IF i = 0 THEN L ELSE L - 1)
    BY <1>3
  <2>3. QED
    BY <1>1, <1>2, <2>1, <2>2, Placed
<1>5. /\ \A k \in 1..N : src[k] \in 1..(L + M) /\ src[k] # i
      /\ \A k \in 1..N : k <= R <=> src[k] <= L
      /\ \A k, l \in 1..N : k < l => src[k] < src[l]
      /\ r = 0 => \A m \in 1..(L + M) : m # i => \E k \in 1..N : src[k] = m
  BY <1>a DEF PlacesFit
<1>6. \A k \in 1..N : src[k] = Place(k, L, R, i, r)
  OBVIOUS
<1>7. src \in [1..N -> 1..(L + M)]
  BY <1>5
<1> HIDE DEF src
<1>8. ASSUME NEW k \in 1..N
      PROVE  new[k] = IF src[k] <= L THEN old[src[k]] ELSE out[src[k] - L]
  <2>1. CASE k <= R
    <3>1. src[k] = (IF i = 0 \/ k < i THEN k ELSE k + 1) /\ src[k] <= L
      BY <1>5, <1>6, <2>1 DEF Place
    <3>2. new[k] = rest[k]
      BY <1>0, <2>1
    <3>2a. k \in 1..R
      BY <1>0, <2>1
    <3>3. QED
      BY <1>4, <3>1, <3>2, <3>2a
  <2>2. CASE ~(k <= R)
    <3> DEFINE n == k - R
    <3>1. n \in 1..Len(less)
      BY <1>0, <2>2
    <3>2. new[k] = less[n]
      BY <1>0, <2>2
    <3>3. src[k] - L = (IF r = 0 \/ n < r THEN n ELSE n + 1)
      <4>1. src[k] = (IF r = 0 \/ n < r THEN L + n ELSE L + n + 1)
        BY <1>6, <2>2 DEF Place
      <4>2. L \in Nat /\ n \in Nat
        BY <1>0, <1>1, <2>2
      <4> HIDE DEF n
      <4>3. QED
        BY <4>1, <4>2
    <3> HIDE DEF n
    <3>4. less[n] = out[src[k] - L]
      BY <1>4, <3>1, <3>3
    <3>5. QED
      BY <1>5, <2>2, <3>2, <3>4
  <2>3. QED
    BY <2>1, <2>2
<1>9. Sourced(old, i, out, new, src)
  BY <1>5, <1>7, <1>8 DEF Sourced, L, M, N
<1>10. r = 0 => Complete(old, i, out, new, src)
  BY <1>5 DEF Complete, L, M, N
<1>11. QED
  BY <1>0, <1>9, <1>10 DEF new

(* b gives each x of S another name in R, where g says what f says of x.   *)
Renames(b, f, S, g, R) ==
    /\ \A x \in S : b[x] \in R /\ g[b[x]] = f[x]
    /\ \A x, y \in S : b[x] = b[y] => x = y
    /\ \A z \in R : \E x \in S : b[x] = z

(* The sum is the same when the elements have other names.                 *)
LEMMA SumRenamed ==
  ASSUME NEW f, NEW S, Whole(f, S), NEW g, NEW R, Whole(g, R), NEW b, Renames(b, f, S, g, R)
  PROVE  SumFunctionOnSet(f, S) = SumFunctionOnSet(g, R)
<1> DEFINE Image(s) == {b[x] : x \in s}
           T == {n \in Nat : \A s \in SUBSET S : Cardinality(s) = n =>
                   SumFunctionOnSet(f, s) = SumFunctionOnSet(g, Image(s))}
<1>0. /\ \A s \in SUBSET S : Whole(f, s) /\ IsFiniteSet(s)
      /\ \A s \in SUBSET R : Whole(g, s)
  BY FS_Subset DEF Whole
<1>1. 0 \in T
  <2>1. \A s \in SUBSET S : Cardinality(s) = 0 => s = {}
    BY <1>0, FS_EmptySet
  <2>2. Image({}) = {}
    OBVIOUS
  <2> HIDE DEF Image
  <2>3. QED
    BY <2>1, <2>2, SumEmpty
<1>2. ASSUME NEW n \in Nat, n \in T PROVE n + 1 \in T
  <2> SUFFICES ASSUME NEW s \in SUBSET S, Cardinality(s) = n + 1
               PROVE  SumFunctionOnSet(f, s) = SumFunctionOnSet(g, Image(s))
    OBVIOUS
  <2>1. s # {} /\ IsFiniteSet(s)
    BY <1>0, FS_EmptySet
  <2>2. PICK x \in s : TRUE
    BY <2>1
  <2>3. s \ {x} \in SUBSET S /\ Cardinality(s \ {x}) = n
    BY <2>1, OneLess
  <2>4. SumFunctionOnSet(f, s \ {x}) = SumFunctionOnSet(g, Image(s \ {x}))
    BY <1>2, <2>3
  <2>5. Image(s \ {x}) = Image(s) \ {b[x]} /\ b[x] \in Image(s) /\ Image(s) \in SUBSET R
    BY DEF Renames
  <2>6. f[x] = g[b[x]]
    BY DEF Renames
  <2> HIDE DEF Image, T
  <2>7. SumFunctionOnSet(f, s) = f[x] + SumFunctionOnSet(f, s \ {x})
    BY <1>0, SumAny
  <2>8. SumFunctionOnSet(g, Image(s)) = g[b[x]] + SumFunctionOnSet(g, Image(s) \ {b[x]})
    BY <1>0, <2>5, SumAny
  <2>9. QED
    BY <2>4, <2>5, <2>6, <2>7, <2>8
<1>3. Image(S) = R
  BY DEF Renames
<1> HIDE DEF T, Image
<1>4. \A n \in Nat : n \in T
  BY <1>1, <1>2, Induction
<1>5. Cardinality(S) \in Nat /\ S \in SUBSET S
  BY FS_CardinalityType DEF Whole
<1>6. QED
  BY <1>3, <1>4, <1>5 DEF T

(* The sums of functions of naturals.                                      *)
LEMMA SumOfMap ==
  ASSUME NEW S, IsFiniteSet(S), NEW f \in [S -> Nat]
  PROVE  /\ SumFunction(f) = SumFunctionOnSet(f, S) /\ SumFunction(f) \in Nat
         /\ \A x \in S : f[x] <= SumFunction(f)
<1>1. DOMAIN f = S /\ Whole(f, S) /\ \A x \in S : f[x] >= 0
  BY DEF Whole
<1>2. SumFunction(f) = SumFunctionOnSet(f, S)
  BY <1>1 DEF SumFunction
<1>3. QED
  BY <1>1, <1>2, SumNat

LEMMA MapMonotone ==
  ASSUME NEW S, IsFiniteSet(S), NEW f \in [S -> Nat], NEW g \in [S -> Nat],
         \A x \in S : f[x] <= g[x]
  PROVE  SumFunction(f) <= SumFunction(g)
<1>1. Whole(f, S) /\ Whole(g, S)
  BY DEF Whole
<1>2. SumFunctionOnSet(f, S) <= SumFunctionOnSet(g, S)
  BY <1>1, SumMonotone
<1>3. QED
  BY <1>2, SumOfMap

LEMMA MapChange ==
  ASSUME NEW S, IsFiniteSet(S), NEW f \in [S -> Nat], NEW R, IsFiniteSet(R), NEW g \in [R -> Nat],
         NEW x, S \ {x} = R \ {x}, \A y \in S \ {x} : f[y] = g[y]
  PROVE  /\ SumFunction(g) = SumFunction(f) - At(f, S, x) + At(g, R, x)
         /\ SumFunction(f) \in Nat /\ SumFunction(g) \in Nat
         /\ At(f, S, x) \in Nat /\ At(g, R, x) \in Nat
<1>1. Whole(f, S) /\ Whole(g, R)
  BY DEF Whole
<1>2. SumFunctionOnSet(g, R) = SumFunctionOnSet(f, S) - At(f, S, x) + At(g, R, x)
  BY <1>1, SumChange
<1>3. At(f, S, x) \in Nat /\ At(g, R, x) \in Nat
  BY DEF At
<1>4. QED
  BY <1>2, <1>3, SumOfMap

(* Likewise of maps.                                                       *)
LEMMA MapRenamed ==
  ASSUME NEW S, IsFiniteSet(S), NEW f \in [S -> Nat], NEW R, IsFiniteSet(R), NEW g \in [R -> Nat],
         NEW b, Renames(b, f, S, g, R)
  PROVE  SumFunction(f) = SumFunction(g)
<1>1. Whole(f, S) /\ Whole(g, R)
  BY DEF Whole
<1>2. SumFunctionOnSet(f, S) = SumFunctionOnSet(g, R)
  BY <1>1, SumRenamed
<1>3. QED
  BY <1>2, SumOfMap

(* The maps f on S and g on R differ at x only.                            *)
DifferAt(x, f, S, g, R) == S \ {x} = R \ {x} /\ \A y \in S \ {x} : f[y] = g[y]

LEMMA MapDiffers ==
  ASSUME NEW S, IsFiniteSet(S), NEW f \in [S -> Nat], NEW R, IsFiniteSet(R), NEW g \in [R -> Nat],
         NEW x, DifferAt(x, f, S, g, R)
  PROVE  /\ SumFunction(g) = SumFunction(f) - At(f, S, x) + At(g, R, x)
         /\ SumFunction(f) \in Nat
  BY MapChange DEF DifferAt

(* A map that is less by n at one place, or ends there, sums to n less.    *)
LEMMA MapShrinks ==
  ASSUME NEW S, IsFiniteSet(S), NEW f \in [S -> Nat], NEW R, IsFiniteSet(R), NEW g \in [R -> Nat],
         NEW x, S \ {x} = R \ {x}, \A y \in S \ {x} : f[y] = g[y],
         x \in S, NEW n \in Nat, n <= f[x], x \in R => g[x] <= f[x] - n
  PROVE  SumFunction(g) <= SumFunction(f) - n
<1>1. SumFunction(g) = SumFunction(f) - At(f, S, x) + At(g, R, x)
  BY MapChange
<1>2. SumFunction(f) \in Nat /\ SumFunction(g) \in Nat
  BY SumOfMap
<1>3. At(f, S, x) = f[x] /\ f[x] \in Nat
  BY DEF At
<1>4. At(g, R, x) \in Nat /\ At(g, R, x) <= f[x] - n
  <2>1. CASE x \in R
    BY <1>3, <2>1 DEF At
  <2>2. CASE x \notin R
    BY <1>3, <2>2 DEF At
  <2>3. QED
    BY <2>1, <2>2
<1>5. QED
  BY <1>1, <1>2, <1>3, <1>4

(* The elements of a finite set of numbers, by how many are no greater.    *)
LEMMA InOrder ==
  ASSUME NEW S \in SUBSET Nat, IsFiniteSet(S), NEW nth,
         nth = [i \in 1..Cardinality(S) |-> CHOOSE x \in S : Cardinality({y \in S : y <= x}) = i]
  PROVE  /\ Cardinality(S) \in Nat
         /\ \A i \in 1..Cardinality(S) : nth[i] \in S
         /\ \A i, j \in 1..Cardinality(S) : i < j => nth[i] < nth[j]
         /\ \A x \in S : \E i \in 1..Cardinality(S) : nth[i] = x
<1> DEFINE rank(x) == Cardinality({y \in S : y <= x})
<1>1. Cardinality(S) \in Nat
  BY FS_CardinalityType
<1>2. ASSUME NEW i \in 1..Cardinality(S)
      PROVE  nth[i] \in S /\ rank(nth[i]) = i
  <2>1. \E x \in S : Cardinality({y \in S : y <= x}) = i
    BY NthIn
  <2>2. nth[i] = CHOOSE x \in S : Cardinality({y \in S : y <= x}) = i
    BY Zenon
  <2>3. QED
    BY <2>1, <2>2, Zenon
<1>3. ASSUME NEW x \in S, NEW z \in S, x < z
      PROVE  rank(x) \in Nat /\ rank(z) \in Nat /\ rank(x) < rank(z)
  <2> DEFINE lower == {y \in S : y <= x}
             upper == {y \in S : y <= z}
  <2>1. IsFiniteSet(lower) /\ IsFiniteSet(upper)
    BY FS_Subset
  <2>2. lower \subseteq upper /\ lower # upper
    <3>1. \A y \in S : y <= x => y <= z
      BY <1>3
    <3>2. z \in upper /\ z \notin lower
      BY <1>3
    <3>3. QED
      BY <3>1, <3>2
  <2> HIDE DEF lower, upper
  <2>3. Cardinality(lower) < Cardinality(upper)
    <3>1. /\ Cardinality(lower) <= Cardinality(upper)
          /\ Cardinality(lower) = Cardinality(upper) => lower = upper
      BY <2>1, <2>2, FS_Subset, Zenon
    <3>2. Cardinality(lower) \in Nat /\ Cardinality(upper) \in Nat
      BY <2>1, FS_CardinalityType
    <3>3. QED
      BY <2>2, <3>1, <3>2
  <2>4. Cardinality(lower) \in Nat /\ Cardinality(upper) \in Nat
    BY <2>1, FS_CardinalityType
  <2>5. QED
    BY <2>3, <2>4 DEF lower, upper
<1>4. ASSUME NEW x \in S PROVE rank(x) \in 1..Cardinality(S)
  <2> DEFINE lower == {y \in S : y <= x}
  <2>1. IsFiniteSet(lower) /\ lower \subseteq S /\ x \in lower
    BY FS_Subset
  <2> HIDE DEF lower
  <2>2. Cardinality(lower) \in Nat /\ Cardinality(lower) <= Cardinality(S) /\ Cardinality(lower) # 0
    BY <2>1, FS_Subset, FS_CardinalityType, FS_EmptySet
  <2>3. QED
    BY <1>1, <2>2 DEF lower
<1> HIDE DEF rank
<1>5. ASSUME NEW i \in 1..Cardinality(S), NEW j \in 1..Cardinality(S), i < j
      PROVE  nth[i] < nth[j]
  <2>01. PICK a, b : a = nth[i] /\ b = nth[j]
    OBVIOUS
  <2>1. a \in S /\ b \in S /\ rank(a) = i /\ rank(b) = j /\ a \in Nat /\ b \in Nat
    BY <1>2, <2>01
  <2>2. a # b
    BY <1>5, <2>1
  <2>3. ~(b < a)
    <3>1. SUFFICES ASSUME b < a PROVE FALSE
      OBVIOUS
    <3>2. j < i
      BY <1>3, <2>1, <3>1
    <3>3. QED
      BY <1>5, <3>2
  <2>4. a < b
    BY <2>1, <2>2, <2>3
  <2>5. QED
    BY <2>01, <2>4, Zenon
<1>6. ASSUME NEW x \in S PROVE \E i \in 1..Cardinality(S) : nth[i] = x
  <2>01. PICK i \in 1..Cardinality(S) : i = rank(x)
    BY <1>4
  <2>02. PICK a : a = nth[i]
    OBVIOUS
  <2>1. a \in S /\ rank(a) = rank(x) /\ a \in Nat /\ x \in Nat
    BY <1>2, <2>01, <2>02
  <2>2. ~(a < x) /\ ~(x < a)
    BY <1>3, <2>1
  <2>3. a = x
    BY <2>1, <2>2
  <2>4. QED
    BY <2>02, <2>3, Zenon
<1>7. QED
  BY <1>1, <1>2, <1>5, <1>6

-----------------------------------------------------------------------------
(* The components.                                                         *)
AccountTypeOK ==
    /\ PortfolioTypeOK /\ ExecutionTypeOK /\ RiskTypeOK
    /\ IsFiniteSet(DOMAIN holds) /\ IsFiniteSet(DOMAIN openOrders)
    /\ IsFiniteSet(appliedFills)

-----------------------------------------------------------------------------
(* Money.                                                                  *)

LEMMA ScaledByNat ==
  ASSUME NEW amount \in Nat, NEW percent \in Nat
  PROVE  ScaledBy(amount, percent) \in Nat
<1>1. amount * percent + 50 \in Nat
  OBVIOUS
<1>2. QED
  BY <1>1 DEF ScaledBy

LEMMA FeesNat ==
  ASSUME NEW shares \in Nat, NEW notional \in Nat
  PROVE  FeesOn(shares, notional) \in Nat
<1>1. PerShareFee * shares \in Nat
  BY FeesAssumption
<1>2. ScaledBy(notional, FeePercent) \in Nat
  BY FeesAssumption, ScaledByNat
<1>3. QED
  BY <1>1, <1>2, FeesAssumption DEF FeesOn

LEMMA BuyCostNat ==
  ASSUME PortfolioTypeOK, NEW symbol \in Symbols, NEW quantity \in Nat,
         NEW limit \in Nat \cup {None}, CanPrice(symbol, limit)
  PROVE  BuyCost(symbol, quantity, limit) \in Nat
<1> DEFINE notional == IF limit # None THEN limit * quantity
                       ELSE ScaledBy(marks[symbol] * quantity, 100 + BuyBuffer)
<1>1. notional \in Nat
  <2>1. CASE limit # None
    BY <2>1
  <2>2. CASE limit = None
    <3>1. marks[symbol] \in Nat
      BY <2>2 DEF PortfolioTypeOK, CanPrice
    <3>2. marks[symbol] * quantity \in Nat /\ 100 + BuyBuffer \in Nat
      BY <3>1, PortfolioAssumption
    <3>3. QED
      BY <2>2, <3>2, ScaledByNat
  <2>3. QED
    BY <2>1, <2>2
<1> HIDE DEF notional
<1>2. notional + FeesOn(quantity, notional) \in Nat
  <2>1. FeesOn(quantity, notional) \in Nat
    BY <1>1, FeesNat
  <2>2. QED
    BY <1>1, <2>1
<1>3. QED
  BY <1>2 DEF BuyCost, notional

LEMMA EquityInt ==
  ASSUME PortfolioTypeOK
  PROVE  TotalEquity \in Int
<1> DEFINE value == [s \in Symbols |-> ValueOf(s)]
<1>1. ASSUME NEW s \in Symbols
      PROVE  value[s] \in Int
  <2>1. position[s] \in Int /\ (s \in DOMAIN marks => marks[s] \in Int)
    BY DEF PortfolioTypeOK
  <2>2. ValueOf(s) \in Int
    BY <2>1 DEF ValueOf
  <2>3. QED
    BY <2>2
<1>2. Whole(value, Symbols)
  BY <1>1, FeesAssumption DEF Whole
<1>3. DOMAIN value = Symbols
  OBVIOUS
<1> HIDE DEF value
<1>4. SumFunction(value) \in Int
  BY <1>2, <1>3, SumInt DEF SumFunction
<1>5. QED
  BY <1>4 DEF TotalEquity, PortfolioTypeOK, value

LEMMA Rounded ==
  ASSUME NEW a \in Int, NEW n \in Int, n # 0
  PROVE  /\ DividedBy(a, n) \in Int
         /\ 2 * (n * DividedBy(a, n) - a) <= Abs(n)
         /\ -2 * (n * DividedBy(a, n) - a) <= Abs(n)
<1> DEFINE x == Abs(a)  m == Abs(n)  s == Sign(a)  t == Sign(n)
           q == (2 * x + m) \div (2 * m)
<1>1. /\ x \in Nat /\ m \in Nat /\ m >= 1 /\ s \in {-1, 1} /\ t \in {-1, 1}
      /\ a = s * x /\ n = t * m
  BY DEF Abs, Sign
<1>2. DividedBy(a, n) = s * t * q
  BY DEF DividedBy
<1> HIDE DEF x, m, s, t
<1>3. q \in Int /\ 2 * m * q <= 2 * x + m /\ 2 * x + m < 2 * m * q + 2 * m
  <2>1. \A u \in Int, v \in Int : v > 0 =>
           /\ u \div v \in Int /\ u % v \in 0..(v - 1)
           /\ u = (v * (u \div v)) + (u % v)
    OBVIOUS
  <2> DEFINE u == 2 * x + m  v == 2 * m
  <2>2. u \in Int /\ v \in Int /\ v > 0
    BY <1>1
  <2>3. q = u \div v
    OBVIOUS
  <2> HIDE DEF u, v, q
  <2>4. q \in Int /\ u % v \in 0..(v - 1) /\ u = v * q + (u % v)
    BY <2>1, <2>2, <2>3
  <2>5. v * q <= u /\ u < v * q + v
    BY <2>2, <2>4
  <2>6. QED
    BY <1>1, <2>4, <2>5 DEF u, v
<1> HIDE DEF q
<1>4. 2 * (m * q - x) <= m /\ -2 * (m * q - x) <= m
  <2>1. m * q \in Int /\ 2 * m * q = 2 * (m * q)
    BY <1>1, <1>3
  <2>2. QED
    BY <1>1, <1>3, <2>1
<1>5. n * DividedBy(a, n) = s * (m * q)
  <2>1. CASE t = 1
    BY <1>1, <1>2, <1>3, <2>1
  <2>2. CASE t = -1
    <3>1. n = -m /\ s * t * q = -(s * q)
      BY <1>1, <1>3, <2>2
    <3>2. (-m) * (-(s * q)) = s * (m * q)
      BY <1>1, <1>3
    <3>3. QED
      BY <1>2, <3>1, <3>2
  <2>3. QED
    BY <1>1, <2>1, <2>2
<1>6. DividedBy(a, n) \in Int
  BY <1>1, <1>2, <1>3
<1>7. CASE s = 1
  <2>1. n * DividedBy(a, n) = m * q /\ a = x /\ m * q \in Int
    BY <1>1, <1>3, <1>5, <1>7
  <2>2. QED
    BY <1>1, <1>4, <1>6, <2>1 DEF m
<1>8. CASE s = -1
  <2>1. n * DividedBy(a, n) = -(m * q) /\ a = -x /\ m * q \in Int
    BY <1>1, <1>3, <1>5, <1>8
  <2>2. 2 * (n * DividedBy(a, n) - a) <= m /\ -2 * (n * DividedBy(a, n) - a) <= m
    BY <1>1, <1>4, <2>1
  <2>3. QED
    BY <1>6, <2>2 DEF m
<1>9. QED
  BY <1>1, <1>7, <1>8

(* What is left of an amount r for m shares when m1 of them are left: its  *)
(* part of the amount, to half a unit.                                     *)
SharedOut(r, m, r1, m1) ==
    /\ 2 * (m * r1 - r * m1) <= m
    /\ 2 * (r * m1 - m * r1) <= m

(* A part of what is reserved is no more than all of it.                   *)
LEMMA PartOf ==
  ASSUME NEW r \in Nat, NEW n \in Nat, NEW m \in Nat, n < m
  PROVE  /\ DividedBy(r * n, m) \in 0..r
         /\ SharedOut(r, m, r - DividedBy(r * n, m), m - n)
<1>1. PICK a \in Nat : a = r * n
  OBVIOUS
<1>2. PICK d : d = DividedBy(a, m)
  OBVIOUS
<1>3. d \in Int /\ 2 * (m * d - a) <= m /\ -2 * (m * d - a) <= m /\ m > 0
  <2>1. m \in Int /\ m # 0 /\ Abs(m) = m
    BY DEF Abs
  <2>2. QED
    BY <1>1, <1>2, <2>1, Rounded
<1>4. d >= 0
  <2>1. CASE d <= -1
    <3>1. -1 - d \in Nat /\ m * (-1 - d) \in Nat
      BY <1>3, <2>1
    <3>2. m * d = -(m * (-1 - d)) - m
      BY <1>3
    <3>3. PICK e \in Nat : e = m * (-1 - d)
      BY <3>1
    <3>4. QED
      BY <1>1, <1>3, <3>2, <3>3
  <2>2. QED
    BY <1>3, <2>1
<1>5. d <= r
  <2>1. CASE d >= r + 1
    <3>1. /\ d - r - 1 \in Nat /\ m * (d - r - 1) \in Nat
          /\ m - n \in Nat /\ r * (m - n) \in Nat
      BY <1>3, <2>1
    <3>2. PICK e \in Nat, f \in Nat, x \in Int, y \in Int :
             e = m * (d - r - 1) /\ f = r * (m - n) /\ x = m * d /\ y = r * m
      BY <1>3, <3>1
    <3>3. x = e + y + m
      BY <1>3, <3>2
    <3>4. y = a + f
      BY <1>1, <3>2
    <3>5. 2 * (x - a) <= m
      BY <1>3, <3>2
    <3>6. QED
      BY <1>1, <1>3, <3>2, <3>3, <3>4, <3>5
  <2>2. QED
    BY <1>3, <2>1
<1>6. m * (r - d) - r * (m - n) = a - m * d /\ r * (m - n) - m * (r - d) = m * d - a
  BY <1>1, <1>3
<1>7. SharedOut(r, m, r - d, m - n)
  <2>1. m * d \in Int /\ 2 * (a - m * d) <= m
    BY <1>1, <1>3
  <2>2. QED
    BY <1>3, <1>6, <2>1 DEF SharedOut
<1>8. QED
  BY <1>1, <1>2, <1>3, <1>4, <1>5, <1>7

-----------------------------------------------------------------------------
(* The simulator.                                                          *)

LEMMA NewOrderTyped ==
  ASSUME ExecutionTypeOK, NEW signal \in Signals, NEW now \in Nat
  PROVE  NewOrder(signal, now) \in Orders
<1>1. /\ signal.id \in Nat /\ signal.symbol \in Symbols /\ signal.quantity \in Nat
      /\ signal.limit \in Nat \cup {None} /\ signal.decided \in Nat
  BY DEF Signals
<1>2. Len(issued) + 1 \in Nat
  BY DEF ExecutionTypeOK
<1>3. OrderSide(signal) \in Sides
  BY DEF OrderSide, Sides
<1>4. QED
  BY <1>1, <1>2, <1>3 DEF NewOrder, Orders

LEMMA SubmitTyped ==
  ASSUME ExecutionTypeOK, NEW signal \in Signals, NEW now \in Nat, Submit(signal, now)
  PROVE  ExecutionTypeOK'
<1> DEFINE order == NewOrder(signal, now)
<1>1. order \in Orders /\ order.id = Len(issued) + 1
  BY NewOrderTyped DEF NewOrder
<1>2. signal.id \in Nat
  BY DEF Signals
<1>3. /\ issued' \in Seq(Nat) /\ Len(issued') = Len(issued) + 1 /\ Len(issued) \in Nat
  BY <1>2 DEF Submit, ExecutionTypeOK
<1>4. working' = IF Refused(signal) THEN working
                 ELSE [o \in DOMAIN working \cup {order.id} |->
                         IF o = order.id THEN order ELSE working[o]]
  BY Zenon DEF Submit
<1> HIDE DEF order
<1>5. /\ DOMAIN working \subseteq DOMAIN working'
      /\ \A o \in DOMAIN working' :
            \/ o \in DOMAIN working /\ working'[o] = working[o]
            \/ o = order.id /\ working'[o] = order
  BY <1>4
<1>6. DOMAIN working' \subseteq 1..Len(issued')
  BY <1>1, <1>3, <1>5 DEF ExecutionTypeOK
<1>7. \A o \in DOMAIN working' : working'[o] \in Orders /\ working'[o].id = o
  BY <1>1, <1>5 DEF ExecutionTypeOK
<1>8. UNCHANGED <<fillsIssued, fillCounts>>
  BY DEF Submit
<1>9. QED
  BY <1>3, <1>5, <1>6, <1>7, <1>8 DEF ExecutionTypeOK

(* An execution is of an order that is older than the bar, at a positive   *)
(* price and for no more shares than remain.                               *)
Filling(market, fills, o) ==
    /\ o \in DOMAIN working /\ working[o] \in Orders /\ working[o].id = o
    /\ working[o].symbol = market.symbol /\ working[o].created < market.time
    /\ fills[o] \in 1..Remaining(working[o])
    /\ WholeFills => fills[o] = Remaining(working[o])
    /\ LimitReached(working[o], market.open)
    /\ FillPrice(working[o], market.open) \in Nat

LEMMA Fillings ==
  ASSUME ExecutionTypeOK, NEW market \in MarketEvents, NEW fills \in FillChoices(market)
  PROVE  /\ \A o \in Executes(market, fills) : Filling(market, fills, o)
         /\ IsFiniteSet(Executes(market, fills)) /\ Executes(market, fills) \in SUBSET Nat
<1>1. ASSUME NEW o \in Executes(market, fills)
      PROVE  Filling(market, fills, o)
  <2>1. /\ o \in DOMAIN working /\ working[o].symbol = market.symbol
        /\ working[o].created < market.time /\ fills[o] > 0
        /\ fills[o] \in FillSizes(working[o], market)
    BY DEF Executes, Eligible, FillChoices
  <2>2. working[o] \in Orders /\ working[o].id = o /\ market.open \in Nat
    BY <2>1 DEF ExecutionTypeOK, MarketEvents
  <2>3. Executable(working[o], market.open)
    BY <2>1 DEF FillSizes
  <2>4. /\ fills[o] \in 1..Remaining(working[o])
        /\ WholeFills => fills[o] = Remaining(working[o])
    <3>1. Remaining(working[o]) \in Int
      BY <2>2 DEF Remaining, Orders
    <3>2. QED
      BY <2>1, <2>3, <3>1 DEF FillSizes
  <2>5. FillPrice(working[o], market.open) \in Int
    <3> DEFINE slip == ScaledBy(market.open, SlipPercent)
    <3>1. slip \in Nat
      BY <2>2, FeesAssumption, ScaledByNat
    <3>2. working[o].limit = None \/ working[o].limit \in Int
      BY <2>2 DEF Orders
    <3> HIDE DEF slip
    <3> DEFINE moved == IF working[o].side = "Buy" THEN market.open + slip ELSE market.open - slip
    <3>3. moved \in Int
      BY <2>2, <3>1
    <3> HIDE DEF moved
    <3>4. \A a, b \in Int : Min({a, b}) \in Int /\ Max({a, b}) \in Int
      BY DEF Min, Max
    <3>5. FillPrice(working[o], market.open) =
            IF working[o].limit = None THEN moved
            ELSE IF working[o].side = "Buy" THEN Min({moved, working[o].limit})
            ELSE Max({moved, working[o].limit})
      BY DEF FillPrice, moved, slip
    <3>6. QED
      BY <3>2, <3>3, <3>4, <3>5
  <2>6. QED
    BY <2>1, <2>2, <2>3, <2>4, <2>5 DEF Filling, Executable
<1>2. IsFiniteSet(Executes(market, fills)) /\ Executes(market, fills) \in SUBSET Nat
  <2>1. Executes(market, fills) \in SUBSET (1..Len(issued)) /\ Len(issued) \in Nat
    BY DEF Executes, Eligible, ExecutionTypeOK
  <2>2. IsFiniteSet(1..Len(issued))
    BY <2>1, FS_Interval
  <2>3. QED
    BY <2>1, <2>2, FS_Subset
<1>3. QED
  BY <1>1, <1>2

LEMMA ExecutedTyped ==
  ASSUME NEW order \in Orders, NEW shares \in Nat
  PROVE  LET done == Executed(order, shares) IN
         /\ done \in Orders /\ done.type = "Order"
         /\ done.status = IF shares >= Remaining(order) THEN "Filled" ELSE "PartiallyFilled"
         /\ Remaining(done) = Remaining(order) - shares
         /\ done.id = order.id /\ done.signal = order.signal /\ done.symbol = order.symbol
         /\ done.side = order.side /\ done.limit = order.limit
         /\ done.quantity = order.quantity /\ done.filled = order.filled + shares
         /\ done.created = order.created /\ done.decided = order.decided
<1> DEFINE done == Executed(order, shares)
           status == IF order.filled + shares >= order.quantity THEN "Filled" ELSE "PartiallyFilled"
<1>1. order.filled \in Nat /\ order.quantity \in Nat
  BY DEF Orders
<1>2. done = [order EXCEPT !.filled = order.filled + shares, !.status = status]
  BY DEF Executed
<1>3. status \in {"PartiallyFilled", "Filled"}
  OBVIOUS
<1>4. (order.filled + shares >= order.quantity) <=> (shares >= Remaining(order))
  BY <1>1 DEF Remaining
<1> HIDE DEF status, done
<1>5. /\ done.status = status /\ done.filled = order.filled + shares
      /\ done.id = order.id /\ done.signal = order.signal /\ done.symbol = order.symbol
      /\ done.side = order.side /\ done.limit = order.limit /\ done.type = "Order"
      /\ done.quantity = order.quantity
      /\ done.created = order.created /\ done.decided = order.decided
  BY <1>2 DEF Orders
<1>6. done \in Orders
  <2>1. done = [type |-> "Order", id |-> order.id, signal |-> order.signal,
                symbol |-> order.symbol, side |-> order.side, limit |-> order.limit,
                quantity |-> order.quantity, filled |-> order.filled + shares,
                created |-> order.created, status |-> status, decided |-> order.decided]
    BY <1>2 DEF Orders
  <2>2. order.filled + shares \in Nat
    BY <1>1
  <2>3. QED
    BY <1>3, <2>1, <2>2 DEF Orders
<1>7. Remaining(done) = Remaining(order) - shares
  BY <1>1, <1>5 DEF Remaining
<1>8. QED
  BY <1>4, <1>5, <1>6, <1>7 DEF done, status

LEMMA FillTyped ==
  ASSUME ExecutionTypeOK, NEW market \in MarketEvents, NEW fills, NEW o,
         Filling(market, fills, o), NEW id \in Nat
  PROVE  FillOf(market, working[o], fills[o], id) \in Fills
<1> DEFINE order == working[o]
           shares == fills[o]
           price == FillPrice(order, market.open)
<1>1. /\ order \in Orders /\ order.id = o /\ price \in Nat /\ shares \in Nat
      /\ Remaining(order) \in Nat
  BY DEF Filling, Remaining, Orders
<1>2. FillCount(order.id) + 1 \in Nat
  BY DEF FillCount, ExecutionTypeOK
<1>3. market.time \in Nat
  BY DEF MarketEvents
<1>4. /\ order.id \in Nat /\ order.symbol \in Symbols /\ order.decided \in Nat
  BY <1>1 DEF Orders
<1>5. price * shares \in Nat
  BY <1>1
<1> HIDE DEF price
<1>6. FeesOn(shares, price * shares) \in Nat
  BY <1>1, <1>5, FeesNat
<1>7. Executed(order, shares).status \in {"PartiallyFilled", "Filled"}
  BY <1>1, ExecutedTyped
<1>8. (IF order.side = "Buy" THEN shares ELSE -shares) \in Int
  BY <1>1
<1> HIDE DEF order, shares
<1>9. FillOf(market, order, shares, id) \in Fills
  BY <1>1, <1>2, <1>3, <1>4, <1>6, <1>7, <1>8 DEF FillOf, Fills, price
<1>10. QED
  BY <1>9 DEF order, shares

(* The bus hears of each execution, in the order of the orders' ids.       *)
IsFillOf(event, market, fills, o) ==
    \E id \in (fillsIssued + 1)..(fillsIssued + Cardinality(Executes(market, fills))) :
        event = FillOf(market, working[o], fills[o], id)

IsNews(event, market, fills, o) ==
    \/ event = Executed(working[o], fills[o])
    \/ IsFillOf(event, market, fills, o)

LEMMA PublicationsAre ==
  ASSUME ExecutionTypeOK, NEW market \in MarketEvents, NEW fills \in FillChoices(market),
         NEW out, out = Publications(market, fills)
  PROVE  /\ out \in Seq(Events)
         /\ \A k \in 1..Len(out) :
               \E o \in Executes(market, fills) : IsNews(out[k], market, fills, o)
         /\ \A k, l \in 1..Len(out) :
               (/\ out[k].type = "Fill" /\ out[l].type = "Fill"
                /\ out[k].order = out[l].order \/ out[k].id = out[l].id) => k = l
         /\ \A x \in Executes(market, fills) :
               \E k \in 1..Len(out) : IsFillOf(out[k], market, fills, x)
<1> DEFINE S == Executes(market, fills)
           n(k) == (k + 1) \div 2
           o(k) == Nth(S, n(k))
<1>1. /\ \A x \in S : Filling(market, fills, x)
      /\ IsFiniteSet(S) /\ S \in SUBSET Nat /\ Cardinality(S) \in Nat /\ fillsIssued \in Nat
  BY Fillings, FS_CardinalityType DEF ExecutionTypeOK
<1> HIDE DEF S
<1>2. /\ Len(out) = 2 * Cardinality(S)
      /\ \A k \in 1..Len(out) :
            out[k] = IF k % 2 = 1 THEN FillOf(market, working[o(k)], fills[o(k)], fillsIssued + n(k))
                     ELSE Executed(working[o(k)], fills[o(k)])
  <2>1. out = [k \in 1..(2 * Cardinality(S)) |->
                 IF k % 2 = 1 THEN FillOf(market, working[o(k)], fills[o(k)], fillsIssued + n(k))
                 ELSE Executed(working[o(k)], fills[o(k)])]
    BY Zenon DEF Publications, S
  <2>2. 2 * Cardinality(S) \in Nat
    BY <1>1
  <2> HIDE DEF o, n
  <2>3. QED
    BY <2>1, <2>2
<1>3. DOMAIN out = 1..Len(out) /\ out = [k \in 1..Len(out) |-> out[k]]
  <2>1. 2 * Cardinality(S) \in Nat
    BY <1>1
  <2>2. QED
    BY <2>1, Zenon, <1>2 DEF Publications, S
<1>4. \A k \in 1..Len(out) : n(k) \in 1..Cardinality(S)
  BY <1>1, <1>2
<1>5. ASSUME NEW k \in 1..Len(out)
      PROVE  o(k) \in S /\ Cardinality({y \in S : y <= o(k)}) = n(k)
  <2>1. n(k) \in 1..Cardinality(S)
    BY <1>4
  <2> HIDE DEF n
  <2>2. \E x \in S : Cardinality({y \in S : y <= x}) = n(k)
    BY <1>1, <2>1, NthIn
  <2>3. QED
    BY <2>2, Zenon DEF Nth
<1> HIDE DEF o
<1>6. \A k \in 1..Len(out) : IsNews(out[k], market, fills, o(k))
  <2> SUFFICES ASSUME NEW k \in 1..Len(out) PROVE IsNews(out[k], market, fills, o(k))
    OBVIOUS
  <2>1. fillsIssued + n(k) \in (fillsIssued + 1)..(fillsIssued + Cardinality(S))
    BY <1>1, <1>4
  <2> HIDE DEF n
  <2>2. QED
    BY <1>2, <2>1 DEF IsNews, IsFillOf, S
<1>7. \A k \in 1..Len(out) : out[k] \in Events
  <2> SUFFICES ASSUME NEW k \in 1..Len(out) PROVE out[k] \in Events
    OBVIOUS
  <2>0. fillsIssued + n(k) \in Nat
    BY <1>1, <1>4
  <2>1. Filling(market, fills, o(k)) /\ fillsIssued + n(k) \in Nat
    BY <1>1, <1>5, <2>0
  <2> HIDE DEF n
  <2>2. CASE k % 2 = 1
    BY <1>2, <2>1, <2>2, FillTyped DEF Events
  <2>3. CASE ~(k % 2 = 1)
    <3>1. working[o(k)] \in Orders /\ fills[o(k)] \in Nat
      BY <2>1 DEF Filling, Remaining, Orders
    <3>2. Executed(working[o(k)], fills[o(k)]) \in Orders
      BY <3>1, ExecutedTyped
    <3>3. QED
      BY <1>2, <2>3, <3>2 DEF Events
  <2>4. QED
    BY <2>2, <2>3
<1>8. out \in Seq(Events)
  <2>1. Len(out) \in Nat
    BY <1>1, <1>2
  <2>2. [k \in 1..Len(out) |-> out[k]] \in Seq(Events)
    BY <1>7, <2>1
  <2>3. QED
    BY <1>3, <2>2
<1>9. ASSUME NEW k \in 1..Len(out), NEW l \in 1..Len(out),
             out[k].type = "Fill", out[l].type = "Fill",
             out[k].order = out[l].order \/ out[k].id = out[l].id
      PROVE  k = l
  <2>1. \A j \in 1..Len(out) : out[j].type = "Fill" =>
           j % 2 = 1 /\ out[j].order = o(j) /\ out[j].id = fillsIssued + n(j)
    <3> SUFFICES ASSUME NEW j \in 1..Len(out), out[j].type = "Fill"
                 PROVE  j % 2 = 1 /\ out[j].order = o(j) /\ out[j].id = fillsIssued + n(j)
      OBVIOUS
    <3>1. Filling(market, fills, o(j))
      BY <1>1, <1>5
    <3> HIDE DEF n
    <3>2. working[o(j)] \in Orders /\ fills[o(j)] \in Nat /\ working[o(j)].id = o(j)
      BY <3>1 DEF Filling, Remaining, Orders
    <3>3. Executed(working[o(j)], fills[o(j)]).type = "Order"
      BY <3>2, ExecutedTyped
    <3>4. j % 2 = 1
      BY <1>2, <1>9, <3>3
    <3>5. QED
      BY <1>2, <3>2, <3>4 DEF FillOf
  <2>2. n(k) = n(l)
    <3>1. n(k) \in Int /\ n(l) \in Int
      BY <1>4
    <3>2. out[k].order = o(k) /\ out[k].id = fillsIssued + n(k)
      BY <1>9, <2>1
    <3>3. out[l].order = o(l) /\ out[l].id = fillsIssued + n(l)
      BY <1>9, <2>1
    <3> HIDE DEF n
    <3>4. CASE out[k].order = out[l].order
      BY <1>5, <3>2, <3>3, <3>4
    <3>5. CASE out[k].id = out[l].id
      BY <1>1, <3>1, <3>2, <3>3, <3>5
    <3>6. QED
      BY <1>9, <3>4, <3>5
  <2>3. k % 2 = 1 /\ l % 2 = 1
    BY <1>9, <2>1
  <2>4. QED
    <3>1. k \in Int /\ l \in Int
      BY <1>1, <1>2
    <3>2. QED
      BY <3>1, <2>2, <2>3
<1>10. ASSUME NEW x \in S
       PROVE  \E k \in 1..Len(out) : IsFillOf(out[k], market, fills, x)
  <2> DEFINE nth == [i \in 1..Cardinality(S) |-> CHOOSE y \in S : Cardinality({z \in S : z <= y}) = i]
  <2>1. PICK i \in 1..Cardinality(S) : nth[i] = x
    <3> HIDE DEF nth
    <3>1. /\ \A y \in S : \E i \in 1..Cardinality(S) : nth[i] = y
      BY <1>1, InOrder, Zenon DEF nth
    <3>2. QED
      BY <3>1
  <2>2. Nth(S, i) = x
    <3>1. nth[i] = CHOOSE y \in S : Cardinality({z \in S : z <= y}) = i
      BY Zenon
    <3> HIDE DEF nth
    <3>2. QED
      BY <2>1, <3>1, Zenon DEF Nth
  <2>3. PICK k \in 1..Len(out) : k % 2 = 1 /\ n(k) = i
    <3>1. /\ 2 * i - 1 \in 1..(2 * Cardinality(S)) /\ (2 * i - 1) % 2 = 1
          /\ ((2 * i - 1) + 1) \div 2 = i
      BY <1>1
    <3>2. QED
      BY <1>2, <3>1
  <2>4. o(k) = x /\ fillsIssued + n(k) \in (fillsIssued + 1)..(fillsIssued + Cardinality(S))
    <3>1. fillsIssued + i \in (fillsIssued + 1)..(fillsIssued + Cardinality(S))
      BY <1>1
    <3> HIDE DEF n
    <3>2. QED
      BY <2>2, <2>3, <3>1 DEF o
  <2> HIDE DEF n
  <2>5. QED
    BY <1>2, <2>3, <2>4 DEF IsFillOf, S
<1>11. QED
  BY <1>5, <1>6, <1>8, <1>9, <1>10 DEF S

(* What is left at work: orders that did not execute and those that did in *)
(* part.                                                                   *)
LEMMA ExecuteLeaves ==
  ASSUME ExecutionTypeOK, NEW market \in MarketEvents, NEW fills \in FillChoices(market),
         Execute(market, fills)
  PROVE  /\ ExecutionTypeOK' /\ issued' = issued
         /\ fillsIssued' = fillsIssued + Cardinality(Executes(market, fills))
         /\ DOMAIN working' \subseteq DOMAIN working
         /\ \A o \in DOMAIN working' :
               \/ working'[o] = working[o] /\ o \notin Executes(market, fills)
               \/ /\ o \in Executes(market, fills) /\ fills[o] < Remaining(working[o])
                  /\ working'[o] = Executed(working[o], fills[o])
         /\ \A o \in DOMAIN working :
               (o \in Executes(market, fills) => fills[o] < Remaining(working[o]))
                  => o \in DOMAIN working'
         /\ \A o \in DOMAIN working' : FillCount(o)' = 
               FillCount(o) + IF o \in Executes(market, fills) THEN 1 ELSE 0
<1> DEFINE hit == Executes(market, fills)
           done == {o \in hit : fills[o] >= Remaining(working[o])}
<1>1. /\ \A o \in hit : Filling(market, fills, o)
      /\ IsFiniteSet(hit) /\ Cardinality(hit) \in Nat
  BY Fillings, FS_CardinalityType
<1>2. /\ working' = [o \in DOMAIN working \ done |->
                       IF o \in hit THEN Executed(working[o], fills[o]) ELSE working[o]]
      /\ fillCounts' = [o \in (DOMAIN fillCounts \cup hit) \ done |->
                          FillCount(o) + IF o \in hit THEN 1 ELSE 0]
      /\ fillsIssued' = fillsIssued + Cardinality(hit) /\ issued' = issued
  BY Zenon DEF Execute
<1> HIDE DEF hit
<1>3. \A o \in hit : fills[o] \in Nat /\ working[o] \in Orders /\ working[o].id = o
                     /\ o \in DOMAIN working /\ Remaining(working[o]) \in Int
  BY <1>1 DEF Filling, Remaining, Orders
<1>4. /\ DOMAIN working' \subseteq DOMAIN working
      /\ \A o \in DOMAIN working :
            (o \in hit => fills[o] < Remaining(working[o])) => o \in DOMAIN working'
      /\ \A o \in DOMAIN working' :
            \/ working'[o] = working[o] /\ o \notin hit
            \/ /\ o \in hit /\ fills[o] < Remaining(working[o])
               /\ working'[o] = Executed(working[o], fills[o])
  <2>1. \A o \in hit : (fills[o] >= Remaining(working[o])) <=> ~(fills[o] < Remaining(working[o]))
    BY <1>3
  <2>2. QED
    BY <1>2, <1>3, <2>1
<1>5. \A o \in DOMAIN working' : working'[o] \in Orders /\ working'[o].id = o
  <2> SUFFICES ASSUME NEW o \in DOMAIN working'
               PROVE  working'[o] \in Orders /\ working'[o].id = o
    OBVIOUS
  <2>1. CASE working'[o] = working[o]
    BY <1>4, <2>1 DEF ExecutionTypeOK
  <2>2. CASE o \in hit /\ working'[o] = Executed(working[o], fills[o])
    BY <1>3, <2>2, ExecutedTyped
  <2>3. QED
    BY <1>4, <2>1, <2>2
<1>6. \A o : FillCount(o) \in Nat
  BY DEF FillCount, ExecutionTypeOK
<1>7. /\ DOMAIN fillCounts' \subseteq DOMAIN working'
      /\ \A o \in DOMAIN fillCounts' : fillCounts'[o] \in Nat
  BY <1>2, <1>3, <1>6 DEF ExecutionTypeOK
<1>8. fillsIssued' \in Nat
  BY <1>1, <1>2 DEF ExecutionTypeOK
<1>9. ExecutionTypeOK'
  BY <1>2, <1>4, <1>5, <1>7, <1>8 DEF ExecutionTypeOK
<1>10. \A o \in DOMAIN working' : FillCount(o)' = FillCount(o) + IF o \in hit THEN 1 ELSE 0
  <2> SUFFICES ASSUME NEW o \in DOMAIN working'
               PROVE  FillCount(o)' = FillCount(o) + IF o \in hit THEN 1 ELSE 0
    OBVIOUS
  <2>1. o \in DOMAIN fillCounts' <=> (o \in DOMAIN fillCounts \/ o \in hit)
    BY <1>2, <1>4
  <2>2. CASE o \in DOMAIN fillCounts \/ o \in hit
    BY <1>2, <2>1, <2>2 DEF FillCount
  <2>3. CASE ~(o \in DOMAIN fillCounts \/ o \in hit)
    BY <2>1, <2>3 DEF FillCount
  <2>4. QED
    BY <2>2, <2>3
<1>11. QED
  BY <1>2, <1>4, <1>9, <1>10 DEF hit
-----------------------------------------------------------------------------
(* The portfolio.                                                          *)

LEMMA PutIs ==
  ASSUME NEW f, NEW k, NEW v
  PROVE  /\ DOMAIN Put(f, k, v) = DOMAIN f \cup {k}
         /\ Put(f, k, v)[k] = v
         /\ \A x \in DOMAIN f : x # k => Put(f, k, v)[x] = f[x]
BY DEF Put

LEMMA DropIs ==
  ASSUME NEW f, NEW k
  PROVE  /\ DOMAIN Drop(f, k) = DOMAIN f \ {k}
         /\ \A x \in DOMAIN f \ {k} : Drop(f, k)[x] = f[x]
BY DEF Drop

(* A finite map of values of V.                                            *)
MapOf(f, K, V) ==
    DOMAIN f \subseteq K /\ IsFiniteSet(DOMAIN f) /\ \A x \in DOMAIN f : f[x] \in V

LEMMA PutTyped ==
  ASSUME NEW f, NEW K, NEW V, MapOf(f, K, V), NEW k \in K, NEW v \in V
  PROVE  MapOf(Put(f, k, v), K, V)
<1>1. IsFiniteSet(DOMAIN f \cup {k})
  BY FS_AddElement, Zenon DEF MapOf
<1>2. DOMAIN Put(f, k, v) = DOMAIN f \cup {k}
  BY PutIs
<1>3. IsFiniteSet(DOMAIN Put(f, k, v))
  BY <1>1, <1>2, Zenon
<1>4. \A x \in DOMAIN Put(f, k, v) : Put(f, k, v)[x] \in V
  BY DEF Put, MapOf
<1>5. QED
  BY <1>2, <1>3, <1>4 DEF MapOf

LEMMA DropTyped ==
  ASSUME NEW f, NEW K, NEW V, MapOf(f, K, V), NEW k
  PROVE  MapOf(Drop(f, k), K, V)
<1>1. IsFiniteSet(DOMAIN f \ {k})
  BY FS_Subset DEF MapOf
<1>2. DOMAIN Drop(f, k) = DOMAIN f \ {k}
  BY DropIs
<1>3. IsFiniteSet(DOMAIN Drop(f, k))
  BY <1>1, <1>2, Zenon
<1>4. \A x \in DOMAIN Drop(f, k) : Drop(f, k)[x] \in V
  BY DEF Drop, MapOf
<1>5. QED
  BY <1>2, <1>3, <1>4 DEF MapOf

LEMMA HoldTyped ==
  ASSUME AccountTypeOK, NEW signal \in Signals, HoldForSignal(signal)
  PROVE  /\ PortfolioTypeOK' /\ IsFiniteSet(DOMAIN holds') /\ IsFiniteSet(DOMAIN openOrders')
         /\ IsFiniteSet(appliedFills')
<1>1. UNCHANGED <<cash, position, marks, openOrders, closed, lastSequence, appliedFills>>
  BY DEF HoldForSignal
<1>2. CASE signal.id \in DOMAIN holds
  <2>1. holds' = holds
    BY <1>2 DEF HoldForSignal
  <2>2. QED
    BY <1>1, <2>1 DEF AccountTypeOK, PortfolioTypeOK
<1>3. CASE signal.id \notin DOMAIN holds
  <2>1. holds' = Put(holds, signal.id, HoldFor(signal))
    BY <1>3 DEF HoldForSignal
  <2>2. /\ signal.id \in Nat /\ signal.symbol \in Symbols /\ signal.quantity \in Nat
        /\ signal.limit \in Nat \cup {None}
    BY DEF Signals
  <2>3. OrderSide(signal) \in Sides
    BY DEF OrderSide, Sides
  <2>4. OrderSide(signal) # "Sell" => CanPrice(signal.symbol, signal.limit)
    BY <1>3 DEF HoldForSignal, HoldGranted
  <2>5. HoldFor(signal) \in Holds
    <3>1. (IF OrderSide(signal) = "Sell" THEN 0
           ELSE BuyCost(signal.symbol, signal.quantity, signal.limit)) \in Nat
      BY <2>2, <2>4, BuyCostNat DEF AccountTypeOK
    <3>2. QED
      BY <2>2, <2>3, <3>1 DEF HoldFor, Holds
  <2>6. MapOf(holds, Nat, Holds)
    BY DEF MapOf, AccountTypeOK, PortfolioTypeOK
  <2>7. MapOf(holds', Nat, Holds)
    BY <2>1, <2>2, <2>5, <2>6, PutTyped
  <2>8. QED
    BY <1>1, <2>7 DEF MapOf, AccountTypeOK, PortfolioTypeOK
<1>4. QED
  BY <1>2, <1>3

LEMMA OrderUpdateTyped ==
  ASSUME AccountTypeOK, NEW order \in Orders, ApplyOrderUpdate(order)
  PROVE  /\ PortfolioTypeOK' /\ IsFiniteSet(DOMAIN holds') /\ IsFiniteSet(DOMAIN openOrders')
         /\ IsFiniteSet(appliedFills')
<1>1. UNCHANGED <<cash, position, marks, lastSequence, appliedFills>>
  BY DEF ApplyOrderUpdate
<1>2. /\ order.id \in Nat /\ order.signal \in Nat /\ order.symbol \in Symbols
      /\ order.side \in Sides /\ order.quantity \in Nat /\ order.filled \in Nat
      /\ order.limit \in Nat \cup {None}
  BY DEF Orders
<1>3. /\ MapOf(Drop(holds, order.signal), Nat, Holds)
      /\ MapOf(openOrders, Nat, PendingOrders)
  <2>1. MapOf(holds, Nat, Holds) /\ MapOf(openOrders, Nat, PendingOrders)
    BY DEF MapOf, AccountTypeOK, PortfolioTypeOK
  <2>2. QED
    BY <2>1, DropTyped
<1>4. CASE OpenOrder(order)
  <2>1. order.quantity > order.filled
    BY <1>4 DEF OpenOrder, Opens
  <2>2. order.quantity - order.filled \in Nat
    BY <1>2, <2>1
  <2> DEFINE reserved == IF order.signal \in DOMAIN holds THEN holds[order.signal].amount
                         ELSE IF order.side = "Buy" /\ CanPrice(order.symbol, order.limit)
                         THEN BuyCost(order.symbol, order.quantity - order.filled, order.limit)
                         ELSE 0
  <2>3. reserved \in Nat
    <3>1. CASE order.signal \in DOMAIN holds
      BY <3>1 DEF AccountTypeOK, PortfolioTypeOK, Holds
    <3>2. CASE order.signal \notin DOMAIN holds
      BY <1>2, <2>2, <3>2, BuyCostNat DEF AccountTypeOK
    <3>3. QED
      BY <3>1, <3>2
  <2> HIDE DEF reserved
  <2>4. Pending(order) \in PendingOrders
    BY <1>2, <2>2, <2>3 DEF Pending, PendingOrders, reserved
  <2>5. openOrders' = Put(openOrders, order.id, Pending(order))
    BY <1>4 DEF OpenOrder
  <2>6. MapOf(openOrders', Nat, PendingOrders)
    BY <1>2, <1>3, <2>4, <2>5, PutTyped
  <2>7. holds' = Drop(holds, order.signal) /\ closed' = closed
    BY <1>4 DEF OpenOrder
  <2>8. QED
    BY <1>1, <1>3, <2>6, <2>7 DEF MapOf, AccountTypeOK, PortfolioTypeOK
<1>5. CASE ReleaseOrder(order)
  <2>1. /\ openOrders' = Drop(openOrders, order.id) /\ holds' = Drop(holds, order.signal)
        /\ closed' = closed \cup {order.id}
    BY <1>5 DEF ReleaseOrder
  <2>2. MapOf(openOrders', Nat, PendingOrders)
    BY <1>3, <2>1, DropTyped
  <2>3. QED
    BY <1>1, <1>2, <1>3, <2>1, <2>2 DEF MapOf, AccountTypeOK, PortfolioTypeOK
<1>6. CASE IgnoreOrder(order)
  BY <1>1, <1>6 DEF IgnoreOrder, AccountTypeOK, PortfolioTypeOK
<1>7. QED
  BY <1>4, <1>5, <1>6 DEF ApplyOrderUpdate

LEMMA SharesOfFill ==
  ASSUME NEW fill \in Fills
  PROVE  Shares(fill) \in Nat /\ fill.quantity \in Int
         /\ (fill.quantity = Shares(fill) \/ fill.quantity = -Shares(fill))
<1>1. fill.quantity \in Int
  BY DEF Fills
<1>2. QED
  BY <1>1 DEF Shares

(* What a fill leaves of the order it is of.                               *)
LEMMA ReleaseLeaves ==
  ASSUME AccountTypeOK, NEW fill \in Fills, ReleaseForFill(fill)
  PROVE  /\ MapOf(openOrders', Nat, PendingOrders)
         /\ DOMAIN openOrders' = DOMAIN openOrders \ {o \in {fill.order} : EndsOrder(fill)}
         /\ \A o \in DOMAIN openOrders' : o # fill.order => openOrders'[o] = openOrders[o]
         /\ fill.order \in DOMAIN openOrders' =>
               /\ Shares(fill) < openOrders[fill.order].remaining
               /\ openOrders'[fill.order].remaining = openOrders[fill.order].remaining - Shares(fill)
               /\ openOrders'[fill.order].side = openOrders[fill.order].side
               /\ openOrders'[fill.order].symbol = openOrders[fill.order].symbol
               /\ openOrders'[fill.order].signal = openOrders[fill.order].signal
               /\ openOrders'[fill.order].reserved <= openOrders[fill.order].reserved
               /\ SharedOut(openOrders[fill.order].reserved, openOrders[fill.order].remaining,
                            openOrders'[fill.order].reserved, openOrders'[fill.order].remaining)
         /\ closed' \subseteq Nat
<1>1. MapOf(openOrders, Nat, PendingOrders)
  BY DEF MapOf, AccountTypeOK, PortfolioTypeOK
<1>2. Shares(fill) \in Nat /\ fill.order \in Nat
  BY SharesOfFill DEF Fills
<1>3. closed' \subseteq Nat
  BY <1>2 DEF ReleaseForFill, AccountTypeOK, PortfolioTypeOK
<1>4. \A o \in DOMAIN openOrders :
         /\ openOrders[o] \in PendingOrders
         /\ openOrders[o].remaining \in Nat /\ openOrders[o].reserved \in Nat
  BY <1>1 DEF MapOf, PendingOrders
<1>5. CASE fill.order \notin DOMAIN openOrders
  <2>1. openOrders' = openOrders
    BY <1>5 DEF ReleaseForFill
  <2>2. DOMAIN openOrders' = DOMAIN openOrders \ {o \in {fill.order} : EndsOrder(fill)}
    BY <1>5, <2>1
  <2>3. QED
    BY <1>1, <1>3, <1>5, <2>1, <2>2
<1>6. CASE fill.order \in DOMAIN openOrders /\ EndsOrder(fill)
  <2>1. openOrders' = Drop(openOrders, fill.order)
    BY <1>6 DEF ReleaseForFill
  <2>2. MapOf(openOrders', Nat, PendingOrders)
    BY <1>1, <2>1, DropTyped
  <2>3. /\ DOMAIN openOrders' = DOMAIN openOrders \ {fill.order}
        /\ \A o \in DOMAIN openOrders' : openOrders'[o] = openOrders[o]
    BY <2>1 DEF Drop
  <2>4. QED
    BY <1>3, <1>4, <1>6, <2>2, <2>3
<1>7. CASE fill.order \in DOMAIN openOrders /\ ~EndsOrder(fill)
  <2> DEFINE order == openOrders[fill.order]
             part == DividedBy(order.reserved * Shares(fill), order.remaining)
             after == AfterFill(order, Shares(fill))
  <2>1. openOrders' = [openOrders EXCEPT ![fill.order] = after]
    BY <1>7 DEF ReleaseForFill
  <2>2. Shares(fill) < order.remaining /\ order \in PendingOrders
    BY <1>2, <1>4, <1>7 DEF EndsOrder
  <2>3. order.remaining \in Nat /\ order.reserved \in Nat
    BY <1>4, <1>7
  <2>4. /\ part \in 0..order.reserved
        /\ SharedOut(order.reserved, order.remaining, order.reserved - part,
                     order.remaining - Shares(fill))
    BY <1>2, <2>2, <2>3, PartOf
  <2>5. after = [order EXCEPT !.reserved = order.reserved - part,
                              !.remaining = order.remaining - Shares(fill)]
    BY DEF AfterFill
  <2> HIDE DEF part, order, after
  <2>6. order.reserved - part \in Nat /\ order.remaining - Shares(fill) \in Nat
    BY <1>2, <2>2, <2>3, <2>4
  <2>7. /\ after.reserved = order.reserved - part
        /\ after.remaining = order.remaining - Shares(fill)
        /\ after.side = order.side /\ after.symbol = order.symbol
        /\ after.signal = order.signal
    BY <2>2, <2>5 DEF PendingOrders
  <2>8. after \in PendingOrders
    <3>1. after = [signal |-> order.signal, symbol |-> order.symbol, side |-> order.side,
                   remaining |-> order.remaining - Shares(fill),
                   reserved |-> order.reserved - part]
      BY <2>2, <2>5 DEF PendingOrders
    <3>2. QED
      BY <2>2, <2>6, <3>1 DEF PendingOrders
  <2>9. /\ DOMAIN openOrders' = DOMAIN openOrders
        /\ openOrders'[fill.order] = after
        /\ \A o \in DOMAIN openOrders : o # fill.order => openOrders'[o] = openOrders[o]
    BY <1>7, <2>1
  <2>10. MapOf(openOrders', Nat, PendingOrders)
    BY <1>1, <2>8, <2>9 DEF MapOf
  <2>11. /\ after.reserved <= order.reserved
         /\ SharedOut(order.reserved, order.remaining, after.reserved, after.remaining)
    BY <2>3, <2>4, <2>7
  <2>12. DOMAIN openOrders' = DOMAIN openOrders \ {o \in {fill.order} : EndsOrder(fill)}
    BY <1>7, <2>9
  <2>13. fill.order \in DOMAIN openOrders' =>
            /\ Shares(fill) < openOrders[fill.order].remaining
            /\ openOrders'[fill.order].remaining = openOrders[fill.order].remaining - Shares(fill)
            /\ openOrders'[fill.order].side = openOrders[fill.order].side
            /\ openOrders'[fill.order].symbol = openOrders[fill.order].symbol
            /\ openOrders'[fill.order].signal = openOrders[fill.order].signal
            /\ openOrders'[fill.order].reserved <= openOrders[fill.order].reserved
            /\ SharedOut(openOrders[fill.order].reserved, openOrders[fill.order].remaining,
                         openOrders'[fill.order].reserved, openOrders'[fill.order].remaining)
    BY <2>2, <2>7, <2>9, <2>11 DEF order
  <2>14. QED
    BY <1>3, <2>9, <2>10, <2>12, <2>13
<1>8. QED
  BY <1>5, <1>6, <1>7

LEMMA FillApplied ==
  ASSUME AccountTypeOK, NEW fill \in Fills, NEW mark \in Nat, ApplyFill(fill, mark)
  PROVE  /\ PortfolioTypeOK' /\ IsFiniteSet(DOMAIN holds') /\ IsFiniteSet(DOMAIN openOrders')
         /\ IsFiniteSet(appliedFills')
<1>1. /\ fill.id \in Nat /\ fill.order \in Nat /\ fill.symbol \in Symbols /\ fill.price \in Nat
      /\ fill.fees \in Nat /\ fill.sequence \in Nat /\ fill.quantity \in Int
  BY DEF Fills
<1>2. holds' = holds
  BY DEF ApplyFill
<1>3. MapOf(openOrders', Nat, PendingOrders) /\ closed' \subseteq Nat
  BY ReleaseLeaves DEF ApplyFill
<1>4. cash' \in Int
  <2>1. fill.price * fill.quantity \in Int
    BY <1>1
  <2>2. QED
    BY <1>1, <2>1 DEF ApplyFill, AccountTypeOK, PortfolioTypeOK
<1>5. position' \in [Symbols -> Int]
  BY <1>1 DEF ApplyFill, AccountTypeOK, PortfolioTypeOK
<1>6. MapOf(marks', Symbols, Nat)
  <2>1. MapOf(marks, Symbols, Nat)
    BY FeesAssumption, FS_Subset DEF MapOf, AccountTypeOK, PortfolioTypeOK
  <2>2. QED
    BY <1>1, <2>1, PutTyped DEF ApplyFill
<1>7. DOMAIN lastSequence' \subseteq Nat /\ \A o \in DOMAIN lastSequence' : lastSequence'[o] \in Nat
  BY <1>1 DEF ApplyFill, Put, Drop, AccountTypeOK, PortfolioTypeOK
<1>8. appliedFills' \subseteq Nat /\ IsFiniteSet(appliedFills')
  <2>1. appliedFills' = appliedFills \cup {fill.id}
    BY DEF ApplyFill
  <2>2. IsFiniteSet(appliedFills \cup {fill.id})
    BY FS_AddElement, Zenon DEF AccountTypeOK
  <2>3. QED
    BY <1>1, <2>1, <2>2 DEF AccountTypeOK, PortfolioTypeOK
<1>9. QED
  BY <1>2, <1>3, <1>4, <1>5, <1>6, <1>7, <1>8 DEF MapOf, AccountTypeOK, PortfolioTypeOK

-----------------------------------------------------------------------------
(* Types, handler by handler.                                              *)

LEMMA ResizedTyped ==
  ASSUME NEW signal \in Signals
  PROVE  /\ Resized(signal) \in Signals /\ Resized(signal).quantity <= signal.quantity
         /\ \A q \in Nat : q <= Resized(signal).quantity => q <= signal.quantity
         /\ Resized(signal).id = signal.id /\ Resized(signal).symbol = signal.symbol
         /\ Resized(signal).side = signal.side /\ Resized(signal).order = signal.order
         /\ Resized(signal).limit = signal.limit /\ Resized(signal).decided = signal.decided
<1>1. signal.quantity \in Nat /\ MaxOrderQuantity \in Nat
  BY RiskAssumption DEF Signals
<1>2. CASE RiskPolicies /\ signal.quantity > MaxOrderQuantity
  <2> DEFINE less == [signal EXCEPT !.quantity = MaxOrderQuantity]
  <2>1. Resized(signal) = less
    BY <1>2 DEF Resized
  <2>2. /\ less.quantity = MaxOrderQuantity
        /\ less.id = signal.id /\ less.symbol = signal.symbol /\ less.side = signal.side
        /\ less.order = signal.order /\ less.limit = signal.limit
        /\ less.decided = signal.decided
    BY DEF Signals
  <2>3. less \in Signals
    BY <1>1 DEF Signals
  <2> HIDE DEF less
  <2>4. QED
    BY <1>1, <1>2, <2>1, <2>2, <2>3
<1>3. CASE ~(RiskPolicies /\ signal.quantity > MaxOrderQuantity)
  BY <1>1, <1>3 DEF Resized
<1>4. QED
  BY <1>2, <1>3

LEMMA MarketHandledTyped ==
  ASSUME AccountTypeOK, ExecutionTypeOK', NEW market \in MarketEvents, NEW ideas,
         HandleMarketData(market, ideas)
  PROVE  AccountTypeOK'
<1>1. /\ market.symbol \in Symbols /\ market.price \in Nat /\ market.time \in Nat
  BY DEF MarketEvents
<1>3. /\ referencePrices' = Put(referencePrices, market.symbol, market.price)
      /\ sessionDay' = market.time \div SessionLength
      /\ sessionStart' \in {TotalEquity, sessionStart} /\ killSwitch' = killSwitch
  BY DEF HandleMarketData, Observe
<1>4. TotalEquity \in Int
  BY EquityInt DEF AccountTypeOK
<1>5. market.time \div SessionLength \in Int
  BY <1>1, RiskAssumption
<1>6. RiskTypeOK'
  BY <1>1, <1>3, <1>4, <1>5 DEF Put, AccountTypeOK, RiskTypeOK
<1>7. /\ marks' = Put(marks, market.symbol, market.price)
      /\ UNCHANGED <<cash, position, holds, openOrders, closed, lastSequence, appliedFills>>
  BY DEF HandleMarketData, Mark
<1>8. PortfolioTypeOK'
  BY <1>1, <1>7 DEF Put, AccountTypeOK, PortfolioTypeOK
<1>9. QED
  BY <1>6, <1>7, <1>8 DEF AccountTypeOK

LEMMA MarketDataTyped ==
  ASSUME AccountTypeOK, NEW market \in MarketEvents, NEW ideas,
         NEW fills \in FillChoices(market),
         Execute(market, fills), HandleMarketData(market, ideas)
  PROVE  AccountTypeOK'
BY ExecuteLeaves, MarketHandledTyped DEF AccountTypeOK

LEMMA SignalTyped ==
  ASSUME AccountTypeOK, NEW signal \in Signals, HandleSignal(signal), clock \in Nat
  PROVE  AccountTypeOK'
<1>1. RiskTypeOK'
  BY DEF HandleSignal, riskVars, AccountTypeOK, RiskTypeOK
<1>2. Resized(signal) \in Signals
  BY ResizedTyped
<1>3. CASE HoldForSignal(Resized(signal)) /\ Submit(Resized(signal), clock)
  BY <1>1, <1>2, <1>3, HoldTyped, SubmitTyped DEF AccountTypeOK
<1>4. CASE UNCHANGED <<portfolioVars, executionVars>>
  BY <1>1, <1>4 DEF portfolioVars, executionVars, AccountTypeOK, PortfolioTypeOK, ExecutionTypeOK
<1>5. QED
  BY <1>3, <1>4 DEF HandleSignal

LEMMA OrderTyped ==
  ASSUME AccountTypeOK, NEW order \in Orders, HandleOrder(order)
  PROVE  AccountTypeOK'
<1>1. RiskTypeOK' /\ ExecutionTypeOK'
  BY DEF HandleOrder, riskVars, executionVars, AccountTypeOK, RiskTypeOK, ExecutionTypeOK
<1>2. QED
  BY <1>1, OrderUpdateTyped DEF HandleOrder, AccountTypeOK

LEMMA FillHandledTyped ==
  ASSUME AccountTypeOK, NEW fill \in Fills, HandleFill(fill),
         \A s \in DOMAIN lastMarks : lastMarks[s] \in MarketEvents
  PROVE  AccountTypeOK'
<1>1. RiskTypeOK' /\ ExecutionTypeOK'
  BY DEF HandleFill, riskVars, executionVars, AccountTypeOK, RiskTypeOK, ExecutionTypeOK
<1>2. MarkAfter(fill) \in Nat
  BY DEF MarkAfter, MarketEvents, Fills
<1>3. CASE ApplyFill(fill, MarkAfter(fill))
  BY <1>1, <1>2, <1>3, FillApplied DEF AccountTypeOK
<1>4. CASE UNCHANGED portfolioVars
  BY <1>1, <1>4 DEF portfolioVars, AccountTypeOK, PortfolioTypeOK
<1>5. QED
  BY <1>3, <1>4 DEF HandleFill

(* What the bus hears of an execution, and what a strategy asks for.       *)
LEMMA FillSays ==
  ASSUME ExecutionTypeOK, NEW market \in MarketEvents, NEW fills, NEW o,
         Filling(market, fills, o), NEW fill, IsFillOf(fill, market, fills, o)
  PROVE  /\ fill \in Fills /\ fill.type = "Fill" /\ fill.order = o
         /\ fill.symbol = market.symbol /\ fill.time = market.time
         /\ fill.decided = working[o].decided
         /\ fill.left = Remaining(working[o]) /\ Shares(fill) = fills[o]
         /\ (fill.quantity < 0 <=> working[o].side = "Sell")
         /\ (fill.status = "Filled" <=> fills[o] >= Remaining(working[o]))
         /\ fill.price = FillPrice(working[o], market.open)
         /\ fill.fees = FeesOn(fills[o], fill.price * fills[o])
         /\ fill.sequence = FillCount(o) + 1 /\ fill.id > fillsIssued
         /\ fill.id <= fillsIssued + Cardinality(Executes(market, fills))
<1>1. PICK id \in (fillsIssued + 1)..(fillsIssued + Cardinality(Executes(market, fills))) :
         fill = FillOf(market, working[o], fills[o], id)
  BY DEF IsFillOf
<1>2. /\ fillsIssued \in Nat /\ id \in Nat /\ id > fillsIssued
      /\ id <= fillsIssued + Cardinality(Executes(market, fills))
  BY DEF ExecutionTypeOK
<1>3. /\ working[o] \in Orders /\ working[o].id = o /\ working[o].symbol = market.symbol
      /\ working[o].side \in Sides /\ fills[o] \in Nat \ {0}
  BY DEF Filling, Remaining, Orders
<1>4. fill \in Fills
  BY <1>1, <1>2, FillTyped
<1>5. Executed(working[o], fills[o]).status =
        IF fills[o] >= Remaining(working[o]) THEN "Filled" ELSE "PartiallyFilled"
  BY <1>3, ExecutedTyped
<1>6. /\ fill.type = "Fill" /\ fill.order = o /\ fill.symbol = market.symbol
      /\ fill.time = market.time /\ fill.decided = working[o].decided
      /\ fill.left = Remaining(working[o])
      /\ fill.quantity = IF working[o].side = "Buy" THEN fills[o] ELSE -fills[o]
      /\ fill.status = Executed(working[o], fills[o]).status
      /\ fill.price = FillPrice(working[o], market.open)
      /\ fill.fees = FeesOn(fills[o], fill.price * fills[o])
      /\ fill.sequence = FillCount(o) + 1 /\ fill.id = id
  BY <1>1, <1>3 DEF FillOf
<1>7. Shares(fill) = fills[o] /\ (fill.quantity < 0 <=> working[o].side = "Sell")
  BY <1>3, <1>6 DEF Shares, Sides
<1>8. QED
  BY <1>2, <1>4, <1>5, <1>6, <1>7

-----------------------------------------------------------------------------
(* What the handlers make of what they are given.                          *)

LEMMA EventKinds ==
  ASSUME NEW e \in Events
  PROVE  /\ (e.type = "MarketData" => e \in MarketEvents) /\ (e.type = "Signal" => e \in Signals)
         /\ (e.type = "Order" => e \in Orders) /\ (e.type = "Fill" => e \in Fills)
         /\ e.symbol \in Symbols
  BY DEF Events, MarketEvents, Signals, Orders, Fills

(* What a strategy may ask for.                                            *)
IsIdea(idea) ==
    /\ idea.symbol \in Symbols
    /\ idea.side \in Sides \cup {"Flat"}
    /\ idea.order \in {"Market", "Limit"}
    /\ idea.limit \in Nat \cup {None}
    /\ idea.quantity \in Nat

LEMMA SignalSays ==
  ASSUME NEW idea, IsIdea(idea), NEW id \in Nat, NEW market \in MarketEvents
  PROVE  LET signal == SignalFrom(idea, id, market) IN
         /\ signal \in Signals /\ signal.type = "Signal" /\ signal.id = id
         /\ signal.symbol = idea.symbol /\ signal.side = idea.side
         /\ signal.order = idea.order /\ signal.limit = idea.limit
         /\ signal.quantity = idea.quantity /\ signal.decided = market.time
<1>1. market.time \in Nat
  BY DEF MarketEvents
<1>2. QED
  BY <1>1 DEF IsIdea, SignalFrom, Signals

(* A checked signal: refused, or an order of the simulator's own making.   *)
Approved(e, signal, order, out) ==
    /\ signal = Resized(e) /\ signal \in Signals
    /\ signal.id = e.id /\ signal.quantity <= e.quantity /\ signal.symbol = e.symbol
    /\ signal.side = e.side /\ signal.decided = e.decided /\ signal.limit = e.limit
    /\ signal.order = e.order
    /\ HoldForSignal(signal) /\ issued' = Append(issued, e.id)
    /\ order = NewOrder(signal, clock) /\ order \in Orders /\ order.type = "Order"
    /\ order.id = Len(issued) + 1 /\ order.signal = e.id /\ order.symbol = e.symbol
    /\ order.side = OrderSide(signal) /\ order.quantity = signal.quantity /\ order.filled = 0
    /\ order.created = clock /\ order.decided = e.decided
    /\ order.limit = (IF signal.order = "Limit" THEN signal.limit ELSE None)
    /\ order.status \in {"Working", "Rejected"} /\ (order.status = "Rejected" <=> Refused(signal))
    /\ DOMAIN working' = DOMAIN working \cup {x \in {order.id} : order.status = "Working"}
    /\ \A x \in DOMAIN working : x # order.id => working'[x] = working[x]
    /\ order.status = "Working" => working'[order.id] = order
    /\ out = <<order>> /\ out \in Seq(Events)

LEMMA SignalChecked ==
  ASSUME ExecutionTypeOK, clock \in Nat, NEW e \in Signals, HandleSignal(e),
         NEW out, out = OrdersFor(e)
  PROVE  /\ UNCHANGED <<riskVars, pipelineVars, fillsIssued, fillCounts>>
         /\ \/ out = <<>> /\ out \in Seq(Events) /\ UNCHANGED <<portfolioVars, executionVars>>
            \/ \E signal, order : Approved(e, signal, order, out)
<1>1. out = OrdersFor(e)
  OBVIOUS
<1>2. UNCHANGED <<riskVars, pipelineVars, fillsIssued, fillCounts>>
  BY <1>1 DEF HandleSignal, Submit, executionVars
<1>3. CASE ~Approves(e)
  BY <1>1, <1>2, <1>3 DEF HandleSignal, OrdersFor
<1>4. CASE Approves(e)
  <2> DEFINE signal == Resized(e)
             order == NewOrder(signal, clock)
  <2>1. HoldForSignal(signal) /\ Submit(signal, clock)
    BY <1>1, <1>4 DEF HandleSignal
  <2>2. /\ signal \in Signals
        /\ signal.id = e.id /\ signal.quantity <= e.quantity
        /\ signal.symbol = e.symbol /\ signal.side = e.side
        /\ signal.decided = e.decided /\ signal.limit = e.limit
        /\ signal.order = e.order
    BY <1>1, ResizedTyped
  <2>3. out = <<order>>
    BY <1>4 DEF OrdersFor
  <2>4. signal = Resized(e)
    OBVIOUS
  <2> HIDE DEF signal
  <2>5. order \in Orders
    BY <1>1, <2>2, NewOrderTyped
  <2>6. /\ order.type = "Order" /\ order.id = Len(issued) + 1 /\ order.signal = signal.id
        /\ order.symbol = signal.symbol /\ order.side = OrderSide(signal)
        /\ order.quantity = signal.quantity /\ order.filled = 0
        /\ order.created = clock /\ order.decided = signal.decided
        /\ order.limit = (IF signal.order = "Limit" THEN signal.limit ELSE None)
        /\ order.status = IF Refused(signal) THEN "Rejected" ELSE "Working"
    BY DEF NewOrder
  <2>7. working' = IF Refused(signal) THEN working
                   ELSE [x \in DOMAIN working \cup {order.id} |->
                            IF x = order.id THEN order ELSE working[x]]
    BY <2>1, Zenon DEF Submit
  <2>8. issued' = Append(issued, signal.id) /\ order = NewOrder(signal, clock)
    BY <2>1 DEF Submit
  <2> HIDE DEF order
  <2>9. out \in Seq(Events)
    BY <2>3, <2>5 DEF Events
  <2>10. CASE Refused(signal)
    BY <2>1, <2>2, <2>3, <2>4, <2>5, <2>6, <2>7, <2>8, <2>9, <2>10, <1>2 DEF Approved
  <2>11. CASE ~Refused(signal)
    <3>1. /\ DOMAIN working' = DOMAIN working \cup {order.id}
          /\ \A x \in DOMAIN working : x # order.id => working'[x] = working[x]
          /\ working'[order.id] = order
      BY <2>7, <2>11
    <3>2. QED
      BY <2>1, <2>2, <2>3, <2>4, <2>5, <2>6, <2>8, <2>9, <2>11, <3>1, <1>2 DEF Approved
  <2>12. QED
    BY <2>10, <2>11
<1>5. QED
  BY <1>3, <1>4
=============================================================================
