------------------------------ MODULE PartsProofs ------------------------------
(***************************************************************************)
(* What holds of three parts of the system, for all values of their        *)
(* constants.  PackShelf: every draw keeps what the pack type promises and *)
(* a client that reads to the end of the history has seen it, whatever     *)
(* administrators switch.  Showcase: every page shows a deck with the      *)
(* scores it was ranked by, and the pages agree with one another.          *)
(* PackContract: whatever the backend signs, each commit is settled (once, *)
(* with cards of its own, if wallets have no code), and the packs, the     *)
(* money and the claims are accounted for.                                 *)
(***************************************************************************)
EXTENDS PackShelf, Showcase, PackContract, FiniteSetTheorems, SequenceTheorems, WellFoundedInduction, TLAPS

USE DEF tourVars, tableVars, stockVars, holdVars, openVars, moneyVars

-----------------------------------------------------------------------------
(* Folds and sums over finite sets *)

(* MapThenSumSet and FoldLeft take the elements of a set out one after      *)
(* another.  The functions they may choose are those that solve an equation *)
(* on its subsets; by the least counterexample one exists on every finite   *)
(* set, and two for values that differ in one place differ by as much.      *)
Picked(s) == CHOOSE x \in s : TRUE
Solves(g, v, U) ==
  g = [s \in SUBSET U |-> IF s = {} THEN 0 ELSE v[Picked(s)] + g[s \ {Picked(s)}]]

LEMMA LeastNumber ==
  ASSUME NEW T \in SUBSET Nat, T # {}
  PROVE  \E n \in T : \A m \in T : n <= m
<1>1. PICK n \in T : \A m \in T : <<m, n>> \notin OpToRel(<, Nat)
  BY NatLessThanWellFounded, WFMin, Zenon
<1>2. \A m \in T : ~ (m < n)
  BY <1>1 DEF OpToRel
<1> QED
  BY <1>2

LEMMA PickedIn == ASSUME NEW s, s # {} PROVE Picked(s) \in s
BY DEF Picked

\* A fold takes one element after another out of a finite set: x says which, F what it does.
Takes(x, U) == \A s \in SUBSET U : s # {} => x[s] \in s
Small(U, n) == {s \in SUBSET U : Cardinality(s) <= n}
Foldable(b, F, x, V, U) ==
  IsFiniteSet(U) /\ b \in V /\ F \in [SUBSET U -> [V -> V]] /\ Takes(x, U)
FoldTo(g, b, F, x, V, U, n) ==
  /\ g \in [Small(U, n) -> V]
  /\ \A s \in Small(U, n) : g[s] = IF s = {} THEN b ELSE F[s][g[s \ {x[s]}]]
Folded(g, b, F, x, V, U) ==
  /\ g \in [SUBSET U -> V]
  /\ \A s \in SUBSET U : g[s] = IF s = {} THEN b ELSE F[s][g[s \ {x[s]}]]

LEMMA Without ==
  ASSUME NEW U, IsFiniteSet(U), NEW s \in SUBSET U, NEW c \in s
  PROVE  /\ s \ {c} \in SUBSET U
         /\ Cardinality(s) \in Nat /\ Cardinality(s \ {c}) \in Nat
         /\ Cardinality(s \ {c}) = Cardinality(s) - 1
<1>1. IsFiniteSet(s)
  BY FS_Subset
<1> QED
  BY <1>1, FS_RemoveElement, FS_CardinalityType

\* By the least number of elements up to which there were none.
LEMMA FoldToExists ==
  ASSUME NEW U, NEW V, NEW b, NEW F, NEW x, Foldable(b, F, x, V, U), NEW n \in Nat
  PROVE  \E g : FoldTo(g, b, F, x, V, U, n)
<1>0. IsFiniteSet(U) /\ b \in V /\ F \in [SUBSET U -> [V -> V]] /\ Takes(x, U)
  BY DEF Foldable
<1> DEFINE T == {k \in Nat : ~ \E g : FoldTo(g, b, F, x, V, U, k)}
<1> SUFFICES ASSUME T # {} PROVE FALSE
  OBVIOUS
<1>1. PICK k \in T : \A m \in T : k <= m
  <2> HIDE DEF T
  <2>1. T \in SUBSET Nat
    BY DEF T
  <2> QED
    BY <2>1, LeastNumber
<1> DEFINE less(s) == s \ {x[s]}
<1>2. ASSUME NEW s \in SUBSET U, s # {}
      PROVE  /\ less(s) \in SUBSET U /\ Cardinality(s) \in Nat /\ Cardinality(less(s)) \in Nat
             /\ Cardinality(less(s)) = Cardinality(s) - 1
  BY <1>0, <1>2, Without DEF Takes
<1>3. CASE k = 0
  <2>1. \A s \in Small(U, k) : s = {}
    BY <1>0, <1>3, FS_Subset, FS_EmptySet, FS_CardinalityType DEF Small
  <2>2. FoldTo([s \in Small(U, k) |-> b], b, F, x, V, U, k)
    BY <1>0, <2>1 DEF FoldTo
  <2> QED
    BY <1>1, <2>2
<1>4. CASE k # 0
  <2>1. k - 1 \in Nat /\ k - 1 \notin T
    BY <1>1, <1>4
  <2>2. PICK h : FoldTo(h, b, F, x, V, U, k - 1)
    BY <2>1
  <2>3. \A s \in Small(U, k) : s \in SUBSET U /\ (s # {} => less(s) \in Small(U, k - 1))
    BY <1>2 DEF Small
  <2> DEFINE g == [s \in Small(U, k) |-> IF s = {} THEN b ELSE F[s][h[less(s)]]]
  <2>4. g \in [Small(U, k) -> V]
    BY <1>0, <2>2, <2>3 DEF FoldTo
  <2>5. ASSUME NEW s \in Small(U, k - 1)
        PROVE  s \in Small(U, k) /\ g[s] = h[s]
    <3>1. s \in Small(U, k)
      <4>1. s \in SUBSET U /\ Cardinality(s) <= k - 1
        BY DEF Small
      <4>2. Cardinality(s) \in Nat
        BY <1>0, <4>1, FS_Subset, FS_CardinalityType
      <4> QED
        BY <2>1, <4>1, <4>2 DEF Small
    <3> QED
      BY <2>2, <3>1 DEF FoldTo
  <2>6. FoldTo(g, b, F, x, V, U, k)
    BY <2>3, <2>4, <2>5 DEF FoldTo
  <2> QED
    BY <1>1, <2>6
<1> QED
  BY <1>3, <1>4

LEMMA FoldExists ==
  ASSUME NEW U, NEW V, NEW b, NEW F, NEW x, Foldable(b, F, x, V, U)
  PROVE  \E g : Folded(g, b, F, x, V, U)
<1>1. IsFiniteSet(U) /\ Cardinality(U) \in Nat
  BY FS_CardinalityType DEF Foldable
<1>2. PICK g : FoldTo(g, b, F, x, V, U, Cardinality(U))
  BY <1>1, FoldToExists
<1>3. Small(U, Cardinality(U)) = SUBSET U
  BY <1>1, FS_Subset DEF Small
<1> QED
  BY <1>2, <1>3 DEF Folded, FoldTo

LEMMA SumExists ==
  ASSUME NEW U, IsFiniteSet(U), NEW v \in [U -> Int]
  PROVE  \E g : Solves(g, v, U)
<1> DEFINE x == [s \in SUBSET U |-> Picked(s)]
           F == [s \in SUBSET U |-> [n \in Int |-> IF s = {} THEN n ELSE v[Picked(s)] + n]]
<1>1. Takes(x, U)
  BY PickedIn DEF Takes
<1>2. F \in [SUBSET U -> [Int -> Int]]
  BY PickedIn
<1> HIDE DEF x, F
<1>3. PICK g : Folded(g, 0, F, x, Int, U)
  <2>1. Foldable(0, F, x, Int, U)
    BY <1>1, <1>2 DEF Foldable
  <2> QED
    BY <2>1, FoldExists
<1>4. \A s \in SUBSET U : g[s] = IF s = {} THEN 0 ELSE v[Picked(s)] + g[s \ {Picked(s)}]
  <2>0. g[{}] = 0
    BY <1>3 DEF Folded
  <2> SUFFICES ASSUME NEW s \in SUBSET U, s # {}
               PROVE  g[s] = v[Picked(s)] + g[s \ {Picked(s)}]
    BY <2>0
  <2>1. s \ {Picked(s)} \in SUBSET U /\ x[s] = Picked(s)
    BY DEF x
  <2>2. g[s \ {Picked(s)}] \in Int /\ g[s] = F[s][g[s \ {Picked(s)}]]
    BY <1>3, <2>1 DEF Folded
  <2> QED
    BY <2>2 DEF F
<1> QED
  BY <1>3, <1>4 DEF Solves, Folded

\* A sum grows by what is added, and is a number; by the smallest set of which
\* this is not so.
Grows(g, v, s) == \A x \in s : g[s] = g[s \ {x}] + v[x]

LEMMA SumAdds ==
  ASSUME NEW U, IsFiniteSet(U), NEW v \in [U -> Int], NEW g, Solves(g, v, U),
         NEW s \in SUBSET U
  PROVE  g[{}] = 0 /\ g[s] \in Int /\ Grows(g, v, s)
<1> DEFINE Right(r) == g[r] \in Int /\ \A x \in r : g[r] = g[r \ {x}] + v[x]
           T == {Cardinality(r) : r \in {r \in SUBSET U : ~ Right(r)}}
<1>0. g[{}] = 0
  BY DEF Solves
<1>1. ASSUME ~ Right(s)
      PROVE  FALSE
  <2>1. \A r \in SUBSET U : Cardinality(r) \in Nat
    BY FS_Subset, FS_CardinalityType
  <2>2. T \in SUBSET Nat /\ T # {}
    BY <1>1, <2>1
  <2>3. PICK n \in T : \A m \in T : n <= m
    <3> HIDE DEF T
    <3> QED
      BY <2>2, LeastNumber
  <2>4. PICK r \in SUBSET U :
          ~ Right(r) /\ \A y \in SUBSET U : ~ Right(y) => Cardinality(r) <= Cardinality(y)
    BY <2>3
  <2>5. \A x \in r : Right(r \ {x})
    BY <2>1, <2>4, Without
  <2>6. r # {}
    <3>1. Right({})
      BY <1>0
    <3> HIDE DEF Right
    <3> QED
      BY <2>4, <3>1
  <2> DEFINE c == Picked(r)
  <2>7. c \in r /\ c \in U /\ g[r] = v[c] + g[r \ {c}]
    BY <2>6, PickedIn DEF Solves
  <2>8. v[c] \in Int /\ g[r \ {c}] \in Int
    BY <2>5, <2>7
  <2> HIDE DEF c
  <2>9. ASSUME NEW x \in r
        PROVE  g[r] = g[r \ {x}] + v[x]
    <3>1. CASE x = c
      BY <2>7, <2>8, <3>1
    <3>2. CASE x # c
      <4>1. x \in r \ {c} /\ c \in r \ {x} /\ (r \ {c}) \ {x} = (r \ {x}) \ {c}
        BY <2>7, <3>2
      <4>2. (r \ {c}) \ {x} \in SUBSET U /\ v[x] \in Int /\ Right(r \ {c}) /\ Right(r \ {x})
        BY <2>5, <2>7
      <4>3. g[r \ {c}] = g[(r \ {c}) \ {x}] + v[x] /\ g[r \ {x}] = g[(r \ {x}) \ {c}] + v[c]
        BY <4>1, <4>2
      <4>4. g[(r \ {c}) \ {x}] \in Int
        <5>1. Right((r \ {c}) \ {x})
          <6>1. /\ Cardinality(r \ {c}) = Cardinality(r) - 1 /\ Cardinality(r) \in Nat
                /\ r \ {c} \in SUBSET U
            BY <2>7, Without
          <6>2. /\ Cardinality((r \ {c}) \ {x}) = Cardinality(r \ {c}) - 1
                /\ Cardinality((r \ {c}) \ {x}) \in Nat
            <7>1. r \ {c} \in SUBSET U /\ x \in r \ {c}
              BY <4>1, <6>1
            <7> HIDE DEF Right
            <7> QED
              BY <7>1, Without
          <6> HIDE DEF Right
          <6> QED
            BY <2>4, <4>2, <6>1, <6>2
        <5> QED
          BY <5>1
      <4> QED
        BY <2>7, <2>8, <4>1, <4>2, <4>3, <4>4
    <3> QED
      BY <3>1, <3>2
  <2>10. Right(r)
    <3>1. g[r] \in Int
      BY <2>7, <2>8
    <3> QED
      BY <2>9, <3>1
  <2> QED
    BY <2>4, <2>10
<1> QED
  BY <1>0, <1>1 DEF Grows

\* Two functions that differ at one place, by d, and the sums over them.
Compared(v, w, g, h, u, d, U) ==
  /\ v \in [U -> Int] /\ w \in [U -> Int] /\ d \in Int
  /\ \A x \in U : w[x] = IF x = u THEN v[x] + d ELSE v[x]
  /\ Solves(g, v, U) /\ Solves(h, w, U)

\* By the smallest set on which the two sums did not differ so.
LEMMA SumChanges ==
  ASSUME NEW U, IsFiniteSet(U), NEW v, NEW w, NEW g, NEW h, NEW u, NEW d,
         Compared(v, w, g, h, u, d, U)
  PROVE  /\ g[U] \in Int /\ h[U] \in Int
         /\ u \in U => h[U] = g[U] + d
         /\ u \notin U => h[U] = g[U]
<1> DEFINE Right(s) == /\ g[s] \in Int /\ h[s] \in Int
                       /\ u \in s => h[s] = g[s] + d
                       /\ u \notin s => h[s] = g[s]
           T == {Cardinality(s) : s \in {s \in SUBSET U : ~ Right(s)}}
<1>1. ASSUME NEW s \in SUBSET U, ~ Right(s)
      PROVE  FALSE
  <2>1. \A x \in SUBSET U : Cardinality(x) \in Nat
    BY FS_Subset, FS_CardinalityType
  <2>2. T \in SUBSET Nat /\ T # {}
    BY <1>1, <2>1
  <2>3. PICK n \in T : \A m \in T : n <= m
    <3> HIDE DEF T
    <3> QED
      BY <2>2, LeastNumber
  <2>4. PICK x \in SUBSET U :
          ~ Right(x) /\ \A y \in SUBSET U : ~ Right(y) => Cardinality(x) <= Cardinality(y)
    BY <2>3
  <2>5. x # {}
    <3>1. g[{}] = 0 /\ h[{}] = 0
      BY DEF Compared, Solves
    <3>2. Right({})
      BY <3>1
    <3> HIDE DEF Right
    <3> QED
      BY <2>4, <3>2
  <2> DEFINE c == Picked(x)
             y == x \ {c}
  <2>6. c \in x /\ c \in U /\ y \in SUBSET U /\ Cardinality(y) = Cardinality(x) - 1
    BY <2>5, PickedIn, Without
  <2>7. Right(y)
    BY <2>1, <2>4, <2>6
  <2>8. g[x] = v[c] + g[y] /\ h[x] = w[c] + h[y]
    BY <2>5 DEF Compared, Solves
  <2>9. v[c] \in Int /\ d \in Int /\ w[c] = IF c = u THEN v[c] + d ELSE v[c]
    BY <2>6 DEF Compared
  <2>10. CASE c = u
    <3>1. u \in x /\ u \notin y
      BY <2>6, <2>10
    <3>2. Right(x)
      BY <3>1, <2>7, <2>8, <2>9, <2>10
    <3> QED
      BY <3>2, <2>4
  <2>11. CASE c # u
    <3>1. w[c] = v[c] /\ (u \in x <=> u \in y)
      BY <2>6, <2>9, <2>11
    <3>2. Right(x)
      BY <3>1, <2>7, <2>8, <2>9
    <3> QED
      BY <3>2, <2>4
  <2> QED
    BY <2>10, <2>11
<1> QED
  BY <1>1

\* Induction over numbers and over finite sets, for the members of a set.
LEMMA UpTo ==
  ASSUME NEW n \in Nat, NEW T, 0 \in T, \A k \in 1 .. n : k - 1 \in T => k \in T
  PROVE  n \in T
<1> DEFINE B == {k \in 0 .. n : k \notin T}
<1> SUFFICES ASSUME n \notin T PROVE FALSE
  OBVIOUS
<1>1. B \in SUBSET Nat /\ B # {}
  <2>1. n \in B
    OBVIOUS
  <2> QED
    BY <2>1
<1>2. PICK k \in B : \A m \in B : k <= m
  <2> HIDE DEF B
  <2> QED
    BY <1>1, LeastNumber
<1>3. k \in 1 .. n /\ k - 1 \in 0 .. n
  OBVIOUS
<1>4. k - 1 \in T
  BY <1>2, <1>3
<1> QED
  BY <1>3, <1>4

LEMMA AllSubsets ==
  ASSUME NEW B, IsFiniteSet(B), NEW T,
         \A s \in SUBSET B : (\A x \in s : s \ {x} \in T) => s \in T
  PROVE  B \in T
<1> DEFINE N == {Cardinality(s) : s \in {s \in SUBSET B : s \notin T}}
<1> SUFFICES ASSUME B \notin T PROVE FALSE
  OBVIOUS
<1>1. \A s \in SUBSET B : Cardinality(s) \in Nat
  BY FS_Subset, FS_CardinalityType
<1>2. N \in SUBSET Nat /\ N # {}
  BY <1>1
<1>3. PICK n \in N : \A m \in N : n <= m
  <2> HIDE DEF N
  <2> QED
    BY <1>2, LeastNumber
<1>4. PICK s \in SUBSET B : s \notin T /\ \A r \in SUBSET B : r \notin T => Cardinality(s) <= Cardinality(r)
  BY <1>3
<1>5. ASSUME NEW x \in s PROVE s \ {x} \in T
  <2>1. s \ {x} \in SUBSET B /\ Cardinality(s \ {x}) = Cardinality(s) - 1 /\ Cardinality(s) \in Nat
    BY Without
  <2> HIDE DEF N
  <2> QED
    BY <1>1, <1>4, <2>1
<1> QED
  BY <1>4, <1>5

\* x is the sum of v over U; sums of parts, and of nothing but zeros.
IsSum(x, v, U) == \E g : Solves(g, v, U) /\ x = g[U]

LEMMA SumUnique ==
  ASSUME NEW U, IsFiniteSet(U), NEW v \in [U -> Int], NEW x, NEW y, IsSum(x, v, U), IsSum(y, v, U)
  PROVE  x = y /\ x \in Int
<1>1. PICK g : Solves(g, v, U) /\ x = g[U]
  BY DEF IsSum
<1>2. PICK h : Solves(h, v, U) /\ y = h[U]
  BY DEF IsSum
<1>3. Compared(v, v, g, h, 0, 0, U)
  BY <1>1, <1>2 DEF Compared
<1> QED
  BY <1>1, <1>2, <1>3, SumChanges

LEMMA SumPart ==
  ASSUME NEW U, IsFiniteSet(U), NEW v \in [U -> Int], NEW g, Solves(g, v, U),
         NEW A \in SUBSET U, NEW w \in [A -> Int], \A a \in A : w[a] = v[a],
         NEW x, IsSum(x, w, A)
  PROVE  x = g[A]
<1> DEFINE h == [s \in SUBSET A |-> g[s]]
<1>1. Solves(h, w, A)
  <2>1. \A s \in SUBSET A : h[s] = IF s = {} THEN 0 ELSE w[Picked(s)] + h[s \ {Picked(s)}]
    <3> SUFFICES ASSUME NEW s \in SUBSET A
                 PROVE  h[s] = IF s = {} THEN 0 ELSE w[Picked(s)] + h[s \ {Picked(s)}]
      OBVIOUS
    <3>1. s \in SUBSET U /\ s \ {Picked(s)} \in SUBSET A
      OBVIOUS
    <3>2. g[s] = IF s = {} THEN 0 ELSE v[Picked(s)] + g[s \ {Picked(s)}]
      BY <3>1 DEF Solves
    <3>3. s # {} => w[Picked(s)] = v[Picked(s)]
      BY PickedIn
    <3> QED
      BY <3>1, <3>2, <3>3
  <2> QED
    BY <2>1 DEF Solves
<1>2. IsSum(h[A], w, A)
  BY <1>1 DEF IsSum
<1>3. IsFiniteSet(A)
  BY FS_Subset
<1> HIDE DEF h
<1>4. x = h[A]
  BY <1>2, <1>3, SumUnique
<1> QED
  BY <1>4 DEF h

LEMMA SumUnion ==
  ASSUME NEW U, IsFiniteSet(U), NEW v \in [U -> Int], NEW g, Solves(g, v, U),
         NEW A \in SUBSET U, NEW B \in SUBSET U, A \cap B = {}
  PROVE  g[A \cup B] = g[A] + g[B]
<1> DEFINE T == {s \in SUBSET B : g[A \cup s] = g[A] + g[s]}
<1>1. \A s \in SUBSET U : g[s] \in Int /\ g[{}] = 0
  BY SumAdds
<1>2. ASSUME NEW s \in SUBSET B, \A x \in s : s \ {x} \in T
      PROVE  g[A \cup s] = g[A] + g[s]
  <2>1. CASE s = {}
    BY <1>1, <2>1
  <2>2. ASSUME NEW x \in s PROVE g[A \cup s] = g[A] + g[s]
    <3>1. /\ A \cup s \in SUBSET U /\ x \in A \cup s /\ s \in SUBSET U /\ s \ {x} \in SUBSET U
          /\ (A \cup s) \ {x} = A \cup (s \ {x})
      OBVIOUS
    <3>2. g[A \cup (s \ {x})] = g[A] + g[s \ {x}]
      BY <1>2
    <3> HIDE DEF T
    <3>3. Grows(g, v, A \cup s)
      BY <3>1, SumAdds
    <3>4. Grows(g, v, s)
      BY <3>1, SumAdds
    <3>5. g[A \cup s] = g[A \cup (s \ {x})] + v[x] /\ g[s] = g[s \ {x}] + v[x]
      BY <3>1, <3>3, <3>4 DEF Grows
    <3>6. g[A] \in Int /\ g[s \ {x}] \in Int /\ v[x] \in Int
      BY <1>1, <3>1
    <3> QED
      BY <3>2, <3>5, <3>6
  <2> QED
    BY <2>1, <2>2
<1>3. \A s \in SUBSET B : (\A x \in s : s \ {x} \in T) => s \in T
  BY <1>2
<1>4. IsFiniteSet(B)
  BY FS_Subset
<1>5. B \in T
  <2> HIDE DEF T
  <2> QED
    BY <1>3, <1>4, AllSubsets
<1> QED
  BY <1>5

LEMMA SumZero ==
  ASSUME NEW U, IsFiniteSet(U), NEW v \in [U -> Int], NEW g, Solves(g, v, U),
         NEW A \in SUBSET U, \A x \in A : v[x] = 0
  PROVE  g[A] = 0
<1> DEFINE T == {s \in SUBSET A : g[s] = 0}
<1>1. g[{}] = 0
  BY SumAdds
<1>2. ASSUME NEW s \in SUBSET A, \A x \in s : s \ {x} \in T
      PROVE  g[s] = 0
  <2>1. CASE s = {}
    BY <1>1, <2>1
  <2>2. ASSUME NEW x \in s PROVE g[s] = 0
    <3>1. g[s \ {x}] = 0 /\ v[x] = 0 /\ s \in SUBSET U
      BY <1>2
    <3> HIDE DEF T
    <3>2. Grows(g, v, s)
      BY <3>1, SumAdds
    <3> QED
      BY <3>1, <3>2 DEF Grows
  <2> QED
    BY <2>1, <2>2
<1>3. \A s \in SUBSET A : (\A x \in s : s \ {x} \in T) => s \in T
  BY <1>2
<1>4. IsFiniteSet(A)
  BY FS_Subset
<1>5. A \in T
  <2> HIDE DEF T
  <2> QED
    BY <1>3, <1>4, AllSubsets
<1> QED
  BY <1>5

\* An order is a set of pairs.  A finite set has a first element, and a list sorted by it.

OrderOf(R, S) ==
  /\ \A x, y \in S : x # y => <<x, y>> \in R \/ <<y, x>> \in R
  /\ \A x, y, z \in S : <<x, y>> \in R /\ <<y, z>> \in R => <<x, z>> \in R

FirstOf(x, R, S) == x \in S /\ \A y \in S : y # x => <<x, y>> \in R

LEMMA FirstExists ==
  ASSUME NEW S, IsFiniteSet(S), S # {}, NEW R, OrderOf(R, S)
  PROVE  \E x \in S : FirstOf(x, R, S)
<1> DEFINE T == {s \in SUBSET S : s # {} => \E x \in s : FirstOf(x, R, s)}
<1>1. ASSUME NEW s \in SUBSET S, \A x \in s : s \ {x} \in T, s # {}
      PROVE  \E x \in s : FirstOf(x, R, s)
  <2>1. PICK x \in s : TRUE
    BY <1>1
  <2>2. CASE s \ {x} = {}
    BY <2>1, <2>2 DEF FirstOf
  <2>3. CASE s \ {x} # {}
    <3>1. PICK y \in s \ {x} : FirstOf(y, R, s \ {x})
      BY <1>1, <2>3
    <3> HIDE DEF T
    <3>2. CASE <<y, x>> \in R
      BY <3>1, <3>2 DEF FirstOf
    <3>3. CASE <<x, y>> \in R
      <4>1. \A z \in s : z # x => <<x, z>> \in R
        BY <3>1, <3>3 DEF FirstOf, OrderOf
      <4> QED
        BY <4>1 DEF FirstOf
    <3> QED
      BY <3>2, <3>3 DEF OrderOf
  <2> QED
    BY <2>2, <2>3
<1>2. \A s \in SUBSET S : (\A x \in s : s \ {x} \in T) => s \in T
  BY <1>1
<1>3. S \in T
  <2> HIDE DEF T
  <2> QED
    BY <1>2, AllSubsets
<1> QED
  BY <1>3

Sorted(q, R) == \A i, j \in DOMAIN q : i < j => <<q[i], q[j]>> \in R

LEMMA SortExists ==
  ASSUME NEW S, IsFiniteSet(S), NEW R, OrderOf(R, S)
  PROVE  \E q \in SetToSeqs(S) : Sorted(q, R)
<1> DEFINE T == {s \in SUBSET S : \E q \in SetToSeqs(s) : Sorted(q, R)}
<1>1. ASSUME NEW s \in SUBSET S, \A x \in s : s \ {x} \in T
      PROVE  \E q \in SetToSeqs(s) : Sorted(q, R)
  <2>0. IsFiniteSet(s)
    BY FS_Subset
  <2>1. CASE s = {}
    <3>1. Cardinality(s) = 0
      BY <2>1, FS_EmptySet
    <3>2. 1 .. 0 = {} /\ <<>> \in [{} -> {}] /\ DOMAIN <<>> = {}
      OBVIOUS
    <3>3. <<>> \in SetToSeqs(s)
      BY <2>1, <3>1, <3>2 DEF SetToSeqs
    <3>4. Sorted(<<>>, R)
      BY <3>2 DEF Sorted
    <3> QED
      BY <3>3, <3>4
  <2>2. CASE s # {}
    <3>1. PICK x \in s : FirstOf(x, R, s)
      <4>1. OrderOf(R, s)
        BY DEF OrderOf
      <4> HIDE DEF T
      <4> QED
        BY <2>0, <2>2, <4>1, FirstExists
    <3>2. PICK q \in SetToSeqs(s \ {x}) : Sorted(q, R)
      BY <1>1
    <3> HIDE DEF T
    <3>3. PICK n \in Nat : Cardinality(s \ {x}) = n /\ Cardinality(s) = n + 1
      <4>1. Cardinality(s) \in Nat /\ Cardinality(s \ {x}) \in Nat
            /\ Cardinality(s \ {x}) = Cardinality(s) - 1
        BY Without
      <4> QED
        BY <4>1
    <3>4. q \in [1 .. n -> s \ {x}] /\ \A i, j \in 1 .. n : i # j => q[i] # q[j]
      BY <3>2, <3>3 DEF SetToSeqs
    <3> DEFINE p == [i \in 1 .. n + 1 |-> IF i = 1 THEN x ELSE q[i - 1]]
    <3>5. \A i \in 1 .. n + 1 : i = 1 \/ i - 1 \in 1 .. n
      OBVIOUS
    <3>6. /\ p \in [1 .. n + 1 -> s]
          /\ \A i, j \in 1 .. n + 1 : i # j => p[i] # p[j]
      <4>1. \A i \in 1 .. n + 1 : p[i] = IF i = 1 THEN x ELSE q[i - 1]
        OBVIOUS
      <4>2. \A i \in 1 .. n + 1 : i # 1 => q[i - 1] \in s /\ q[i - 1] # x
        BY <3>4, <3>5
      <4>3. p \in [1 .. n + 1 -> s]
        BY <4>2
      <4> HIDE DEF p
      <4>4. ASSUME NEW i \in 1 .. n + 1, NEW j \in 1 .. n + 1, i # j
            PROVE  p[i] # p[j]
        <5>1. CASE i = 1 \/ j = 1
          BY <4>1, <4>2, <4>4, <5>1
        <5>2. CASE i # 1 /\ j # 1
          <6>1. i - 1 # j - 1
            BY <4>4
          <6> QED
            BY <3>4, <3>5, <4>1, <5>2, <6>1
        <5> QED
          BY <5>1, <5>2
      <4> QED
        BY <4>3, <4>4
    <3>7. Sorted(p, R)
      <4> SUFFICES ASSUME NEW i \in 1 .. n + 1, NEW j \in 1 .. n + 1, i < j
                   PROVE  <<p[i], p[j]>> \in R
        BY DEF Sorted
      <4>1. j # 1 /\ j - 1 \in 1 .. n /\ p[j] = q[j - 1] /\ q[j - 1] \in s \ {x}
        BY <3>4
      <4>2. CASE i = 1
        BY <3>1, <4>1, <4>2 DEF FirstOf
      <4>3. CASE i # 1
        <5>1. i - 1 \in 1 .. n /\ i - 1 < j - 1 /\ p[i] = q[i - 1]
          BY <4>3
        <5> QED
          BY <3>2, <3>4, <4>1, <5>1 DEF Sorted
      <4> QED
        BY <4>2, <4>3
    <3>8. p \in SetToSeqs(s)
      <4> HIDE DEF p
      <4> QED
        BY <3>3, <3>6 DEF SetToSeqs
    <3> QED
      BY <3>7, <3>8
  <2> QED
    BY <2>1, <2>2
<1>2. \A s \in SUBSET S : (\A x \in s : s \ {x} \in T) => s \in T
  BY <1>1
<1>3. S \in T
  <2> HIDE DEF T
  <2> QED
    BY <1>2, AllSubsets
<1> QED
  BY <1>3

\* Greatest and least numbers, as Max and Min choose them.
LEMMA MaxOf ==
  ASSUME NEW S \in SUBSET Int, IsFiniteSet(S), S # {}
  PROVE  Max(S) \in S /\ \A x \in S : x <= Max(S)
<1> DEFINE R == {p \in S \X S : p[1] >= p[2]}
<1>1. \A x, y \in S : <<x, y>> \in R <=> x >= y
  OBVIOUS
<1> HIDE DEF R
<1>2. OrderOf(R, S)
  BY <1>1 DEF OrderOf
<1>3. PICK x \in S : FirstOf(x, R, S)
  BY <1>2, FirstExists
<1>4. \A y \in S : x >= y
  <2>1. \A y \in S : y # x => x >= y
    BY <1>1, <1>3 DEF FirstOf
  <2> QED
    BY <2>1
<1>5. Max(S) \in S /\ \A y \in S : Max(S) >= y
  BY <1>3, <1>4 DEF Max
<1> QED
  BY <1>5

LEMMA MinOf ==
  ASSUME NEW S \in SUBSET Int, IsFiniteSet(S), S # {}
  PROVE  Min(S) \in S /\ \A x \in S : Min(S) <= x
<1> DEFINE R == {p \in S \X S : p[1] <= p[2]}
<1>1. \A x, y \in S : <<x, y>> \in R <=> x <= y
  OBVIOUS
<1> HIDE DEF R
<1>2. OrderOf(R, S)
  BY <1>1 DEF OrderOf
<1>3. PICK x \in S : FirstOf(x, R, S)
  BY <1>2, FirstExists
<1>4. \A y \in S : x <= y
  <2>1. \A y \in S : y # x => x <= y
    BY <1>1, <1>3 DEF FirstOf
  <2> QED
    BY <2>1
<1>5. Min(S) \in S /\ \A y \in S : Min(S) <= y
  BY <1>3, <1>4 DEF Min
<1> QED
  BY <1>5

-----------------------------------------------------------------------------
(* What may be picked for a pack *)

Category == [pool : Seq(Symbols), count : Nat]

\* How many places of a list have a symbol of S.
Places(q, S) == {i \in DOMAIN q : q[i] \in S}
Count(q, S) == Cardinality(Places(q, S))
Listed(slots, S) == MapThenSumSet(LAMBDA k : Count(slots[k].pool, S), DOMAIN slots)
Promised(slots) == MapThenSumSet(LAMBDA k : Min({slots[k].count, Len(slots[k].pool)}), DOMAIN slots)

LEMMA CountType ==
  ASSUME NEW R, NEW q \in Seq(R), NEW S
  PROVE  IsFiniteSet(Places(q, S)) /\ Count(q, S) \in Nat
<1>1. DOMAIN q = 1 .. Len(q) /\ Len(q) \in Nat /\ Places(q, S) \subseteq 1 .. Len(q)
  BY DEF Places
<1>2. IsFiniteSet(1 .. Len(q))
  BY <1>1, FS_Interval
<1> QED
  BY <1>1, <1>2, FS_Subset, FS_CardinalityType DEF Count

LEMMA SmallerCount ==
  ASSUME NEW A, NEW B, IsFiniteSet(B), NEW f \in [A -> B],
         \A i, j \in A : f[i] = f[j] => i = j
  PROVE  IsFiniteSet(A) /\ Cardinality(A) <= Cardinality(B)
<1>1. f \in Injection(A, B)
  BY DEF Injection, IsInjective
<1> QED
  BY <1>1, FS_Injection

LEMMA CountConcat ==
  ASSUME NEW R, NEW a \in Seq(R), NEW b \in Seq(R), NEW S
  PROVE  Count(a \o b, S) <= Count(a, S) + Count(b, S)
<1> DEFINE n == Len(a)
           D == {i \in n + 1 .. n + Len(b) : b[i - n] \in S}
           f == [i \in D |-> i - n]
<1>1. n \in Nat /\ Len(b) \in Nat /\ DOMAIN a = 1 .. n /\ DOMAIN b = 1 .. Len(b)
  OBVIOUS
<1>2. /\ DOMAIN (a \o b) = 1 .. n + Len(b)
      /\ \A i \in 1 .. n + Len(b) : (a \o b)[i] = IF i <= n THEN a[i] ELSE b[i - n]
  OBVIOUS
<1>3. Places(a \o b, S) = Places(a, S) \cup D
  <2>1. Places(a \o b, S) = {i \in 1 .. n + Len(b) : (a \o b)[i] \in S}
    BY <1>2 DEF Places
  <2>2. Places(a, S) = {i \in 1 .. n : a[i] \in S}
    BY <1>1 DEF Places
  <2>3. \A i : i \in 1 .. n + Len(b) <=> (i \in 1 .. n \/ i \in n + 1 .. n + Len(b))
    BY <1>1
  <2>4. /\ \A i \in 1 .. n : (a \o b)[i] = a[i] /\ i \notin n + 1 .. n + Len(b)
        /\ \A i \in n + 1 .. n + Len(b) : (a \o b)[i] = b[i - n]
    BY <1>1, <1>2
  <2> HIDE DEF n
  <2> QED
    BY <2>1, <2>2, <2>3, <2>4
<1>4. /\ IsFiniteSet(Places(a, S)) /\ IsFiniteSet(Places(b, S))
      /\ Cardinality(Places(a, S)) \in Nat /\ Cardinality(Places(b, S)) \in Nat
  BY CountType DEF Count
<1>5. f \in [D -> Places(b, S)] /\ \A i, j \in D : f[i] = f[j] => i = j
  BY <1>1 DEF Places
<1> HIDE DEF D, f, n
<1>6. IsFiniteSet(D) /\ Cardinality(D) <= Cardinality(Places(b, S)) /\ Cardinality(D) \in Nat
  BY <1>4, <1>5, SmallerCount, FS_CardinalityType
<1>7. /\ Cardinality(Places(a, S) \cup D) =
           Cardinality(Places(a, S)) + Cardinality(D) - Cardinality(Places(a, S) \cap D)
      /\ Cardinality(Places(a, S) \cap D) \in Nat
  BY <1>4, <1>6, FS_Union, FS_Intersection, FS_CardinalityType
<1>8. Cardinality(Places(a, S) \cup D) <= Cardinality(Places(a, S)) + Cardinality(Places(b, S))
  <2>1. /\ Cardinality(Places(a, S) \cup D) <= Cardinality(Places(a, S)) + Cardinality(D)
    BY <1>4, <1>6, <1>7
  <2>2. Cardinality(Places(a, S) \cup D) \in Int
    BY <1>4, <1>6, <1>7
  <2> QED
    BY <1>4, <1>6, <2>1, <2>2
<1> QED
  BY <1>3, <1>8 DEF Count

LEMMA LeastOfTwo ==
  ASSUME NEW m \in Nat, NEW n \in Nat
  PROVE  Min({m, n}) \in Nat /\ Min({m, n}) = IF m <= n THEN m ELSE n
BY DEF Min

LEMMA SampleOf ==
  ASSUME NEW c \in Category, NEW b \in Samples(c), NEW S
  PROVE  /\ b \in Seq(Symbols) /\ Len(b) = Min({c.count, Len(c.pool)})
         /\ Count(b, S) <= Count(c.pool, S)
<1>1. c.pool \in Seq(Symbols) /\ c.count \in Nat /\ Len(c.pool) \in Nat
      /\ DOMAIN c.pool = 1 .. Len(c.pool)
  BY DEF Category
<1>2. Min({c.count, Len(c.pool)}) = IF c.count <= Len(c.pool) THEN c.count ELSE Len(c.pool)
  BY <1>1, LeastOfTwo
<1>3. CASE Len(c.pool) < c.count
  <2>1. b = c.pool
    BY <1>3 DEF Samples
  <2>2. Count(c.pool, S) \in Nat
    BY <1>1, CountType
  <2> QED
    BY <1>1, <1>2, <1>3, <2>1, <2>2
<1>4. CASE ~ (Len(c.pool) < c.count)
  <2>1. PICK f \in [1 .. c.count -> DOMAIN c.pool] :
          IsInjective(f) /\ b = [i \in 1 .. c.count |-> c.pool[f[i]]]
    BY <1>4 DEF Samples
  <2>2. b \in Seq(Symbols) /\ Len(b) = c.count /\ DOMAIN b = 1 .. c.count
    BY <1>1, <2>1
  <2> DEFINE h == [i \in Places(b, S) |-> f[i]]
  <2>3. h \in [Places(b, S) -> Places(c.pool, S)] /\ \A i, j \in Places(b, S) : h[i] = h[j] => i = j
    BY <2>1, <2>2 DEF Places, IsInjective
  <2>4. IsFiniteSet(Places(c.pool, S))
    BY <1>1, CountType
  <2>5. Count(b, S) <= Count(c.pool, S)
    <3> HIDE DEF h
    <3> QED
      BY <2>3, <2>4, SmallerCount DEF Count
  <2> QED
    BY <1>1, <1>2, <1>4, <2>2, <2>5
<1> QED
  BY <1>3, <1>4

\* Every list of the first set followed by every list of the second.
Joined(P, B) == {a \o b : a \in P, b \in B}

LEMMA JoinedIn ==
  ASSUME NEW P, NEW B, NEW z
  PROVE  z \in Joined(P, B) <=> \E a \in P, b \in B : z = a \o b
BY SMT DEF Joined

LEMMA JoinedType ==
  ASSUME NEW R, NEW P \in SUBSET Seq(R), NEW B \in SUBSET Seq(R)
  PROVE  Joined(P, B) \in SUBSET Seq(R)
<1> SUFFICES ASSUME NEW z \in Joined(P, B) PROVE z \in Seq(R)
  OBVIOUS
<1>1. PICK a \in P, b \in B : z = a \o b
  BY JoinedIn
<1> QED
  BY <1>1

ListedBody(g, slots, S) ==
  [s \in SUBSET DOMAIN slots |-> IF s = {} THEN 0
     ELSE Count(slots[CHOOSE x \in s : TRUE].pool, S) + g[s \ {CHOOSE x \in s : TRUE}]]
PromisedBody(g, slots) ==
  [s \in SUBSET DOMAIN slots |-> IF s = {} THEN 0
     ELSE Min({slots[CHOOSE x \in s : TRUE].count, Len(slots[CHOOSE x \in s : TRUE].pool)})
          + g[s \ {CHOOSE x \in s : TRUE}]]
PickBody(g, slots) ==
  [s \in SUBSET DOMAIN slots |->
     IF s = {} THEN {<<>>}
     ELSE Joined(g[s \ {Max(s)}], Samples(slots[Max(s)]))]

LEMMA ListedIs == ASSUME NEW slots, NEW S
                  PROVE  Listed(slots, S) = (CHOOSE g : g = ListedBody(g, slots, S))[DOMAIN slots]
BY DEF Listed, MapThenSumSet, MapThenFoldSet, ListedBody

LEMMA PromisedIs == ASSUME NEW slots
                    PROVE  Promised(slots) = (CHOOSE g : g = PromisedBody(g, slots))[DOMAIN slots]
BY DEF Promised, MapThenSumSet, MapThenFoldSet, PromisedBody

LEMMA PicksIs == ASSUME NEW slots
                 PROVE  Picks(slots) = (CHOOSE g : g = PickBody(g, slots))[DOMAIN slots]
BY DEF Picks, FoldLeft, MapThenFoldSet, PickBody, Joined

LEMMA ListedSum ==
  ASSUME NEW slots \in Seq(Category), NEW S
  PROVE  \E g : /\ Solves(g, [k \in DOMAIN slots |-> Count(slots[k].pool, S)], DOMAIN slots)
                /\ Listed(slots, S) = g[DOMAIN slots]
<1> DEFINE v == [k \in DOMAIN slots |-> Count(slots[k].pool, S)]
<1>1. DOMAIN slots = 1 .. Len(slots) /\ IsFiniteSet(DOMAIN slots)
  BY FS_Interval
<1>2. v \in [DOMAIN slots -> Int]
  <2>1. \A k \in DOMAIN slots : slots[k] \in Category
    OBVIOUS
  <2>2. \A k \in DOMAIN slots : Count(slots[k].pool, S) \in Nat
    BY <2>1, CountType DEF Category
  <2> QED
    BY <2>2
<1>3. \A g : ListedBody(g, slots, S) = [s \in SUBSET DOMAIN slots |-> IF s = {} THEN 0
                                          ELSE v[Picked(s)] + g[s \ {Picked(s)}]]
  <2>1. \A s \in SUBSET DOMAIN slots : s # {} =>
          v[Picked(s)] = Count(slots[CHOOSE x \in s : TRUE].pool, S)
    BY PickedIn DEF Picked
  <2> HIDE DEF v
  <2> QED
    BY <2>1 DEF ListedBody, Picked
<1> HIDE DEF v
<1>4. \A g : g = ListedBody(g, slots, S) <=> Solves(g, v, DOMAIN slots)
  BY <1>3 DEF Solves
<1>5. \E g : g = ListedBody(g, slots, S)
  BY <1>1, <1>2, <1>4, SumExists
<1>6. \E g : Solves(g, v, DOMAIN slots) /\ Listed(slots, S) = g[DOMAIN slots]
  BY <1>4, <1>5, ListedIs
<1> QED
  BY <1>6 DEF v

LEMMA PromisedSum ==
  ASSUME NEW slots \in Seq(Category)
  PROVE  \E g : /\ Solves(g, [k \in DOMAIN slots |-> Min({slots[k].count, Len(slots[k].pool)})],
                             DOMAIN slots)
                /\ Promised(slots) = g[DOMAIN slots]
<1> DEFINE v == [k \in DOMAIN slots |-> Min({slots[k].count, Len(slots[k].pool)})]
<1>1. DOMAIN slots = 1 .. Len(slots) /\ IsFiniteSet(DOMAIN slots)
  BY FS_Interval
<1>2. v \in [DOMAIN slots -> Int]
  <2>0. \A k \in DOMAIN slots : slots[k] \in Category
    OBVIOUS
  <2>1. \A k \in DOMAIN slots : slots[k].count \in Nat /\ Len(slots[k].pool) \in Nat
    BY <2>0 DEF Category
  <2>2. \A k \in DOMAIN slots : Min({slots[k].count, Len(slots[k].pool)}) \in Nat
    BY <2>1, LeastOfTwo
  <2> QED
    BY <2>2
<1>3. \A g : PromisedBody(g, slots) = [s \in SUBSET DOMAIN slots |-> IF s = {} THEN 0
                                         ELSE v[Picked(s)] + g[s \ {Picked(s)}]]
  <2>1. \A s \in SUBSET DOMAIN slots : s # {} =>
          v[Picked(s)] = Min({slots[CHOOSE x \in s : TRUE].count, Len(slots[CHOOSE x \in s : TRUE].pool)})
    BY PickedIn DEF Picked
  <2> HIDE DEF v
  <2> QED
    BY <2>1 DEF PromisedBody, Picked
<1> HIDE DEF v
<1>4. \A g : g = PromisedBody(g, slots) <=> Solves(g, v, DOMAIN slots)
  BY <1>3 DEF Solves
<1>5. \E g : g = PromisedBody(g, slots)
  BY <1>1, <1>2, <1>4, SumExists
<1>6. \E g : Solves(g, v, DOMAIN slots) /\ Promised(slots) = g[DOMAIN slots]
  BY <1>4, <1>5, PromisedIs
<1> QED
  BY <1>6 DEF v

LEMMA LastOne ==
  ASSUME NEW n \in Nat, NEW s \in SUBSET (1 .. n), s # {}
  PROVE  Max(s) \in s /\ \A i \in s : i <= Max(s)
<1> DEFINE T == {n - i : i \in s}
<1>1. T \in SUBSET Nat /\ T # {}
  <2>1. \A i \in s : n - i \in Nat
    OBVIOUS
  <2>2. PICK i : i \in s
    OBVIOUS
  <2>3. n - i \in T
    BY <2>2
  <2> QED
    BY <2>1, <2>3
<1>2. PICK m \in T : \A k \in T : m <= k
  <2> HIDE DEF T
  <2> QED
    BY <1>1, LeastNumber
<1>3. PICK i \in s : m = n - i
  BY <1>2
<1>4. \A j \in s : i >= j
  <2> TAKE j \in s
  <2>1. n - j \in T /\ i \in Nat /\ j \in Nat
    OBVIOUS
  <2>2. n - i <= n - j
    BY <1>2, <1>3, <2>1
  <2> QED
    BY <2>1, <2>2
<1>5. Max(s) \in s /\ \A j \in s : Max(s) >= j
  BY <1>4 DEF Max
<1> QED
  BY <1>5

\* The picks by the number of categories they are from.
LEMMA PicksSteps ==
  ASSUME NEW slots \in Seq(Category)
  PROVE  \E g : /\ Picks(slots) = g[DOMAIN slots] /\ g[{}] = {<<>>}
                /\ \A n \in 1 .. Len(slots) :
                     g[1 .. n] = Joined(g[1 .. n - 1], Samples(slots[n]))
<1> DEFINE U == DOMAIN slots
           V == SUBSET Seq(Symbols)
           x == [s \in SUBSET U |-> Max(s)]
           F == [s \in SUBSET U |-> [P \in V |->
                   IF s = {} THEN P ELSE Joined(P, Samples(slots[Max(s)]))]]
<1>1. U = 1 .. Len(slots) /\ Len(slots) \in Nat /\ IsFiniteSet(U)
  BY FS_Interval
<1>2. \A s \in SUBSET U : s # {} => Max(s) \in s
  BY <1>1, LastOne
<1>3. Foldable({<<>>}, F, x, V, U)
  <2>1. ASSUME NEW s \in SUBSET U, s # {}, NEW P \in V
        PROVE  Joined(P, Samples(slots[Max(s)])) \in V
    <3>1. slots[Max(s)] \in Category
      BY <1>2, <2>1
    <3>2. \A b \in Samples(slots[Max(s)]) : b \in Seq(Symbols)
      BY <3>1, SampleOf
    <3> QED
      BY <2>1, <3>2, JoinedType
  <2>2. F \in [SUBSET U -> [V -> V]]
    BY <2>1
  <2>3. Takes(x, U)
    BY <1>2 DEF Takes
  <2>4. {<<>>} \in V
    OBVIOUS
  <2> HIDE DEF U, V, x, F
  <2> QED
    BY <1>1, <2>2, <2>3, <2>4 DEF Foldable
<1>4. \E g : g = PickBody(g, slots)
  <2>1. PICK g : Folded(g, {<<>>}, F, x, V, U)
    <3> HIDE DEF U, V, x, F
    <3> QED
      BY <1>3, FoldExists
  <2>2. g \in [SUBSET U -> V] /\ g[{}] = {<<>>}
    <3> HIDE DEF U, V, x, F
    <3> QED
      BY <2>1 DEF Folded
  <2>3. ASSUME NEW s \in SUBSET U, s # {}
        PROVE  g[s] = Joined(g[s \ {Max(s)}], Samples(slots[Max(s)]))
    <3>1. s \ {Max(s)} \in SUBSET U /\ x[s] = Max(s)
      OBVIOUS
    <3>2. g[s \ {Max(s)}] \in V
      BY <2>2, <3>1
    <3>3. g[s] = F[s][g[s \ {Max(s)}]]
      <4> HIDE DEF F, V
      <4> QED
        BY <2>1, <2>3, <3>1 DEF Folded
    <3>4. F[s][g[s \ {Max(s)}]] = Joined(g[s \ {Max(s)}], Samples(slots[Max(s)]))
      <4> HIDE DEF V
      <4> QED
        BY <2>3, <3>2
    <3> QED
      BY <3>3, <3>4
  <2>4. g = PickBody(g, slots)
    <3> HIDE DEF F, V, x
    <3> QED
      BY <2>2, <2>3 DEF PickBody
  <2> QED
    BY <2>4
<1>5. PICK g : g = PickBody(g, slots) /\ Picks(slots) = g[DOMAIN slots]
  BY <1>4, PicksIs
<1>6. g[{}] = {<<>>}
  BY <1>5 DEF PickBody
<1>7. ASSUME NEW n \in 1 .. Len(slots)
      PROVE  g[1 .. n] = Joined(g[1 .. n - 1], Samples(slots[n]))
  <2>1. 1 .. n \in SUBSET U /\ 1 .. n # {} /\ n \in Nat /\ n \in 1 .. n
    <3> HIDE DEF U
    <3> QED
      BY <1>1
  <2>2. Max(1 .. n) = n
    <3>1. Max(1 .. n) \in 1 .. n /\ \A i \in 1 .. n : i <= Max(1 .. n)
      BY <2>1, LastOne
    <3>2. n <= Max(1 .. n)
      BY <2>1, <3>1
    <3> QED
      BY <2>1, <3>1, <3>2
  <2>3. (1 .. n) \ {n} = 1 .. n - 1
    BY <2>1
  <2> QED
    BY <1>5, <2>1, <2>2, <2>3 DEF PickBody
<1> QED
  BY <1>5, <1>6, <1>7

\* Picks are as many as promised, and have no symbol more often than it is listed.
LEMMA PicksOf ==
  ASSUME NEW slots \in Seq(Category), NEW picks \in Picks(slots), NEW S
  PROVE  /\ picks \in Seq(Symbols) /\ Len(picks) = Promised(slots)
         /\ Count(picks, S) <= Listed(slots, S)
         /\ Count(picks, S) \in Nat /\ Listed(slots, S) \in Int
<1> DEFINE U == DOMAIN slots
           m == Len(slots)
           v == [k \in DOMAIN slots |-> Count(slots[k].pool, S)]
           w == [k \in DOMAIN slots |-> Min({slots[k].count, Len(slots[k].pool)})]
<1>1. U = 1 .. m /\ m \in Nat /\ IsFiniteSet(U)
  BY FS_Interval
<1>2. PICK g : /\ Picks(slots) = g[U] /\ g[{}] = {<<>>}
               /\ \A n \in 1 .. m : g[1 .. n] = Joined(g[1 .. n - 1], Samples(slots[n]))
  BY PicksSteps
<1>3. PICK l : Solves(l, v, U) /\ Listed(slots, S) = l[U]
  BY ListedSum
<1>4. PICK p : Solves(p, w, U) /\ Promised(slots) = p[U]
  BY PromisedSum
<1>5. /\ v \in [U -> Int] /\ w \in [U -> Int]
      /\ \A k \in U : v[k] = Count(slots[k].pool, S) /\ w[k] = Min({slots[k].count, Len(slots[k].pool)})
  <2>1. \A k \in U : slots[k] \in Category
    OBVIOUS
  <2>2. \A k \in U : slots[k].pool \in Seq(Symbols) /\ slots[k].count \in Nat /\ Len(slots[k].pool) \in Nat
    BY <2>1 DEF Category
  <2>3. \A k \in U : Count(slots[k].pool, S) \in Nat
    BY <2>2, CountType
  <2>4. \A k \in U : Min({slots[k].count, Len(slots[k].pool)}) \in Nat
    BY <2>2, LeastOfTwo
  <2> HIDE DEF U
  <2>5. v \in [U -> Int] /\ w \in [U -> Int]
    BY <2>3, <2>4 DEF U
  <2> QED
    BY <2>5 DEF U
<1> HIDE DEF v, w
<1>6. \A n \in 1 .. m : /\ l[1 .. n] \in Int /\ p[1 .. n] \in Int
                        /\ l[1 .. n - 1] \in Int /\ p[1 .. n - 1] \in Int
                        /\ l[1 .. n] = l[1 .. n - 1] + v[n] /\ p[1 .. n] = p[1 .. n - 1] + w[n]
  <2> TAKE n \in 1 .. m
  <2>1. 1 .. n \in SUBSET U /\ 1 .. n - 1 \in SUBSET U /\ n \in 1 .. n /\ (1 .. n) \ {n} = 1 .. n - 1
    BY <1>1
  <2>2. l[1 .. n] \in Int /\ l[1 .. n - 1] \in Int /\ l[1 .. n] = l[(1 .. n) \ {n}] + v[n]
    <3> HIDE DEF U, m
    <3>1. IsFiniteSet(U) /\ v \in [U -> Int] /\ Solves(l, v, U)
      BY <1>1, <1>3, <1>5
    <3>2. l[1 .. n] \in Int /\ Grows(l, v, 1 .. n)
      BY <2>1, <3>1, SumAdds
    <3>3. l[1 .. n - 1] \in Int
      BY <2>1, <3>1, SumAdds
    <3>4. l[1 .. n] = l[(1 .. n) \ {n}] + v[n]
      BY <2>1, <3>2 DEF Grows
    <3> QED
      BY <3>2, <3>3, <3>4, <2>1
  <2>3. p[1 .. n] \in Int /\ p[1 .. n - 1] \in Int /\ p[1 .. n] = p[(1 .. n) \ {n}] + w[n]
    <3> HIDE DEF U, m
    <3>1. IsFiniteSet(U) /\ w \in [U -> Int] /\ Solves(p, w, U)
      BY <1>1, <1>4, <1>5
    <3>2. p[1 .. n] \in Int /\ Grows(p, w, 1 .. n)
      BY <2>1, <3>1, SumAdds
    <3>3. p[1 .. n - 1] \in Int
      BY <2>1, <3>1, SumAdds
    <3>4. p[1 .. n] = p[(1 .. n) \ {n}] + w[n]
      BY <2>1, <3>2 DEF Grows
    <3> QED
      BY <3>2, <3>3, <3>4, <2>1
  <2> QED
    BY <2>1, <2>2, <2>3
<1>7. l[{}] = 0 /\ p[{}] = 0
  BY <1>3, <1>4 DEF Solves
<1> DEFINE Good(n) == \A q \in g[1 .. n] : /\ q \in Seq(Symbols) /\ Len(q) = p[1 .. n]
                                           /\ Count(q, S) <= l[1 .. n]
           T == {n \in 0 .. m : ~ Good(n)}
<1>8. Good(0)
  <2>1. 1 .. 0 = {}
    OBVIOUS
  <2>2. <<>> \in Seq(Symbols) /\ Len(<<>>) = 0 /\ Places(<<>>, S) = {}
    BY DEF Places
  <2>3. Count(<<>>, S) = 0
    BY <2>2, FS_EmptySet DEF Count
  <2>4. \A q \in g[1 .. 0] : q = <<>>
    BY <1>2, <2>1
  <2>5. p[1 .. 0] = 0 /\ l[1 .. 0] = 0
    BY <1>7, <2>1
  <2> SUFFICES ASSUME NEW q \in g[1 .. 0]
               PROVE  q \in Seq(Symbols) /\ Len(q) = p[1 .. 0] /\ Count(q, S) <= l[1 .. 0]
    OBVIOUS
  <2>6. q = <<>>
    BY <2>4
  <2> HIDE DEF T
  <2>7. Count(q, S) = 0 /\ Len(q) = 0 /\ q \in Seq(Symbols)
    BY <2>2, <2>3, <2>6
  <2> QED
    BY <2>5, <2>7
<1>9. ASSUME NEW n \in 1 .. m, Good(n - 1)
      PROVE  Good(n)
  <2> SUFFICES ASSUME NEW q \in g[1 .. n]
               PROVE  q \in Seq(Symbols) /\ Len(q) = p[1 .. n] /\ Count(q, S) <= l[1 .. n]
    OBVIOUS
  <2>1. PICK a \in g[1 .. n - 1], b \in Samples(slots[n]) : q = a \o b
    <3>1. g[1 .. n] = Joined(g[1 .. n - 1], Samples(slots[n]))
      BY <1>2
    <3> HIDE DEF Good
    <3> QED
      BY <3>1, JoinedIn
  <2>2. a \in Seq(Symbols) /\ Len(a) = p[1 .. n - 1] /\ Count(a, S) <= l[1 .. n - 1]
    BY <1>9
  <2> HIDE DEF Good, T
  <2>3. slots[n] \in Category /\ n \in U
    BY <1>1
  <2>4. b \in Seq(Symbols) /\ Len(b) = w[n] /\ Count(b, S) <= v[n]
    BY <1>5, <2>1, <2>3, SampleOf
  <2>5. Count(q, S) <= Count(a, S) + Count(b, S)
    BY <2>1, <2>2, <2>4, CountConcat
  <2>6. q \in Seq(Symbols) /\ Len(q) = Len(a) + Len(b) /\ Len(a) \in Nat /\ Len(b) \in Nat
    BY <2>1, <2>2, <2>4
  <2>7. Count(q, S) \in Nat /\ Count(a, S) \in Nat /\ Count(b, S) \in Nat
    BY <2>2, <2>4, <2>6, CountType
  <2>8. /\ l[1 .. n] = l[1 .. n - 1] + v[n] /\ p[1 .. n] = p[1 .. n - 1] + w[n]
        /\ l[1 .. n - 1] \in Int /\ v[n] \in Int
    BY <1>5, <1>6, <2>3
  <2>9. Count(q, S) <= l[1 .. n]
    BY <2>2, <2>4, <2>5, <2>7, <2>8
  <2> QED
    BY <2>2, <2>4, <2>6, <2>8, <2>9
<1>10. T = {}
  <2> SUFFICES ASSUME T # {} PROVE FALSE
    OBVIOUS
  <2>1. T \in SUBSET Nat
    BY <1>1
  <2>2. PICK n \in T : \A k \in T : n <= k
    <3> HIDE DEF T
    <3> QED
      BY <2>1, LeastNumber
  <2>3. n \in 1 .. m /\ n - 1 \in 0 .. m /\ n - 1 \notin T
    <3>1. n # 0
      <4> HIDE DEF Good
      <4> QED
        BY <1>8
    <3> HIDE DEF Good
    <3> QED
      BY <1>1, <2>2, <3>1
  <2> HIDE DEF Good
  <2> QED
    BY <1>9, <2>2, <2>3
<1>11. Good(m)
  <2> HIDE DEF Good
  <2> QED
    BY <1>1, <1>10
<1>12. picks \in Seq(Symbols) /\ Len(picks) = p[U] /\ Count(picks, S) <= l[U]
  BY <1>1, <1>2, <1>11
<1>13. l[U] \in Int
  <2> HIDE DEF U
  <2> QED
    BY <1>1, <1>3, <1>5, SumAdds
<1> QED
  BY <1>3, <1>4, <1>12, <1>13, CountType

-----------------------------------------------------------------------------
(* The shelf: packs, openings and the history *)

\* Rows are typed, also those of the draw under way.
PackRow == [type : PackTypes, opened : BOOLEAN]
OpeningRow == [pack : Nat, slots : AnySlots \ {NoRow}, cards : Seq(Cards), gone : SUBSET Symbols,
               status : {"prepared", "completed"}]
Draws == [pack : Nat, slots : AnySlots \ {NoRow}, todo : Seq(Symbols), cards : Seq(Cards),
          gone : SUBSET Symbols]
Walks == [pc : {"idle", "next", "done", "failed"}, offset : Nat, total : Nat,
          owed : SUBSET Nat, shown : SUBSET Nat]

ShelfType ==
  /\ ShelfTypeOK /\ openings \in Seq(OpeningRow) /\ walk \in Walks
  /\ draw # NoRow => draw \in Draws /\ draw.pack \in DOMAIN packs

\* A pack is opened by the opening that was completed, which has its cards.
Linked ==
  \A i \in DOMAIN packs :
    packs[i].opened <=> \E o \in DOMAIN openings :
                          openings[o].pack = i /\ openings[o].status = "completed"

\* What lies before the offset of a client that reads has been shown, wherever
\* the openings added since have moved it.
Reading ==
  /\ walk.pc = "idle" => walk.offset = 0 /\ walk.owed = {}
  /\ \A o \in walk.owed : Len(openings) - o < walk.offset => o \in walk.shown
  /\ walk.pc = "done" /\ walk.total # 0 => walk.owed \subseteq walk.shown

ShelfInv == ShelfType /\ Linked /\ Reading

LEMMA SlotsType == AnySlots \ {NoRow} \subseteq Seq(Category)
BY ShelfAssumption DEF Category

LEMMA ShelfInitInv == ShelfInit => ShelfInv
<1> SUFFICES ASSUME ShelfInit PROVE ShelfInv
  OBVIOUS
<1>1. types \in [PackTypes -> PackType]
  BY DEF ShelfInit, PackType
<1>2. ShelfType
  BY <1>1, ShelfAssumption DEF ShelfInit, ShelfType, ShelfTypeOK, Unread, Walks
<1>3. Linked /\ Reading
  BY DEF ShelfInit, Linked, Reading, Unread
<1> QED
  BY <1>2, <1>3 DEF ShelfInv

LEMMA GrantKeeps ==
  ASSUME ShelfInv, NEW k \in PackTypes, ShelfGrant(k)
  PROVE  ShelfInv'
<1> DEFINE row == [type |-> k, opened |-> FALSE]
           n == Len(packs)
<1>1. row \in PackRow /\ packs \in Seq(PackRow) /\ n \in Nat
  BY DEF ShelfInv, ShelfType, ShelfTypeOK, PackRow
<1>2. /\ packs' \in Seq(PackRow) /\ Len(packs') = n + 1 /\ packs'[n + 1] = row
      /\ \A i \in 1 .. n : packs'[i] = packs[i]
      /\ DOMAIN packs = 1 .. n /\ DOMAIN packs' = 1 .. n + 1
  <2> HIDE DEF row
  <2> QED
    BY <1>1 DEF ShelfGrant, row
<1>3. DOMAIN packs \subseteq DOMAIN packs' /\ Len(packs') <= MaxPacks
  BY <1>1, <1>2, ShelfAssumption DEF ShelfGrant
<1>4. ShelfType'
  BY <1>2, <1>3 DEF ShelfInv, ShelfType, ShelfTypeOK, ShelfGrant, PackRow
<1>5. Linked'
  <2>1. \A o \in DOMAIN openings : openings[o].pack # n + 1
    BY <1>1, <1>2 DEF ShelfInv, ShelfType, ShelfTypeOK
  <2>2. openings' = openings /\ DOMAIN packs' = DOMAIN packs \cup {n + 1} /\ ~ packs'[n + 1].opened
    BY <1>1, <1>2 DEF ShelfGrant
  <2> QED
    BY <1>2, <2>1, <2>2 DEF ShelfInv, Linked
<1>6. Reading'
  BY DEF ShelfInv, Reading, ShelfGrant
<1> QED
  BY <1>4, <1>5, <1>6 DEF ShelfInv

\* A step that leaves the packs, the openings and the client alone.
LEMMA ShelfSame ==
  ASSUME ShelfInv, UNCHANGED <<packs, openings, walk>>, ShelfType'
  PROVE  ShelfInv'
BY DEF ShelfInv, Linked, Reading

LEMMA PanelKeeps ==
  ASSUME ShelfInv, ShelfSwitch \/ \E k \in PackTypes : update_pack_type(k)
  PROVE  ShelfInv'
<1>1. CASE ShelfSwitch
  <2>1. edits' \in 0 .. MaxEdits
    BY <1>1, ShelfAssumption DEF ShelfSwitch, ShelfInv, ShelfType, ShelfTypeOK
  <2>2. tokenOn' \in [Symbols -> BOOLEAN] /\ cardOn' \in [Cards -> BOOLEAN]
    BY <1>1 DEF ShelfSwitch, ShelfInv, ShelfType, ShelfTypeOK
  <2>3. ASSUME draw' # NoRow PROVE draw' \in Draws /\ draw'.pack \in DOMAIN packs
    <3>1. draw # NoRow /\ draw' = [draw EXCEPT !.gone = @ \cup Missing']
      BY <1>1, <2>3 DEF ShelfSwitch
    <3>2. draw \in Draws /\ draw.pack \in DOMAIN packs
      BY <3>1 DEF ShelfInv, ShelfType
    <3>3. Missing' \subseteq Symbols
      BY DEF Missing
    <3> QED
      BY <3>1, <3>2, <3>3 DEF Draws
  <2>4. UNCHANGED <<types, packs, openings, walk>>
    BY <1>1 DEF ShelfSwitch
  <2>5. ShelfType'
    BY <2>1, <2>2, <2>3, <2>4 DEF ShelfInv, ShelfType, ShelfTypeOK
  <2> QED
    BY <2>4, <2>5, ShelfSame
<1>2. ASSUME NEW k \in PackTypes, update_pack_type(k)
      PROVE  ShelfInv'
  <2>1. edits' \in 0 .. MaxEdits /\ UNCHANGED <<stockVars, packs, draw, openings, walk>>
    BY <1>2, ShelfAssumption DEF update_pack_type, ShelfInv, ShelfType, ShelfTypeOK
  <2>2. types \in [PackTypes -> PackType]
    BY DEF ShelfInv, ShelfType, ShelfTypeOK
  <2>3. types' \in [PackTypes -> PackType]
    <3>1. CASE types' = [types EXCEPT ![k].active = ~@]
      BY <2>2, <3>1 DEF PackType
    <3>2. CASE \E slots \in AnySlots : types' = [types EXCEPT ![k].slots = slots]
      BY <2>2, <3>2 DEF PackType
    <3>3. CASE types' = [types EXCEPT ![k].supply = 1]
      BY <2>2, <3>3 DEF PackType
    <3> QED
      BY <1>2, <3>1, <3>2, <3>3 DEF update_pack_type
  <2>4. ShelfType'
    BY <2>1, <2>3 DEF ShelfInv, ShelfType, ShelfTypeOK
  <2> QED
    BY <2>1, <2>4, ShelfSame
<1> QED
  BY <1>1, <1>2

LEMMA PickedType ==
  ASSUME NEW slots \in AnySlots \ {NoRow}, NEW picks \in Picks(slots)
  PROVE  picks \in Seq(Symbols)
BY SlotsType, PicksOf

LEMMA PrepareKeeps ==
  ASSUME ShelfInv, NEW i \in DOMAIN packs, ShelfPrepare(i)
  PROVE  ShelfInv'
<1> DEFINE slots == types[packs[i].type].slots
<1>1. packs[i].type \in PackTypes /\ i \in Nat
  <2>1. packs \in Seq(PackRow)
    BY DEF ShelfInv, ShelfType, ShelfTypeOK, PackRow
  <2>2. packs[i] \in PackRow /\ i \in Nat
    BY <2>1
  <2> QED
    BY <2>2 DEF PackRow
<1>2. slots \in AnySlots \ {NoRow}
  BY <1>1 DEF ShelfInv, ShelfType, ShelfTypeOK, PackType, ShelfPrepare
<1>3. PICK picks \in Picks(slots) :
        draw' = [pack |-> i, slots |-> slots, todo |-> picks, cards |-> <<>>, gone |-> Missing]
  BY DEF ShelfPrepare
<1> HIDE DEF slots
<1>4. picks \in Seq(Symbols) /\ Missing \subseteq Symbols
  BY <1>2, <1>3, PickedType DEF Missing
<1>5. UNCHANGED <<stockVars, types, packs, openings, walk, edits>>
  BY DEF ShelfPrepare
<1>6. draw' \in Draws /\ draw'.pack \in DOMAIN packs
  BY <1>1, <1>2, <1>3, <1>4 DEF Draws
<1>7. ShelfType'
  BY <1>5, <1>6 DEF ShelfInv, ShelfType, ShelfTypeOK
<1> QED
  BY <1>5, <1>7, ShelfSame

LEMMA LookupKeeps ==
  ASSUME ShelfInv, _get_card_id_by_symbol
  PROVE  ShelfInv'
<1>1. draw # NoRow /\ draw.todo # <<>> /\ UNCHANGED <<stockVars, types, packs, openings, walk, edits>>
  BY DEF _get_card_id_by_symbol
<1>2. draw \in Draws /\ draw.pack \in DOMAIN packs
  BY <1>1 DEF ShelfInv, ShelfType
<1> DEFINE rest == [draw EXCEPT !.todo = Tail(@)]
<1>3. rest \in Draws /\ rest.pack \in DOMAIN packs
  <2>1. draw.todo \in Seq(Symbols)
    BY <1>2 DEF Draws
  <2>2. Tail(draw.todo) \in Seq(Symbols)
    BY <1>1, <2>1
  <2> QED
    BY <1>2, <2>2 DEF Draws
<1>4. draw' = rest \/ \E c \in Cards : draw' = [rest EXCEPT !.cards = Append(@, c)]
  BY DEF _get_card_id_by_symbol, Found
<1> HIDE DEF rest
<1>5. draw' \in Draws /\ draw'.pack \in DOMAIN packs
  <2>1. CASE draw' = rest
    BY <1>3, <2>1
  <2>2. ASSUME NEW c \in Cards, draw' = [rest EXCEPT !.cards = Append(@, c)]
        PROVE  draw' \in Draws /\ draw'.pack \in DOMAIN packs
    <3>1. Append(rest.cards, c) \in Seq(Cards)
      BY <1>3 DEF Draws
    <3> QED
      BY <1>3, <2>2, <3>1 DEF Draws
  <2> QED
    BY <1>4, <2>1, <2>2
<1>6. ShelfType'
  BY <1>1, <1>5 DEF ShelfInv, ShelfType, ShelfTypeOK
<1> QED
  BY <1>1, <1>6, ShelfSame

\* The facts about the openings that the steps below use.
LEMMA OpeningRows ==
  ASSUME ShelfInv
  PROVE  /\ openings \in Seq(OpeningRow) /\ Len(openings) \in Nat
         /\ DOMAIN openings = 1 .. Len(openings)
         /\ \A o \in DOMAIN openings : openings[o] \in OpeningRow
         /\ walk \in Walks /\ walk.owed \subseteq DOMAIN openings
BY DEF ShelfInv, ShelfType, ShelfTypeOK

LEMMA StoreKeeps ==
  ASSUME ShelfInv, ShelfStore
  PROVE  ShelfInv'
<1>1. draw # NoRow /\ draw' = NoRow /\ UNCHANGED <<stockVars, types, packs, walk, edits>>
  BY DEF ShelfStore
<1>2. CASE draw.cards = <<>>
  <2>1. openings' = openings
    BY <1>2 DEF ShelfStore
  <2>2. ShelfType'
    BY <1>1, <2>1 DEF ShelfInv, ShelfType, ShelfTypeOK
  <2> QED
    BY <1>1, <2>1, <2>2, ShelfSame
<1>3. CASE draw.cards # <<>>
  <2> DEFINE row == [pack |-> draw.pack, slots |-> draw.slots, cards |-> draw.cards,
                     gone |-> draw.gone, status |-> "prepared"]
             n == Len(openings)
  <2>1. draw \in Draws /\ draw.pack \in DOMAIN packs
    BY <1>1 DEF ShelfInv, ShelfType
  <2>2. row \in OpeningRow
    BY <2>1 DEF Draws, OpeningRow
  <2>3. row.pack \in DOMAIN packs /\ row.cards \in Seq(Cards) \ {<<>>} /\ row.status = "prepared"
    BY <1>3, <2>1 DEF Draws
  <2>4. openings' = Append(openings, row)
    BY <1>3 DEF ShelfStore
  <2>5. openings \in Seq(OpeningRow) /\ n \in Nat /\ DOMAIN openings = 1 .. n
    BY OpeningRows
  <2> HIDE DEF row
  <2>6. /\ openings' \in Seq(OpeningRow) /\ Len(openings') = n + 1 /\ openings'[n + 1] = row
        /\ \A o \in 1 .. n : openings'[o] = openings[o]
        /\ DOMAIN openings' = 1 .. n + 1
    BY <2>2, <2>4, <2>5
  <2> HIDE DEF n
  <2>7. /\ DOMAIN openings \subseteq DOMAIN openings' /\ n + 1 \in DOMAIN openings'
        /\ \A o \in DOMAIN openings' : o \in DOMAIN openings \/ o = n + 1
    BY <2>5, <2>6
  <2>8. ShelfTypeOK'
    <3>1. ASSUME NEW o \in DOMAIN openings'
          PROVE  /\ openings'[o].pack \in DOMAIN packs
                 /\ openings'[o].cards \in Seq(Cards) \ {<<>>}
                 /\ openings'[o].status \in {"prepared", "completed"}
      <4>1. CASE o \in DOMAIN openings
        BY <2>5, <2>6, <4>1 DEF ShelfInv, ShelfType, ShelfTypeOK
      <4>2. CASE o = n + 1
        BY <2>3, <2>6, <4>2
      <4> QED
        BY <2>7, <4>1, <4>2
    <3> QED
      BY <1>1, <2>7, <3>1 DEF ShelfInv, ShelfType, ShelfTypeOK
  <2>9. ShelfType'
    BY <1>1, <2>6, <2>8 DEF ShelfInv, ShelfType
  <2>10. Linked'
    <3> SUFFICES ASSUME NEW i \in DOMAIN packs
                 PROVE  packs[i].opened <=> \E o \in DOMAIN openings' :
                          openings'[o].pack = i /\ openings'[o].status = "completed"
      BY <1>1 DEF Linked
    <3>1. packs[i].opened <=> \E o \in DOMAIN openings :
                          openings[o].pack = i /\ openings[o].status = "completed"
      BY DEF ShelfInv, Linked
    <3> QED
      BY <2>3, <2>5, <2>6, <2>7, <3>1
  <2>11. Reading'
    <3>1. \A o \in walk.owed : Len(openings') - o < walk.offset => o \in walk.shown
      <4>1. \A o \in walk.owed : o \in Int /\ (n - o < walk.offset => o \in walk.shown)
        BY <2>5, OpeningRows DEF ShelfInv, Reading, n
      <4>2. walk.offset \in Int
        BY OpeningRows DEF Walks
      <4> QED
        BY <2>5, <2>6, <4>1, <4>2
    <3> QED
      BY <1>1, <3>1 DEF ShelfInv, Reading
  <2> QED
    BY <2>9, <2>10, <2>11 DEF ShelfInv
<1> QED
  BY <1>2, <1>3

LEMMA ConfirmKeeps ==
  ASSUME ShelfInv, NEW o \in DOMAIN openings, ShelfConfirm(o)
  PROVE  ShelfInv'
<1> DEFINE i == openings[o].pack
           done == [openings[o] EXCEPT !.status = "completed"]
           got == [packs[i] EXCEPT !.opened = TRUE]
<1>1. UNCHANGED <<stockVars, types, draw, walk, edits>>
  BY DEF ShelfConfirm
<1>2. /\ openings \in Seq(OpeningRow) /\ packs \in Seq(PackRow)
      /\ i \in DOMAIN packs /\ openings[o] \in OpeningRow /\ packs[i] \in PackRow
      /\ openings[o].cards \in Seq(Cards) \ {<<>>}
  <2>1. packs \in Seq(PackRow) /\ i \in DOMAIN packs /\ openings[o].cards \in Seq(Cards) \ {<<>>}
    BY DEF ShelfInv, ShelfType, ShelfTypeOK, PackRow
  <2> HIDE DEF i
  <2>2. packs[i] \in PackRow
    BY <2>1
  <2> QED
    BY <2>1, <2>2, OpeningRows
<1>3. /\ done \in OpeningRow /\ done.pack = i /\ done.cards = openings[o].cards
      /\ done.status = "completed"
  BY <1>2 DEF OpeningRow
<1>4. got \in PackRow /\ got.opened
  BY <1>2 DEF PackRow
<1>5. openings' = [openings EXCEPT ![o] = done] /\ packs' = [packs EXCEPT ![i] = got]
  BY DEF ShelfConfirm
<1> HIDE DEF i, done, got
<1>6. /\ openings' \in Seq(OpeningRow) /\ Len(openings') = Len(openings)
      /\ DOMAIN openings' = DOMAIN openings /\ openings'[o] = done
      /\ \A x \in DOMAIN openings : x # o => openings'[x] = openings[x]
  BY <1>2, <1>3, <1>5
<1>7. /\ packs' \in Seq(PackRow) /\ Len(packs') = Len(packs)
      /\ DOMAIN packs' = DOMAIN packs /\ packs'[i] = got
      /\ \A x \in DOMAIN packs : x # i => packs'[x] = packs[x]
  BY <1>2, <1>4, <1>5
<1>8. ShelfTypeOK'
  <2>1. ASSUME NEW x \in DOMAIN openings'
        PROVE  /\ openings'[x].pack \in DOMAIN packs'
               /\ openings'[x].cards \in Seq(Cards) \ {<<>>}
               /\ openings'[x].status \in {"prepared", "completed"}
    <3>1. CASE x = o
      BY <1>2, <1>3, <1>6, <1>7, <3>1
    <3>2. CASE x # o
      BY <1>6, <1>7, <3>2 DEF ShelfInv, ShelfType, ShelfTypeOK
    <3> QED
      BY <3>1, <3>2
  <2> QED
    BY <1>1, <1>6, <1>7, <2>1 DEF ShelfInv, ShelfType, ShelfTypeOK, PackRow
<1>9. ShelfType'
  BY <1>1, <1>6, <1>7, <1>8 DEF ShelfInv, ShelfType
<1>10. Linked'
  <2> SUFFICES ASSUME NEW x \in DOMAIN packs
               PROVE  packs'[x].opened <=> \E q \in DOMAIN openings :
                        openings'[q].pack = x /\ openings'[q].status = "completed"
    BY <1>6, <1>7 DEF Linked
  <2>1. packs[x].opened <=> \E q \in DOMAIN openings :
          openings[q].pack = x /\ openings[q].status = "completed"
    BY DEF ShelfInv, Linked
  <2>2. CASE x = i
    BY <1>3, <1>4, <1>6, <1>7, <2>2
  <2>3. CASE x # i
    <3>1. openings'[o].pack # x /\ openings[o].pack # x
      BY <1>3, <1>6, <2>3 DEF i
    <3>2. \A q \in DOMAIN openings : q # o => openings'[q] = openings[q]
      BY <1>6
    <3> QED
      BY <1>7, <2>1, <2>3, <3>1, <3>2
  <2> QED
    BY <2>2, <2>3
<1>11. Reading'
  BY <1>1, <1>6 DEF ShelfInv, Reading
<1> QED
  BY <1>9, <1>10, <1>11 DEF ShelfInv

\* One more page: what is owed and lies before the new offset was shown before,
\* or is on the page; an empty page has nothing after it.
LEMMA HistoryKeeps ==
  ASSUME ShelfInv, get_pack_history
  PROVE  ShelfInv'
<1> DEFINE n == Len(openings)
           shown == Page(walk.offset)
           next == walk.offset + PageSize
           owed == IF walk.pc = "idle" THEN DOMAIN openings ELSE walk.owed
           read == [walk EXCEPT !.pc = IF shown = {} THEN "done" ELSE "next",
                                !.offset = next, !.total = n, !.shown = @ \cup shown, !.owed = owed]
<1>1. /\ UNCHANGED <<stockVars, types, packs, draw, openings, edits>>
      /\ walk.pc \in {"idle", "next"}
      /\ walk' = [walk EXCEPT !.pc = "failed"] \/ walk' = read
  BY DEF get_pack_history, Read
<1>2. /\ walk \in Walks /\ n \in Nat /\ DOMAIN openings = 1 .. n
      /\ walk.owed \subseteq 1 .. n /\ walk.shown \subseteq 1 .. n
      /\ walk.offset \in Nat /\ PageSize \in Nat /\ PageSize >= 1
  BY OpeningRows, ShelfAssumption DEF ShelfInv, ShelfType, ShelfTypeOK, Walks
<1> HIDE DEF n
<1>3. shown \subseteq 1 .. n
  BY <1>2 DEF Page
<1>4. shown = {o \in 1 .. n : n - o >= walk.offset /\ n - o < next}
  BY <1>2 DEF Page, n
<1>5. CASE walk' = [walk EXCEPT !.pc = "failed"]
  <2>1. /\ walk' \in Walks /\ walk'.pc = "failed" /\ walk'.offset = walk.offset
        /\ walk'.owed = walk.owed /\ walk'.shown = walk.shown
    BY <1>2, <1>5 DEF Walks
  <2>2. ShelfType'
    BY <1>1, <2>1 DEF ShelfInv, ShelfType, ShelfTypeOK
  <2> QED
    BY <1>1, <2>1, <2>2 DEF ShelfInv, Linked, Reading
<1>6. CASE walk' = read
  <2>1. owed \subseteq 1 .. n /\ next \in Nat /\ owed \subseteq Nat
    BY <1>2
  <2>2. \A o \in owed : n - o < walk.offset => o \in walk.shown
    BY <1>2 DEF ShelfInv, Reading, n
  <2> HIDE DEF owed, shown, next
  <2>3. /\ walk' \in Walks /\ walk'.pc = IF shown = {} THEN "done" ELSE "next"
        /\ walk'.offset = next /\ walk'.owed = owed /\ walk'.shown = walk.shown \cup shown
    <3>1. walk.shown \cup shown \in SUBSET Nat /\ owed \in SUBSET Nat
      <4>1. 1 .. n \subseteq Nat
        BY <1>2
      <4>2. walk.shown \subseteq 1 .. n
        BY <1>2
      <4> QED
        BY <1>3, <2>1, <4>1, <4>2
    <3> DEFINE pc == IF shown = {} THEN "done" ELSE "next"
    <3>2. pc \in {"idle", "next", "done", "failed"}
      OBVIOUS
    <3>3. walk' = [walk EXCEPT !.pc = pc, !.offset = next, !.total = n, !.shown = walk.shown \cup shown,
                               !.owed = owed]
      BY <1>6
    <3> HIDE DEF pc
    <3>4. /\ walk' \in Walks /\ walk'.pc = pc /\ walk'.offset = next
          /\ walk'.owed = owed /\ walk'.shown = walk.shown \cup shown
      BY <1>2, <2>1, <3>1, <3>2, <3>3 DEF Walks
    <3> QED
      BY <3>4 DEF pc
  <2>4. ShelfType'
    BY <1>1, <1>2, <1>3, <2>1, <2>3 DEF ShelfInv, ShelfType, ShelfTypeOK
  <2>5. \A o \in owed : n - o < next => o \in walk.shown \cup shown
    BY <1>2, <1>4, <2>1, <2>2
  <2>6. shown = {} => owed \subseteq walk.shown
    <3> SUFFICES ASSUME shown = {}, NEW o \in owed
                 PROVE  o \in walk.shown
      OBVIOUS
    <3>1. o \in 1 .. n
      BY <2>1
    <3>2. CASE n - o < walk.offset
      BY <2>2, <3>2
    <3>3. CASE n - o >= walk.offset
      <4>1. n - walk.offset \in 1 .. n /\ n - (n - walk.offset) = walk.offset
        BY <1>2, <3>1, <3>3
      <4>2. walk.offset < next
        BY <1>2 DEF next
      <4>3. n - walk.offset \in shown
        BY <1>2, <1>4, <4>1, <4>2
      <4> QED
        BY <4>3
    <3> QED
      BY <1>2, <3>1, <3>2, <3>3
  <2>7. Reading'
    BY <1>1, <2>3, <2>5, <2>6 DEF Reading, n
  <2> QED
    BY <1>1, <2>4, <2>7 DEF ShelfInv, Linked
<1> QED
  BY <1>1, <1>5, <1>6

\* An error tells a total of 0.
LEMMA ErrorKeeps ==
  ASSUME ShelfInv, HistoryError
  PROVE  ShelfInv'
<1> DEFINE owed == IF walk.pc = "idle" THEN DOMAIN openings ELSE walk.owed
<1>1. /\ UNCHANGED <<stockVars, types, packs, draw, openings, edits>>
      /\ walk.pc \in {"idle", "next"} /\ walk \in Walks
      /\ walk' = [walk EXCEPT !.pc = "done", !.total = 0, !.owed = owed]
  BY DEF HistoryError, ShelfInv, ShelfType
<1>2. /\ owed \subseteq DOMAIN openings /\ DOMAIN openings \subseteq Nat
      /\ \A o \in owed : Len(openings) - o < walk.offset => o \in walk.shown
  <2>1. CASE walk.pc = "idle"
    <3>1. walk.offset = 0 /\ owed = DOMAIN openings
      BY <2>1 DEF ShelfInv, Reading
    <3>2. \A o \in DOMAIN openings : ~ (Len(openings) - o < 0)
      BY OpeningRows
    <3> QED
      BY <3>1, <3>2, OpeningRows
  <2>2. CASE walk.pc = "next"
    BY <2>2, OpeningRows DEF ShelfInv, Reading
  <2> QED
    BY <1>1, <2>1, <2>2
<1> HIDE DEF owed
<1>3. /\ walk' \in Walks /\ walk'.pc = "done" /\ walk'.total = 0 /\ walk'.offset = walk.offset
      /\ walk'.owed = owed /\ walk'.shown = walk.shown
  <2>1. owed \in SUBSET Nat
    BY <1>2
  <2> QED
    BY <1>1, <2>1 DEF Walks
<1>4. ShelfType'
  BY <1>1, <1>2, <1>3 DEF ShelfInv, ShelfType, ShelfTypeOK
<1>5. Reading'
  BY <1>1, <1>2, <1>3 DEF Reading
<1> QED
  BY <1>1, <1>4, <1>5 DEF ShelfInv, Linked

LEMMA ShelfNextInv == ShelfInv /\ [ShelfNext]_shelfVars => ShelfInv'
<1> SUFFICES ASSUME ShelfInv, [ShelfNext]_shelfVars
             PROVE  ShelfInv'
  OBVIOUS
<1>1. CASE UNCHANGED shelfVars
  BY <1>1 DEF shelfVars, ShelfInv, ShelfType, ShelfTypeOK, Linked, Reading
<1> QED
  BY <1>1, GrantKeeps, PanelKeeps, PrepareKeeps, LookupKeeps, StoreKeeps, ConfirmKeeps,
     HistoryKeeps, ErrorKeeps DEF ShelfNext

LEMMA ShelfInvariant == ShelfSpec => []ShelfInv
BY ShelfInitInv, ShelfNextInv, PTL DEF ShelfSpec

LEMMA ReadComplete == ShelfInv => HistoryComplete
<1> SUFFICES ASSUME ShelfInv, NEW i \in DOMAIN packs, types[packs[i].type].active
             PROVE  i \in get_available_packs <=>
                      \A o \in DOMAIN openings : openings[o].pack = i => get_pack_opening_by_id(o) = <<>>
  BY DEF ShelfInv, Reading, HistoryComplete
<1>1. \A o \in DOMAIN openings : openings[o].cards # <<>>
  BY DEF ShelfInv, ShelfType, ShelfTypeOK
<1>2. \A o \in DOMAIN openings : get_pack_opening_by_id(o) = <<>> <=> openings[o].status # "completed"
  BY <1>1 DEF get_pack_opening_by_id, _get_opening_cards
<1>3. i \in get_available_packs <=> ~ packs[i].opened
  BY DEF get_available_packs
<1> QED
  BY <1>2, <1>3 DEF ShelfInv, Linked

-----------------------------------------------------------------------------
(* The shelf: what a draw gives *)

\* Each card of a draw is of a pick of its own, among those looked up so far,
\* and a pick that gave no card is of a symbol that had none.
Fills(place, picks, k, cards, gone) ==
  /\ place \in [DOMAIN cards -> 1 .. k]
  /\ \A i, j \in DOMAIN cards : place[i] = place[j] => i = j
  /\ \A j \in DOMAIN cards : TokenOf[cards[j]] = picks[place[j]]
  /\ \A p \in 1 .. k : (\E j \in DOMAIN cards : place[j] = p) \/ picks[p] \in gone

Filled(picks, k, cards, gone) == \E place : Fills(place, picks, k, cards, gone)

\* The picks of a draw under way: k were looked up, the others are still to do.
Drawing(d, picks, k) ==
  /\ picks \in Seq(Symbols) /\ k \in Nat /\ Len(picks) = k + Len(d.todo)
  /\ \A i \in 1 .. Len(d.todo) : d.todo[i] = picks[k + i]
  /\ Filled(picks, k, d.cards, d.gone)

Stored(o) == \E picks \in Picks(openings[o].slots) :
               Filled(picks, Len(picks), openings[o].cards, openings[o].gone)

Drawn ==
  /\ draw # NoRow => /\ Missing \subseteq draw.gone
                     /\ \E picks \in Picks(draw.slots), k \in Nat : Drawing(draw, picks, k)
  /\ \A o \in DOMAIN openings : Stored(o)

LEMMA FilledMore ==
  ASSUME NEW picks, NEW k, NEW cards, NEW gone, NEW more, gone \subseteq more,
         Filled(picks, k, cards, gone)
  PROVE  Filled(picks, k, cards, more)
BY DEF Filled, Fills

\* What a lookup does to the picks: one more place, filled by a card of its
\* symbol, or left empty.
LEMMA FilledSkip ==
  ASSUME NEW picks, NEW k \in Nat, NEW cards, NEW gone, Filled(picks, k, cards, gone),
         picks[k + 1] \in gone
  PROVE  Filled(picks, k + 1, cards, gone)
<1>1. PICK place : Fills(place, picks, k, cards, gone)
  BY DEF Filled
<1>2. \A p : p \in 1 .. k + 1 <=> (p \in 1 .. k \/ p = k + 1)
  OBVIOUS
<1>3. place \in [DOMAIN cards -> 1 .. k + 1]
  BY <1>1, <1>2 DEF Fills
<1>4. Fills(place, picks, k + 1, cards, gone)
  BY <1>1, <1>2, <1>3 DEF Fills
<1> QED
  BY <1>4 DEF Filled

LEMMA FilledCard ==
  ASSUME NEW picks, NEW k \in Nat, NEW cards \in Seq(Cards), NEW gone, NEW c \in Cards,
         Filled(picks, k, cards, gone), TokenOf[c] = picks[k + 1]
  PROVE  Filled(picks, k + 1, Append(cards, c), gone)
<1> DEFINE n == Len(cards)
           more == Append(cards, c)
<1>1. PICK place : Fills(place, picks, k, cards, gone)
  BY DEF Filled
<1>2. \A p : p \in 1 .. k + 1 <=> (p \in 1 .. k \/ p = k + 1)
  OBVIOUS
<1>3. /\ n \in Nat /\ DOMAIN cards = 1 .. n /\ DOMAIN more = 1 .. n + 1
      /\ more[n + 1] = c /\ \A i \in 1 .. n : more[i] = cards[i]
  OBVIOUS
<1>4. \A i : i \in 1 .. n + 1 <=> (i \in 1 .. n \/ i = n + 1)
  BY <1>3
<1> HIDE DEF more, n
<1> DEFINE f == [i \in 1 .. n + 1 |-> IF i = n + 1 THEN k + 1 ELSE place[i]]
<1>5. /\ f \in [1 .. n + 1 -> 1 .. k + 1] /\ f[n + 1] = k + 1
      /\ \A i \in 1 .. n : f[i] = place[i] /\ place[i] \in 1 .. k
  <2>1. \A i \in 1 .. n : place[i] \in 1 .. k /\ i # n + 1
    BY <1>1, <1>3 DEF Fills
  <2> QED
    BY <1>2, <1>3, <1>4, <2>1
<1> HIDE DEF f
<1>6. k + 1 \notin 1 .. k
  OBVIOUS
<1>7. \A i, j \in DOMAIN more : f[i] = f[j] => i = j
  BY <1>1, <1>3, <1>4, <1>5, <1>6 DEF Fills
<1>8. \A j \in DOMAIN more : TokenOf[more[j]] = picks[f[j]]
  BY <1>1, <1>3, <1>4, <1>5 DEF Fills
<1>9. \A p \in 1 .. k + 1 : (\E j \in DOMAIN more : f[j] = p) \/ picks[p] \in gone
  <2> SUFFICES ASSUME NEW p \in 1 .. k + 1, picks[p] \notin gone
               PROVE  \E j \in DOMAIN more : f[j] = p
    OBVIOUS
  <2>1. CASE p = k + 1
    BY <1>3, <1>4, <1>5, <2>1
  <2>2. CASE p \in 1 .. k
    <3>1. PICK j \in DOMAIN cards : place[j] = p
      BY <1>1, <2>2 DEF Fills
    <3> QED
      BY <1>3, <1>4, <1>5, <3>1
  <2> QED
    BY <1>2, <2>1, <2>2
<1>10. Fills(f, picks, k + 1, more, gone)
  BY <1>3, <1>5, <1>7, <1>8, <1>9 DEF Fills
<1> QED
  BY <1>10 DEF Filled, more

LEMMA SameMissing ==
  ASSUME tokenOn' = tokenOn, cardOn' = cardOn
  PROVE  Missing' = Missing
<1>1. \A s : Found(s)' = Found(s)
  BY DEF Found
<1> QED
  BY <1>1 DEF Missing

LEMMA DrawnInit == ShelfInit => Drawn
BY DEF ShelfInit, Drawn

LEMMA DrawnPrepare ==
  ASSUME ShelfInv, Drawn, NEW i \in DOMAIN packs, ShelfPrepare(i)
  PROVE  Drawn'
<1> DEFINE slots == types[packs[i].type].slots
<1>1. packs[i].type \in PackTypes
  <2>1. packs \in Seq(PackRow)
    BY DEF ShelfInv, ShelfType, ShelfTypeOK, PackRow
  <2>2. packs[i] \in PackRow
    BY <2>1
  <2> QED
    BY <2>2 DEF PackRow
<1>2. slots \in AnySlots \ {NoRow}
  BY <1>1 DEF ShelfInv, ShelfType, ShelfTypeOK, PackType, ShelfPrepare
<1>3. PICK picks \in Picks(slots) :
        draw' = [pack |-> i, slots |-> slots, todo |-> picks, cards |-> <<>>, gone |-> Missing]
  BY DEF ShelfPrepare
<1> HIDE DEF slots
<1>4. picks \in Seq(Symbols)
  BY <1>2, <1>3, PickedType
<1>5. UNCHANGED <<stockVars, openings>>
  BY DEF ShelfPrepare
<1>6. Fills(<<>>, picks, 0, <<>>, Missing)
  <2>1. 1 .. 0 = {} /\ DOMAIN <<>> = {} /\ <<>> \in [{} -> {}]
    OBVIOUS
  <2> QED
    BY <2>1 DEF Fills
<1>7. Drawing(draw', picks, 0)
  <2>1. /\ draw'.todo = picks /\ draw'.cards = <<>> /\ draw'.gone = Missing
        /\ Len(picks) \in Nat /\ \A x \in 1 .. Len(picks) : picks[x] = picks[0 + x]
    BY <1>3, <1>4
  <2> QED
    BY <1>4, <1>6, <2>1 DEF Drawing, Filled
<1>8. draw'.slots = slots /\ draw'.gone = Missing /\ Missing' = Missing
  BY <1>3, <1>5, SameMissing
<1>9. \A o \in DOMAIN openings : Stored(o)'
  BY <1>5 DEF Drawn, Stored
<1> QED
  BY <1>3, <1>5, <1>7, <1>8, <1>9 DEF Drawn

LEMMA DrawnLookup ==
  ASSUME ShelfInv, Drawn, _get_card_id_by_symbol
  PROVE  Drawn'
<1>1. draw # NoRow /\ draw.todo # <<>> /\ UNCHANGED <<stockVars, openings>>
  BY DEF _get_card_id_by_symbol
<1>2. draw \in Draws
  BY <1>1 DEF ShelfInv, ShelfType
<1>3. PICK picks \in Picks(draw.slots), k \in Nat : Drawing(draw, picks, k)
  BY <1>1 DEF Drawn
<1> DEFINE s == Head(draw.todo)
           rest == [draw EXCEPT !.todo = Tail(@)]
<1>4. /\ draw.todo \in Seq(Symbols) /\ draw.cards \in Seq(Cards)
      /\ rest.todo = Tail(draw.todo) /\ rest.cards = draw.cards
      /\ rest.slots = draw.slots /\ rest.gone = draw.gone /\ rest \in [DOMAIN draw -> {rest[f] : f \in DOMAIN draw}]
  BY <1>2 DEF Draws
<1>5. /\ s \in Symbols /\ Len(rest.todo) \in Nat /\ Len(draw.todo) = Len(rest.todo) + 1
      /\ draw.todo[1] = s /\ \A x \in 1 .. Len(rest.todo) : rest.todo[x] = draw.todo[1 + x]
  BY <1>1, <1>4
<1>6. picks[k + 1] = s
  BY <1>3, <1>5 DEF Drawing
<1>7. /\ picks \in Seq(Symbols) /\ k + 1 \in Nat /\ Len(picks) = (k + 1) + Len(rest.todo)
      /\ \A x \in 1 .. Len(rest.todo) : rest.todo[x] = picks[(k + 1) + x]
  <2>1. \A x \in 1 .. Len(rest.todo) : 1 + x \in 1 .. Len(draw.todo) /\ k + (1 + x) = (k + 1) + x
    BY <1>5
  <2>2. picks \in Seq(Symbols) /\ Len(picks) = k + Len(draw.todo)
    BY <1>3 DEF Drawing
  <2>3. \A x \in 1 .. Len(rest.todo) : rest.todo[x] = picks[(k + 1) + x]
    BY <1>3, <1>5, <2>1 DEF Drawing
  <2>4. Len(picks) = (k + 1) + Len(rest.todo)
    <3> DEFINE r == Len(rest.todo)
               t == Len(draw.todo)
    <3>1. r \in Nat /\ t = r + 1 /\ Len(picks) = k + t
      BY <1>5, <2>2
    <3> HIDE DEF r, t
    <3>2. Len(picks) = (k + 1) + r
      BY <3>1
    <3> QED
      BY <3>2 DEF r
  <2> QED
    BY <2>2, <2>3, <2>4
<1>8. Filled(picks, k, draw.cards, draw.gone) /\ Missing \subseteq draw.gone
  BY <1>1, <1>3 DEF Drawing, Drawn
<1>9. CASE Found(s) = {} /\ draw' = rest
  <2>1. s \in draw.gone
    BY <1>5, <1>8, <1>9 DEF Missing
  <2>2. Filled(picks, k + 1, draw.cards, draw.gone)
    BY <1>6, <1>8, <2>1, FilledSkip
  <2> HIDE DEF rest
  <2>3. Drawing(draw', picks, k + 1)
    BY <1>4, <1>7, <1>9, <2>2 DEF Drawing
  <2>4. Missing' = Missing
    BY <1>1, SameMissing
  <2>5. draw'.gone = draw.gone /\ draw'.slots = draw.slots
    BY <1>4, <1>9
  <2> QED
    BY <1>1, <1>7, <1>8, <2>3, <2>4, <2>5 DEF Drawn, Stored
<1>10. ASSUME NEW c \in Found(s), draw' = [rest EXCEPT !.cards = Append(@, c)]
       PROVE  Drawn'
  <2>1. c \in Cards /\ TokenOf[c] = s
    BY DEF Found
  <2>2. /\ draw'.todo = rest.todo /\ draw'.cards = Append(draw.cards, c)
        /\ draw'.slots = draw.slots /\ draw'.gone = draw.gone
    BY <1>2, <1>10 DEF Draws
  <2>3. Filled(picks, k + 1, Append(draw.cards, c), draw.gone)
    BY <1>4, <1>6, <1>8, <2>1, FilledCard
  <2> HIDE DEF rest
  <2>4. Drawing(draw', picks, k + 1)
    BY <1>7, <2>2, <2>3 DEF Drawing
  <2>5. Missing' = Missing
    BY <1>1, SameMissing
  <2> QED
    BY <1>1, <1>7, <1>8, <2>2, <2>4, <2>5 DEF Drawn, Stored
<1> QED
  BY <1>9, <1>10 DEF _get_card_id_by_symbol

LEMMA DrawnSwitch ==
  ASSUME ShelfInv, Drawn, ShelfSwitch
  PROVE  Drawn'
<1>1. openings' = openings /\ draw' = IF draw = NoRow THEN NoRow ELSE [draw EXCEPT !.gone = @ \cup Missing']
  BY DEF ShelfSwitch
<1>2. \A o \in DOMAIN openings : Stored(o)'
  BY <1>1 DEF Drawn, Stored
<1>3. ASSUME draw # NoRow
      PROVE  /\ Missing' \subseteq draw'.gone
             /\ \E picks \in Picks(draw'.slots), k \in Nat : Drawing(draw', picks, k)
  <2>1. draw \in Draws
    BY <1>3 DEF ShelfInv, ShelfType
  <2>2. /\ draw'.slots = draw.slots /\ draw'.todo = draw.todo /\ draw'.cards = draw.cards
        /\ draw'.gone = draw.gone \cup Missing'
    BY <1>1, <1>3, <2>1 DEF Draws
  <2>3. PICK picks \in Picks(draw.slots), k \in Nat : Drawing(draw, picks, k)
    BY <1>3 DEF Drawn
  <2>4. Filled(picks, k, draw'.cards, draw'.gone)
    <3>1. Filled(picks, k, draw.cards, draw.gone) /\ draw.gone \subseteq draw'.gone
      BY <2>2, <2>3 DEF Drawing
    <3> QED
      BY <2>2, <3>1, FilledMore
  <2>5. Drawing(draw', picks, k)
    BY <2>2, <2>3, <2>4 DEF Drawing
  <2> QED
    BY <2>2, <2>3, <2>5
<1> QED
  BY <1>1, <1>2, <1>3 DEF Drawn

LEMMA DrawnStore ==
  ASSUME ShelfInv, Drawn, ShelfStore
  PROVE  Drawn'
<1>1. draw # NoRow /\ draw.todo = <<>> /\ draw' = NoRow
  BY DEF ShelfStore
<1>2. CASE openings' = openings
  BY <1>1, <1>2 DEF Drawn, Stored
<1> DEFINE row == [pack |-> draw.pack, slots |-> draw.slots, cards |-> draw.cards,
                   gone |-> draw.gone, status |-> "prepared"]
<1>3. CASE openings' = Append(openings, row)
  <2>1. PICK picks \in Picks(draw.slots), k \in Nat : Drawing(draw, picks, k)
    BY <1>1 DEF Drawn
  <2>2. Len(picks) = k
    BY <1>1, <2>1 DEF Drawing
  <2>3. Filled(picks, Len(picks), draw.cards, draw.gone)
    BY <2>1, <2>2 DEF Drawing
  <2>4. row.slots = draw.slots /\ row.cards = draw.cards /\ row.gone = draw.gone
    OBVIOUS
  <2>5. PICK n \in Nat : n = Len(openings) /\ DOMAIN openings = 1 .. n
    BY OpeningRows
  <2> HIDE DEF row
  <2>6. /\ DOMAIN openings' = 1 .. n + 1 /\ openings'[n + 1] = row
        /\ \A o \in 1 .. n : openings'[o] = openings[o]
    BY <1>3, <2>5, OpeningRows
  <2>7. Stored(n + 1)'
    BY <2>1, <2>3, <2>4, <2>6 DEF Stored
  <2>8. \A o \in 1 .. n : Stored(o)'
    BY <2>5, <2>6 DEF Drawn, Stored
  <2>9. \A o : o \in 1 .. n + 1 <=> (o \in 1 .. n \/ o = n + 1)
    BY <2>5
  <2> QED
    BY <1>1, <2>6, <2>7, <2>8, <2>9 DEF Drawn
<1> QED
  BY <1>2, <1>3 DEF ShelfStore

LEMMA DrawnConfirm ==
  ASSUME ShelfInv, Drawn, NEW o \in DOMAIN openings, ShelfConfirm(o)
  PROVE  Drawn'
<1> DEFINE done == [openings[o] EXCEPT !.status = "completed"]
<1>1. /\ openings \in Seq(OpeningRow) /\ openings[o] \in OpeningRow
      /\ UNCHANGED <<stockVars, draw>> /\ openings' = [openings EXCEPT ![o] = done]
  BY OpeningRows DEF ShelfConfirm
<1>2. /\ done.slots = openings[o].slots /\ done.cards = openings[o].cards
      /\ done.gone = openings[o].gone
  BY <1>1 DEF OpeningRow
<1> HIDE DEF done
<1>3. /\ DOMAIN openings' = DOMAIN openings /\ openings'[o] = done
      /\ \A x \in DOMAIN openings : x # o => openings'[x] = openings[x]
  BY <1>1
<1>4. \A x \in DOMAIN openings : Stored(x)'
  BY <1>2, <1>3 DEF Drawn, Stored
<1>5. Missing' = Missing
  BY <1>1, SameMissing
<1> QED
  BY <1>1, <1>3, <1>4, <1>5 DEF Drawn

LEMMA DrawnSame ==
  ASSUME Drawn, UNCHANGED <<stockVars, draw, openings>>
  PROVE  Drawn'
<1>1. Missing' = Missing
  BY SameMissing
<1> QED
  BY <1>1 DEF Drawn, Stored

LEMMA DrawnNext == ShelfInv /\ Drawn /\ [ShelfNext]_shelfVars => Drawn'
<1> SUFFICES ASSUME ShelfInv, Drawn, [ShelfNext]_shelfVars
             PROVE  Drawn'
  OBVIOUS
<1>1. CASE UNCHANGED shelfVars
  BY <1>1, DrawnSame DEF shelfVars
<1>2. ASSUME NEW k \in PackTypes, ShelfGrant(k) \/ update_pack_type(k)
      PROVE  Drawn'
  BY <1>2, DrawnSame DEF ShelfGrant, update_pack_type
<1>3. CASE get_pack_history \/ HistoryError
  BY <1>3, DrawnSame DEF get_pack_history, HistoryError, Read
<1> QED
  BY <1>1, <1>2, <1>3, DrawnPrepare, DrawnLookup, DrawnSwitch, DrawnStore, DrawnConfirm DEF ShelfNext

\* What fills the picks of a pack keeps its promise.
LEMMA FilledKeeps ==
  ASSUME NEW slots \in Seq(Category), NEW picks \in Picks(slots), NEW cards \in Seq(Cards),
         NEW gone, Filled(picks, Len(picks), cards, gone), NEW s
  PROVE  /\ Cardinality({i \in DOMAIN cards : TokenOf[cards[i]] = s}) <= Listed(slots, {s})
         /\ Len(cards) <= Promised(slots)
         /\ Len(cards) + Listed(slots, gone) >= Promised(slots)
<1> DEFINE n == Len(cards)
           m == Len(picks)
           mine == {i \in DOMAIN cards : TokenOf[cards[i]] = s}
<1>1. PICK place : Fills(place, picks, m, cards, gone)
  BY DEF Filled
<1>2. /\ n \in Nat /\ m \in Nat /\ DOMAIN cards = 1 .. n /\ DOMAIN picks = 1 .. m
      /\ m = Promised(slots)
  <2>1. picks \in Seq(Symbols) /\ m = Promised(slots)
    BY PicksOf
  <2> QED
    BY <2>1
<1>3. /\ Count(picks, {s}) <= Listed(slots, {s}) /\ Count(picks, {s}) \in Nat
      /\ Listed(slots, {s}) \in Int
  BY PicksOf
<1>4. /\ Count(picks, gone) <= Listed(slots, gone) /\ Count(picks, gone) \in Nat
      /\ Listed(slots, gone) \in Int
  BY PicksOf
<1>5. \A x \in Nat : IsFiniteSet(1 .. x) /\ Cardinality(1 .. x) = x
  BY FS_Interval
<1> HIDE DEF n, m
<1>6. /\ place \in [1 .. n -> 1 .. m] /\ \A i, j \in 1 .. n : place[i] = place[j] => i = j
      /\ \A j \in 1 .. n : TokenOf[cards[j]] = picks[place[j]]
      /\ \A p \in 1 .. m : (\E j \in 1 .. n : place[j] = p) \/ picks[p] \in gone
  BY <1>1, <1>2 DEF Fills
<1>7. n <= m
  <2>1. IsFiniteSet(1 .. m) /\ Cardinality(1 .. m) = m /\ Cardinality(1 .. n) = n
    BY <1>2, <1>5
  <2>2. Cardinality(1 .. n) <= Cardinality(1 .. m)
    BY <1>6, <2>1, SmallerCount
  <2> QED
    BY <2>1, <2>2
<1>8. Cardinality(mine) <= Count(picks, {s}) /\ Cardinality(mine) \in Nat
  <2> DEFINE f == [i \in mine |-> place[i]]
  <2>1. IsFiniteSet(Places(picks, {s}))
    BY <1>2, <1>5, FS_Subset DEF Places
  <2>2. f \in [mine -> Places(picks, {s})] /\ \A i, j \in mine : f[i] = f[j] => i = j
    BY <1>2, <1>6 DEF Places
  <2> HIDE DEF f, mine
  <2> QED
    BY <2>1, <2>2, SmallerCount, FS_CardinalityType DEF Count
<1>9. m <= n + Count(picks, gone)
  <2> DEFINE used == {place[j] : j \in 1 .. n}
             rest == Places(picks, gone)
  <2>1. IsFiniteSet(used) /\ Cardinality(used) <= n
    <3>1. place \in Surjection(1 .. n, used)
      BY <1>6 DEF Surjection
    <3>2. IsFiniteSet(1 .. n) /\ Cardinality(1 .. n) = n
      BY <1>2, <1>5
    <3> HIDE DEF used
    <3> QED
      BY <3>1, <3>2, FS_Surjection
  <2>2. IsFiniteSet(rest) /\ Cardinality(rest) = Count(picks, gone)
    BY <1>2, <1>5, FS_Subset DEF Places, Count
  <2>3. 1 .. m \subseteq used \cup rest
    BY <1>2, <1>6 DEF Places
  <2> HIDE DEF used, rest
  <2>4. IsFiniteSet(used \cup rest) /\ Cardinality(1 .. m) <= Cardinality(used \cup rest)
    BY <2>1, <2>2, <2>3, FS_Union, FS_Subset
  <2>5. /\ Cardinality(used \cup rest) = Cardinality(used) + Cardinality(rest) - Cardinality(used \cap rest)
        /\ Cardinality(used \cap rest) \in Nat /\ Cardinality(used) \in Nat
    BY <2>1, <2>2, FS_Union, FS_Intersection, FS_CardinalityType
  <2> QED
    BY <1>2, <1>4, <1>5, <2>1, <2>2, <2>4, <2>5
<1> QED
  BY <1>2, <1>3, <1>4, <1>7, <1>8, <1>9 DEF n

LEMMA DrawnKept == ShelfInv /\ Drawn => DrawKept
<1> SUFFICES ASSUME ShelfInv, Drawn, NEW o \in DOMAIN openings
             PROVE  /\ \A s \in Symbols :
                         Cardinality({i \in DOMAIN openings[o].cards : TokenOf[openings[o].cards[i]] = s})
                           <= Listed(openings[o].slots, {s})
                    /\ Len(openings[o].cards) <= Promised(openings[o].slots)
                    /\ Len(openings[o].cards) + Listed(openings[o].slots, openings[o].gone)
                         >= Promised(openings[o].slots)
  BY DEF DrawKept, ShelfInv, ShelfType, Listed, Promised, Count, Places
<1>1. openings[o].slots \in Seq(Category) /\ openings[o].cards \in Seq(Cards)
  BY OpeningRows, SlotsType DEF OpeningRow
<1>2. PICK picks \in Picks(openings[o].slots) :
        Filled(picks, Len(picks), openings[o].cards, openings[o].gone)
  BY DEF Drawn, Stored
<1>3. Len(openings[o].cards) <= Promised(openings[o].slots)
      /\ Len(openings[o].cards) + Listed(openings[o].slots, openings[o].gone)
           >= Promised(openings[o].slots)
  BY <1>1, <1>2, FilledKeeps
<1>4. \A s \in Symbols :
        Cardinality({i \in DOMAIN openings[o].cards : TokenOf[openings[o].cards[i]] = s})
          <= Listed(openings[o].slots, {s})
  BY <1>1, <1>2, FilledKeeps
<1> QED
  BY <1>3, <1>4

-----------------------------------------------------------------------------
(* The contract: its inductive invariant *)

Reveals == [message : RevealMessage, cards : SUBSET Nat]
Ledger == [issued : [Types -> Nat], revealed : SUBSET Reveals, spent : Nat, withdrawn : Nat,
           claimed : SUBSET ClaimMessage, burned : SUBSET CardIds, moved : SUBSET CardIds,
           committed : [CommitIds -> Commit \cup {NoOne}]]

ContractTypes ==
  /\ ContractTypeOK /\ ledger \in Ledger
  /\ nextCommitId \in Nat /\ 1 .. nextCommitId \subseteq CommitIds

\* Commit ids are given out in order; a commit waits or was revealed, and what
\* the backend signs for it names its user.
Settled ==
  /\ \A c \in CommitIds : commits[c] # NoOne => c \in 1 .. nextCommitId /\ commits[c] = ledger.committed[c]
  /\ \A c \in 1 .. nextCommitId : commits[c] = NoOne => \E r \in Revealed : r.message.commit = c
  /\ \A r \in Revealed : commits[r.message.commit] = NoOne
  /\ \A m \in signed \cap RevealMessage :
       /\ m.commit \in 1 .. nextCommitId
       /\ m.user = ledger.committed[m.commit].user

\* A signature is used by one reveal, which is under way or has ended.
Used ==
  /\ usedRevealHashes \subseteq signed
  /\ \A r \in Revealed : r.message \in usedRevealHashes
  /\ \A i \in 1 .. Len(calls) : calls[i].message \in usedRevealHashes
  /\ \A m \in usedRevealHashes : \/ \E r \in Revealed : r.message = m
                                 \/ \E i \in 1 .. Len(calls) : calls[i].message = m
  /\ \A r, q \in Revealed : r.message = q.message => r = q
  /\ \A r \in Revealed : \A i \in 1 .. Len(calls) : r.message # calls[i].message
  /\ \A i, j \in 1 .. Len(calls) : calls[i].message = calls[j].message => i = j

\* A reveal in which another began is of a wallet with code, and a commit of one
\* without waits until its reveal ends: only the first can be revealed again.
Nested ==
  /\ \A i \in 1 .. Len(calls) : i < Len(calls) => calls[i].message.user \in coded
  /\ \A i \in 1 .. Len(calls) : calls[i].message.user \notin coded =>
       commits[calls[i].message.commit] # NoOne
  /\ \A r, q \in Revealed : r.message.commit = q.message.commit /\ r # q => r.message.user \in coded

\* Without code, numbers of cards are given out in order: a card is of one
\* reveal, or of the one under way.
InOrder ==
  /\ \A i \in 1 .. Len(calls) : calls[i].start = nextCardTokenId
  /\ \A r \in Revealed : \A k \in r.cards : k < nextCardTokenId
  /\ \A k \in ledger.burned : k < nextCardTokenId
  /\ \A k \in CardIds : owner[k] # NoOne /\ k < nextCardTokenId =>
       \E r \in Revealed : /\ {x \in Revealed : k \in x.cards} = {r}
                           /\ owner[k] = r.message.user \/ k \in ledger.moved
  /\ \A k \in CardIds : owner[k] # NoOne /\ k >= nextCardTokenId =>
       \E i \in 1 .. Len(calls) : k < nextCardTokenId + calls[i].minted
  /\ \A i \in 1 .. Len(calls) : \A k \in nextCardTokenId .. nextCardTokenId + calls[i].minted - 1 :
       k \in CardIds /\ owner[k] = calls[i].message.user
  /\ \A k \in CardIds : (\E r \in Revealed : k \in r.cards) => owner[k] # NoOne \/ k \in ledger.burned

Numbered == coded = {} => InOrder

\* Money and claims.
Accounts ==
  /\ FundsAreSales /\ ClaimPaidOnce
  /\ \A m \in ledger.claimed : m.claim \in usedClaimIds

ContractInv == ContractTypes /\ Settled /\ Used /\ Nested /\ Numbered /\ Accounts

LEMMA ContractInitInv == ContractInit => ContractInv
<1> SUFFICES ASSUME ContractInit PROVE ContractInv
  OBVIOUS
<1>0. 1 .. 0 = {} /\ calls = <<>> /\ Len(calls) = 0 /\ Revealed = {}
  BY DEF ContractInit, Revealed
<1>1. ContractTypes
  <2>1. ledger \in Ledger
    BY DEF ContractInit, Ledger
  <2>2. calls \in Seq(Call) /\ coded \subseteq Users
    BY <1>0 DEF ContractInit
  <2>. QED
    BY <1>0, <2>1, <2>2, ContractAssumption DEF ContractInit, ContractTypes, ContractTypeOK
<1>2. Settled
  BY <1>0 DEF ContractInit, Settled
<1>3. Used /\ Nested
  BY <1>0 DEF ContractInit, Used, Nested
<1>4. Numbered
  BY <1>0 DEF ContractInit, Numbered, InOrder
<1>5. Accounts
  BY DEF ContractInit, Accounts, FundsAreSales, ClaimPaidOnce
<1>. QED
  BY <1>1, <1>2, <1>3, <1>4, <1>5 DEF ContractInv

-----------------------------------------------------------------------------
(* The contract: packs and money *)

\* A step that only counts packs leaves commits and cards as they are.
LEMMA SameCommits ==
  ASSUME ContractInv, UNCHANGED <<openVars, coded, calls, signed>>,
         \A f \in {"revealed", "burned", "moved", "committed"} : ledger'[f] = ledger[f]
  PROVE  (Settled /\ Used /\ Nested /\ Numbered)'
<1>1. /\ ledger'.revealed = ledger.revealed /\ ledger'.burned = ledger.burned
      /\ ledger'.moved = ledger.moved /\ ledger'.committed = ledger.committed
  OBVIOUS
<1>2. Revealed' = Revealed
  BY <1>1 DEF Revealed
<1>3. /\ commits' = commits /\ nextCommitId' = nextCommitId /\ usedRevealHashes' = usedRevealHashes
      /\ owner' = owner /\ nextCardTokenId' = nextCardTokenId
      /\ coded' = coded /\ calls' = calls /\ signed' = signed
  BY DEF openVars
<1>4. Settled'
  BY <1>1, <1>2, <1>3 DEF ContractInv, Settled
<1>5. Used' /\ Nested'
  BY <1>2, <1>3 DEF ContractInv, Used, Nested
<1>6. Numbered'
  <2>1. InOrder => InOrder'
    BY <1>1, <1>2, <1>3 DEF InOrder
  <2>. QED
    BY <1>3, <2>1 DEF ContractInv, Numbered
<1>. QED
  BY <1>4, <1>5, <1>6

LEMMA MintType ==
  ASSUME ContractTypes, NEW u \in Users, NEW p \in Types, NEW n \in Amounts, Mint(u, p, n)
  PROVE  /\ balance' \in [Users -> [Types -> Nat]]
         /\ Issued(p, n) \in Ledger
         /\ \A f \in {"revealed", "spent", "withdrawn", "claimed", "burned", "moved", "committed"} :
              Issued(p, n)[f] = ledger[f]
<1>1. n \in Nat
  BY ContractAssumption
<1>2. balance' \in [Users -> [Types -> Nat]]
  BY <1>1 DEF ContractTypes, ContractTypeOK, Mint
<1>3. ledger \in Ledger
  BY DEF ContractTypes
<1>. QED
  BY <1>1, <1>2, <1>3 DEF Issued, Ledger

LEMMA MintKeeps ==
  ASSUME ContractInv, NEW u \in Users, NEW p \in Types, NEW n \in Amounts, mint(u, p, n)
  PROVE  ContractInv'
<1>1. Mint(u, p, n) /\ ledger' = Issued(p, n)
  BY DEF mint
<1>2. ContractTypes'
  BY <1>1, MintType DEF mint, ContractInv, ContractTypes, ContractTypeOK
<1>3. Accounts'
  BY <1>1, MintType DEF mint, ContractInv, Accounts, FundsAreSales, ClaimPaidOnce
<1>4. (Settled /\ Used /\ Nested /\ Numbered)'
  BY <1>1, <1>2, MintType, SameCommits DEF mint, ContractInv
<1>. QED
  BY <1>2, <1>3, <1>4 DEF ContractInv

LEMMA BuyKeeps ==
  ASSUME ContractInv, NEW u \in Users, NEW p \in Types, NEW n \in Amounts, NEW more \in {0, 1},
         buyPack(u, p, n, packPrices[p] * n + more)
  PROVE  ContractInv'
<1> DEFINE total == packPrices[p] * n
<1>0. ContractTypes
  BY DEF ContractInv
<1>1. n \in Nat /\ packPrices[p] \in Nat
  <2>1. n \in Nat /\ Prices \cup {0} \subseteq Nat
    BY ContractAssumption
  <2>2. packPrices[p] \in Prices \cup {0}
    BY <1>0 DEF ContractTypes, ContractTypeOK
  <2>. QED
    BY <2>1, <2>2
<1>2. total \in Nat
  BY <1>1
<1> HIDE DEF total
<1>3. Mint(u, p, n) /\ funds' = funds + ((total + more) - ((total + more) - total))
  BY DEF buyPack, total
<1>4. ledger' = [Issued(p, n) EXCEPT !.spent = @ + total]
  BY DEF buyPack, total
<1>5. ledger' \in Ledger /\ ledger'.spent = ledger.spent + total
      /\ \A f \in {"revealed", "withdrawn", "claimed", "burned", "moved", "committed"} : ledger'[f] = ledger[f]
  <2>1. ledger \in Ledger /\ Issued(p, n) \in Ledger
    BY <1>0, <1>3, MintType DEF ContractTypes
  <2>2. \A f \in {"revealed", "spent", "withdrawn", "claimed", "burned", "moved", "committed"} : Issued(p, n)[f] = ledger[f]
    BY <1>0, <1>3, MintType
  <2>. QED
    BY <1>2, <1>4, <2>1, <2>2 DEF Ledger
<1>6. funds \in Nat /\ ledger.spent \in Nat /\ ledger.withdrawn \in Nat
  BY <1>0 DEF ContractTypes, ContractTypeOK, Ledger
<1>7. funds' = funds + total
  BY <1>2, <1>3, <1>6
<1>8. ContractTypes'
  BY <1>0, <1>2, <1>3, <1>5, <1>6, <1>7, MintType DEF buyPack, ContractTypes, ContractTypeOK
<1>9. Accounts'
  <2>1. FundsAreSales'
    BY <1>2, <1>5, <1>6, <1>7 DEF ContractInv, Accounts, FundsAreSales
  <2>. QED
    BY <1>5, <2>1 DEF buyPack, ContractInv, Accounts, ClaimPaidOnce
<1>10. (Settled /\ Used /\ Nested /\ Numbered)'
  BY <1>5, <1>8, SameCommits DEF buyPack
<1>. QED
  BY <1>8, <1>9, <1>10 DEF ContractInv

LEMMA ClaimKeeps ==
  ASSUME ContractInv, NEW u \in Users, NEW m \in signed, claimPack(u, m)
  PROVE  ContractInv'
<1>0. ContractTypes
  BY DEF ContractInv
<1>1. /\ m \in ClaimMessage /\ m.user = u /\ m.claim \notin usedClaimIds
      /\ m.type \in Types /\ m.amount \in Amounts /\ m.claim \in Claims
  BY DEF claimPack, ClaimMessage
<1>2. Mint(u, m.type, m.amount)
  BY DEF claimPack
<1>3. /\ ledger' \in Ledger /\ ledger'.claimed = ledger.claimed \cup {m}
      /\ \A f \in {"revealed", "spent", "withdrawn", "burned", "moved", "committed"} : ledger'[f] = ledger[f]
  <2>1. Issued(m.type, m.amount) \in Ledger
    BY <1>0, <1>1, <1>2, MintType
  <2>2. \A f \in {"revealed", "spent", "withdrawn", "claimed", "burned", "moved", "committed"} :
          Issued(m.type, m.amount)[f] = ledger[f]
    BY <1>0, <1>1, <1>2, MintType
  <2>. QED
    BY <1>1, <2>1, <2>2 DEF claimPack, Ledger
<1>4. ContractTypes'
  BY <1>0, <1>1, <1>2, <1>3, MintType DEF claimPack, ContractTypes, ContractTypeOK
<1>5. Accounts'
  BY <1>1, <1>3 DEF claimPack, ContractInv, Accounts, FundsAreSales, ClaimPaidOnce
<1>6. (Settled /\ Used /\ Nested /\ Numbered)'
  BY <1>3, <1>4, SameCommits DEF claimPack
<1>. QED
  BY <1>4, <1>5, <1>6 DEF ContractInv

LEMMA AdminKeeps ==
  ASSUME ContractInv, (\E p \in Types, price \in Prices : setPackPrice(p, price)) \/ withdraw
  PROVE  ContractInv'
<1>0. ContractTypes
  BY DEF ContractInv
<1>n. MaxAdminCalls \in Nat
  BY ContractAssumption
<1>1. ASSUME NEW p \in Types, NEW price \in Prices, setPackPrice(p, price) PROVE ContractInv'
  <2>1. adminCalls' \in 0 .. MaxAdminCalls
    BY <1>0, <1>1, <1>n DEF setPackPrice, ContractTypes, ContractTypeOK
  <2>2. ContractTypes'
    BY <1>0, <1>1, <2>1 DEF setPackPrice, ContractTypes, ContractTypeOK
  <2>3. Accounts'
    BY <1>1 DEF setPackPrice, ContractInv, Accounts, FundsAreSales, ClaimPaidOnce
  <2>. QED
    BY <1>1, <2>2, <2>3, SameCommits DEF setPackPrice, ContractInv
<1>2. CASE withdraw
  <2>1. funds \in Nat /\ ledger \in Ledger
    BY <1>0 DEF ContractTypes, ContractTypeOK
  <2>2. /\ ledger' \in Ledger /\ ledger'.withdrawn = ledger.withdrawn + funds
        /\ \A f \in {"revealed", "spent", "claimed", "burned", "moved", "committed"} : ledger'[f] = ledger[f]
    BY <1>2, <2>1 DEF withdraw, Ledger
  <2>3. adminCalls' \in 0 .. MaxAdminCalls
    BY <1>0, <1>2, <1>n DEF withdraw, ContractTypes, ContractTypeOK
  <2>4. ContractTypes'
    BY <1>0, <1>2, <2>2, <2>3 DEF withdraw, ContractTypes, ContractTypeOK
  <2>5. Accounts'
    <3>1. ledger.withdrawn \in Nat /\ ledger.spent \in Nat
      BY <2>1 DEF Ledger
    <3>. QED
      BY <1>2, <2>1, <2>2, <3>1 DEF withdraw, ContractInv, Accounts, FundsAreSales, ClaimPaidOnce
  <2>. QED
    BY <1>2, <2>2, <2>4, <2>5, SameCommits DEF withdraw, ContractInv
<1>. QED
  BY <1>1, <1>2

-----------------------------------------------------------------------------
(* The contract: commits and cards *)

\* The reveals under way, as a list that grows and shrinks at its end.
LEMMA Pushed ==
  ASSUME calls \in Seq(Call), NEW x \in Call, calls' = Append(calls, x)
  PROVE  /\ calls' \in Seq(Call) /\ Len(calls) \in Nat /\ Len(calls') = Len(calls) + 1
         /\ calls'[Len(calls) + 1] = x
         /\ \A i \in 1 .. Len(calls) : calls'[i] = calls[i]
         /\ \A i \in 1 .. Len(calls') : i = Len(calls) + 1 \/ i \in 1 .. Len(calls)
OBVIOUS

LEMMA Popped ==
  ASSUME calls \in Seq(Call), ~Idle, calls' = Front(calls)
  PROVE  /\ calls' \in Seq(Call) /\ Len(calls) \in Nat /\ Len(calls) >= 1 /\ Len(calls') = Len(calls) - 1
         /\ \A i \in 1 .. Len(calls') : calls'[i] = calls[i] /\ i \in 1 .. Len(calls) /\ i < Len(calls)
         /\ \A i \in 1 .. Len(calls) : i = Len(calls) \/ i \in 1 .. Len(calls')
         /\ Last(calls) = calls[Len(calls)] /\ Len(calls) \in 1 .. Len(calls) /\ Last(calls) \in Call
<1> DEFINE n == Len(calls)
<1>1. n \in Nat /\ n >= 1 /\ n \in 1 .. n
  BY DEF Idle
<1>2. calls' = SubSeq(calls, 1, n - 1)
  BY DEF Front
<1>3. /\ calls' \in Seq(Call) /\ Len(calls') = n - 1
      /\ \A i \in 1 .. n - 1 : calls'[i] = calls[i]
  <2>1. \A i \in 1 .. n - 1 : calls[i] \in Call
    BY <1>1
  <2> HIDE DEF n
  <2>2. n - 1 \in Int /\ 1 \in Int
    BY <1>1
  <2>3. /\ calls' \in Seq(Call)
        /\ Len(calls') = IF 1 <= n - 1 THEN n - 1 - 1 + 1 ELSE 0
        /\ \A i \in 1 .. n - 1 - 1 + 1 : calls'[i] = calls[1 + i - 1]
    BY <1>2, <2>1, <2>2, SubSeqProperties
  <2>. QED
    BY <1>1, <2>3
<1>4. Last(calls) = calls[n] /\ calls[n] \in Call
  BY <1>1 DEF Last
<1> HIDE DEF n
<1>5. /\ \A i \in 1 .. n - 1 : i \in 1 .. n /\ i < n
      /\ \A i \in 1 .. n : i = n \/ i \in 1 .. n - 1
  BY <1>1
<1>. QED
  BY <1>1, <1>3, <1>4, <1>5 DEF n

LEMMA Topped ==
  ASSUME calls \in Seq(Call), ~Idle
  PROVE  /\ Len(calls) \in Nat /\ Len(calls) >= 1 /\ Len(calls) \in 1 .. Len(calls)
         /\ Last(calls) = calls[Len(calls)] /\ Last(calls) \in Call
         /\ \A i \in 1 .. Len(calls) : calls[i] \in Call
BY DEF Idle, Last

\* Without code no call is made while a reveal is under way, and only one is.
LEMMA NoCallback ==
  ASSUME ContractInv, coded = {}
  PROVE  /\ \A u \in Users : MayCall(u) => Idle
         /\ \A i \in 1 .. Len(calls) : i = Len(calls)
<1>1. Len(calls) \in Nat
  BY DEF ContractInv, ContractTypes, ContractTypeOK
<1>2. \A i \in 1 .. Len(calls) : ~ (i < Len(calls))
  BY DEF ContractInv, Nested
<1>. QED
  BY <1>1, <1>2 DEF MayCall

LEMMA CommitKeeps ==
  ASSUME ContractInv, NEW u \in Users, NEW p \in Types, commitOpen(u, p)
  PROVE  ContractInv'
<1> DEFINE c == nextCommitId + 1
           commit == [user |-> u, type |-> p]
<1>0. ContractTypes
  BY DEF ContractInv
<1>1. /\ c \in CommitIds /\ nextCommitId' = c /\ nextCommitId \in Nat
      /\ commits' = [commits EXCEPT ![c] = commit]
  BY <1>0 DEF commitOpen, ContractTypes
<1>2. commit \in Commit /\ commit # NoOne
  BY ContractAssumption DEF Commit
<1>3. balance' \in [Users -> [Types -> Nat]]
  BY <1>0 DEF commitOpen, ContractTypes, ContractTypeOK
<1>4. /\ ledger' \in Ledger /\ ledger'.committed = [ledger.committed EXCEPT ![c] = commit]
      /\ \A f \in {"issued", "revealed", "spent", "withdrawn", "claimed", "burned", "moved"} :
           ledger'[f] = ledger[f]
  <2>1. ledger \in Ledger /\ ledger' = [ledger EXCEPT !.committed[c] = commit]
    BY <1>0 DEF commitOpen, ContractTypes
  <2>2. ledger.committed \in [CommitIds -> Commit \cup {NoOne}]
    BY <2>1 DEF Ledger
  <2>. QED
    BY <1>1, <1>2, <2>1, <2>2 DEF Ledger
<1>5. /\ commits'[c] = commit /\ ledger'.committed[c] = commit
      /\ \A d \in CommitIds : d # c => /\ commits'[d] = commits[d]
                                       /\ ledger'.committed[d] = ledger.committed[d]
      /\ commits' \in [CommitIds -> Commit \cup {NoOne}]
  <2>1. commits \in [CommitIds -> Commit \cup {NoOne}] /\ ledger.committed \in [CommitIds -> Commit \cup {NoOne}]
    BY <1>0 DEF ContractTypes, ContractTypeOK, Ledger
  <2> HIDE DEF c, commit
  <2>. QED
    BY <1>1, <1>2, <1>4, <2>1
<1>6. /\ 1 .. nextCommitId \subseteq CommitIds /\ 1 .. c = (1 .. nextCommitId) \cup {c}
      /\ c \notin 1 .. nextCommitId
  BY <1>0, <1>1 DEF ContractTypes
<1>7. UNCHANGED <<coded, calls, owner, nextCardTokenId, usedRevealHashes, usedClaimIds, signed, funds>>
  BY DEF commitOpen
<1>8. ContractTypes'
  BY <1>0, <1>1, <1>3, <1>4, <1>5, <1>6 DEF commitOpen, ContractTypes, ContractTypeOK
<1>9. Revealed' = Revealed
  BY <1>4 DEF Revealed
<1>10. \A r \in Revealed : r.message \in usedRevealHashes /\ r.message \in signed \cap RevealMessage
  BY <1>0 DEF ContractInv, Used, ContractTypes, ContractTypeOK
<1>11. \A m \in signed \cap RevealMessage : m.commit # c /\ m.commit \in CommitIds
  BY <1>6 DEF ContractInv, Settled
<1> HIDE DEF c, commit
<1>12. Settled'
  <2>1. \A d \in CommitIds : commits'[d] # NoOne => d \in 1 .. c /\ commits'[d] = ledger'.committed[d]
    BY <1>5, <1>6 DEF ContractInv, Settled
  <2>2. \A d \in 1 .. c : commits'[d] = NoOne => \E r \in Revealed : r.message.commit = d
    BY <1>2, <1>5, <1>6 DEF ContractInv, Settled
  <2>3. \A r \in Revealed : commits'[r.message.commit] = NoOne
    BY <1>5, <1>10, <1>11 DEF ContractInv, Settled
  <2>4. \A m \in signed \cap RevealMessage :
          m.commit \in 1 .. c /\ m.user = ledger'.committed[m.commit].user
    BY <1>5, <1>6, <1>11 DEF ContractInv, Settled
  <2>. QED
    BY <1>1, <1>7, <1>9, <2>1, <2>2, <2>3, <2>4 DEF Settled
<1>13. Used'
  BY <1>7, <1>9 DEF ContractInv, Used
<1>14. Nested'
  <2>1. \A i \in 1 .. Len(calls) : calls[i].message \in signed \cap RevealMessage
    BY <1>0 DEF ContractInv, Used, ContractTypes, ContractTypeOK
  <2>2. \A i \in 1 .. Len(calls) : commits'[calls[i].message.commit] = commits[calls[i].message.commit]
    BY <1>5, <1>11, <2>1
  <2>. QED
    BY <1>7, <1>9, <2>2 DEF ContractInv, Nested
<1>15. Numbered'
  <2>1. InOrder => InOrder'
    BY <1>4, <1>7, <1>9 DEF InOrder
  <2>. QED
    BY <1>7, <2>1 DEF ContractInv, Numbered
<1>16. Accounts'
  BY <1>4, <1>7 DEF ContractInv, Accounts, FundsAreSales, ClaimPaidOnce
<1>. QED
  BY <1>8, <1>12, <1>13, <1>14, <1>15, <1>16 DEF ContractInv

\* A reveal begins: at a time without one under way, or in a callback.
LEMMA RevealKeeps ==
  ASSUME ContractInv, NEW m \in signed, Reveal(m), \E u \in Users : MayCall(u)
  PROVE  ContractInv'
<1> DEFINE call == [message |-> m, start |-> nextCardTokenId, minted |-> 0]
           n == Len(calls)
<1>0. ContractTypes
  BY DEF ContractInv
<1>1. /\ m \in RevealMessage /\ commits[m.commit] # NoOne /\ m \notin usedRevealHashes
      /\ usedRevealHashes' = usedRevealHashes \cup {m} /\ calls' = Append(calls, call)
      /\ UNCHANGED <<coded, holdVars, commits, nextCommitId, owner, nextCardTokenId, moneyVars, signed, ledger>>
  BY DEF Reveal
<1>2. call \in Call
  BY <1>0, <1>1 DEF Call, ContractTypes, ContractTypeOK
<1>3. calls \in Seq(Call)
  BY <1>0 DEF ContractTypes, ContractTypeOK
<1>4. /\ calls' \in Seq(Call) /\ n \in Nat /\ Len(calls') = n + 1 /\ calls'[n + 1] = call
      /\ \A i \in 1 .. n : calls'[i] = calls[i]
      /\ \A i \in 1 .. Len(calls') : i = n + 1 \/ i \in 1 .. n
  <2> HIDE DEF call
  <2>. QED
    BY <1>1, <1>2, <1>3, Pushed
<1>5. call.message = m /\ call.start = nextCardTokenId /\ call.minted = 0
  OBVIOUS
<1>6. Revealed' = Revealed
  BY <1>1 DEF Revealed
<1> HIDE DEF call, n
<1>7. ContractTypes'
  BY <1>0, <1>1, <1>4 DEF ContractTypes, ContractTypeOK
<1>8. Settled'
  BY <1>1, <1>6 DEF ContractInv, Settled
<1>9. Used'
  <2>1. \A i \in 1 .. n : calls[i].message # m
    BY <1>1 DEF ContractInv, Used, n
  <2>2. \A r \in Revealed : r.message # m
    BY <1>1 DEF ContractInv, Used
  <2>3. usedRevealHashes' \subseteq signed
    BY <1>1 DEF ContractInv, Used
  <2>4. \A i \in 1 .. Len(calls') : calls'[i].message \in usedRevealHashes'
    BY <1>1, <1>4, <1>5 DEF ContractInv, Used, n
  <2>5. \A x \in usedRevealHashes' : \/ \E r \in Revealed : r.message = x
                                     \/ \E i \in 1 .. Len(calls') : calls'[i].message = x
    <3>1. n + 1 \in 1 .. Len(calls') /\ calls'[n + 1].message = m /\ 1 .. n \subseteq 1 .. Len(calls')
      BY <1>4, <1>5
    <3>. QED
      BY <1>1, <1>4, <3>1 DEF ContractInv, Used, n
  <2>6. \A r \in Revealed : \A i \in 1 .. Len(calls') : r.message # calls'[i].message
    BY <1>4, <1>5, <2>2 DEF ContractInv, Used, n
  <2>7. \A i, j \in 1 .. Len(calls') : calls'[i].message = calls'[j].message => i = j
    BY <1>4, <1>5, <2>1 DEF ContractInv, Used, n
  <2>. QED
    BY <1>1, <1>6, <2>3, <2>4, <2>5, <2>6, <2>7 DEF ContractInv, Used
<1>10. Nested'
  <2>1. \A i \in 1 .. n : calls[i].message.user \in coded
    <3>1. PICK u \in Users : MayCall(u)
      OBVIOUS
    <3>2. CASE Idle
      <4>1. n = 0
        BY <3>2 DEF Idle, n
      <4>. QED
        BY <4>1
    <3>3. CASE ~Idle
      <4>1. Last(calls).message.user \in coded /\ Last(calls) = calls[n]
        BY <1>3, <3>1, <3>3, Topped DEF MayCall, n
      <4>2. \A i \in 1 .. n : i = n \/ i < n
        BY <1>4
      <4>. QED
        BY <4>1, <4>2 DEF ContractInv, Nested, n
    <3>. QED
      BY <3>2, <3>3
  <2>2. \A i \in 1 .. Len(calls') : i < Len(calls') => i \in 1 .. n
    BY <1>4
  <2>. QED
    BY <1>1, <1>4, <1>5, <1>6, <2>1, <2>2 DEF ContractInv, Nested
<1>11. Numbered'
  <2> SUFFICES ASSUME coded = {} PROVE InOrder'
    BY <1>1 DEF Numbered
  <2>1. InOrder /\ Idle
    BY NoCallback DEF ContractInv, Numbered
  <2>2. n = 0
    BY <2>1 DEF Idle, n
  <2>3. \A i \in 1 .. Len(calls') : calls'[i] = call
    BY <1>4, <2>2
  <2>4. \A k \in nextCardTokenId .. nextCardTokenId + 0 - 1 : FALSE
    BY <1>0 DEF ContractTypes, ContractTypeOK
  <2>5. \A k \in CardIds : owner[k] # NoOne /\ k >= nextCardTokenId => FALSE
    BY <2>1, <2>2 DEF InOrder, n
  <2>. QED
    BY <1>1, <1>5, <1>6, <2>1, <2>3, <2>4, <2>5 DEF InOrder
<1>12. Accounts'
  BY <1>1 DEF ContractInv, Accounts, FundsAreSales, ClaimPaidOnce
<1>. QED
  BY <1>7, <1>8, <1>9, <1>10, <1>11, <1>12 DEF ContractInv

\* A card is minted.
LEMMA MintCardKeeps ==
  ASSUME ContractInv, MintCard
  PROVE  ContractInv'
<1> DEFINE n == Len(calls)
           call == Last(calls)
           k == call.start + call.minted
<1>0. ContractTypes
  BY DEF ContractInv
<1>1. /\ ~Idle /\ k \in CardIds /\ owner[k] = NoOne
      /\ owner' = [owner EXCEPT ![k] = call.message.user]
      /\ calls' = [calls EXCEPT ![n].minted = @ + 1]
      /\ UNCHANGED <<coded, holdVars, commits, nextCommitId, usedRevealHashes, nextCardTokenId, moneyVars,
                     signed, ledger>>
  BY DEF MintCard
<1>2. calls \in Seq(Call)
  BY <1>0 DEF ContractTypes, ContractTypeOK
<1>3. /\ n \in Nat /\ n >= 1 /\ n \in 1 .. n /\ call = calls[n] /\ call \in Call
      /\ \A i \in 1 .. n : calls[i] \in Call
  BY <1>1, <1>2, Topped
<1>4. [call EXCEPT !.minted = @ + 1] \in Call
  BY <1>3 DEF Call
<1>5. /\ calls' \in Seq(Call) /\ Len(calls') = n
      /\ \A i \in 1 .. n : i # n => calls'[i] = calls[i]
      /\ calls'[n] = [call EXCEPT !.minted = @ + 1]
  <2> HIDE DEF n, call
  <2>1. calls' = [calls EXCEPT ![n] = [calls[n] EXCEPT !.minted = @ + 1]]
    BY <1>1
  <2>. QED
    BY <1>2, <1>3, <1>4, <2>1 DEF n
<1>6. \A i \in 1 .. n : calls'[i].message = calls[i].message /\ calls'[i].start = calls[i].start
  <2>1. calls'[n].message = call.message /\ calls'[n].start = call.start /\ calls'[n].minted = call.minted + 1
    BY <1>3, <1>5 DEF Call
  <2>. QED
    BY <1>3, <1>5, <2>1
<1>7. Revealed' = Revealed
  BY <1>1 DEF Revealed
<1>8. call.message.user \in Users /\ call.minted \in Nat /\ call.start \in Nat
  BY <1>3 DEF Call, RevealMessage
<1>9. ContractTypes'
  BY <1>0, <1>1, <1>5, <1>8 DEF ContractTypes, ContractTypeOK
<1>10. Settled'
  BY <1>1, <1>7 DEF ContractInv, Settled
<1>11. Used' /\ Nested'
  BY <1>1, <1>5, <1>6, <1>7 DEF ContractInv, Used, Nested
<1>12. Numbered'
  <2> SUFFICES ASSUME coded = {} PROVE InOrder'
    BY <1>1 DEF Numbered
  <2>1. InOrder /\ \A i \in 1 .. n : i = n
    BY NoCallback DEF ContractInv, Numbered
  <2>2. /\ calls'[n].minted = call.minted + 1 /\ call.start = nextCardTokenId
        /\ k = nextCardTokenId + call.minted /\ nextCardTokenId \in Nat
    BY <1>0, <1>3, <1>5, <2>1 DEF InOrder, Call, ContractTypes, ContractTypeOK
  <2> HIDE DEF k, n, call
  <2>3. /\ owner'[k] = call.message.user
        /\ \A j \in CardIds : j # k => owner'[j] = owner[j]
    BY <1>0, <1>1 DEF ContractTypes, ContractTypeOK
  <2>4. CardIds \subseteq Nat
    BY ContractAssumption
  <2>5. \A i \in 1 .. n : calls'[i].start = nextCardTokenId
    BY <1>6, <2>1 DEF InOrder, n
  <2>6. \A j \in CardIds : owner'[j] # NoOne /\ j < nextCardTokenId =>
          \E r \in Revealed : /\ {x \in Revealed : j \in x.cards} = {r}
                              /\ owner'[j] = r.message.user \/ j \in ledger.moved
    <3> SUFFICES ASSUME NEW j \in CardIds, owner'[j] # NoOne, j < nextCardTokenId
                 PROVE  \E r \in Revealed : /\ {x \in Revealed : j \in x.cards} = {r}
                                            /\ owner'[j] = r.message.user \/ j \in ledger.moved
      OBVIOUS
    <3>1. j # k
      BY <1>8, <2>2, <2>4
    <3>2. owner'[j] = owner[j]
      BY <2>3, <3>1
    <3>. QED
      BY <2>1, <3>2 DEF InOrder
  <2>7. ASSUME NEW j \in CardIds, owner'[j] # NoOne, j >= nextCardTokenId
        PROVE  \E i \in 1 .. n : j < nextCardTokenId + calls'[i].minted
    <3>1. CASE j = k
      BY <1>3, <1>8, <2>2, <2>4, <3>1
    <3>2. CASE j # k
      <4>1. \E i \in 1 .. n : j < nextCardTokenId + calls[i].minted
        BY <2>1, <2>3, <2>7, <3>2 DEF InOrder, n
      <4>2. j < nextCardTokenId + call.minted
        BY <1>3, <2>1, <4>1
      <4>. QED
        BY <1>3, <1>8, <2>2, <2>4, <4>2
    <3>. QED
      BY <3>1, <3>2
  <2>8. ASSUME NEW j \in nextCardTokenId .. nextCardTokenId + calls'[n].minted - 1
        PROVE  j \in CardIds /\ owner'[j] = calls'[n].message.user
    <3>1. calls'[n].message.user = call.message.user
      BY <1>3, <1>6
    <3>2. CASE j = k
      BY <1>1, <2>3, <3>1, <3>2
    <3>3. CASE j # k
      <4>1. j \in nextCardTokenId .. nextCardTokenId + call.minted - 1
        BY <1>8, <2>2, <3>3
      <4>2. j \in CardIds /\ owner[j] = call.message.user
        BY <1>3, <2>1, <4>1 DEF InOrder, n
      <4>. QED
        BY <2>3, <3>1, <3>3, <4>2
    <3>. QED
      BY <3>2, <3>3
  <2>9. \A i \in 1 .. n : \A j \in nextCardTokenId .. nextCardTokenId + calls'[i].minted - 1 :
          j \in CardIds /\ owner'[j] = calls'[i].message.user
    BY <2>1, <2>8
  <2>10. \A j \in CardIds : (\E r \in Revealed : j \in r.cards) => owner'[j] # NoOne \/ j \in ledger.burned
    <3>1. call.message.user # NoOne
      BY <1>8, ContractAssumption
    <3>. QED
      BY <2>1, <2>3, <3>1 DEF InOrder
  <2>. QED
    BY <1>1, <1>5, <1>7, <2>1, <2>5, <2>6, <2>7, <2>9, <2>10 DEF InOrder, n
<1>13. Accounts'
  BY <1>1 DEF ContractInv, Accounts, FundsAreSales, ClaimPaidOnce
<1>. QED
  BY <1>9, <1>10, <1>11, <1>12, <1>13 DEF ContractInv

\* The innermost reveal ends: its commit is settled, by it or by one within it.
LEMMA EndsKeeps ==
  ASSUME ContractInv, RevealEnds
  PROVE  ContractInv'
<1> DEFINE n == Len(calls)
           call == Last(calls)
           m == call.message
           c == m.commit
           new == Outcome(call)
<1>0. ContractTypes
  BY DEF ContractInv
<1>1. /\ ~Idle /\ call.minted = m.draw.size /\ calls' = Front(calls)
      /\ nextCardTokenId' = call.start + m.draw.size
      /\ commits' = [commits EXCEPT ![c] = NoOne]
      /\ ledger' = [ledger EXCEPT !.revealed = @ \cup {new}]
      /\ UNCHANGED <<coded, holdVars, nextCommitId, usedRevealHashes, owner, moneyVars, signed>>
  BY DEF RevealEnds
<1>2. calls \in Seq(Call)
  BY <1>0 DEF ContractTypes, ContractTypeOK
<1>3. /\ calls' \in Seq(Call) /\ n \in Nat /\ n >= 1 /\ Len(calls') = n - 1
      /\ \A i \in 1 .. Len(calls') : calls'[i] = calls[i] /\ i \in 1 .. n /\ i < n
      /\ \A i \in 1 .. n : i = n \/ i \in 1 .. Len(calls')
      /\ call = calls[n] /\ n \in 1 .. n /\ call \in Call
  BY <1>1, <1>2, Popped
<1>4. m \in RevealMessage /\ call.start \in Nat /\ call.minted \in Nat /\ m.draw.size \in Nat
  BY <1>1, <1>3 DEF Call
<1>5. m \in usedRevealHashes /\ m \in signed \cap RevealMessage
  BY <1>3, <1>4 DEF ContractInv, Used
<1>6. c \in CommitIds /\ c \in 1 .. nextCommitId /\ m.user = ledger.committed[c].user /\ m.user \in Users
  <2>1. c \in CommitIds /\ m.user \in Users
    BY <1>4 DEF RevealMessage
  <2>2. c \in 1 .. nextCommitId /\ m.user = ledger.committed[c].user
    BY <1>5 DEF ContractInv, Settled
  <2>. QED
    BY <2>1, <2>2
<1>7. new.message = m /\ new.cards = call.start .. call.start + m.draw.size - 1 /\ new \in Reveals
  <2>1. call.start .. call.start + m.draw.size - 1 \in SUBSET Nat
    BY <1>4
  <2>. QED
    BY <1>4, <2>1 DEF Outcome, Numbers, Reveals
<1> HIDE DEF n, call, m, c, new
<1>8. /\ ledger' \in Ledger /\ ledger'.revealed = ledger.revealed \cup {new}
      /\ \A f \in {"issued", "spent", "withdrawn", "claimed", "burned", "moved", "committed"} :
           ledger'[f] = ledger[f]
  <2>1. ledger \in Ledger
    BY <1>0 DEF ContractTypes
  <2>. QED
    BY <1>1, <1>7, <2>1 DEF Ledger
<1>9. Revealed' = Revealed \cup {new}
  BY <1>8 DEF Revealed
<1>10. /\ commits'[c] = NoOne /\ \A d \in CommitIds : d # c => commits'[d] = commits[d]
       /\ commits' \in [CommitIds -> Commit \cup {NoOne}]
  BY <1>0, <1>1, <1>6 DEF ContractTypes, ContractTypeOK
<1>11. ContractTypes'
  BY <1>0, <1>1, <1>3, <1>4, <1>8, <1>10 DEF ContractTypes, ContractTypeOK
<1>12. \A r \in Revealed : r.message \in usedRevealHashes /\ r.message \in signed \cap RevealMessage
  BY <1>0 DEF ContractInv, Used, ContractTypes, ContractTypeOK
<1>13. \A x \in signed \cap RevealMessage : x.commit \in CommitIds
  BY DEF RevealMessage
<1>14. \A r \in Revealed : r.message # m
  BY <1>3 DEF ContractInv, Used, m, n
<1>15. Settled'
  <2>1. \A d \in CommitIds : commits'[d] # NoOne =>
          d \in 1 .. nextCommitId /\ commits'[d] = ledger.committed[d]
    BY <1>10 DEF ContractInv, Settled
  <2>2. \A d \in 1 .. nextCommitId : commits'[d] = NoOne => \E r \in Revealed' : r.message.commit = d
    <3>1. \E r \in Revealed' : r.message.commit = c
      BY <1>7, <1>9 DEF c
    <3>2. 1 .. nextCommitId \subseteq CommitIds
      BY <1>0 DEF ContractTypes
    <3>. QED
      BY <1>9, <1>10, <3>1, <3>2 DEF ContractInv, Settled
  <2>3. \A r \in Revealed' : commits'[r.message.commit] = NoOne
    <3>1. commits'[new.message.commit] = NoOne
      BY <1>7, <1>10 DEF c
    <3>2. \A r \in Revealed : commits'[r.message.commit] = NoOne
      BY <1>10, <1>12, <1>13 DEF ContractInv, Settled
    <3>. QED
      BY <1>9, <3>1, <3>2
  <2>. QED
    BY <1>1, <1>8, <2>1, <2>2, <2>3 DEF ContractInv, Settled
<1>16. Used'
  <2>1. \A r \in Revealed' : r.message \in usedRevealHashes
    BY <1>5, <1>7, <1>9, <1>12
  <2>2. \A x \in usedRevealHashes : \/ \E r \in Revealed' : r.message = x
                                    \/ \E i \in 1 .. Len(calls') : calls'[i].message = x
    <3> SUFFICES ASSUME NEW x \in usedRevealHashes, x # m, \A r \in Revealed : r.message # x
                 PROVE  \E i \in 1 .. Len(calls') : calls'[i].message = x
      BY <1>7, <1>9
    <3>1. PICK i \in 1 .. n : calls[i].message = x
      BY DEF ContractInv, Used, n
    <3>2. i # n
      BY <1>3, <3>1 DEF m
    <3>. QED
      BY <1>3, <3>1, <3>2
  <2>3. \A r, q \in Revealed' : r.message = q.message => r = q
    BY <1>7, <1>9, <1>14 DEF ContractInv, Used
  <2>4. \A i \in 1 .. Len(calls') : /\ calls'[i].message \in usedRevealHashes
                                    /\ calls'[i].message # m
                                    /\ \A r \in Revealed : r.message # calls'[i].message
    <3> SUFFICES ASSUME NEW i \in 1 .. Len(calls')
                 PROVE  /\ calls'[i].message \in usedRevealHashes /\ calls'[i].message # m
                        /\ \A r \in Revealed : r.message # calls'[i].message
      OBVIOUS
    <3>1. calls'[i] = calls[i] /\ i \in 1 .. n /\ i # n
      BY <1>3
    <3>. QED
      BY <1>3, <3>1 DEF ContractInv, Used, n, m
  <2>5. \A r \in Revealed' : \A i \in 1 .. Len(calls') : r.message # calls'[i].message
    BY <1>7, <1>9, <2>4
  <2>6. \A i, j \in 1 .. Len(calls') : calls'[i].message = calls'[j].message => i = j
    BY <1>3 DEF ContractInv, Used, n
  <2>. QED
    BY <1>1, <2>1, <2>2, <2>3, <2>4, <2>5, <2>6 DEF ContractInv, Used
<1>17. Nested'
  <2>1. \A i \in 1 .. Len(calls') : calls'[i].message.user \in coded
    BY <1>3 DEF ContractInv, Nested, n
  <2>2. ASSUME NEW q \in Revealed, q.message.commit = c
        PROVE  m.user \in coded /\ q.message.user \in coded
    <3>1. commits[c] = NoOne
      BY <2>2 DEF ContractInv, Settled
    <3>2. m.user \in coded
      BY <1>3, <3>1 DEF ContractInv, Nested, n, m, c
    <3>3. q.message.user = ledger.committed[c].user
      BY <1>12, <2>2 DEF ContractInv, Settled
    <3>. QED
      BY <1>6, <3>2, <3>3
  <2>3. \A r, q \in Revealed' : r.message.commit = q.message.commit /\ r # q => r.message.user \in coded
    <3>1. \A r, q \in Revealed : r.message.commit = q.message.commit /\ r # q => r.message.user \in coded
      BY DEF ContractInv, Nested
    <3>. QED
      BY <1>7, <1>9, <2>2, <3>1 DEF c
  <2>. QED
    BY <1>1, <2>1, <2>3 DEF Nested
<1>18. Numbered'
  <2> SUFFICES ASSUME coded = {} PROVE InOrder'
    BY <1>1 DEF Numbered
  <2>1. InOrder /\ \A i \in 1 .. n : i = n
    BY NoCallback DEF ContractInv, Numbered, n
  <2> DEFINE next == nextCardTokenId
  <2>2. /\ call.start = next /\ next \in Nat /\ nextCardTokenId' = next + m.draw.size
        /\ new.cards = next .. next + m.draw.size - 1
    BY <1>0, <1>1, <1>3, <1>7, <2>1 DEF InOrder, ContractTypes, ContractTypeOK, n
  <2> HIDE DEF next
  <2>3. \A i \in 1 .. Len(calls') : FALSE
    BY <1>3, <2>1
  <2>4. CardIds \subseteq Nat
    BY ContractAssumption
  <2>5. \A r \in Revealed : \A k \in r.cards : k \in Nat /\ k < next
    <3>1. \A r \in Revealed : r.cards \subseteq Nat
      BY <1>0 DEF ContractTypes, Ledger, Reveals, Revealed
    <3>. QED
      BY <2>1, <3>1 DEF InOrder, next
  <2>6. \A r \in Revealed' : \A k \in r.cards : k < nextCardTokenId'
    <3>1. \A k \in new.cards : k < nextCardTokenId'
      BY <1>4, <2>2
    <3>2. \A r \in Revealed : \A k \in r.cards : k < nextCardTokenId'
      BY <1>4, <2>2, <2>5
    <3>. QED
      BY <1>9, <3>1, <3>2
  <2>7. \A k \in ledger'.burned : k < nextCardTokenId'
    <3>1. \A k \in ledger.burned : k \in Nat /\ k < next
      BY <1>0, <2>1, <2>4 DEF InOrder, ContractTypes, Ledger, next
    <3>2. \A k \in ledger.burned : k < nextCardTokenId'
      BY <1>4, <2>2, <3>1
    <3>. QED
      BY <1>8, <3>2
  <2>8. \A k \in new.cards : k \in CardIds /\ owner[k] = m.user
    <3>1. \A k \in next .. next + call.minted - 1 : k \in CardIds /\ owner[k] = call.message.user
      BY <1>3, <2>1 DEF InOrder, next, n
    <3>. QED
      BY <1>1, <2>2, <3>1 DEF m
  <2>9. ASSUME NEW k \in CardIds, owner[k] # NoOne
        PROVE  \/ k \in new.cards
               \/ k \notin new.cards /\ k < next
    <3>1. CASE k < next
      BY <1>4, <2>2, <2>4, <3>1
    <3>2. CASE ~ (k < next)
      <4>1. \E i \in 1 .. n : k < next + calls[i].minted
        BY <2>1, <2>2, <2>4, <2>9, <3>2 DEF InOrder, next, n
      <4>2. k < next + m.draw.size
        BY <1>1, <1>3, <2>1, <4>1
      <4>. QED
        BY <1>4, <2>2, <2>4, <3>2, <4>2
    <3>. QED
      BY <3>1, <3>2
  <2>10. ASSUME NEW k \in CardIds, owner[k] # NoOne
         PROVE  \E r \in Revealed' : /\ {x \in Revealed' : k \in x.cards} = {r}
                                     /\ owner[k] = r.message.user \/ k \in ledger'.moved
    <3>1. CASE k \in new.cards
      <4>1. \A r \in Revealed : k \notin r.cards
        <5>1. k >= next /\ k \in Nat
          BY <1>4, <2>2, <3>1
        <5>. QED
          BY <2>2, <2>5, <5>1
      <4>2. {x \in Revealed' : k \in x.cards} = {new}
        BY <1>9, <3>1, <4>1
      <4>. QED
        BY <1>7, <1>9, <2>8, <3>1, <4>2
    <3>2. CASE k \notin new.cards /\ k < next
      <4>1. PICK r \in Revealed : /\ {x \in Revealed : k \in x.cards} = {r}
                                  /\ owner[k] = r.message.user \/ k \in ledger.moved
        BY <2>1, <2>10, <3>2 DEF InOrder, next
      <4>2. {x \in Revealed' : k \in x.cards} = {r}
        BY <1>9, <3>2, <4>1
      <4>. QED
        BY <1>8, <1>9, <4>1, <4>2
    <3>. QED
      BY <2>9, <2>10, <3>1, <3>2
  <2>11. ASSUME NEW k \in CardIds, owner[k] # NoOne, k >= nextCardTokenId'
         PROVE  FALSE
    <3>1. CASE k \in new.cards
      BY <1>4, <2>2, <2>4, <2>11, <3>1
    <3>2. CASE k < next
      BY <1>4, <2>2, <2>4, <2>11, <3>2
    <3>. QED
      BY <2>9, <2>11, <3>1, <3>2
  <2>12. \A k \in CardIds : (\E r \in Revealed' : k \in r.cards) => owner[k] # NoOne \/ k \in ledger'.burned
    <3>1. m.user # NoOne
      BY <1>6, ContractAssumption
    <3>2. \A k \in CardIds : k \in new.cards => owner[k] # NoOne
      BY <2>8, <3>1
    <3>3. \A k \in CardIds : (\E r \in Revealed : k \in r.cards) => owner[k] # NoOne \/ k \in ledger.burned
      BY <2>1 DEF InOrder
    <3>. QED
      BY <1>8, <1>9, <3>2, <3>3
  <2>. QED
    BY <1>1, <2>3, <2>6, <2>7, <2>10, <2>11, <2>12 DEF InOrder
<1>19. Accounts'
  BY <1>1, <1>8 DEF ContractInv, Accounts, FundsAreSales, ClaimPaidOnce
<1>. QED
  BY <1>11, <1>15, <1>16, <1>17, <1>18, <1>19 DEF ContractInv

\* A card changes hands or is burned; without code, between the reveals.
LEMMA CardKeeps ==
  ASSUME ContractInv, NEW k \in CardIds, NEW v \in Users, burn(k) \/ transferFrom(v, k)
  PROVE  ContractInv'
<1>0. ContractTypes
  BY DEF ContractInv
<1>1. /\ \E u \in Users : MayCall(u)
      /\ owner[k] # NoOne
      /\ UNCHANGED <<coded, calls, holdVars, commits, nextCommitId, usedRevealHashes, nextCardTokenId,
                     moneyVars, signed>>
  BY DEF burn, transferFrom, MayMove
<1>2. /\ ledger' \in Ledger
      /\ \A f \in {"issued", "revealed", "spent", "withdrawn", "claimed", "committed"} : ledger'[f] = ledger[f]
      /\ ledger.burned \subseteq ledger'.burned /\ ledger'.burned \subseteq ledger.burned \cup {k}
      /\ ledger.moved \subseteq ledger'.moved
      /\ owner' \in [CardIds -> Users \cup {NoOne}]
      /\ \A j \in CardIds : j # k => owner'[j] = owner[j]
      /\ \/ owner'[k] = NoOne /\ k \in ledger'.burned
         \/ owner'[k] = v /\ k \in ledger'.moved
  <2>1. ledger \in Ledger /\ owner \in [CardIds -> Users \cup {NoOne}]
    BY <1>0 DEF ContractTypes, ContractTypeOK
  <2>2. CASE burn(k)
    BY <2>1, <2>2 DEF burn, Ledger
  <2>3. CASE transferFrom(v, k)
    BY <2>1, <2>3 DEF transferFrom, Ledger
  <2>. QED
    BY <2>2, <2>3
<1>3. Revealed' = Revealed
  BY <1>2 DEF Revealed
<1>4. ContractTypes'
  BY <1>0, <1>1, <1>2 DEF ContractTypes, ContractTypeOK
<1>5. Settled'
  BY <1>1, <1>2, <1>3 DEF ContractInv, Settled
<1>6. Used' /\ Nested'
  BY <1>1, <1>3 DEF ContractInv, Used, Nested
<1>7. Numbered'
  <2> SUFFICES ASSUME coded = {} PROVE InOrder'
    BY <1>1 DEF Numbered
  <2>1. InOrder /\ Idle
    BY <1>1, NoCallback DEF ContractInv, Numbered
  <2>2. Len(calls) = 0 /\ \A i \in 1 .. Len(calls) : FALSE
    BY <2>1 DEF Idle
  <2>3. \A j \in CardIds : owner[j] # NoOne => j < nextCardTokenId
    <3>1. CardIds \subseteq Nat /\ nextCardTokenId \in Nat
      BY <1>0, ContractAssumption DEF ContractTypes, ContractTypeOK
    <3>. QED
      BY <2>1, <2>2, <3>1 DEF InOrder
  <2>4. PICK r \in Revealed : /\ {x \in Revealed : k \in x.cards} = {r}
                              /\ owner[k] = r.message.user \/ k \in ledger.moved
    BY <1>1, <2>1, <2>3 DEF InOrder
  <2>5. \A j \in CardIds : owner'[j] # NoOne => j < nextCardTokenId
    BY <1>1, <1>2, <2>3
  <2>6. \A j \in CardIds : owner'[j] # NoOne /\ j < nextCardTokenId =>
          \E q \in Revealed : /\ {x \in Revealed : j \in x.cards} = {q}
                              /\ owner'[j] = q.message.user \/ j \in ledger'.moved
    <3>1. ASSUME owner'[k] # NoOne
          PROVE  \E q \in Revealed : /\ {x \in Revealed : k \in x.cards} = {q}
                                     /\ owner'[k] = q.message.user \/ k \in ledger'.moved
      BY <1>2, <2>4, <3>1
    <3>2. ASSUME NEW j \in CardIds, j # k, owner'[j] # NoOne
          PROVE  \E q \in Revealed : /\ {x \in Revealed : j \in x.cards} = {q}
                                     /\ owner'[j] = q.message.user \/ j \in ledger'.moved
      <4>1. owner'[j] = owner[j] /\ j < nextCardTokenId
        BY <1>2, <2>5, <3>2
      <4>2. PICK q \in Revealed : /\ {x \in Revealed : j \in x.cards} = {q}
                                  /\ owner[j] = q.message.user \/ j \in ledger.moved
        BY <2>1, <3>2, <4>1 DEF InOrder
      <4>. QED
        BY <1>2, <4>1, <4>2
    <3>. QED
      BY <3>1, <3>2
  <2>7. \A j \in ledger'.burned : j < nextCardTokenId
    BY <1>1, <1>2, <2>1, <2>3 DEF InOrder
  <2>8. \A j \in CardIds : (\E q \in Revealed : j \in q.cards) => owner'[j] # NoOne \/ j \in ledger'.burned
    <3>1. v # NoOne
      BY ContractAssumption
    <3>. QED
      BY <1>2, <2>1, <3>1 DEF InOrder
  <2>9. \A j \in CardIds : owner'[j] # NoOne /\ j >= nextCardTokenId => FALSE
    <3>1. CardIds \subseteq Nat /\ nextCardTokenId \in Nat
      BY <1>0, ContractAssumption DEF ContractTypes, ContractTypeOK
    <3>. QED
      BY <2>5, <3>1
  <2>10. \A q \in Revealed : \A j \in q.cards : j < nextCardTokenId
    BY <2>1 DEF InOrder
  <2>. QED
    BY <1>1, <1>3, <2>2, <2>6, <2>7, <2>8, <2>9, <2>10 DEF InOrder
<1>8. Accounts'
  BY <1>1, <1>2 DEF ContractInv, Accounts, FundsAreSales, ClaimPaidOnce
<1>. QED
  BY <1>4, <1>5, <1>6, <1>7, <1>8 DEF ContractInv

LEMMA SignKeeps ==
  ASSUME ContractInv, \/ \E m \in ClaimMessage : SignClaim(m)
              \/ \E c \in CommitIds, d \in Seeds : SignReveal(c, d)
  PROVE  ContractInv'
<1>0. ContractTypes
  BY DEF ContractInv
<1>1. ASSUME NEW m, signed' = signed \cup {m}, m \in ClaimMessage \cup RevealMessage,
             UNCHANGED <<coded, calls, holdVars, openVars, moneyVars, ledger>>,
             m \in RevealMessage =>
               m.commit \in 1 .. nextCommitId /\ m.user = ledger.committed[m.commit].user
      PROVE  ContractInv'
  <2>1. ContractTypes'
    BY <1>0, <1>1 DEF ContractTypes, ContractTypeOK
  <2>2. Revealed' = Revealed
    BY <1>1 DEF Revealed
  <2>3. Settled'
    BY <1>1, <2>2 DEF ContractInv, Settled
  <2>4. Used' /\ Nested'
    BY <1>1, <2>2 DEF ContractInv, Used, Nested
  <2>5. Numbered'
    <3>1. InOrder => InOrder'
      BY <1>1, <2>2 DEF InOrder
    <3>. QED
      BY <1>1, <3>1 DEF ContractInv, Numbered
  <2>6. Accounts'
    BY <1>1 DEF ContractInv, Accounts, FundsAreSales, ClaimPaidOnce
  <2>. QED
    BY <2>1, <2>3, <2>4, <2>5, <2>6 DEF ContractInv
<1>2. ASSUME NEW m \in ClaimMessage, SignClaim(m) PROVE ContractInv'
  <2>1. m \notin RevealMessage
    <3>1. DOMAIN m = {"user", "claim", "type", "amount"}
      BY DEF ClaimMessage
    <3>2. m \in RevealMessage => DOMAIN m = {"user", "commit", "draw"}
      BY DEF RevealMessage
    <3>. QED
      BY <3>1, <3>2
  <2>. QED
    BY <1>1, <1>2, <2>1 DEF SignClaim
<1>3. ASSUME NEW c \in CommitIds, NEW d \in Seeds, SignReveal(c, d) PROVE ContractInv'
  <2> DEFINE m == [user |-> commits[c].user, commit |-> c, draw |-> d]
  <2>1. commits[c] # NoOne /\ signed' = signed \cup {m}
    BY <1>3 DEF SignReveal
  <2>2. commits[c].user \in Users
    BY <1>0, <2>1 DEF ContractTypes, ContractTypeOK, Commit
  <2>3. m \in RevealMessage /\ m.commit = c /\ m.user = commits[c].user
    BY <2>2 DEF RevealMessage
  <2>4. c \in 1 .. nextCommitId /\ commits[c] = ledger.committed[c]
    BY <2>1 DEF ContractInv, Settled
  <2>5. UNCHANGED <<coded, calls, holdVars, openVars, moneyVars, ledger>>
    BY <1>3 DEF SignReveal
  <2> HIDE DEF m
  <2>. QED
    BY <1>1, <2>1, <2>3, <2>4, <2>5
<1>. QED
  BY <1>2, <1>3

-----------------------------------------------------------------------------
(* The contract: every step, and what follows *)

LEMMA ContractNextInv == ContractInv /\ [ContractNext]_contractVars => ContractInv'
<1> SUFFICES ASSUME ContractInv, [ContractNext]_contractVars PROVE ContractInv'
  OBVIOUS
<1>1. CASE UNCHANGED contractVars
  <2>1. UNCHANGED <<openVars, coded, calls, signed, holdVars, moneyVars>> /\ ledger' = ledger
    BY <1>1 DEF contractVars
  <2>2. ContractTypes' /\ Accounts'
    BY <2>1 DEF ContractInv, ContractTypes, ContractTypeOK, Accounts, FundsAreSales, ClaimPaidOnce
  <2>. QED
    BY <2>1, <2>2, SameCommits DEF ContractInv
<1>2. ASSUME NEW u \in Users, NEW m \in signed, revealOpen(u, m) PROVE ContractInv'
  BY <1>2, RevealKeeps DEF revealOpen
<1>3. ASSUME NEW m \in signed, relayerRevealOpen(m) PROVE ContractInv'
  <2>1. Idle /\ Reveal(m)
    BY <1>3 DEF relayerRevealOpen
  <2>2. m.user \in Users
    BY <2>1 DEF Reveal, RevealMessage
  <2>3. MayCall(m.user)
    BY <2>1 DEF MayCall
  <2>. QED
    BY <2>1, <2>2, <2>3, RevealKeeps
<1>4. ASSUME NEW k \in CardIds, burn(k) PROVE ContractInv'
  <2>1. PICK v \in Users : TRUE
    BY <1>4 DEF burn, MayMove
  <2>. QED
    BY <1>4, CardKeeps
<1>. QED
  BY <1>1, <1>2, <1>3, <1>4, MintKeeps, BuyKeeps, ClaimKeeps, AdminKeeps, CommitKeeps, MintCardKeeps,
     EndsKeeps, CardKeeps, SignKeeps DEF ContractNext

LEMMA ContractInvariant == ContractSpec => []ContractInv
BY ContractInitInv, ContractNextInv, PTL DEF ContractSpec

LEMMA ContractInvSafe == ContractInv => CommitsKept
<1> SUFFICES ASSUME ContractInv, Idle PROVE CommitSettledOnce /\ (coded = {} => CardsOfTheCommit /\ SignedIsRevealable)
  BY DEF CommitsKept
<1>0. ContractTypes /\ Len(calls) = 0 /\ \A i \in 1 .. Len(calls) : FALSE
  BY DEF ContractInv, Idle
<1>1. CommitSettledOnce
  <2>1. \A r \in Revealed : r.message \in signed \cap RevealMessage
    BY <1>0 DEF ContractInv, Used, ContractTypes, ContractTypeOK
  <2>2. \A c \in 1 .. nextCommitId : commits[c] = NoOne <=> \E r \in Revealed : r.message.commit = c
    BY DEF ContractInv, Settled
  <2>3. \A r \in Revealed : r.message.user = ledger.committed[r.message.commit].user
    BY <2>1 DEF ContractInv, Settled
  <2>4. \A r, q \in Revealed : r.message.commit = q.message.commit /\ r # q =>
          r.message # q.message /\ r.message.user \in coded
    BY DEF ContractInv, Used, Nested
  <2>. QED
    BY <2>2, <2>3, <2>4 DEF CommitSettledOnce
<1> SUFFICES ASSUME coded = {} PROVE CardsOfTheCommit /\ SignedIsRevealable
  BY <1>1
<1>2. InOrder /\ CardIds \subseteq Nat /\ nextCardTokenId \in Nat
  BY <1>0, ContractAssumption DEF ContractInv, Numbered, ContractTypes, ContractTypeOK
<1>3. \A k \in CardIds : owner[k] # NoOne => k < nextCardTokenId
  BY <1>0, <1>2 DEF InOrder
<1>4. CardsOfTheCommit
  <2>1. \A k \in CardIds : owner[k] # NoOne =>
          \E r \in Revealed : /\ {x \in Revealed : k \in x.cards} = {r}
                              /\ owner[k] = r.message.user \/ k \in ledger.moved
    BY <1>2, <1>3 DEF InOrder
  <2>2. \A k \in CardIds : {r \in Revealed : k \in r.cards} # {} => owner[k] # NoOne \/ k \in ledger.burned
    BY <1>2 DEF InOrder
  <2>. QED
    BY <2>1, <2>2 DEF CardsOfTheCommit
<1>5. SignedIsRevealable
  <2> SUFFICES ASSUME NEW m \in signed \cap RevealMessage, commits[m.commit] # NoOne
               PROVE  /\ m.user = commits[m.commit].user /\ m \notin usedRevealHashes
                      /\ \A k \in Numbers(nextCardTokenId, m.draw) \cap CardIds :
                           owner[k] = NoOne /\ k \notin ledger.burned
    BY DEF SignedIsRevealable
  <2>1. m.user = commits[m.commit].user
    BY DEF ContractInv, Settled, RevealMessage
  <2>2. m \notin usedRevealHashes
    BY <1>0 DEF ContractInv, Settled, Used
  <2>3. ASSUME NEW k \in Numbers(nextCardTokenId, m.draw) \cap CardIds
        PROVE  owner[k] = NoOne /\ k \notin ledger.burned
    <3>1. k >= nextCardTokenId /\ k \in Nat
      BY <1>2 DEF Numbers
    <3>2. k \in ledger.burned => k < nextCardTokenId
      BY <1>2 DEF InOrder
    <3>. QED
      BY <1>2, <1>3, <3>1, <3>2
  <2>. QED
    BY <2>1, <2>2, <2>3
<1>. QED
  BY <1>4, <1>5

-----------------------------------------------------------------------------
(* The contract: sums over the users *)

\* What the users hold of a type of pack, as PacksAccounted adds it up.
Held(b, p) == MapThenSumSet(LAMBDA u : b[u][p], Users)
Column(b, p) == [u \in Users |-> b[u][p]]

\* What the function that MapThenSumSet picks is equal to.
Body(g, b, p) == [s \in SUBSET Users |-> IF s = {} THEN 0
                      ELSE b[CHOOSE x \in s : TRUE][p] + g[s \ {CHOOSE x \in s : TRUE}]]

LEMMA HeldBody == ASSUME NEW b, NEW p
                  PROVE  Held(b, p) = (CHOOSE g : g = Body(g, b, p))[Users]
BY DEF MapThenSumSet, MapThenFoldSet, Held, Body

LEMMA HeldSum ==
  ASSUME NEW p \in Types, NEW b \in [Users -> [Types -> Nat]]
  PROVE  \E g : Solves(g, Column(b, p), Users) /\ Held(b, p) = g[Users]
<1>1. \A g : Body(g, b, p) = [s \in SUBSET Users |-> IF s = {} THEN 0
                                 ELSE Column(b, p)[Picked(s)] + g[s \ {Picked(s)}]]
  <2>1. \A s \in SUBSET Users : s # {} => Column(b, p)[Picked(s)] = b[CHOOSE x \in s : TRUE][p]
    BY PickedIn DEF Column, Picked
  <2> QED
    BY <2>1 DEF Body, Picked
<1>2. \A g : g = Body(g, b, p) <=> Solves(g, Column(b, p), Users)
  BY <1>1 DEF Solves
<1>3. \E g : g = Body(g, b, p)
  <2>1. Column(b, p) \in [Users -> Int]
    BY DEF Column
  <2> QED
    BY <1>2, <2>1, SumExists, ContractAssumption
<1> QED
  BY <1>2, <1>3, HeldBody

LEMMA HeldChanges ==
  ASSUME NEW p \in Types, NEW u \in Users,
         NEW b \in [Users -> [Types -> Nat]], NEW c \in [Users -> [Types -> Nat]],
         \A x \in Users : x # u => c[x][p] = b[x][p]
  PROVE  /\ Held(b, p) \in Int /\ Held(c, p) \in Int
         /\ Held(c, p) = Held(b, p) + c[u][p] - b[u][p]
<1> DEFINE v == Column(b, p)
           w == Column(c, p)
           d == w[u] - v[u]
<1>1. PICK g : Solves(g, v, Users) /\ Held(b, p) = g[Users]
  BY HeldSum, ContractAssumption
<1>2. PICK h : Solves(h, w, Users) /\ Held(c, p) = h[Users]
  BY HeldSum, ContractAssumption
<1>3. /\ v \in [Users -> Int] /\ w \in [Users -> Int]
      /\ \A x \in Users : v[x] = b[x][p] /\ w[x] = c[x][p]
      /\ v[u] = b[u][p] /\ w[u] = c[u][p]
  BY DEF Column
<1> HIDE DEF v, w
<1>4. b[u][p] \in Nat /\ c[u][p] \in Nat
  OBVIOUS
<1>5. d \in Int /\ d = c[u][p] - b[u][p]
  BY <1>3, <1>4 DEF d
<1>6. \A x \in Users : w[x] = IF x = u THEN v[x] + d ELSE v[x]
  BY <1>3, <1>4, <1>5
<1> HIDE DEF d
<1>7. Compared(v, w, g, h, u, d, Users)
  BY <1>1, <1>2, <1>3, <1>5, <1>6 DEF Compared
<1>8. g[Users] \in Int /\ h[Users] \in Int /\ h[Users] = g[Users] + d
  BY <1>7, SumChanges, ContractAssumption
<1> QED
  BY <1>1, <1>2, <1>4, <1>5, <1>8

LEMMA HeldType ==
  ASSUME NEW p \in Types, NEW b \in [Users -> [Types -> Nat]]
  PROVE  Held(b, p) \in Int
<1>1. PICK g : Solves(g, Column(b, p), Users) /\ Held(b, p) = g[Users]
  BY HeldSum, ContractAssumption
<1>2. Column(b, p) \in [Users -> Int] /\ NoOne \notin Users
  BY ContractAssumption DEF Column
<1>3. Compared(Column(b, p), Column(b, p), g, g, NoOne, 0, Users)
  BY <1>1, <1>2 DEF Compared
<1> QED
  BY <1>1, <1>3, SumChanges, ContractAssumption

LEMMA HeldNone ==
  ASSUME NEW p \in Types, NEW b \in [Users -> [Types -> Nat]],
         \A x \in Users : b[x][p] = 0
  PROVE  Held(b, p) = 0
<1> DEFINE h == [s \in SUBSET Users |-> 0]
<1>1. PICK g : Solves(g, Column(b, p), Users) /\ Held(b, p) = g[Users]
  BY HeldSum, ContractAssumption
<1>2. Column(b, p) \in [Users -> Int] /\ \A x \in Users : Column(b, p)[x] = 0
  BY DEF Column
<1>3. Solves(h, Column(b, p), Users)
  <2>1. \A s \in SUBSET Users : s # {} => Column(b, p)[Picked(s)] + h[s \ {Picked(s)}] = 0
    BY <1>2, PickedIn
  <2> QED
    BY <2>1 DEF Solves
<1>4. h[Users] = g[Users]
  <2> HIDE DEF h
  <2>1. NoOne \notin Users
    BY ContractAssumption
  <2>2. Compared(Column(b, p), Column(b, p), g, h, NoOne, 0, Users)
    BY <1>1, <1>2, <1>3, <2>1 DEF Compared
  <2> QED
    BY <2>1, <2>2, SumChanges, ContractAssumption
<1> QED
  BY <1>1, <1>4

-----------------------------------------------------------------------------
(* The contract: every pack is accounted for *)

\* Each pack of a type is in a wallet, waits burned for its commit, or was revealed.
PacksCounted ==
  \A p \in Types : ledger.issued[p] = Held(balance, p) + Cardinality(Pending(p)) + Cardinality(Opened(p))

\* What was revealed is of commits that were made.
LEMMA RevealedCommits ==
  ASSUME ContractInv, NEW r \in Revealed
  PROVE  /\ r.message \in signed \cap RevealMessage
         /\ r.message.commit \in 1 .. nextCommitId /\ r.message.commit \in CommitIds
<1>1. r.message \in signed \cap RevealMessage
  BY DEF ContractInv, Used, ContractTypes, ContractTypeOK
<1>. QED
  BY <1>1 DEF ContractInv, Settled, RevealMessage

LEMMA CountsOf ==
  ASSUME ContractInv, NEW p \in Types
  PROVE  /\ IsFiniteSet(Pending(p)) /\ Cardinality(Pending(p)) \in Nat
         /\ IsFiniteSet(Opened(p)) /\ Cardinality(Opened(p)) \in Nat
         /\ Held(balance, p) \in Int
<1>1. /\ Pending(p) \subseteq 1 .. nextCommitId /\ nextCommitId \in Nat
      /\ Opened(p) \subseteq 1 .. nextCommitId
  <2>1. Opened(p) \subseteq 1 .. nextCommitId
    BY RevealedCommits DEF Opened
  <2>. QED
    BY <2>1 DEF ContractInv, ContractTypes, Settled, Pending
<1>2. IsFiniteSet(1 .. nextCommitId)
  BY <1>1, FS_Interval
<1>3. IsFiniteSet(Pending(p)) /\ IsFiniteSet(Opened(p))
  BY <1>1, <1>2, FS_Subset
<1>4. Held(balance, p) \in Int
  BY HeldType DEF ContractInv, ContractTypes, ContractTypeOK
<1>. QED
  BY <1>3, <1>4, FS_CardinalityType

LEMMA PacksInit == ContractInit => PacksCounted
<1> SUFFICES ASSUME ContractInit PROVE PacksCounted
  OBVIOUS
<1>1. Revealed = {} /\ IsFiniteSet({}) /\ Cardinality({}) = 0
  BY FS_EmptySet DEF ContractInit, Revealed
<1>2. ASSUME NEW p \in Types
      PROVE  /\ ledger.issued[p] = 0 /\ Held(balance, p) = 0
             /\ Pending(p) = {} /\ Opened(p) = {}
  <2>1. balance \in [Users -> [Types -> Nat]] /\ \A x \in Users : balance[x][p] = 0
    BY DEF ContractInit
  <2>2. Held(balance, p) = 0
    BY <2>1, HeldNone
  <2>. QED
    BY <1>1, <2>2 DEF ContractInit, Pending, Opened
<1>. QED
  BY <1>1, <1>2 DEF PacksCounted

\* A step of one user's packs.
LEMMA HeldStep ==
  ASSUME ContractInv, ContractInv', NEW u \in Users, NEW p \in Types,
         \A x \in Users : x # u => balance'[x][p] = balance[x][p]
  PROVE  Held(balance, p)' = Held(balance, p) + balance'[u][p] - balance[u][p]
<1>1. balance \in [Users -> [Types -> Nat]] /\ balance' \in [Users -> [Types -> Nat]]
  BY DEF ContractInv, ContractTypes, ContractTypeOK
<1>. QED
  BY <1>1, HeldChanges

LEMMA PacksMint ==
  ASSUME ContractInv, ContractInv', PacksCounted, NEW u \in Users, NEW q \in Types, NEW n \in Amounts, Mint(u, q, n),
         ledger'.issued = [ledger.issued EXCEPT ![q] = @ + n],
         ledger'.revealed = ledger.revealed, ledger'.committed = ledger.committed, commits' = commits
  PROVE  PacksCounted'
<1>1. Revealed' = Revealed /\ \A p \in Types : Pending(p)' = Pending(p) /\ Opened(p)' = Opened(p)
  BY DEF Revealed, Pending, Opened
<1>2. ASSUME NEW p \in Types
      PROVE  ledger'.issued[p] = Held(balance, p)' + Cardinality(Pending(p)) + Cardinality(Opened(p))
  <2>1. /\ Cardinality(Pending(p)) \in Nat /\ Cardinality(Opened(p)) \in Nat
        /\ Held(balance, p) \in Int
        /\ ledger.issued[p] = Held(balance, p) + Cardinality(Pending(p)) + Cardinality(Opened(p))
    BY CountsOf DEF PacksCounted
  <2>2. /\ balance[u][p] \in Nat /\ n \in Nat
        /\ balance'[u][p] = IF p = q THEN balance[u][p] + n ELSE balance[u][p]
        /\ \A x \in Users : x # u => balance'[x][p] = balance[x][p]
    <3>1. n \in Nat
      BY ContractAssumption
    <3>2. balance \in [Users -> [Types -> Nat]]
      BY DEF ContractInv, ContractTypes, ContractTypeOK
    <3>3. balance' = [balance EXCEPT ![u][q] = @ + n]
      BY DEF Mint
    <3>. QED
      BY <3>1, <3>2, <3>3
  <2>3. Held(balance, p)' = Held(balance, p) + balance'[u][p] - balance[u][p]
    BY <2>2, HeldStep
  <2>4. ledger'.issued[p] = IF p = q THEN ledger.issued[p] + n ELSE ledger.issued[p]
    BY DEF ContractInv, ContractTypes, Ledger
  <2>. QED
    BY <2>1, <2>2, <2>3, <2>4
<1>. QED
  BY <1>1, <1>2 DEF PacksCounted

LEMMA PacksCommit ==
  ASSUME ContractInv, ContractInv', PacksCounted, NEW u \in Users, NEW q \in Types, commitOpen(u, q)
  PROVE  PacksCounted'
<1> DEFINE c == nextCommitId + 1
           commit == [user |-> u, type |-> q]
<1>1. /\ c \in CommitIds /\ balance[u][q] >= 1
      /\ balance' = [balance EXCEPT ![u][q] = @ - 1]
      /\ commits' = [commits EXCEPT ![c] = commit]
      /\ ledger' = [ledger EXCEPT !.committed[c] = commit]
  BY DEF commitOpen
<1>2. ledger \in Ledger
  BY DEF ContractInv, ContractTypes
<1>3. c \notin 1 .. nextCommitId /\ commits[c] = NoOne /\ commit # NoOne /\ commit.type = q
  <2>1. c \notin 1 .. nextCommitId
    BY DEF ContractInv, ContractTypes
  <2>. QED
    BY <1>1, <2>1, ContractAssumption DEF ContractInv, Settled
<1> HIDE DEF c, commit
<1>4. /\ ledger'.issued = ledger.issued /\ ledger'.revealed = ledger.revealed
      /\ \A x \in CommitIds : x # c => ledger'.committed[x] = ledger.committed[x]
  BY <1>1, <1>2 DEF Ledger
<1>5. /\ commits'[c] # NoOne /\ commits'[c].type = q
      /\ \A x \in CommitIds : x # c => commits'[x] = commits[x]
  BY <1>1, <1>3 DEF ContractInv, ContractTypes, ContractTypeOK
<1>6. \A p \in Types : Opened(p)' = Opened(p)
  <2>1. \A r \in Revealed : r.message.commit # c
    BY <1>3, RevealedCommits
  <2>. QED
    BY <1>4, <2>1 DEF Opened, Revealed
<1>7. ASSUME NEW p \in Types
      PROVE  ledger.issued[p] = Held(balance, p)' + Cardinality(Pending(p)') + Cardinality(Opened(p))
  <2>1. /\ IsFiniteSet(Pending(p)) /\ Cardinality(Pending(p)) \in Nat
        /\ Cardinality(Opened(p)) \in Nat /\ Held(balance, p) \in Int
        /\ ledger.issued[p] = Held(balance, p) + Cardinality(Pending(p)) + Cardinality(Opened(p))
    BY CountsOf DEF PacksCounted
  <2>2. /\ balance[u][p] \in Nat
        /\ balance'[u][p] = IF p = q THEN balance[u][p] - 1 ELSE balance[u][p]
        /\ \A x \in Users : x # u => balance'[x][p] = balance[x][p]
    BY <1>1 DEF ContractInv, ContractTypes, ContractTypeOK
  <2>3. Held(balance, p)' = Held(balance, p) + balance'[u][p] - balance[u][p]
    BY <2>2, HeldStep
  <2>4. CASE p = q
    <3>1. Pending(p)' = Pending(p) \cup {c} /\ c \notin Pending(p)
      BY <1>1, <1>3, <1>5, <2>4 DEF Pending
    <3>2. Cardinality(Pending(p)') = Cardinality(Pending(p)) + 1
      BY <2>1, <3>1, FS_AddElement
    <3>. QED
      BY <2>1, <2>2, <2>3, <2>4, <3>2
  <2>5. CASE p # q
    <3>1. Pending(p)' = Pending(p)
      BY <1>1, <1>3, <1>5, <2>5 DEF Pending
    <3>. QED
      BY <2>1, <2>2, <2>3, <2>5, <3>1
  <2>. QED
    BY <2>4, <2>5
<1>. QED
  BY <1>4, <1>6, <1>7 DEF PacksCounted

\* The end of a reveal turns a commit that waits into one that was revealed; one
\* that another reveal has settled meanwhile stays what it is.
LEMMA PacksEnd ==
  ASSUME ContractInv, ContractInv', PacksCounted, RevealEnds
  PROVE  PacksCounted'
<1> DEFINE call == Last(calls)
           c == call.message.commit
           new == Outcome(call)
<1>1. /\ ~Idle /\ balance' = balance /\ commits' = [commits EXCEPT ![c] = NoOne]
      /\ ledger' = [ledger EXCEPT !.revealed = @ \cup {new}]
  BY DEF RevealEnds
<1>2. new.message.commit = c
  BY DEF Outcome
<1>3. call.message \in usedRevealHashes /\ call.message \in signed \cap RevealMessage
  <2>1. calls \in Seq(Call) /\ usedRevealHashes \subseteq RevealMessage
    BY DEF ContractInv, ContractTypes, ContractTypeOK
  <2>2. call = calls[Len(calls)] /\ Len(calls) \in 1 .. Len(calls)
    BY <1>1, <2>1, Topped
  <2>. QED
    BY <2>1, <2>2 DEF ContractInv, Used
<1>4. c \in CommitIds /\ c \in 1 .. nextCommitId
  BY <1>3 DEF ContractInv, Settled, RevealMessage
<1>5. /\ commits'[c] = NoOne /\ \A x \in CommitIds : x # c => commits'[x] = commits[x]
      /\ ledger'.issued = ledger.issued /\ ledger'.committed = ledger.committed
      /\ Revealed' = Revealed \cup {new}
  <2>1. ledger \in Ledger /\ commits \in [CommitIds -> Commit \cup {NoOne}]
    BY DEF ContractInv, ContractTypes, ContractTypeOK
  <2> HIDE DEF c, new
  <2>. QED
    BY <1>1, <1>4, <2>1 DEF Ledger, Revealed
<1> HIDE DEF call, c, new
<1>6. ASSUME NEW p \in Types
      PROVE  ledger.issued[p] = Held(balance, p) + Cardinality(Pending(p)') + Cardinality(Opened(p)')
  <2>1. /\ IsFiniteSet(Pending(p)) /\ Cardinality(Pending(p)) \in Nat
        /\ IsFiniteSet(Opened(p)) /\ Cardinality(Opened(p)) \in Nat
        /\ Held(balance, p) \in Int
        /\ ledger.issued[p] = Held(balance, p) + Cardinality(Pending(p)) + Cardinality(Opened(p))
    BY CountsOf DEF PacksCounted
  <2>2. Opened(p)' = IF ledger.committed[c].type = p THEN Opened(p) \cup {c} ELSE Opened(p)
    BY <1>2, <1>4, <1>5 DEF Opened
  <2>3. CASE commits[c] # NoOne
    <3>1. commits[c] = ledger.committed[c] /\ c \notin Opened(p)
      <4>1. commits[c] = ledger.committed[c]
        BY <1>4, <2>3 DEF ContractInv, Settled
      <4>2. \A r \in Revealed : r.message.commit # c
        BY <2>3 DEF ContractInv, Settled
      <4>. QED
        BY <4>1, <4>2 DEF Opened
    <3>2. CASE commits[c].type = p
      <4>1. Pending(p)' = Pending(p) \ {c} /\ c \in Pending(p)
        BY <1>4, <1>5, <2>3, <3>2 DEF Pending
      <4>2. Cardinality(Pending(p)') = Cardinality(Pending(p)) - 1
        BY <2>1, <4>1, FS_RemoveElement
      <4>3. Cardinality(Opened(p)') = Cardinality(Opened(p)) + 1
        BY <2>1, <2>2, <3>1, <3>2, FS_AddElement
      <4>. QED
        BY <2>1, <4>2, <4>3
    <3>3. CASE commits[c].type # p
      <4>1. Pending(p)' = Pending(p) /\ Opened(p)' = Opened(p)
        BY <1>4, <1>5, <2>2, <3>1, <3>3 DEF Pending
      <4>. QED
        BY <2>1, <4>1
    <3>. QED
      BY <3>2, <3>3
  <2>4. CASE commits[c] = NoOne
    <3>1. Pending(p)' = Pending(p)
      BY <1>5, <2>4 DEF Pending
    <3>2. ledger.committed[c].type = p => c \in Opened(p)
      BY <1>4, <2>4 DEF ContractInv, Settled, Opened
    <3>3. Opened(p)' = Opened(p)
      BY <2>2, <3>2
    <3>. QED
      BY <2>1, <3>1, <3>3
  <2>. QED
    BY <2>3, <2>4
<1>. QED
  BY <1>1, <1>5, <1>6 DEF PacksCounted

\* The rest moves no pack.
LEMMA PacksStay ==
  ASSUME PacksCounted, balance' = balance, commits' = commits,
         \A f \in {"issued", "revealed", "committed"} : ledger'[f] = ledger[f]
  PROVE  PacksCounted'
<1>1. /\ ledger'.issued = ledger.issued /\ ledger'.revealed = ledger.revealed
      /\ ledger'.committed = ledger.committed
  OBVIOUS
<1>2. \A p \in Types : Pending(p)' = Pending(p) /\ Opened(p)' = Opened(p)
  BY <1>1 DEF Revealed, Pending, Opened
<1>. QED
  BY <1>1, <1>2 DEF PacksCounted

LEMMA PacksNext == ContractInv /\ ContractInv' /\ PacksCounted /\ [ContractNext]_contractVars => PacksCounted'
<1> SUFFICES ASSUME ContractInv, ContractInv', PacksCounted, [ContractNext]_contractVars PROVE PacksCounted'
  OBVIOUS
<1>0. ledger \in Ledger
  BY DEF ContractInv, ContractTypes
<1>1. ASSUME NEW u \in Users, NEW p \in Types, NEW n \in Amounts, mint(u, p, n) PROVE PacksCounted'
  <2>1. /\ ledger'.issued = [ledger.issued EXCEPT ![p] = @ + n] /\ ledger'.revealed = ledger.revealed
        /\ ledger'.committed = ledger.committed
    BY <1>0, <1>1 DEF mint, Issued, Ledger
  <2>. QED
    BY <1>1, <2>1, PacksMint DEF mint
<1>2. ASSUME NEW u \in Users, NEW p \in Types, NEW n \in Amounts, NEW value, buyPack(u, p, n, value)
      PROVE  PacksCounted'
  <2>1. /\ ledger'.issued = [ledger.issued EXCEPT ![p] = @ + n] /\ ledger'.revealed = ledger.revealed
        /\ ledger'.committed = ledger.committed
    BY <1>0, <1>2 DEF buyPack, Issued, Ledger
  <2>. QED
    BY <1>2, <2>1, PacksMint DEF buyPack
<1>3. ASSUME NEW u \in Users, NEW m \in signed, claimPack(u, m) PROVE PacksCounted'
  <2>1. m.type \in Types /\ m.amount \in Amounts
    BY <1>3 DEF claimPack, ClaimMessage
  <2>2. /\ ledger'.issued = [ledger.issued EXCEPT ![m.type] = @ + m.amount]
        /\ ledger'.revealed = ledger.revealed /\ ledger'.committed = ledger.committed
    BY <1>0, <1>3 DEF claimPack, Issued, Ledger
  <2>. QED
    BY <1>3, <2>1, <2>2, PacksMint DEF claimPack
<1>4. ASSUME NEW v \in Users, NEW k \in CardIds, burn(k) \/ transferFrom(v, k) PROVE PacksCounted'
  <2>1. \A f \in {"issued", "revealed", "committed"} : ledger'[f] = ledger[f]
    BY <1>0, <1>4 DEF burn, transferFrom, Ledger
  <2>. QED
    BY <1>4, <2>1, PacksStay DEF burn, transferFrom
<1>5. CASE withdraw
  <2>1. \A f \in {"issued", "revealed", "committed"} : ledger'[f] = ledger[f]
    BY <1>0, <1>5 DEF withdraw, Ledger
  <2>. QED
    BY <1>5, <2>1, PacksStay DEF withdraw
<1>6. ASSUME NEW p, NEW price, setPackPrice(p, price) PROVE PacksCounted'
  BY <1>6, PacksStay DEF setPackPrice
<1>7. ASSUME NEW m, SignClaim(m) PROVE PacksCounted'
  BY <1>7, PacksStay DEF SignClaim
<1>8. ASSUME NEW c, NEW d, SignReveal(c, d) PROVE PacksCounted'
  BY <1>8, PacksStay DEF SignReveal
<1>9. CASE UNCHANGED contractVars
  BY <1>9, PacksStay DEF contractVars
<1>10. ASSUME NEW m, Reveal(m) PROVE PacksCounted'
  BY <1>10, PacksStay DEF Reveal
<1>11. CASE MintCard
  BY <1>11, PacksStay DEF MintCard
<1>12. ASSUME NEW k \in CardIds, burn(k) PROVE PacksCounted'
  <2>1. PICK v \in Users : TRUE
    BY <1>12 DEF burn, MayMove
  <2>. QED
    BY <1>4, <1>12
<1>. QED
  BY <1>1, <1>2, <1>3, <1>4, <1>5, <1>6, <1>7, <1>8, <1>9, <1>10, <1>11, <1>12, PacksCommit, PacksEnd
     DEF ContractNext, revealOpen, relayerRevealOpen

LEMMA CountedAccounts == PacksCounted => PacksAccounted
BY DEF PacksCounted, PacksAccounted, Held

-----------------------------------------------------------------------------
(* What is shown: the tables and their inductive invariant *)

AddBody(g, q) ==
  [s \in SUBSET DOMAIN q |-> IF s = {} THEN 0 ELSE g[s \ {Max(s)}] + q[Max(s)]]

LEMMA AddIs == ASSUME NEW q PROVE Add(q) = (CHOOSE g : g = AddBody(g, q))[DOMAIN q]
BY DEF Add, FoldLeft, MapThenFoldSet, AddBody

LEMMA LastOfRange == ASSUME NEW n \in Nat, n # 0
                     PROVE  Max(1 .. n) = n /\ (1 .. n) \ {Max(1 .. n)} = 1 .. n - 1
<1>1. 1 .. n \in SUBSET Int /\ 1 .. n # {} /\ IsFiniteSet(1 .. n)
  <2>1. 1 \in 1 .. n /\ 1 .. n \subseteq Int
    OBVIOUS
  <2>2. IsFiniteSet(1 .. n)
    BY FS_Interval
  <2> QED
    BY <2>1, <2>2
<1>2. Max(1 .. n) \in 1 .. n /\ \A x \in 1 .. n : x <= Max(1 .. n)
  BY <1>1, MaxOf
<1>3. n <= Max(1 .. n)
  BY <1>2
<1>4. Max(1 .. n) = n
  BY <1>2, <1>3
<1> QED
  BY <1>4

LEMMA AddType == ASSUME NEW q \in Seq(Nat) PROVE Add(q) \in Nat
<1> DEFINE n == Len(q)
           U == 1 .. n
           x == [s \in SUBSET U |-> Max(s)]
           F == [s \in SUBSET U |-> [a \in Nat |-> IF s = {} THEN a ELSE a + q[Max(s)]]]
<1>1. DOMAIN q = U /\ n \in Nat /\ IsFiniteSet(U)
  BY FS_Interval
<1>2. \A s \in SUBSET U : s # {} => Max(s) \in s
  <2> TAKE s \in SUBSET U
  <2> HAVE s # {}
  <2>1. s \in SUBSET Int
    BY <1>1
  <2>2. IsFiniteSet(s)
    BY <1>1, FS_Subset
  <2> QED
    BY <2>1, <2>2, MaxOf
<1>3. \E g : g = AddBody(g, q)
  <2>1. F \in [SUBSET U -> [Nat -> Nat]]
    BY <1>1, <1>2
  <2>2. Takes(x, U)
    BY <1>2 DEF Takes
  <2> HIDE DEF F, x, U
  <2>3. Foldable(0, F, x, Nat, U)
    BY <1>1, <2>1, <2>2 DEF Foldable
  <2>4. PICK g : Folded(g, 0, F, x, Nat, U)
    BY <2>3, FoldExists
  <2>5. ASSUME NEW s \in SUBSET U
        PROVE  g[s] = IF s = {} THEN 0 ELSE g[s \ {Max(s)}] + q[Max(s)]
    <3>1. g[s] = IF s = {} THEN 0 ELSE F[s][g[s \ {x[s]}]]
      BY <2>4 DEF Folded
    <3>2. x[s] = Max(s)
      BY DEF x
    <3>3. s # {} => g[s \ {Max(s)}] \in Nat
      BY <2>4 DEF Folded
    <3> QED
      BY <3>1, <3>2, <3>3 DEF F
  <2>6. g = AddBody(g, q)
    BY <1>1, <2>4, <2>5 DEF AddBody, Folded
  <2> QED
    BY <2>6
<1>4. PICK g : g = AddBody(g, q) /\ Add(q) = g[U]
  BY <1>1, <1>3, AddIs
<1>5. g[{}] = 0
  BY <1>4 DEF AddBody
<1> DEFINE T == {k \in 0 .. n : g[1 .. k] \in Nat}
<1>6. ASSUME NEW k \in 1 .. n, k - 1 \in T PROVE g[1 .. k] \in Nat
  <2>1. 1 .. k \in SUBSET U /\ 1 .. k # {} /\ k \in Nat
    BY <1>1
  <2>2. g[1 .. k] = g[1 .. k - 1] + q[k]
    <3>1. g[1 .. k] = g[(1 .. k) \ {Max(1 .. k)}] + q[Max(1 .. k)]
      <4> HIDE DEF U
      <4> QED
        BY <1>1, <1>4, <2>1 DEF AddBody
    <3>2. Max(1 .. k) = k /\ (1 .. k) \ {Max(1 .. k)} = 1 .. k - 1
      BY <2>1, LastOfRange
    <3> QED
      BY <3>1, <3>2
  <2> QED
    BY <1>1, <1>6, <2>2
<1>7. 0 \in T
  <2>1. 1 .. 0 = {}
    OBVIOUS
  <2> QED
    BY <1>1, <1>5, <2>1
<1>8. \A k \in 1 .. n : k - 1 \in T => k \in T
  BY <1>1, <1>6
<1>9. n \in T
  <2> HIDE DEF T, n
  <2> QED
    BY <1>1, <1>7, <1>8, UpTo
<1> QED
  BY <1>4, <1>9

CatalogRow == [card : Kinds, token : Nat, score : Nat]
ScoreRows == [ShownTokens -> Nat \cup {None}]

ShowTyped ==
  /\ ShowcaseTypeOK
  /\ entered \in [Tours -> [Players -> Compositions \cup {None}]]
  /\ counted \in [Tours -> ScoreRows] /\ newest \in [Tours -> ScoreRows]
  /\ result \in [Tours -> [Players -> Result \cup {None}]]
  /\ reward \in [Tours -> [Players -> Reward \cup {None}]]
  /\ catalog \in SUBSET CatalogRow /\ IsFiniteSet(catalog)
  /\ \A r, q \in catalog : r.token = TokenOfKind[r.card] /\ (r.token = q.token => r = q)

\* What a result is, whatever is switched later, and a reward, once distributed.
RankedOf(t, u) ==
  /\ entered[t][u] # None => stage[t] # "none"
  /\ result[t][u] # None => stage[t] \in {"ongoing", "finished"} /\ entered[t][u] # None
  /\ stage[t] = "finished" /\ entered[t][u] # None => result[t][u] # None
  /\ result[t][u] # None =>
       /\ result[t][u].score = Add(result[t][u].cards)
       /\ DOMAIN result[t][u].cards = DOMAIN entered[t][u]
       /\ stage[t] = "finished" /\ changes = 0 /\ t \notin late => result[t][u].cards = CardScores(t, u)
  /\ reward[t][u] # None => stage[t] = "finished"

RewardOf(t, u) ==
  t \in Distributed \ late /\ result[t][u] # None =>
    /\ reward[t][u] = None <=> result[t][u].prize = 0
    /\ reward[t][u] # None => reward[t][u].amount = result[t][u].prize

Ranks == \A t \in Tours, u \in Players : RankedOf(t, u) /\ RewardOf(t, u)

\* Only rows of runs after the end are not counted, and only tournaments that
\* were played have runs.
RowsCounted ==
  \A t \in Tours : /\ ~ over[t] => counted[t] = newest[t] /\ job[t] # "after"
                   /\ job[t] # "none" => stage[t] \in {"ongoing", "finished"}

ShowInv == ShowTyped /\ Ranks /\ RowsCounted

LEMMA ShowcaseInitInv == ShowcaseInit => ShowInv
<1> SUFFICES ASSUME ShowcaseInit PROVE ShowInv
  OBVIOUS
<1>1. catalog = {} /\ IsFiniteSet({}) /\ InCatalog = {}
  BY FS_EmptySet DEF ShowcaseInit, InCatalog
<1>2. ShowcaseTypeOK
  <2>1. \A t \in Tours, u \in Players : entered[t][u] = None /\ result[t][u] = None /\ reward[t][u] = None
    BY DEF ShowcaseInit
  <2>2. /\ bonus \in [Kinds -> Bonuses] /\ listed \subseteq Kinds /\ traded \subseteq ShownTokens
        /\ runs \in 0 .. MaxRuns /\ changes \in 0 .. MaxChanges
    BY ShowcaseAssumption DEF ShowcaseInit
  <2>3. /\ stage \in [Tours -> {"none", "registration", "ongoing", "finished"}] /\ over \in [Tours -> BOOLEAN]
        /\ job \in [Tours -> {"none", "before", "after", "scored"}] /\ late \subseteq Tours
    BY DEF ShowcaseInit
  <2> QED
    BY <1>1, <2>1, <2>2, <2>3 DEF ShowcaseTypeOK
<1>3. NoRows \in ScoreRows
  BY DEF NoRows, ScoreRows
<1>4. ShowTyped
  BY <1>1, <1>2, <1>3 DEF ShowcaseInit, ShowTyped
<1>5. Ranks /\ RowsCounted
  BY DEF ShowcaseInit, Ranks, RankedOf, RewardOf, RowsCounted
<1> QED
  BY <1>4, <1>5 DEF ShowInv

\* A step that leaves the results, the rewards and what they rest on alone.
LEMMA RanksStay ==
  ASSUME ShowInv, UNCHANGED <<entered, counted, result, reward, late>>, UNCHANGED <<bonus, changes>> \/ changes' # 0,
         \A s \in Tours : stage'[s] = "finished" <=> stage[s] = "finished",
         \A s \in Tours : stage[s] # "none" => stage'[s] # "none",
         \A s \in Tours : stage[s] = "ongoing" => stage'[s] = "ongoing"
  PROVE  Ranks'
<1> SUFFICES ASSUME NEW s \in Tours, NEW u \in Players PROVE RankedOf(s, u)' /\ RewardOf(s, u)'
  BY DEF Ranks
<1>1. UNCHANGED bonus => CardScores(s, u)' = CardScores(s, u)
  BY DEF CardScores, CardScore
<1>2. Distributed' = Distributed
  BY DEF Distributed
<1>3. RankedOf(s, u) /\ RewardOf(s, u)
  BY DEF ShowInv, Ranks
<1>4. RankedOf(s, u)'
  BY <1>1, <1>3 DEF RankedOf
<1>5. RewardOf(s, u)'
  BY <1>2, <1>3 DEF RewardOf
<1> QED
  BY <1>4, <1>5

LEMMA StageKeeps ==
  ASSUME ShowInv, NEW t \in Tours,
         ShowOpen(t) \/ ShowStart(t)
  PROVE  ShowInv'
<1>1. UNCHANGED <<over, entered, counted, newest, result, reward, job, late, runs, tableVars>>
  BY DEF ShowOpen, ShowStart
<1>2. /\ stage' \in [Tours -> {"none", "registration", "ongoing", "finished"}]
      /\ \A s \in Tours : stage'[s] = "finished" <=> stage[s] = "finished"
      /\ \A s \in Tours : stage[s] # "none" => stage'[s] # "none"
      /\ \A s \in Tours : stage[s] = "ongoing" => stage'[s] = "ongoing"
  BY DEF ShowOpen, ShowStart, ShowInv, ShowTyped, ShowcaseTypeOK
<1>3. ShowTyped'
  BY <1>1, <1>2 DEF ShowInv, ShowTyped, ShowcaseTypeOK, InCatalog
<1>4. Ranks'
  BY <1>1, <1>2, RanksStay
<1>5. RowsCounted'
  BY <1>1, <1>2 DEF ShowInv, RowsCounted
<1> QED
  BY <1>3, <1>4, <1>5 DEF ShowInv

LEMMA EnterKeeps ==
  ASSUME ShowInv, NEW t \in Tours, NEW u \in Players, NEW d \in Compositions, ShowEnter(t, u, d)
  PROVE  ShowInv'
<1>1. /\ UNCHANGED <<stage, over, counted, newest, result, reward, job, late, runs, tableVars>>
      /\ entered' = [entered EXCEPT ![t][u] = d] /\ stage[t] = "registration"
  BY DEF ShowEnter
<1>2. /\ entered \in [Tours -> [Players -> Compositions \cup {None}]]
      /\ entered' \in [Tours -> [Players -> Compositions \cup {None}]]
      /\ \A s \in Tours : s # t => entered'[s] = entered[s]
      /\ \A v \in Players : v # u => entered'[t][v] = entered[t][v]
      /\ entered'[t][u] = d /\ d # None
  BY <1>1, ShowcaseAssumption DEF ShowInv, ShowTyped
<1>3. \A v \in Players : result[t][v] = None /\ reward[t][v] = None
  BY <1>1 DEF ShowInv, Ranks, RankedOf
<1>4. ShowcaseTypeOK'
  BY <1>1, <1>2, <1>3 DEF ShowInv, ShowTyped, ShowcaseTypeOK, InCatalog
<1>5. ShowTyped'
  BY <1>1, <1>2, <1>4 DEF ShowInv, ShowTyped
<1>6. \A s \in Tours, v \in Players : s # t => CardScores(s, v)' = CardScores(s, v)
  BY <1>1, <1>2 DEF CardScores, CardScore
<1>7. Ranks' /\ RowsCounted'
  <2>0. Distributed' = Distributed
    BY <1>1 DEF Distributed
  <2>1. ASSUME NEW s \in Tours, NEW v \in Players PROVE RankedOf(s, v)' /\ RewardOf(s, v)'
    <3>1. CASE s # t
      BY <1>1, <1>2, <1>6, <2>0, <3>1 DEF ShowInv, Ranks, RankedOf, RewardOf
    <3>2. CASE s = t
      BY <1>1, <1>3, <3>2 DEF RankedOf, RewardOf
    <3> QED
      BY <3>1, <3>2
  <2> QED
    BY <1>1, <2>1 DEF ShowInv, Ranks, RowsCounted
<1> QED
  BY <1>5, <1>7 DEF ShowInv

LEMMA OverKeeps ==
  ASSUME ShowInv, NEW t \in Tours, ShowOver(t)
  PROVE  ShowInv'
<1>1. /\ UNCHANGED <<stage, entered, counted, newest, result, reward, job, late, runs, tableVars>>
      /\ over' = [over EXCEPT ![t] = TRUE]
  BY DEF ShowOver
<1>2. /\ over' \in [Tours -> BOOLEAN] /\ \A s \in Tours : ~ over'[s] => ~ over[s]
  BY <1>1 DEF ShowInv, ShowTyped, ShowcaseTypeOK
<1>3. ShowTyped'
  BY <1>1, <1>2 DEF ShowInv, ShowTyped, ShowcaseTypeOK, InCatalog
<1>4. Ranks'
  BY <1>1, RanksStay
<1>5. RowsCounted'
  BY <1>1, <1>2 DEF ShowInv, RowsCounted
<1> QED
  BY <1>3, <1>4, <1>5 DEF ShowInv

LEMMA RunKeeps ==
  ASSUME ShowInv, NEW t \in Tours, ShowRun(t)
  PROVE  ShowInv'
<1>1. /\ UNCHANGED <<stage, over, entered, counted, newest, result, reward, late, tableVars>>
      /\ stage[t] = "ongoing" /\ runs < MaxRuns /\ runs' = runs + 1
      /\ job' = [job EXCEPT ![t] = IF over[t] THEN "after" ELSE "before"]
  BY DEF ShowRun
<1>2. /\ job \in [Tours -> {"none", "before", "after", "scored"}]
      /\ job' \in [Tours -> {"none", "before", "after", "scored"}]
      /\ \A s \in Tours : s # t => job'[s] = job[s]
      /\ job'[t] = IF over[t] THEN "after" ELSE "before"
  BY <1>1 DEF ShowInv, ShowTyped, ShowcaseTypeOK
<1>3. runs' \in 0 .. MaxRuns
  BY <1>1, ShowcaseAssumption DEF ShowInv, ShowTyped, ShowcaseTypeOK
<1>4. ShowTyped'
  BY <1>1, <1>2, <1>3 DEF ShowInv, ShowTyped, ShowcaseTypeOK, InCatalog
<1>5. Ranks'
  BY <1>1, RanksStay
<1>6. RowsCounted'
  BY <1>1, <1>2 DEF ShowInv, RowsCounted
<1> QED
  BY <1>4, <1>5, <1>6 DEF ShowInv

LEMMA ScoreKeeps ==
  ASSUME ShowInv, NEW t \in Tours, NEW b \in Batches, ShowScore(t, b)
  PROVE  ShowInv'
<1> DEFINE last(rows) == [k \in ShownTokens |-> IF b[k] = None THEN rows[k] ELSE b[k]]
<1>1. /\ UNCHANGED <<stage, over, entered, result, reward, runs, tableVars>>
      /\ job[t] \in {"before", "after"} /\ job' = [job EXCEPT ![t] = "scored"]
      /\ late' = IF stage[t] = "finished" THEN late \cup {t} ELSE late
      /\ newest' = [newest EXCEPT ![t] = last(newest[t])]
      /\ counted' = IF job[t] = "after" THEN counted ELSE [counted EXCEPT ![t] = last(counted[t])]
  BY DEF ShowScore, IfFinished
<1>2. \A rows \in ScoreRows : last(rows) \in ScoreRows
  BY ShowcaseAssumption DEF ScoreRows
<1>3. counted[t] \in ScoreRows /\ newest[t] \in ScoreRows
  BY DEF ShowInv, ShowTyped
<1>4. /\ counted' \in [Tours -> ScoreRows] /\ newest' \in [Tours -> ScoreRows]
      /\ \A s \in Tours : s # t => counted'[s] = counted[s] /\ newest'[s] = newest[s]
      /\ job[t] # "after" => counted'[t] = last(counted[t]) /\ newest'[t] = last(newest[t])
  <2>1. last(counted[t]) \in ScoreRows /\ last(newest[t]) \in ScoreRows
    BY <1>2, <1>3
  <2> HIDE DEF last
  <2> QED
    BY <1>1, <2>1 DEF ShowInv, ShowTyped
<1> HIDE DEF last
<1>5. /\ job' \in [Tours -> {"none", "before", "after", "scored"}] /\ late' \subseteq Tours
      /\ job'[t] = "scored" /\ \A s \in Tours : s # t => job'[s] = job[s] /\ (s \in late' <=> s \in late)
      /\ stage[t] \in {"ongoing", "finished"}
  BY <1>1 DEF ShowInv, ShowTyped, ShowcaseTypeOK, RowsCounted
<1>6. ShowTyped'
  BY <1>1, <1>4, <1>5 DEF ShowInv, ShowTyped, ShowcaseTypeOK, InCatalog
<1>7. \A s \in Tours, u \in Players : s # t => CardScores(s, u)' = CardScores(s, u)
  BY <1>1, <1>4 DEF CardScores, CardScore
<1>8. Ranks'
  <2> SUFFICES ASSUME NEW s \in Tours, NEW v \in Players PROVE RankedOf(s, v)' /\ RewardOf(s, v)'
    BY DEF Ranks
  <2>0. Distributed' = Distributed
    BY <1>1 DEF Distributed
  <2>1. CASE s # t
    BY <1>1, <1>5, <1>7, <2>0, <2>1 DEF ShowInv, Ranks, RankedOf, RewardOf
  <2>2. CASE s = t
    <3>1. RankedOf(t, v) /\ (stage[t] = "finished" => t \in late') /\ (stage[t] # "finished" => late' = late)
      BY <1>1, <2>2 DEF ShowInv, Ranks
    <3>2. RankedOf(t, v)'
      BY <1>1, <3>1 DEF RankedOf
    <3>3. reward[t][v] = None \/ t \in late'
      BY <3>1 DEF RankedOf
    <3>4. RewardOf(t, v)
      BY <2>2 DEF ShowInv, Ranks
    <3>5. RewardOf(t, v)'
      BY <1>1, <2>0, <3>1, <3>4 DEF RewardOf
    <3> QED
      BY <2>2, <3>2, <3>5
  <2> QED
    BY <2>1, <2>2
<1>9. RowsCounted'
  BY <1>1, <1>4, <1>5 DEF ShowInv, RowsCounted
<1> QED
  BY <1>6, <1>8, <1>9 DEF ShowInv

LEMMA ClaimRewardKeeps ==
  ASSUME ShowInv, NEW t \in Tours, NEW u \in Players, ShowClaim(t, u)
  PROVE  ShowInv'
<1>1. /\ UNCHANGED <<stage, over, entered, counted, newest, result, job, late, runs, tableVars>>
      /\ reward[t][u] # None /\ reward' = [reward EXCEPT ![t][u].status = "claimed"]
  BY DEF ShowClaim
<1> DEFINE paid == [reward[t][u] EXCEPT !.status = "claimed"]
<1>2. reward[t][u] \in Reward /\ reward \in [Tours -> [Players -> Reward \cup {None}]]
  BY <1>1 DEF ShowInv, ShowTyped
<1>3. paid \in Reward /\ paid.amount = reward[t][u].amount
  BY <1>2 DEF Reward
<1>4. paid # None
  BY <1>3, ShowcaseAssumption
<1>5. reward' = [reward EXCEPT ![t] = [reward[t] EXCEPT ![u] = paid]]
  BY <1>1
<1> HIDE DEF paid
<1>6. /\ reward' \in [Tours -> [Players -> Reward \cup {None}]] /\ reward'[t][u] = paid
      /\ \A s \in Tours : s # t => reward'[s] = reward[s]
      /\ \A v \in Players : v # u => reward'[t][v] = reward[t][v]
  BY <1>2, <1>3, <1>5
<1>7. \A s \in Tours, v \in Players : reward'[s][v] # None <=> reward[s][v] # None
  BY <1>1, <1>4, <1>6
<1>8. \A s \in Tours, v \in Players : reward'[s][v] # None => reward'[s][v].amount = reward[s][v].amount
  BY <1>1, <1>3, <1>6
<1>9. ShowTyped'
  BY <1>1, <1>6, <1>7 DEF ShowInv, ShowTyped, ShowcaseTypeOK, InCatalog
<1>10. \A s \in Tours, v \in Players : CardScores(s, v)' = CardScores(s, v)
  BY <1>1 DEF CardScores, CardScore
<1>11. Distributed' = Distributed
  BY <1>7 DEF Distributed
<1>12. Ranks'
  BY <1>1, <1>7, <1>8, <1>10, <1>11 DEF ShowInv, Ranks, RankedOf, RewardOf
<1>13. RowsCounted'
  BY <1>1 DEF ShowInv, RowsCounted
<1> QED
  BY <1>9, <1>12, <1>13 DEF ShowInv

LEMMA EditKeeps ==
  ASSUME ShowInv, ShowEdit
  PROVE  ShowInv'
<1>1. UNCHANGED <<stage, over, entered, counted, newest, result, reward, job, late, runs, catalog>>
  BY DEF ShowEdit
<1>2. changes' \in 0 .. MaxChanges /\ changes' # 0
  BY ShowcaseAssumption DEF ShowEdit, ShowInv, ShowTyped, ShowcaseTypeOK
<1>3. listed' \subseteq Kinds /\ bonus' \in [Kinds -> Bonuses] /\ traded' \subseteq ShownTokens
  <2>1. /\ listed \subseteq Kinds /\ bonus \in [Kinds -> Bonuses] /\ Touched \subseteq Kinds
        /\ traded \subseteq ShownTokens
    BY ShowcaseAssumption DEF ShowInv, ShowTyped, ShowcaseTypeOK
  <2>2. CASE \E c \in Touched : listed' = SymDiff(listed, {c}) /\ UNCHANGED <<bonus, traded>>
    BY <2>1, <2>2 DEF SymDiff
  <2>3. CASE \E c \in Touched, b \in Bonuses : bonus' = [bonus EXCEPT ![c] = b] /\ UNCHANGED <<listed, traded>>
    BY <2>1, <2>3
  <2>4. CASE \E k \in ShownTokens : traded' = SymDiff(traded, {k}) /\ UNCHANGED <<listed, bonus>>
    BY <2>1, <2>4 DEF SymDiff
  <2> QED
    BY <2>2, <2>3, <2>4 DEF ShowEdit
<1>4. ShowTyped'
  BY <1>1, <1>2, <1>3 DEF ShowInv, ShowTyped, ShowcaseTypeOK, InCatalog
<1>5. Ranks'
  BY <1>1, <1>2, RanksStay
<1>6. RowsCounted'
  BY <1>1 DEF ShowInv, RowsCounted
<1> QED
  BY <1>4, <1>5, <1>6 DEF ShowInv

-----------------------------------------------------------------------------
LEMMA ScoresType ==
  ASSUME ShowInv, NEW t \in Tours, NEW u \in Players, entered[t][u] # None
  PROVE  /\ entered[t][u] \in Seq(Kinds) /\ CardScores(t, u) \in Seq(Nat)
         /\ Add(CardScores(t, u)) \in Nat
<1>1. entered[t][u] \in Seq(Kinds)
  BY ShowcaseAssumption DEF ShowInv, ShowTyped, ShowcaseTypeOK
<1>2. \A c \in Kinds : CardScore(t, c) \in Nat
  <2> SUFFICES ASSUME NEW c \in Kinds PROVE CardScore(t, c) \in Nat
    OBVIOUS
  <2>1. bonus[c] \in Nat
    BY ShowcaseAssumption DEF ShowInv, ShowTyped, ShowcaseTypeOK
  <2>2. counted[t][TokenOfKind[c]] \in Nat \cup {None}
    <3>1. TokenOfKind[c] \in ShownTokens /\ counted[t] \in ScoreRows
      BY DEF ShowInv, ShowTyped, ShownTokens
    <3> QED
      BY <3>1 DEF ScoreRows
  <2> QED
    BY <2>1, <2>2 DEF CardScore
<1>3. CardScores(t, u) \in Seq(Nat)
  <2>1. PICK n \in Nat : n = Len(entered[t][u]) /\ DOMAIN entered[t][u] = 1 .. n
    BY <1>1
  <2>2. \A i \in 1 .. n : entered[t][u][i] \in Kinds
    BY <1>1, <2>1
  <2>3. CardScores(t, u) \in [1 .. n -> Nat]
    BY <1>2, <2>1, <2>2 DEF CardScores
  <2> QED
    BY <2>3, SeqDef
<1> QED
  BY <1>1, <1>3, AddType

\* The places that are shared are places of the purse.
LEMMA RankedType ==
  ASSUME ShowInv, NEW t \in Tours, NEW u \in Entrants(t)
  PROVE  /\ Ranked(t, u) \in Result
         /\ Ranked(t, u).cards = CardScores(t, u)
         /\ Ranked(t, u).score = Add(CardScores(t, u))
<1> DEFINE A == Above(t, u)
           L == Level(t, u)
           a == Cardinality(A)
           l == Cardinality(L)
           won == SubSeq(Purse, a + 1, a + 1 + l - 1)
<1>1. u \in Players /\ entered[t][u] # None
  BY DEF Entrants
<1>2. A \subseteq Players /\ L \subseteq Players /\ u \in L
  BY <1>1 DEF Above, Level, Entrants
<1>3. A \cap L = {}
  <2>1. \A v \in Entrants(t) : Add(CardScores(t, v)) \in Nat
    BY ScoresType DEF Entrants
  <2> QED
    BY <2>1 DEF Above, Level
<1>4. IsFiniteSet(A) /\ IsFiniteSet(L) /\ IsFiniteSet(Players) /\ a \in Nat /\ l \in Nat
  BY <1>2, FS_Subset, FS_CardinalityType, ShowcaseAssumption
<1>5. a + l <= Len(Purse) /\ Len(Purse) \in Nat
  <2> HIDE DEF A, L
  <2>1. Cardinality(A \cup L) = a + l
    <3>1. Cardinality(A \cap L) = 0
      BY <1>3, FS_EmptySet
    <3>2. Cardinality(A \cup L) = Cardinality(A) + Cardinality(L) - Cardinality(A \cap L)
      BY <1>4, FS_Union
    <3> QED
      BY <1>4, <3>1, <3>2
  <2>2. Cardinality(A \cup L) <= Cardinality(Players) /\ Cardinality(Players) \in Nat
    BY <1>2, <1>4, FS_Subset, FS_CardinalityType
  <2> QED
    BY <1>4, <2>1, <2>2, ShowcaseAssumption
<1>6. l >= 1
  <2> HIDE DEF L
  <2> QED
    BY <1>2, <1>4, FS_EmptySet
<1> HIDE DEF a, l
<1>7. won \in Seq(Nat)
  <2>1. \A i \in a + 1 .. a + 1 + l - 1 : Purse[i] \in Nat
    BY <1>4, <1>5, ShowcaseAssumption
  <2>2. a + 1 \in Int /\ a + 1 + l - 1 \in Int
    BY <1>4
  <2> QED
    BY <2>1, <2>2, SubSeqProperties
<1> HIDE DEF won
<1>8. Add(won) \in Nat
  BY <1>7, AddType
<1>9. Add(won) \div l \in Nat
  BY <1>4, <1>6, <1>8
<1>10. a + 1 \in Nat \ {0}
  BY <1>4
<1>11. CardScores(t, u) \in Seq(Nat) /\ Add(CardScores(t, u)) \in Nat
  BY <1>1, ScoresType
<1>12. Ranked(t, u) = [position |-> a + 1, score |-> Add(CardScores(t, u)), cards |-> CardScores(t, u),
                       prize |-> Add(won) \div l]
  BY DEF Ranked, a, l, won
<1> QED
  BY <1>9, <1>10, <1>11, <1>12 DEF Result

\* What calculate_results makes of the decks.
LEMMA ResultsGiven ==
  ASSUME ShowInv, NEW t \in Tours, calculate_results(t)
  PROVE  /\ result' \in [Tours -> [Players -> Result \cup {None}]]
         /\ \A s \in Tours : s # t => result'[s] = result[s]
         /\ \A u \in Players : entered[t][u] = None => result'[t][u] = None
         /\ \A u \in Players : entered[t][u] # None =>
              /\ result'[t][u] # None /\ result'[t][u].cards = CardScores(t, u)
              /\ result'[t][u].score = Add(result'[t][u].cards)
              /\ DOMAIN result'[t][u].cards = DOMAIN entered[t][u]
<1> DEFINE given == [u \in Players |-> IF u \in Entrants(t) THEN Ranked(t, u) ELSE None]
<1>1. result' = [result EXCEPT ![t] = given]
  BY DEF calculate_results
<1>2. \A u \in Entrants(t) : /\ Ranked(t, u) \in Result
                             /\ Ranked(t, u).cards = CardScores(t, u)
                             /\ Ranked(t, u).score = Add(CardScores(t, u))
  BY RankedType
<1>3. /\ given \in [Players -> Result \cup {None}]
      /\ \A u \in Players : u \in Entrants(t) <=> entered[t][u] # None
      /\ \A u \in Players : entered[t][u] # None => given[u] = Ranked(t, u)
      /\ \A u \in Players : entered[t][u] = None => given[u] = None
  BY <1>2 DEF Entrants
<1> HIDE DEF given
<1>4. /\ result' \in [Tours -> [Players -> Result \cup {None}]] /\ result'[t] = given
      /\ \A s \in Tours : s # t => result'[s] = result[s]
  BY <1>1, <1>3 DEF ShowInv, ShowTyped
<1>5. ASSUME NEW u \in Players, entered[t][u] # None
      PROVE  /\ result'[t][u] # None /\ result'[t][u].cards = CardScores(t, u)
             /\ result'[t][u].score = Add(result'[t][u].cards)
             /\ DOMAIN result'[t][u].cards = DOMAIN entered[t][u]
  <2>1. result'[t][u] = Ranked(t, u) /\ u \in Entrants(t)
    BY <1>3, <1>4, <1>5
  <2>2. DOMAIN CardScores(t, u) = DOMAIN entered[t][u]
    BY DEF CardScores
  <2> QED
    BY <1>2, <2>1, <2>2, ShowcaseAssumption
<1> QED
  BY <1>3, <1>4, <1>5

\* A run of the price job, or the end, ranks the decks.
LEMMA RankingKeeps ==
  ASSUME ShowInv, NEW t \in Tours, ShowFinish(t) \/ ShowRank(t)
  PROVE  ShowInv'
<1>1. UNCHANGED <<over, entered, counted, newest, reward, runs, tableVars>> /\ calculate_results(t)
  BY DEF ShowFinish, ShowRank
<1>2. /\ stage' \in [Tours -> {"none", "registration", "ongoing", "finished"}]
      /\ stage[t] \in {"ongoing", "finished"} /\ stage'[t] \in {"ongoing", "finished"}
      /\ \A s \in Tours : s # t => stage'[s] = stage[s] /\ (s \in late' <=> s \in late)
      /\ job' \in [Tours -> {"none", "before", "after", "scored"}] /\ late' \subseteq Tours
      /\ \A s \in Tours : s # t => job'[s] = job[s]
      /\ job'[t] \in {"none", job[t]}
      /\ stage[t] = "finished" => stage'[t] = "finished" /\ t \in late'
  <2>1. stage \in [Tours -> {"none", "registration", "ongoing", "finished"}] /\ late \subseteq Tours
        /\ job \in [Tours -> {"none", "before", "after", "scored"}]
    BY DEF ShowInv, ShowTyped, ShowcaseTypeOK
  <2>2. CASE ShowFinish(t)
    BY <2>1, <2>2 DEF ShowFinish
  <2>3. CASE ShowRank(t)
    <3>1. stage[t] \in {"ongoing", "finished"}
      BY <2>3 DEF ShowRank, ShowInv, RowsCounted
    <3> QED
      BY <2>1, <2>3, <3>1 DEF ShowRank, IfFinished
  <2> QED
    BY <2>2, <2>3
<1>3. /\ result' \in [Tours -> [Players -> Result \cup {None}]]
      /\ \A s \in Tours : s # t => result'[s] = result[s]
      /\ \A u \in Players : entered[t][u] = None => result'[t][u] = None
      /\ \A u \in Players : entered[t][u] # None =>
           /\ result'[t][u] # None /\ result'[t][u].cards = CardScores(t, u)
           /\ result'[t][u].score = Add(result'[t][u].cards)
           /\ DOMAIN result'[t][u].cards = DOMAIN entered[t][u]
  BY <1>1, ResultsGiven
<1>4. \A s \in Tours, u \in Players : RankedOf(s, u) /\ RewardOf(s, u)
  BY DEF ShowInv, Ranks
<1>5. \A s \in Tours, u \in Players : CardScores(s, u)' = CardScores(s, u)
  BY <1>1 DEF CardScores, CardScore
<1>6. \A s \in Tours, u \in Players :
        /\ result'[s][u] # None => entered[s][u] # None
        /\ reward[s][u] # None => result'[s][u] # None
  <2> SUFFICES ASSUME NEW s \in Tours, NEW u \in Players
               PROVE  /\ result'[s][u] # None => entered[s][u] # None
                      /\ reward[s][u] # None => result'[s][u] # None
    OBVIOUS
  <2>1. /\ result[s][u] # None => entered[s][u] # None
        /\ reward[s][u] # None => result[s][u] # None
    BY DEF ShowInv, ShowTyped, ShowcaseTypeOK
  <2> QED
    BY <1>3, <2>1
<1>7. ShowTyped'
  BY <1>1, <1>2, <1>3, <1>6 DEF ShowInv, ShowTyped, ShowcaseTypeOK, InCatalog
<1>8. Ranks'
  <2> SUFFICES ASSUME NEW s \in Tours, NEW u \in Players PROVE RankedOf(s, u)' /\ RewardOf(s, u)'
    BY DEF Ranks
  <2>0. Distributed' = Distributed
    BY <1>1 DEF Distributed
  <2>1. CASE s # t
    BY <1>1, <1>2, <1>3, <1>4, <1>5, <2>0, <2>1 DEF RankedOf, RewardOf
  <2>2. CASE s = t
    <3>1. RankedOf(t, u)'
      BY <1>1, <1>2, <1>3, <1>4, <1>5, <2>2 DEF RankedOf
    <3>2. t \in Distributed => stage[t] = "finished"
      BY <1>4 DEF Distributed, RankedOf
    <3>3. RewardOf(t, u)'
      BY <1>2, <2>0, <3>2 DEF RewardOf
    <3> QED
      BY <2>2, <3>1, <3>3
  <2> QED
    BY <2>1, <2>2
<1>9. RowsCounted'
  BY <1>1, <1>2 DEF ShowInv, RowsCounted
<1> QED
  BY <1>7, <1>8, <1>9 DEF ShowInv

LEMMA RewardKeeps ==
  ASSUME ShowInv, NEW t \in Tours, ShowReward(t)
  PROVE  ShowInv'
<1> DEFINE won(u) == result[t][u] # None /\ result[t][u].prize > 0
           paid == [u \in Players |-> IF won(u) THEN [amount |-> result[t][u].prize, status |-> "pending"] ELSE None]
<1>1. /\ UNCHANGED <<stage, over, entered, counted, newest, result, job, late, runs, tableVars>>
      /\ stage[t] = "finished" /\ reward' = [reward EXCEPT ![t] = paid]
  BY DEF ShowReward
<1>2. \A u \in Players : result[t][u] # None => result[t][u].prize \in Nat
  BY DEF ShowInv, ShowTyped, ShowcaseTypeOK, Result
<1>3. \A u \in Players : won(u) => /\ paid[u] \in Reward /\ paid[u] # None
                                   /\ paid[u].amount = result[t][u].prize
  <2> SUFFICES ASSUME NEW u \in Players, won(u)
               PROVE  paid[u] \in Reward /\ paid[u] # None /\ paid[u].amount = result[t][u].prize
    OBVIOUS
  <2>1. paid[u] = [amount |-> result[t][u].prize, status |-> "pending"]
    OBVIOUS
  <2>2. result[t][u].prize \in Nat
    BY <1>2
  <2> HIDE DEF paid
  <2>3. paid[u] \in Reward
    BY <2>1, <2>2 DEF Reward
  <2> QED
    BY <2>1, <2>3, ShowcaseAssumption
<1>4. /\ paid \in [Players -> Reward \cup {None}]
      /\ \A u \in Players : ~ won(u) => paid[u] = None
  BY <1>3
<1> HIDE DEF paid
<1>5. /\ reward' \in [Tours -> [Players -> Reward \cup {None}]] /\ reward'[t] = paid
      /\ \A s \in Tours : s # t => reward'[s] = reward[s]
  BY <1>1, <1>4 DEF ShowInv, ShowTyped
<1>6. \A s \in Tours, u \in Players : reward'[s][u] # None => result[s][u] # None
  <2>1. \A s \in Tours, u \in Players : reward[s][u] # None => result[s][u] # None
    BY DEF ShowInv, ShowTyped, ShowcaseTypeOK
  <2>2. \A u \in Players : reward'[t][u] # None => result[t][u] # None
    BY <1>4, <1>5
  <2> QED
    BY <1>5, <2>1, <2>2
<1>7. ShowTyped'
  BY <1>1, <1>5, <1>6 DEF ShowInv, ShowTyped, ShowcaseTypeOK, InCatalog
<1>8. \A s \in Tours, u \in Players : CardScores(s, u)' = CardScores(s, u)
  BY <1>1 DEF CardScores, CardScore
<1>9. Ranks'
  <2> SUFFICES ASSUME NEW s \in Tours, NEW u \in Players PROVE RankedOf(s, u)' /\ RewardOf(s, u)'
    BY DEF Ranks
  <2>1. RankedOf(s, u) /\ RewardOf(s, u)
    BY DEF ShowInv, Ranks
  <2>2. CASE s # t
    <3>1. s \in Distributed' <=> s \in Distributed
      BY <1>5, <2>2 DEF Distributed
    <3> QED
      BY <1>1, <1>5, <1>8, <2>1, <2>2, <3>1 DEF RankedOf, RewardOf
  <2>3. CASE s = t
    <3>1. RankedOf(t, u)'
      BY <1>1, <1>8, <2>1, <2>3 DEF RankedOf
    <3>2. RewardOf(t, u)'
      BY <1>1, <1>2, <1>3, <1>4, <1>5 DEF RewardOf
    <3> QED
      BY <2>3, <3>1, <3>2
  <2> QED
    BY <2>2, <2>3
<1>10. RowsCounted'
  BY <1>1 DEF ShowInv, RowsCounted
<1> QED
  BY <1>7, <1>9, <1>10 DEF ShowInv

-----------------------------------------------------------------------------
\* The tournament the view is about.
LEMMA NewestOpen == ASSUME OpenTours # {} PROVE Max(OpenTours) \in OpenTours /\ Max(OpenTours) \in Tours
<1>1. OpenTours \in SUBSET Int /\ OpenTours \subseteq Tours
  <2>1. OpenTours \subseteq Tours /\ Tours \subseteq Nat
    BY ShowcaseAssumption DEF OpenTours
  <2>2. Nat \subseteq Int
    OBVIOUS
  <2> QED
    BY <2>1, <2>2
<1>2. IsFiniteSet(OpenTours)
  BY <1>1, FS_Subset, ShowcaseAssumption
<1> QED
  BY <1>1, <1>2, MaxOf

LEMMA RefreshKeeps ==
  ASSUME ShowInv, refresh_active_cards_view
  PROVE  ShowInv'
<1>1. /\ UNCHANGED <<tourVars, listed, bonus, traded, changes>>
      /\ catalog' = active_cards_with_score
      /\ \A c, d \in listed : TokenOfKind[c] = TokenOfKind[d] => c = d
  BY DEF refresh_active_cards_view
<1> DEFINE score(c) == IF OpenTours = {} THEN 0 ELSE Live(Max(OpenTours), c)
<1>2. active_cards_with_score = {[card |-> c, token |-> TokenOfKind[c], score |-> score(c)] : c \in listed}
  BY DEF active_cards_with_score
<1>3. listed \subseteq Kinds /\ IsFiniteSet(listed)
  BY FS_Subset, ShowcaseAssumption DEF ShowInv, ShowTyped, ShowcaseTypeOK
<1>4. \A c \in listed : score(c) \in Nat /\ TokenOfKind[c] \in Nat
  <2> SUFFICES ASSUME NEW c \in listed PROVE score(c) \in Nat /\ TokenOfKind[c] \in Nat
    OBVIOUS
  <2>1. c \in Kinds /\ TokenOfKind[c] \in Nat /\ bonus[c] \in Nat
    BY <1>3, ShowcaseAssumption DEF ShowInv, ShowTyped, ShowcaseTypeOK
  <2>2. ASSUME NEW t \in Tours PROVE Live(t, c) \in Nat
    <3>1. TokenOfKind[c] \in ShownTokens /\ newest[t] \in ScoreRows
      BY <2>1 DEF ShowInv, ShowTyped, ShownTokens
    <3>2. newest[t][TokenOfKind[c]] \in Nat \cup {None}
      BY <3>1 DEF ScoreRows
    <3> QED
      BY <2>1, <3>2 DEF Live
  <2>3. OpenTours # {} => Max(OpenTours) \in Tours
    BY NewestOpen
  <2> QED
    BY <2>1, <2>2, <2>3
<1> HIDE DEF score
<1>5. catalog' \in SUBSET CatalogRow /\ IsFiniteSet(catalog')
  <2>1. \A c \in listed : [card |-> c, token |-> TokenOfKind[c], score |-> score(c)] \in CatalogRow
    BY <1>3, <1>4 DEF CatalogRow
  <2>2. catalog' = {[card |-> c, token |-> TokenOfKind[c], score |-> score(c)] : c \in listed}
    BY <1>1, <1>2
  <2>3. IsFiniteSet({[card |-> c, token |-> TokenOfKind[c], score |-> score(c)] : c \in listed})
    <3> DEFINE row == [c \in listed |-> [card |-> c, token |-> TokenOfKind[c], score |-> score(c)]]
               T == {[card |-> c, token |-> TokenOfKind[c], score |-> score(c)] : c \in listed}
    <3>1. row \in Surjection(listed, T)
      <4>1. row \in [listed -> T] /\ \A r \in T : \E c \in listed : row[c] = r
        OBVIOUS
      <4> HIDE DEF row, T
      <4> QED
        BY <4>1 DEF Surjection
    <3> HIDE DEF row
    <3> QED
      BY <1>3, <3>1, FS_Surjection
  <2> QED
    BY <2>1, <2>2, <2>3
<1>6. \A r \in catalog' : \E c \in listed : r = [card |-> c, token |-> TokenOfKind[c], score |-> score(c)]
  BY <1>1, <1>2
<1>7. \A r, q \in catalog' : r.token = TokenOfKind[r.card] /\ (r.token = q.token => r = q)
  <2> SUFFICES ASSUME NEW r \in catalog', NEW q \in catalog'
               PROVE  r.token = TokenOfKind[r.card] /\ (r.token = q.token => r = q)
    OBVIOUS
  <2>1. PICK c \in listed : r = [card |-> c, token |-> TokenOfKind[c], score |-> score(c)]
    BY <1>6
  <2>2. PICK d \in listed : q = [card |-> d, token |-> TokenOfKind[d], score |-> score(d)]
    BY <1>6
  <2> QED
    BY <1>1, <2>1, <2>2
<1>8. \A r \in catalog' : r.card \in Kinds
  BY <1>3, <1>6
<1>9. ShowTyped'
  BY <1>1, <1>5, <1>7, <1>8 DEF ShowInv, ShowTyped, ShowcaseTypeOK, InCatalog
<1>10. Ranks'
  BY <1>1, RanksStay
<1>11. RowsCounted'
  BY <1>1 DEF ShowInv, RowsCounted
<1> QED
  BY <1>9, <1>10, <1>11 DEF ShowInv

LEMMA ShowcaseNextInv == ShowInv /\ [ShowcaseNext]_showVars => ShowInv'
<1> SUFFICES ASSUME ShowInv, [ShowcaseNext]_showVars PROVE ShowInv'
  OBVIOUS
<1>1. CASE \E t \in Tours : ShowOpen(t) \/ ShowStart(t)
  BY <1>1, StageKeeps
<1>2. CASE \E t \in Tours, u \in Players, d \in Compositions : ShowEnter(t, u, d)
  BY <1>2, EnterKeeps
<1>3. CASE \E t \in Tours : ShowOver(t)
  BY <1>3, OverKeeps
<1>4. CASE \E t \in Tours : ShowRun(t) \/ ShowReward(t) \/ \E b \in Batches : ShowScore(t, b)
  BY <1>4, RunKeeps, RewardKeeps, ScoreKeeps
<1>5. CASE \E t \in Tours : ShowFinish(t) \/ ShowRank(t)
  BY <1>5, RankingKeeps
<1>6. CASE \E t \in Tours, u \in Players : ShowClaim(t, u)
  BY <1>6, ClaimRewardKeeps
<1>7. CASE ShowEdit
  BY <1>7, EditKeeps
<1>8. CASE refresh_active_cards_view
  BY <1>8, RefreshKeeps
<1>9. CASE UNCHANGED showVars
  <2>1. ShowTyped'
    BY <1>9 DEF showVars, ShowInv, ShowTyped, ShowcaseTypeOK, InCatalog
  <2>2. Ranks'
    BY <1>9, RanksStay DEF showVars
  <2>3. RowsCounted'
    BY <1>9 DEF showVars, ShowInv, RowsCounted
  <2> QED
    BY <2>1, <2>2, <2>3 DEF ShowInv
<1> QED
  BY <1>1, <1>2, <1>3, <1>4, <1>5, <1>6, <1>7, <1>8, <1>9 DEF ShowcaseNext

LEMMA ShowcaseAlways == ShowcaseSpec => []ShowInv
<1>1. ShowcaseInit => ShowInv
  BY ShowcaseInitInv
<1>2. ShowInv /\ [ShowcaseNext]_showVars => ShowInv'
  BY ShowcaseNextInv
<1> QED
  BY <1>1, <1>2, PTL DEF ShowcaseSpec

-----------------------------------------------------------------------------
(* What is shown: a deck as it was ranked *)

LEMMA RanksShown == ShowInv => ShownAsRanked
<1> SUFFICES ASSUME ShowInv, NEW t \in Tours, NEW u \in Entrants(t)
             PROVE  LET total(cards) == Add([i \in DOMAIN cards |-> cards[i].score])
                        mine == get_tournament_details(u, t).deck
                    IN /\ \A viewer \in Players :
                            LET page  == get_deck_details(viewer, t, u)
                                board == get_tournament_leaderboard(viewer, t).rows
                            IN /\ stage[t] = "registration" => board = {} /\ (page.answer = "403" <=> viewer # u)
                               /\ stage[t] = "finished" =>
                                    /\ \E row \in board : row.user = u /\ row.final_score = total(page.cards)
                                    /\ page.score \in {total(page.cards), None}
                                    /\ page.cards = mine
                                    /\ changes = 0 /\ counted[t] = newest[t] /\ t \notin late =>
                                         \A i \in DOMAIN mine : mine[i].card \in listed =>
                                           LET stats == get_card_tournament_stats(mine[i].card)
                                           IN mine[i].score = IF t \in DOMAIN stats THEN stats[t] ELSE 0
                       /\ get_tournament_leaderboard(u, t).my_position \subseteq get_tournament_leaderboard(u, t).rows
  BY DEF ShownAsRanked
<1> DEFINE total(cards) == Add([i \in DOMAIN cards |-> cards[i].score])
           mine == get_tournament_details(u, t).deck
<1>1. u \in Players /\ entered[t][u] # None
  BY DEF Entrants
<1>2. RankedOf(t, u)
  BY <1>1 DEF ShowInv, Ranks
<1>3. get_tournament_leaderboard(u, t).my_position \subseteq get_tournament_leaderboard(u, t).rows
  BY DEF get_tournament_leaderboard
<1>4. ASSUME NEW viewer \in Players, stage[t] = "registration"
      PROVE  /\ get_tournament_leaderboard(viewer, t).rows = {}
             /\ get_deck_details(viewer, t, u).answer = "403" <=> viewer # u
  <2>1. \A v \in Players : result[t][v] = None
    BY <1>4 DEF ShowInv, Ranks, RankedOf
  <2>2. Finished(t) = {}
    BY <2>1 DEF Finished
  <2>3. get_tournament_leaderboard(viewer, t).rows = {}
    BY <2>2 DEF get_tournament_leaderboard
  <2>4. get_deck_details(viewer, t, u).answer = IF viewer # u THEN "403" ELSE "deck"
    BY <1>4, <2>1, <1>1 DEF get_deck_details
  <2> QED
    BY <2>3, <2>4
<1>5. ASSUME NEW viewer \in Players, stage[t] = "finished"
      PROVE  /\ \E row \in get_tournament_leaderboard(viewer, t).rows :
                   row.user = u /\ row.final_score = total(get_deck_details(viewer, t, u).cards)
             /\ get_deck_details(viewer, t, u).score \in {total(get_deck_details(viewer, t, u).cards), None}
             /\ get_deck_details(viewer, t, u).cards = mine
             /\ changes = 0 /\ counted[t] = newest[t] /\ t \notin late =>
                  \A i \in DOMAIN mine : mine[i].card \in listed =>
                    LET stats == get_card_tournament_stats(mine[i].card)
                    IN mine[i].score = IF t \in DOMAIN stats THEN stats[t] ELSE 0
  <2> DEFINE d == entered[t][u]
             scores == result[t][u].cards
             cards == get_historical_cards_info(d, scores)
             page == get_deck_details(viewer, t, u)
             stats(c) == get_card_tournament_stats(c)
  <2>1. /\ result[t][u] # None /\ result[t][u].score = Add(scores) /\ DOMAIN scores = DOMAIN d
        /\ changes = 0 /\ t \notin late => scores = CardScores(t, u)
    BY <1>1, <1>2, <1>5 DEF RankedOf
  <2>2. d \in Seq(Kinds) /\ scores \in Seq(Nat)
    BY <1>1, <2>1, ShowcaseAssumption DEF ShowInv, ShowTyped, ShowcaseTypeOK, Result
  <2>3. page.cards = cards /\ page.score \in {result[t][u].score, None}
    BY <1>5, <2>1 DEF get_deck_details
  <2>4. mine = cards
    BY <1>1, <1>5, <2>1 DEF get_tournament_details
  <2>5. cards = [i \in DOMAIN d |-> [card |-> d[i], score |-> scores[i]]]
    BY <2>1 DEF get_historical_cards_info
  <2>6. [i \in DOMAIN cards |-> cards[i].score] = [i \in DOMAIN scores |-> scores[i]]
    <3> HIDE DEF cards, scores
    <3> QED
      BY <2>1, <2>5
  <2>7. [i \in DOMAIN scores |-> scores[i]] = scores
    <3> HIDE DEF scores
    <3> QED
      BY <2>2
  <2>8. total(cards) = result[t][u].score
    <3> HIDE DEF cards, scores
    <3> QED
      BY <2>1, <2>6, <2>7
  <2>9. LeaderboardEntry(t, u) \in get_tournament_leaderboard(viewer, t).rows
    BY <1>1, <2>1 DEF get_tournament_leaderboard, Finished
  <2>10. LeaderboardEntry(t, u).user = u /\ LeaderboardEntry(t, u).final_score = result[t][u].score
    BY DEF LeaderboardEntry
  <2>11. ASSUME changes = 0, counted[t] = newest[t], t \notin late, NEW i \in DOMAIN mine, mine[i].card \in listed
         PROVE  mine[i].score = IF t \in DOMAIN stats(mine[i].card) THEN stats(mine[i].card)[t] ELSE 0
    <3> DEFINE c == mine[i].card
    <3>1. i \in DOMAIN d /\ c = d[i] /\ mine[i].score = scores[i]
      <4> HIDE DEF cards, scores, d, mine
      <4> QED
        BY <2>4, <2>5, <2>11 DEF c
    <3>2. scores[i] = CardScore(t, c)
      <4>1. scores[i] = CardScores(t, u)[i]
        BY <2>1, <2>11
      <4> HIDE DEF c, scores
      <4>2. CardScores(t, u)[i] = CardScore(t, d[i])
        BY <3>1 DEF CardScores
      <4> QED
        BY <3>1, <4>1, <4>2
    <3>3. stats(c) = [s \in {s \in Tours : c \in listed /\ stage[s] = "finished" /\ newest[s][TokenOfKind[c]] # None} |->
                        newest[s][TokenOfKind[c]] * bonus[c]]
      BY DEF get_card_tournament_stats
    <3>4. t \in DOMAIN stats(c) <=> newest[t][TokenOfKind[c]] # None
      <4> HIDE DEF c
      <4>1. DOMAIN stats(c) = {s \in Tours : c \in listed /\ stage[s] = "finished" /\ newest[s][TokenOfKind[c]] # None}
        BY <3>3
      <4>2. c \in listed
        BY <2>11 DEF c
      <4> QED
        BY <1>5, <4>1, <4>2
    <3>5. t \in DOMAIN stats(c) => stats(c)[t] = newest[t][TokenOfKind[c]] * bonus[c]
      <4> HIDE DEF c
      <4> QED
        BY <3>3
    <3>6. CardScore(t, c) = IF newest[t][TokenOfKind[c]] = None THEN 0 ELSE newest[t][TokenOfKind[c]] * bonus[c]
      BY <2>11 DEF CardScore
    <3> HIDE DEF stats
    <3> QED
      BY <3>1, <3>2, <3>4, <3>5, <3>6 DEF c
  <2>12. \E row \in get_tournament_leaderboard(viewer, t).rows :
           row.user = u /\ row.final_score = total(page.cards)
    <3> HIDE DEF page, cards
    <3> QED
      BY <2>3, <2>8, <2>9, <2>10
  <2>13. page.score \in {total(page.cards), None} /\ page.cards = mine
    <3> HIDE DEF page, cards, mine
    <3> QED
      BY <2>3, <2>4, <2>8
  <2> HIDE DEF page, mine, stats, total
  <2> QED
    BY <2>11, <2>12, <2>13 DEF page, stats
<1> HIDE DEF total, mine
<1> QED
  BY <1>3, <1>4, <1>5 DEF total, mine

-----------------------------------------------------------------------------
(* What is shown: what was won, in the history and in the balances *)

Earned(u, status) == {t \in Tours : reward[t][u] # None /\ reward[t][u].status = status}
RewardedBody(g, u, S) ==
  [s \in SUBSET S |-> IF s = {} THEN 0
     ELSE reward[CHOOSE x \in s : TRUE][u].amount + g[s \ {CHOOSE x \in s : TRUE}]]
AllWonBody(g, u, S) ==
  [s \in SUBSET S |-> IF s = {} THEN 0 ELSE Won(u, CHOOSE x \in s : TRUE) + g[s \ {CHOOSE x \in s : TRUE}]]
WonBody(g, S) ==
  [s \in SUBSET S |-> IF s = {} THEN 0 ELSE (CHOOSE x \in s : TRUE).amount + g[s \ {CHOOSE x \in s : TRUE}]]

LEMMA RewardedIs == ASSUME NEW u, NEW status
                    PROVE  Rewarded(u, status) = (CHOOSE g : g = RewardedBody(g, u, Earned(u, status)))[Earned(u, status)]
BY DEF MapThenSumSet, MapThenFoldSet, Rewarded, RewardedBody, Earned

LEMMA AllWonIs == ASSUME NEW u, NEW ts
                 PROVE  WonInAll(u, ts) = (CHOOSE g : g = AllWonBody(g, u, ts))[ts]
BY DEF MapThenSumSet, MapThenFoldSet, WonInAll, AllWonBody

LEMMA WonIs == ASSUME NEW u, NEW t, NEW S, S = get_my_tournament_history(u)[t].prizes
               PROVE  Won(u, t) = (CHOOSE g : g = WonBody(g, S))[S]
BY DEF MapThenSumSet, MapThenFoldSet, Won, WonBody

LEMMA RewardedSum ==
  ASSUME ShowInv, NEW u \in Players, NEW status,
         NEW v \in [Earned(u, status) -> Int], \A t \in Earned(u, status) : v[t] = reward[t][u].amount
  PROVE  IsSum(Rewarded(u, status), v, Earned(u, status))
<1> DEFINE S == Earned(u, status)
<1>1. IsFiniteSet(S)
  BY FS_Subset, ShowcaseAssumption DEF Earned
<1>2. \A g : RewardedBody(g, u, S) = [s \in SUBSET S |-> IF s = {} THEN 0 ELSE v[Picked(s)] + g[s \ {Picked(s)}]]
  <2>1. \A s \in SUBSET S : s # {} => v[Picked(s)] = reward[CHOOSE x \in s : TRUE][u].amount
    BY PickedIn DEF Picked
  <2> HIDE DEF S
  <2> QED
    BY <2>1 DEF RewardedBody, Picked
<1> HIDE DEF S
<1>3. \A g : g = RewardedBody(g, u, S) <=> Solves(g, v, S)
  BY <1>2 DEF Solves
<1>4. PICK g : g = RewardedBody(g, u, S) /\ Rewarded(u, status) = g[S]
  <2>1. \E g : g = RewardedBody(g, u, S)
    BY <1>1, <1>3, SumExists DEF S
  <2> QED
    BY <2>1, RewardedIs DEF S
<1> QED
  BY <1>3, <1>4 DEF IsSum, S

LEMMA AllWonSum ==
  ASSUME NEW u \in Players, NEW ts, IsFiniteSet(ts),
         NEW v \in [ts -> Int], \A t \in ts : v[t] = Won(u, t)
  PROVE  IsSum(WonInAll(u, ts), v, ts)
<1>1. \A g : AllWonBody(g, u, ts) = [s \in SUBSET ts |-> IF s = {} THEN 0 ELSE v[Picked(s)] + g[s \ {Picked(s)}]]
  <2>1. \A s \in SUBSET ts : s # {} => v[Picked(s)] = Won(u, CHOOSE x \in s : TRUE)
    BY PickedIn DEF Picked
  <2> QED
    BY <2>1 DEF AllWonBody, Picked
<1>2. \A g : g = AllWonBody(g, u, ts) <=> Solves(g, v, ts)
  BY <1>1 DEF Solves
<1>3. PICK g : g = AllWonBody(g, u, ts) /\ WonInAll(u, ts) = g[ts]
  BY <1>2, SumExists, AllWonIs
<1> QED
  BY <1>2, <1>3 DEF IsSum

\* What the history says was won is the reward, if there is one.
LEMMA WonAmount ==
  ASSUME ShowInv, NEW u \in Players, NEW t \in Tours, result[t][u] # None, stage[t] = "finished"
  PROVE  /\ t \in DOMAIN get_my_tournament_history(u)
         /\ Won(u, t) = IF reward[t][u] = None THEN 0 ELSE reward[t][u].amount
         /\ Won(u, t) \in Nat
<1> DEFINE S == _get_prizes_with_claim_status(t, u)
           v == [r \in S |-> r.amount]
<1>1. t \in Played(u) /\ stage[t] = "finished"
  BY DEF Played
<1>2. t \in DOMAIN get_my_tournament_history(u) /\ get_my_tournament_history(u)[t].prizes = S
  BY <1>1 DEF get_my_tournament_history, Played
<1>3. reward[t][u] # None => S = {reward[t][u]} /\ reward[t][u].amount \in Nat
  BY DEF _get_prizes_with_claim_status, ShowInv, ShowTyped, ShowcaseTypeOK, Reward
<1>4. reward[t][u] = None => S = {}
  BY DEF _get_prizes_with_claim_status
<1>5. IsFiniteSet(S) /\ v \in [S -> Int]
  <2>1. IsFiniteSet(S)
    <3> HIDE DEF S
    <3> QED
      BY <1>3, <1>4, FS_EmptySet, FS_Singleton
  <2>2. \A r \in S : r.amount \in Int
    <3> HIDE DEF S
    <3> QED
      BY <1>3, <1>4
  <2> HIDE DEF S
  <2> QED
    BY <2>1, <2>2
<1>6. \A s \in SUBSET S : s # {} => v[Picked(s)] = (CHOOSE x \in s : TRUE).amount
  BY PickedIn DEF Picked
<1> HIDE DEF S, v
<1>7. \A g : WonBody(g, S) = [s \in SUBSET S |-> IF s = {} THEN 0 ELSE v[Picked(s)] + g[s \ {Picked(s)}]]
  BY <1>6 DEF WonBody, Picked
<1>8. \A g : g = WonBody(g, S) <=> Solves(g, v, S)
  BY <1>7 DEF Solves
<1>9. PICK g : Solves(g, v, S) /\ Won(u, t) = g[S]
  BY <1>2, <1>5, <1>8, SumExists, WonIs
<1>10. Won(u, t) = IF reward[t][u] = None THEN 0 ELSE reward[t][u].amount
  <2>1. CASE reward[t][u] = None
    BY <1>4, <1>9, <2>1 DEF Solves
  <2>2. CASE reward[t][u] # None
    <3> DEFINE r == reward[t][u]
    <3>1. S = {r} /\ r \in S /\ r.amount \in Nat
      BY <1>3, <2>2
    <3> HIDE DEF r
    <3>2. g[{}] = 0 /\ S \in SUBSET S /\ S \ {r} = {}
      BY <1>9, <3>1 DEF Solves
    <3>3. Grows(g, v, S)
      BY <1>5, <1>9, <3>2, SumAdds
    <3>4. g[S] = g[{}] + v[r]
      BY <3>1, <3>2, <3>3 DEF Grows
    <3>5. v[r] = r.amount
      BY <3>1 DEF v
    <3> QED
      BY <1>9, <2>2, <3>1, <3>2, <3>4, <3>5 DEF r
  <2> QED
    BY <2>1, <2>2
<1> QED
  BY <1>2, <1>3, <1>10

\* The tournaments of the history.
Ended(u) == {t \in Played(u) : stage[t] = "finished"}

\* What was won in all is what is available and what is pending.
Wins(u) == [t \in Ended(u) |-> Won(u, t)]

LEMMA BalancesType ==
  ASSUME ShowInv, NEW u \in Players
  PROVE  /\ Rewarded(u, "claimed") \in Int /\ Rewarded(u, "claimed") = WonInAll(u, get_user_rewards(u, TRUE))
         /\ Rewarded(u, "pending") \in Int /\ Rewarded(u, "pending") = WonInAll(u, get_user_rewards(u, FALSE))
         /\ Rewarded(u, "claimed") + Rewarded(u, "pending") = WonInAll(u, Ended(u))
<1> DEFINE C == Earned(u, "claimed")
           P == Earned(u, "pending")
           v == Wins(u)
           vc == [t \in C |-> Won(u, t)]
           vp == [t \in P |-> Won(u, t)]
<1>1. /\ get_user_rewards(u, TRUE) = C
      /\ get_user_rewards(u, FALSE) = P
  <2>1. \A t \in Tours : reward[t][u] # None => reward[t][u].status \in {"pending", "claimed"}
    BY DEF ShowInv, ShowTyped, ShowcaseTypeOK, Reward
  <2> QED
    BY <2>1 DEF get_user_rewards, Earned
<1>2. C \subseteq Ended(u) /\ P \subseteq Ended(u) /\ Ended(u) \subseteq Tours /\ C \cap P = {}
  BY DEF Earned, Ended, Played, ShowInv, ShowTyped, ShowcaseTypeOK, Ranks, RankedOf
<1>3. IsFiniteSet(C) /\ IsFiniteSet(P) /\ IsFiniteSet(Ended(u))
  <2>1. IsFiniteSet(Tours)
    BY ShowcaseAssumption
  <2>2. C \subseteq Tours /\ P \subseteq Tours
    BY <1>2
  <2> HIDE DEF C, P
  <2> QED
    BY <1>2, <2>1, <2>2, FS_Subset
<1>4. \A t \in Ended(u) : Won(u, t) \in Nat
  BY WonAmount DEF Ended, Played
<1>5. \A t \in C \cup P : t \in Ended(u) /\ Won(u, t) = reward[t][u].amount
  BY <1>2, WonAmount DEF Ended, Played, Earned
<1>6. \A t \in Ended(u) \ (C \cup P) : Won(u, t) = 0
  <2>1. \A t \in Ended(u) \ (C \cup P) : reward[t][u] = None
    BY DEF ShowInv, ShowTyped, ShowcaseTypeOK, Reward, Earned, Ended, Played
  <2> QED
    BY <2>1, WonAmount DEF Ended, Played
<1>7. vc \in [C -> Int] /\ vp \in [P -> Int] /\ v \in [Ended(u) -> Int]
  BY <1>4, <1>5 DEF Wins
<1> HIDE DEF C, P
<1>8. IsSum(Rewarded(u, "claimed"), vc, C) /\ IsSum(WonInAll(u, C), vc, C)
  BY <1>3, <1>5, <1>7, RewardedSum, AllWonSum DEF C
<1>9. IsSum(Rewarded(u, "pending"), vp, P) /\ IsSum(WonInAll(u, P), vp, P)
  BY <1>3, <1>5, <1>7, RewardedSum, AllWonSum DEF P
<1>10. IsSum(WonInAll(u, Ended(u)), v, Ended(u))
  <2>1. \A t \in Ended(u) : v[t] = Won(u, t)
    BY DEF Wins
  <2> HIDE DEF v
  <2> QED
    BY <1>3, <1>7, <2>1, AllWonSum
<1>11. /\ \A t \in C : vc[t] = v[t]
       /\ \A t \in P : vp[t] = v[t]
       /\ \A t \in Ended(u) \ (C \cup P) : v[t] = 0
  BY <1>2, <1>6 DEF Wins
<1> HIDE DEF v, vc, vp
<1>12. Rewarded(u, "claimed") = WonInAll(u, C) /\ Rewarded(u, "claimed") \in Int
  BY <1>3, <1>7, <1>8, SumUnique
<1>13. Rewarded(u, "pending") = WonInAll(u, P) /\ Rewarded(u, "pending") \in Int
  BY <1>3, <1>7, <1>9, SumUnique
<1>14. PICK g : Solves(g, v, Ended(u)) /\ WonInAll(u, Ended(u)) = g[Ended(u)]
  BY <1>10 DEF IsSum
<1>15. Rewarded(u, "claimed") = g[C]
  BY <1>2, <1>3, <1>7, <1>8, <1>11, <1>14, SumPart
<1>16. Rewarded(u, "pending") = g[P]
  BY <1>2, <1>3, <1>7, <1>9, <1>11, <1>14, SumPart
<1>17. g[C \cup P] = g[C] + g[P]
  BY <1>2, <1>3, <1>7, <1>14, SumUnion
<1> DEFINE rest == Ended(u) \ (C \cup P)
<1>18. g[rest] = 0
  <2>1. rest \in SUBSET Ended(u) /\ \A t \in rest : v[t] = 0
    BY <1>11
  <2> HIDE DEF rest
  <2> QED
    BY <1>3, <1>7, <1>14, <2>1, SumZero
<1>19. g[Ended(u)] = g[C \cup P] + g[rest]
  <2>1. /\ C \cup P \in SUBSET Ended(u) /\ rest \in SUBSET Ended(u) /\ (C \cup P) \cap rest = {}
        /\ (C \cup P) \cup rest = Ended(u)
    BY <1>2
  <2> HIDE DEF rest
  <2>2. g[(C \cup P) \cup rest] = g[C \cup P] + g[rest]
    BY <1>3, <1>7, <1>14, <2>1, SumUnion
  <2> QED
    BY <2>1, <2>2
<1> HIDE DEF rest
<1>20. Rewarded(u, "claimed") + Rewarded(u, "pending") = WonInAll(u, Ended(u))
  BY <1>12, <1>13, <1>14, <1>15, <1>16, <1>17, <1>18, <1>19
<1> QED
  BY <1>1, <1>12, <1>13, <1>20

\* The profile and the history.
HistoryAgrees(u) ==
  LET stats   == get_user_profile(u).stats
      history == get_my_tournament_history(u)
      mine(t) == get_tournament_leaderboard(u, t).my_position
  IN /\ \A t \in DOMAIN history :
          /\ history[t].position >= stats.best_position
          /\ [user |-> u, deck |-> entered[t][u]] \in get_tournament_decks(t)
          /\ [position |-> history[t].position, score |-> history[t].score] \in get_tournament_results(t)
          /\ \A row \in mine(t) : /\ history[t].position = row.position /\ history[t].cards = row.cards
                                  /\ t \in Distributed \ late => row.prizes = {Won(u, t)}
     /\ stats.best_score =
          Best(({history[t].score : t \in DOMAIN history} \cup
                {row.final_score : row \in UNION {mine(t) : t \in get_all_tournaments("ongoing")}}) \ {0})
     /\ stats.balances = [available |-> WonInAll(u, get_user_rewards(u, TRUE)),
                          pending   |-> WonInAll(u, get_user_rewards(u, FALSE))]
     /\ stats.balances.available + stats.balances.pending = WonInAll(u, DOMAIN history)
     /\ stats.tournaments = Cardinality({t \in DOMAIN get_tournaments_list(u) :
                                           get_tournaments_list(u)[t].registered})
     /\ get_my_profile(u).cards = get_cards_catalog

LEMMA HistoryIs ==
  ASSUME ShowInv, NEW u \in Players
  PROVE  /\ DOMAIN get_my_tournament_history(u) = Ended(u)
         /\ \A t \in Ended(u) :
              /\ get_my_tournament_history(u)[t].position = result[t][u].position
              /\ get_my_tournament_history(u)[t].score = result[t][u].score
              /\ get_my_tournament_history(u)[t].cards = get_cards_info(entered[t][u])
         /\ \A t \in Played(u) :
              t \in Tours /\ entered[t][u] # None /\ result[t][u] # None /\ result[t][u] \in Result
<1>1. \A t \in Played(u) : t \in Tours /\ result[t][u] # None
  BY DEF Played
<1>2. \A t \in Played(u) : entered[t][u] # None
  BY <1>1 DEF ShowInv, Ranks, RankedOf
<1>3. \A t \in Played(u) : result[t][u] \in Result
  BY <1>1 DEF ShowInv, ShowTyped, ShowcaseTypeOK
<1>4. get_my_tournament_history(u) =
        [t \in Ended(u) |->
           [position |-> result[t][u].position, score |-> result[t][u].score,
            cards    |-> _get_deck_cards_info(entered[t][u]),
            prizes   |-> _get_prizes_with_claim_status(t, u)]]
  BY DEF get_my_tournament_history, Ended
<1> QED
  BY <1>1, <1>2, <1>3, <1>4 DEF _get_deck_cards_info

\* The rows of the user on the boards of tournaments that go on.
LEMMA BoardsOngoing ==
  ASSUME ShowInv, NEW u \in Players
  PROVE  {row.final_score : row \in UNION {get_tournament_leaderboard(u, t).my_position : t \in get_all_tournaments("ongoing")}}
           = {result[t][u].score : t \in Played(u) \ Ended(u)}
<1> DEFINE mine(t) == get_tournament_leaderboard(u, t).my_position
           rows == UNION {mine(t) : t \in get_all_tournaments("ongoing")}
<1>1. \A t \in Tours : mine(t) = IF result[t][u] # None THEN {LeaderboardEntry(t, u)} ELSE {}
  BY DEF get_tournament_leaderboard, Finished
<1>2. \A t \in Tours : t \in Played(u) \ Ended(u) <=> result[t][u] # None /\ stage[t] = "ongoing"
  BY DEF Played, Ended, ShowInv, Ranks, RankedOf
<1>3. \A t \in Tours : LeaderboardEntry(t, u).final_score = result[t][u].score
  BY DEF LeaderboardEntry
<1>4. \A t : t \in get_all_tournaments("ongoing") <=> t \in Tours /\ stage[t] = "ongoing"
  BY DEF get_all_tournaments
<1>5. Played(u) \subseteq Tours
  BY DEF Played
<1> HIDE DEF mine
<1>6. ASSUME NEW row \in rows PROVE \E t \in Played(u) \ Ended(u) : row.final_score = result[t][u].score
  <2>1. PICK t \in get_all_tournaments("ongoing") : row \in mine(t)
    OBVIOUS
  <2>2. t \in Tours /\ result[t][u] # None /\ row = LeaderboardEntry(t, u)
    BY <1>1, <1>4, <2>1
  <2> QED
    BY <1>2, <1>3, <1>4, <2>1, <2>2
<1>7. ASSUME NEW t \in Played(u) \ Ended(u) PROVE \E row \in rows : row.final_score = result[t][u].score
  <2>1. t \in Tours /\ result[t][u] # None /\ t \in get_all_tournaments("ongoing")
    BY <1>2, <1>4, <1>5
  <2>2. LeaderboardEntry(t, u) \in rows
    BY <1>1, <2>1
  <2> QED
    BY <1>3, <2>1, <2>2
<1> HIDE DEF rows
<1>8. {row.final_score : row \in rows} = {result[t][u].score : t \in Played(u) \ Ended(u)}
  BY <1>6, <1>7
<1> QED
  BY <1>8 DEF rows, mine

LEMMA HistoryAgreesAll == ASSUME ShowInv, NEW u \in Players PROVE HistoryAgrees(u)
<1> DEFINE stats   == get_user_profile(u).stats
           history == get_my_tournament_history(u)
           mine(t) == get_tournament_leaderboard(u, t).my_position
<1>1. /\ DOMAIN history = Ended(u)
      /\ \A t \in Ended(u) :
           /\ history[t].position = result[t][u].position
           /\ history[t].score = result[t][u].score
           /\ history[t].cards = get_cards_info(entered[t][u])
      /\ \A t \in Played(u) :
           t \in Tours /\ entered[t][u] # None /\ result[t][u] # None /\ result[t][u] \in Result
  BY HistoryIs
<1>2. stats = get_user_stats(u)
  BY DEF get_user_profile
<1>3. ASSUME NEW t \in DOMAIN history
      PROVE  /\ history[t].position >= stats.best_position
             /\ [user |-> u, deck |-> entered[t][u]] \in get_tournament_decks(t)
             /\ [position |-> history[t].position, score |-> history[t].score] \in get_tournament_results(t)
             /\ \A row \in mine(t) : /\ history[t].position = row.position /\ history[t].cards = row.cards
                                     /\ t \in Distributed \ late => row.prizes = {Won(u, t)}
  <2> DEFINE places == {result[s][u].position : s \in Played(u)}
  <2>0. t \in Played(u) /\ t \in Ended(u) /\ t \in Tours /\ result[t][u] # None /\ stage[t] = "finished"
    <3>1. t \in Ended(u)
      BY <1>1, <1>3
    <3> QED
      BY <3>1 DEF Played, Ended
  <2>1. history[t].position >= stats.best_position
    <3>1. \A s \in Played(u) : result[s][u].position \in Nat
      BY <1>1 DEF Result
    <3>2. places \in SUBSET Int /\ places # {} /\ result[t][u].position \in places
      BY <2>0, <3>1
    <3>3. IsFiniteSet(places)
      <4> DEFINE place == [s \in Played(u) |-> result[s][u].position]
      <4>1. place \in [Played(u) -> places] /\ \A p \in places : \E s \in Played(u) : place[s] = p
        OBVIOUS
      <4>2. IsFiniteSet(Played(u))
        BY FS_Subset, ShowcaseAssumption DEF Played
      <4> HIDE DEF place, places
      <4>3. place \in Surjection(Played(u), places)
        BY <4>1 DEF Surjection
      <4> QED
        BY <4>2, <4>3, FS_Surjection
    <3>4. stats.best_position = Min(places)
      BY <1>2, <2>0 DEF get_user_stats
    <3>5. history[t].position = result[t][u].position
      BY <1>1, <2>0
    <3> HIDE DEF places, stats, history
    <3>6. Min(places) \in Int /\ Min(places) <= result[t][u].position
      BY <3>2, <3>3, MinOf
    <3>7. result[t][u].position \in Int
      BY <3>2
    <3> QED
      BY <3>4, <3>5, <3>6, <3>7
  <2>2. [user |-> u, deck |-> entered[t][u]] \in get_tournament_decks(t)
    BY <1>1, <2>0 DEF get_tournament_decks, Entrants
  <2>3. [position |-> history[t].position, score |-> history[t].score] \in get_tournament_results(t)
    <3>1. u \in Finished(t)
      BY <2>0 DEF Finished
    <3>2. history[t].position = result[t][u].position /\ history[t].score = result[t][u].score
      BY <1>1, <2>0
    <3> HIDE DEF history
    <3> QED
      BY <3>1, <3>2 DEF get_tournament_results
  <2>4. ASSUME NEW row \in mine(t)
        PROVE  /\ history[t].position = row.position /\ history[t].cards = row.cards
               /\ t \in Distributed \ late => row.prizes = {Won(u, t)}
    <3>1. row = LeaderboardEntry(t, u)
      BY DEF get_tournament_leaderboard
    <3>2. /\ row.position = result[t][u].position /\ row.cards = get_cards_info(entered[t][u])
          /\ row.prizes = {result[t][u].prize}
      BY <3>1 DEF LeaderboardEntry, get_prizes_info
    <3>3. t \in Distributed \ late => Won(u, t) = result[t][u].prize
      <4>1. RewardOf(t, u)
        BY <2>0 DEF ShowInv, Ranks
      <4>2. Won(u, t) = IF reward[t][u] = None THEN 0 ELSE reward[t][u].amount
        BY <2>0, WonAmount
      <4> QED
        BY <2>0, <4>1, <4>2 DEF RewardOf
    <3>4. history[t].position = result[t][u].position /\ history[t].cards = get_cards_info(entered[t][u])
      BY <1>1, <2>0
    <3> HIDE DEF history
    <3> QED
      BY <3>2, <3>3, <3>4
  <2> HIDE DEF history, stats, mine
  <2> QED
    BY <2>1, <2>2, <2>3, <2>4
<1>4. stats.best_score =
        Best(({history[t].score : t \in DOMAIN history} \cup
              {row.final_score : row \in UNION {mine(t) : t \in get_all_tournaments("ongoing")}}) \ {0})
  <2>1. {history[t].score : t \in DOMAIN history} = {result[t][u].score : t \in Ended(u)}
    <3> HIDE DEF history
    <3> QED
      BY <1>1
  <2>2. {row.final_score : row \in UNION {mine(t) : t \in get_all_tournaments("ongoing")}}
          = {result[t][u].score : t \in Played(u) \ Ended(u)}
    BY BoardsOngoing
  <2>3. stats.best_score = Best({result[t][u].score : t \in Played(u)} \ {0})
    BY <1>2 DEF get_user_stats
  <2>4. Ended(u) \subseteq Played(u)
    BY DEF Ended
  <2>5. {result[t][u].score : t \in Played(u)}
          = {result[t][u].score : t \in Ended(u)} \cup {result[t][u].score : t \in Played(u) \ Ended(u)}
    BY <2>4
  <2> HIDE DEF stats, history, mine
  <2> QED
    BY <2>1, <2>2, <2>3, <2>5
<1>5. stats.balances = [available |-> Rewarded(u, "claimed"), pending |-> Rewarded(u, "pending")]
  BY <1>2 DEF get_user_stats, get_balances
<1>6. /\ stats.balances = [available |-> WonInAll(u, get_user_rewards(u, TRUE)),
                           pending   |-> WonInAll(u, get_user_rewards(u, FALSE))]
      /\ stats.balances.available + stats.balances.pending = WonInAll(u, DOMAIN history)
  <2>1. stats.balances.available = Rewarded(u, "claimed") /\ stats.balances.pending = Rewarded(u, "pending")
    BY <1>5
  <2> HIDE DEF stats, history
  <2> QED
    BY <1>1, <1>5, <2>1, BalancesType
<1>7. \A t \in Tours : u \in Entrants(t) => stage[t] # "none"
  BY DEF Entrants, ShowInv, Ranks, RankedOf
<1>8. stats.tournaments = Cardinality({t \in DOMAIN get_tournaments_list(u) :
                                           get_tournaments_list(u)[t].registered})
  <2>1. \A t \in Tours : u \in Entrants(t) => stage[t] # "none"
    BY <1>7
  <2>2. \A t \in DOMAIN get_tournaments_list(u) : get_tournaments_list(u)[t].registered <=> u \in Entrants(t)
    BY DEF get_tournaments_list
  <2>3. DOMAIN get_tournaments_list(u) = {t \in Tours : stage[t] # "none"}
    BY DEF get_tournaments_list
  <2>4. {t \in DOMAIN get_tournaments_list(u) : get_tournaments_list(u)[t].registered} = {t \in Tours : u \in Entrants(t)}
    BY <2>1, <2>2, <2>3
  <2>5. stats.tournaments = Cardinality({t \in Tours : u \in Entrants(t)})
    BY <1>2 DEF get_user_stats
  <2> QED
    BY <2>4, <2>5
<1>9. get_my_profile(u).cards = get_cards_catalog
  <2>1. Kinds \cap InCatalog = InCatalog
    BY DEF ShowInv, ShowTyped, ShowcaseTypeOK
  <2> QED
    BY <2>1 DEF get_my_profile, get_user_profile, get_user_cards, get_cards_catalog
<1> HIDE DEF stats, history, mine
<1> QED
  BY <1>3, <1>4, <1>6, <1>8, <1>9 DEF HistoryAgrees, stats, history, mine

Descending(list) ==
  \A i, j \in DOMAIN list : i < j =>
    \/ get_balances(list[i]).available > get_balances(list[j]).available
    \/ get_balances(list[i]).available = get_balances(list[j]).available /\ list[i] > list[j]

\* The balances put any two users in an order.
LEMMA LeaderboardOrdered ==
  ASSUME ShowInv
  PROVE  \A i \in 2 .. Len(get_leaderboard) :
           get_balances(get_leaderboard[i - 1]).available >= get_balances(get_leaderboard[i]).available
<1> DEFINE R == {p \in Players \X Players :
                   \/ get_balances(p[1]).available > get_balances(p[2]).available
                   \/ get_balances(p[1]).available = get_balances(p[2]).available /\ p[1] > p[2]}
<1>1. \A x, y \in Players : <<x, y>> \in R <=>
        \/ get_balances(x).available > get_balances(y).available
        \/ get_balances(x).available = get_balances(y).available /\ x > y
  OBVIOUS
<1>2. \A x \in Players : get_balances(x).available \in Int /\ x \in Nat
  BY BalancesType, ShowcaseAssumption DEF get_balances
<1> HIDE DEF R
<1>3. OrderOf(R, Players)
  BY <1>1, <1>2 DEF OrderOf
<1>4. PICK q \in SetToSeqs(Players) : Sorted(q, R)
  BY <1>3, SortExists, ShowcaseAssumption
<1>5. \A p \in SetToSeqs(Players) : \E n \in Nat : p \in [1 .. n -> Players] /\ DOMAIN p = 1 .. n
  <2>1. Cardinality(Players) \in Nat
    BY FS_CardinalityType, ShowcaseAssumption
  <2> QED
    BY <2>1 DEF SetToSeqs
<1>6. \A i, j \in DOMAIN q : i < j =>
        \/ get_balances(q[i]).available > get_balances(q[j]).available
        \/ get_balances(q[i]).available = get_balances(q[j]).available /\ q[i] > q[j]
  <2>1. \A i \in DOMAIN q : q[i] \in Players
    BY <1>5
  <2> QED
    BY <1>1, <1>4, <2>1 DEF Sorted
<1>7. /\ get_leaderboard \in SetToSeqs(Players)
      /\ \A i, j \in DOMAIN get_leaderboard : i < j =>
           \/ get_balances(get_leaderboard[i]).available > get_balances(get_leaderboard[j]).available
           \/ /\ get_balances(get_leaderboard[i]).available = get_balances(get_leaderboard[j]).available
              /\ get_leaderboard[i] > get_leaderboard[j]
  <2>1. Descending(q)
    BY <1>6 DEF Descending
  <2>2. get_leaderboard = CHOOSE list \in SetToSeqs(Players) : Descending(list)
    BY DEF get_leaderboard, Descending
  <2>3. get_leaderboard \in SetToSeqs(Players) /\ Descending(get_leaderboard)
    BY <1>4, <2>1, <2>2
  <2> QED
    BY <2>3 DEF Descending
<1> DEFINE list == get_leaderboard
<1> HIDE DEF list
<1>8. PICK n \in Nat : list \in [1 .. n -> Players] /\ DOMAIN list = 1 .. n
  BY <1>5, <1>7 DEF list
<1>9. Len(list) = n
  BY <1>8
<1>10. ASSUME NEW i \in 2 .. n
       PROVE  get_balances(list[i - 1]).available >= get_balances(list[i]).available
  <2>1. i - 1 \in 1 .. n /\ i \in 1 .. n /\ i - 1 < i
    BY <1>10
  <2>2. list[i - 1] \in Players /\ list[i] \in Players
    BY <1>8, <2>1
  <2>3. \/ get_balances(list[i - 1]).available > get_balances(list[i]).available
        \/ get_balances(list[i - 1]).available = get_balances(list[i]).available
    BY <1>7, <1>8, <2>1 DEF list
  <2> QED
    BY <1>2, <2>2, <2>3
<1> QED
  BY <1>9, <1>10 DEF list

LEMMA SummaryAgrees ==
  ASSUME ShowInv
  PROVE  LET summary == get_tournaments_summary
         IN /\ \A s \in DOMAIN summary.count : summary.count[s] = Cardinality(get_all_tournaments(s))
            /\ summary.answer = "summary" =>
                 {t \in DOMAIN get_tournaments_list(Min(Players)) : stage[t] # "finished"} = summary.current
<1> DEFINE summary == get_tournaments_summary
<1>1. \A s \in DOMAIN summary.count : summary.count[s] = Cardinality(get_all_tournaments(s))
  <2>1. summary.count = [s \in {"registration", "ongoing", "finished"} |-> Cardinality({t \in Tours : stage[t] = s})]
    BY DEF get_tournaments_summary
  <2> HIDE DEF summary
  <2> QED
    BY <2>1 DEF get_all_tournaments
<1>2. summary.current = OpenTours
  BY DEF get_tournaments_summary
<1>3. DOMAIN get_tournaments_list(Min(Players)) = {t \in Tours : stage[t] # "none"}
  BY DEF get_tournaments_list
<1>4. {t \in DOMAIN get_tournaments_list(Min(Players)) : stage[t] # "finished"} = OpenTours
  BY <1>3 DEF ShowInv, ShowTyped, ShowcaseTypeOK, OpenTours
<1> HIDE DEF summary
<1> QED
  BY <1>1, <1>2, <1>4 DEF summary

LEMMA ViewsShown == ShowInv => ViewsAgree
<1> SUFFICES ASSUME ShowInv PROVE ViewsAgree
  OBVIOUS
<1>1. \A u \in Players : HistoryAgrees(u)
  BY HistoryAgreesAll
<1>2. LET order == get_leaderboard
      IN \A i \in 2 .. Len(order) : get_balances(order[i - 1]).available >= get_balances(order[i]).available
  BY LeaderboardOrdered
<1>3. LET summary == get_tournaments_summary
      IN /\ \A s \in DOMAIN summary.count : summary.count[s] = Cardinality(get_all_tournaments(s))
         /\ summary.answer = "summary" =>
              {t \in DOMAIN get_tournaments_list(Min(Players)) : stage[t] # "finished"} = summary.current
  BY SummaryAgrees
<1> QED
  BY <1>1, <1>2, <1>3 DEF ViewsAgree, HistoryAgrees

-----------------------------------------------------------------------------
(* What is shown: live scores *)

Card(c) == [card |-> c, score |-> RowOf(c).score]
InfoBody(g, d) ==
  [s \in SUBSET DOMAIN d |-> IF s = {} THEN <<>>
     ELSE IF d[Max(s)] \in InCatalog THEN Append(g[s \ {Max(s)}], Card(d[Max(s)])) ELSE g[s \ {Max(s)}]]

LEMMA InfoIs == ASSUME NEW d
                PROVE  get_full_cards_info(d) = (CHOOSE g : g = InfoBody(g, d))[DOMAIN d]
BY DEF get_full_cards_info, FoldLeft, MapThenFoldSet, InfoBody, Card

LEMMA RowOfCard ==
  ASSUME ShowInv, NEW c \in InCatalog
  PROVE  RowOf(c) \in catalog /\ RowOf(c).card = c /\ RowOf(c) \in CatalogRow /\ RowOf(c).token = TokenOfKind[c]
<1>1. \E r \in catalog : r.card = c
  BY DEF InCatalog
<1>2. RowOf(c) \in catalog /\ RowOf(c).card = c
  BY <1>1 DEF RowOf
<1>3. catalog \in SUBSET CatalogRow /\ \A r \in catalog : r.token = TokenOfKind[r.card]
  BY DEF ShowInv, ShowTyped
<1> QED
  BY <1>2, <1>3

\* A deck of which the catalog has all cards is shown card by card.
LEMMA InfoShown ==
  ASSUME ShowInv, NEW d \in Seq(Kinds), ToSet(d) \subseteq InCatalog
  PROVE  get_full_cards_info(d) = [i \in DOMAIN d |-> Card(d[i])]
<1> DEFINE n == Len(d)
           U == 1 .. n
           V == Seq([card : Kinds, score : Nat])
           x == [s \in SUBSET U |-> Max(s)]
           F == [s \in SUBSET U |-> [a \in V |-> IF s = {} THEN a ELSE Append(a, Card(d[Max(s)]))]]
<1>1. DOMAIN d = U /\ n \in Nat /\ IsFiniteSet(U)
  BY FS_Interval
<1>2. \A s \in SUBSET U : s # {} => Max(s) \in s
  <2> TAKE s \in SUBSET U
  <2> HAVE s # {}
  <2>1. s \in SUBSET Int
    BY <1>1
  <2>2. IsFiniteSet(s)
    BY <1>1, FS_Subset
  <2> QED
    BY <2>1, <2>2, MaxOf
<1>3. \A i \in U : d[i] \in InCatalog /\ Card(d[i]) \in [card : Kinds, score : Nat]
  <2> SUFFICES ASSUME NEW i \in U
               PROVE  d[i] \in InCatalog /\ Card(d[i]) \in [card : Kinds, score : Nat]
    OBVIOUS
  <2>1. d[i] \in Kinds /\ d[i] \in InCatalog
    BY <1>1 DEF ToSet
  <2>2. RowOf(d[i]).score \in Nat
    BY <2>1, RowOfCard DEF CatalogRow
  <2> QED
    BY <2>1, <2>2 DEF Card
<1>4. \E g : g = InfoBody(g, d)
  <2>1. F \in [SUBSET U -> [V -> V]]
    <3>1. \A s \in SUBSET U, a \in V : (IF s = {} THEN a ELSE Append(a, Card(d[Max(s)]))) \in V
      <4> SUFFICES ASSUME NEW s \in SUBSET U, NEW a \in V, s # {} PROVE Append(a, Card(d[Max(s)])) \in V
        OBVIOUS
      <4>1. Card(d[Max(s)]) \in [card : Kinds, score : Nat]
        BY <1>2, <1>3
      <4> QED
        BY <4>1
    <3> HIDE DEF V, U
    <3> QED
      BY <3>1
  <2>2. Takes(x, U)
    BY <1>2 DEF Takes
  <2>3. <<>> \in V
    OBVIOUS
  <2> HIDE DEF F, x, U, V
  <2>4. Foldable(<<>>, F, x, V, U)
    BY <1>1, <2>1, <2>2, <2>3 DEF Foldable
  <2>5. PICK g : Folded(g, <<>>, F, x, V, U)
    BY <2>4, FoldExists
  <2>6. ASSUME NEW s \in SUBSET U
        PROVE  g[s] = IF s = {} THEN <<>>
                      ELSE IF d[Max(s)] \in InCatalog THEN Append(g[s \ {Max(s)}], Card(d[Max(s)]))
                           ELSE g[s \ {Max(s)}]
    <3>1. g[s] = IF s = {} THEN <<>> ELSE F[s][g[s \ {x[s]}]]
      BY <2>5 DEF Folded
    <3>2. x[s] = Max(s)
      BY DEF x
    <3>3. s # {} => g[s \ {Max(s)}] \in V /\ d[Max(s)] \in InCatalog
      BY <1>2, <1>3, <2>5 DEF Folded
    <3> QED
      BY <3>1, <3>2, <3>3 DEF F
  <2>7. g = InfoBody(g, d)
    BY <1>1, <2>5, <2>6 DEF InfoBody, Folded
  <2> QED
    BY <2>7
<1> HIDE DEF F, x, V
<1>5. PICK g : g = InfoBody(g, d) /\ get_full_cards_info(d) = g[U]
  BY <1>1, <1>4, InfoIs
<1>6. g[{}] = <<>>
  BY <1>5 DEF InfoBody
<1> DEFINE T == {k \in 0 .. n : g[1 .. k] = [i \in 1 .. k |-> Card(d[i])]}
<1>7. ASSUME NEW k \in 1 .. n, k - 1 \in T PROVE g[1 .. k] = [i \in 1 .. k |-> Card(d[i])]
  <2>0. k \in Nat /\ k \in U /\ k \in 1 .. k
    BY <1>1
  <2>1. 1 .. k \in SUBSET U /\ 1 .. k # {}
    <3>1. \A j \in 1 .. k : j \in 1 .. n
      BY <1>1, <2>0
    <3> QED
      BY <2>0, <3>1
  <2>2. g[1 .. k] = Append(g[1 .. k - 1], Card(d[k]))
    <3>1. Max(1 .. k) = k /\ (1 .. k) \ {Max(1 .. k)} = 1 .. k - 1
      BY <2>0, <2>1, LastOfRange
    <3>2. d[k] \in InCatalog
      BY <1>3, <2>0
    <3> HIDE DEF U
    <3>3. g[1 .. k] = IF d[Max(1 .. k)] \in InCatalog
                      THEN Append(g[(1 .. k) \ {Max(1 .. k)}], Card(d[Max(1 .. k)]))
                      ELSE g[(1 .. k) \ {Max(1 .. k)}]
      BY <1>1, <1>5, <2>1 DEF InfoBody
    <3> QED
      BY <3>1, <3>2, <3>3
  <2>3. g[1 .. k - 1] = [i \in 1 .. k - 1 |-> Card(d[i])]
    BY <1>7
  <2> HIDE DEF U, T
  <2>4. Append([i \in 1 .. k - 1 |-> Card(d[i])], Card(d[k])) = [i \in 1 .. k |-> Card(d[i])]
    BY <2>0
  <2> QED
    BY <2>2, <2>3, <2>4
<1>8. 0 \in T
  <2>1. 1 .. 0 = {} /\ [i \in 1 .. 0 |-> Card(d[i])] = <<>>
    OBVIOUS
  <2> QED
    BY <1>1, <1>6, <2>1
<1>9. n \in T
  <2>1. \A k \in 1 .. n : k - 1 \in T => k \in T
    BY <1>1, <1>7
  <2> HIDE DEF T, n
  <2> QED
    BY <1>1, <1>8, <2>1, UpTo
<1> QED
  BY <1>1, <1>5, <1>9

ByScore(list) ==
  \A i, j \in DOMAIN list : i < j =>
    \/ TokenScore(list[i]) > TokenScore(list[j])
    \/ TokenScore(list[i]) = TokenScore(list[j]) /\ list[i] < list[j]

\* A token has the score of the row of its card, if the catalog has one.
LEMMA ScoreOfToken ==
  ASSUME ShowInv, NEW m \in ShownTokens
  PROVE  TokenScore(m) \in Nat /\ \A r \in catalog : r.token = m => r.score = TokenScore(m)
<1> DEFINE scores == {r.score : r \in {r \in catalog : r.token = m}}
<1>1. TokenScore(m) = IF scores = {} THEN 0 ELSE Max(scores)
  BY DEF TokenScore
<1>2. ASSUME NEW r \in catalog, r.token = m
      PROVE  TokenScore(m) = r.score /\ r.score \in Nat
  <2>1. \A q \in catalog : q.token = m => q = r
    BY <1>2 DEF ShowInv, ShowTyped
  <2>2. scores = {r.score}
    BY <1>2, <2>1
  <2> HIDE DEF scores
  <2>3. r.score \in Nat
    BY DEF ShowInv, ShowTyped, CatalogRow
  <2>4. scores \in SUBSET Int /\ scores # {} /\ IsFiniteSet(scores)
    <3>1. IsFiniteSet({r.score})
      BY FS_Singleton
    <3> QED
      BY <2>2, <2>3, <3>1
  <2>5. Max(scores) \in scores
    BY <2>4, MaxOf
  <2> QED
    BY <1>1, <2>2, <2>3, <2>5
<1>3. scores # {} => \E r \in catalog : r.token = m
  OBVIOUS
<1> HIDE DEF scores
<1> QED
  BY <1>1, <1>2, <1>3

LEMMA TokensOrdered ==
  ASSUME ShowInv, NEW k \in traded
  PROVE  /\ TokenScore(Head(list_tokens_with_prices)) >= TokenScore(k)
         /\ TokenScore(Head(list_tokens_with_prices)) \in Nat
<1>1. traded \subseteq ShownTokens /\ \A m \in traded : TokenScore(m) \in Nat
  BY ScoreOfToken DEF ShowInv, ShowTyped, ShowcaseTypeOK
<1> DEFINE R == {p \in traded \X traded :
                   \/ TokenScore(p[1]) > TokenScore(p[2])
                   \/ TokenScore(p[1]) = TokenScore(p[2]) /\ p[1] < p[2]}
<1>2. \A m, l \in traded : <<m, l>> \in R <=>
        \/ TokenScore(m) > TokenScore(l)
        \/ TokenScore(m) = TokenScore(l) /\ m < l
  OBVIOUS
<1> HIDE DEF R
<1>3. traded \subseteq Nat /\ IsFiniteSet(traded)
  <2>1. TokenOfKind \in Surjection(Kinds, ShownTokens) /\ IsFiniteSet(Kinds)
    BY ShowcaseAssumption DEF Surjection, ShownTokens
  <2>2. ShownTokens \subseteq Nat
    BY ShowcaseAssumption DEF ShownTokens
  <2> QED
    BY <1>1, <2>1, <2>2, FS_Surjection, FS_Subset
<1>4. OrderOf(R, traded)
  <2>1. \A m \in traded : TokenScore(m) \in Nat /\ m \in Nat
    BY <1>1, <1>3
  <2> QED
    BY <1>2, <2>1 DEF OrderOf
<1>5. PICK q \in SetToSeqs(traded) : Sorted(q, R)
  BY <1>3, <1>4, SortExists
<1>6. PICK n \in Nat : n = Cardinality(traded) /\ \A p \in SetToSeqs(traded) :
        p \in [1 .. n -> traded] /\ DOMAIN p = 1 .. n /\ \A i, j \in 1 .. n : i # j => p[i] # p[j]
  <2>1. Cardinality(traded) \in Nat
    BY <1>3, FS_CardinalityType
  <2> QED
    BY <2>1 DEF SetToSeqs
<1>7. ByScore(q)
  <2>1. \A i \in DOMAIN q : q[i] \in traded
    BY <1>6
  <2> QED
    BY <1>2, <1>5, <2>1 DEF Sorted, ByScore
<1> DEFINE list == list_tokens_with_prices
<1>8. list \in SetToSeqs(traded) /\ ByScore(list)
  <2>1. list = CHOOSE p \in SetToSeqs(traded) : ByScore(p)
    BY DEF list_tokens_with_prices, ByScore
  <2> HIDE DEF list
  <2> QED
    BY <1>5, <1>7, <2>1
<1> HIDE DEF list
<1>9. PICK i \in 1 .. n : list[i] = k
  <2>1. list \in Injection(1 .. n, traded)
    BY <1>6, <1>8 DEF Injection, IsInjective
  <2>2. n = Cardinality(traded) /\ IsFiniteSet(1 .. n) /\ Cardinality(1 .. n) = n
    BY <1>6, FS_Interval
  <2>3. list \in Surjection(1 .. n, traded)
    BY <1>3, <2>1, <2>2, FS_Injection
  <2> QED
    BY <2>3 DEF Surjection
<1>10. list \in [1 .. n -> traded] /\ 1 \in 1 .. n /\ Head(list) = list[1]
  <2>1. list \in [1 .. n -> traded]
    BY <1>6, <1>8
  <2>2. 1 \in 1 .. n
    BY <1>9
  <2>3. list \in Seq(traded) /\ list # <<>>
    BY <2>1, <2>2, SeqDef
  <2>4. Head(list) = list[1]
    BY <2>3
  <2> QED
    BY <2>1, <2>2, <2>4
<1>11. TokenScore(list[1]) >= TokenScore(k)
  <2>1. CASE i = 1
    BY <1>1, <1>9, <2>1
  <2>2. CASE i # 1
    <3>1. 1 < i /\ 1 \in DOMAIN list /\ i \in DOMAIN list
      BY <1>9, <1>10, <2>2
    <3>2. TokenScore(list[1]) \in Nat /\ TokenScore(list[i]) \in Nat
      BY <1>1, <1>9, <1>10
    <3>3. TokenScore(list[1]) > TokenScore(list[i]) \/ TokenScore(list[1]) = TokenScore(list[i])
      BY <1>8, <3>1 DEF ByScore
    <3> QED
      BY <1>9, <3>2, <3>3
  <2> QED
    BY <2>1, <2>2
<1> QED
  BY <1>1, <1>10, <1>11 DEF list

DecksLive(u) ==
  LET t == Max(OpenTours)
  IN (/\ catalog = active_cards_with_score /\ OpenTours # {} /\ stage[t] = "ongoing" /\ ~over[t]
      /\ u \in Entrants(t) /\ ToSet(entered[t][u]) \subseteq listed) =>
       LET live == get_tournament_details(u, t).deck
       IN [i \in DOMAIN live |-> live[i].score] = CardScores(t, u)

LEMMA DecksShown == ASSUME ShowInv, NEW u \in Players PROVE DecksLive(u)
<1> DEFINE t == Max(OpenTours)
<1>1. ShowcaseTypeOK
  BY DEF ShowInv, ShowTyped
<1> SUFFICES ASSUME catalog = active_cards_with_score, OpenTours # {}, stage[t] = "ongoing", ~ over[t],
                    u \in Entrants(t), ToSet(entered[t][u]) \subseteq listed
             PROVE  LET live == get_tournament_details(u, t).deck
                    IN [i \in DOMAIN live |-> live[i].score] = CardScores(t, u)
  BY DEF DecksLive
<1>2. t \in Tours
  BY NewestOpen
<1> HIDE DEF t
<1>3. catalog = {[card |-> c, token |-> TokenOfKind[c], score |-> Live(t, c)] : c \in listed}
  BY DEF active_cards_with_score, t
<1>4. InCatalog = listed /\ listed \subseteq Kinds
  <2>1. ASSUME NEW c \in listed PROVE \E r \in catalog : r.card = c
    <3> DEFINE r == [card |-> c, token |-> TokenOfKind[c], score |-> Live(t, c)]
    <3>1. r \in catalog
      BY <1>3
    <3>2. r.card = c
      OBVIOUS
    <3> QED
      BY <3>1, <3>2
  <2>2. \A r \in catalog : r.card \in listed
    BY <1>3
  <2>3. InCatalog = listed
    BY <2>1, <2>2 DEF InCatalog
  <2> QED
    BY <1>1, <2>3 DEF ShowcaseTypeOK
<1>5. \A c \in listed : RowOf(c).score = Live(t, c)
  <2> SUFFICES ASSUME NEW c \in listed PROVE RowOf(c).score = Live(t, c)
    OBVIOUS
  <2>1. RowOf(c) \in catalog /\ RowOf(c).card = c
    BY <1>4, RowOfCard
  <2>2. PICK d \in listed : RowOf(c) = [card |-> d, token |-> TokenOfKind[d], score |-> Live(t, d)]
    BY <1>3, <2>1
  <2> QED
    BY <2>1, <2>2
<1>6. LET live == get_tournament_details(u, t).deck
      IN [i \in DOMAIN live |-> live[i].score] = CardScores(t, u)
  <2> DEFINE d == entered[t][u]
             live == get_tournament_details(u, t).deck
  <2>1. u \in Players /\ d # None
    BY DEF Entrants
  <2>2. d \in Seq(Kinds)
    BY <1>1, <1>2, <2>1, ShowcaseAssumption DEF ShowcaseTypeOK
  <2>3. live = get_full_cards_info(d)
    <3>1. entered[t][u] # None /\ stage[t] # "finished"
      BY <2>1
    <3> QED
      BY <3>1 DEF get_tournament_details
  <2> HIDE DEF live
  <2>4. live = [i \in DOMAIN d |-> Card(d[i])]
    BY <1>4, <2>2, <2>3, InfoShown
  <2>5. counted[t] = newest[t]
    BY <1>2 DEF ShowInv, RowsCounted
  <2>6. ASSUME NEW i \in DOMAIN d PROVE live[i].score = CardScore(t, d[i])
    <3>1. d[i] \in listed
      BY <2>2 DEF ToSet
    <3>2. live[i].score = Live(t, d[i])
      BY <1>5, <2>4, <3>1 DEF Card
    <3>3. Live(t, d[i]) = CardScore(t, d[i])
      BY <2>5 DEF Live, CardScore
    <3> QED
      BY <3>2, <3>3
  <2>7. CardScores(t, u) = [i \in DOMAIN d |-> CardScore(t, d[i])]
    BY DEF CardScores
  <2>8. DOMAIN live = DOMAIN d
    BY <2>4
  <2>9. [i \in DOMAIN live |-> live[i].score] = CardScores(t, u)
    BY <2>6, <2>7, <2>8
  <2> QED
    BY <2>9 DEF live
<1> QED
  BY <1>6 DEF t

LEMMA LiveShown == ShowInv => LiveScores
<1> SUFFICES ASSUME ShowInv PROVE LiveScores
  OBVIOUS
<1>1. ShowcaseTypeOK
  BY DEF ShowInv, ShowTyped
<1>2. \A u \in Players : DecksLive(u)
  BY DecksShown
<1>3. ASSUME NEW c \in InCatalog, NEW u \in Players
      PROVE  /\ get_cards_catalog[c] = TokenScore(TokenOfKind[c])
             /\ get_cards_catalog[c] \in {get_card_details(c).score} \cap {get_user_cards(u)[c]}
             /\ TokenOfKind[c] \in traded => get_cards_catalog[c] <= TokenScore(Head(list_tokens_with_prices))
  <2>1. c \in Kinds /\ TokenOfKind[c] \in ShownTokens
    BY <1>1 DEF ShownTokens, ShowcaseTypeOK
  <2>2. RowOf(c) \in catalog /\ RowOf(c).token = TokenOfKind[c]
    BY RowOfCard
  <2>3. RowOf(c).score = TokenScore(TokenOfKind[c]) /\ TokenScore(TokenOfKind[c]) \in Nat
    BY <2>1, <2>2, ScoreOfToken
  <2>4. TokenOfKind[c] \in traded =>
          /\ TokenScore(Head(list_tokens_with_prices)) >= TokenScore(TokenOfKind[c])
          /\ TokenScore(Head(list_tokens_with_prices)) \in Nat
    BY TokensOrdered
  <2>5. /\ get_cards_catalog[c] = RowOf(c).score /\ get_card_details(c).score = RowOf(c).score
        /\ get_user_cards(u)[c] = RowOf(c).score
    BY <2>1 DEF get_cards_catalog, get_card_details, get_user_cards
  <2> QED
    BY <2>3, <2>4, <2>5
<1>4. \A t : Entrants(t) \subseteq Players
  BY DEF Entrants
<1> DEFINE best == TokenScore(Head(list_tokens_with_prices))
<1>5. \A c \in InCatalog, u \in Players :
        /\ get_cards_catalog[c] = TokenScore(TokenOfKind[c])
        /\ get_cards_catalog[c] \in {get_card_details(c).score} \cap {get_user_cards(u)[c]}
        /\ TokenOfKind[c] \in traded => get_cards_catalog[c] <= best
  BY <1>3
<1>6. LET t == Max(OpenTours)
      IN catalog = active_cards_with_score /\ OpenTours # {} /\ stage[t] = "ongoing" /\ ~over[t] =>
           \A u \in Entrants(t) : ToSet(entered[t][u]) \subseteq listed =>
             LET live == get_tournament_details(u, t).deck
             IN [i \in DOMAIN live |-> live[i].score] = CardScores(t, u)
  BY <1>2, <1>4 DEF DecksLive
<1> QED
  BY <1>1, <1>5, <1>6 DEF LiveScores

-----------------------------------------------------------------------------
(* What holds *)

\* A client that has read the history to an empty page with a total was shown every
\* opening there was when it began, and one that saw none was told a total of 0; a
\* pack of an active type is offered until its cards are shown.
THEOREM HistoryTheorem == ShelfSpec => []HistoryComplete
BY ShelfInvariant, ReadComplete, PTL

\* Whatever is switched during a draw, a symbol fills no more cards than its pools
\* list it, and only symbols without a card make a pack smaller than promised.
THEOREM DrawTheorem == ShelfSpec => []DrawKept
<1>1. ShelfSpec => []Drawn
  BY ShelfInvariant, DrawnInit, DrawnNext, PTL DEF ShelfSpec
<1> QED
  BY <1>1, ShelfInvariant, DrawnKept, PTL

\* Whoever reveals, with whichever of the signatures, a commit is settled, a second time
\* only in callbacks to a wallet with code; and where no wallet has code a card is of one
\* reveal, its user's until it is sent on or burned, and what the backend signed is usable.
THEOREM CommitsSettled == ContractSpec => []CommitsKept
BY ContractInvariant, ContractInvSafe, PTL

\* The funds are the sales less the withdrawals, and a claim is paid once.
THEOREM MoneyAccounted == ContractSpec => [](ContractTypeOK /\ FundsAreSales /\ ClaimPaidOnce)
<1>1. ContractInv => ContractTypeOK /\ FundsAreSales /\ ClaimPaidOnce
  BY DEF ContractInv, ContractTypes, Accounts
<1>. QED
  BY <1>1, ContractInvariant, PTL

\* Packs, too: every pack issued is in a wallet, waits for its commit or was revealed,
\* at every point of a reveal and of the calls within it.
THEOREM PacksTheorem == ContractSpec => []ContractAccounts
<1>1. ContractInv /\ PacksCounted => ContractAccounts
  BY CountedAccounts DEF ContractInv, ContractTypes, Accounts, ContractAccounts
<1>. QED
  BY <1>1, ContractInvariant, PacksInit, PacksNext, PTL DEF ContractSpec

\* Whatever is switched and scored later, every page of a finished tournament shows a
\* deck with the scores it was ranked by, and none shows it to others before play.
THEOREM RankedTheorem == ShowcaseSpec => []ShownAsRanked
BY ShowcaseAlways, RanksShown, PTL

\* At every point of play, of the end and of the rewards, profile, history, leaderboards
\* and the panel agree, and the balances are what was won.
THEOREM ViewsTheorem == ShowcaseSpec => []ViewsAgree
BY ShowcaseAlways, ViewsShown, PTL

\* While play goes on and the view is up to date, a deck is shown the scores it would be
\* ranked by; and whatever the view has, no card of an active token outscores the first
\* token of the list.
THEOREM LiveTheorem == ShowcaseSpec => []LiveScores
BY ShowcaseAlways, LiveShown, PTL
================================================================================
