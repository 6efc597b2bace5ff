---------------------------- MODULE ScoringProofs ----------------------------
(***************************************************************************)
(* What scores and prizes guarantee, whatever the tokens, the quotes, the  *)
(* pools and the number of decks.                                          *)
(*                                                                         *)
(* FairMarket: stored prices lie between the quotes they were taken from,  *)
(* scores cover their range and reward the gain, weights follow the scores *)
(* and add up.  FairPrizes: a rank gives the pool away and no more, pays   *)
(* no deck more than a better one and loses nothing to a tie.              *)
(*                                                                         *)
(* Below them: sums over sets, quotients, and the table of prizes as runs  *)
(* of places that follow each other and fall (Tabled), whatever wins.      *)
(***************************************************************************)
EXTENDS Market, PrizeTable, PartsProofs

-----------------------------------------------------------------------------
(* Sums *)

OverBody(g, v, S) ==
  [s \in SUBSET S |-> IF s = {} THEN 0
     ELSE v[CHOOSE x \in s : TRUE] + g[s \ {CHOOSE x \in s : TRUE}]]

\* A sum is the value at the whole set of the function that recurs on its subsets.
LEMMA OverIs == ASSUME NEW v, NEW S
                PROVE  SumOver(v, S) = (CHOOSE g : g = OverBody(g, v, S))[S]
BY DEF SumOver, MapThenSumSet, MapThenFoldSet, OverBody

Whole(v, S) == \A x \in S : v[x] \in Int

LEMMA OverSolves ==
  ASSUME NEW S, IsFiniteSet(S), NEW v, Whole(v, S)
  PROVE  \E g : Solves(g, [x \in S |-> v[x]], S) /\ SumOver(v, S) = g[S]
<1> DEFINE w == [x \in S |-> v[x]]
<1>1. \A g : g = OverBody(g, v, S) <=> Solves(g, w, S)
  <2>1. \A s \in SUBSET S : s # {} => w[Picked(s)] = v[CHOOSE x \in s : TRUE]
    BY PickedIn DEF Picked
  <2> HIDE DEF w
  <2> QED
    BY <2>1 DEF OverBody, Solves, Picked
<1>2. \E g : g = OverBody(g, v, S)
  <2>1. w \in [S -> Int]
    BY DEF Whole
  <2> HIDE DEF w
  <2> QED
    BY <1>1, <2>1, SumExists
<1> QED
  BY <1>1, <1>2, OverIs

\* A sum of numbers is a number, and grows by what is added.
LEMMA SumOverAdds ==
  ASSUME NEW S, IsFiniteSet(S), NEW v, Whole(v, S)
  PROVE  /\ SumOver(v, S) \in Int
         /\ S = {} => SumOver(v, S) = 0
         /\ \A x \in S : SumOver(v, S) = SumOver(v, S \ {x}) + v[x]
<1> DEFINE w == [x \in S |-> v[x]]
<1>1. w \in [S -> Int]
  BY DEF Whole
<1>2. \A x \in S : w[x] = v[x]
  OBVIOUS
<1>3. PICK g : Solves(g, w, S) /\ SumOver(v, S) = g[S]
  BY OverSolves
<1> HIDE DEF w
<1>4. g[{}] = 0 /\ g[S] \in Int /\ Grows(g, w, S)
  BY <1>1, <1>3, SumAdds
<1>5. ASSUME NEW x \in S
      PROVE  SumOver(v, S) = SumOver(v, S \ {x}) + v[x]
  <2> DEFINE A == S \ {x}
             u == [y \in A |-> v[y]]
  <2>1. IsFiniteSet(A) /\ Whole(v, A)
    BY FS_Subset DEF Whole
  <2>2. PICK h : Solves(h, u, A) /\ SumOver(v, A) = h[A]
    BY <2>1, OverSolves
  <2>3. u \in [A -> Int] /\ \A y \in A : u[y] = w[y]
    BY <1>2 DEF Whole
  <2>4. IsSum(SumOver(v, A), u, A)
    BY <2>2 DEF IsSum
  <2>5. SumOver(v, A) = g[A]
    <3>1. A \in SUBSET S
      OBVIOUS
    <3> HIDE DEF A, u
    <3> QED
      BY <1>1, <1>3, <2>3, <2>4, <3>1, SumPart
  <2> QED
    BY <1>2, <1>3, <1>4, <2>5 DEF Grows
<1> QED
  BY <1>3, <1>4, <1>5

\* Two functions equal on a set have the same sum over it.
LEMMA SumOverSame ==
  ASSUME NEW S, IsFiniteSet(S), NEW v, NEW w, Whole(v, S), \A x \in S : v[x] = w[x]
  PROVE  SumOver(v, S) = SumOver(w, S)
<1>1. [x \in S |-> v[x]] = [x \in S |-> w[x]] /\ [x \in S |-> v[x]] \in [S -> Int] /\ Whole(w, S)
  BY DEF Whole
<1>2. IsSum(SumOver(v, S), [x \in S |-> v[x]], S)
  BY OverSolves DEF IsSum
<1>3. IsSum(SumOver(w, S), [x \in S |-> w[x]], S)
  BY <1>1, OverSolves DEF IsSum
<1> QED
  BY <1>1, <1>2, <1>3, SumUnique

\* Every value as much as another, in every place.
LEMMA SumOverLess ==
  ASSUME NEW S, IsFiniteSet(S), NEW v, NEW w, Whole(v, S), Whole(w, S), \A x \in S : v[x] <= w[x]
  PROVE  SumOver(v, S) <= SumOver(w, S)
<1> DEFINE T == {s \in SUBSET S : SumOver(v, s) <= SumOver(w, s)}
<1>1. ASSUME NEW s \in SUBSET S, \A x \in s : s \ {x} \in T
      PROVE  s \in T
  <2>1. IsFiniteSet(s) /\ Whole(v, s) /\ Whole(w, s)
    BY FS_Subset DEF Whole
  <2>2. CASE s = {}
    <3>1. SumOver(v, s) = 0 /\ SumOver(w, s) = 0
      BY <2>1, <2>2, SumOverAdds
    <3> QED
      BY <3>1
  <2>3. ASSUME NEW x \in s PROVE s \in T
    <3>1. IsFiniteSet(s \ {x}) /\ Whole(v, s \ {x}) /\ Whole(w, s \ {x})
      BY <2>1, FS_Subset DEF Whole
    <3>2. SumOver(v, s \ {x}) \in Int /\ SumOver(w, s \ {x}) \in Int
      BY <3>1, SumOverAdds
    <3>3. SumOver(v, s) = SumOver(v, s \ {x}) + v[x] /\ SumOver(w, s) = SumOver(w, s \ {x}) + w[x]
      BY <2>1, SumOverAdds
    <3>4. SumOver(v, s \ {x}) <= SumOver(w, s \ {x})
      BY <1>1
    <3>5. v[x] \in Int /\ w[x] \in Int /\ v[x] <= w[x]
      BY <2>1 DEF Whole
    <3>6. SumOver(v, s) <= SumOver(w, s)
      BY <3>2, <3>3, <3>4, <3>5
    <3> QED
      BY <3>6
  <2> QED
    BY <2>2, <2>3
<1>2. S \in T
  <2> HIDE DEF T
  <2> QED
    BY <1>1, AllSubsets
<1> QED
  BY <1>2

\* c times each value less d is c times the sum less d for each.
LEMMA SumOverLinear ==
  ASSUME NEW S, IsFiniteSet(S), NEW v, NEW w, Whole(w, S), NEW c \in Int, NEW d \in Int,
         \A x \in S : v[x] = c * w[x] - d
  PROVE  Whole(v, S) /\ SumOver(v, S) = c * SumOver(w, S) - d * Cardinality(S)
<1>0. Whole(v, S)
  <2>1. \A x \in S : c * w[x] - d \in Int
    BY DEF Whole
  <2> QED
    BY <2>1 DEF Whole
<1> DEFINE T == {s \in SUBSET S : SumOver(v, s) = c * SumOver(w, s) - d * Cardinality(s)}
<1>1. ASSUME NEW s \in SUBSET S, \A x \in s : s \ {x} \in T
      PROVE  s \in T
  <2>1. IsFiniteSet(s) /\ Whole(v, s) /\ Whole(w, s)
    BY <1>0, FS_Subset DEF Whole
  <2>2. CASE s = {}
    <3>1. SumOver(v, s) = 0 /\ SumOver(w, s) = 0 /\ Cardinality(s) = 0
      BY <2>1, <2>2, SumOverAdds, FS_EmptySet
    <3>2. SumOver(v, s) = c * SumOver(w, s) - d * Cardinality(s)
      BY <3>1
    <3> QED
      BY <3>2
  <2>3. ASSUME NEW x \in s PROVE s \in T
    <3>1. IsFiniteSet(s \ {x}) /\ Whole(v, s \ {x}) /\ Whole(w, s \ {x})
      BY <2>1, FS_Subset DEF Whole
    <3>2. PICK a \in Int, b \in Int, k \in Int :
            a = SumOver(v, s \ {x}) /\ b = SumOver(w, s \ {x}) /\ k = Cardinality(s \ {x})
      BY <3>1, SumOverAdds, FS_CardinalityType
    <3>3. SumOver(v, s) = a + v[x] /\ SumOver(w, s) = b + w[x]
      BY <2>1, <3>2, SumOverAdds
    <3>4. Cardinality(s) = k + 1
      <4>1. Cardinality(s \ {x}) = Cardinality(s) - 1 /\ Cardinality(s) \in Nat
        BY Without
      <4> QED
        BY <3>2, <4>1
    <3>5. a = c * b - d * k
      BY <1>1, <3>2
    <3>6. w[x] \in Int /\ v[x] = c * w[x] - d
      BY <2>1 DEF Whole
    <3>7. a + v[x] = c * (b + w[x]) - d * (k + 1)
      BY <3>5, <3>6
    <3>8. SumOver(v, s) = c * SumOver(w, s) - d * Cardinality(s)
      BY <3>3, <3>4, <3>7
    <3> QED
      BY <3>8
  <2> QED
    BY <2>2, <2>3
<1>2. S \in T
  <2> HIDE DEF T
  <2> QED
    BY <1>1, AllSubsets
<1> QED
  BY <1>0, <1>2

\* A constant adds up to its multiple by the size of the set.
LEMMA SumOverConstant ==
  ASSUME NEW S, IsFiniteSet(S), NEW w, NEW d \in Int, \A x \in S : w[x] = d
  PROVE  SumOver(w, S) = d * Cardinality(S)
<1> DEFINE T == {s \in SUBSET S : SumOver(w, s) = d * Cardinality(s)}
<1>1. ASSUME NEW s \in SUBSET S, \A x \in s : s \ {x} \in T
      PROVE  s \in T
  <2>1. IsFiniteSet(s) /\ Whole(w, s)
    BY FS_Subset DEF Whole
  <2>2. CASE s = {}
    <3>1. SumOver(w, s) = 0 /\ Cardinality(s) = 0
      BY <2>1, <2>2, SumOverAdds, FS_EmptySet
    <3>2. SumOver(w, s) = d * Cardinality(s)
      BY <3>1
    <3> QED
      BY <3>2
  <2>3. ASSUME NEW x \in s PROVE s \in T
    <3>1. SumOver(w, s) = SumOver(w, s \ {x}) + d
      BY <2>1, SumOverAdds
    <3>2. Cardinality(s \ {x}) = Cardinality(s) - 1 /\ Cardinality(s) \in Nat
      BY Without
    <3>3. SumOver(w, s \ {x}) = d * Cardinality(s \ {x})
      BY <1>1
    <3>4. d * (Cardinality(s) - 1) + d = d * Cardinality(s)
      BY <3>2
    <3>5. SumOver(w, s) = d * Cardinality(s)
      BY <3>1, <3>2, <3>3, <3>4
    <3> QED
      BY <3>5
  <2> QED
    BY <2>2, <2>3
<1>2. S \in T
  <2> HIDE DEF T
  <2> QED
    BY <1>1, AllSubsets
<1> QED
  BY <1>2

\* Values of at least d add up to d times their number.
LEMMA SumOverAtLeast ==
  ASSUME NEW S, IsFiniteSet(S), NEW v, Whole(v, S), NEW d \in Int, \A x \in S : d <= v[x]
  PROVE  d * Cardinality(S) <= SumOver(v, S)
<1> DEFINE w == [x \in S |-> d]
<1>1. Whole(w, S) /\ \A x \in S : w[x] = d /\ w[x] <= v[x]
  BY DEF Whole
<1> HIDE DEF w
<1>2. SumOver(w, S) = d * Cardinality(S)
  BY <1>1, SumOverConstant
<1>3. SumOver(w, S) <= SumOver(v, S)
  BY <1>1, SumOverLess
<1> QED
  BY <1>2, <1>3

\* A sum of values of at most d is at most d for each.
LEMMA SumOverAtMost ==
  ASSUME NEW S, IsFiniteSet(S), NEW v, Whole(v, S), NEW d \in Int, \A x \in S : v[x] <= d
  PROVE  SumOver(v, S) <= d * Cardinality(S)
<1> DEFINE w == [x \in S |-> d]
<1>1. Whole(w, S) /\ \A x \in S : w[x] = d /\ v[x] <= w[x]
  BY DEF Whole
<1> HIDE DEF w
<1>2. SumOver(w, S) = d * Cardinality(S)
  BY <1>1, SumOverConstant
<1>3. SumOver(v, S) <= SumOver(w, S)
  BY <1>1, SumOverLess
<1> QED
  BY <1>2, <1>3

\* The values of a function on a finite set are finitely many.
LEMMA ValuesFinite ==
  ASSUME NEW S, IsFiniteSet(S), NEW v
  PROVE  IsFiniteSet({v[x] : x \in S})
<1> DEFINE T == {v[x] : x \in S}
           f == [x \in S |-> v[x]]
<1>1. f \in Surjection(S, T)
  BY DEF Surjection
<1> QED
  BY <1>1, FS_Surjection

\* The sum over two parts.
LEMMA SumOverParts ==
  ASSUME NEW A, NEW B, IsFiniteSet(A), IsFiniteSet(B), A \cap B = {},
         NEW v, Whole(v, A \cup B)
  PROVE  SumOver(v, A \cup B) = SumOver(v, A) + SumOver(v, B)
<1> DEFINE T == {s \in SUBSET B : SumOver(v, A \cup s) = SumOver(v, A) + SumOver(v, s)}
<1>0. Whole(v, A) /\ Whole(v, B) /\ SumOver(v, A) \in Int
  <2>1. Whole(v, A) /\ Whole(v, B)
    BY DEF Whole
  <2> QED
    BY <2>1, SumOverAdds
<1>1. ASSUME NEW s \in SUBSET B, \A x \in s : s \ {x} \in T
      PROVE  s \in T
  <2>1. /\ IsFiniteSet(s) /\ IsFiniteSet(A \cup s)
        /\ Whole(v, s) /\ Whole(v, A \cup s)
    BY FS_Subset, FS_Union DEF Whole
  <2>2. CASE s = {}
    <3>1. SumOver(v, s) = 0 /\ A \cup s = A
      BY <2>1, <2>2, SumOverAdds
    <3>2. SumOver(v, A \cup s) = SumOver(v, A) + SumOver(v, s)
      <4>1. SumOver(v, A \cup s) = SumOver(v, A)
        BY <3>1, Zenon
      <4> QED
        BY <1>0, <3>1, <4>1
    <3> QED
      BY <3>2
  <2>3. ASSUME NEW x \in s PROVE s \in T
    <3>1. x \in A \cup s /\ (A \cup s) \ {x} = A \cup (s \ {x})
      OBVIOUS
    <3>2. SumOver(v, A \cup s) = SumOver(v, A \cup (s \ {x})) + v[x]
      BY <2>1, <3>1, SumOverAdds
    <3>3. SumOver(v, s) = SumOver(v, s \ {x}) + v[x]
      BY <2>1, SumOverAdds
    <3>4. SumOver(v, A \cup (s \ {x})) = SumOver(v, A) + SumOver(v, s \ {x})
      BY <1>1
    <3>5. SumOver(v, s \ {x}) \in Int /\ v[x] \in Int
      <4>1. IsFiniteSet(s \ {x}) /\ Whole(v, s \ {x}) /\ v[x] \in Int
        BY <2>1, FS_Subset DEF Whole
      <4> QED
        BY <4>1, SumOverAdds
    <3>6. SumOver(v, A \cup s) = SumOver(v, A) + SumOver(v, s)
      BY <1>0, <3>2, <3>3, <3>4, <3>5
    <3> QED
      BY <3>6
  <2> QED
    BY <2>2, <2>3
<1>2. B \in T
  <2> HIDE DEF T
  <2> QED
    BY <1>1, AllSubsets
<1> QED
  BY <1>2

\* A sum over the images of an injection.
Onto(f, A, B) == /\ \A x \in A : f[x] \in B
                 /\ \A x, y \in A : f[x] = f[y] => x = y
                 /\ \A b \in B : \E x \in A : f[x] = b

LEMMA SumOverMoved ==
  ASSUME NEW A, NEW B, IsFiniteSet(A), IsFiniteSet(B), NEW f, Onto(f, A, B),
         NEW v, NEW w, Whole(w, B), \A x \in A : v[x] = w[f[x]]
  PROVE  SumOver(v, A) = SumOver(w, B)
<1> DEFINE Image(s) == {f[x] : x \in s}
           T == {s \in SUBSET A : SumOver(v, s) = SumOver(w, Image(s))}
<1>0. Whole(v, A)
  BY DEF Whole, Onto
<1>1. ASSUME NEW s \in SUBSET A, \A x \in s : s \ {x} \in T
      PROVE  s \in T
  <2>1. /\ IsFiniteSet(s) /\ IsFiniteSet(Image(s)) /\ Whole(v, s) /\ Whole(w, Image(s))
    <3>1. Image(s) \subseteq B
      BY DEF Onto
    <3>2. IsFiniteSet(s) /\ IsFiniteSet(Image(s))
      BY <3>1, FS_Subset
    <3> QED
      BY <1>0, <3>1, <3>2 DEF Whole
  <2>2. CASE s = {}
    <3>1. Image(s) = {}
      BY <2>2
    <3>2. SumOver(v, s) = 0 /\ SumOver(w, Image(s)) = 0
      <4> HIDE DEF Image
      <4> QED
        BY <2>1, <2>2, <3>1, SumOverAdds
    <3> QED
      BY <3>2
  <2>3. ASSUME NEW x \in s PROVE s \in T
    <3>1. f[x] \in Image(s) /\ Image(s) \ {f[x]} = Image(s \ {x})
      BY DEF Onto
    <3>2. SumOver(v, s \ {x}) = SumOver(w, Image(s \ {x}))
      BY <1>1
    <3>3. SumOver(v, s) = SumOver(v, s \ {x}) + v[x]
      BY <2>1, SumOverAdds
    <3>4. SumOver(w, Image(s)) = SumOver(w, Image(s) \ {f[x]}) + w[f[x]]
      <4> HIDE DEF Image
      <4> QED
        BY <2>1, <3>1, SumOverAdds
    <3>5. SumOver(v, s) = SumOver(w, Image(s))
      <4> HIDE DEF Image
      <4> QED
        BY <3>1, <3>2, <3>3, <3>4
    <3> QED
      BY <3>5
  <2> QED
    BY <2>2, <2>3
<1>2. A \in T
  <2> HIDE DEF T
  <2> QED
    BY <1>1, AllSubsets
<1>3. Image(A) = B
  BY DEF Onto
<1> QED
  BY <1>2, <1>3

\* As many others of a set together have no more than those that have the most.
LEMMA MostTogether ==
  ASSUME NEW S, IsFiniteSet(S), NEW A \in SUBSET S, NEW B \in SUBSET S,
         Cardinality(A) = Cardinality(B), NEW v, Whole(v, S),
         \A b \in B, x \in S \ B : v[x] <= v[b]
  PROVE  SumOver(v, A) <= SumOver(v, B)
<1> DEFINE C == A \ B
           D == B \ A
           E == A \cap B
<1>1. /\ IsFiniteSet(C) /\ IsFiniteSet(D) /\ IsFiniteSet(E)
      /\ Whole(v, C) /\ Whole(v, D) /\ Whole(v, E) /\ Whole(v, E \cup C) /\ Whole(v, E \cup D)
  BY FS_Subset DEF Whole
<1>2. A = E \cup C /\ B = E \cup D /\ E \cap C = {} /\ E \cap D = {}
  OBVIOUS
<1>3. Cardinality(C) = Cardinality(D)
  <2>1. Cardinality(A) = Cardinality(E) + Cardinality(C) - Cardinality(E \cap C)
    BY <1>1, <1>2, FS_Union
  <2>2. Cardinality(B) = Cardinality(E) + Cardinality(D) - Cardinality(E \cap D)
    BY <1>1, <1>2, FS_Union
  <2>3. /\ Cardinality(C) \in Int /\ Cardinality(D) \in Int /\ Cardinality(E) \in Int
        /\ Cardinality(E \cap C) = 0 /\ Cardinality(E \cap D) = 0
    <3>1. Cardinality(E \cap C) = 0 /\ Cardinality(E \cap D) = 0
      BY <1>2, FS_EmptySet, Zenon
    <3>2. Cardinality(C) \in Nat /\ Cardinality(D) \in Nat /\ Cardinality(E) \in Nat
      BY <1>1, FS_CardinalityType
    <3> QED
      BY <3>1, <3>2
  <2> HIDE DEF C, D, E
  <2> QED
    <3>1. Cardinality(A) = Cardinality(E) + Cardinality(C)
      BY <2>1, <2>3
    <3>2. Cardinality(B) = Cardinality(E) + Cardinality(D)
      BY <2>2, <2>3
    <3>3. Cardinality(E) + Cardinality(C) = Cardinality(E) + Cardinality(D)
      BY <3>1, <3>2, Zenon
    <3> QED
      BY <2>3, <3>3
<1>4. SumOver(v, A) = SumOver(v, E) + SumOver(v, C) /\ SumOver(v, B) = SumOver(v, E) + SumOver(v, D)
  <2> HIDE DEF C, D, E
  <2> QED
    BY <1>1, <1>2, SumOverParts
<1>5. SumOver(v, C) \in Int /\ SumOver(v, D) \in Int /\ SumOver(v, E) \in Int
  <2> HIDE DEF C, D, E
  <2> QED
    BY <1>1, SumOverAdds
<1>6. \A c \in C, d \in D : v[c] <= v[d]
  OBVIOUS
<1> HIDE DEF C, D, E
<1>7. SumOver(v, C) <= SumOver(v, D)
  <2>1. CASE C = {}
    <3>1. D = {}
      BY <1>1, <1>3, <2>1, FS_EmptySet
    <3> QED
      BY <1>5, <2>1, <3>1
  <2>2. CASE C # {}
    <3> DEFINE V == {v[c] : c \in C}
    <3>1. V \in SUBSET Int /\ V # {} /\ IsFiniteSet(V)
      <4>1. V \in SUBSET Int
        BY <1>1 DEF Whole
      <4>2. V # {}
        BY <2>2
      <4>3. IsFiniteSet(V)
        BY <1>1, ValuesFinite
      <4> QED
        BY <4>1, <4>2, <4>3
    <3>2. Max(V) \in V /\ \A x \in V : x <= Max(V)
      <4> HIDE DEF V
      <4> QED
        BY <3>1, MaxOf
    <3>3. PICK m \in Int : (\A c \in C : v[c] <= m) /\ \A d \in D : m <= v[d]
      <4>1. PICK c \in C : Max(V) = v[c]
        BY <3>2
      <4>2. v[c] \in Int /\ \A d \in C : v[d] <= v[c]
        BY <1>1, <3>2, <4>1 DEF Whole
      <4> QED
        BY <1>6, <4>2
    <3>4. SumOver(v, C) <= m * Cardinality(C)
      BY <1>1, <3>3, SumOverAtMost
    <3>5. m * Cardinality(D) <= SumOver(v, D)
      BY <1>1, <3>3, SumOverAtLeast
    <3>6. PICK k \in Int : k = m * Cardinality(C) /\ k = m * Cardinality(D)
      <4>1. Cardinality(C) \in Nat
        BY <1>1, FS_CardinalityType
      <4>2. m * Cardinality(C) \in Int
        BY <4>1
      <4> QED
        BY <1>3, <4>2
    <3> QED
      BY <1>5, <3>4, <3>5, <3>6
  <2> QED
    BY <2>1, <2>2
<1> QED
  BY <1>4, <1>5, <1>7

-----------------------------------------------------------------------------
(* Quotients *)

\* Quotients keep order, and are bounded as their dividends are.
LEMMA DivOrder == ASSUME NEW a \in Int, NEW c \in Int, NEW b \in Int, b > 0, a <= c
                  PROVE  a \div b \in Int /\ a \div b <= c \div b
OBVIOUS

LEMMA DivAtLeast == ASSUME NEW a \in Int, NEW c \in Int, NEW b \in Int, b > 0, c * b <= a
                    PROVE  a \div b \in Int /\ c <= a \div b
OBVIOUS

LEMMA DivAtMost == ASSUME NEW a \in Int, NEW c \in Int, NEW b \in Int, b > 0, a <= c * b
                   PROVE  a \div b \in Int /\ a \div b <= c
OBVIOUS

\* The shares of 500 that scores are made of.
LEMMA DivPart == ASSUME NEW a \in Int, NEW b \in Int, b > 0, 0 <= a, a <= b
                 PROVE  /\ (500 * a) \div b \in 0 .. 500
                        /\ a = b => (500 * a) \div b = 500
                        /\ a = 0 => (500 * a) \div b = 0
OBVIOUS

LEMMA ExtremeValues ==
  ASSUME NEW S, IsFiniteSet(S), S # {}, NEW v, Whole(v, S)
  PROVE  /\ \E x \in S : v[x] = Min({v[y] : y \in S}) /\ \A y \in S : v[x] <= v[y]
         /\ \E x \in S : v[x] = Max({v[y] : y \in S}) /\ \A y \in S : v[y] <= v[x]
<1> DEFINE V == {v[y] : y \in S}
<1>1. V \in SUBSET Int /\ V # {} /\ IsFiniteSet(V) /\ \A y \in S : v[y] \in V
  <2>1. V \in SUBSET Int
    BY DEF Whole
  <2>2. IsFiniteSet(V)
    BY ValuesFinite
  <2> QED
    BY <2>1, <2>2
<1>2. /\ Min(V) \in V /\ \A x \in V : Min(V) <= x
      /\ Max(V) \in V /\ \A x \in V : x <= Max(V)
  <2> HIDE DEF V
  <2> QED
    BY <1>1, MinOf, MaxOf
<1>3. PICK x \in S, z \in S : v[x] = Min(V) /\ v[z] = Max(V)
  BY <1>2
<1> HIDE DEF V
<1>4. (\A y \in S : v[x] <= v[y]) /\ \A y \in S : v[y] <= v[z]
  BY <1>1, <1>2, <1>3
<1> QED
  BY <1>3, <1>4 DEF V

-----------------------------------------------------------------------------
(* Prices *)

Quote == [price : Nat, flat : BOOLEAN]

\* An average of quotes lies between the least and the largest of them.
LEMMA AverageBetween ==
  ASSUME NEW q \in Seq(Quote), Quoted(q) # {}
  PROVE  /\ calculate_average_price(q) \in Nat \ {0}
         /\ \E i \in Quoted(q) : q[i].price <= calculate_average_price(q)
         /\ \E i \in Quoted(q) : calculate_average_price(q) <= q[i].price
<1> DEFINE S == Quoted(q)
           v == [i \in S |-> q[i].price]
           n == Cardinality(S)
<1>1. S \subseteq 1 .. Len(q) /\ \A i \in S : q[i].price \in Nat \ {0}
  <2>1. DOMAIN q = 1 .. Len(q) /\ \A i \in 1 .. Len(q) : q[i] \in Quote
    OBVIOUS
  <2>2. \A i \in 1 .. Len(q) : q[i].price \in Nat
    BY <2>1 DEF Quote
  <2> QED
    BY <2>1, <2>2 DEF Quoted
<1>2. IsFiniteSet(S) /\ n \in Nat /\ n # 0
  <2>1. IsFiniteSet(S)
    BY <1>1, FS_Interval, FS_Subset
  <2> QED
    BY <2>1, FS_CardinalityType, FS_EmptySet
<1>3. Whole(v, S) /\ \A i \in S : v[i] = q[i].price
  BY <1>1 DEF Whole
<1>4. calculate_average_price(q) = SumOver(v, S) \div n
  BY DEF calculate_average_price
<1> HIDE DEF S, v, n
<1>5. PICK i \in S, j \in S : \A y \in S : v[i] <= v[y] /\ v[y] <= v[j]
  <2>1. S # {}
    BY DEF S
  <2> QED
    BY <1>2, <1>3, <2>1, ExtremeValues
<1>6. v[i] \in Int /\ v[j] \in Int /\ v[i] > 0
  BY <1>1, <1>3
<1>7. SumOver(v, S) \in Int /\ v[i] * n <= SumOver(v, S) /\ SumOver(v, S) <= v[j] * n
  BY <1>2, <1>3, <1>5, <1>6, SumOverAdds, SumOverAtLeast, SumOverAtMost DEF n
<1>8. v[i] <= SumOver(v, S) \div n /\ SumOver(v, S) \div n <= v[j] /\ SumOver(v, S) \div n \in Int
  BY <1>2, <1>6, <1>7, DivAtLeast, DivAtMost
<1>9. calculate_average_price(q) \in Nat \ {0}
  BY <1>4, <1>6, <1>8
<1> QED
  BY <1>3, <1>4, <1>8, <1>9 DEF S

-----------------------------------------------------------------------------
(* The market: types *)

Value == 0 .. 1000 \cup {NoValue}

MarketTyped ==
  /\ active \in SUBSET Tokens /\ weight \in [Tokens -> 1 .. 10]
  /\ prices \in [Tokens -> Seq(TokenPrice)]
  /\ phase \in {"upcoming", "registration", "ongoing", "ended", "finished"}
  /\ snapshot \in [Tokens -> (Nat \ {0}) \cup {NoValue}]
  /\ since \in [Tokens -> Nat] /\ until \in [Tokens -> Nat]
  /\ \A t \in Tokens : since[t] <= Rows(t) /\ until[t] <= Rows(t) /\ Rows(t) <= cycles
  /\ score \in [Tokens -> Value] /\ latest \in [Tokens -> Value]
  /\ feed \in Feeds \cup {[t \in Tokens |-> <<>>]}
  /\ cycles \in 0 .. MaxCycles /\ toggles \in 0 .. MaxToggles

\* The typed state gives the type invariant, and the first state is typed.
LEMMA MarketTypedOK == MarketTyped => MarketTypeOK
<1> SUFFICES ASSUME MarketTyped PROVE MarketTypeOK
  OBVIOUS
<1>1. ASSUME NEW t \in Tokens
      PROVE  /\ snapshot[t] \in Nat \cup {NoValue}
             /\ since[t] \in 0 .. cycles /\ until[t] \in 0 .. cycles
             /\ score[t] \in 0 .. 1000 \cup {NoValue} /\ latest[t] \in 0 .. 1000 \cup {NoValue}
             /\ prices[t] \in Seq(TokenPrice)
  <2>1. prices[t] \in Seq(TokenPrice) /\ Rows(t) \in Nat /\ cycles \in Nat
    BY MarketAssumption DEF MarketTyped, Rows
  <2> QED
    BY <2>1 DEF MarketTyped, Value
<1> QED
  BY <1>1 DEF MarketTyped, MarketTypeOK

LEMMA MarketInitTyped == MarketInit => MarketTyped
<1> SUFFICES ASSUME MarketInit PROVE MarketTyped
  OBVIOUS
<1>1. Nothing \in [Tokens -> Value] /\ Nothing \in [Tokens -> (Nat \ {0}) \cup {NoValue}]
  BY DEF Nothing, Value
<1>2. \A t \in Tokens : Rows(t) = 0 /\ prices[t] = <<>>
  BY DEF MarketInit, Rows
<1>3. prices \in [Tokens -> Seq(TokenPrice)]
  BY DEF MarketInit
<1> QED
  BY <1>1, <1>2, <1>3, MarketAssumption DEF MarketInit, MarketTyped

\* What a cycle stores.
Priced(quotes) == {t \in active : Quoted(quotes[t]) # {}}
StoredNow(quotes) ==
  IF \E t \in Priced(quotes) : Unloggable(quotes[t]) THEN {} ELSE Priced(quotes)

\* Each action keeps the types.
LEMMA CycleKeeps ==
  ASSUME MarketTyped, NEW quotes \in Feeds, NEW cap \in Caps, MarketCycle(quotes, cap)
  PROVE  /\ MarketTyped'
         /\ \A t \in Tokens : Rows(t)' >= Rows(t)
         /\ \A t \in StoredNow(quotes) :
              /\ prices'[t] # prices[t]
              /\ Last(prices'[t]).price = calculate_average_price(quotes[t])
         /\ \A t \in Tokens \ StoredNow(quotes) : prices'[t] = prices[t]
<1> DEFINE stored == StoredNow(quotes)
           row(t) == [price |-> calculate_average_price(quotes[t]), cap |-> cap[t]]
<1>1. prices' = [t \in Tokens |-> IF t \notin stored THEN prices[t] ELSE Append(prices[t], row(t))]
  BY DEF MarketCycle, StoredNow, Priced
<1>2. /\ cycles < MaxCycles /\ cycles' = cycles + 1 /\ feed' = quotes
      /\ UNCHANGED <<active, weight, phase, snapshot, since, until, score, latest, toggles>>
  BY DEF MarketCycle
<1>3. quotes \in [Tokens -> Seq(Quote)] /\ cap \in [Tokens -> {0, 1, 1000, NoValue}]
  BY MarketAssumption DEF Quote
<1>4. stored \subseteq active /\ stored \subseteq Tokens /\ \A t \in stored : Quoted(quotes[t]) # {}
  BY DEF StoredNow, Priced, MarketTyped
<1>5. \A t \in stored : row(t) \in TokenPrice
  <2> TAKE t \in stored
  <2>1. calculate_average_price(quotes[t]) \in Nat \ {0}
    BY <1>3, <1>4, AverageBetween
  <2> QED
    BY <1>3, <1>4, <2>1 DEF TokenPrice
<1> HIDE DEF stored, row
<1>6. ASSUME NEW t \in Tokens
      PROVE  /\ prices[t] \in Seq(TokenPrice) /\ prices'[t] \in Seq(TokenPrice)
             /\ Len(prices'[t]) = IF t \in stored THEN Len(prices[t]) + 1 ELSE Len(prices[t])
             /\ t \in stored => Last(prices'[t]) = row(t)
             /\ t \notin stored => prices'[t] = prices[t]
  <2>1. prices[t] \in Seq(TokenPrice)
    BY DEF MarketTyped
  <2>2. CASE t \in stored
    <3>1. prices'[t] = Append(prices[t], row(t)) /\ row(t) \in TokenPrice
      BY <1>1, <1>5, <2>2
    <3> QED
      BY <2>1, <2>2, <3>1 DEF Last
  <2>3. CASE t \notin stored
    <3>1. prices'[t] = prices[t]
      BY <1>1, <2>3
    <3> QED
      BY <2>1, <2>3, <3>1
  <2> QED
    BY <2>2, <2>3
<1>7. MarketTyped'
  <2>1. prices' \in [Tokens -> Seq(TokenPrice)]
    BY <1>1, <1>6
  <2>2. cycles' \in 0 .. MaxCycles
    BY <1>2, MarketAssumption DEF MarketTyped
  <2>3. \A t \in Tokens : since[t] <= Rows(t)' /\ until[t] <= Rows(t)' /\ Rows(t)' <= cycles'
    <3> TAKE t \in Tokens
    <3>1. /\ Len(prices[t]) \in Nat /\ cycles \in Nat /\ since[t] \in Nat /\ until[t] \in Nat
          /\ since[t] <= Len(prices[t]) /\ until[t] <= Len(prices[t]) /\ Len(prices[t]) <= cycles
      BY <1>6 DEF MarketTyped, Rows
    <3>2. Len(prices'[t]) = Len(prices[t]) + 1 \/ Len(prices'[t]) = Len(prices[t])
      BY <1>6
    <3>3. cycles' = cycles + 1
      BY <1>2
    <3> QED
      BY <3>1, <3>2, <3>3 DEF Rows
  <2> QED
    BY <1>2, <2>1, <2>2, <2>3 DEF MarketTyped
<1>8. \A t \in Tokens : Rows(t)' >= Rows(t)
  BY <1>6 DEF Rows
<1>9. ASSUME NEW t \in stored
      PROVE  prices'[t] # prices[t] /\ Last(prices'[t]).price = calculate_average_price(quotes[t])
  <2>1. t \in Tokens
    BY <1>4
  <2>2. Len(prices'[t]) # Len(prices[t])
    BY <1>6, <2>1
  <2>3. Last(prices'[t]) = row(t) /\ prices'[t] # prices[t]
    BY <1>6, <2>1, <2>2
  <2>4. row(t).price = calculate_average_price(quotes[t])
    BY DEF row
  <2> QED
    BY <2>3, <2>4
<1> QED
  BY <1>6, <1>7, <1>8, <1>9 DEF stored

PricesStep ==
  LET new    == {t \in Tokens : prices'[t] # prices[t]}
      quoted == {t \in active : Quoted(feed'[t]) # {}}
  IN /\ new \in {{}, quoted}
     /\ \A t \in new :
          LET q == feed'[t]
              p == Last(prices'[t]).price
          IN /\ \E i \in Quoted(q) : q[i].price <= p
             /\ \E i \in Quoted(q) : p <= q[i].price

\* What a cycle writes for a token lies between the quotes it was given.
LEMMA CyclePrices ==
  ASSUME MarketTyped, NEW quotes \in Feeds, NEW cap \in Caps, MarketCycle(quotes, cap)
  PROVE  PricesStep
<1> DEFINE new == {t \in Tokens : prices'[t] # prices[t]}
<1>1. feed' = quotes /\ quotes \in [Tokens -> Seq(Quote)]
  BY MarketAssumption DEF MarketCycle, Quote
<1>2. StoredNow(quotes) \subseteq Priced(quotes) /\ StoredNow(quotes) \in {{}, Priced(quotes)}
  BY DEF StoredNow
<1>3. Priced(quotes) = {t \in active : Quoted(feed'[t]) # {}} /\ Priced(quotes) \subseteq Tokens
  BY <1>1 DEF Priced, MarketTyped
<1>4. new = StoredNow(quotes)
  <2>1. \A t \in Tokens : t \in StoredNow(quotes) <=> prices'[t] # prices[t]
    BY CycleKeeps
  <2> QED
    BY <1>2, <1>3, <2>1
<1>5. ASSUME NEW t \in new
      PROVE  /\ \E i \in Quoted(quotes[t]) : quotes[t][i].price <= Last(prices'[t]).price
             /\ \E i \in Quoted(quotes[t]) : Last(prices'[t]).price <= quotes[t][i].price
  <2>1. t \in StoredNow(quotes) /\ t \in Tokens /\ Quoted(quotes[t]) # {} /\ quotes[t] \in Seq(Quote)
    BY <1>1, <1>2, <1>3, <1>4 DEF Priced
  <2>2. Last(prices'[t]).price = calculate_average_price(quotes[t])
    BY <2>1, CycleKeeps
  <2> QED
    BY <2>1, <2>2, AverageBetween
<1> HIDE DEF new
<1>6. \A t \in new : LET q == feed'[t]
                         p == Last(prices'[t]).price
                     IN /\ \E i \in Quoted(q) : q[i].price <= p
                        /\ \E i \in Quoted(q) : p <= q[i].price
  BY <1>1, <1>5
<1> QED
  BY <1>2, <1>3, <1>4, <1>6 DEF PricesStep, new

\* A step that leaves the prices alone moves none of them out of its quotes.
LEMMA SamePrices == ASSUME prices' = prices PROVE PricesStep
<1>1. {t \in Tokens : prices'[t] # prices[t]} = {}
  OBVIOUS
<1> QED
  BY <1>1 DEF PricesStep

LEMMA RowsType ==
  ASSUME MarketTyped, NEW t \in Tokens
  PROVE  /\ Rows(t) \in Nat /\ prices[t] \in Seq(TokenPrice)
         /\ \A i \in 1 .. Rows(t) : /\ prices[t][i] \in TokenPrice
                                  /\ prices[t][i].price \in Nat \ {0}
                                  /\ prices[t][i].cap \in {0, 1, 1000, NoValue}
         /\ Rows(t) > 0 => Current(t) = prices[t][Rows(t)] /\ Rows(t) \in 1 .. Rows(t)
<1>1. prices[t] \in Seq(TokenPrice)
  BY DEF MarketTyped
<1>2. Rows(t) \in Nat /\ \A i \in 1 .. Rows(t) : prices[t][i] \in TokenPrice
  BY <1>1 DEF Rows
<1>3. \A r \in TokenPrice : r.price \in Nat \ {0} /\ r.cap \in {0, 1, 1000, NoValue}
  BY DEF TokenPrice
<1>4. Rows(t) > 0 => Current(t) = prices[t][Rows(t)] /\ Rows(t) \in 1 .. Rows(t)
  BY <1>2 DEF Current
<1> QED
  BY <1>1, <1>2, <1>3, <1>4

LEMMA ToggleKeeps ==
  ASSUME MarketTyped, NEW t \in Tokens, MarketToggle(t)
  PROVE  MarketTyped'
<1>1. active' \in SUBSET Tokens
  BY DEF MarketTyped, MarketToggle
<1>2. toggles' \in 0 .. MaxToggles
  BY MarketAssumption DEF MarketTyped, MarketToggle
<1>3. \A u \in Tokens : Rows(u)' = Rows(u)
  BY DEF MarketToggle, Rows
<1> QED
  BY <1>1, <1>2, <1>3 DEF MarketTyped, MarketToggle

LEMMA OpenKeeps == ASSUME MarketTyped, MarketOpen PROVE MarketTyped'
<1>1. \A t \in Tokens : Rows(t)' = Rows(t) /\ Rows(t) \in Nat
  BY RowsType DEF MarketOpen, Rows
<1>2. since' \in [Tokens -> Nat] /\ \A t \in Tokens : since'[t] = Rows(t)
  BY <1>1 DEF MarketOpen
<1>3. \A t \in Tokens : since'[t] <= Rows(t)' /\ until'[t] <= Rows(t)' /\ Rows(t)' <= cycles'
  BY <1>1, <1>2 DEF MarketTyped, MarketOpen
<1> QED
  BY <1>2, <1>3 DEF MarketTyped, MarketOpen

LEMMA StartKeeps == ASSUME MarketTyped, MarketStart PROVE MarketTyped'
<1>1. \A t \in Tokens : Rows(t)' = Rows(t)
  BY DEF MarketStart, Rows
<1>2. snapshot' \in [Tokens -> (Nat \ {0}) \cup {NoValue}]
  <2>1. ASSUME NEW t \in Tokens, Rows(t) # 0 PROVE Current(t).price \in Nat \ {0}
    BY <2>1, RowsType
  <2> QED
    BY <2>1 DEF MarketStart
<1>3. \A t \in Tokens : since'[t] <= Rows(t)' /\ until'[t] <= Rows(t)' /\ Rows(t)' <= cycles'
  BY <1>1 DEF MarketTyped, MarketStart
<1> QED
  BY <1>2, <1>3 DEF MarketTyped, MarketStart

LEMMA EndKeeps == ASSUME MarketTyped, MarketEnd PROVE MarketTyped'
<1>1. \A t \in Tokens : Rows(t)' = Rows(t) /\ Rows(t) \in Nat
  BY RowsType DEF MarketEnd, Rows
<1>2. until' \in [Tokens -> Nat] /\ \A t \in Tokens : until'[t] = Rows(t)
  BY <1>1 DEF MarketEnd
<1>3. \A t \in Tokens : since'[t] <= Rows(t)' /\ until'[t] <= Rows(t)' /\ Rows(t)' <= cycles'
  BY <1>1, <1>2 DEF MarketTyped, MarketEnd
<1> QED
  BY <1>2, <1>3 DEF MarketTyped, MarketEnd

LEMMA BatchKeeps ==
  ASSUME MarketTyped, NEW batch \in [Tokens -> Value], Store(batch)
  PROVE  MarketTyped'
<1>1. \A t \in Tokens : Rows(t)' = Rows(t)
  BY DEF Store, Rows
<1>2. latest' \in [Tokens -> Value] /\ score' \in [Tokens -> Value]
  BY DEF Store, MarketTyped
<1>3. UNCHANGED <<active, weight, prices, phase, snapshot, since, until, feed, cycles, toggles>>
  BY DEF Store
<1>4. \A t \in Tokens : since'[t] <= Rows(t)' /\ until'[t] <= Rows(t)' /\ Rows(t)' <= cycles'
  BY <1>1, <1>3 DEF MarketTyped
<1>5. /\ active' \in SUBSET Tokens /\ weight' \in [Tokens -> 1 .. 10]
      /\ prices' \in [Tokens -> Seq(TokenPrice)]
      /\ phase' \in {"upcoming", "registration", "ongoing", "ended", "finished"}
      /\ snapshot' \in [Tokens -> (Nat \ {0}) \cup {NoValue}]
      /\ since' \in [Tokens -> Nat] /\ until' \in [Tokens -> Nat]
      /\ cycles' \in 0 .. MaxCycles /\ toggles' \in 0 .. MaxToggles
  BY <1>3 DEF MarketTyped
<1>6. feed' \in Feeds \cup {[t \in Tokens |-> <<>>]}
  BY <1>3 DEF MarketTyped
<1> QED
  BY <1>2, <1>4, <1>5, <1>6 DEF MarketTyped

-----------------------------------------------------------------------------
(* Scores *)

\* The tokens a score is computed for are finitely many.
LEMMA EligibleFinite ==
  MarketTyped => IsFiniteSet(active) /\ IsFiniteSet(Eligible) /\ Eligible \subseteq Tokens
<1> SUFFICES ASSUME MarketTyped PROVE IsFiniteSet(active) /\ IsFiniteSet(Eligible) /\ Eligible \subseteq Tokens
  OBVIOUS
<1>1. active \subseteq Tokens /\ Eligible \subseteq active
  BY DEF MarketTyped, Eligible
<1>2. IsFiniteSet(active)
  BY <1>1, MarketAssumption, FS_Subset
<1> QED
  BY <1>1, <1>2, FS_Subset

\* Products keep order.
LEMMA TimesOrder == ASSUME NEW n \in Nat, NEW a \in Int, NEW b \in Int, a <= b
                    PROVE  n * a \in Int /\ n * b \in Int /\ n * a <= n * b
OBVIOUS

\* How far above the mean, times the number of tokens.
Off(raw, u) == Cardinality(Eligible) * raw[u] - SumOver(raw, Eligible)
Scaled(off, highest, lowest) ==
  IF highest = 0 THEN 500
  ELSE IF off >= 0 THEN 500 + (500 * off) \div highest
  ELSE (500 * (lowest + off)) \div lowest

\* The token farthest above the mean and the one farthest below it decide how
\* the distances are scaled; there is one below if there is one above.
LEMMA NormalizedIs ==
  ASSUME MarketTyped, Eligible # {}, NEW raw, Whole(raw, Eligible)
  PROVE  \E high \in Nat, low \in Nat :
           /\ high # 0 => low # 0
           /\ \A t \in Eligible : /\ Off(raw, t) \in Int /\ -low <= Off(raw, t) /\ Off(raw, t) <= high
                                  /\ Normalized(raw, t) = Scaled(Off(raw, t), high, low)
           /\ \E t \in Eligible : Off(raw, t) = high
           /\ \E t \in Eligible : Off(raw, t) = -low
<1> DEFINE n == Cardinality(Eligible)
           sum == SumOver(raw, Eligible)
           v == [u \in Eligible |-> Off(raw, u)]
           high == Max({v[u] : u \in Eligible})
           low == -Min({v[u] : u \in Eligible})
<1>1. IsFiniteSet(Eligible) /\ n \in Nat /\ sum \in Int
  BY EligibleFinite, FS_CardinalityType, SumOverAdds
<1>2. \A u \in Eligible : v[u] = n * raw[u] - sum
  BY DEF Off
<1>3. Whole(v, Eligible) /\ SumOver(v, Eligible) = 0
  <2>1. Whole(v, Eligible) /\ SumOver(v, Eligible) = n * sum - sum * n
    <3>1. n \in Int
      BY <1>1
    <3>2. Whole(v, Eligible) /\ SumOver(v, Eligible) = n * SumOver(raw, Eligible) - sum * Cardinality(Eligible)
      <4> HIDE DEF v, n, sum
      <4> QED
        BY <1>1, <1>2, <3>1, SumOverLinear, Zenon
    <3> QED
      BY <3>2
  <2>2. n * sum - sum * n = 0
    BY <1>1
  <2> QED
    BY <2>1, <2>2
<1>4. \A t \in Eligible : Normalized(raw, t) = Scaled(v[t], high, low)
  <2> DEFINE V == {n * raw[u] - sum : u \in Eligible}
  <2>1. {v[u] : u \in Eligible} = V
    BY <1>2
  <2> TAKE t \in Eligible
  <2>2. Normalized(raw, t) = Scaled(n * raw[t] - sum, Max(V), -Min(V))
    BY DEF Normalized, Scaled
  <2> HIDE DEF V, v, n, sum
  <2> QED
    BY <1>2, <2>1, <2>2 DEF high, low
<1> HIDE DEF v, n, sum
<1>5. /\ \E x \in Eligible : v[x] = -low /\ \A y \in Eligible : -low <= v[y]
      /\ \E x \in Eligible : v[x] = high /\ \A y \in Eligible : v[y] <= high
  <2>1. /\ \E x \in Eligible : v[x] = Min({v[y] : y \in Eligible}) /\ \A y \in Eligible : v[x] <= v[y]
        /\ \E x \in Eligible : v[x] = Max({v[y] : y \in Eligible}) /\ \A y \in Eligible : v[y] <= v[x]
    BY <1>1, <1>3, ExtremeValues
  <2>2. Min({v[y] : y \in Eligible}) \in Int
    BY <1>3, <2>1 DEF Whole
  <2>3. -low = Min({v[y] : y \in Eligible})
    BY <2>2
  <2> QED
    BY <2>1, <2>3
<1> HIDE DEF high, low
<1>6. PICK x \in Eligible, z \in Eligible :
        /\ v[x] = -low /\ v[z] = high
        /\ \A y \in Eligible : v[x] <= v[y] /\ v[y] <= v[z]
  BY <1>5
<1>7. v[x] \in Int /\ v[z] \in Int
  BY <1>3, <1>6 DEF Whole
<1>8. n > 0
  BY <1>1, <1>6, FS_EmptySet DEF n
<1>9. v[x] <= 0 /\ 0 <= v[z]
  <2>1. 0 <= v[z] * n /\ v[x] * n <= 0
    <3>1. SumOver(v, Eligible) <= v[z] * Cardinality(Eligible)
      BY <1>1, <1>3, <1>6, <1>7, SumOverAtMost
    <3>2. v[x] * Cardinality(Eligible) <= SumOver(v, Eligible)
      BY <1>1, <1>3, <1>6, <1>7, SumOverAtLeast
    <3> QED
      BY <1>3, <3>1, <3>2 DEF n
  <2> QED
    BY <1>1, <1>7, <1>8, <2>1
<1>10. ASSUME v[z] # 0 PROVE v[x] # 0
  <2> SUFFICES ASSUME v[x] = 0 PROVE FALSE
    OBVIOUS
  <2> DEFINE rest == Eligible \ {z}
  <2>1. IsFiniteSet(rest) /\ Whole(v, rest) /\ Cardinality(rest) \in Nat
    BY <1>1, <1>3, FS_Subset, FS_CardinalityType DEF Whole
  <2>2. \A y \in rest : 0 <= v[y]
    BY <1>6
  <2>3. 0 * Cardinality(rest) <= SumOver(v, rest) /\ SumOver(v, rest) \in Int
    <3> HIDE DEF rest
    <3> QED
      BY <2>1, <2>2, SumOverAtLeast, SumOverAdds
  <2>4. SumOver(v, Eligible) = SumOver(v, rest) + v[z]
    BY <1>1, <1>3, <1>6, SumOverAdds
  <2> HIDE DEF rest
  <2>5. 0 <= SumOver(v, rest)
    BY <2>1, <2>3
  <2> QED
    BY <1>3, <1>7, <1>9, <1>10, <2>3, <2>4, <2>5
<1>11. high \in Nat /\ low \in Nat /\ (high # 0 => low # 0)
  <2>1. high = v[z] /\ -low = v[x] /\ low \in Int
    <3>1. low = -Min({v[u] : u \in Eligible}) /\ Min({v[u] : u \in Eligible}) \in Int
      <4>1. \E y \in Eligible : v[y] = Min({v[u] : u \in Eligible})
        BY <1>1, <1>3, ExtremeValues
      <4> QED
        BY <1>3, <4>1 DEF low, Whole
    <3> QED
      BY <1>6, <3>1
  <2> QED
    BY <1>7, <1>9, <1>10, <2>1
<1>12. \A t \in Eligible : /\ v[t] = Off(raw, t) /\ v[t] \in Int /\ -low <= v[t] /\ v[t] <= high
  BY <1>3, <1>6, <1>11 DEF v, Whole
<1>13. /\ \A t \in Eligible : /\ Off(raw, t) \in Int /\ -low <= Off(raw, t) /\ Off(raw, t) <= high
                              /\ Normalized(raw, t) = Scaled(Off(raw, t), high, low)
       /\ Off(raw, z) = high /\ Off(raw, x) = -low
  BY <1>4, <1>6, <1>12
<1> QED
  BY <1>6, <1>11, <1>13

\* Every value of a spread is scaled into its bounds, in order.
LEMMA ScaledAll ==
  ASSUME NEW high \in Nat, NEW low \in Nat, high # 0 => low # 0, NEW off \in Int, -low <= off, off <= high
  PROVE  /\ Scaled(off, high, low) \in Int
         /\ 0 <= Scaled(off, high, low) /\ Scaled(off, high, low) <= 1000
         /\ high = 0 => Scaled(off, high, low) = 500
         /\ high # 0 /\ off = high => Scaled(off, high, low) = 1000
         /\ high # 0 /\ off = -low => Scaled(off, high, low) = 0
         /\ high # 0 /\ off >= 0 => Scaled(off, high, low) >= 500
         /\ high # 0 /\ off < 0 => Scaled(off, high, low) <= 500
<1>1. CASE high = 0
  BY <1>1 DEF Scaled
<1>2. CASE high # 0 /\ off >= 0
  <2>1. /\ (500 * off) \div high \in 0 .. 500
        /\ off = high => (500 * off) \div high = 500
    BY <1>2, DivPart
  <2> QED
    BY <1>2, <2>1 DEF Scaled
<1>3. CASE high # 0 /\ off < 0
  <2>1. low + off \in Int /\ 0 <= low + off /\ low + off <= low /\ low > 0
    BY <1>3
  <2>2. /\ (500 * (low + off)) \div low \in 0 .. 500
        /\ low + off = 0 => (500 * (low + off)) \div low = 0
    BY <2>1, DivPart
  <2> QED
    BY <1>3, <2>2 DEF Scaled
<1> QED
  BY <1>1, <1>2, <1>3

\* A scaled value lies in the bounds.
LEMMA ScaledIn ==
  ASSUME NEW high \in Nat, NEW low \in Nat, high # 0 => low # 0,
         NEW off \in Int, -low <= off, off <= high
  PROVE  Scaled(off, high, low) \in Int /\ 0 <= Scaled(off, high, low) /\ Scaled(off, high, low) <= 1000
<1>1. CASE high = 0
  BY <1>1 DEF Scaled
<1>2. CASE high # 0
  BY <1>2, ScaledAll
<1> QED
  BY <1>1, <1>2

\* The least and the largest value are scaled to the ends.
LEMMA ScaledEnds ==
  ASSUME NEW high \in Nat, NEW low \in Nat, high # 0, low # 0
  PROVE  Scaled(high, high, low) = 1000 /\ Scaled(-low, high, low) = 0
<1>1. high \in Int /\ -low \in Int /\ -low <= high
  OBVIOUS
<1> QED
  BY <1>1, ScaledAll

\* Scaling keeps order.
LEMMA ScaledOrder ==
  ASSUME NEW high \in Nat, NEW low \in Nat, high # 0 => low # 0,
         NEW a \in Int, NEW b \in Int, -low <= a, a <= b, b <= high
  PROVE  Scaled(a, high, low) <= Scaled(b, high, low)
<1>1. CASE high = 0
  BY <1>1 DEF Scaled
<1>2. CASE high # 0 /\ a >= 0
  <2>1. (500 * a) \div high <= (500 * b) \div high /\ (500 * a) \div high \in Int
    BY <1>2, DivOrder
  <2>2. (500 * b) \div high \in Int
    BY <1>2, DivOrder
  <2> QED
    BY <1>2, <2>1, <2>2 DEF Scaled
<1>3. CASE high # 0 /\ b < 0
  <2>1. low > 0
    BY <1>3
  <2>2. (500 * (low + a)) \div low <= (500 * (low + b)) \div low
    BY <2>1, DivOrder
  <2> QED
    BY <1>3, <2>2 DEF Scaled
<1>4. CASE high # 0 /\ a < 0 /\ b >= 0
  <2>1. Scaled(a, high, low) <= 500 /\ 500 <= Scaled(b, high, low)
    BY <1>4, ScaledAll
  <2>2. Scaled(a, high, low) \in Int /\ Scaled(b, high, low) \in Int
    BY ScaledIn
  <2> QED
    BY <2>1, <2>2
<1> QED
  BY <1>1, <1>2, <1>3, <1>4

\* A batch of scores covers the whole range, or tells nothing apart.
Spread(batch) ==
  LET tokens == {t \in Tokens : batch[t] # NoValue}
      values == {batch[t] : t \in tokens}
  IN tokens # {} => values \in {{0}, {500}} \/ {0, 1000} \subseteq values

Batch(raw) == [t \in Tokens |-> IF t \in Eligible THEN Normalized(raw, t) ELSE NoValue]

\* A batch of scores is spread over its bounds.
LEMMA BatchSpread ==
  ASSUME MarketTyped, Eligible # {}, NEW raw, Whole(raw, Eligible)
  PROVE  /\ Batch(raw) \in [Tokens -> Value] /\ Spread(Batch(raw))
         /\ \A t, u \in Eligible : raw[u] <= raw[t] => Batch(raw)[u] <= Batch(raw)[t]
<1>1. PICK high \in Nat, low \in Nat :
           /\ high # 0 => low # 0
           /\ \A t \in Eligible : /\ Off(raw, t) \in Int /\ -low <= Off(raw, t) /\ Off(raw, t) <= high
                                  /\ Normalized(raw, t) = Scaled(Off(raw, t), high, low)
           /\ \E t \in Eligible : Off(raw, t) = high
           /\ \E t \in Eligible : Off(raw, t) = -low
  BY NormalizedIs
<1>2. IsFiniteSet(Eligible) /\ Eligible \subseteq Tokens
  BY EligibleFinite
<1>3. \A t \in Eligible : Batch(raw)[t] = Scaled(Off(raw, t), high, low)
  BY <1>1, <1>2 DEF Batch
<1>4. \A t \in Eligible : Batch(raw)[t] \in 0 .. 1000
  <2> TAKE t \in Eligible
  <2>1. Off(raw, t) \in Int /\ -low <= Off(raw, t) /\ Off(raw, t) <= high
    BY <1>1
  <2>2. /\ Scaled(Off(raw, t), high, low) \in Int
        /\ 0 <= Scaled(Off(raw, t), high, low) /\ Scaled(Off(raw, t), high, low) <= 1000
    BY <1>1, <2>1, ScaledIn
  <2> QED
    BY <1>3, <2>2
<1>5. \A t \in Tokens \ Eligible : Batch(raw)[t] = NoValue
  BY DEF Batch
<1>6. Batch(raw) \in [Tokens -> Value]
  <2>1. \A t \in Tokens : Batch(raw)[t] \in Value
    BY <1>4, <1>5 DEF Value
  <2> QED
    BY <2>1 DEF Batch
<1>7. {t \in Tokens : Batch(raw)[t] # NoValue} = Eligible
  <2>1. \A t \in Eligible : Batch(raw)[t] # NoValue
    <3>1. NoValue \notin 0 .. 1000
      <4>1. \A x \in 0 .. 1000 : x \in Nat
        OBVIOUS
      <4> QED
        BY <4>1, MarketAssumption, Zenon
    <3> QED
      BY <1>4, <3>1, Zenon
  <2> QED
    BY <1>2, <1>5, <2>1
<1>8. Spread(Batch(raw))
  <2> DEFINE values == {Batch(raw)[t] : t \in Eligible}
  <2>1. CASE high = 0
    <3>1. \A t \in Eligible : Batch(raw)[t] = 500
      BY <1>3, <2>1 DEF Scaled
    <3>2. values = {500}
      BY <3>1
    <3> QED
      BY <1>7, <3>2 DEF Spread
  <2>2. CASE high # 0
    <3>1. PICK t \in Eligible, u \in Eligible : Off(raw, t) = high /\ Off(raw, u) = -low
      BY <1>1
    <3>2. Scaled(high, high, low) = 1000 /\ Scaled(-low, high, low) = 0
      BY <1>1, <2>2, ScaledEnds
    <3>3. Batch(raw)[t] = 1000 /\ Batch(raw)[u] = 0
      BY <1>3, <3>1, <3>2
    <3>4. {0, 1000} \subseteq values
      BY <3>3
    <3> QED
      BY <1>7, <3>4 DEF Spread
  <2> QED
    BY <2>1, <2>2
<1>9. ASSUME NEW t \in Eligible, NEW u \in Eligible, raw[u] <= raw[t]
      PROVE  Batch(raw)[u] <= Batch(raw)[t]
  <2>1. /\ Cardinality(Eligible) \in Nat /\ SumOver(raw, Eligible) \in Int
        /\ raw[u] \in Int /\ raw[t] \in Int
    BY <1>2, FS_CardinalityType, SumOverAdds DEF Whole
  <2>2. /\ Cardinality(Eligible) * raw[u] <= Cardinality(Eligible) * raw[t]
        /\ Cardinality(Eligible) * raw[u] \in Int /\ Cardinality(Eligible) * raw[t] \in Int
    BY <1>9, <2>1, TimesOrder
  <2>3. Off(raw, u) <= Off(raw, t)
    BY <2>1, <2>2 DEF Off
  <2>4. /\ Off(raw, u) \in Int /\ -low <= Off(raw, u)
        /\ Off(raw, t) \in Int /\ Off(raw, t) <= high
    BY <1>1
  <2> QED
    BY <1>1, <1>3, <2>3, <2>4, ScaledOrder
<1> QED
  BY <1>6, <1>8, <1>9

\* Quotients are integers.
LEMMA QuotientInt == ASSUME NEW a \in Int, NEW b \in Int, b > 0 PROVE a \div b \in Int
OBVIOUS

LEMMA AbsInt == ASSUME NEW n \in Int PROVE Abs(n) \in Nat
BY DEF Abs

\* What a token is measured by is typed.
LEMMA MeasuresTyped ==
  ASSUME MarketTyped, NEW t \in Eligible
  PROVE  /\ Change(t) \in Int /\ Activity(t) \in Int
         /\ Current(t).cap \in {0, 1, 1000, NoValue}
<1>1. t \in Tokens /\ Rows(t) > 0 /\ snapshot[t] # NoValue
  BY EligibleFinite DEF Eligible
<1>2. snapshot[t] \in Nat \ {0}
  BY <1>1 DEF MarketTyped
<1>3. /\ Rows(t) \in Nat /\ Rows(t) \in 1 .. Rows(t) /\ Current(t) = prices[t][Rows(t)]
      /\ \A i \in 1 .. Rows(t) : /\ prices[t][i].price \in Nat \ {0}
                                 /\ prices[t][i].cap \in {0, 1, 1000, NoValue}
  BY <1>1, RowsType
<1>4. Change(t) \in Int
  <2>1. Current(t).price \in Int /\ snapshot[t] \in Int /\ snapshot[t] > 0
    BY <1>2, <1>3
  <2>2. 300 * (Current(t).price - snapshot[t]) \in Int
    BY <2>1
  <2> QED
    BY <2>1, <2>2, QuotientInt DEF Change
<1>5. Activity(t) \in Int
  <2> DEFINE price(i) == prices[t][i].price
             moved == [i \in Moves(t) |-> (300 * Abs(price(i + 1) - price(i))) \div price(i)]
  <2>1. since[t] \in Nat
    BY <1>1 DEF MarketTyped
  <2>2. Moves(t) \subseteq 1 .. Rows(t) /\ \A i \in Moves(t) : i + 1 \in 1 .. Rows(t) /\ i \in Int
    BY <1>3, <2>1 DEF Moves
  <2>3. IsFiniteSet(Moves(t))
    <3>1. IsFiniteSet(1 .. Rows(t))
      BY <1>3, FS_Interval
    <3> QED
      BY <2>2, <3>1, FS_Subset
  <2>4. ASSUME NEW i \in Moves(t) PROVE (300 * Abs(price(i + 1) - price(i))) \div price(i) \in Int
    <3>1. price(i + 1) \in Int /\ price(i) \in Int /\ price(i) > 0
      BY <1>3, <2>2
    <3>2. Abs(price(i + 1) - price(i)) \in Nat
      BY <3>1, AbsInt
    <3>3. 300 * Abs(price(i + 1) - price(i)) \in Int
      BY <3>2
    <3> QED
      BY <3>1, <3>3, QuotientInt
  <2>5. Whole(moved, Moves(t))
    BY <2>4 DEF Whole
  <2>6. Activity(t) = SumOver(moved, Moves(t))
    BY DEF Activity
  <2> HIDE DEF moved
  <2> QED
    BY <2>3, <2>5, <2>6, SumOverAdds
<1> QED
  BY <1>3, <1>4, <1>5

\* A larger growth is not given a smaller bonus.
LEMMA GrowthBonusOrder ==
  ASSUME NEW a \in Int, NEW b \in Int, a <= b
  PROVE  GrowthBonus(a) \in Int /\ GrowthBonus(b) \in Int /\ GrowthBonus(a) <= GrowthBonus(b)
<1> DEFINE Bonus(size) == CASE size = 0 -> 0 [] size \in 1 .. 75 -> 98 [] size \in 76 .. 100 -> 143
                            [] size \in 101 .. 150 -> 243 [] OTHER -> 597
<1>1. ASSUME NEW n \in Nat
      PROVE  Bonus(n) \in Nat /\ (n = 0 => Bonus(n) = 0) /\ \A m \in Nat : m <= n => Bonus(m) <= Bonus(n)
  <2>1. \A k \in Nat : Bonus(k) = IF k = 0 THEN 0 ELSE IF k <= 75 THEN 98 ELSE IF k <= 100 THEN 143
                                  ELSE IF k <= 150 THEN 243 ELSE 597
    <3> TAKE k \in Nat
    <3>1. CASE k = 0
      BY <3>1
    <3>2. CASE k \in 1 .. 75
      BY <3>2
    <3>3. CASE k \in 76 .. 100
      BY <3>3
    <3>4. CASE k \in 101 .. 150
      BY <3>4
    <3>5. CASE k > 150
      BY <3>5
    <3> QED
      BY <3>1, <3>2, <3>3, <3>4, <3>5
  <2> HIDE DEF Bonus
  <2> QED
    BY <2>1
<1>2. \A n \in Int : GrowthBonus(n) = IF n < 0 THEN -Bonus(Abs(n)) ELSE Bonus(Abs(n))
  BY DEF GrowthBonus
<1> HIDE DEF Bonus
<1>3. CASE a >= 0
  BY <1>1, <1>2, <1>3 DEF Abs
<1>4. CASE b < 0
  BY <1>1, <1>2, <1>4 DEF Abs
<1>5. CASE a < 0 /\ b >= 0
  BY <1>1, <1>2, <1>5 DEF Abs
<1> QED
  BY <1>3, <1>4, <1>5

\* A token that gained more has no fewer points.
LEMMA PointsOrder ==
  ASSUME MarketTyped, NEW measure, Whole(measure, Eligible), NEW t \in Eligible, NEW u \in Eligible
  PROVE  /\ Points(measure, t) \in Nat
         /\ measure[u] < measure[t] => Points(measure, u) <= Points(measure, t)
<1> DEFINE Beaten(w) == {x \in Eligible : \/ measure[x] < measure[w]
                                          \/ measure[x] = measure[w] /\ x >= w}
<1>1. \A w : Beaten(w) \subseteq Eligible
  OBVIOUS
<1>2. \A w : Points(measure, w) = Cardinality(Beaten(w))
  BY DEF Points
<1>3. measure[u] < measure[t] => Beaten(u) \subseteq Beaten(t)
  BY DEF Whole
<1> HIDE DEF Beaten
<1>4. IsFiniteSet(Beaten(t)) /\ Cardinality(Beaten(t)) \in Nat
  BY <1>1, EligibleFinite, FS_Subset, FS_CardinalityType
<1> QED
  BY <1>2, <1>3, <1>4, FS_Subset

\* A token that gained more has no lower raw score.
LEMMA RawOrder ==
  ASSUME MarketTyped, NEW change, NEW activity, Whole(change, Eligible), Whole(activity, Eligible),
         NEW t \in Eligible, Current(t).cap # NoValue
  PROVE  /\ Raw(change, activity, t) \in Int
         /\ \A u \in Eligible :
              /\ Current(u).cap = Current(t).cap
              /\ change[u] < change[t] /\ activity[u] < activity[t]
              => Raw(change, activity, u) <= Raw(change, activity, t)
<1> DEFINE factor == _calculate_mc_factor(Current(t).cap)
           Sum(u) == 4 * Points(change, u) + Points(activity, u) + GrowthBonus(change[u])
<1>1. factor \in Nat
  <2>1. Current(t).cap \in {0, 1, 1000}
    BY MeasuresTyped
  <2> QED
    BY <2>1 DEF _calculate_mc_factor
<1>2. \A u \in Eligible : Sum(u) \in Int
  <2> TAKE u \in Eligible
  <2>1. Points(change, u) \in Nat /\ Points(activity, u) \in Nat
    BY PointsOrder
  <2>2. change[u] \in Int
    BY DEF Whole
  <2>3. GrowthBonus(change[u]) \in Int
    BY <2>2, GrowthBonusOrder
  <2> QED
    BY <2>1, <2>3
<1>3. ASSUME NEW u \in Eligible, change[u] < change[t], activity[u] < activity[t]
      PROVE  Sum(u) <= Sum(t)
  <2>1. /\ Points(change, u) <= Points(change, t) /\ Points(activity, u) <= Points(activity, t)
        /\ Points(change, u) \in Nat /\ Points(activity, u) \in Nat
        /\ Points(change, t) \in Nat /\ Points(activity, t) \in Nat
    BY <1>3, PointsOrder
  <2>2. change[u] \in Int /\ change[t] \in Int /\ change[u] <= change[t]
    BY <1>3 DEF Whole
  <2>3. /\ GrowthBonus(change[u]) \in Int /\ GrowthBonus(change[t]) \in Int
        /\ GrowthBonus(change[u]) <= GrowthBonus(change[t])
    BY <2>2, GrowthBonusOrder
  <2> QED
    BY <2>1, <2>3
<1>4. \A u \in Eligible : Current(u).cap = Current(t).cap => Raw(change, activity, u) = factor * Sum(u)
  BY DEF Raw
<1> HIDE DEF factor, Sum
<1>5. Raw(change, activity, t) \in Int
  BY <1>1, <1>2, <1>4
<1>6. ASSUME NEW u \in Eligible, Current(u).cap = Current(t).cap,
             change[u] < change[t], activity[u] < activity[t]
      PROVE  Raw(change, activity, u) <= Raw(change, activity, t)
  <2>1. factor * Sum(u) <= factor * Sum(t)
    BY <1>1, <1>2, <1>3, <1>6, TimesOrder
  <2> QED
    BY <1>4, <1>6, <2>1
<1> QED
  BY <1>5, <1>6

\* A batch of equal scores is zero throughout.
LEMMA ZerosSpread ==
  ASSUME NEW set, set \subseteq Tokens
  PROVE  Zeros(set) \in [Tokens -> Value] /\ Spread(Zeros(set)) /\ \A t \in set : Zeros(set)[t] = 0
<1>1. Zeros(set) \in [Tokens -> Value]
  BY DEF Zeros, Value
<1>2. \A t \in set : Zeros(set)[t] = 0
  BY DEF Zeros
<1>3. {t \in Tokens : Zeros(set)[t] # NoValue} = set
  <2>1. NoValue # 0
    <3>1. 0 \in Nat
      OBVIOUS
    <3> QED
      BY <3>1, MarketAssumption, Zenon
  <2> QED
    BY <2>1 DEF Zeros
<1>4. set # {} => {Zeros(set)[t] : t \in set} = {0}
  BY <1>2
<1> QED
  BY <1>1, <1>2, <1>3, <1>4 DEF Spread

GainStep ==
  \A t, u \in Eligible :
     /\ latest' # latest /\ phase = "ongoing"
     /\ Current(t).cap = Current(u).cap
     /\ Change(t) > Change(u) /\ Activity(t) > Activity(u)
     => latest'[t] >= latest'[u]

\* A batch of scores is spread over its bounds, and rewards the gain.
LEMMA MarketScoreKeeps ==
  ASSUME MarketTyped, MarketScore
  PROVE  MarketTyped' /\ Spread(latest') /\ GainStep
<1> DEFINE change   == [t \in Eligible |-> Change(t)]
           activity == [t \in Eligible |-> Activity(t)]
           raw      == [t \in Eligible |-> Raw(change, activity, t)]
           still    == \A t \in Eligible : change[t] = 0 /\ activity[t] = 0
<1>1. Eligible # {} /\ Eligible \subseteq Tokens
  BY EligibleFinite DEF MarketScore
<1>2. \/ still /\ Store(Zeros(Eligible))
      \/ (\A t \in Eligible : Current(t).cap # NoValue) /\ Store(Batch(raw))
  BY DEF MarketScore, Batch
<1>3. Whole(change, Eligible) /\ Whole(activity, Eligible)
  BY MeasuresTyped DEF Whole
<1>4. \A t \in Eligible : change[t] = Change(t) /\ activity[t] = Activity(t)
                          /\ raw[t] = Raw(change, activity, t)
  OBVIOUS
<1> HIDE DEF change, activity, raw
<1>5. CASE Store(Zeros(Eligible))
  <2>1. /\ Zeros(Eligible) \in [Tokens -> Value] /\ Spread(Zeros(Eligible))
        /\ \A t \in Eligible : Zeros(Eligible)[t] = 0
    BY <1>1, ZerosSpread
  <2>2. latest' = Zeros(Eligible)
    BY <1>5 DEF Store
  <2>3. GainStep
    BY <2>1, <2>2 DEF GainStep
  <2> QED
    BY <1>5, <2>1, <2>2, <2>3, BatchKeeps
<1>6. CASE (\A t \in Eligible : Current(t).cap # NoValue) /\ Store(Batch(raw))
  <2>1. Whole(raw, Eligible)
    <3>1. \A t \in Eligible : Raw(change, activity, t) \in Int
      BY <1>3, <1>6, RawOrder
    <3> QED
      BY <1>4, <3>1 DEF Whole
  <2>2. /\ Batch(raw) \in [Tokens -> Value] /\ Spread(Batch(raw))
        /\ \A t, u \in Eligible : raw[u] <= raw[t] => Batch(raw)[u] <= Batch(raw)[t]
    BY <1>1, <2>1, BatchSpread
  <2>3. latest' = Batch(raw)
    BY <1>6 DEF Store
  <2>4. ASSUME NEW t \in Eligible, NEW u \in Eligible, Current(t).cap = Current(u).cap,
               Change(t) > Change(u), Activity(t) > Activity(u)
        PROVE  latest'[t] >= latest'[u]
    <3>1. Change(t) \in Int /\ Change(u) \in Int /\ Activity(t) \in Int /\ Activity(u) \in Int
      BY MeasuresTyped
    <3>2. change[u] < change[t] /\ activity[u] < activity[t]
      BY <1>4, <2>4, <3>1
    <3>3. Raw(change, activity, u) <= Raw(change, activity, t)
      BY <1>3, <1>6, <2>4, <3>2, RawOrder
    <3>4. Batch(raw)[u] <= Batch(raw)[t]
      BY <1>4, <2>2, <3>3
    <3>5. Batch(raw)[u] \in Int /\ Batch(raw)[t] \in Int
      <4>1. \A x \in Eligible : Batch(raw)[x] = Normalized(raw, x)
        BY <1>1 DEF Batch
      <4>2. PICK high \in Nat, low \in Nat :
           /\ high # 0 => low # 0
           /\ \A x \in Eligible : /\ Off(raw, x) \in Int /\ -low <= Off(raw, x) /\ Off(raw, x) <= high
                                  /\ Normalized(raw, x) = Scaled(Off(raw, x), high, low)
        BY <1>1, <2>1, NormalizedIs
      <4>3. \A x \in Eligible : Scaled(Off(raw, x), high, low) \in Int
        BY <4>2, ScaledIn
      <4> QED
        BY <4>1, <4>2, <4>3
    <3> QED
      BY <2>3, <3>4, <3>5
  <2>5. GainStep
    BY <2>4 DEF GainStep
  <2> QED
    BY <1>6, <2>2, <2>3, <2>5, BatchKeeps
<1> QED
  BY <1>2, <1>5, <1>6

\* A batch without a snapshot is all zeros.
LEMMA ZeroKeeps ==
  ASSUME MarketTyped, MarketZero
  PROVE  MarketTyped' /\ Spread(latest') /\ GainStep
<1> DEFINE priced == {t \in active : Rows(t) > 0}
<1>1. priced \subseteq Tokens
  BY DEF MarketTyped
<1>2. phase # "ongoing" /\ Store(Zeros(priced))
  BY DEF MarketZero
<1> HIDE DEF priced
<1>3. Zeros(priced) \in [Tokens -> Value] /\ Spread(Zeros(priced))
  BY <1>1, ZerosSpread
<1>4. latest' = Zeros(priced)
  BY <1>2 DEF Store
<1>5. GainStep
  BY <1>2 DEF GainStep
<1> QED
  BY <1>2, <1>3, <1>4, <1>5, BatchKeeps

-----------------------------------------------------------------------------
(* Weights *)

\* Tokens by weight are in order of their scores.
LEMMA ByWeightSorted ==
  ASSUME MarketTyped
  PROVE  \E n \in Nat :
           /\ n = Cardinality(active) /\ ByWeight \in [1 .. n -> active]
           /\ \A i, j \in 1 .. n : i # j => ByWeight[i] # ByWeight[j]
           /\ \A t \in active : \E i \in 1 .. n : ByWeight[i] = t
           /\ \A i, j \in 1 .. n : i < j => weight[ByWeight[i]] >= weight[ByWeight[j]]
           /\ Distribution = [i \in 1 .. n |-> weight[ByWeight[i]]]
<1> DEFINE n == Cardinality(active)
           R == {p \in active \X active :
                   weight[p[1]] > weight[p[2]] \/ (weight[p[1]] = weight[p[2]] /\ p[1] > p[2])}
           Descends(order) == \A i, j \in DOMAIN order : i < j => weight[order[i]] >= weight[order[j]]
<1>1. IsFiniteSet(active) /\ n \in Nat
  BY EligibleFinite, FS_CardinalityType
<1>2. \A x, y \in active : <<x, y>> \in R <=> weight[x] > weight[y] \/ (weight[x] = weight[y] /\ x > y)
  OBVIOUS
<1>3. \A x \in active : weight[x] \in Int /\ x \in Nat
  <2>1. \A x \in active : weight[x] \in 1 .. 10 /\ x \in Nat
    BY MarketAssumption DEF MarketTyped
  <2> QED
    BY <2>1
<1> HIDE DEF R
<1>4. OrderOf(R, active)
  <2> DEFINE w(x) == weight[x]
  <2>1. /\ \A x, y \in active : <<x, y>> \in R <=> w(x) > w(y) \/ (w(x) = w(y) /\ x > y)
        /\ \A x \in active : w(x) \in Int /\ x \in Int
    BY <1>2, <1>3
  <2> HIDE DEF w
  <2>2. \A x, y \in active : x # y => <<x, y>> \in R \/ <<y, x>> \in R
    BY <2>1
  <2>3. \A x, y, z \in active : <<x, y>> \in R /\ <<y, z>> \in R => <<x, z>> \in R
    BY <2>1
  <2> QED
    BY <2>2, <2>3 DEF OrderOf
<1>5. PICK q \in SetToSeqs(active) : Sorted(q, R)
  BY <1>1, <1>4, SortExists
<1>6. \A p \in SetToSeqs(active) : /\ p \in [1 .. n -> active] /\ DOMAIN p = 1 .. n
                                   /\ \A i, j \in 1 .. n : i # j => p[i] # p[j]
  BY DEF SetToSeqs
<1>7. Descends(q)
  <2>1. \A i \in DOMAIN q : q[i] \in active
    BY <1>6
  <2>2. \A x, y \in active : <<x, y>> \in R => weight[x] >= weight[y]
    BY <1>2, <1>3
  <2> QED
    BY <1>5, <2>1, <2>2 DEF Sorted
<1>8. ByWeight \in SetToSeqs(active) /\ Descends(ByWeight)
  <2>1. ByWeight = CHOOSE order \in SetToSeqs(active) : Descends(order)
    BY DEF ByWeight
  <2> HIDE DEF Descends
  <2> QED
    BY <1>7, <2>1
<1>9. /\ ByWeight \in [1 .. n -> active] /\ DOMAIN ByWeight = 1 .. n
      /\ \A i, j \in 1 .. n : i # j => ByWeight[i] # ByWeight[j]
  BY <1>6, <1>8
<1>10. \A t \in active : \E i \in 1 .. n : ByWeight[i] = t
  <2>1. ByWeight \in Injection(1 .. n, active)
    BY <1>9 DEF Injection, IsInjective
  <2>2. IsFiniteSet(1 .. n) /\ Cardinality(1 .. n) = n
    BY <1>1, FS_Interval
  <2>3. ByWeight \in Surjection(1 .. n, active)
    BY <1>1, <2>1, <2>2, FS_Injection
  <2> QED
    BY <2>3 DEF Surjection
<1>11. Distribution = [i \in 1 .. n |-> weight[ByWeight[i]]]
  BY <1>9 DEF Distribution
<1>12. \A i, j \in 1 .. n : i < j => weight[ByWeight[i]] >= weight[ByWeight[j]]
  BY <1>8, <1>9
<1> HIDE DEF n, Descends
<1> QED
  BY <1>1, <1>9, <1>10, <1>11, <1>12 DEF n

DealStep ==
  phase' = "finished" /\ phase # "finished" =>
    /\ \A t, u \in Scored : score[t] > score[u] => weight'[t] >= weight'[u]
    /\ Together(weight') >= Together(weight)
    /\ Scored = active => \A n \in 1 .. 10 : Times(weight', n) = Times(weight, n)

\* The scored tokens, best first, take the largest weights there are.
LEMMA WeightsKeeps ==
  ASSUME MarketTyped, MarketWeights
  PROVE  MarketTyped' /\ DealStep
<1>1. PICK place \in Bijection(Scored, 1 .. Cardinality(Scored)) :
        /\ \A t, u \in Scored : Ahead(t, u) => place[t] < place[u]
        /\ weight' = [t \in Tokens |-> IF t \in Scored THEN Distribution[place[t]] ELSE weight[t]]
  BY DEF MarketWeights
<1>2. /\ phase' = "finished"
      /\ UNCHANGED <<active, prices, snapshot, since, until, score, latest, feed, cycles, toggles>>
  BY DEF MarketWeights
<1>3. PICK n \in Nat :
        /\ n = Cardinality(active) /\ ByWeight \in [1 .. n -> active]
        /\ \A i, j \in 1 .. n : i # j => ByWeight[i] # ByWeight[j]
        /\ \A t \in active : \E i \in 1 .. n : ByWeight[i] = t
        /\ \A i, j \in 1 .. n : i < j => weight[ByWeight[i]] >= weight[ByWeight[j]]
        /\ Distribution = [i \in 1 .. n |-> weight[ByWeight[i]]]
  BY ByWeightSorted
<1>4. Scored \subseteq active /\ active \subseteq Tokens /\ IsFiniteSet(active) /\ IsFiniteSet(Scored)
  <2>1. Scored \subseteq active /\ active \subseteq Tokens /\ IsFiniteSet(active)
    BY EligibleFinite DEF Scored, MarketTyped
  <2> QED
    BY <2>1, FS_Subset
<1>5. PICK m \in Nat : m = Cardinality(Scored) /\ m <= n
  BY <1>3, <1>4, FS_Subset, FS_CardinalityType
<1>6. /\ \A t \in Scored : place[t] \in 1 .. m
      /\ \A t, u \in Scored : place[t] = place[u] => t = u
      /\ \A i \in 1 .. m : \E t \in Scored : place[t] = i
  BY <1>5 DEF Bijection, Injection, IsInjective, Surjection
<1> DEFINE given == [t \in Scored |-> ByWeight[place[t]]]
           B == {ByWeight[i] : i \in 1 .. m}
<1>7. \A i \in 1 .. m : i \in 1 .. n
  BY <1>5
<1>8. B \subseteq active /\ IsFiniteSet(B)
  <2>1. B \subseteq active
    BY <1>3, <1>7
  <2> QED
    BY <1>4, <2>1, FS_Subset
<1>9. Onto(given, Scored, B)
  BY <1>3, <1>6, <1>7 DEF Onto
<1>10. \A t \in Tokens : weight'[t] = IF t \in Scored THEN weight[given[t]] ELSE weight[t]
  BY <1>1, <1>3, <1>4, <1>6, <1>7
<1>11. ASSUME NEW t \in Scored PROVE given[t] \in active /\ given[t] \in B
  BY <1>8, <1>9 DEF Onto
<1>12. \A t \in Tokens : weight[t] \in 1 .. 10 /\ weight'[t] \in 1 .. 10
  <2>1. \A t \in Tokens : weight[t] \in 1 .. 10
    BY DEF MarketTyped
  <2> HIDE DEF given, B
  <2> QED
    BY <1>4, <1>10, <1>11, <2>1
<1>13. MarketTyped'
  <2>1. weight' \in [Tokens -> 1 .. 10]
    BY <1>1, <1>12
  <2>2. \A t \in Tokens : Rows(t)' = Rows(t)
    BY <1>2 DEF Rows
  <2>3. \A t \in Tokens : since'[t] <= Rows(t)' /\ until'[t] <= Rows(t)' /\ Rows(t)' <= cycles'
    BY <1>2, <2>2 DEF MarketTyped
  <2> QED
    BY <1>2, <2>1, <2>3 DEF MarketTyped
<1>14. \A t, u \in Scored : score[t] > score[u] => weight'[t] >= weight'[u]
  <2> SUFFICES ASSUME NEW t \in Scored, NEW u \in Scored, score[t] > score[u]
               PROVE  weight'[t] >= weight'[u]
    OBVIOUS
  <2>1. place[t] < place[u]
    BY <1>1 DEF Ahead
  <2>2. weight[ByWeight[place[t]]] >= weight[ByWeight[place[u]]]
    BY <1>3, <1>6, <1>7, <2>1
  <2> QED
    BY <1>4, <1>10, <2>2
<1>15. Whole(weight, active) /\ Whole(weight', active)
  <2>1. \A t \in active : weight[t] \in Int /\ weight'[t] \in Int
    BY <1>4, <1>12
  <2> QED
    BY <2>1 DEF Whole
<1>16. Together(weight') >= Together(weight)
  <2> DEFINE rest == active \ Scored
  <2>1. /\ active = rest \cup Scored /\ rest \cap Scored = {} /\ IsFiniteSet(rest)
        /\ Whole(weight, rest) /\ Whole(weight, Scored) /\ Whole(weight, B)
        /\ Whole(weight', rest) /\ Whole(weight', Scored)
    BY <1>4, <1>8, <1>15, FS_Subset DEF Whole
  <2>2. SumOver(weight', Scored) = SumOver(weight, B)
    <3>1. \A t \in Scored : weight'[t] = weight[given[t]]
      BY <1>4, <1>10
    <3> HIDE DEF given, B
    <3> QED
      BY <1>4, <1>8, <1>9, <2>1, <3>1, SumOverMoved
  <2>3. SumOver(weight', rest) = SumOver(weight, rest)
    <3>1. \A t \in rest : weight'[t] = weight[t]
      BY <1>4, <1>10
    <3> QED
      BY <2>1, <3>1, SumOverSame
  <2>4. Cardinality(Scored) = Cardinality(B)
    <3>1. given \in Bijection(Scored, B)
      BY <1>9 DEF Onto, Bijection, Injection, IsInjective, Surjection
    <3> HIDE DEF given, B
    <3> QED
      BY <1>4, <3>1, FS_Bijection DEF ExistsBijection
  <2>5. \A b \in B, x \in active \ B : weight[x] <= weight[b]
    <3> SUFFICES ASSUME NEW i \in 1 .. m, NEW x \in active \ B PROVE weight[x] <= weight[ByWeight[i]]
      OBVIOUS
    <3>1. PICK j \in 1 .. n : ByWeight[j] = x
      BY <1>3
    <3>2. ~(j <= m)
      BY <3>1
    <3>3. i \in 1 .. n /\ i < j
      BY <1>7, <3>2
    <3>4. weight[ByWeight[i]] >= weight[ByWeight[j]]
      BY <1>3, <3>3
    <3>5. weight[ByWeight[i]] \in Int /\ weight[x] \in Int
      BY <1>3, <1>15, <3>3 DEF Whole
    <3> QED
      BY <3>1, <3>4, <3>5
  <2>6. SumOver(weight, Scored) <= SumOver(weight, B)
    <3> HIDE DEF given, B
    <3> QED
      BY <1>4, <1>8, <1>15, <2>4, <2>5, MostTogether
  <2>7. /\ SumOver(weight, active) = SumOver(weight, rest) + SumOver(weight, Scored)
        /\ SumOver(weight', active) = SumOver(weight', rest) + SumOver(weight', Scored)
    <3> HIDE DEF rest
    <3>1. Whole(weight, rest \cup Scored) /\ Whole(weight', rest \cup Scored)
      BY <1>15, <2>1
    <3>2. /\ SumOver(weight, rest \cup Scored) = SumOver(weight, rest) + SumOver(weight, Scored)
          /\ SumOver(weight', rest \cup Scored) = SumOver(weight', rest) + SumOver(weight', Scored)
      BY <1>4, <2>1, <3>1, SumOverParts
    <3> QED
      BY <2>1, <3>2
  <2>8. /\ SumOver(weight, rest) \in Int /\ SumOver(weight, Scored) \in Int
        /\ SumOver(weight', Scored) \in Int
    <3> HIDE DEF rest
    <3> QED
      BY <1>4, <2>1, SumOverAdds
  <2> HIDE DEF rest, B, given
  <2>9. SumOver(weight', active) >= SumOver(weight, active)
    BY <2>2, <2>3, <2>6, <2>7, <2>8
  <2> QED
    BY <2>9 DEF Together
<1>17. ASSUME Scored = active, NEW k \in 1 .. 10 PROVE Times(weight', k) = Times(weight, k)
  <2> DEFINE New == {t \in active : weight'[t] = k}
             Old == {t \in active : weight[t] = k}
             f == [t \in New |-> given[t]]
  <2>1. B = active
    BY <1>3, <1>5, <1>17
  <2>2. \A t \in active : weight'[t] = weight[given[t]]
    BY <1>4, <1>10, <1>17
  <2>3. f \in Bijection(New, Old)
    <3> HIDE DEF given, B
    <3>1. \A t \in New : given[t] \in Old
      BY <1>11, <1>17, <2>2
    <3>2. \A t, u \in New : given[t] = given[u] => t = u
      BY <1>9, <1>17 DEF Onto
    <3>3. \A o \in Old : \E t \in New : given[t] = o
      BY <1>9, <1>17, <2>1, <2>2 DEF Onto
    <3> HIDE DEF New, Old
    <3> QED
      BY <3>1, <3>2, <3>3 DEF Bijection, Injection, IsInjective, Surjection
  <2>4. IsFiniteSet(New)
    BY <1>4, FS_Subset
  <2>5. Cardinality(Old) = Cardinality(New)
    <3> HIDE DEF f, New, Old
    <3> QED
      BY <2>3, <2>4, FS_Bijection DEF ExistsBijection
  <2> QED
    BY <1>2, <2>5 DEF Times
<1>18. DealStep
  <2> HIDE DEF given, B
  <2> QED
    BY <1>14, <1>16, <1>17 DEF DealStep
<1> QED
  BY <1>13, <1>18

-----------------------------------------------------------------------------
(* The market: the theorem *)

MarketInv == MarketTyped /\ ScoresSpread

MarketMoves == PricesStep /\ GainStep /\ DealStep

LEMMA SpreadStays == ASSUME latest' = latest, ScoresSpread PROVE ScoresSpread' /\ GainStep
BY DEF ScoresSpread, GainStep

LEMMA SpreadNext == ASSUME Spread(latest') PROVE ScoresSpread'
BY DEF ScoresSpread, Spread

LEMMA NoDeal == ASSUME phase' # "finished" \/ phase = "finished" PROVE DealStep
BY DEF DealStep

\* Every step of the market does what the three action properties say.
LEMMA MarketStep ==
  ASSUME MarketInv, [MarketNext]_marketVars
  PROVE  MarketInv' /\ MarketMoves
<1> USE DEF MarketInv, MarketMoves
<1>1. ASSUME NEW quotes \in Feeds, NEW cap \in Caps, MarketCycle(quotes, cap)
      PROVE  MarketInv' /\ MarketMoves
  <2>1. latest' = latest /\ phase' = phase
    BY <1>1 DEF MarketCycle
  <2>2. DealStep
    BY <2>1, NoDeal
  <2> QED
    BY <1>1, <2>1, <2>2, CycleKeeps, CyclePrices, SpreadStays
<1>2. ASSUME NEW t \in Tokens, MarketToggle(t) PROVE MarketInv' /\ MarketMoves
  <2>1. latest' = latest /\ phase' = phase /\ prices' = prices
    BY <1>2 DEF MarketToggle
  <2>2. DealStep
    BY <2>1, NoDeal
  <2> QED
    BY <1>2, <2>1, <2>2, ToggleKeeps, SamePrices, SpreadStays
<1>3. CASE MarketStart
  <2>1. latest' = latest /\ phase' # "finished" /\ prices' = prices
    BY <1>3 DEF MarketStart
  <2>2. DealStep
    BY <2>1, NoDeal
  <2> QED
    BY <1>3, <2>1, <2>2, StartKeeps, SamePrices, SpreadStays
<1>4. CASE MarketEnd
  <2>1. latest' = latest /\ phase' # "finished" /\ prices' = prices
    BY <1>4 DEF MarketEnd
  <2>2. DealStep
    BY <2>1, NoDeal
  <2> QED
    BY <1>4, <2>1, <2>2, EndKeeps, SamePrices, SpreadStays
<1>5. CASE MarketScore
  <2>1. phase' = phase /\ prices' = prices
    BY <1>5 DEF MarketScore, Store
  <2>2. DealStep
    BY <2>1, NoDeal
  <2> QED
    BY <1>5, <2>1, <2>2, MarketScoreKeeps, SamePrices, SpreadNext
<1>6. CASE MarketZero
  <2>1. phase' = phase /\ prices' = prices
    BY <1>6 DEF MarketZero, Store
  <2>2. DealStep
    BY <2>1, NoDeal
  <2> QED
    BY <1>6, <2>1, <2>2, ZeroKeeps, SamePrices, SpreadNext
<1>7. CASE MarketWeights
  <2>1. latest' = latest /\ prices' = prices
    BY <1>7 DEF MarketWeights
  <2> QED
    BY <1>7, <2>1, WeightsKeeps, SamePrices, SpreadStays
<1>8. CASE MarketOpen
  <2>1. latest' = latest /\ phase' # "finished" /\ prices' = prices
    BY <1>8 DEF MarketOpen
  <2>2. DealStep
    BY <2>1, NoDeal
  <2> QED
    BY <1>8, <2>1, <2>2, OpenKeeps, SamePrices, SpreadStays
<1>9. CASE UNCHANGED marketVars
  <2>1. latest' = latest /\ prices' = prices /\ phase' = phase
    BY <1>9 DEF marketVars
  <2>2. DealStep
    BY <2>1, NoDeal
  <2>3. MarketTyped'
    <3>1. /\ active' = active /\ weight' = weight /\ prices' = prices /\ phase' = phase
          /\ snapshot' = snapshot /\ since' = since /\ until' = until /\ score' = score
          /\ latest' = latest /\ feed' = feed /\ cycles' = cycles /\ toggles' = toggles
      BY <1>9 DEF marketVars
    <3>2. \A t \in Tokens : Rows(t)' = Rows(t)
      BY <3>1 DEF Rows
    <3>3. \A t \in Tokens : since'[t] <= Rows(t)' /\ until'[t] <= Rows(t)' /\ Rows(t)' <= cycles'
      BY <3>1, <3>2 DEF MarketTyped
    <3> QED
      BY <3>1, <3>3 DEF MarketTyped
  <2> QED
    BY <2>1, <2>2, <2>3, SamePrices, SpreadStays
<1> QED
  BY <1>1, <1>2, <1>3, <1>4, <1>5, <1>6, <1>7, <1>8, <1>9 DEF MarketNext

\* A new market is typed and its scores are spread.
LEMMA MarketBegins == MarketInit => MarketInv
<1> SUFFICES ASSUME MarketInit PROVE MarketInv
  OBVIOUS
<1>1. {t \in Tokens : latest[t] # NoValue} = {}
  BY DEF MarketInit, Nothing
<1>2. ScoresSpread
  BY <1>1 DEF ScoresSpread
<1> QED
  BY <1>2, MarketInitTyped DEF MarketInv

\* Whatever the exchanges answer and whenever a tournament starts and ends: a
\* stored price lies between its quotes, every batch of scores covers 0 to 1000
\* or tells nothing apart, who gained and moved more is not scored below, and
\* the weights are dealt out in the order of the scores.
THEOREM FairMarket == MarketSpec => MarketFair
<1>1. MarketInit => MarketInv
  BY MarketBegins
<1>2. MarketInv /\ [MarketNext]_marketVars => MarketInv' /\ MarketMoves
  BY MarketStep
<1>3. MarketInv => MarketTypeOK /\ ScoresSpread
  BY MarketTypedOK DEF MarketInv
<1>4. MarketSpec => [](MarketTypeOK /\ ScoresSpread) /\ [][MarketMoves]_marketVars
  BY <1>1, <1>2, <1>3, PTL DEF MarketSpec
<1>5. [MarketMoves]_marketVars => [PricesStep]_marketVars /\ [GainStep]_marketVars /\ [DealStep]_marketVars
  BY DEF MarketMoves
<1>6. [][MarketMoves]_marketVars => [][PricesStep]_marketVars /\ [][GainStep]_marketVars /\ [][DealStep]_marketVars
  BY <1>5, PTL
<1>7. [][PricesStep]_marketVars => PricesQuoted
  BY DEF PricesStep, PricesQuoted
<1>8. [][GainStep]_marketVars => GainIsRewarded
  BY DEF GainStep, GainIsRewarded
<1>9. [][DealStep]_marketVars => WeightsDealtByScore
  BY DEF DealStep, WeightsDealtByScore
<1> QED
  BY <1>4, <1>6, <1>7, <1>8, <1>9 DEF MarketFair

-----------------------------------------------------------------------------
(* Sums over positions *)

\* A sum over a sequence is a sum over its positions.
LEMMA SumOfIs == ASSUME NEW seq PROVE SumOf(seq) = SumOver(seq, DOMAIN seq)
BY DEF SumOf, SumOver

\* A sum up to n is the sum up to n - 1 and the n-th value.
LEMMA SumTo ==
  ASSUME NEW n \in Nat, NEW v, Whole(v, 1 .. n)
  PROVE  /\ SumOver(v, 1 .. n) \in Int
         /\ n = 0 => SumOver(v, 1 .. n) = 0
         /\ n > 0 => SumOver(v, 1 .. n) = SumOver(v, 1 .. n - 1) + v[n]
<1>1. IsFiniteSet(1 .. n)
  BY FS_Interval
<1>2. SumOver(v, 1 .. n) \in Int
  BY <1>1, SumOverAdds
<1>3. ASSUME n = 0 PROVE SumOver(v, 1 .. n) = 0
  <2>1. 1 .. n = {}
    BY <1>3
  <2> QED
    BY <1>1, <2>1, SumOverAdds
<1>4. ASSUME n > 0 PROVE SumOver(v, 1 .. n) = SumOver(v, 1 .. n - 1) + v[n]
  <2>1. n \in 1 .. n /\ (1 .. n) \ {n} = 1 .. n - 1
    BY <1>4
  <2> QED
    BY <1>1, <2>1, SumOverAdds
<1> QED
  BY <1>2, <1>3, <1>4

\* The sum of two functions is the sum of their sums.
LEMMA SumOverPlus ==
  ASSUME NEW S, IsFiniteSet(S), NEW u, NEW v, NEW w, Whole(u, S), Whole(v, S),
         \A x \in S : w[x] = u[x] + v[x]
  PROVE  Whole(w, S) /\ SumOver(w, S) = SumOver(u, S) + SumOver(v, S)
<1> DEFINE T == {s \in SUBSET S : SumOver(w, s) = SumOver(u, s) + SumOver(v, s)}
<1>0. Whole(w, S)
  BY DEF Whole
<1>1. ASSUME NEW s \in SUBSET S, \A x \in s : s \ {x} \in T
      PROVE  s \in T
  <2>1. IsFiniteSet(s) /\ Whole(u, s) /\ Whole(v, s) /\ Whole(w, s)
    BY <1>0, FS_Subset DEF Whole
  <2>2. CASE s = {}
    <3>1. SumOver(u, s) = 0 /\ SumOver(v, s) = 0 /\ SumOver(w, s) = 0
      BY <2>1, <2>2, SumOverAdds
    <3> QED
      BY <3>1
  <2>3. CASE s # {}
    <3>1. PICK x \in s : TRUE
      BY <2>3
    <3>2. IsFiniteSet(s \ {x}) /\ Whole(u, s \ {x}) /\ Whole(v, s \ {x})
      BY <2>1, FS_Subset DEF Whole
    <3>3. /\ SumOver(u, s) = SumOver(u, s \ {x}) + u[x]
          /\ SumOver(v, s) = SumOver(v, s \ {x}) + v[x]
          /\ SumOver(w, s) = SumOver(w, s \ {x}) + w[x]
      BY <2>1, SumOverAdds
    <3>4. SumOver(w, s \ {x}) = SumOver(u, s \ {x}) + SumOver(v, s \ {x})
      BY <1>1
    <3>5. SumOver(u, s \ {x}) \in Int /\ SumOver(v, s \ {x}) \in Int
      BY <3>2, SumOverAdds
    <3>6. w[x] = u[x] + v[x] /\ u[x] \in Int /\ v[x] \in Int
      BY DEF Whole
    <3> HIDE DEF T
    <3>7. SumOver(w, s) = SumOver(u, s) + SumOver(v, s)
      BY <3>3, <3>4, <3>5, <3>6
    <3> QED
      BY <3>7 DEF T
  <2> QED
    BY <2>2, <2>3
<1>2. S \in T
  <2> HIDE DEF T
  <2> QED
    BY <1>1, AllSubsets
<1> QED
  BY <1>0, <1>2

-----------------------------------------------------------------------------
(* Tables of prizes *)

Run == [from : Nat, to : Nat, prize : Nat]

\* A table of m runs that cover the places 1 .. w, one after another.
Tabled(table, m, w) ==
  /\ DOMAIN table = 1 .. m
  /\ \A i \in 1 .. m : /\ table[i] \in Run
                       /\ table[i].from >= 1 /\ table[i].from <= table[i].to /\ table[i].to <= w
                       /\ table[i].from = IF i = 1 THEN 1 ELSE table[i - 1].to + 1
  /\ w = IF m = 0 THEN 0 ELSE table[m].to

\* A range of places is the sum of its two parts, for a run and for a table.
LEMMA OverlapParts ==
  ASSUME NEW run \in Run, run.from <= run.to,
         NEW a \in Int, NEW b \in Int, NEW c \in Int, a <= b + 1, b <= c
  PROVE  /\ Overlap(run, a, b) \in Nat /\ Overlap(run, b + 1, c) \in Nat
         /\ Overlap(run, a, c) = Overlap(run, a, b) + Overlap(run, b + 1, c)
BY DEF Run, Overlap, Most, Least

\* How many places of a range a run covers is a number.
LEMMA OverlapNat ==
  ASSUME NEW run \in Run, NEW a \in Int, NEW b \in Int
  PROVE  Overlap(run, a, b) \in Nat
BY DEF Run, Overlap, Most, Least

Parts(table, a, b) == [i \in DOMAIN table |-> table[i].prize * Overlap(table[i], a, b)]

LEMMA ProductNat == ASSUME NEW a \in Nat, NEW b \in Nat PROVE a * b \in Nat
OBVIOUS

\* What a range of places is paid is a sum over the runs.
LEMMA PaidIs ==
  ASSUME NEW m \in Nat, NEW w \in Nat, NEW table, Tabled(table, m, w), NEW a \in Int, NEW b \in Int
  PROVE  /\ IsFiniteSet(1 .. m) /\ Whole(Parts(table, a, b), 1 .. m)
         /\ \A i \in 1 .. m : Parts(table, a, b)[i] \in Nat
         /\ Paid(table, a, b) = SumOver(Parts(table, a, b), 1 .. m)
         /\ Paid(table, a, b) \in Nat
<1>1. IsFiniteSet(1 .. m) /\ DOMAIN Parts(table, a, b) = 1 .. m
  BY FS_Interval DEF Tabled, Parts
<1>2. ASSUME NEW i \in 1 .. m PROVE Parts(table, a, b)[i] \in Nat
  <2>1. table[i] \in Run /\ table[i].prize \in Nat
    BY DEF Tabled, Run
  <2>2. Overlap(table[i], a, b) \in Nat
    BY <2>1, OverlapNat
  <2> QED
    BY <2>1, <2>2, ProductNat DEF Tabled, Parts
<1>3. Whole(Parts(table, a, b), 1 .. m)
  BY <1>2 DEF Whole
<1>4. Paid(table, a, b) = SumOver(Parts(table, a, b), 1 .. m)
  BY <1>1, SumOfIs DEF Paid, Parts
<1>5. 0 * Cardinality(1 .. m) <= SumOver(Parts(table, a, b), 1 .. m)
  BY <1>1, <1>2, <1>3, SumOverAtLeast
<1>6. SumOver(Parts(table, a, b), 1 .. m) \in Int /\ Cardinality(1 .. m) \in Nat
  BY <1>1, <1>3, SumOverAdds, FS_CardinalityType
<1> QED
  BY <1>1, <1>2, <1>3, <1>4, <1>5, <1>6

\* What two adjacent ranges are paid adds up.
LEMMA PaidParts ==
  ASSUME NEW m \in Nat, NEW w \in Nat, NEW table, Tabled(table, m, w),
         NEW a \in Int, NEW b \in Int, NEW c \in Int, a <= b + 1, b <= c
  PROVE  Paid(table, a, c) = Paid(table, a, b) + Paid(table, b + 1, c)
<1>1. ASSUME NEW i \in 1 .. m
      PROVE  Parts(table, a, c)[i] = Parts(table, a, b)[i] + Parts(table, b + 1, c)[i]
  <2>1. table[i] \in Run /\ table[i].from <= table[i].to /\ table[i].prize \in Nat
    BY DEF Tabled, Run
  <2>2. /\ Overlap(table[i], a, b) \in Nat /\ Overlap(table[i], b + 1, c) \in Nat
        /\ Overlap(table[i], a, c) = Overlap(table[i], a, b) + Overlap(table[i], b + 1, c)
    BY <2>1, OverlapParts
  <2>3. table[i].prize * Overlap(table[i], a, c)
          = table[i].prize * Overlap(table[i], a, b) + table[i].prize * Overlap(table[i], b + 1, c)
    BY <2>1, <2>2
  <2> QED
    BY <2>3 DEF Tabled, Parts
<1>2. /\ IsFiniteSet(1 .. m)
      /\ Whole(Parts(table, a, b), 1 .. m) /\ Whole(Parts(table, b + 1, c), 1 .. m)
  BY PaidIs
<1>3. SumOver(Parts(table, a, c), 1 .. m)
        = SumOver(Parts(table, a, b), 1 .. m) + SumOver(Parts(table, b + 1, c), 1 .. m)
  BY <1>1, <1>2, SumOverPlus
<1> QED
  BY <1>3, PaidIs

\* The runs of a table cover a range of places as one run 1 .. w would.
Lengths(table, a, b) == [i \in DOMAIN table |-> Overlap(table[i], a, b)]

LEMMA Coverage ==
  ASSUME NEW m \in Nat, NEW w \in Nat, NEW table, Tabled(table, m, w),
         NEW a \in Nat, NEW b \in Nat, 1 <= a, a <= b + 1
  PROVE  /\ Whole(Lengths(table, a, b), 1 .. m)
         /\ SumOver(Lengths(table, a, b), 1 .. m) = Most(0, Least(b, w) - a + 1)
<1> DEFINE v == Lengths(table, a, b)
           last(j) == IF j = 0 THEN 0 ELSE table[j].to
           T == {j \in 0 .. m : SumOver(v, 1 .. j) = Most(0, Least(b, last(j)) - a + 1)}
<1>1. ASSUME NEW j \in 1 .. m
      PROVE  /\ v[j] \in Int /\ last(j) \in Nat /\ last(j - 1) \in Nat
             /\ v[j] = Most(0, Least(b, last(j)) - a + 1) - Most(0, Least(b, last(j - 1)) - a + 1)
  <2>1. /\ table[j] \in Run /\ v[j] = Overlap(table[j], a, b)
        /\ table[j].from = last(j - 1) + 1 /\ table[j].from <= table[j].to /\ last(j) = table[j].to
    BY DEF Tabled, Lengths
  <2>2. last(j - 1) \in Nat
    <3>1. j # 1 => table[j - 1] \in Run
      BY DEF Tabled
    <3> QED
      BY <3>1 DEF Run
  <2>3. table[j].from \in Nat /\ table[j].to \in Nat
    BY <2>1 DEF Run
  <2> HIDE DEF last
  <2> QED
    BY <2>1, <2>2, <2>3 DEF Overlap, Most, Least
<1>2. Whole(v, 1 .. m)
  BY <1>1 DEF Whole
<1>3. 0 \in T
  <2>1. SumOver(v, 1 .. 0) = 0
    <3>1. Whole(v, 1 .. 0)
      BY DEF Whole
    <3> QED
      BY <3>1, SumTo
  <2>2. Most(0, Least(b, last(0)) - a + 1) = 0
    BY DEF Most, Least
  <2> QED
    BY <2>1, <2>2
<1>4. ASSUME NEW j \in 1 .. m, j - 1 \in T PROVE j \in T
  <2>1. Whole(v, 1 .. j) /\ j \in Nat /\ j > 0
    BY <1>2 DEF Whole
  <2>2. SumOver(v, 1 .. j) = SumOver(v, 1 .. j - 1) + v[j]
    BY <2>1, SumTo
  <2>3. SumOver(v, 1 .. j - 1) = Most(0, Least(b, last(j - 1)) - a + 1)
    BY <1>4
  <2> HIDE DEF v, last
  <2>4. /\ Most(0, Least(b, last(j)) - a + 1) \in Int
        /\ Most(0, Least(b, last(j - 1)) - a + 1) \in Int
    BY <1>1 DEF Most, Least
  <2>5. SumOver(v, 1 .. j) = Most(0, Least(b, last(j)) - a + 1)
    BY <1>1, <2>2, <2>3, <2>4
  <2>6. j \in 0 .. m
    OBVIOUS
  <2> QED
    BY <2>5, <2>6
<1>5. m \in T
  <2> HIDE DEF T
  <2> QED
    BY <1>3, <1>4, UpTo
<1>6. last(m) = w
  BY DEF Tabled
<1> QED
  BY <1>2, <1>5, <1>6

\* The sum of a multiple is the multiple of the sum.
LEMMA SumOverTimes ==
  ASSUME NEW S, IsFiniteSet(S), NEW v, NEW w, Whole(w, S), NEW c \in Int,
         \A x \in S : v[x] = c * w[x]
  PROVE  Whole(v, S) /\ SumOver(v, S) = c * SumOver(w, S)
<1>1. ASSUME NEW d \in Int, d = 0
      PROVE  Whole(v, S) /\ SumOver(v, S) = c * SumOver(w, S)
  <2>1. \A x \in S : v[x] = c * w[x] - d
    BY <1>1 DEF Whole
  <2>2. Whole(v, S) /\ SumOver(v, S) = c * SumOver(w, S) - d * Cardinality(S)
    BY <2>1, SumOverLinear, Zenon
  <2>3. Cardinality(S) \in Nat /\ SumOver(w, S) \in Int
    BY FS_CardinalityType, SumOverAdds
  <2>4. c * SumOver(w, S) - d * Cardinality(S) = c * SumOver(w, S)
    BY <1>1, <2>3
  <2> QED
    BY <2>2, <2>4
<1> QED
  BY <1>1

\* Positions are finitely many, and as many as the last of them.
LEMMA PositionsFinite == ASSUME NEW m \in Nat PROVE IsFiniteSet(1 .. m)
BY FS_Interval

Descends(table, m) == \A i, j \in 1 .. m : i <= j => table[j].prize <= table[i].prize

\* Every place of a table is in one of its runs, and no later run starts before it.
LEMMA RunOfPlace ==
  ASSUME NEW m \in Nat, NEW w \in Nat, NEW table, Tabled(table, m, w), NEW b \in 1 .. w
  PROVE  \E r \in 1 .. m : /\ table[r].from <= b /\ b <= table[r].to
                           /\ \A i \in 1 .. m : r < i => b < table[i].from
                           /\ \A i \in 1 .. m : i < r => table[i].to < b
<1> DEFINE Split(r, j) == /\ table[r].from <= b /\ b <= table[r].to
                          /\ \A i \in 1 .. j : r < i => b < table[i].from
                          /\ \A i \in 1 .. j : i < r => table[i].to < b
           last(j) == IF j = 0 THEN 0 ELSE table[j].to
           T == {j \in 0 .. m : IF b <= last(j) THEN \E r \in 1 .. j : Split(r, j)
                                ELSE \A i \in 1 .. j : table[i].to < b}
<1>1. 0 \in T
  OBVIOUS
<1>2. ASSUME NEW j \in 1 .. m, j - 1 \in T PROVE j \in T
  <2>1. /\ table[j].from \in Nat /\ table[j].to \in Nat /\ last(j - 1) \in Nat
        /\ table[j].from = last(j - 1) + 1 /\ table[j].from <= table[j].to
        /\ last(j) = table[j].to /\ j \in 0 .. m /\ j - 1 \in 0 .. m
    <3>1. j # 1 => table[j - 1] \in Run
      BY DEF Tabled
    <3> QED
      BY <3>1 DEF Tabled, Run
  <2>2. CASE b <= last(j - 1)
    <3>1. PICK r \in 1 .. j - 1 : Split(r, j - 1)
      BY <1>2, <2>2
    <3>2. Split(r, j) /\ r \in 1 .. j
      <4> HIDE DEF last
      <4>1. b < table[j].from
        BY <2>1, <2>2
      <4>2. \A i \in 1 .. j : i \in 1 .. j - 1 \/ i = j
        OBVIOUS
      <4> QED
        BY <3>1, <4>1, <4>2
    <3>3. b <= last(j)
      <4> HIDE DEF last
      <4> QED
        BY <2>1, <2>2
    <3> QED
      BY <2>1, <3>2, <3>3
  <2>3. CASE ~(b <= last(j - 1)) /\ b <= last(j)
    <3>1. \A i \in 1 .. j - 1 : table[i].to < b
      BY <1>2, <2>3
    <3>2. Split(j, j)
      <4>1. \A i \in 1 .. j : i \in 1 .. j - 1 \/ i = j
        OBVIOUS
      <4> HIDE DEF last
      <4>2. table[j].from <= b /\ b <= table[j].to
        BY <2>1, <2>3
      <4> QED
        BY <3>1, <4>1, <4>2
    <3>3. j \in 1 .. j
      OBVIOUS
    <3> QED
      BY <2>1, <2>3, <3>2, <3>3
  <2>4. CASE ~(b <= last(j))
    <3>0. ~(b <= last(j - 1))
      <4> HIDE DEF last
      <4> QED
        BY <2>1, <2>4
    <3>1. \A i \in 1 .. j - 1 : table[i].to < b
      BY <1>2, <3>0
    <3>2. \A i \in 1 .. j : i \in 1 .. j - 1 \/ i = j
      OBVIOUS
    <3>3. table[j].to < b
      BY <2>1, <2>4
    <3>4. \A i \in 1 .. j : table[i].to < b
      BY <3>1, <3>2, <3>3
    <3> QED
      BY <2>1, <2>4, <3>4
  <2> QED
    BY <2>2, <2>3, <2>4
<1>3. m \in T
  <2> HIDE DEF T
  <2> QED
    BY <1>1, <1>2, UpTo
<1>4. b <= last(m)
  BY DEF Tabled
<1>5. \E r \in 1 .. m : Split(r, m)
  BY <1>3, <1>4
<1> QED
  BY <1>5

\* A prize between two bounds drops out of them.
LEMMA ProductOrder ==
  ASSUME NEW A \in Int, NEW B \in Int, NEW prize \in Nat, NEW x \in Nat, NEW y \in Nat, NEW z \in Nat,
         prize * x <= A, B <= prize * z, z <= y
  PROVE  B * x <= A * y
<1>1. prize * x \in Int /\ prize * y \in Int /\ prize * z \in Int
  OBVIOUS
<1>2. prize * z <= prize * y
  BY TimesOrder
<1>3. x * B <= x * (prize * y)
  <2>1. B <= prize * y
    BY <1>1, <1>2
  <2> QED
    BY <1>1, <2>1, TimesOrder
<1>4. y * (prize * x) <= y * A
  BY <1>1, TimesOrder
<1>5. x * (prize * y) = y * (prize * x)
  OBVIOUS
<1>6. /\ x * B = B * x /\ y * A = A * y /\ x * B \in Int /\ y * A \in Int
      /\ y * (prize * x) \in Int
  OBVIOUS
<1> QED
  BY <1>3, <1>4, <1>5, <1>6

\* The runs that meet the places a .. b pay at least, or at most, this much a place.
Floor(table, m, a, b, each) ==
  \A i \in 1 .. m : Overlap(table[i], a, b) = 0 \/ each <= table[i].prize
Ceiling(table, m, a, b, each) ==
  \A i \in 1 .. m : Overlap(table[i], a, b) = 0 \/ table[i].prize <= each

\* What the places a .. b pay, prize by prize, is at least or at most "each" a place.
LEMMA PaidAtLeast ==
  ASSUME NEW m \in Nat, NEW w \in Nat, NEW table, Tabled(table, m, w), NEW each \in Nat,
         NEW a \in Nat, NEW b \in Nat, 1 <= a, a <= b + 1,
         Floor(table, m, a, b, each)
  PROVE  each * Most(0, Least(b, w) - a + 1) <= Paid(table, a, b)
<1> DEFINE v == [i \in 1 .. m |-> each * Lengths(table, a, b)[i]]
<1>0. IsFiniteSet(1 .. m)
  BY PositionsFinite, Zenon
<1>1. /\ Whole(Lengths(table, a, b), 1 .. m)
      /\ SumOver(Lengths(table, a, b), 1 .. m) = Most(0, Least(b, w) - a + 1)
  BY Coverage
<1>2. \A i \in 1 .. m : v[i] = each * Lengths(table, a, b)[i]
  OBVIOUS
<1>3. /\ Whole(v, 1 .. m)
      /\ SumOver(v, 1 .. m) = each * SumOver(Lengths(table, a, b), 1 .. m)
  <2> HIDE DEF v
  <2>1. each \in Int
    OBVIOUS
  <2> QED
    BY <1>0, <1>1, <1>2, <2>1, SumOverTimes, Zenon
<1>4. \A i \in 1 .. m : v[i] <= Parts(table, a, b)[i]
  <2> SUFFICES ASSUME NEW i \in 1 .. m PROVE v[i] <= Parts(table, a, b)[i]
    OBVIOUS
  <2>1. table[i] \in Run /\ table[i].prize \in Nat
    BY DEF Tabled, Run
  <2>2. Overlap(table[i], a, b) \in Nat
    BY <2>1, OverlapNat
  <2>3. /\ v[i] = each * Overlap(table[i], a, b)
        /\ Parts(table, a, b)[i] = table[i].prize * Overlap(table[i], a, b)
    BY DEF Lengths, Parts, Tabled
  <2>4. CASE Overlap(table[i], a, b) = 0
    BY <2>1, <2>3, <2>4
  <2>5. CASE each <= table[i].prize
    <3>1. Overlap(table[i], a, b) * each <= Overlap(table[i], a, b) * table[i].prize
      BY <2>1, <2>2, <2>5, TimesOrder
    <3> QED
      BY <2>1, <2>2, <2>3, <3>1
  <2> QED
    BY <2>4, <2>5 DEF Floor, Ceiling
<1>5. Whole(Parts(table, a, b), 1 .. m) /\ Paid(table, a, b) = SumOver(Parts(table, a, b), 1 .. m)
  BY PaidIs
<1>6. SumOver(v, 1 .. m) <= SumOver(Parts(table, a, b), 1 .. m)
  <2> HIDE DEF v
  <2> QED
    BY <1>0, <1>3, <1>4, <1>5, SumOverLess
<1> QED
  BY <1>1, <1>3, <1>5, <1>6

\* The same from above.
LEMMA PaidAtMost ==
  ASSUME NEW m \in Nat, NEW w \in Nat, NEW table, Tabled(table, m, w), NEW each \in Nat,
         NEW a \in Nat, NEW b \in Nat, 1 <= a, a <= b + 1,
         Ceiling(table, m, a, b, each)
  PROVE  Paid(table, a, b) <= each * Most(0, Least(b, w) - a + 1)
<1> DEFINE v == [i \in 1 .. m |-> each * Lengths(table, a, b)[i]]
<1>0. IsFiniteSet(1 .. m)
  BY PositionsFinite, Zenon
<1>1. /\ Whole(Lengths(table, a, b), 1 .. m)
      /\ SumOver(Lengths(table, a, b), 1 .. m) = Most(0, Least(b, w) - a + 1)
  BY Coverage
<1>2. \A i \in 1 .. m : v[i] = each * Lengths(table, a, b)[i]
  OBVIOUS
<1>3. /\ Whole(v, 1 .. m)
      /\ SumOver(v, 1 .. m) = each * SumOver(Lengths(table, a, b), 1 .. m)
  <2> HIDE DEF v
  <2>1. each \in Int
    OBVIOUS
  <2> QED
    BY <1>0, <1>1, <1>2, <2>1, SumOverTimes, Zenon
<1>4. \A i \in 1 .. m : Parts(table, a, b)[i] <= v[i]
  <2> SUFFICES ASSUME NEW i \in 1 .. m PROVE Parts(table, a, b)[i] <= v[i]
    OBVIOUS
  <2>1. table[i] \in Run /\ table[i].prize \in Nat
    BY DEF Tabled, Run
  <2>2. Overlap(table[i], a, b) \in Nat
    BY <2>1, OverlapNat
  <2>3. /\ v[i] = each * Overlap(table[i], a, b)
        /\ Parts(table, a, b)[i] = table[i].prize * Overlap(table[i], a, b)
    BY DEF Lengths, Parts, Tabled
  <2>4. CASE Overlap(table[i], a, b) = 0
    BY <2>1, <2>3, <2>4
  <2>5. CASE table[i].prize <= each
    <3>1. Overlap(table[i], a, b) * table[i].prize <= Overlap(table[i], a, b) * each
      BY <2>1, <2>2, <2>5, TimesOrder
    <3> QED
      BY <2>1, <2>2, <2>3, <3>1
  <2> QED
    BY <2>4, <2>5 DEF Floor, Ceiling
<1>5. Whole(Parts(table, a, b), 1 .. m) /\ Paid(table, a, b) = SumOver(Parts(table, a, b), 1 .. m)
  BY PaidIs
<1>6. SumOver(Parts(table, a, b), 1 .. m) <= SumOver(v, 1 .. m)
  <2> HIDE DEF v
  <2> QED
    BY <1>0, <1>3, <1>4, <1>5, SumOverLess
<1> QED
  BY <1>1, <1>3, <1>5, <1>6

\* Of two ranges of places the better one pays at least as much a place.
LEMMA BetterPlaces ==
  ASSUME NEW m \in Nat, NEW w \in Nat, NEW table, Tabled(table, m, w), Descends(table, m),
         NEW a \in Nat, NEW b \in Nat, NEW c \in Nat, NEW d \in Nat,
         1 <= a, a <= b, b < c, c <= d
  PROVE  Paid(table, c, d) * (b - a + 1) <= Paid(table, a, b) * (d - c + 1)
<1>0. /\ Paid(table, a, b) \in Nat /\ Paid(table, c, d) \in Nat
      /\ b - a + 1 \in Nat /\ d - c + 1 \in Nat
      /\ Most(0, Least(d, w) - c + 1) \in Nat /\ Most(0, Least(d, w) - c + 1) <= d - c + 1
      /\ b <= w => Most(0, Least(b, w) - a + 1) = b - a + 1
      /\ w < b => Most(0, Least(d, w) - c + 1) = 0
  BY PaidIs DEF Most, Least
<1>1. ASSUME NEW i \in 1 .. m
      PROVE  /\ table[i].from \in Nat /\ table[i].to \in Nat /\ table[i].prize \in Nat
             /\ table[i].to <= w
             /\ b < table[i].from => Overlap(table[i], a, b) = 0
             /\ table[i].to < c => Overlap(table[i], c, d) = 0
  <2>1. table[i] \in Run /\ table[i].to <= w
    BY DEF Tabled
  <2>2. table[i].from \in Nat /\ table[i].to \in Nat /\ table[i].prize \in Nat
    BY <2>1 DEF Run
  <2> QED
    BY <2>1, <2>2 DEF Overlap, Most, Least
<1>2. CASE b <= w
  <2>1. PICK r \in 1 .. m : /\ table[r].from <= b /\ b <= table[r].to
                            /\ \A i \in 1 .. m : r < i => b < table[i].from
                            /\ \A i \in 1 .. m : i < r => table[i].to < b
    BY <1>2, RunOfPlace
  <2> DEFINE each == table[r].prize
  <2>2. each \in Nat
    BY <1>1
  <2>3. Floor(table, m, a, b, each)
    BY <1>1, <2>1 DEF Descends, Floor
  <2>4. Ceiling(table, m, c, d, each)
    <3> SUFFICES ASSUME NEW i \in 1 .. m
                 PROVE  Overlap(table[i], c, d) = 0 \/ table[i].prize <= each
      BY DEF Ceiling
    <3>1. CASE i < r
      <4>1. table[i].to < c
        BY <1>1, <2>1, <3>1
      <4> QED
        BY <1>1, <4>1
    <3>2. CASE r <= i
      BY <3>2 DEF Descends
    <3> QED
      BY <3>1, <3>2
  <2> HIDE DEF each
  <2>5. each * (b - a + 1) <= Paid(table, a, b)
    <3>1. each * Most(0, Least(b, w) - a + 1) <= Paid(table, a, b)
      BY <2>2, <2>3, PaidAtLeast
    <3> QED
      BY <1>0, <1>2, <3>1
  <2>6. Paid(table, c, d) <= each * Most(0, Least(d, w) - c + 1)
    BY <2>2, <2>4, PaidAtMost
  <2> QED
    BY <1>0, <2>2, <2>5, <2>6, ProductOrder
<1>3. CASE w < b
  <2>1. Ceiling(table, m, c, d, 0)
    BY <1>1, <1>3 DEF Ceiling
  <2>2. Paid(table, c, d) <= 0 * Most(0, Least(d, w) - c + 1)
    BY <2>1, PaidAtMost
  <2>3. Paid(table, c, d) = 0
    BY <1>0, <2>2
  <2>4. Paid(table, a, b) * (d - c + 1) \in Nat
    BY <1>0, ProductNat
  <2> QED
    BY <1>0, <2>3, <2>4
<1> QED
  BY <1>2, <1>3

-----------------------------------------------------------------------------
(* Ties *)

\* 840 is a multiple of the size of every tie.
LEMMA TieDivides == ASSUME NEW s \in Nat, NEW c \in 1 .. 8
                    PROVE  (840 * s) \div c \in Nat /\ c * ((840 * s) \div c) = 840 * s
<1>1. c \in {1, 2, 3, 4, 5, 6, 7, 8}
  OBVIOUS
<1>2. CASE c = 1 BY <1>2
<1>3. CASE c = 2 BY <1>3
<1>4. CASE c = 3 BY <1>4
<1>5. CASE c = 4 BY <1>5
<1>6. CASE c = 5 BY <1>6
<1>7. CASE c = 6 BY <1>7
<1>8. CASE c = 7 BY <1>8
<1>9. CASE c = 8 BY <1>9
<1> QED
  BY <1>1, <1>2, <1>3, <1>4, <1>5, <1>6, <1>7, <1>8, <1>9

LEMMA Positions == ASSUME NEW n \in Nat
                   PROVE  IsFiniteSet(1 .. n) /\ Cardinality(1 .. n) = n
<1>1. IsFiniteSet(1 .. n) /\ Cardinality(1 .. n) = IF 1 > n THEN 0 ELSE n - 1 + 1
  BY FS_Interval
<1> QED
  BY <1>1

\* The listed decks of a score, and those from it on.
Tied(t) == {i \in DOMAIN scores : scores[i] = t}
From(t) == {i \in DOMAIN scores : scores[i] >= t}
ListedDecks == scores \in Seq(Nat) /\ Len(scores) \in 0 .. 8 /\ strong \in Nat

\* The decks of a score and of those above it, counted.
LEMMA TiedFinite ==
  ASSUME ListedDecks, NEW t \in Nat
  PROVE  /\ IsFiniteSet(Tied(t)) /\ IsFiniteSet(From(t)) /\ IsFiniteSet(From(t + 1))
         /\ Tied(t) \in SUBSET (1 .. Len(scores))
         /\ From(t) = From(t + 1) \cup Tied(t) /\ From(t + 1) \cap Tied(t) = {}
         /\ Cardinality(Tied(t)) \in 0 .. 8
         /\ Cardinality(From(t)) \in Nat /\ Cardinality(From(t + 1)) \in Nat
         /\ Cardinality(From(t)) = Cardinality(From(t + 1)) + Cardinality(Tied(t))
         /\ Better(t) = strong + Cardinality(From(t + 1)) /\ Equal(t) = Cardinality(Tied(t))
         /\ Tied(t) # {} <=> Cardinality(Tied(t)) # 0
<1> DEFINE n == Len(scores)
<1>1. /\ n \in 0 .. 8 /\ DOMAIN scores = 1 .. n /\ \A i \in 1 .. n : scores[i] \in Nat
  BY DEF ListedDecks
<1>2. IsFiniteSet(1 .. n) /\ Cardinality(1 .. n) = n
  <2> HIDE DEF n
  <2> QED
    BY <1>1, Positions
<1>3. From(t) = From(t + 1) \cup Tied(t) /\ From(t + 1) \cap Tied(t) = {}
  BY <1>1 DEF From, Tied
<1>4. {i \in DOMAIN scores : scores[i] > t} = From(t + 1)
  BY <1>1 DEF From
<1>5. Better(t) = strong + Cardinality(From(t + 1)) /\ Equal(t) = Cardinality(Tied(t))
  BY <1>4 DEF Better, Equal, Tied
<1>6. /\ Tied(t) \in SUBSET (1 .. n) /\ From(t) \in SUBSET (1 .. n) /\ From(t + 1) \in SUBSET (1 .. n)
  BY <1>1 DEF From, Tied
<1> HIDE DEF n
<1>7. /\ IsFiniteSet(Tied(t)) /\ IsFiniteSet(From(t)) /\ IsFiniteSet(From(t + 1))
      /\ Cardinality(Tied(t)) <= n
  BY <1>2, <1>6, FS_Subset
<1>8. /\ Cardinality(Tied(t)) \in Nat /\ Cardinality(From(t)) \in Nat /\ Cardinality(From(t + 1)) \in Nat
  BY <1>7, FS_CardinalityType
<1>9. Cardinality(From(t)) = Cardinality(From(t + 1)) + Cardinality(Tied(t))
  <2>1. Cardinality(From(t + 1) \cup Tied(t))
          = Cardinality(From(t + 1)) + Cardinality(Tied(t)) - Cardinality(From(t + 1) \cap Tied(t))
    BY <1>7, FS_Union
  <2>2. Cardinality(From(t + 1) \cap Tied(t)) = 0
    BY <1>3, FS_EmptySet
  <2>3. Cardinality(From(t)) = Cardinality(From(t + 1) \cup Tied(t))
    BY <1>3
  <2> QED
    BY <1>8, <2>1, <2>2, <2>3
<1>10. Tied(t) # {} <=> Cardinality(Tied(t)) # 0
  BY <1>7, FS_EmptySet
<1> QED
  BY <1>1, <1>3, <1>5, <1>6, <1>7, <1>8, <1>9, <1>10 DEF n

\* What calculate_results gives the listed decks.
Given(table) ==
  [i \in DOMAIN scores |->
     calculate_avg_prize_for_tie(table, Better(scores[i]) + 1, Better(scores[i]) + Equal(scores[i]))]
Shares(table) ==
  [i \in DOMAIN Given(table) |-> (840 * Given(table)[i].sum) \div Given(table)[i].count]

\* What a listed deck is given: the sum for the places of its tie, and its size.
LEMMA GivenIs ==
  ASSUME ListedDecks, NEW m \in Nat, NEW w \in Nat, NEW table, Tabled(table, m, w), NEW i \in DOMAIN scores
  PROVE  /\ scores[i] \in Nat /\ Better(scores[i]) \in Nat /\ Equal(scores[i]) \in 1 .. 8
         /\ i \in Tied(scores[i]) /\ Equal(scores[i]) <= Len(scores)
         /\ Given(table)[i].count = Equal(scores[i])
         /\ Given(table)[i].sum
              = Paid(table, Better(scores[i]) + 1, Better(scores[i]) + Equal(scores[i]))
         /\ Given(table)[i].sum \in Nat
         /\ Given(table)[i] \in [sum : Nat, count : 1 .. Len(scores)]
         /\ DOMAIN Given(table) = DOMAIN scores
<1>1. scores[i] \in Nat /\ i \in Tied(scores[i]) /\ strong \in Nat
  BY DEF ListedDecks, Tied
<1>2. Better(scores[i]) \in Nat /\ Equal(scores[i]) \in 1 .. 8
  <2>1. /\ Better(scores[i]) = strong + Cardinality(From(scores[i] + 1))
        /\ Cardinality(From(scores[i] + 1)) \in Nat
    BY <1>1, TiedFinite
  <2>2. /\ Equal(scores[i]) = Cardinality(Tied(scores[i])) /\ Cardinality(Tied(scores[i])) \in 0 .. 8
        /\ Tied(scores[i]) # {} <=> Cardinality(Tied(scores[i])) # 0
    BY <1>1, TiedFinite
  <2> QED
    BY <1>1, <2>1, <2>2
<1>3. /\ Given(table)[i]
           = calculate_avg_prize_for_tie(table, Better(scores[i]) + 1, Better(scores[i]) + Equal(scores[i]))
      /\ DOMAIN Given(table) = DOMAIN scores
  BY DEF Given
<1>4. Given(table)[i] = [sum   |-> Paid(table, Better(scores[i]) + 1, Better(scores[i]) + Equal(scores[i])),
                         count |-> Equal(scores[i])]
  <2>1. ASSUME NEW a \in Nat, NEW b \in Nat
        PROVE  calculate_avg_prize_for_tie(table, a + 1, a + b)
                 = [sum |-> Paid(table, a + 1, a + b), count |-> b]
    <3>1. a + b - (a + 1) + 1 = b
      OBVIOUS
    <3> QED
      BY <3>1 DEF calculate_avg_prize_for_tie
  <2> QED
    BY <1>2, <1>3, <2>1
<1>5. Paid(table, Better(scores[i]) + 1, Better(scores[i]) + Equal(scores[i])) \in Nat
  BY <1>2, PaidIs
<1>6. Equal(scores[i]) <= Len(scores)
  <2>1. Len(scores) \in Nat
    BY DEF ListedDecks
  <2>2. IsFiniteSet(1 .. Len(scores)) /\ Cardinality(1 .. Len(scores)) = Len(scores)
    BY <2>1, Positions
  <2>3. Tied(scores[i]) \in SUBSET (1 .. Len(scores)) /\ Equal(scores[i]) = Cardinality(Tied(scores[i]))
    BY <1>1, TiedFinite
  <2> QED
    BY <2>2, <2>3, FS_Subset
<1>7. Equal(scores[i]) \in 1 .. Len(scores)
  BY <1>2, <1>6 DEF ListedDecks
<1> QED
  BY <1>1, <1>2, <1>3, <1>4, <1>5, <1>6, <1>7

\* Score after score, from the best listed one, the shares add up to the places covered.
LEMMA TiesInFull ==
  ASSUME ListedDecks, NEW m \in Nat, NEW w \in Nat, NEW table, Tabled(table, m, w)
  PROVE  SumOf(Shares(table)) = 840 * Paid(table, strong + 1, strong + Len(scores))
<1> DEFINE v == Shares(table)
<1>1. /\ Len(scores) \in Nat /\ strong \in Nat /\ DOMAIN scores = 1 .. Len(scores)
      /\ DOMAIN v = DOMAIN scores /\ IsFiniteSet(DOMAIN scores) /\ Cardinality(DOMAIN scores) = Len(scores)
  <2>1. Len(scores) \in Nat /\ strong \in Nat /\ DOMAIN scores = 1 .. Len(scores)
    BY DEF ListedDecks
  <2> QED
    BY <2>1, Positions DEF Shares, Given
<1>2. ASSUME NEW i \in DOMAIN scores
      PROVE  /\ scores[i] \in Nat /\ Equal(scores[i]) \in 1 .. 8 /\ v[i] \in Nat
             /\ v[i] = (840 * Paid(table, Better(scores[i]) + 1, Better(scores[i]) + Equal(scores[i])))
                         \div Equal(scores[i])
             /\ Equal(scores[i]) * v[i]
                  = 840 * Paid(table, Better(scores[i]) + 1, Better(scores[i]) + Equal(scores[i]))
  <2> DEFINE sum == Paid(table, Better(scores[i]) + 1, Better(scores[i]) + Equal(scores[i]))
  <2>1. /\ scores[i] \in Nat /\ Equal(scores[i]) \in 1 .. 8 /\ sum \in Nat
        /\ v[i] = (840 * sum) \div Equal(scores[i])
    <3>1. /\ scores[i] \in Nat /\ Equal(scores[i]) \in 1 .. 8
          /\ Given(table)[i].count = Equal(scores[i])
          /\ Given(table)[i].sum
               = Paid(table, Better(scores[i]) + 1, Better(scores[i]) + Equal(scores[i]))
          /\ Given(table)[i].sum \in Nat /\ DOMAIN Given(table) = DOMAIN scores
      <4> HIDE DEF sum, v
      <4> QED
        BY GivenIs
    <3> QED
      BY <3>1 DEF Shares
  <2> HIDE DEF sum, v
  <2>2. /\ (840 * sum) \div Equal(scores[i]) \in Nat
        /\ Equal(scores[i]) * ((840 * sum) \div Equal(scores[i])) = 840 * sum
    BY <2>1, TieDivides
  <2> QED
    BY <2>1, <2>2 DEF sum
<1>3. Whole(v, DOMAIN scores)
  BY <1>2 DEF Whole
<1>4. ASSUME NEW t \in Nat
      PROVE  SumOver(v, From(t)) = SumOver(v, From(t + 1))
               + 840 * Paid(table, strong + Cardinality(From(t + 1)) + 1, strong + Cardinality(From(t)))
  <2> DEFINE sum == Paid(table, Better(t) + 1, Better(t) + Equal(t))
  <2>1. /\ IsFiniteSet(Tied(t)) /\ IsFiniteSet(From(t)) /\ IsFiniteSet(From(t + 1))
        /\ From(t) = From(t + 1) \cup Tied(t) /\ From(t + 1) \cap Tied(t) = {}
        /\ Cardinality(Tied(t)) \in 0 .. 8
        /\ Cardinality(From(t)) \in Nat /\ Cardinality(From(t + 1)) \in Nat
        /\ Cardinality(From(t)) = Cardinality(From(t + 1)) + Cardinality(Tied(t))
        /\ Better(t) = strong + Cardinality(From(t + 1)) /\ Equal(t) = Cardinality(Tied(t))
        /\ Tied(t) # {} <=> Cardinality(Tied(t)) # 0
    BY TiedFinite
  <2>2. /\ Whole(v, From(t + 1) \cup Tied(t)) /\ Whole(v, Tied(t)) /\ Whole(v, From(t + 1))
    BY <1>3 DEF Whole, From, Tied
  <2>3. SumOver(v, From(t)) = SumOver(v, From(t + 1)) + SumOver(v, Tied(t))
    <3> HIDE DEF v
    <3> QED
      BY <2>1, <2>2, SumOverParts
  <2>4. sum \in Nat
    <3>1. Better(t) \in Nat /\ Equal(t) \in Nat
      BY <1>1, <2>1
    <3> QED
      BY <3>1, PaidIs
  <2>5. SumOver(v, Tied(t)) = 840 * sum
    <3>1. CASE Tied(t) = {}
      <4>1. SumOver(v, Tied(t)) = 0
        <5> HIDE DEF v
        <5> QED
          BY <2>1, <2>2, <3>1, SumOverAdds
      <4>2. Equal(t) = 0
        BY <2>1, <3>1
      <4>3. sum = 0
        <5>1. Better(t) \in Nat
          BY <1>1, <2>1
        <5>2. /\ Paid(table, Better(t) + 1, Better(t)) \in Nat
              /\ Paid(table, Better(t) + 1, Better(t))
                   = Paid(table, Better(t) + 1, Better(t)) + Paid(table, Better(t) + 1, Better(t))
          BY <5>1, PaidIs, PaidParts
        <5> QED
          BY <4>2, <5>1, <5>2
      <4> HIDE DEF sum, v
      <4> QED
        BY <4>1, <4>3
    <3>2. CASE Tied(t) # {}
      <4>1. PICK i \in Tied(t) : TRUE
        BY <3>2
      <4>2. \A k \in Tied(t) : k \in DOMAIN scores /\ scores[k] = t
        BY DEF Tied
      <4>3. \A k \in Tied(t) : v[k] = (840 * sum) \div Equal(t)
        BY <1>2, <4>2
      <4>4. v[i] \in Int /\ Equal(t) * v[i] = 840 * sum /\ v[i] = (840 * sum) \div Equal(t)
        BY <1>2, <4>1, <4>2
      <4> HIDE DEF sum, v
      <4>5. \A k \in Tied(t) : v[k] = v[i]
        BY <4>3, <4>4
      <4>6. SumOver(v, Tied(t)) = v[i] * Cardinality(Tied(t))
        BY <2>1, <4>4, <4>5, SumOverConstant
      <4> QED
        BY <2>1, <4>4, <4>6
    <3> QED
      BY <3>1, <3>2
  <2>6. sum = Paid(table, strong + Cardinality(From(t + 1)) + 1, strong + Cardinality(From(t)))
    <3>1. strong + Cardinality(From(t + 1)) + Cardinality(Tied(t)) = strong + Cardinality(From(t))
      BY <1>1, <2>1
    <3> QED
      BY <2>1, <3>1
  <2> QED
    BY <2>3, <2>5, <2>6
<1> DEFINE Done(t) == SumOver(v, From(t)) = 840 * Paid(table, strong + 1, strong + Cardinality(From(t)))
<1>5. ASSUME NEW t \in Nat, Done(t + 1) PROVE Done(t)
  <2> DEFINE x == Paid(table, strong + 1, strong + Cardinality(From(t + 1)))
             y == Paid(table, strong + Cardinality(From(t + 1)) + 1, strong + Cardinality(From(t)))
             z == Paid(table, strong + 1, strong + Cardinality(From(t)))
  <2>1. /\ Cardinality(From(t)) \in Nat /\ Cardinality(From(t + 1)) \in Nat
        /\ Cardinality(From(t + 1)) <= Cardinality(From(t))
    <3>1. /\ Cardinality(From(t)) \in Nat /\ Cardinality(From(t + 1)) \in Nat
          /\ Cardinality(Tied(t)) \in 0 .. 8
          /\ Cardinality(From(t)) = Cardinality(From(t + 1)) + Cardinality(Tied(t))
      BY TiedFinite
    <3> QED
      BY <3>1
  <2>2. z = x + y
    <3>1. /\ strong + 1 \in Int /\ strong + Cardinality(From(t + 1)) \in Int
          /\ strong + Cardinality(From(t)) \in Int
          /\ strong + 1 <= strong + Cardinality(From(t + 1)) + 1
          /\ strong + Cardinality(From(t + 1)) <= strong + Cardinality(From(t))
      BY <1>1, <2>1
    <3> QED
      BY <3>1, PaidParts
  <2>3. x \in Nat /\ y \in Nat
    BY <1>1, <2>1, PaidIs
  <2>4. SumOver(v, From(t + 1)) = 840 * x
    BY <1>5
  <2>5. SumOver(v, From(t)) = SumOver(v, From(t + 1)) + 840 * y
    BY <1>4
  <2> HIDE DEF x, y, z, v
  <2>6. SumOver(v, From(t)) = 840 * z
    BY <2>2, <2>3, <2>4, <2>5
  <2> QED
    BY <2>6 DEF z, v
<1>6. ASSUME From(0) = DOMAIN scores /\ Done(0)
      PROVE  SumOf(v) = 840 * Paid(table, strong + 1, strong + Len(scores))
  BY <1>1, <1>6, SumOfIs
<1>7. From(0) = DOMAIN scores
  BY <1>2 DEF From
<1>8. \E M \in Nat : From(M) = {}
  <2>1. CASE DOMAIN scores = {}
    BY <2>1 DEF From
  <2>2. CASE DOMAIN scores # {}
    <3>1. Whole(scores, DOMAIN scores)
      BY <1>2 DEF Whole
    <3>2. PICK x \in DOMAIN scores : \A y \in DOMAIN scores : scores[y] <= scores[x]
      BY <1>1, <2>2, <3>1, ExtremeValues
    <3>3. scores[x] + 1 \in Nat /\ From(scores[x] + 1) = {}
      BY <1>2, <3>2 DEF From
    <3> QED
      BY <3>3
  <2> QED
    BY <2>1, <2>2
<1>9. PICK M \in Nat : From(M) = {}
  BY <1>8
<1>10. Done(M)
  <2>1. SumOver(v, {}) = 0
    <3>1. IsFiniteSet({}) /\ Whole(v, {})
      BY FS_EmptySet DEF Whole
    <3> HIDE DEF v
    <3> QED
      BY <3>1, SumOverAdds
  <2>2. Cardinality({}) = 0
    BY FS_EmptySet
  <2>3. /\ Paid(table, strong + 1, strong) \in Nat
        /\ Paid(table, strong + 1, strong) = Paid(table, strong + 1, strong) + Paid(table, strong + 1, strong)
    BY <1>1, PaidIs, PaidParts
  <2>4. Paid(table, strong + 1, strong + Cardinality(From(M))) = 0
    BY <1>1, <1>9, <2>2, <2>3
  <2> QED
    BY <1>9, <2>1, <2>4
<1>11. Done(0)
  <2> DEFINE T == {k \in 0 .. M : Done(M - k)}
  <2>1. 0 \in T
    BY <1>10
  <2>2. ASSUME NEW k \in 1 .. M, k - 1 \in T PROVE k \in T
    <3>1. M - k \in Nat /\ M - (k - 1) = M - k + 1 /\ k \in 0 .. M
      OBVIOUS
    <3>2. Done(M - k + 1)
      BY <2>2, <3>1
    <3> HIDE DEF Done
    <3>3. Done(M - k)
      BY <1>5, <3>1, <3>2
    <3> QED
      BY <3>1, <3>3
  <2>3. M \in T
    <3> HIDE DEF T
    <3> QED
      BY <2>1, <2>2, UpTo
  <2>4. M - M = 0
    OBVIOUS
  <2> HIDE DEF Done
  <2> QED
    BY <2>3, <2>4
<1> QED
  BY <1>6, <1>7, <1>11

\* The sum of the first values, written out.
LEMMA FirstSums ==
  ASSUME NEW v, NEW n \in 0 .. 6, Whole(v, 1 .. n)
  PROVE  /\ n = 0 => SumOver(v, 1 .. n) = 0
         /\ n = 1 => SumOver(v, 1 .. n) = v[1]
         /\ n = 2 => SumOver(v, 1 .. n) = v[1] + v[2]
         /\ n = 3 => SumOver(v, 1 .. n) = v[1] + v[2] + v[3]
         /\ n = 4 => SumOver(v, 1 .. n) = v[1] + v[2] + v[3] + v[4]
         /\ n = 5 => SumOver(v, 1 .. n) = v[1] + v[2] + v[3] + v[4] + v[5]
         /\ n = 6 => SumOver(v, 1 .. n) = v[1] + v[2] + v[3] + v[4] + v[5] + v[6]
<1>1. ASSUME NEW j \in 1 .. n
      PROVE  v[j] \in Int /\ SumOver(v, 1 .. j) = SumOver(v, 1 .. j - 1) + v[j]
  <2>1. j \in Nat /\ j > 0 /\ Whole(v, 1 .. j) /\ v[j] \in Int
    BY DEF Whole
  <2> QED
    BY <2>1, SumTo
<1>2. SumOver(v, 1 .. 0) = 0
  <2>1. Whole(v, 1 .. 0)
    BY DEF Whole
  <2> QED
    BY <2>1, SumTo
<1> DEFINE s(j) == SumOver(v, 1 .. j)
<1>3. s(0) = 0 /\ \A j \in 1 .. n : v[j] \in Int /\ s(j) = s(j - 1) + v[j]
  BY <1>1, <1>2
<1> HIDE DEF s
<1>4. n >= 1 => s(1) = v[1] /\ v[1] \in Int
  <2>1. n >= 1 => 1 \in 1 .. n /\ 1 - 1 = 0
    OBVIOUS
  <2> QED
    BY <1>3, <2>1
<1>5. n >= 2 => s(2) = v[1] + v[2] /\ v[2] \in Int
  <2>1. n >= 2 => 2 \in 1 .. n /\ 2 - 1 = 1 /\ n >= 1
    OBVIOUS
  <2> QED
    BY <1>3, <1>4, <2>1
<1>6. n >= 3 => s(3) = v[1] + v[2] + v[3] /\ v[3] \in Int
  <2>1. n >= 3 => 3 \in 1 .. n /\ 3 - 1 = 2 /\ n >= 2
    OBVIOUS
  <2> QED
    BY <1>3, <1>5, <2>1
<1>7. n >= 4 => s(4) = v[1] + v[2] + v[3] + v[4] /\ v[4] \in Int
  <2>1. n >= 4 => 4 \in 1 .. n /\ 4 - 1 = 3 /\ n >= 3
    OBVIOUS
  <2> QED
    BY <1>3, <1>6, <2>1
<1>8. n >= 5 => s(5) = v[1] + v[2] + v[3] + v[4] + v[5] /\ v[5] \in Int
  <2>1. n >= 5 => 5 \in 1 .. n /\ 5 - 1 = 4 /\ n >= 4
    OBVIOUS
  <2> QED
    BY <1>3, <1>7, <2>1
<1>9. n >= 6 => s(6) = v[1] + v[2] + v[3] + v[4] + v[5] + v[6]
  <2>1. n >= 6 => 6 \in 1 .. n /\ 6 - 1 = 5 /\ n >= 5
    OBVIOUS
  <2> QED
    BY <1>3, <1>8, <2>1
<1> QED
  BY <1>3, <1>4, <1>5, <1>6, <1>7, <1>8, <1>9 DEF s

-----------------------------------------------------------------------------
(* The table of prizes *)

\* About a third of the decks win, and all of three or fewer.
LEMMA WinnersAre ==
  ASSUME NEW n \in Nat \ {0}
  PROVE  /\ Winners(n) \in Nat \ {0} /\ Winners(n) <= n
         /\ 100 * Winners(n) <= 33 * n \/ Winners(n) <= 3
         /\ Winners(n) > 3 => 33 * n < 100 * Winners(n) + 100
         /\ n >= 12 => 33 * n < 100 * Winners(n) + 100
BY DEF Winners, Least

\* The ten best: shares of the pool times its scale, rounded down.
Scale(w) == Most(1200, 2000 - w)
Share(s, x) == (s * x) \div 2000000
RoundedDown(q, y) == q \in Nat /\ 2000000 * q <= y /\ y < 2000000 * q + 2000000

\* A share is its fraction of the pool rounded down.
LEMMA ShareIs ==
  ASSUME NEW s \in Nat, NEW x \in Nat
  PROVE  RoundedDown(Share(s, x), s * x) /\ Share(s, x) \in Nat
<1>1. s * x \in Nat
  BY ProductNat
<1> DEFINE a == s * x
<1> HIDE DEF a
<1>2. a \in Nat
  BY <1>1 DEF a
<1>3. /\ a \div 2000000 \in Nat /\ 2000000 * (a \div 2000000) <= a
      /\ a < 2000000 * (a \div 2000000) + 2000000
  BY <1>2, SMT
<1> QED
  BY <1>3, SMT DEF a, Share, RoundedDown

TopIsShare(pool, w) ==
  \A i \in 1 .. Least(10, w) : /\ i \in 1 .. 10 /\ i <= w /\ TopShares[i] \in Nat
                               /\ TopPrizes(pool, w)[i] = Share(TopShares[i], pool * Scale(w))

\* The scale is between 1200 and 2000 of 2000.
LEMMA ScaleIs == ASSUME NEW w \in Nat
                 PROVE  Scale(w) \in Nat /\ 1200 <= Scale(w) /\ Scale(w) <= 2000
BY SMT DEF Scale, Most

\* The ten best are paid their shares.
LEMMA TopIs ==
  ASSUME NEW pool \in Nat, NEW w \in Nat \ {0}
  PROVE  /\ pool * Scale(w) \in Nat
         /\ DOMAIN TopPrizes(pool, w) = 1 .. Least(10, w)
         /\ TopIsShare(pool, w)
<1>1. Scale(w) \in Nat
  BY ScaleIs
<1>2. pool * Scale(w) \in Nat
  BY <1>1, ProductNat
<1>3. TopPrizes(pool, w) = [i \in 1 .. Least(10, w) |-> (pool * TopShares[i] * Scale(w)) \div 2000000]
  BY SMT DEF TopPrizes, Scale
<1>4. ASSUME NEW i \in 1 .. Least(10, w)
      PROVE  /\ i \in 1 .. 10 /\ i <= w /\ TopShares[i] \in Nat
             /\ (pool * TopShares[i] * Scale(w)) \div 2000000 = Share(TopShares[i], pool * Scale(w))
  <2>1. i \in 1 .. 10 /\ i <= w
    BY DEF Least
  <2>2. TopShares[i] \in Nat
    BY <2>1 DEF TopShares
  <2>3. \A a, b, c \in Nat : a * b * c = b * (a * c)
    OBVIOUS
  <2>4. pool * TopShares[i] * Scale(w) = TopShares[i] * (pool * Scale(w))
    BY <1>1, <2>2, <2>3
  <2> QED
    BY <2>1, <2>2, <2>4, SMT DEF Share
<1>5. /\ DOMAIN TopPrizes(pool, w) = 1 .. Least(10, w)
      /\ \A i \in 1 .. Least(10, w) :
           TopPrizes(pool, w)[i] = (pool * TopShares[i] * Scale(w)) \div 2000000
  BY <1>3, SMT
<1> QED
  BY <1>2, <1>4, <1>5, SMT DEF TopIsShare

-----------------------------------------------------------------------------
(* The groups below the first ten places *)

\* Where each group ends.
GroupSize(w, j) == Most(1, (w * GroupShares[j]) \div 100)

\* The sizes of the groups are their percent of the winners, or 1.
LEMMA GroupSizes ==
  ASSUME NEW w \in Nat
  PROVE  \A j \in 1 .. 6 : /\ GroupShares[j] \in Nat /\ GroupSize(w, j) \in Nat \ {0}
                           /\ GroupSize(w, j) = Most(1, (w * GroupShares[j]) \div 100)
                           /\ GroupSize(w, j) = 1 \/ 100 * GroupSize(w, j) <= w * GroupShares[j]
<1> SUFFICES ASSUME NEW j \in 1 .. 6
             PROVE  /\ GroupShares[j] \in Nat /\ GroupSize(w, j) \in Nat \ {0}
                    /\ GroupSize(w, j) = Most(1, (w * GroupShares[j]) \div 100)
                    /\ GroupSize(w, j) = 1 \/ 100 * GroupSize(w, j) <= w * GroupShares[j]
  OBVIOUS
<1>1. GroupShares[j] \in Nat
  BY DEF GroupShares
<1>2. w * GroupShares[j] \in Nat
  BY <1>1, ProductNat
<1> QED
  BY <1>1, <1>2 DEF GroupSize, Most

\* Where each group ends.
LEMMA LastPlaces ==
  ASSUME NEW w \in Nat
  PROVE  /\ LastPlace(w, 0) = Least(w, 10)
         /\ LastPlace(w, 1) = Least(w, 10 + GroupSize(w, 1))
         /\ LastPlace(w, 2) = Least(w, 10 + GroupSize(w, 1) + GroupSize(w, 2))
         /\ LastPlace(w, 3) = Least(w, 10 + GroupSize(w, 1) + GroupSize(w, 2) + GroupSize(w, 3))
         /\ LastPlace(w, 4) = Least(w, 10 + GroupSize(w, 1) + GroupSize(w, 2) + GroupSize(w, 3)
                                        + GroupSize(w, 4))
         /\ LastPlace(w, 5) = Least(w, 10 + GroupSize(w, 1) + GroupSize(w, 2) + GroupSize(w, 3)
                                        + GroupSize(w, 4) + GroupSize(w, 5))
         /\ LastPlace(w, 6) = Least(w, 10 + GroupSize(w, 1) + GroupSize(w, 2) + GroupSize(w, 3)
                                        + GroupSize(w, 4) + GroupSize(w, 5) + GroupSize(w, 6))
         /\ LastPlace(w, 7) = w
<1> DEFINE v == [j \in 1 .. 6 |-> GroupSize(w, j)]
<1>1. \A j \in 1 .. 6 : v[j] = GroupSize(w, j) /\ GroupSize(w, j) \in Nat
  BY GroupSizes
<1>2. ASSUME NEW i \in 0 .. 6
      PROVE  /\ LastPlace(w, i) = Least(w, 10 + SumOver(v, 1 .. i))
             /\ Whole(v, 1 .. i) /\ i \in Nat
  <2> DEFINE u == [j \in 1 .. i |-> Most(1, (w * GroupShares[j]) \div 100)]
  <2>0. i \in Nat /\ \A j \in 1 .. i : j \in 1 .. 6
    OBVIOUS
  <2>1. IsFiniteSet(1 .. i) /\ Whole(v, 1 .. i) /\ i \in Nat
    <3>1. Whole(v, 1 .. i)
      <4> HIDE DEF v
      <4> QED
        BY <1>1, <2>0 DEF Whole
    <3> QED
      BY <2>0, <3>1, Positions
  <2>2. \A j \in 1 .. i : v[j] = u[j]
    <3>1. \A j \in 1 .. i : u[j] = Most(1, (w * GroupShares[j]) \div 100)
      OBVIOUS
    <3> HIDE DEF u, v
    <3> QED
      BY <1>1, <2>0, <3>1, GroupSizes
  <2>3. SumOf(u) = SumOver(u, 1 .. i)
    BY SumOfIs
  <2>4. LastPlace(w, i) = Least(w, 10 + SumOf(u))
    BY DEF LastPlace
  <2> HIDE DEF u, v
  <2>5. SumOver(v, 1 .. i) = SumOver(u, 1 .. i)
    BY <2>1, <2>2, SumOverSame
  <2> QED
    BY <2>1, <2>3, <2>4, <2>5
<1> HIDE DEF v
<1>3. Whole(v, 1 .. 6) /\ v[1] = GroupSize(w, 1) /\ v[2] = GroupSize(w, 2) /\ v[3] = GroupSize(w, 3)
      /\ v[4] = GroupSize(w, 4) /\ v[5] = GroupSize(w, 5) /\ v[6] = GroupSize(w, 6)
  BY <1>1 DEF Whole
<1>4. LastPlace(w, 7) = w
  BY DEF LastPlace
<1>5. LastPlace(w, 0) = Least(w, 10 + SumOver(v, 1 .. 0)) /\ LastPlace(w, 1) = Least(w, 10 + SumOver(v, 1 .. 1))
  BY <1>2
<1>6. LastPlace(w, 2) = Least(w, 10 + SumOver(v, 1 .. 2)) /\ LastPlace(w, 3) = Least(w, 10 + SumOver(v, 1 .. 3))
  BY <1>2
<1>7. LastPlace(w, 4) = Least(w, 10 + SumOver(v, 1 .. 4)) /\ LastPlace(w, 5) = Least(w, 10 + SumOver(v, 1 .. 5))
  BY <1>2
<1>8. LastPlace(w, 6) = Least(w, 10 + SumOver(v, 1 .. 6))
  BY <1>2
<1>9. \A a, b, c, d, e, f \in Nat :
        /\ 10 + (a + b) = 10 + a + b /\ 10 + (a + b + c) = 10 + a + b + c
        /\ 10 + (a + b + c + d) = 10 + a + b + c + d
        /\ 10 + (a + b + c + d + e) = 10 + a + b + c + d + e
        /\ 10 + (a + b + c + d + e + f) = 10 + a + b + c + d + e + f
  OBVIOUS
<1>10. /\ SumOver(v, 1 .. 0) = 0 /\ SumOver(v, 1 .. 1) = v[1] /\ SumOver(v, 1 .. 2) = v[1] + v[2]
       /\ SumOver(v, 1 .. 3) = v[1] + v[2] + v[3] /\ SumOver(v, 1 .. 4) = v[1] + v[2] + v[3] + v[4]
       /\ SumOver(v, 1 .. 5) = v[1] + v[2] + v[3] + v[4] + v[5]
       /\ SumOver(v, 1 .. 6) = v[1] + v[2] + v[3] + v[4] + v[5] + v[6]
  <2>1. \A n \in 0 .. 6 : Whole(v, 1 .. n)
    BY <1>3 DEF Whole
  <2> QED
    BY <2>1, FirstSums
<1> QED
  BY <1>1, <1>3, <1>4, <1>5, <1>6, <1>7, <1>8, <1>9, <1>10

\* There are groups below ten winners only, none is empty, and the last ends at the last winner.
Grouped(w, k) ==
  /\ k \in 0 .. 7 /\ Groups(w) = 1 .. k /\ (k = 0 <=> w <= 10)
  /\ LastPlace(w, 0) = Least(10, w) /\ LastPlace(w, k) = w
  /\ \A i \in 0 .. 7 : LastPlace(w, i) \in Nat /\ LastPlace(w, i) <= w
  /\ \A i \in 1 .. k : LastPlace(w, i - 1) < LastPlace(w, i) /\ Size(w, i) \in Nat \ {0}

\* The groups are the first so many of seven and end at the last winner.
LEMMA GroupsAre ==
  ASSUME NEW w \in Nat \ {0}
  PROVE  \E k \in 0 .. 7 : Grouped(w, k)
<1> DEFINE p(i) == LastPlace(w, i)
           z(j) == GroupSize(w, j)
<1>1. z(1) \in Nat \ {0} /\ z(2) \in Nat \ {0} /\ z(3) \in Nat \ {0} /\ z(4) \in Nat \ {0} /\ z(5) \in Nat \ {0}
      /\ z(6) \in Nat \ {0}
  BY GroupSizes
<1>2. /\ p(0) \in Nat /\ p(1) \in Nat /\ p(2) \in Nat /\ p(3) \in Nat /\ p(4) \in Nat /\ p(5) \in Nat /\ p(6) \in Nat
      /\ p(7) = w /\ p(0) = Least(10, w)
      /\ p(0) <= p(1) /\ p(1) <= p(2) /\ p(2) <= p(3) /\ p(3) <= p(4) /\ p(4) <= p(5) /\ p(5) <= p(6) /\ p(6) <= w
      /\ p(0) < w => p(0) < p(1)
      /\ p(1) < w => p(1) < p(2)
      /\ p(2) < w => p(2) < p(3)
      /\ p(3) < w => p(3) < p(4)
      /\ p(4) < w => p(4) < p(5)
      /\ p(5) < w => p(5) < p(6)
  <2> HIDE DEF z
  <2> USE LastPlaces DEF Least, z
  <2> QED
    BY <1>1
<1>3. ASSUME NEW k \in 0 .. 7, \A i \in 1 .. k : p(i - 1) < w, p(k) = w
      PROVE  Grouped(w, k)
  <2>1. \A i \in 1 .. 7 : p(i - 1) < w => p(i - 1) < p(i)
    <3> HIDE DEF p
    <3> QED
      BY <1>2
  <2>2. \A i \in 0 .. 7 : p(i) \in Nat /\ p(i) <= w
    <3> HIDE DEF p
    <3> QED
      BY <1>2
  <2>3. \A i, j \in 0 .. 7 : i <= j => p(i) <= p(j)
    <3> HIDE DEF p
    <3> QED
      BY <1>2
  <2>4. Groups(w) = 1 .. k
    <3>1. Groups(w) = {i \in 1 .. 7 : p(i - 1) < w}
      BY DEF Groups
    <3>2. \A i \in 1 .. 7 : p(i - 1) < w => i \in 1 .. k
      <4> SUFFICES ASSUME NEW i \in 1 .. 7, p(i - 1) < w, i > k PROVE FALSE
        OBVIOUS
      <4>1. k <= i - 1 /\ i - 1 \in 0 .. 7 /\ k \in 0 .. 7
        OBVIOUS
      <4> HIDE DEF p
      <4>2. p(k) <= p(i - 1) /\ p(i - 1) \in Nat
        BY <2>2, <2>3, <4>1
      <4> QED
        BY <1>3, <4>2
    <3> HIDE DEF p
    <3> QED
      BY <1>3, <3>1, <3>2
  <2>5. \A i \in 1 .. k : p(i - 1) < p(i) /\ Size(w, i) \in Nat \ {0}
    <3> SUFFICES ASSUME NEW i \in 1 .. k PROVE p(i - 1) < p(i) /\ Size(w, i) \in Nat \ {0}
      OBVIOUS
    <3>1. i \in 1 .. 7 /\ i \in 0 .. 7 /\ i - 1 \in 0 .. 7
      OBVIOUS
    <3>2. Size(w, i) = p(i) - p(i - 1)
      BY DEF Size
    <3> HIDE DEF p
    <3> QED
      BY <1>3, <2>1, <2>2, <3>1, <3>2
  <2>6. k = 0 <=> w <= 10
    <3>1. k = 0 => p(0) = w
      BY <1>3
    <3>2. k # 0 => p(0) < w
      <4>1. k # 0 => 1 \in 1 .. k /\ 1 - 1 = 0
        OBVIOUS
      <4> HIDE DEF p
      <4> QED
        BY <1>3, <4>1
    <3>3. p(0) = Least(10, w)
      BY <1>2
    <3> HIDE DEF p
    <3> QED
      BY <3>1, <3>2, <3>3 DEF Least
  <2>7. p(0) = Least(10, w)
    BY <1>2
  <2> QED
    BY <1>3, <2>2, <2>4, <2>5, <2>6, <2>7 DEF Grouped
<1>4. \E k \in 0 .. 7 : p(k) = w /\ \A i \in 1 .. k : p(i - 1) < w
  <2> HIDE DEF p
  <2>1. CASE p(0) = w
    <3>1. \A i \in 1 .. 0 : p(i - 1) < w
      OBVIOUS
    <3> QED
      BY <2>1, <3>1
  <2>2. CASE p(0) < w /\ p(1) = w
    <3>1. \A i \in 1 .. 1 : i - 1 = 0
      OBVIOUS
    <3> QED
      BY <2>2, <3>1
  <2>3. CASE p(1) < w /\ p(2) = w
    <3>1. \A i \in 1 .. 2 : i - 1 \in {0, 1}
      OBVIOUS
    <3> QED
      BY <1>2, <2>3, <3>1
  <2>4. CASE p(2) < w /\ p(3) = w
    <3>1. \A i \in 1 .. 3 : i - 1 \in {0, 1, 2}
      OBVIOUS
    <3> QED
      BY <1>2, <2>4, <3>1
  <2>5. CASE p(3) < w /\ p(4) = w
    <3>1. \A i \in 1 .. 4 : i - 1 \in {0, 1, 2, 3}
      OBVIOUS
    <3> QED
      BY <1>2, <2>5, <3>1
  <2>6. CASE p(4) < w /\ p(5) = w
    <3>1. \A i \in 1 .. 5 : i - 1 \in {0, 1, 2, 3, 4}
      OBVIOUS
    <3> QED
      BY <1>2, <2>6, <3>1
  <2>7. CASE p(5) < w /\ p(6) = w
    <3>1. \A i \in 1 .. 6 : i - 1 \in {0, 1, 2, 3, 4, 5}
      OBVIOUS
    <3> QED
      BY <1>2, <2>7, <3>1
  <2>8. CASE p(6) < w /\ p(7) = w
    <3>1. \A i \in 1 .. 7 : i - 1 \in {0, 1, 2, 3, 4, 5, 6}
      OBVIOUS
    <3> QED
      BY <1>2, <2>8, <3>1
  <2> QED
    BY <1>2, <2>1, <2>2, <2>3, <2>4, <2>5, <2>6, <2>7, <2>8
<1> QED
  BY <1>3, <1>4

\* What is paid to the ten best together.
Cumulated == <<140, 245, 330, 400, 457, 504, 543, 576, 604, 628>>

\* The shares of the ten best, cumulated.
LEMMA CumulatedIs ==
  /\ \A j \in 1 .. 10 : Cumulated[j] \in Nat /\ Cumulated[j] <= 628
  /\ \A j \in 1 .. 10 : Cumulated[j] = TopShares[j] + IF j = 1 THEN 0 ELSE Cumulated[j - 1]
BY DEF Cumulated, TopShares

AtMostPermille(sum, s, x) == 2000000 * sum <= s * x

\* The ten best are paid no more than 628 permille of the scaled pool.
LEMMA TopSum ==
  ASSUME NEW pool \in Nat, NEW w \in Nat \ {0}
  PROVE  /\ Whole(TopPrizes(pool, w), 1 .. Least(10, w))
         /\ SumOf(TopPrizes(pool, w)) = SumOver(TopPrizes(pool, w), 1 .. Least(10, w))
         /\ \A i \in 1 .. Least(10, w) : TopPrizes(pool, w)[i] \in Nat
         /\ SumOf(TopPrizes(pool, w)) \in Nat /\ SumOf(TopPrizes(pool, w)) <= pool
         /\ AtMostPermille(SumOf(TopPrizes(pool, w)), 628, pool * Scale(w))
<1> DEFINE top == TopPrizes(pool, w)
           n == Least(10, w)
           x == pool * Scale(w)
           sum(j) == SumOver(top, 1 .. j)
           cum(j) == IF j = 0 THEN 0 ELSE Cumulated[j]
           T == {j \in 0 .. n : sum(j) \in Nat /\ 2000000 * sum(j) <= cum(j) * x}
<1>0. n \in 1 .. 10
  BY DEF Least
<1>1. /\ n \in 1 .. 10 /\ x \in Nat /\ DOMAIN top = 1 .. n /\ x <= 2000 * pool
      /\ \A i \in 1 .. n : /\ i \in 1 .. 10 /\ TopShares[i] \in Nat /\ top[i] \in Nat
                           /\ 2000000 * top[i] <= TopShares[i] * x
  <2>1. n \in 1 .. 10
    BY SMT DEF Least
  <2>2. x \in Nat /\ DOMAIN top = 1 .. n
    BY TopIs
  <2>3. x <= 2000 * pool
    <3>1. Scale(w) \in Nat /\ Scale(w) <= 2000
      BY ScaleIs
    <3>2. pool * Scale(w) <= pool * 2000
      BY <3>1, TimesOrder, SMT
    <3> QED
      BY <3>2, SMT
  <2>4. ASSUME NEW i \in 1 .. n
        PROVE  /\ i \in 1 .. 10 /\ TopShares[i] \in Nat /\ top[i] \in Nat
               /\ 2000000 * top[i] <= TopShares[i] * x
    <3>1. i \in 1 .. 10 /\ TopShares[i] \in Nat /\ top[i] = Share(TopShares[i], x)
      <4>1. TopIsShare(pool, w)
        BY TopIs
      <4> QED
        BY <4>1, Zenon DEF TopIsShare
    <3> HIDE DEF top, x
    <3>2. RoundedDown(top[i], TopShares[i] * x)
      BY <2>2, <3>1, ShareIs, Zenon
    <3> QED
      BY <3>1, <3>2, SMT DEF RoundedDown
  <2> QED
    BY <2>1, <2>2, <2>3, <2>4, SMT
<1>2. Whole(top, 1 .. n)
  BY <1>1, SMT DEF Whole
<1>3. 0 \in T
  <2>1. sum(0) = 0
    <3>1. Whole(top, 1 .. 0)
      BY SMT DEF Whole
    <3> QED
      BY <3>1, SumTo, SMT
  <2> HIDE DEF sum
  <2> QED
    BY <1>1, <2>1, SMT
<1>4. ASSUME NEW j \in 1 .. n, j - 1 \in T PROVE j \in T
  <2>1. Whole(top, 1 .. j) /\ j \in Nat /\ j > 0
    BY <1>1, SMT DEF Whole
  <2>2. sum(j) = sum(j - 1) + top[j]
    <3> HIDE DEF top
    <3> QED
      BY <2>1, SumTo, SMT
  <2>3. sum(j - 1) \in Nat /\ 2000000 * sum(j - 1) <= cum(j - 1) * x
    BY <1>4, SMT
  <2>4. top[j] \in Nat /\ 2000000 * top[j] <= TopShares[j] * x /\ j \in 1 .. 10
    BY <1>1, SMT
  <2>5. cum(j) = cum(j - 1) + TopShares[j] /\ cum(j - 1) \in Nat /\ TopShares[j] \in Nat
    BY <2>4, SMT DEF Cumulated, TopShares
  <2>6. cum(j) * x = cum(j - 1) * x + TopShares[j] * x
    <3> HIDE DEF cum, x
    <3> QED
      BY <1>1, <2>5, SMT
  <2>7. cum(j - 1) * x \in Nat /\ TopShares[j] * x \in Nat
    <3> HIDE DEF cum, x
    <3> QED
      BY <1>1, <2>5, ProductNat, SMT
  <2> HIDE DEF cum, x, top, sum
  <2>8. sum(j) \in Nat /\ 2000000 * sum(j) <= cum(j) * x
    BY <2>2, <2>3, <2>4, <2>6, <2>7, SMT
  <2> QED
    BY <2>8, SMT
<1>5. n \in T
  <2> HIDE DEF T, n
  <2> QED
    BY <1>1, <1>3, <1>4, UpTo, SMT
<1>6. cum(n) * x <= 628 * x
  <2>1. cum(n) \in Nat /\ cum(n) <= 628
    <3>1. n \in 1 .. 10
      BY <1>0
    <3> HIDE DEF n
    <3> QED
      BY <3>1, CumulatedIs
  <2> HIDE DEF cum, x, n
  <2>2. x * cum(n) <= x * 628
    BY <1>1, <2>1, TimesOrder, SMT
  <2> QED
    BY <1>1, <2>1, <2>2, SMT
<1>7. SumOf(top) = sum(n)
  BY <1>1, SumOfIs
<1>8. cum(n) * x \in Int
  <2>1. cum(n) \in Nat
    <3>1. n \in 1 .. 10
      BY <1>0
    <3> HIDE DEF n
    <3> QED
      BY <3>1, CumulatedIs
  <2> HIDE DEF cum, x, n
  <2> QED
    BY <1>1, <2>1, ProductNat, SMT
<1>9. sum(n) \in Nat /\ 2000000 * sum(n) <= 628 * x
  <2>1. sum(n) \in Nat /\ 2000000 * sum(n) <= cum(n) * x
    BY <1>5, SMT
  <2> HIDE DEF sum, cum, x, n
  <2> QED
    BY <1>1, <1>6, <1>8, <2>1, SMT
<1>10. sum(n) <= pool
  <2> HIDE DEF sum, x, n
  <2> QED
    BY <1>1, <1>9, SMT
<1> QED
  BY <1>1, <1>2, <1>7, <1>9, <1>10, SMT DEF AtMostPermille

-----------------------------------------------------------------------------
(* What is left over *)

CostOf(S, size, each) == SumOver([i \in S |-> size[i] * each[i]], S)

Planned(S, size, plan) == \A i \in S : size[i] \in Nat /\ plan[i] \in Nat \ {0}
Lifted(each, S, plan, left, planned) ==
  \A i \in S : each[i] = Most(1, (plan[i] * left) \div planned)

\* Prizes scaled down to what is left cost no more than that and 1 for each place.
LEMMA ScaledDown ==
  ASSUME NEW S, IsFiniteSet(S), NEW size, NEW plan, NEW left \in Nat,
         Planned(S, size, plan),
         NEW planned \in Nat, planned = CostOf(S, size, plan), planned > left,
         NEW each, Lifted(each, S, plan, left, planned)
  PROVE  /\ \A i \in S : each[i] \in Nat \ {0} /\ each[i] <= plan[i]
         /\ \A i, j \in S : plan[i] <= plan[j] => each[i] <= each[j]
         /\ CostOf(S, size, each) \in Nat
         /\ CostOf(S, size, each) <= left + SumOver(size, S)
         /\ (\A i \in S : planned <= plan[i] * left)
              => CostOf(S, size, each) <= left
<1> DEFINE cost == [i \in S |-> size[i] * each[i]]
           wish == [i \in S |-> size[i] * plan[i]]
<1>0. planned \in Int /\ planned > 0
  OBVIOUS
<1>a. ASSUME NEW i \in S PROVE size[i] \in Nat /\ plan[i] \in Nat \ {0}
  BY DEF Planned
<1>1. ASSUME NEW i \in S
      PROVE  /\ plan[i] * left \in Nat /\ (plan[i] * left) \div planned \in Int
             /\ planned * ((plan[i] * left) \div planned) <= plan[i] * left
             /\ (plan[i] * left) \div planned <= plan[i]
             /\ planned <= plan[i] * left => (plan[i] * left) \div planned >= 1
  <2>1. plan[i] * left \in Nat
    BY <1>a, ProductNat
  <2> DEFINE a == plan[i] * left
             q == a \div planned
  <2> HIDE DEF a
  <2>2. a \in Nat
    BY <2>1 DEF a
  <2>3. q \in Int /\ planned * q <= a
    BY <1>0, <2>2
  <2>4. q <= plan[i]
    <3>1. plan[i] * left <= plan[i] * planned
      BY <1>a, TimesOrder
    <3>2. a <= plan[i] * planned /\ plan[i] \in Int
      BY <1>a, <3>1 DEF a
    <3> QED
      BY <1>0, <2>2, <3>2, DivAtMost
  <2>5. planned <= a => q >= 1
    <3>1. planned <= a => 1 * planned <= a
      BY <1>0
    <3> QED
      BY <1>0, <2>2, <3>1, DivAtLeast
  <2> HIDE DEF q
  <2> QED
    BY <2>1, <2>3, <2>4, <2>5 DEF a, q
<1>2. ASSUME NEW i \in S PROVE each[i] \in Nat \ {0} /\ each[i] <= plan[i]
  BY <1>a, <1>1 DEF Most, Lifted
<1>3. ASSUME NEW i \in S, NEW j \in S, plan[i] <= plan[j] PROVE each[i] <= each[j]
  <2>1. left * plan[i] <= left * plan[j]
    BY <1>a, <1>3, TimesOrder
  <2>2. plan[i] * left <= plan[j] * left /\ plan[i] * left \in Int /\ plan[j] * left \in Int
    <3>1. \A a \in Nat : a * left = left * a
      OBVIOUS
    <3> QED
      BY <1>a, <1>1, <2>1, <3>1
  <2>3. (plan[i] * left) \div planned <= (plan[j] * left) \div planned
    BY <1>0, <2>2, DivOrder
  <2> QED
    BY <1>a, <1>1, <2>3 DEF Most, Lifted
<1>4. ASSUME NEW i \in S
      PROVE  cost[i] \in Nat /\ wish[i] \in Nat /\ size[i] \in Int
  BY <1>a, <1>2, ProductNat
<1>5. /\ Whole(cost, S) /\ Whole(wish, S) /\ Whole(size, S)
      /\ SumOver(cost, S) \in Int /\ SumOver(size, S) \in Int
  <2>1. Whole(cost, S) /\ Whole(wish, S) /\ Whole(size, S)
    BY <1>4 DEF Whole
  <2> HIDE DEF cost, wish
  <2> QED
    BY <2>1, SumOverAdds
<1>6. SumOver(cost, S) \in Nat
  <2>1. \A i \in S : 0 <= cost[i]
    <3> HIDE DEF cost
    <3> QED
      BY <1>4
  <2>2. 0 * Cardinality(S) <= SumOver(cost, S)
    <3> HIDE DEF cost
    <3> QED
      BY <1>5, <2>1, SumOverAtLeast
  <2>3. Cardinality(S) \in Nat
    BY FS_CardinalityType
  <2> QED
    BY <1>5, <2>2, <2>3
\* planned times the cost, and what bounds it, place by place.
<1> DEFINE paid == [i \in S |-> planned * cost[i]]
           fair == [i \in S |-> left * wish[i]]
           lift == [i \in S |-> planned * size[i]]
           both == [i \in S |-> fair[i] + lift[i]]
<1>7. /\ Whole(paid, S) /\ SumOver(paid, S) = planned * SumOver(cost, S)
      /\ Whole(fair, S) /\ SumOver(fair, S) = left * SumOver(wish, S)
      /\ Whole(lift, S) /\ SumOver(lift, S) = planned * SumOver(size, S)
  <2>1. \A i \in S : paid[i] = planned * cost[i]
    OBVIOUS
  <2>2. \A i \in S : fair[i] = left * wish[i]
    OBVIOUS
  <2>3. \A i \in S : lift[i] = planned * size[i]
    OBVIOUS
  <2>4. planned \in Int /\ left \in Int
    OBVIOUS
  <2>5. Whole(cost, S) /\ Whole(wish, S) /\ Whole(size, S)
    BY <1>5
  <2> HIDE DEF paid, fair, lift, cost, wish
  <2>6. Whole(paid, S) /\ SumOver(paid, S) = planned * SumOver(cost, S)
    BY <2>1, <2>4, <2>5, SumOverTimes, Zenon
  <2>7. Whole(fair, S) /\ SumOver(fair, S) = left * SumOver(wish, S)
    BY <2>2, <2>4, <2>5, SumOverTimes, Zenon
  <2>8. Whole(lift, S) /\ SumOver(lift, S) = planned * SumOver(size, S)
    BY <2>3, <2>4, <2>5, SumOverTimes, Zenon
  <2> QED
    BY <2>6, <2>7, <2>8
<1>8. Whole(both, S) /\ SumOver(both, S) = SumOver(fair, S) + SumOver(lift, S)
  <2>1. \A i \in S : both[i] = fair[i] + lift[i]
    OBVIOUS
  <2> HIDE DEF both, fair, lift
  <2> QED
    BY <1>7, <2>1, SumOverPlus
<1>9. SumOver(wish, S) = planned
  BY DEF CostOf
<1>10. ASSUME NEW i \in S
       PROVE  /\ paid[i] <= both[i]
              /\ planned <= plan[i] * left => paid[i] <= fair[i]
  <2> DEFINE q == (plan[i] * left) \div planned
             e == each[i]
             a == plan[i] * left
             s == size[i]
  <2>1. /\ q \in Int /\ planned * q <= a /\ a \in Nat /\ e = Most(1, q) /\ e \in Nat /\ s \in Nat
        /\ planned <= a => q >= 1
    BY <1>a, <1>1, <1>2 DEF Lifted
  <2>2. s * a = left * wish[i]
    <3>1. \A b, c, d \in Nat : b * (c * d) = d * (b * c)
      OBVIOUS
    <3> QED
      BY <1>a, <3>1
  <2>3. paid[i] = s * (planned * e)
    <3>1. \A b, c, d \in Nat : d * (b * c) = b * (d * c)
      OBVIOUS
    <3> QED
      BY <1>a, <2>1, <3>1
  <2>4. fair[i] = s * a /\ lift[i] = s * planned /\ both[i] = s * a + s * planned
    <3>1. planned * s = s * planned
      BY <2>1
    <3> QED
      BY <2>2, <3>1
  <2> HIDE DEF q, e, a, s, paid, fair, lift, both
  <2>5. planned * e <= a + planned /\ (planned <= a => planned * e <= a) /\ planned * e \in Int
    <3>1. e = 1 \/ e = q
      BY <2>1 DEF Most
    <3>2. planned <= a => e = q
      BY <2>1 DEF Most
    <3>3. e = 1 => planned * e = planned
      BY <1>0
    <3>4. planned * e \in Int /\ planned * q \in Int
      BY <1>0, <2>1
    <3> QED
      BY <1>0, <2>1, <3>1, <3>2, <3>3, <3>4
  <2>6. s * (planned * e) <= s * (a + planned)
    BY <1>0, <2>1, <2>5, TimesOrder
  <2>7. s * (a + planned) = s * a + s * planned
    BY <1>0, <2>1
  <2>8. planned <= a => s * (planned * e) <= s * a
    BY <2>1, <2>5, TimesOrder
  <2> QED
    BY <2>3, <2>4, <2>6, <2>7, <2>8 DEF a
<1>11. planned * SumOver(cost, S) <= left * planned + planned * SumOver(size, S)
  <2>1. SumOver(paid, S) <= SumOver(both, S)
    <3> HIDE DEF paid, both
    <3> QED
      BY <1>7, <1>8, <1>10, SumOverLess
  <2> HIDE DEF paid, both, fair, lift, cost, wish
  <2> QED
    BY <1>7, <1>8, <1>9, <2>1
<1>12. ASSUME \A i \in S : planned <= plan[i] * left
       PROVE  planned * SumOver(cost, S) <= left * planned
  <2>1. SumOver(paid, S) <= SumOver(fair, S)
    <3> HIDE DEF paid, fair
    <3> QED
      BY <1>7, <1>10, <1>12, SumOverLess
  <2> HIDE DEF paid, both, fair, lift, cost, wish
  <2> QED
    BY <1>7, <1>9, <2>1
<1>13. ASSUME NEW g \in Int, NEW b \in Int, planned * g <= planned * b PROVE g <= b
  <2> SUFFICES ASSUME b + 1 <= g PROVE FALSE
    OBVIOUS
  <2>1. planned * (b + 1) <= planned * g
    BY TimesOrder
  <2>2. planned * (b + 1) = planned * b + planned
    OBVIOUS
  <2>3. planned * b \in Int /\ planned * g \in Int
    OBVIOUS
  <2> QED
    BY <1>0, <1>13, <2>1, <2>2, <2>3
<1>14. SumOver(cost, S) <= left + SumOver(size, S)
  <2> DEFINE b == SumOver(size, S)
             g == SumOver(cost, S)
  <2>1. g \in Int /\ b \in Int
    BY <1>5
  <2>2. planned * g <= left * planned + planned * b
    BY <1>11
  <2> HIDE DEF b, g
  <2>3. left * planned + planned * b = planned * (left + b)
    BY <2>1
  <2>4. g <= left + b
    BY <1>13, <2>1, <2>2, <2>3
  <2> QED
    BY <2>4 DEF b, g
<1>15. ASSUME \A i \in S : planned <= plan[i] * left PROVE SumOver(cost, S) <= left
  <2>1. planned * SumOver(cost, S) <= left * planned
    BY <1>12, <1>15
  <2> DEFINE g == SumOver(cost, S)
  <2>2. g \in Int /\ planned * g <= left * planned
    BY <1>5, <2>1
  <2> HIDE DEF g
  <2>3. left * planned = planned * left
    OBVIOUS
  <2>4. g <= left
    BY <1>13, <2>2, <2>3
  <2> QED
    BY <2>4 DEF g
<1> QED
  BY <1>2, <1>3, <1>6, <1>14, <1>15 DEF CostOf

\* The remainder goes to the first five by weight; the last of them gets what rounding left.
Fair(count, left, e) ==
  /\ \A i \in 1 .. count : e[i] \in Nat
  /\ \A i \in 1 .. count - 1 : e[i + 1] <= e[i] + IF i + 1 = count THEN 4 ELSE 0
  /\ SumOver(e, 1 .. count) = left
Weight == <<5, 3, 2, 1, 1>>
AllWeights == <<5, 8, 10, 11, 12>>

\* The weights of the first five, added up.
LEMMA WeightSums ==
  ASSUME NEW count \in 1 .. 5
  PROVE  SumOf([i \in 1 .. count |-> Weight[i]]) = AllWeights[count]
<1> DEFINE v == [i \in 1 .. count |-> Weight[i]]
<1>1. \A i \in 1 .. count : v[i] \in Int /\ v[i] = Weight[i]
  BY DEF Weight
<1>2. SumOf(v) = SumOver(v, 1 .. count)
  BY SumOfIs
<1>3. Whole(v, 1 .. count) /\ count \in 0 .. 6
  BY <1>1 DEF Whole
<1>4. /\ count >= 1 => v[1] = 5
      /\ count >= 2 => v[2] = 3
      /\ count >= 3 => v[3] = 2
      /\ count >= 4 => v[4] = 1
      /\ count >= 5 => v[5] = 1
  <2> HIDE DEF v
  <2> QED
    BY <1>1 DEF Weight
<1> HIDE DEF v
<1>5. /\ count = 1 => SumOver(v, 1 .. count) = v[1]
      /\ count = 2 => SumOver(v, 1 .. count) = v[1] + v[2]
      /\ count = 3 => SumOver(v, 1 .. count) = v[1] + v[2] + v[3]
      /\ count = 4 => SumOver(v, 1 .. count) = v[1] + v[2] + v[3] + v[4]
      /\ count = 5 => SumOver(v, 1 .. count) = v[1] + v[2] + v[3] + v[4] + v[5]
  BY <1>3, FirstSums, Zenon
<1>6. AllWeights[1] = 5 /\ AllWeights[2] = 8 /\ AllWeights[3] = 10 /\ AllWeights[4] = 11 /\ AllWeights[5] = 12
  BY DEF AllWeights
<1>7. SumOf(v) = AllWeights[count]
  BY <1>2, <1>4, <1>5, <1>6
<1> QED
  BY <1>7 DEF v

\* What is left over is given out in full, and nearly in order.
LEMMA ExtraIs ==
  ASSUME NEW w \in Nat \ {0}, NEW left \in Nat
  PROVE  /\ DOMAIN Extra(w, left) = 1 .. Least(5, w)
         /\ Fair(Least(5, w), left, Extra(w, left))
<1> DEFINE count == Least(5, w)
           all == AllWeights[count]
           share(i) == (Weight[i] * left) \div all
           v == [j \in 1 .. count - 1 |-> share(j)]
           e == Extra(w, left)
<1>1. count \in 1 .. 5 /\ count - 1 \in 0 .. 6
  BY DEF Least
<1>2. e = [i \in 1 .. count |-> IF i < count THEN share(i) ELSE left - SumOf(v)]
  <2>1. SumOf([i \in 1 .. count |-> Weight[i]]) = all
    BY <1>1, WeightSums
  <2> DEFINE W == [i \in 1 .. count |-> Weight[i]]
             u == [j \in 1 .. count - 1 |-> (W[j] * left) \div SumOf(W)]
  <2>2. e = [i \in 1 .. count |-> IF i < count THEN (W[i] * left) \div SumOf(W) ELSE left - SumOf(u)]
    BY DEF Extra, Weight
  <2>3. \A i \in 1 .. count : W[i] = Weight[i]
    OBVIOUS
  <2> HIDE DEF W, e
  <2>4. u = v
    <3>1. \A j \in 1 .. count - 1 : j \in 1 .. count
      BY <1>1
    <3> HIDE DEF count, all
    <3> QED
      BY <2>1, <2>3, <3>1 DEF W
  <2>5. SumOf(W) = all
    BY <2>1 DEF W
  <2> HIDE DEF u, v, all, count
  <2> QED
    BY <2>2, <2>3, <2>4, <2>5
<1>3. DOMAIN e = 1 .. count /\ \A i \in 1 .. count : e[i] = IF i < count THEN share(i) ELSE left - SumOf(v)
  BY <1>2
<1>4. all \in Nat /\ all > 0
  BY <1>1 DEF AllWeights
<1>5. \A i \in 1 .. count : share(i) \in Nat /\ (i < count => e[i] = share(i))
  <2> SUFFICES ASSUME NEW i \in 1 .. count PROVE share(i) \in Nat /\ (i < count => e[i] = share(i))
    OBVIOUS
  <2>1. Weight[i] \in Nat
    BY <1>1 DEF Weight
  <2>2. Weight[i] * left \in Nat
    BY <2>1, ProductNat
  <2> DEFINE a == Weight[i] * left
  <2> HIDE DEF a, all, e
  <2>3. a \in Nat
    BY <2>2 DEF a
  <2>4. a \div all \in Nat
    BY <1>4, <2>3
  <2> QED
    BY <1>3, <2>4 DEF a
<1>6. \A i \in 1 .. count - 1 : v[i] = share(i) /\ v[i] = e[i] /\ v[i] \in Nat
  <2> HIDE DEF e, share
  <2> QED
    BY <1>1, <1>5
<1>7. SumOf(v) = SumOver(v, 1 .. count - 1) /\ Whole(v, 1 .. count - 1)
  <2>1. DOMAIN v = 1 .. count - 1
    OBVIOUS
  <2> HIDE DEF v
  <2> QED
    BY <1>6, <2>1, SumOfIs DEF Whole
<1>8. e[count] = left - SumOver(v, 1 .. count - 1)
  <2> HIDE DEF e, v
  <2> QED
    BY <1>1, <1>3, <1>7
<1> HIDE DEF count, e, v, share
<1>9. /\ count = 1 => e[1] = left
      /\ count = 2 => e[1] = share(1) /\ e[2] = left - share(1)
      /\ count = 3 => e[1] = share(1) /\ e[2] = share(2) /\ e[3] = left - (share(1) + share(2))
      /\ count = 4 => /\ e[1] = share(1) /\ e[2] = share(2) /\ e[3] = share(3)
                      /\ e[4] = left - (share(1) + share(2) + share(3))
      /\ count = 5 => /\ e[1] = share(1) /\ e[2] = share(2) /\ e[3] = share(3) /\ e[4] = share(4)
                      /\ e[5] = left - (share(1) + share(2) + share(3) + share(4))
  <2>1. /\ count - 1 = 0 => SumOver(v, 1 .. count - 1) = 0
        /\ count - 1 = 1 => SumOver(v, 1 .. count - 1) = v[1]
        /\ count - 1 = 2 => SumOver(v, 1 .. count - 1) = v[1] + v[2]
        /\ count - 1 = 3 => SumOver(v, 1 .. count - 1) = v[1] + v[2] + v[3]
        /\ count - 1 = 4 => SumOver(v, 1 .. count - 1) = v[1] + v[2] + v[3] + v[4]
    BY <1>1, <1>7, FirstSums, Zenon
  <2> QED
    BY <1>1, <1>5, <1>6, <1>8, <2>1
<1>10. CASE count = 1
  <2>1. e[1] = left
    BY <1>9, <1>10
  <2>2. \A i \in 1 .. count : e[i] \in Nat
    BY <1>10, <2>1
  <2>3. SumOver(e, 1 .. 1) = e[1]
    <3>1. Whole(e, 1 .. 1)
      BY <1>10, <2>2 DEF Whole
    <3> QED
      BY <3>1, FirstSums
  <2>4. Fair(count, left, e)
    BY <1>10, <2>1, <2>2, <2>3 DEF Fair
  <2> QED
    BY <1>3, <2>4 DEF count, e
<1>11. CASE count = 2
  <2>1. all = 8 /\ share(1) = (5 * left) \div 8
    BY <1>11 DEF share, Weight, AllWeights
  <2>2. e[1] = share(1) /\ e[2] = left - share(1)
    BY <1>9, <1>11
  <2>3. e[1] \in Nat /\ e[2] \in Nat /\ e[1] + e[2] = left /\ e[2] <= e[1] + 4
    BY <2>1, <2>2
  <2>4. SumOver(e, 1 .. 2) = e[1] + e[2]
    <3>1. Whole(e, 1 .. 2)
      BY <2>3 DEF Whole
    <3> QED
      BY <3>1, FirstSums
  <2>5. Fair(count, left, e)
    BY <1>11, <2>3, <2>4 DEF Fair
  <2> QED
    BY <1>3, <2>5 DEF count, e
<1>12. CASE count = 3
  <2>1. all = 10 /\ share(1) = (5 * left) \div 10 /\ share(2) = (3 * left) \div 10
    BY <1>12 DEF share, Weight, AllWeights
  <2>2. e[1] = share(1) /\ e[2] = share(2) /\ e[3] = left - (share(1) + share(2))
    BY <1>9, <1>12
  <2>3. /\ e[1] \in Nat /\ e[2] \in Nat /\ e[3] \in Nat /\ e[1] + e[2] + e[3] = left
        /\ e[2] <= e[1] /\ e[3] <= e[2] + 4
    BY <2>1, <2>2
  <2>4. SumOver(e, 1 .. 3) = e[1] + e[2] + e[3]
    <3>1. Whole(e, 1 .. 3)
      BY <2>3 DEF Whole
    <3> QED
      BY <3>1, FirstSums
  <2>5. Fair(count, left, e)
    BY <1>12, <2>3, <2>4 DEF Fair
  <2> QED
    BY <1>3, <2>5 DEF count, e
<1>13. CASE count = 4
  <2>1. all = 11 /\ share(1) = (5 * left) \div 11 /\ share(2) = (3 * left) \div 11 /\ share(3) = (2 * left) \div 11
    BY <1>13 DEF share, Weight, AllWeights
  <2>2. /\ e[1] = share(1) /\ e[2] = share(2) /\ e[3] = share(3)
        /\ e[4] = left - (share(1) + share(2) + share(3))
    BY <1>9, <1>13
  <2>3. /\ e[1] \in Nat /\ e[2] \in Nat /\ e[3] \in Nat /\ e[4] \in Nat /\ e[1] + e[2] + e[3] + e[4] = left
        /\ e[2] <= e[1] /\ e[3] <= e[2] /\ e[4] <= e[3] + 4
    BY <2>1, <2>2
  <2>4. SumOver(e, 1 .. 4) = e[1] + e[2] + e[3] + e[4]
    <3>1. Whole(e, 1 .. 4)
      BY <2>3 DEF Whole
    <3> QED
      BY <3>1, FirstSums
  <2>5. Fair(count, left, e)
    BY <1>13, <2>3, <2>4 DEF Fair
  <2> QED
    BY <1>3, <2>5 DEF count, e
<1>14. CASE count = 5
  <2>1. /\ all = 12 /\ share(1) = (5 * left) \div 12 /\ share(2) = (3 * left) \div 12
        /\ share(3) = (2 * left) \div 12 /\ share(4) = (1 * left) \div 12
    BY <1>14 DEF share, Weight, AllWeights
  <2>2. /\ e[1] = share(1) /\ e[2] = share(2) /\ e[3] = share(3) /\ e[4] = share(4)
        /\ e[5] = left - (share(1) + share(2) + share(3) + share(4))
    BY <1>9, <1>14
  <2>3. /\ e[1] \in Nat /\ e[2] \in Nat /\ e[3] \in Nat /\ e[4] \in Nat /\ e[5] \in Nat
        /\ e[1] + e[2] + e[3] + e[4] + e[5] = left
        /\ e[2] <= e[1] /\ e[3] <= e[2] /\ e[4] <= e[3] /\ e[5] <= e[4] + 4
    BY <2>1, <2>2
  <2>4. SumOver(e, 1 .. 5) = e[1] + e[2] + e[3] + e[4] + e[5]
    <3>1. Whole(e, 1 .. 5)
      BY <2>3 DEF Whole
    <3> QED
      BY <3>1, FirstSums
  <2>5. Fair(count, left, e)
    BY <1>14, <2>3, <2>4 DEF Fair
  <2> QED
    BY <1>3, <2>5 DEF count, e
<1> QED
  BY <1>1, <1>10, <1>11, <1>12, <1>13, <1>14

\* Three fourths of three fourths, seven times.
Decayed(f, i) == (f * 3 ^ (i - 1)) \div 4 ^ (i - 1)

Decays(f) ==
  /\ Decayed(f, 1) = f /\ Decayed(f, 2) = (f * 3) \div 4 /\ Decayed(f, 3) = (f * 9) \div 16
  /\ Decayed(f, 4) = (f * 27) \div 64 /\ Decayed(f, 5) = (f * 81) \div 256
  /\ Decayed(f, 6) = (f * 243) \div 1024 /\ Decayed(f, 7) = (f * 729) \div 4096

\* The seven values, and their order.
LEMMA DecayedIs == ASSUME NEW f \in Nat PROVE Decays(f)
<1>1. Decayed(f, 1) = f
  BY DEF Decayed
<1>2. Decayed(f, 2) = (f * 3) \div 4
  BY DEF Decayed
<1>3. Decayed(f, 3) = (f * 9) \div 16
  BY DEF Decayed
<1>4. Decayed(f, 4) = (f * 27) \div 64
  BY DEF Decayed
<1>5. Decayed(f, 5) = (f * 81) \div 256
  BY DEF Decayed
<1>6. Decayed(f, 6) = (f * 243) \div 1024
  BY SMT DEF Decayed
<1>7. Decayed(f, 7) = (f * 729) \div 4096
  BY SMT DEF Decayed
<1> QED
  BY <1>1, <1>2, <1>3, <1>4, <1>5, <1>6, <1>7, SMT DEF Decays

LEMMA DecayedFalls ==
  ASSUME NEW f \in Nat
  PROVE  /\ \A i \in 1 .. 7 : Decayed(f, i) \in Nat /\ Decayed(f, i) <= f
         /\ \A i, j \in 1 .. 7 : i <= j => Decayed(f, j) <= Decayed(f, i)
<1> DEFINE d(i) == Decayed(f, i)
<1>1. /\ d(1) \in Nat /\ d(2) \in Nat /\ d(3) \in Nat /\ d(4) \in Nat /\ d(5) \in Nat /\ d(6) \in Nat /\ d(7) \in Nat
      /\ d(1) = f /\ d(2) <= d(1) /\ d(3) <= d(2) /\ d(4) <= d(3) /\ d(5) <= d(4) /\ d(6) <= d(5) /\ d(7) <= d(6)
  <2> HIDE DEF d
  <2> QED
    BY DecayedIs, SMT DEF d, Decays
<1> HIDE DEF d
<1>2. \A i \in 1 .. 7 : d(i) \in Nat /\ d(i) <= f
  BY <1>1
<1>3. \A i, j \in 1 .. 7 : i <= j => d(j) <= d(i)
  BY <1>1
<1> QED
  BY <1>2, <1>3 DEF d

-----------------------------------------------------------------------------
(* The whole table *)

\* The groups, their plan and their prizes.
SizesOf(w) == [i \in Groups(w) |-> Size(w, i)]
PlanOf(w, last) == [i \in Groups(w) |-> Most(1, Decayed((last * 85) \div 100, i))]
PlannedCost(w, last) == CostOf(Groups(w), SizesOf(w), PlanOf(w, last))

\* The groups are paid their plan, or the plan scaled down to what is left.
LEMMA GroupPrizesAre ==
  ASSUME NEW w \in Nat \ {0}, NEW k \in 0 .. 7, Grouped(w, k), NEW last \in Nat, NEW left \in Nat
  PROVE  /\ IsFiniteSet(Groups(w)) /\ Groups(w) = 1 .. k
         /\ Planned(Groups(w), SizesOf(w), PlanOf(w, last))
         /\ PlannedCost(w, last) \in Nat
         /\ DOMAIN GroupPrizes(w, last, left) = Groups(w)
         /\ PlannedCost(w, last) <= left => GroupPrizes(w, last, left) = PlanOf(w, last)
         /\ PlannedCost(w, last) > left =>
              Lifted(GroupPrizes(w, last, left), Groups(w), PlanOf(w, last), left, PlannedCost(w, last))
<1> DEFINE G == Groups(w)
           plan == PlanOf(w, last)
           sizes == SizesOf(w)
           cost == [i \in G |-> sizes[i] * plan[i]]
           planned == PlannedCost(w, last)
           each == GroupPrizes(w, last, left)
<1>1. G = 1 .. k /\ IsFiniteSet(G)
  BY Positions DEF Grouped
<1>2. (last * 85) \div 100 \in Nat
  OBVIOUS
<1>3. ASSUME NEW i \in G
      PROVE  sizes[i] \in Nat /\ plan[i] \in Nat \ {0} /\ sizes[i] = Size(w, i)
  <2>1. i \in 1 .. 7 /\ i \in 1 .. k
    BY <1>1
  <2>2. Size(w, i) \in Nat
    BY <2>1 DEF Grouped
  <2>3. Decayed((last * 85) \div 100, i) \in Nat
    BY <1>2, <2>1, DecayedFalls
  <2> QED
    BY <2>2, <2>3 DEF SizesOf, PlanOf, Most
<1>4. Planned(G, sizes, plan)
  BY <1>3 DEF Planned
<1>5. \A i \in G : cost[i] \in Nat
  <2> HIDE DEF sizes, plan
  <2> QED
    BY <1>3, ProductNat
<1>6. planned \in Nat
  <2>1. Whole(cost, G)
    BY <1>5 DEF Whole
  <2>2. SumOver(cost, G) \in Int /\ 0 * Cardinality(G) <= SumOver(cost, G) /\ Cardinality(G) \in Nat
    <3> HIDE DEF cost, G
    <3> QED
      BY <1>1, <1>5, <2>1, SumOverAdds, SumOverAtLeast, FS_CardinalityType
  <2>3. planned = SumOver(cost, G)
    BY DEF PlannedCost, CostOf
  <2> HIDE DEF planned, cost, G
  <2> QED
    BY <2>2, <2>3
<1>7. each = IF planned <= left THEN plan
             ELSE [i \in G |-> Most(1, (plan[i] * left) \div planned)]
  <2> DEFINE v == [i \in G |-> Size(w, i) * plan[i]]
             first == (last * 85) \div 100
             p == [i \in G |-> Most(1, (first * 3 ^ (i - 1)) \div 4 ^ (i - 1))]
             all == SumOf([i \in G |-> Size(w, i) * p[i]])
  <2>1. p = plan
    BY DEF PlanOf, Decayed
  <2>2. each = IF all <= left THEN p ELSE [i \in G |-> Most(1, (p[i] * left) \div all)]
    BY DEF GroupPrizes
  <2>3. v = cost
    <3> HIDE DEF plan, sizes, G
    <3> QED
      BY <1>3
  <2>4. SumOf(v) = SumOver(cost, G)
    <3>1. DOMAIN v = G
      OBVIOUS
    <3> HIDE DEF v, cost, G
    <3> QED
      BY <2>3, <3>1, SumOfIs
  <2>5. planned = SumOver(cost, G)
    BY DEF PlannedCost, CostOf
  <2>6. all = planned
    <3> HIDE DEF p, plan, G, planned, cost
    <3> QED
      BY <2>1, <2>4, <2>5
  <2> HIDE DEF p, plan, all, planned, each, G
  <2> QED
    BY <2>1, <2>2, <2>6
<1>8. DOMAIN plan = G
  BY DEF PlanOf
<1>9. /\ DOMAIN each = G
      /\ planned <= left => each = plan
      /\ planned > left => \A i \in G : each[i] = Most(1, (plan[i] * left) \div planned)
  <2> HIDE DEF plan, planned, each, G
  <2> QED
    BY <1>6, <1>7, <1>8
<1>10. planned > left => Lifted(each, G, plan, left, planned)
  <2> HIDE DEF plan, planned, each, G
  <2> QED
    BY <1>9 DEF Lifted
<1> QED
  BY <1>1, <1>4, <1>6, <1>9, <1>10

\* The table before what is left over is added to its head.
Rest(pool, w) == pool - SumOf(TopPrizes(pool, w))
EachOf(pool, w) == GroupPrizes(w, TopPrizes(pool, w)[Least(10, w)], Rest(pool, w))
BareTable(pool, w) ==
  [i \in 1 .. Least(10, w) \cup {10 + g : g \in Groups(w)} |->
     IF i <= 10 THEN [from |-> i, to |-> i, prize |-> TopPrizes(pool, w)[i]]
     ELSE [from |-> LastPlace(w, i - 11) + 1, to |-> LastPlace(w, i - 10), prize |-> EachOf(pool, w)[i - 10]]]

\* The table is the bare one with what is left over added.
LEMMA DistributeIs ==
  ASSUME NEW pool, NEW n
  PROVE  distribute_prizes(pool, n)
           = TopUp(BareTable(pool, Winners(n)), Winners(n),
                   pool - Paid(BareTable(pool, Winners(n)), 1, Winners(n)))
BY DEF distribute_prizes, BareTable, EachOf, Rest

\* Every group is paid 1 or more.
LEMMA EachTyped ==
  ASSUME NEW pool \in Nat, NEW w \in Nat \ {0}, NEW k \in 0 .. 7, Grouped(w, k)
  PROVE  /\ TopPrizes(pool, w)[Least(10, w)] \in Nat /\ Rest(pool, w) \in Nat
         /\ DOMAIN EachOf(pool, w) = 1 .. k
         /\ \A g \in 1 .. k : EachOf(pool, w)[g] \in Nat \ {0}
<1> DEFINE last == TopPrizes(pool, w)[Least(10, w)]
           left == Rest(pool, w)
           each == EachOf(pool, w)
<1>1. last \in Nat
  <2>1. Least(10, w) \in 1 .. Least(10, w)
    BY DEF Least
  <2>2. \A i \in 1 .. Least(10, w) : TopPrizes(pool, w)[i] \in Nat
    BY TopSum
  <2> QED
    BY <2>1, <2>2
<1>2. left \in Nat
  <2>1. SumOf(TopPrizes(pool, w)) \in Nat /\ SumOf(TopPrizes(pool, w)) <= pool
    BY TopSum
  <2> QED
    BY <2>1 DEF Rest
<1>3. each = GroupPrizes(w, last, left)
  BY DEF EachOf
<1> HIDE DEF last, left, each
<1>4. /\ IsFiniteSet(Groups(w)) /\ Groups(w) = 1 .. k
      /\ Planned(Groups(w), SizesOf(w), PlanOf(w, last))
      /\ PlannedCost(w, last) \in Nat
      /\ DOMAIN each = Groups(w)
      /\ PlannedCost(w, last) <= left => each = PlanOf(w, last)
      /\ PlannedCost(w, last) > left =>
           Lifted(each, Groups(w), PlanOf(w, last), left, PlannedCost(w, last))
  BY <1>1, <1>2, <1>3, GroupPrizesAre
<1>5. \A g \in 1 .. k : each[g] \in Nat \ {0}
  <2>1. CASE PlannedCost(w, last) <= left
    BY <1>4, <2>1 DEF Planned
  <2>2. CASE PlannedCost(w, last) > left
    <3>1. PlannedCost(w, last) = CostOf(Groups(w), SizesOf(w), PlanOf(w, last))
      BY DEF PlannedCost
    <3>2. \A i \in Groups(w) : each[i] \in Nat \ {0} /\ each[i] <= PlanOf(w, last)[i]
      BY <1>2, <1>4, <2>2, <3>1, ScaledDown
    <3> QED
      BY <1>4, <3>2
  <2> QED
    BY <1>2, <1>4, <2>1, <2>2
<1> QED
  BY <1>1, <1>2, <1>4, <1>5 DEF last, left, each

SingleRun(table, i, prize) ==
  /\ table[i] = [from |-> i, to |-> i, prize |-> prize]
  /\ table[i] \in Run /\ table[i].from = i /\ table[i].to = i /\ table[i].prize = prize /\ prize \in Nat
GroupRun(table, g, w, prize) ==
  /\ table[10 + g] = [from |-> LastPlace(w, g - 1) + 1, to |-> LastPlace(w, g), prize |-> prize]
  /\ table[10 + g] \in Run /\ table[10 + g].from = LastPlace(w, g - 1) + 1
  /\ table[10 + g].to = LastPlace(w, g) /\ table[10 + g].prize = prize /\ prize \in Nat

\* The runs of the bare table, one by one.
LEMMA BareIs ==
  ASSUME NEW pool \in Nat, NEW w \in Nat \ {0}, NEW k \in 0 .. 7, Grouped(w, k)
  PROVE  /\ DOMAIN BareTable(pool, w) = 1 .. Least(10, w) + k
         /\ k # 0 => Least(10, w) = 10
         /\ \A i \in 1 .. Least(10, w) : SingleRun(BareTable(pool, w), i, TopPrizes(pool, w)[i])
         /\ \A g \in 1 .. k : GroupRun(BareTable(pool, w), g, w, EachOf(pool, w)[g])
<1> DEFINE D == 1 .. Least(10, w) \cup {10 + g : g \in Groups(w)}
<1>1. Groups(w) = 1 .. k /\ (k # 0 => Least(10, w) = 10)
  BY DEF Grouped, Least
<1>2. D = 1 .. Least(10, w) + k
  <2>1. CASE k = 0
    BY <1>1, <2>1 DEF Least
  <2>2. CASE k # 0
    <3>1. D = 1 .. 10 \cup {10 + g : g \in 1 .. k}
      BY <1>1, <2>2
    <3>2. \A x : x \in {10 + g : g \in 1 .. k} <=> x \in 11 .. 10 + k
      <4>1. \A x \in 11 .. 10 + k : x - 10 \in 1 .. k /\ x = 10 + (x - 10)
        OBVIOUS
      <4> QED
        BY <4>1
    <3> HIDE DEF D
    <3>3. D = 1 .. 10 + k
      BY <3>1, <3>2
    <3> QED
      BY <1>1, <2>2, <3>3
  <2> QED
    BY <2>1, <2>2
<1>3. \A i \in D : BareTable(pool, w)[i]
        = IF i <= 10 THEN [from |-> i, to |-> i, prize |-> TopPrizes(pool, w)[i]]
          ELSE [from |-> LastPlace(w, i - 11) + 1, to |-> LastPlace(w, i - 10), prize |-> EachOf(pool, w)[i - 10]]
  BY DEF BareTable
<1>4. DOMAIN BareTable(pool, w) = D
  BY DEF BareTable
<1> HIDE DEF D
<1>5. \A i \in 1 .. Least(10, w) : i \in D /\ i <= 10
  BY <1>2 DEF Least
<1>6. \A g \in 1 .. k : 10 + g \in D /\ ~(10 + g <= 10) /\ 10 + g - 11 = g - 1 /\ 10 + g - 10 = g
  BY <1>1, <1>2
<1>7. \A i \in 1 .. Least(10, w) : TopPrizes(pool, w)[i] \in Nat
  BY TopSum
<1>8. \A g \in 1 .. k : EachOf(pool, w)[g] \in Nat
  BY EachTyped
<1>9. \A i \in 1 .. Least(10, w) :
        BareTable(pool, w)[i] = [from |-> i, to |-> i, prize |-> TopPrizes(pool, w)[i]]
  BY <1>3, <1>5
<1>10. ASSUME NEW g \in 1 .. k
       PROVE  BareTable(pool, w)[10 + g]
                = [from |-> LastPlace(w, g - 1) + 1, to |-> LastPlace(w, g), prize |-> EachOf(pool, w)[g]]
  <2> DEFINE i == 10 + g
  <2>1. i \in D /\ ~(i <= 10) /\ i - 11 = g - 1 /\ i - 10 = g
    BY <1>6
  <2> HIDE DEF i
  <2>2. BareTable(pool, w)[i]
          = [from |-> LastPlace(w, i - 11) + 1, to |-> LastPlace(w, i - 10), prize |-> EachOf(pool, w)[i - 10]]
    BY <1>3, <2>1
  <2> QED
    BY <2>1, <2>2 DEF i
<1>11. ASSUME NEW i \in 1 .. Least(10, w)
       PROVE  SingleRun(BareTable(pool, w), i, TopPrizes(pool, w)[i])
  <2> DEFINE r == BareTable(pool, w)[i]
             q == TopPrizes(pool, w)[i]
  <2>1. r = [from |-> i, to |-> i, prize |-> q] /\ q \in Nat /\ i \in Nat
    BY <1>7, <1>9
  <2> HIDE DEF r, q
  <2>2. r \in Run /\ r.from = i /\ r.to = i /\ r.prize = q
    BY <2>1 DEF Run
  <2> QED
    BY <2>1, <2>2 DEF SingleRun, r, q
<1>12. ASSUME NEW g \in 1 .. k
       PROVE  GroupRun(BareTable(pool, w), g, w, EachOf(pool, w)[g])
  <2> DEFINE r == BareTable(pool, w)[10 + g]
             q == EachOf(pool, w)[g]
             b == LastPlace(w, g - 1)
             e == LastPlace(w, g)
  <2>1. b \in Nat /\ e \in Nat
    <3>1. g - 1 \in 0 .. 7 /\ g \in 0 .. 7
      OBVIOUS
    <3> QED
      BY <3>1 DEF Grouped
  <2>2. r = [from |-> b + 1, to |-> e, prize |-> q] /\ q \in Nat
    BY <1>8, <1>10
  <2> HIDE DEF r, q, b, e
  <2>3. r \in Run /\ r.from = b + 1 /\ r.to = e /\ r.prize = q
    BY <2>1, <2>2 DEF Run
  <2> QED
    BY <2>2, <2>3 DEF GroupRun, r, q, b, e
<1> QED
  BY <1>1, <1>2, <1>4, <1>11, <1>12

\* The bare table covers the places of the winners.
LEMMA BareTabled ==
  ASSUME NEW pool \in Nat, NEW w \in Nat \ {0}, NEW k \in 0 .. 7, Grouped(w, k)
  PROVE  Tabled(BareTable(pool, w), Least(10, w) + k, w)
<1> DEFINE T == BareTable(pool, w)
           a == Least(10, w)
           p(i) == LastPlace(w, i)
<1>1. /\ DOMAIN T = 1 .. a + k /\ (k # 0 => a = 10) /\ a \in 1 .. 10 /\ a <= w /\ (k = 0 => a = w)
      /\ \A i \in 1 .. a : T[i] \in Run /\ T[i].from = i /\ T[i].to = i
      /\ \A g \in 1 .. k : T[10 + g] \in Run /\ T[10 + g].from = p(g - 1) + 1 /\ T[10 + g].to = p(g)
  <2>1. a \in 1 .. 10 /\ a <= w /\ (k = 0 => a = w)
    BY DEF Least, Grouped
  <2>2. \A i \in 1 .. a : SingleRun(T, i, TopPrizes(pool, w)[i])
    BY BareIs
  <2>3. \A g \in 1 .. k : GroupRun(T, g, w, EachOf(pool, w)[g])
    BY BareIs
  <2>4. DOMAIN T = 1 .. a + k /\ (k # 0 => a = 10)
    BY BareIs
  <2> HIDE DEF T, a
  <2> QED
    BY <2>1, <2>2, <2>3, <2>4, Zenon DEF SingleRun, GroupRun
<1>2. /\ p(0) = a /\ p(k) = w
      /\ \A i \in 0 .. 7 : p(i) \in Nat /\ p(i) <= w
      /\ \A i \in 1 .. k : p(i - 1) < p(i)
  BY DEF Grouped
<1> HIDE DEF T, a, p
<1>3. ASSUME NEW i \in 1 .. a + k
      PROVE  /\ T[i] \in Run
             /\ T[i].from >= 1 /\ T[i].from <= T[i].to /\ T[i].to <= w
             /\ T[i].from = IF i = 1 THEN 1 ELSE T[i - 1].to + 1
  <2>1. CASE i \in 1 .. a
    <3>1. T[i].from = i /\ T[i].to = i /\ T[i] \in Run
      BY <1>1, <2>1
    <3>2. i # 1 => T[i - 1].to = i - 1
      <4>1. i # 1 => i - 1 \in 1 .. a
        BY <1>1, <2>1
      <4> QED
        BY <1>1, <4>1
    <3> QED
      BY <1>1, <2>1, <3>1, <3>2
  <2>2. CASE i \notin 1 .. a
    <3>1. PICK g \in 1 .. k : i = 10 + g
      <4>1. k # 0 /\ a = 10
        BY <1>1, <2>2
      <4>2. i - 10 \in 1 .. k /\ i = 10 + (i - 10)
        BY <2>2, <4>1
      <4> QED
        BY <4>2
    <3>2. g \in 0 .. 7 /\ g - 1 \in 0 .. 7 /\ a = 10
      <4>1. k # 0 /\ g \in 0 .. 7 /\ g - 1 \in 0 .. 7
        OBVIOUS
      <4> QED
        BY <1>1, <4>1
    <3>3. /\ T[i].from = p(g - 1) + 1 /\ T[i].to = p(g) /\ p(g) \in Nat /\ p(g - 1) \in Nat /\ p(g) <= w
          /\ p(g - 1) < p(g) /\ T[i] \in Run
      <4>1. p(g) \in Nat /\ p(g - 1) \in Nat /\ p(g) <= w /\ p(g - 1) < p(g)
        BY <1>2, <3>2
      <4>2. T[i] \in Run /\ T[i].from = p(g - 1) + 1 /\ T[i].to = p(g)
        BY <1>1, <3>1
      <4> QED
        BY <4>1, <4>2
    <3>4. T[i - 1].to = p(g - 1)
      <4>1. CASE g = 1
        <5>1. i - 1 = 10 /\ 10 \in 1 .. a /\ g - 1 = 0
          BY <3>1, <3>2, <4>1
        <5>2. T[10].to = 10
          BY <1>1, <5>1
        <5>3. T[i - 1] = T[10] /\ p(g - 1) = 10
          BY <1>2, <3>2, <5>1
        <5> QED
          BY <5>2, <5>3
      <4>2. CASE g # 1
        <5>1. i - 1 = 10 + (g - 1) /\ g - 1 \in 1 .. k
          BY <3>1, <4>2
        <5> DEFINE h == g - 1
        <5> HIDE DEF h
        <5>2. T[10 + h].to = p(h)
          BY <1>1, <5>1 DEF h
        <5> QED
          BY <5>1, <5>2 DEF h
      <4> QED
        BY <4>1, <4>2
    <3>5. i # 1
      BY <3>1
    <3> QED
      BY <3>3, <3>4, <3>5
  <2> QED
    BY <2>1, <2>2
<1>4. w = T[a + k].to
  <2>1. CASE k = 0
    <3>1. a + k = a /\ a \in 1 .. a
      BY <1>1, <2>1
    <3> QED
      BY <1>1, <2>1, <3>1
  <2>2. CASE k # 0
    <3>1. a + k = 10 + k /\ k \in 1 .. k
      BY <1>1, <2>2
    <3>2. T[10 + k].to = p(k)
      BY <1>1, <3>1
    <3> QED
      BY <1>2, <3>1, <3>2
  <2> QED
    BY <2>1, <2>2
<1>5. a + k # 0
  BY <1>1
<1> QED
  BY <1>1, <1>3, <1>4, <1>5 DEF Tabled, T, a

\* A table pays in all what its runs are worth.
Worth(table) == [i \in DOMAIN table |-> table[i].prize * (table[i].to - table[i].from + 1)]

LEMMA FullCost ==
  ASSUME NEW m \in Nat, NEW w \in Nat, NEW table, Tabled(table, m, w), NEW n \in Nat, w <= n
  PROVE  /\ Whole(Worth(table), 1 .. m)
         /\ Paid(table, 1, n) = SumOver(Worth(table), 1 .. m)
<1>1. ASSUME NEW i \in 1 .. m
      PROVE  Parts(table, 1, n)[i] = Worth(table)[i]
  <2>1. /\ table[i] \in Run /\ table[i].from \in Nat /\ table[i].to \in Nat
        /\ table[i].from >= 1 /\ table[i].from <= table[i].to /\ table[i].to <= w
        /\ i \in DOMAIN table
    BY DEF Tabled, Run
  <2>2. Overlap(table[i], 1, n) = table[i].to - table[i].from + 1
    BY <2>1 DEF Overlap, Most, Least
  <2> QED
    BY <2>1, <2>2 DEF Parts, Worth
<1>2. /\ IsFiniteSet(1 .. m) /\ Whole(Parts(table, 1, n), 1 .. m)
      /\ Paid(table, 1, n) = SumOver(Parts(table, 1, n), 1 .. m)
  BY PaidIs
<1>3. Whole(Worth(table), 1 .. m)
  BY <1>1, <1>2 DEF Whole
<1> QED
  BY <1>1, <1>2, <1>3, SumOverSame

\* The sizes of the groups add up to the winners below the tenth.
LEMMA SizesAddUp ==
  ASSUME NEW w \in Nat \ {0}, NEW k \in 0 .. 7, Grouped(w, k)
  PROVE  /\ Whole(SizesOf(w), 1 .. k)
         /\ SumOver(SizesOf(w), 1 .. k) = w - Least(10, w)
<1> DEFINE v == SizesOf(w)
           p(i) == LastPlace(w, i)
           T == {j \in 0 .. k : SumOver(v, 1 .. j) = p(j) - p(0)}
<1>1. \A i \in 0 .. 7 : p(i) \in Nat
  BY DEF Grouped
<1>2. ASSUME NEW i \in 1 .. k PROVE v[i] = p(i) - p(i - 1) /\ v[i] \in Int
  <2>1. v[i] = Size(w, i)
    BY DEF SizesOf, Grouped
  <2>2. Size(w, i) \in Nat
    BY DEF Grouped
  <2> QED
    BY <2>1, <2>2 DEF Size
<1>3. Whole(v, 1 .. k)
  BY <1>2 DEF Whole
<1>4. 0 \in T
  <2>1. SumOver(v, 1 .. 0) = 0
    <3>1. Whole(v, 1 .. 0)
      BY DEF Whole
    <3> QED
      BY <3>1, SumTo
  <2>2. p(0) - p(0) = 0
    BY <1>1
  <2> QED
    BY <2>1, <2>2
<1>5. ASSUME NEW j \in 1 .. k, j - 1 \in T PROVE j \in T
  <2>1. Whole(v, 1 .. j) /\ j \in Nat /\ j > 0
    BY <1>3 DEF Whole
  <2>2. SumOver(v, 1 .. j) = SumOver(v, 1 .. j - 1) + v[j]
    BY <2>1, SumTo
  <2>3. SumOver(v, 1 .. j - 1) = p(j - 1) - p(0)
    BY <1>5
  <2>4. p(j) \in Nat /\ p(j - 1) \in Nat /\ p(0) \in Nat /\ v[j] = p(j) - p(j - 1)
    BY <1>1, <1>2
  <2> HIDE DEF v, p
  <2>5. SumOver(v, 1 .. j) = p(j) - p(0)
    BY <2>2, <2>3, <2>4
  <2>6. j \in 0 .. k
    OBVIOUS
  <2> QED
    BY <2>5, <2>6
<1>6. k \in T
  <2> HIDE DEF T
  <2> QED
    BY <1>4, <1>5, UpTo
<1>7. p(k) = w /\ p(0) = Least(10, w)
  BY DEF Grouped
<1> QED
  BY <1>3, <1>6, <1>7

\* What the bare table pays in all: the ten best and the groups.
LEMMA BareCost ==
  ASSUME NEW pool \in Nat, NEW w \in Nat \ {0}, NEW k \in 0 .. 7, Grouped(w, k), NEW n \in Nat, w <= n
  PROVE  /\ CostOf(Groups(w), SizesOf(w), EachOf(pool, w)) \in Nat
         /\ Paid(BareTable(pool, w), 1, n)
              = SumOf(TopPrizes(pool, w)) + CostOf(Groups(w), SizesOf(w), EachOf(pool, w))
<1> DEFINE t == BareTable(pool, w)
           a == Least(10, w)
           v == Worth(t)
           top == TopPrizes(pool, w)
           cost == [i \in Groups(w) |-> SizesOf(w)[i] * EachOf(pool, w)[i]]
<1>1. Tabled(t, a + k, w) /\ a + k \in Nat /\ a \in Nat
  BY BareTabled DEF Least
<1>2. Whole(v, 1 .. a + k) /\ Paid(t, 1, n) = SumOver(v, 1 .. a + k)
  BY <1>1, FullCost
<1>3. /\ DOMAIN t = 1 .. a + k /\ (k # 0 => a = 10)
      /\ \A i \in 1 .. a : SingleRun(t, i, top[i])
      /\ \A g \in 1 .. k : GroupRun(t, g, w, EachOf(pool, w)[g])
  BY BareIs
<1>4. ASSUME NEW i \in 1 .. a PROVE v[i] = top[i]
  <2>1. t[i].from = i /\ t[i].to = i /\ t[i].prize = top[i] /\ top[i] \in Nat
    BY <1>3, Zenon DEF SingleRun
  <2>2. i \in DOMAIN t
    BY <1>1, <1>3
  <2> HIDE DEF t, top, a
  <2>3. v[i] = top[i] * (i - i + 1)
    BY <2>1, <2>2 DEF Worth
  <2> QED
    BY <1>1, <2>1, <2>3
<1>5. ASSUME NEW g \in 1 .. k
      PROVE  v[10 + g] = cost[g] /\ cost[g] \in Nat
  <2> DEFINE q == EachOf(pool, w)[g]
             b == LastPlace(w, g - 1)
             e == LastPlace(w, g)
  <2>1. t[10 + g].from = b + 1 /\ t[10 + g].to = e /\ t[10 + g].prize = q /\ q \in Nat
    BY <1>3, Zenon DEF GroupRun
  <2>2. 10 + g \in DOMAIN t
    BY <1>1, <1>3
  <2>3. g \in Groups(w) /\ Size(w, g) \in Nat /\ Size(w, g) = e - b
    BY DEF Grouped, Size
  <2>4. b \in Nat /\ e \in Nat
    <3>1. g \in 0 .. 7 /\ g - 1 \in 0 .. 7
      OBVIOUS
    <3> QED
      BY <3>1 DEF Grouped
  <2>5. cost[g] = Size(w, g) * q
    BY <2>3 DEF SizesOf
  <2> HIDE DEF t, q, b, e, cost
  <2>6. v[10 + g] = q * (e - (b + 1) + 1)
    BY <2>1, <2>2 DEF Worth
  <2>7. v[10 + g] = q * Size(w, g)
    BY <2>3, <2>4, <2>6
  <2>8. Size(w, g) * q = q * Size(w, g)  /\ Size(w, g) * q \in Nat
    BY <2>1, <2>3, ProductNat
  <2> QED
    BY <2>5, <2>7, <2>8
<1>6. Groups(w) = 1 .. k /\ k \in Nat
  BY DEF Grouped
<1>7. Whole(cost, 1 .. k)
  BY <1>5 DEF Whole
<1>8. SumOf(top) = SumOver(top, 1 .. a) /\ SumOf(top) \in Nat /\ Whole(top, 1 .. a)
  BY TopSum
<1>9. IsFiniteSet(1 .. a) /\ IsFiniteSet(1 .. k) /\ IsFiniteSet(a + 1 .. a + k)
  BY <1>1, <1>6, FS_Interval
<1>10. SumOver(v, 1 .. a) = SumOver(top, 1 .. a)
  <2>1. Whole(v, 1 .. a)
    <3>1. 1 .. a \subseteq 1 .. a + k
      BY <1>1
    <3> QED
      BY <1>2, <3>1 DEF Whole
  <2> QED
    BY <1>4, <1>9, <2>1, SumOverSame
<1>11. SumOver(v, a + 1 .. a + k) = SumOver(cost, 1 .. k)
  <2> DEFINE f == [i \in a + 1 .. a + k |-> i - a]
  <2>1. Onto(f, a + 1 .. a + k, 1 .. k)
    <3>1. \A i \in a + 1 .. a + k : f[i] = i - a /\ i - a \in 1 .. k
      BY <1>1
    <3>2. \A g \in 1 .. k : a + g \in a + 1 .. a + k /\ (a + g) - a = g
      BY <1>1
    <3>3. \A i, j \in a + 1 .. a + k : f[i] = f[j] => i = j
      BY <1>1, <3>1
    <3> HIDE DEF f
    <3>4. \A g \in 1 .. k : \E i \in a + 1 .. a + k : f[i] = g
      BY <3>1, <3>2
    <3> QED
      BY <3>1, <3>3, <3>4 DEF Onto
  <2>2. ASSUME NEW i \in a + 1 .. a + k PROVE v[i] = cost[f[i]]
    <3>1. k # 0
      BY <1>1
    <3>2. i - 10 \in 1 .. k /\ 10 + (i - 10) = i /\ f[i] = i - 10
      BY <1>3, <3>1
    <3> DEFINE g == i - 10
    <3> HIDE DEF g, v, cost, f
    <3>3. v[10 + g] = cost[g]
      BY <1>5, <3>2 DEF g
    <3> QED
      BY <3>2, <3>3 DEF g
  <2> DEFINE A == a + 1 .. a + k
             B == 1 .. k
  <2>3. IsFiniteSet(A) /\ IsFiniteSet(B) /\ Onto(f, A, B) /\ Whole(cost, B) /\ \A x \in A : v[x] = cost[f[x]]
    BY <1>7, <1>9, <2>1, <2>2
  <2> HIDE DEF f, v, cost, a, A, B
  <2>4. SumOver(v, A) = SumOver(cost, B)
    BY <2>3, SumOverMoved
  <2> QED
    BY <2>4 DEF A, B
<1>12. SumOver(v, 1 .. a + k) = SumOver(v, 1 .. a) + SumOver(v, a + 1 .. a + k)
  <2>1. 1 .. a + k = 1 .. a \cup (a + 1 .. a + k) /\ 1 .. a \cap (a + 1 .. a + k) = {}
    BY <1>1
  <2> HIDE DEF a, v
  <2>2. Whole(v, 1 .. a \cup (a + 1 .. a + k))
    BY <1>2, <2>1, Zenon
  <2>3. SumOver(v, 1 .. a \cup (a + 1 .. a + k)) = SumOver(v, 1 .. a) + SumOver(v, a + 1 .. a + k)
    BY <1>9, <2>1, <2>2, SumOverParts, Zenon
  <2> QED
    BY <2>1, <2>3, Zenon
<1>13. CostOf(Groups(w), SizesOf(w), EachOf(pool, w)) = SumOver(cost, 1 .. k)
  BY <1>6 DEF CostOf
<1>14. SumOver(cost, 1 .. k) \in Nat
  <2>1. \A i \in 1 .. k : 0 <= cost[i]
    BY <1>5
  <2> HIDE DEF cost
  <2>2. 0 * Cardinality(1 .. k) <= SumOver(cost, 1 .. k)
    BY <1>7, <1>9, <2>1, SumOverAtLeast
  <2>3. SumOver(cost, 1 .. k) \in Int /\ Cardinality(1 .. k) \in Int
    BY <1>6, <1>7, <1>9, SumOverAdds, Positions
  <2> QED
    BY <2>2, <2>3
<1> HIDE DEF t, a, v, top, cost
<1>15. Paid(t, 1, n) = SumOf(top) + SumOver(cost, 1 .. k)
  BY <1>2, <1>8, <1>10, <1>11, <1>12
<1> QED
  BY <1>13, <1>14, <1>15 DEF t, top

\* What is left over, added to the first places.
Bonus(w, left, i) == IF left > 0 /\ i <= Least(5, w) THEN Extra(w, left)[i] ELSE 0
Raised(table, up, m, w, left) ==
  /\ DOMAIN up = 1 .. m
  /\ \A i \in 1 .. m : /\ up[i].from = table[i].from /\ up[i].to = table[i].to
                       /\ up[i].prize = table[i].prize + Bonus(w, left, i)
                       /\ Bonus(w, left, i) \in Nat /\ up[i] \in Run

\* A bonus is a number.
LEMMA BonusNat ==
  ASSUME NEW w \in Nat \ {0}, NEW left \in Int, NEW i \in Nat \ {0}
  PROVE  Bonus(w, left, i) \in Nat
<1>1. CASE left > 0 /\ i <= Least(5, w)
  <2>1. left \in Nat
    BY <1>1
  <2>2. i \in 1 .. Least(5, w)
    BY <1>1 DEF Least
  <2>3. Extra(w, left)[i] \in Nat
    BY <2>1, <2>2, ExtraIs DEF Fair
  <2> QED
    BY <1>1, <2>3 DEF Bonus
<1>2. CASE ~(left > 0 /\ i <= Least(5, w))
  BY <1>2 DEF Bonus
<1> QED
  BY <1>1, <1>2

\* Adding to the head keeps the places and raises the prizes.
LEMMA TopUpRaises ==
  ASSUME NEW m \in Nat, NEW w \in Nat \ {0}, NEW table, Tabled(table, m, w), NEW left \in Int
  PROVE  /\ Raised(table, TopUp(table, w, left), m, w, left)
         /\ Tabled(TopUp(table, w, left), m, w)
<1> DEFINE up == TopUp(table, w, left)
<1>1. DOMAIN up = 1 .. m
  BY DEF TopUp, Tabled
<1>2. ASSUME NEW i \in 1 .. m
      PROVE  /\ up[i].from = table[i].from /\ up[i].to = table[i].to
             /\ up[i].prize = table[i].prize + Bonus(w, left, i)
             /\ Bonus(w, left, i) \in Nat /\ up[i] \in Run
  <2>1. up[i] = [table[i] EXCEPT !.prize = @ + Bonus(w, left, i)]
    BY DEF TopUp, Tabled, Bonus
  <2>2. Bonus(w, left, i) \in Nat
    BY BonusNat
  <2>3. table[i] \in Run
    BY DEF Tabled
  <2> DEFINE r == table[i]
             s == up[i]
             b == Bonus(w, left, i)
  <2>4. s = [r EXCEPT !.prize = @ + b] /\ r \in Run /\ b \in Nat
    BY <2>1, <2>2, <2>3
  <2> HIDE DEF r, s, b
  <2>5. s.from = r.from /\ s.to = r.to /\ s.prize = r.prize + b /\ s \in Run
    BY <2>4 DEF Run
  <2> QED
    BY <2>2, <2>5 DEF r, s, b
<1> HIDE DEF up
<1>3. Raised(table, up, m, w, left)
  BY <1>1, <1>2 DEF Raised
<1>4. ASSUME NEW i \in 1 .. m
      PROVE  /\ up[i] \in Run
             /\ up[i].from >= 1 /\ up[i].from <= up[i].to /\ up[i].to <= w
             /\ up[i].from = IF i = 1 THEN 1 ELSE up[i - 1].to + 1
  <2>1. /\ table[i].from >= 1 /\ table[i].from <= table[i].to /\ table[i].to <= w
        /\ table[i].from = IF i = 1 THEN 1 ELSE table[i - 1].to + 1
    BY DEF Tabled
  <2>2. i # 1 => up[i - 1].to = table[i - 1].to
    <3>1. i # 1 => i - 1 \in 1 .. m
      OBVIOUS
    <3> QED
      BY <1>2, <3>1
  <2> QED
    BY <1>2, <2>1, <2>2
<1>5. w = IF m = 0 THEN 0 ELSE up[m].to
  <2>1. w = IF m = 0 THEN 0 ELSE table[m].to
    BY DEF Tabled
  <2>2. m # 0 => m \in 1 .. m
    OBVIOUS
  <2> QED
    BY <1>2, <2>1, <2>2
<1>6. Tabled(up, m, w)
  BY <1>1, <1>4, <1>5 DEF Tabled
<1> QED
  BY <1>3, <1>6 DEF up

\* A table is dearer by what is added.
LEMMA TopUpCost ==
  ASSUME NEW m \in Nat, NEW w \in Nat \ {0}, NEW table, Tabled(table, m, w), NEW left \in Int,
         Least(5, w) <= m, \A i \in 1 .. Least(5, w) : table[i].from = i /\ table[i].to = i,
         NEW n \in Nat, w <= n
  PROVE  Paid(TopUp(table, w, left), 1, n) = Paid(table, 1, n) + IF left > 0 THEN left ELSE 0
<1> DEFINE up == TopUp(table, w, left)
           c == Least(5, w)
           e == [i \in 1 .. m |-> Bonus(w, left, i)]
<1>1. Raised(table, up, m, w, left) /\ Tabled(up, m, w)
  BY TopUpRaises
<1> HIDE DEF up
<1>2. /\ Whole(Worth(table), 1 .. m) /\ Paid(table, 1, n) = SumOver(Worth(table), 1 .. m)
      /\ Whole(Worth(up), 1 .. m) /\ Paid(up, 1, n) = SumOver(Worth(up), 1 .. m)
  BY <1>1, FullCost
<1>3. ASSUME NEW i \in 1 .. m
      PROVE  e[i] \in Nat /\ Worth(up)[i] = Worth(table)[i] + e[i]
  <2>1. i \in DOMAIN table /\ i \in DOMAIN up /\ table[i] \in Run /\ up[i] \in Run
    BY <1>1 DEF Tabled
  <2>2. /\ up[i].from = table[i].from /\ up[i].to = table[i].to
        /\ up[i].prize = table[i].prize + e[i] /\ e[i] \in Nat
    BY <1>1 DEF Raised
  <2>3. /\ table[i].from \in Nat /\ table[i].to \in Nat /\ table[i].prize \in Nat
    BY <2>1 DEF Run
  <2>4. /\ Worth(up)[i] = up[i].prize * (up[i].to - up[i].from + 1)
        /\ Worth(table)[i] = table[i].prize * (table[i].to - table[i].from + 1)
    BY <2>1 DEF Worth
  <2>5. CASE i \in 1 .. c
    <3>1. table[i].from = i /\ table[i].to = i /\ i - i + 1 = 1
      BY <2>5
    <3> HIDE DEF e
    <3> QED
      BY <2>2, <2>3, <2>4, <3>1
  <2>6. CASE i \notin 1 .. c
    <3>1. e[i] = 0
      BY <2>6 DEF Bonus
    <3> HIDE DEF e
    <3>2. up[i].prize = table[i].prize
      BY <2>2, <2>3, <3>1
    <3>3. Worth(up)[i] = Worth(table)[i]
      BY <2>2, <2>4, <3>2
    <3>4. Worth(table)[i] \in Int
      BY <1>2 DEF Whole
    <3> QED
      BY <3>1, <3>3, <3>4
  <2> QED
    BY <2>5, <2>6
<1>4. Whole(e, 1 .. m)
  BY <1>3 DEF Whole
<1>5. IsFiniteSet(1 .. m)
  BY PositionsFinite, Zenon
<1>6. SumOver(Worth(up), 1 .. m) = SumOver(Worth(table), 1 .. m) + SumOver(e, 1 .. m)
  <2> HIDE DEF e
  <2> QED
    BY <1>2, <1>3, <1>4, <1>5, SumOverPlus
<1>7. SumOver(e, 1 .. m) = IF left > 0 THEN left ELSE 0
  <2>1. CASE left > 0
    <3>1. left \in Nat /\ c \in Nat /\ c <= m /\ 1 .. c \subseteq 1 .. m
      BY <2>1 DEF Least
    <3>2. /\ \A i \in 1 .. c : Extra(w, left)[i] \in Nat
          /\ SumOver(Extra(w, left), 1 .. c) = left
      BY <3>1, ExtraIs DEF Fair
    <3>3. \A i \in 1 .. c : e[i] = Extra(w, left)[i]
      BY <2>1, <3>1 DEF Bonus
    <3>4. \A i \in c + 1 .. m : e[i] = 0 /\ i \in 1 .. m
      BY <3>1 DEF Bonus
    <3> HIDE DEF e, c
    <3>5. IsFiniteSet(1 .. c) /\ IsFiniteSet(c + 1 .. m)
      BY <3>1, FS_Interval
    <3>6. Whole(e, 1 .. c) /\ Whole(e, c + 1 .. m)
      BY <1>4, <3>1, <3>4 DEF Whole
    <3>7. SumOver(e, 1 .. c) = left
      BY <3>2, <3>3, <3>5, <3>6, SumOverSame
    <3>8. SumOver(e, c + 1 .. m) = 0
      <4>1. SumOver(e, c + 1 .. m) = 0 * Cardinality(c + 1 .. m)
        <5>1. 0 \in Int /\ \A i \in c + 1 .. m : e[i] = 0
          BY <3>4
        <5> QED
          BY <3>5, <5>1, SumOverConstant, Zenon
      <4>2. Cardinality(c + 1 .. m) \in Nat
        BY <3>5, FS_CardinalityType
      <4> QED
        BY <4>1, <4>2
    <3>9. 1 .. m = 1 .. c \cup (c + 1 .. m) /\ 1 .. c \cap (c + 1 .. m) = {}
      BY <3>1
    <3>10. SumOver(e, 1 .. c \cup (c + 1 .. m)) = SumOver(e, 1 .. c) + SumOver(e, c + 1 .. m)
      <4>1. Whole(e, 1 .. c \cup (c + 1 .. m))
        BY <1>4, <3>9, Zenon
      <4> QED
        BY <3>5, <3>9, <4>1, SumOverParts, Zenon
    <3>11. SumOver(e, 1 .. m) = SumOver(e, 1 .. c) + SumOver(e, c + 1 .. m)
      BY <3>9, <3>10, Zenon
    <3> QED
      BY <2>1, <3>7, <3>8, <3>11
  <2>2. CASE ~(left > 0)
    <3>1. \A i \in 1 .. m : e[i] = 0
      BY <2>2 DEF Bonus
    <3> HIDE DEF e
    <3>2. SumOver(e, 1 .. m) = 0 * Cardinality(1 .. m)
      <4>1. 0 \in Int
        OBVIOUS
      <4> QED
        BY <1>5, <3>1, <4>1, SumOverConstant, Zenon
    <3>3. Cardinality(1 .. m) \in Nat
      BY <1>5, FS_CardinalityType
    <3> QED
      BY <2>2, <3>2, <3>3
  <2> QED
    BY <2>1, <2>2
<1>8. SumOver(Worth(table), 1 .. m) \in Int
  BY <1>2, <1>5, SumOverAdds
<1> HIDE DEF e
<1> QED
  BY <1>2, <1>6, <1>7, <1>8 DEF up

\* What the table pays before anything is added to its head, and how many runs it has.
BareTotal(pool, w) == SumOf(TopPrizes(pool, w)) + CostOf(Groups(w), SizesOf(w), EachOf(pool, w))
RunsOf(w, k) == Least(10, w) + k

\* The table of a pool: its runs, and what it pays in all.
LEMMA DistributedIs ==
  ASSUME NEW pool \in Nat, NEW n \in Nat \ {0}, NEW k \in 0 .. 7, Grouped(Winners(n), k)
  PROVE  /\ Tabled(BareTable(pool, Winners(n)), RunsOf(Winners(n), k), Winners(n))
         /\ Tabled(distribute_prizes(pool, n), RunsOf(Winners(n), k), Winners(n))
         /\ Raised(BareTable(pool, Winners(n)), distribute_prizes(pool, n), RunsOf(Winners(n), k),
                   Winners(n), pool - BareTotal(pool, Winners(n)))
         /\ BareTotal(pool, Winners(n)) \in Nat
         /\ Paid(distribute_prizes(pool, n), 1, n) = Most(pool, BareTotal(pool, Winners(n)))
<1> DEFINE w == Winners(n)
           t == BareTable(pool, w)
           m == RunsOf(w, k)
           b == BareTotal(pool, w)
<1>1. w \in Nat \ {0} /\ w <= n /\ w \in Nat
  BY WinnersAre
<1>2. Grouped(w, k)
  OBVIOUS
<1> HIDE DEF w
<1>3. Tabled(t, m, w) /\ m \in Nat /\ Least(5, w) <= m
  <2>1. Tabled(t, Least(10, w) + k, w)
    BY <1>1, <1>2, BareTabled
  <2> HIDE DEF t
  <2> QED
    BY <1>1, <2>1 DEF RunsOf, Least
<1>4. Paid(t, 1, n) = b /\ Paid(t, 1, w) = b /\ b \in Nat
  <2>1. SumOf(TopPrizes(pool, w)) \in Nat
    BY <1>1, TopSum
  <2>2. /\ CostOf(Groups(w), SizesOf(w), EachOf(pool, w)) \in Nat
        /\ Paid(t, 1, n) = b
    BY <1>1, <1>2, BareCost DEF BareTotal
  <2>3. Paid(t, 1, w) = b
    <3>1. w <= w
      BY <1>1
    <3> QED
      BY <1>1, <1>2, <3>1, BareCost DEF BareTotal
  <2>4. b \in Nat
    <3> HIDE DEF t
    <3> QED
      BY <2>1, <2>2 DEF BareTotal
  <2> QED
    BY <2>2, <2>3, <2>4
<1>5. distribute_prizes(pool, n) = TopUp(t, w, pool - b)
  BY <1>4, DistributeIs DEF w
<1>6. \A i \in 1 .. Least(5, w) : t[i].from = i /\ t[i].to = i
  <2>1. \A i \in 1 .. Least(10, w) : SingleRun(t, i, TopPrizes(pool, w)[i])
    BY <1>1, <1>2, BareIs
  <2>2. 1 .. Least(5, w) \subseteq 1 .. Least(10, w)
    BY <1>1 DEF Least
  <2> HIDE DEF t
  <2> QED
    BY <2>1, <2>2 DEF SingleRun
<1> HIDE DEF t, m, b
<1>7. pool - b \in Int
  BY <1>4
<1>8. Raised(t, TopUp(t, w, pool - b), m, w, pool - b) /\ Tabled(TopUp(t, w, pool - b), m, w)
  BY <1>1, <1>3, <1>7, TopUpRaises
<1>9. Paid(TopUp(t, w, pool - b), 1, n) = Paid(t, 1, n) + IF pool - b > 0 THEN pool - b ELSE 0
  <2>1. n \in Nat
    OBVIOUS
  <2> QED
    BY <1>1, <1>3, <1>6, <1>7, <2>1, TopUpCost
<1>10. Paid(TopUp(t, w, pool - b), 1, n) = Most(pool, b)
  BY <1>4, <1>9 DEF Most
<1> QED
  BY <1>3, <1>4, <1>5, <1>8, <1>10 DEF w, t, m, b

-----------------------------------------------------------------------------
(* What is left pays the groups *)

\* Of a table that can pay its groups in full, or scaled down, no more than the pool is paid.
Affordable(pool, w, planned, plan) ==
  \/ planned <= Rest(pool, w)
  \/ \A i \in Groups(w) : planned <= plan[i] * Rest(pool, w)

\* The bare table pays less than the pool and 1 for every winner.
LEMMA BareAtMost ==
  ASSUME NEW pool \in Nat, NEW w \in Nat \ {0}, NEW k \in 0 .. 7, Grouped(w, k),
         NEW last, last = TopPrizes(pool, w)[Least(10, w)]
  PROVE  /\ BareTotal(pool, w) \in Nat /\ BareTotal(pool, w) < pool + w
         /\ Affordable(pool, w, PlannedCost(w, last), PlanOf(w, last)) => BareTotal(pool, w) <= pool
<1> DEFINE left == Rest(pool, w)
           planned == PlannedCost(w, last)
           each == EachOf(pool, w)
           cost == CostOf(Groups(w), SizesOf(w), each)
           S == Groups(w)
           plan == PlanOf(w, last)
           size == SizesOf(w)
           top == SumOf(TopPrizes(pool, w))
<1>1. last \in Nat /\ left \in Nat
  BY EachTyped
<1>2. each = GroupPrizes(w, last, left)
  BY DEF EachOf
<1>3. top \in Nat /\ left = pool - top
  BY TopSum DEF Rest
<1>4. cost \in Nat
  <2>1. w <= w /\ w \in Nat
    OBVIOUS
  <2> QED
    BY <2>1, BareCost
<1>5. BareTotal(pool, w) = top + cost
  BY DEF BareTotal
<1> HIDE DEF left, each
<1>6. /\ IsFiniteSet(S) /\ S = 1 .. k
      /\ Planned(S, size, plan) /\ planned \in Nat
      /\ planned <= left => each = plan
      /\ planned > left => Lifted(each, S, plan, left, planned)
  BY <1>1, <1>2, GroupPrizesAre
<1>7. planned = CostOf(S, size, plan)
  BY DEF PlannedCost
<1>8. SumOver(size, S) = w - Least(10, w) /\ SumOver(size, S) < w /\ SumOver(size, S) \in Int
  <2>1. SumOver(SizesOf(w), 1 .. k) = w - Least(10, w)
    BY SizesAddUp
  <2>2. SumOver(size, S) = w - Least(10, w)
    BY <1>6, <2>1
  <2> HIDE DEF size, S
  <2> QED
    BY <2>2 DEF Least
<1>9. /\ cost < left + w
      /\ (planned <= left \/ \A i \in S : planned <= plan[i] * left) => cost <= left
  <2>1. CASE planned <= left
    <3>1. cost = planned
      BY <1>6, <1>7, <2>1
    <3> HIDE DEF planned, cost
    <3> QED
      BY <1>1, <1>4, <1>6, <2>1, <3>1
  <2>2. CASE planned > left
    <3> HIDE DEF planned, S, plan, size
    <3>1. /\ CostOf(S, size, each) <= left + SumOver(size, S)
          /\ (\A i \in S : planned <= plan[i] * left) => CostOf(S, size, each) <= left
      BY <1>1, <1>6, <1>7, <2>2, ScaledDown
    <3>2. cost = CostOf(S, size, each)
      BY DEF S, size
    <3> HIDE DEF cost
    <3> QED
      BY <1>1, <1>4, <1>6, <1>8, <2>2, <3>1, <3>2
  <2> HIDE DEF planned
  <2> QED
    BY <1>1, <1>6, <2>1, <2>2
<1>10. Affordable(pool, w, planned, plan) => cost <= left
  BY <1>9 DEF Affordable, left
<1> HIDE DEF cost, top, planned, plan
<1> QED
  BY <1>1, <1>3, <1>4, <1>5, <1>9, <1>10 DEF planned, plan

\* From 29 winners on there are seven groups.
Six(w) == GroupSize(w, 1) + GroupSize(w, 2) + GroupSize(w, 3) + GroupSize(w, 4) + GroupSize(w, 5)
            + GroupSize(w, 6)

\* Their six sizes, rounded down.
LEMMA GroupSizesAre ==
  ASSUME NEW w \in Nat, 29 <= w
  PROVE  /\ \A i \in 1 .. 6 : GroupSize(w, i) \in Nat \ {0}
         /\ GroupSize(w, 1) = Most(1, (2 * w) \div 100) /\ GroupSize(w, 2) = Most(1, (3 * w) \div 100)
         /\ GroupSize(w, 3) = (5 * w) \div 100 /\ GroupSize(w, 4) = (8 * w) \div 100
         /\ GroupSize(w, 5) = (12 * w) \div 100 /\ GroupSize(w, 6) = (20 * w) \div 100
<1>1. \A i \in 1 .. 6 : GroupSize(w, i) \in Nat \ {0}
  BY GroupSizes
<1>2. /\ GroupSize(w, 1) = Most(1, (w * 2) \div 100) /\ GroupSize(w, 2) = Most(1, (w * 3) \div 100)
      /\ GroupSize(w, 3) = Most(1, (w * 5) \div 100) /\ GroupSize(w, 4) = Most(1, (w * 8) \div 100)
      /\ GroupSize(w, 5) = Most(1, (w * 12) \div 100) /\ GroupSize(w, 6) = Most(1, (w * 20) \div 100)
  BY DEF GroupSize, GroupShares
<1>3. /\ Most(1, (w * 5) \div 100) = (5 * w) \div 100 /\ Most(1, (w * 8) \div 100) = (8 * w) \div 100
      /\ Most(1, (w * 12) \div 100) = (12 * w) \div 100 /\ Most(1, (w * 20) \div 100) = (20 * w) \div 100
      /\ w * 2 = 2 * w /\ w * 3 = 3 * w
  BY DEF Most
<1> QED
  BY <1>1, <1>2, <1>3

\* All seven are there, the last with at most half of the winners.
LEMMA SevenGroups ==
  ASSUME NEW w \in Nat \ {0}, NEW k \in 0 .. 7, Grouped(w, k), 29 <= w
  PROVE  /\ k = 7 /\ Groups(w) = 1 .. 7
         /\ \A i \in 1 .. 6 : Size(w, i) = GroupSize(w, i)
         /\ Size(w, 7) = w - 10 - Six(w) /\ Six(w) + 10 < w /\ 100 * Size(w, 7) <= 50 * w
         /\ Size(w, 7) \in Nat
<1> DEFINE s(i) == GroupSize(w, i)
           p(i) == LastPlace(w, i)
<1>1. s(1) \in Nat /\ s(2) \in Nat /\ s(3) \in Nat /\ s(4) \in Nat /\ s(5) \in Nat /\ s(6) \in Nat
  BY GroupSizesAre
<1>2. Six(w) + 10 < w /\ 100 * (w - 10 - Six(w)) <= 50 * w
  <2>1. /\ s(1) = Most(1, (2 * w) \div 100) /\ s(2) = Most(1, (3 * w) \div 100)
        /\ s(3) = (5 * w) \div 100 /\ s(4) = (8 * w) \div 100
        /\ s(5) = (12 * w) \div 100 /\ s(6) = (20 * w) \div 100
    BY GroupSizesAre
  <2>2. Six(w) = s(1) + s(2) + s(3) + s(4) + s(5) + s(6)
    BY DEF Six
  <2> HIDE DEF s
  <2> QED
    BY <1>1, <2>1, <2>2 DEF Most
<1>3. /\ p(0) = 10 /\ p(1) = 10 + s(1) /\ p(2) = 10 + s(1) + s(2) /\ p(3) = 10 + s(1) + s(2) + s(3)
      /\ p(4) = 10 + s(1) + s(2) + s(3) + s(4) /\ p(5) = 10 + s(1) + s(2) + s(3) + s(4) + s(5)
      /\ p(6) = 10 + s(1) + s(2) + s(3) + s(4) + s(5) + s(6) /\ p(7) = w
  <2>1. /\ p(0) = Least(w, 10) /\ p(1) = Least(w, 10 + s(1)) /\ p(2) = Least(w, 10 + s(1) + s(2))
        /\ p(3) = Least(w, 10 + s(1) + s(2) + s(3))
        /\ p(4) = Least(w, 10 + s(1) + s(2) + s(3) + s(4))
        /\ p(5) = Least(w, 10 + s(1) + s(2) + s(3) + s(4) + s(5))
        /\ p(6) = Least(w, 10 + s(1) + s(2) + s(3) + s(4) + s(5) + s(6)) /\ p(7) = w
    BY LastPlaces
  <2>2. s(1) + s(2) + s(3) + s(4) + s(5) + s(6) + 10 < w
    BY <1>2 DEF Six
  <2> HIDE DEF s, p
  <2> QED
    BY <1>1, <2>1, <2>2 DEF Least
<1>4. p(k) = w /\ Groups(w) = 1 .. k
  BY DEF Grouped
<1>5. \A i \in 1 .. 7 : Size(w, i) = p(i) - p(i - 1)
  BY DEF Size
<1>6. Six(w) = s(1) + s(2) + s(3) + s(4) + s(5) + s(6)
  BY DEF Six
<1> HIDE DEF s, p
<1>7. k = 7
  <2>1. p(0) # w /\ p(1) # w /\ p(2) # w /\ p(3) # w /\ p(4) # w /\ p(5) # w /\ p(6) # w
    BY <1>1, <1>2, <1>3, <1>6
  <2>2. k = 0 \/ k = 1 \/ k = 2 \/ k = 3 \/ k = 4 \/ k = 5 \/ k = 6 \/ k = 7
    OBVIOUS
  <2> QED
    BY <1>4, <2>1, <2>2
<1>8. /\ Size(w, 1) = p(1) - p(0) /\ Size(w, 2) = p(2) - p(1) /\ Size(w, 3) = p(3) - p(2)
      /\ Size(w, 4) = p(4) - p(3) /\ Size(w, 5) = p(5) - p(4) /\ Size(w, 6) = p(6) - p(5)
      /\ Size(w, 7) = p(7) - p(6)
  BY <1>5
<1>9. /\ Size(w, 1) = s(1) /\ Size(w, 2) = s(2) /\ Size(w, 3) = s(3)
      /\ Size(w, 4) = s(4) /\ Size(w, 5) = s(5) /\ Size(w, 6) = s(6)
      /\ Size(w, 7) = w - 10 - Six(w) /\ Size(w, 7) \in Nat
  <2>1. Six(w) \in Nat /\ p(6) = 10 + Six(w)
    BY <1>1, <1>3, <1>6
  <2>2. Size(w, 7) = w - 10 - Six(w) /\ Size(w, 7) \in Nat
    BY <1>2, <1>3, <1>8, <2>1
  <2>3. /\ Size(w, 1) = s(1) /\ Size(w, 2) = s(2) /\ Size(w, 3) = s(3)
        /\ Size(w, 4) = s(4) /\ Size(w, 5) = s(5) /\ Size(w, 6) = s(6)
    BY <1>1, <1>3, <1>8
  <2> QED
    BY <2>2, <2>3
<1>10. \A i \in 1 .. 6 : Size(w, i) = s(i)
  BY <1>9
<1> QED
  BY <1>2, <1>4, <1>7, <1>9, <1>10 DEF s

\* What seven groups cost.
LEMMA SevenCosts ==
  ASSUME NEW w \in Nat \ {0}, NEW k \in 0 .. 7, Grouped(w, k), 29 <= w,
         NEW plan, \A i \in 1 .. 7 : plan[i] \in Nat
  PROVE  /\ \A i \in 1 .. 7 : Size(w, i) \in Nat
         /\ CostOf(Groups(w), SizesOf(w), plan)
              = Size(w, 1) * plan[1] + Size(w, 2) * plan[2] + Size(w, 3) * plan[3] + Size(w, 4) * plan[4]
                  + Size(w, 5) * plan[5] + Size(w, 6) * plan[6] + Size(w, 7) * plan[7]
<1> DEFINE v == [i \in Groups(w) |-> SizesOf(w)[i] * plan[i]]
<1>1. k = 7 /\ Groups(w) = 1 .. 7
  BY SevenGroups
<1>2. \A i \in 1 .. 7 : Size(w, i) \in Nat
  BY <1>1 DEF Grouped
<1>3. ASSUME NEW i \in 1 .. 7 PROVE v[i] = Size(w, i) * plan[i] /\ v[i] \in Nat
  <2>1. v[i] = Size(w, i) * plan[i]
    BY <1>1 DEF SizesOf
  <2>2. Size(w, i) * plan[i] \in Nat
    BY <1>2, ProductNat
  <2> QED
    BY <2>1, <2>2
<1>4. CostOf(Groups(w), SizesOf(w), plan) = SumOver(v, 1 .. 7)
  BY <1>1 DEF CostOf
<1>5. Whole(v, 1 .. 7) /\ Whole(v, 1 .. 6)
  BY <1>3 DEF Whole
<1>6. \A i \in 1 .. 7 : v[i] = Size(w, i) * plan[i] /\ v[i] \in Nat
  BY <1>3
<1> HIDE DEF v
<1>7. SumOver(v, 1 .. 7) = SumOver(v, 1 .. 6) + v[7]
  <2> DEFINE n == 7
  <2>1. n \in Nat /\ n > 0 /\ n - 1 = 6 /\ Whole(v, 1 .. n)
    BY <1>5
  <2> HIDE DEF n
  <2>2. SumOver(v, 1 .. n) = SumOver(v, 1 .. n - 1) + v[n]
    BY <2>1, SumTo
  <2> QED
    BY <2>1, <2>2 DEF n
<1>8. SumOver(v, 1 .. 6) = v[1] + v[2] + v[3] + v[4] + v[5] + v[6]
  BY <1>5, FirstSums
<1>9. /\ v[1] = Size(w, 1) * plan[1] /\ v[2] = Size(w, 2) * plan[2] /\ v[3] = Size(w, 3) * plan[3]
      /\ v[4] = Size(w, 4) * plan[4] /\ v[5] = Size(w, 5) * plan[5] /\ v[6] = Size(w, 6) * plan[6]
      /\ v[7] = Size(w, 7) * plan[7]
  BY <1>6
<1> QED
  BY <1>2, <1>4, <1>7, <1>8, <1>9

\* A plan costs at most what its prizes would cost undiminished by rounding.
LEMMA ScaledProduct ==
  ASSUME NEW s \in Nat, NEW p \in Nat, NEW f \in Nat, NEW c \in Nat, 4096 * p <= c * f
  PROVE  s * p \in Nat /\ 4096 * (s * p) <= f * (c * s)
<1>1. s * p \in Nat /\ s * (4096 * p) = 4096 * (s * p)
  BY ProductNat
<1>2. s * (c * f) = f * (c * s)
  OBVIOUS
<1>3. s * (4096 * p) <= s * (c * f)
  <2> DEFINE x == 4096 * p
             y == c * f
  <2>1. x \in Nat /\ y \in Nat /\ x <= y
    BY ProductNat
  <2> HIDE DEF x, y
  <2>2. s * x <= s * y
    BY <2>1
  <2> QED
    BY <2>2 DEF x, y
<1> QED
  BY <1>1, <1>2, <1>3

\* Seven sizes, weighed by what the groups are paid, and seven prizes below their plan.
Weighed(s, w) ==
  /\ \A i \in 1 .. 7 : s[i] \in Nat
  /\ 100 * (4096 * s[1] + 3072 * s[2] + 2304 * s[3] + 1728 * s[4] + 1296 * s[5] + 972 * s[6] + 729 * s[7])
       <= 114194 * w
BelowPlan(p, f) ==
  /\ \A i \in 1 .. 7 : p[i] \in Nat
  /\ 4096 * p[1] <= 4096 * f /\ 4096 * p[2] <= 3072 * f /\ 4096 * p[3] <= 2304 * f
  /\ 4096 * p[4] <= 1728 * f /\ 4096 * p[5] <= 1296 * f /\ 4096 * p[6] <= 972 * f
  /\ 4096 * p[7] <= 729 * f
Seven(s, p) == s[1] * p[1] + s[2] * p[2] + s[3] * p[3] + s[4] * p[4] + s[5] * p[5] + s[6] * p[6] + s[7] * p[7]
CostWithin(cost, f, w) == cost \in Nat /\ 409600 * cost <= 114194 * (f * w)

\* Such a plan costs at most 0.2788 times the winners at the first prize.
LEMMA WeightedCost ==
  ASSUME NEW w \in Nat, NEW f \in Nat, NEW s, NEW p, Weighed(s, w), BelowPlan(p, f)
  PROVE  CostWithin(Seven(s, p), f, w)
<1> DEFINE sum == 4096 * s[1] + 3072 * s[2] + 2304 * s[3] + 1728 * s[4] + 1296 * s[5] + 972 * s[6] + 729 * s[7]
<1>0. /\ s[1] \in Nat /\ s[2] \in Nat /\ s[3] \in Nat /\ s[4] \in Nat /\ s[5] \in Nat /\ s[6] \in Nat
      /\ s[7] \in Nat /\ p[1] \in Nat /\ p[2] \in Nat /\ p[3] \in Nat /\ p[4] \in Nat /\ p[5] \in Nat
      /\ p[6] \in Nat /\ p[7] \in Nat
      /\ 4096 * p[1] <= 4096 * f /\ 4096 * p[2] <= 3072 * f /\ 4096 * p[3] <= 2304 * f
      /\ 4096 * p[4] <= 1728 * f /\ 4096 * p[5] <= 1296 * f /\ 4096 * p[6] <= 972 * f
      /\ 4096 * p[7] <= 729 * f
  BY SMT DEF Weighed, BelowPlan
<1>9. 100 * sum <= 114194 * w
  BY SMT DEF Weighed
<1>11. s[1] * p[1] \in Nat /\ 4096 * (s[1] * p[1]) <= f * (4096 * s[1])
  <2>1. s[1] \in Nat /\ p[1] \in Nat /\ 4096 \in Nat /\ 4096 * p[1] <= 4096 * f
    BY <1>0, SMT
  <2> QED
    BY <2>1, ScaledProduct, SMT
<1>12. s[2] * p[2] \in Nat /\ 4096 * (s[2] * p[2]) <= f * (3072 * s[2])
  <2>1. s[2] \in Nat /\ p[2] \in Nat /\ 3072 \in Nat /\ 4096 * p[2] <= 3072 * f
    BY <1>0, SMT
  <2> QED
    BY <2>1, ScaledProduct, SMT
<1>13. s[3] * p[3] \in Nat /\ 4096 * (s[3] * p[3]) <= f * (2304 * s[3])
  <2>1. s[3] \in Nat /\ p[3] \in Nat /\ 2304 \in Nat /\ 4096 * p[3] <= 2304 * f
    BY <1>0, SMT
  <2> QED
    BY <2>1, ScaledProduct, SMT
<1>14. s[4] * p[4] \in Nat /\ 4096 * (s[4] * p[4]) <= f * (1728 * s[4])
  <2>1. s[4] \in Nat /\ p[4] \in Nat /\ 1728 \in Nat /\ 4096 * p[4] <= 1728 * f
    BY <1>0, SMT
  <2> QED
    BY <2>1, ScaledProduct, SMT
<1>15. s[5] * p[5] \in Nat /\ 4096 * (s[5] * p[5]) <= f * (1296 * s[5])
  <2>1. s[5] \in Nat /\ p[5] \in Nat /\ 1296 \in Nat /\ 4096 * p[5] <= 1296 * f
    BY <1>0, SMT
  <2> QED
    BY <2>1, ScaledProduct, SMT
<1>16. s[6] * p[6] \in Nat /\ 4096 * (s[6] * p[6]) <= f * (972 * s[6])
  <2>1. s[6] \in Nat /\ p[6] \in Nat /\ 972 \in Nat /\ 4096 * p[6] <= 972 * f
    BY <1>0, SMT
  <2> QED
    BY <2>1, ScaledProduct, SMT
<1>17. s[7] * p[7] \in Nat /\ 4096 * (s[7] * p[7]) <= f * (729 * s[7])
  <2>1. s[7] \in Nat /\ p[7] \in Nat /\ 729 \in Nat /\ 4096 * p[7] <= 729 * f
    BY <1>0, SMT
  <2> QED
    BY <2>1, ScaledProduct, SMT
<1>4. /\ f * s[1] \in Nat /\ f * s[2] \in Nat /\ f * s[3] \in Nat /\ f * s[4] \in Nat /\ f * s[5] \in Nat
      /\ f * s[6] \in Nat /\ f * s[7] \in Nat
  BY <1>0, ProductNat
<1>5. f * sum = f * (4096 * s[1]) + f * (3072 * s[2]) + f * (2304 * s[3]) + f * (1728 * s[4])
                  + f * (1296 * s[5]) + f * (972 * s[6]) + f * (729 * s[7])
  BY <1>0, SMT
<1>6. f * (100 * sum) <= f * (114194 * w)
  <2> DEFINE x == 100 * sum
             y == 114194 * w
  <2>1. x \in Nat /\ y \in Nat /\ x <= y
    BY <1>0, <1>9, SMT
  <2> HIDE DEF x, y
  <2>2. f * x <= f * y
    BY <2>1
  <2> QED
    BY <2>2, SMT DEF x, y
<1>7. f * (100 * sum) = 100 * (f * sum) /\ f * (114194 * w) = 114194 * (f * w) /\ sum \in Nat
  BY <1>0, SMT
<1>8. Seven(s, p) \in Nat /\ 4096 * Seven(s, p) <= f * sum
  <2> DEFINE a(i) == s[i] * p[i]
             b(c, i) == f * (c * s[i])
  <2>1. /\ a(1) \in Nat /\ 4096 * a(1) <= b(4096, 1) /\ a(2) \in Nat /\ 4096 * a(2) <= b(3072, 2)
        /\ a(3) \in Nat /\ 4096 * a(3) <= b(2304, 3) /\ a(4) \in Nat /\ 4096 * a(4) <= b(1728, 4)
        /\ a(5) \in Nat /\ 4096 * a(5) <= b(1296, 5) /\ a(6) \in Nat /\ 4096 * a(6) <= b(972, 6)
        /\ a(7) \in Nat /\ 4096 * a(7) <= b(729, 7)
    BY <1>11, <1>12, <1>13, <1>14, <1>15, <1>16, <1>17, SMT
  <2>2. f * sum = b(4096, 1) + b(3072, 2) + b(2304, 3) + b(1728, 4) + b(1296, 5) + b(972, 6) + b(729, 7)
    BY <1>5, SMT
  <2>3. Seven(s, p) = a(1) + a(2) + a(3) + a(4) + a(5) + a(6) + a(7)
    BY DEF Seven
  <2>4. /\ b(4096, 1) \in Nat /\ b(3072, 2) \in Nat /\ b(2304, 3) \in Nat /\ b(1728, 4) \in Nat
        /\ b(1296, 5) \in Nat /\ b(972, 6) \in Nat /\ b(729, 7) \in Nat
    BY <1>0, SMT
  <2> HIDE DEF a, b, sum
  <2> QED
    BY <2>1, <2>2, <2>3, <2>4, SMT
<1>10. f * w \in Nat /\ f * sum \in Nat
  BY <1>7, ProductNat
<1> DEFINE fs == f * sum
           fw == f * w
<1>18. fs \in Nat /\ fw \in Nat /\ 100 * fs <= 114194 * fw /\ 4096 * Seven(s, p) <= fs
  BY <1>6, <1>7, <1>8, <1>10, SMT
<1> HIDE DEF fs
<1>19. Seven(s, p) \in Nat
  BY <1>8
<1> HIDE DEF fw
<1>20. 409600 * Seven(s, p) <= 114194 * fw
  BY <1>18, <1>19, SMT
<1> QED
  BY <1>19, <1>20, SMT DEF CostWithin, fw

\* A plan whose last prize is 2 or more is within what 2.35 times the winners cost at that prize;
\* one of 7 or more within 1.8 times.
Enough(p, w, left) == (p >= 2 /\ 235 * w <= 100 * left) \/ (p >= 7 /\ 180 * w <= 100 * left)

LEMMA WithinLast ==
  ASSUME NEW w \in Nat, NEW f \in Nat, NEW p \in Nat, NEW planned \in Nat, NEW left \in Nat,
         CostWithin(planned, f, w), 729 * f <= 4096 * p + 4095, Enough(p, w, left)
  PROVE  planned <= p * left
<1>0. 409600 * planned <= 114194 * (f * w)
  BY SMT DEF CostWithin
<1>4. (p >= 2 /\ 235 * w <= 100 * left) \/ (p >= 7 /\ 180 * w <= 100 * left)
  BY SMT DEF Enough
<1>1. f * w \in Nat /\ p * w \in Nat /\ p * left \in Nat
  BY ProductNat
<1>2. CASE p >= 2 /\ 235 * w <= 100 * left
  <2>1. 1458 * f <= 12287 * p
    BY <1>2
  <2>2. 1458 * (f * w) <= 12287 * (p * w)
    <3>1. (1458 * f) * w <= (12287 * p) * w
      BY <2>1
    <3> QED
      BY <3>1
  <2>3. 235 * (p * w) <= 100 * (p * left)
    <3>1. p * (235 * w) <= p * (100 * left)
      BY <1>2
    <3> QED
      BY <3>1
  <2> QED
    BY <1>0, <1>1, <2>2, <2>3, SMT
<1>3. CASE p >= 7 /\ 180 * w <= 100 * left
  <2>1. 729 * f <= 4681 * p
    BY <1>3
  <2>2. 729 * (f * w) <= 4681 * (p * w)
    <3>1. (729 * f) * w <= (4681 * p) * w
      BY <2>1
    <3> QED
      BY <3>1
  <2>3. 180 * (p * w) <= 100 * (p * left)
    <3>1. p * (180 * w) <= p * (100 * left)
      BY <1>3
    <3> QED
      BY <3>1
  <2> QED
    BY <1>0, <1>1, <2>2, <2>3, SMT
<1> QED
  BY <1>2, <1>3, <1>4, SMT

\* The pool before scaling, in 2000ths, what is left of it and the prize of the tenth place.
LeftOver(left, pool, x) == 2000000 * left >= 2000000 * pool - 628 * x

\* What the ten best leave.
LEMMA RestIs ==
  ASSUME NEW pool \in Nat, NEW w \in Nat \ {0}
  PROVE  /\ Rest(pool, w) \in Nat /\ pool * Scale(w) \in Nat
         /\ LeftOver(Rest(pool, w), pool, pool * Scale(w))
<1> DEFINE x == pool * Scale(w)
           top == SumOf(TopPrizes(pool, w))
<1>1. top \in Nat /\ top <= pool /\ 2000000 * top <= 628 * x
  BY TopSum, SMT DEF AtMostPermille
<1>2. Rest(pool, w) = pool - top
  BY DEF Rest
<1>3. x \in Nat
  BY ScaleIs, ProductNat
<1> HIDE DEF x, top
<1>4. LeftOver(pool - top, pool, x)
  BY <1>1, <1>3, SMT DEF LeftOver
<1>5. pool - top \in Nat
  BY <1>1, SMT
<1> QED
  BY <1>2, <1>3, <1>4, <1>5 DEF x

\* A bound of the scale bounds the scaled pool.
LEMMA Rescaled ==
  ASSUME NEW pool \in Nat, NEW w \in Nat \ {0}, NEW c \in Nat
  PROVE  /\ Scale(w) <= c => pool * Scale(w) <= pool * c
         /\ c <= Scale(w) => pool * c <= pool * Scale(w)
<1>1. Scale(w) \in Nat
  BY ScaleIs
<1> QED
  BY <1>1

Tenth(pool, w) == Share(24, pool * Scale(w))
FirstGroup(last) == (last * 85) \div 100

\* The tenth place is paid 24 permille of the scaled pool.
LEMMA TenthIs ==
  ASSUME NEW pool \in Nat, NEW w \in Nat \ {0}, 10 <= w
  PROVE  /\ TopPrizes(pool, w)[Least(10, w)] = Tenth(pool, w)
         /\ Tenth(pool, w) \in Nat /\ RoundedDown(Tenth(pool, w), 24 * (pool * Scale(w)))
<1>1. Least(10, w) = 10 /\ 10 \in 1 .. 10
  BY DEF Least
<1>2. TopPrizes(pool, w)[10] = Share(TopShares[10], pool * Scale(w))
  BY <1>1, TopIs DEF TopIsShare
<1>3. TopShares[10] = 24
  BY DEF TopShares
<1>4. pool * Scale(w) \in Nat /\ 24 \in Nat
  BY TopIs
<1>5. RoundedDown(Share(24, pool * Scale(w)), 24 * (pool * Scale(w))) /\ Share(24, pool * Scale(w)) \in Nat
  BY <1>4, ShareIs
<1> QED
  BY <1>1, <1>2, <1>3, <1>5 DEF Tenth

\* A plan costs at most its largest prize for every place.
LEMMA CostAtMost ==
  ASSUME NEW S, IsFiniteSet(S), NEW size, NEW plan, Planned(S, size, plan), NEW most \in Nat,
         \A i \in S : plan[i] <= most
  PROVE  /\ CostOf(S, size, plan) \in Int
         /\ CostOf(S, size, plan) <= most * SumOver(size, S)
<1> DEFINE v == [i \in S |-> size[i] * plan[i]]
           u == [i \in S |-> most * size[i]]
<1>1. \A i \in S : v[i] \in Int /\ v[i] <= u[i] /\ u[i] \in Int /\ u[i] = most * size[i]
  <2> TAKE i \in S
  <2>1. size[i] \in Nat /\ plan[i] \in Nat /\ v[i] = size[i] * plan[i] /\ u[i] = most * size[i]
    BY DEF Planned
  <2> HIDE DEF v, u
  <2>2. /\ size[i] * plan[i] <= size[i] * most /\ size[i] * plan[i] \in Int
        /\ most * size[i] = size[i] * most /\ most * size[i] \in Int
    BY <2>1
  <2> QED
    BY <2>1, <2>2
<1>2. Whole(v, S) /\ Whole(u, S) /\ Whole(size, S)
  BY <1>1 DEF Whole, Planned
<1>3. CostOf(S, size, plan) = SumOver(v, S)
  BY DEF CostOf
<1> HIDE DEF v, u
<1>4. SumOver(v, S) <= SumOver(u, S) /\ SumOver(v, S) \in Int
  BY <1>1, <1>2, SumOverLess, SumOverAdds
<1>5. SumOver(u, S) = most * SumOver(size, S)
  <2>1. most \in Int /\ \A i \in S : u[i] = most * size[i]
    BY <1>1
  <2> QED
    BY <1>2, <2>1, SumOverTimes, Zenon
<1> QED
  BY <1>3, <1>4, <1>5

\* With few winners the groups cost less than what is left.
LEMMA FewWinners ==
  ASSUME NEW pool \in Nat, NEW w \in Nat \ {0}, NEW k \in 0 .. 7, Grouped(w, k), w <= 28, 3 * w <= pool,
         NEW last, last = TopPrizes(pool, w)[Least(10, w)]
  PROVE  PlannedCost(w, last) <= Rest(pool, w)
<1> DEFINE left == Rest(pool, w)
           f == FirstGroup(last)
           most == Most(1, f)
           size == SizesOf(w)
           plan == PlanOf(w, last)
<1>0. last \in Nat
  BY EachTyped
<1>1. f \in Nat /\ most \in Nat /\ most >= 1 /\ most >= f
  <2>1. f \in Nat
    BY <1>0 DEF FirstGroup
  <2> HIDE DEF f
  <2> QED
    BY <2>1 DEF Most
<1>2. Groups(w) = 1 .. k /\ IsFiniteSet(1 .. k) /\ Planned(Groups(w), size, plan)
  <2>1. 0 \in Nat
    OBVIOUS
  <2> QED
    BY <1>0, <2>1, GroupPrizesAre
<1>3. ASSUME NEW i \in 1 .. k PROVE plan[i] <= most
  <2>1. plan[i] = Most(1, Decayed(f, i))
    BY <1>2 DEF PlanOf, FirstGroup
  <2>2. Decayed(f, i) \in Nat /\ Decayed(f, i) <= f
    <3>1. i \in 1 .. 7
      OBVIOUS
    <3> HIDE DEF f
    <3> QED
      BY <1>1, <3>1, DecayedFalls
  <2> HIDE DEF f
  <2> QED
    BY <1>1, <2>1, <2>2 DEF Most
<1>4. Whole(size, 1 .. k) /\ SumOver(size, 1 .. k) = w - Least(10, w)
  BY SizesAddUp
<1> HIDE DEF size, most, plan
<1>10. CostOf(Groups(w), size, plan) \in Int /\ CostOf(Groups(w), size, plan) <= most * (w - Least(10, w))
  BY <1>1, <1>2, <1>3, <1>4, CostAtMost
<1>5. PlannedCost(w, last) = CostOf(Groups(w), size, plan)
  BY DEF PlannedCost, size, plan
<1>11. left \in Nat
  BY RestIs
<1>12. most * (w - Least(10, w)) <= left
  <2>1. CASE w <= 10
    <3>1. w - Least(10, w) = 0 /\ most * 0 = 0
      BY <1>1, <2>1 DEF Least
    <3> QED
      BY <1>11, <3>1
  <2>2. CASE w > 10
    <3> DEFINE x == pool * Scale(w)
    <3>1. w - Least(10, w) = w - 10 /\ w - 10 \in 1 .. 18
      BY <2>2 DEF Least
    <3>2. x \in Nat /\ x <= pool * 1989
      <4>1. Scale(w) <= 1989 /\ 1989 \in Nat
        BY <2>2 DEF Scale, Most
      <4>2. x \in Nat
        BY RestIs
      <4>3. x <= pool * 1989
        <5> DEFINE c == 1989
        <5>1. c \in Nat /\ Scale(w) <= c
          BY <4>1
        <5> HIDE DEF c, x
        <5>2. pool * Scale(w) <= pool * c
          BY <5>1, Rescaled, Zenon
        <5> QED
          BY <5>2 DEF c, x
      <4> QED
        BY <4>2, <4>3
    <3>3. LeftOver(left, pool, x)
      BY RestIs
    <3>4. RoundedDown(last, 24 * x)
      BY <2>2, TenthIs
    <3>6. 100 * f <= 85 * last
      BY <1>0, SMT DEF FirstGroup
    <3> HIDE DEF x, left, f
    <3>7. most * (w - 10) <= most * 18
      BY <1>1, <3>1
    <3>8. 18 * f <= left
      BY <1>0, <1>1, <1>11, <3>2, <3>3, <3>4, <3>6, SMT DEF LeftOver, RoundedDown
    <3>9. w - 10 <= left
      BY <1>11, <3>2, <3>3, SMT DEF LeftOver
    <3>10. CASE f >= 1
      <4>1. most = f
        BY <1>1, <3>10 DEF Most, most
      <4> QED
        BY <1>1, <1>11, <3>1, <3>7, <3>8, <4>1
    <3>11. CASE ~(f >= 1)
      <4>1. most = 1
        BY <1>1, <3>11 DEF Most, most
      <4> QED
        BY <3>1, <3>9, <4>1
    <3> QED
      BY <3>10, <3>11
  <2> QED
    BY <2>1, <2>2
<1>13. most * (w - Least(10, w)) \in Int
  <2>1. w - Least(10, w) \in Int
    BY DEF Least
  <2> QED
    BY <1>1, <2>1
<1> QED
  BY <1>5, <1>10, <1>11, <1>12, <1>13

\* The pool of a field: beyond 250 decks it has grown from a base of 1000 or more.
Growth(n) == 3 * Most(0, Least(n, 500) - 250) + 2 * Most(0, Least(n, 750) - 500)
               + Most(0, Least(n, 2000) - 750)
PoolOf(pool, n) == pool \in Nat /\ n \in Nat \ {0} /\ (n <= 250 \/ pool >= 1000 + Growth(n))

\* What is left for the groups, and the prize of the first of them.
LeftFor(left, pool, w) == left \in Nat /\ LeftOver(left, pool, pool * Scale(w))
FirstIs(f, pool, w) == f = FirstGroup(Tenth(pool, w))

\* The first group is paid 85 percent of the tenth place, rounded down.
LEMMA FirstBounds ==
  ASSUME NEW pool \in Nat, NEW w \in Nat \ {0}, 10 <= w, NEW f, FirstIs(f, pool, w)
  PROVE  /\ f \in Nat
         /\ \E last \in Nat : /\ RoundedDown(last, 24 * (pool * Scale(w)))
                              /\ 100 * f <= 85 * last /\ 85 * last < 100 * f + 100
<1> DEFINE last == Tenth(pool, w)
<1>1. last \in Nat /\ RoundedDown(last, 24 * (pool * Scale(w)))
  BY TenthIs
<1>2. f = (last * 85) \div 100
  BY DEF FirstIs, FirstGroup
<1> HIDE DEF last
<1>3. f \in Nat /\ 100 * f <= 85 * last /\ 85 * last < 100 * f + 100
  BY <1>1, <1>2
<1> QED
  BY <1>1, <1>3

\* Beyond 250 decks the first group is paid 12 or more.
LEMMA LargeField ==
  ASSUME NEW pool, NEW n, PoolOf(pool, n), n > 250, NEW f, FirstIs(f, pool, Winners(n))
  PROVE  f \in Nat /\ f >= 12
<1> DEFINE w == Winners(n)
           x == pool * Scale(w)
<1>1. pool \in Nat /\ n \in Nat \ {0} /\ pool >= 1000 + Growth(n)
  BY DEF PoolOf
<1>2. w \in Nat \ {0} /\ 33 * n < 100 * w + 100 /\ 10 <= w /\ 100 * w <= 33 * n
  BY <1>1, WinnersAre
<1> HIDE DEF w
<1>3. FirstIs(f, pool, w)
  BY DEF w
<1>4. /\ f \in Nat
      /\ \E last \in Nat : /\ RoundedDown(last, 24 * x)
                           /\ 100 * f <= 85 * last /\ 85 * last < 100 * f + 100
  BY <1>1, <1>2, <1>3, FirstBounds
<1>5. PICK last \in Nat : RoundedDown(last, 24 * x) /\ 100 * f <= 85 * last /\ 85 * last < 100 * f + 100
  BY <1>4
<1>6. x \in Nat /\ x >= 1250000
  <2>1. x \in Nat
    BY <1>1, <1>2, RestIs
  <2>2. Growth(n) \in Nat /\ (n >= 2000 => Growth(n) = 2500)
    BY <1>1 DEF Growth, Most, Least
  <2>3. CASE w <= 750
    <3>1. 1250 <= Scale(w) /\ 1250 \in Nat
      BY <1>2, <2>3 DEF Scale, Most
    <3>2. pool * 1250 <= x
      BY <1>1, <1>2, <3>1, Rescaled, SMT
    <3> HIDE DEF x
    <3> QED
      BY <1>1, <2>1, <2>2, <3>2, SMT
  <2>4. CASE w > 750
    <3>1. n >= 2000
      BY <1>1, <1>2, <2>4
    <3>2. 1200 <= Scale(w) /\ 1200 \in Nat
      BY <1>2, ScaleIs
    <3>3. pool * 1200 <= x
      BY <1>1, <1>2, <3>2, Rescaled, SMT
    <3> HIDE DEF x
    <3> QED
      BY <1>1, <2>1, <2>2, <3>1, <3>3, SMT
  <2> QED
    BY <1>2, <2>1, <2>3, <2>4, SMT
<1> HIDE DEF x
<1> QED
  BY <1>4, <1>5, <1>6, SMT DEF RoundedDown

\* What is left is enough for the plan.
Seventh(f) == (f * 729) \div 4096

\* In each range of field sizes enough is left for a plan from 12 on.
LEMMA EnoughLeft ==
  ASSUME NEW pool, NEW n, PoolOf(pool, n), 3 * Winners(n) <= pool, 29 <= Winners(n),
         NEW f, FirstIs(f, pool, Winners(n)), f >= 12,
         NEW left, LeftFor(left, pool, Winners(n))
  PROVE  f \in Nat /\ Enough(Seventh(f), Winners(n), left)
<1> DEFINE w == Winners(n)
           x == pool * Scale(w)
<1>1. pool \in Nat /\ n \in Nat \ {0} /\ (n <= 250 \/ pool >= 1000 + Growth(n))
  BY DEF PoolOf
<1>2. w \in Nat \ {0} /\ 33 * n < 100 * w + 100 /\ 10 <= w /\ 100 * w <= 33 * n
  BY <1>1, WinnersAre
<1>3. FirstIs(f, pool, w) /\ 3 * w <= pool /\ 29 <= w /\ LeftFor(left, pool, w)
  OBVIOUS
<1> HIDE DEF w
<1>4. /\ f \in Nat
      /\ \E last \in Nat : /\ RoundedDown(last, 24 * x)
                           /\ 100 * f <= 85 * last /\ 85 * last < 100 * f + 100
  BY <1>1, <1>2, <1>3, FirstBounds
<1>5. PICK last \in Nat : RoundedDown(last, 24 * x) /\ 100 * f <= 85 * last /\ 85 * last < 100 * f + 100
  BY <1>4
<1>6. x \in Nat /\ left \in Nat /\ LeftOver(left, pool, x)
  BY <1>1, <1>2, <1>3, RestIs DEF LeftFor
<1>7. Seventh(f) >= 2 /\ (f >= 42 => Seventh(f) >= 7)
  BY <1>4, SMT DEF Seventh
<1>8. CASE n <= 250
  <2>1. Scale(w) <= 1971 /\ 1971 \in Nat
    BY <1>2, <1>3 DEF Scale, Most
  <2>2. x <= pool * 1971
    BY <1>1, <1>2, <2>1, Rescaled, SMT
  <2> HIDE DEF x
  <2>3. 235 * w <= 100 * left
    BY <1>1, <1>2, <1>4, <1>5, <1>6, <1>8, <2>2, SMT DEF RoundedDown, LeftOver
  <2> QED
    BY <1>4, <1>7, <2>3, Zenon DEF Enough, w
<1>9. CASE n > 250 /\ n <= 1000
  <2>1. Scale(w) <= 1918 /\ 1918 \in Nat
    BY <1>1, <1>2, <1>9 DEF Scale, Most
  <2>2. x <= pool * 1918
    BY <1>1, <1>2, <2>1, Rescaled, SMT
  <2> HIDE DEF x
  <2>3. pool >= 1000 + Growth(n)
    BY <1>1, <1>9
  <2>4. 235 * w <= 100 * left
    BY <1>1, <1>2, <1>6, <1>9, <2>2, <2>3, SMT DEF LeftOver, Growth, Most, Least
  <2> QED
    BY <1>4, <1>7, <2>4, Zenon DEF Enough, w
<1>10. CASE n > 1000 /\ n < 2000
  <2>1. Scale(w) <= 1670 /\ 1670 \in Nat
    BY <1>1, <1>2, <1>10 DEF Scale, Most
  <2>2. x <= pool * 1670
    BY <1>1, <1>2, <2>1, Rescaled, SMT
  <2> HIDE DEF x
  <2>3. pool >= 1000 + Growth(n)
    BY <1>1, <1>10
  <2>4. 235 * w <= 100 * left
    BY <1>1, <1>2, <1>6, <1>10, <2>2, <2>3, SMT DEF LeftOver, Growth, Most, Least
  <2> QED
    BY <1>4, <1>7, <2>4, Zenon DEF Enough, w
<1>11. CASE n >= 2000
  <2>1. pool >= 3500
    BY <1>1, <1>11 DEF Growth, Most, Least
  <2>2. 1200 <= Scale(w) /\ 1200 \in Nat
    BY <1>2, ScaleIs
  <2>3. pool * 1200 <= x
    BY <1>1, <1>2, <2>2, Rescaled, SMT
  <2>4. f >= 42
    <3> HIDE DEF x
    <3> QED
      BY <1>1, <1>4, <1>5, <1>6, <2>1, <2>3, SMT DEF RoundedDown
  <2>5. CASE w < 800
    <3>1. Scale(w) <= 1341 /\ 1341 \in Nat
      BY <1>1, <1>2, <1>11 DEF Scale, Most
    <3>2. x <= pool * 1341
      BY <1>1, <1>2, <3>1, Rescaled, SMT
    <3> HIDE DEF x
    <3>3. 180 * w <= 100 * left
      BY <1>1, <1>2, <1>6, <2>1, <2>5, <3>2, SMT DEF LeftOver
    <3> QED
      BY <1>4, <1>7, <2>4, <3>3, Zenon DEF Enough, w
  <2>6. CASE w >= 800
    <3>1. Scale(w) <= 1200 /\ 1200 \in Nat
      BY <1>1, <1>2, <2>6 DEF Scale, Most
    <3>2. x <= pool * 1200
      BY <1>1, <1>2, <3>1, Rescaled, SMT
    <3> HIDE DEF x
    <3>3. 180 * w <= 100 * left
      BY <1>1, <1>2, <1>3, <1>6, <3>2, SMT DEF LeftOver
    <3> QED
      BY <1>4, <1>7, <2>4, <3>3, Zenon DEF Enough, w
  <2> QED
    BY <1>2, <2>5, <2>6
<1> QED
  BY <1>1, <1>8, <1>9, <1>10, <1>11

\* The prizes planned for the seven groups.
PlanIs(plan, f) ==
  /\ \A i \in 1 .. 7 : plan[i] \in Nat \ {0} /\ plan[7] <= plan[i]
  /\ plan[1] = Most(1, f) /\ plan[2] = Most(1, (f * 3) \div 4) /\ plan[3] = Most(1, (f * 9) \div 16)
  /\ plan[4] = Most(1, (f * 27) \div 64) /\ plan[5] = Most(1, (f * 81) \div 256)
  /\ plan[6] = Most(1, (f * 243) \div 1024) /\ plan[7] = Most(1, Seventh(f))

\* The plan of seven groups.
LEMMA PlansAre ==
  ASSUME NEW w \in Nat \ {0}, NEW k \in 0 .. 7, Grouped(w, k), 29 <= w, NEW last \in Nat
  PROVE  FirstGroup(last) \in Nat /\ PlanIs(PlanOf(w, last), FirstGroup(last))
<1> DEFINE f == FirstGroup(last)
           plan == PlanOf(w, last)
<1>1. f \in Nat
  BY DEF FirstGroup
<1>2. Groups(w) = 1 .. 7
  BY SevenGroups
<1>3. \A i \in 1 .. 7 : plan[i] = Most(1, Decayed(f, i))
  BY <1>2 DEF PlanOf, FirstGroup
<1> HIDE DEF f, plan
<1>4. \A i \in 1 .. 7 : Decayed(f, i) \in Nat /\ Decayed(f, 7) <= Decayed(f, i)
  <2>1. 7 \in 1 .. 7 /\ \A i \in 1 .. 7 : i <= 7
    OBVIOUS
  <2> QED
    BY <1>1, <2>1, DecayedFalls
<1>5. \A i \in 1 .. 7 : plan[i] \in Nat \ {0} /\ plan[7] <= plan[i]
  <2>1. 7 \in 1 .. 7
    OBVIOUS
  <2> QED
    BY <1>3, <1>4, <2>1 DEF Most
<1>6. Decays(f)
  BY <1>1, DecayedIs
<1>7. /\ plan[1] = Most(1, Decayed(f, 1)) /\ plan[2] = Most(1, Decayed(f, 2))
      /\ plan[3] = Most(1, Decayed(f, 3)) /\ plan[4] = Most(1, Decayed(f, 4))
      /\ plan[5] = Most(1, Decayed(f, 5)) /\ plan[6] = Most(1, Decayed(f, 6))
      /\ plan[7] = Most(1, Decayed(f, 7))
  BY <1>3
<1>8. PlanIs(plan, f)
  BY <1>5, <1>6, <1>7, SMT DEF PlanIs, Seventh, Decays
<1> QED
  BY <1>1, <1>8 DEF f, plan

SizesAt(w) == [i \in 1 .. 7 |-> Size(w, i)]

\* The sizes of seven groups, weighed.
LEMMA SizesWeigh ==
  ASSUME NEW w \in Nat \ {0}, NEW k \in 0 .. 7, Grouped(w, k), 29 <= w
  PROVE  Weighed(SizesAt(w), w)
<1> DEFINE s(i) == GroupSize(w, i)
<1>1. /\ \A i \in 1 .. 6 : Size(w, i) = s(i)
      /\ Size(w, 7) = w - 10 - Six(w) /\ Size(w, 7) \in Nat
  BY SevenGroups
<1>2. /\ SizesAt(w)[1] = s(1) /\ SizesAt(w)[2] = s(2) /\ SizesAt(w)[3] = s(3)
      /\ SizesAt(w)[4] = s(4) /\ SizesAt(w)[5] = s(5) /\ SizesAt(w)[6] = s(6)
      /\ SizesAt(w)[7] = w - 10 - Six(w)
  BY <1>1 DEF SizesAt
<1>3. Six(w) = s(1) + s(2) + s(3) + s(4) + s(5) + s(6)
  BY DEF Six
<1>4. /\ s(1) = Most(1, (2 * w) \div 100) /\ s(2) = Most(1, (3 * w) \div 100)
      /\ s(3) = (5 * w) \div 100 /\ s(4) = (8 * w) \div 100
      /\ s(5) = (12 * w) \div 100 /\ s(6) = (20 * w) \div 100
  BY GroupSizesAre
<1>5. \A i \in 1 .. 7 : SizesAt(w)[i] \in Nat
  <2>1. \A i \in 1 .. 6 : s(i) \in Nat
    BY GroupSizesAre
  <2>2. \A i \in 1 .. 7 : SizesAt(w)[i] = Size(w, i) /\ (i # 7 => i \in 1 .. 6)
    BY DEF SizesAt
  <2> HIDE DEF s
  <2> QED
    BY <1>1, <2>1, <2>2
<1> HIDE DEF s
<1>6. 100 * (4096 * SizesAt(w)[1] + 3072 * SizesAt(w)[2] + 2304 * SizesAt(w)[3] + 1728 * SizesAt(w)[4]
               + 1296 * SizesAt(w)[5] + 972 * SizesAt(w)[6] + 729 * SizesAt(w)[7]) <= 114194 * w
  BY <1>2, <1>3, <1>4, SMT DEF Most
<1> QED
  BY <1>5, <1>6, SMT DEF Weighed

\* The cost of that plan.
LEMMA SevenCost ==
  ASSUME NEW w \in Nat \ {0}, NEW k \in 0 .. 7, Grouped(w, k), 29 <= w, NEW last \in Nat
  PROVE  PlannedCost(w, last) = Seven(SizesAt(w), PlanOf(w, last))
<1> DEFINE plan == PlanOf(w, last)
<1>1. \A i \in 1 .. 7 : plan[i] \in Nat
  <2>1. PlanIs(plan, FirstGroup(last))
    BY PlansAre
  <2> HIDE DEF plan
  <2> QED
    BY <2>1, SMT DEF PlanIs
<1> HIDE DEF plan
<1>2. CostOf(Groups(w), SizesOf(w), plan)
        = Size(w, 1) * plan[1] + Size(w, 2) * plan[2] + Size(w, 3) * plan[3] + Size(w, 4) * plan[4]
            + Size(w, 5) * plan[5] + Size(w, 6) * plan[6] + Size(w, 7) * plan[7]
  BY <1>1, SevenCosts
<1>3. /\ SizesAt(w)[1] = Size(w, 1) /\ SizesAt(w)[2] = Size(w, 2) /\ SizesAt(w)[3] = Size(w, 3)
      /\ SizesAt(w)[4] = Size(w, 4) /\ SizesAt(w)[5] = Size(w, 5) /\ SizesAt(w)[6] = Size(w, 6)
      /\ SizesAt(w)[7] = Size(w, 7)
  BY DEF SizesAt
<1>4. CostOf(Groups(w), SizesOf(w), plan) = Seven(SizesAt(w), plan)
  BY <1>2, <1>3, Zenon DEF Seven
<1> QED
  BY <1>4 DEF PlannedCost, plan

\* A plan that pays its first group 12 or more can be scaled down to what is left.
LEMMA LargePlan ==
  ASSUME NEW w \in Nat \ {0}, NEW k \in 0 .. 7, Grouped(w, k), 29 <= w,
         NEW last \in Nat, FirstGroup(last) >= 12,
         NEW left \in Nat, Enough(Seventh(FirstGroup(last)), w, left)
  PROVE  \A i \in Groups(w) : PlannedCost(w, last) <= PlanOf(w, last)[i] * left
<1> DEFINE f == FirstGroup(last)
           plan == PlanOf(w, last)
           planned == PlannedCost(w, last)
           p == Seventh(f)
<1>1. f \in Nat /\ PlanIs(plan, f)
  BY PlansAre
<1>2. planned = Seven(SizesAt(w), plan)
  BY SevenCost
<1>3. Groups(w) = 1 .. 7
  BY SevenGroups
<1>4. Weighed(SizesAt(w), w)
  BY SizesWeigh
<1>5. f >= 12 /\ Enough(p, w, left)
  OBVIOUS
<1> HIDE DEF plan, planned, f
<1>6. BelowPlan(plan, f)
  <2>1. \A i \in 1 .. 7 : plan[i] \in Nat
    BY <1>1, SMT DEF PlanIs
  <2>2. /\ 4096 * plan[1] <= 4096 * f /\ 4096 * plan[2] <= 3072 * f /\ 4096 * plan[3] <= 2304 * f
        /\ 4096 * plan[4] <= 1728 * f /\ 4096 * plan[5] <= 1296 * f /\ 4096 * plan[6] <= 972 * f
        /\ 4096 * plan[7] <= 729 * f
    BY <1>1, <1>5, SMT DEF Most, Seventh, PlanIs
  <2> QED
    BY <2>1, <2>2, SMT DEF BelowPlan
<1>7. CostWithin(planned, f, w)
  BY <1>1, <1>2, <1>4, <1>6, WeightedCost
<1>8. planned \in Nat
  BY <1>7, SMT DEF CostWithin
<1>9. p \in Nat /\ 729 * f <= 4096 * p + 4095 /\ p >= 2 /\ plan[7] = p
  <2>1. p \in Nat /\ 729 * f <= 4096 * p + 4095 /\ p >= 2
    BY <1>1, <1>5, SMT DEF Seventh
  <2>2. plan[7] = Most(1, p)
    BY <1>1, SMT DEF PlanIs
  <2> HIDE DEF p
  <2> QED
    BY <2>1, <2>2, SMT DEF Most
<1> HIDE DEF p
<1>10. planned <= p * left
  BY <1>1, <1>5, <1>7, <1>8, <1>9, WithinLast, SMT
<1>11. ASSUME NEW i \in 1 .. 7 PROVE planned <= plan[i] * left
  <2>1. plan[i] \in Nat /\ p <= plan[i]
    BY <1>1, <1>9, SMT DEF PlanIs
  <2>2. p * left <= plan[i] * left /\ p * left \in Nat /\ plan[i] * left \in Nat
    BY <1>9, <2>1, SMT
  <2> QED
    BY <1>8, <1>10, <2>2, SMT
<1> QED
  BY <1>3, <1>11 DEF plan, planned

\* With up to 82 winners a plan that pays its first group 11 or less costs less than what is left.
Extras(plan) ==
  (plan[1] - 1) + 2 * (plan[2] - 1) + 4 * (plan[3] - 1) + 6 * (plan[4] - 1) + 9 * (plan[5] - 1)
    + 16 * (plan[6] - 1)

\* A product, bounded by 1 for each and the excess for the most.
LEMMA OneMore ==
  ASSUME NEW s \in Nat, NEW c \in Nat, NEW p \in Nat \ {0}, s <= c
  PROVE  s * p \in Nat /\ s * p <= s + c * (p - 1)
<1>1. p - 1 \in Nat
  OBVIOUS
<1>2. s * (p - 1) <= c * (p - 1)
  BY <1>1
<1>3. s * p = s + s * (p - 1)
  OBVIOUS
<1> QED
  BY <1>1, <1>2, <1>3

\* Such a plan costs 1 for every place and little more.
LEMMA SmallCost ==
  ASSUME NEW w \in Nat \ {0}, NEW k \in 0 .. 7, Grouped(w, k), 29 <= w, w <= 82,
         NEW plan, \A i \in 1 .. 7 : plan[i] \in Nat \ {0}, plan[7] = 1
  PROVE  Seven(SizesAt(w), plan) <= w - 10 + Extras(plan)
<1> DEFINE s(i) == SizesAt(w)[i]
<1>1. s(1) <= 1 /\ s(2) <= 2 /\ s(3) <= 4 /\ s(4) <= 6 /\ s(5) <= 9 /\ s(6) <= 16
      /\ s(1) + s(2) + s(3) + s(4) + s(5) + s(6) + s(7) = w - 10
      /\ \A i \in 1 .. 7 : s(i) \in Nat
  <2> DEFINE g(i) == GroupSize(w, i)
  <2>1. /\ \A i \in 1 .. 6 : Size(w, i) = g(i)
        /\ Size(w, 7) = w - 10 - Six(w) /\ Size(w, 7) \in Nat
    BY SevenGroups
  <2>2. /\ s(1) = g(1) /\ s(2) = g(2) /\ s(3) = g(3) /\ s(4) = g(4) /\ s(5) = g(5) /\ s(6) = g(6)
        /\ s(7) = w - 10 - Six(w)
    BY <2>1 DEF SizesAt
  <2>3. Six(w) = g(1) + g(2) + g(3) + g(4) + g(5) + g(6)
    BY DEF Six
  <2>4. /\ g(1) = Most(1, (2 * w) \div 100) /\ g(2) = Most(1, (3 * w) \div 100)
        /\ g(3) = (5 * w) \div 100 /\ g(4) = (8 * w) \div 100
        /\ g(5) = (12 * w) \div 100 /\ g(6) = (20 * w) \div 100
    BY GroupSizesAre
  <2>5. \A i \in 1 .. 7 : s(i) \in Nat
    BY SizesWeigh, SMT DEF Weighed
  <2> HIDE DEF g, s
  <2>6. s(1) <= 1 /\ s(2) <= 2 /\ s(3) <= 4 /\ s(4) <= 6 /\ s(5) <= 9 /\ s(6) <= 16
    BY <2>2, <2>4, SMT DEF Most
  <2>7. s(1) + s(2) + s(3) + s(4) + s(5) + s(6) + s(7) = w - 10
    BY <2>2, <2>3, <2>4, SMT DEF Most
  <2> QED
    BY <2>5, <2>6, <2>7
<1>2. Seven(SizesAt(w), plan)
        = s(1) * plan[1] + s(2) * plan[2] + s(3) * plan[3] + s(4) * plan[4] + s(5) * plan[5]
            + s(6) * plan[6] + s(7) * plan[7]
  BY DEF Seven
<1> HIDE DEF s
<1>3. s(1) \in Nat /\ s(2) \in Nat /\ s(3) \in Nat /\ s(4) \in Nat /\ s(5) \in Nat /\ s(6) \in Nat
      /\ s(7) \in Nat
      /\ plan[1] \in Nat \ {0} /\ plan[2] \in Nat \ {0} /\ plan[3] \in Nat \ {0} /\ plan[4] \in Nat \ {0}
      /\ plan[5] \in Nat \ {0} /\ plan[6] \in Nat \ {0}
  BY <1>1
<1>4. s(1) * plan[1] \in Nat /\ s(1) * plan[1] <= s(1) + 1 * (plan[1] - 1)
  BY <1>1, <1>3, OneMore
<1>5. s(2) * plan[2] \in Nat /\ s(2) * plan[2] <= s(2) + 2 * (plan[2] - 1)
  BY <1>1, <1>3, OneMore
<1>6. s(3) * plan[3] \in Nat /\ s(3) * plan[3] <= s(3) + 4 * (plan[3] - 1)
  BY <1>1, <1>3, OneMore
<1>7. s(4) * plan[4] \in Nat /\ s(4) * plan[4] <= s(4) + 6 * (plan[4] - 1)
  BY <1>1, <1>3, OneMore
<1>8. s(5) * plan[5] \in Nat /\ s(5) * plan[5] <= s(5) + 9 * (plan[5] - 1)
  BY <1>1, <1>3, OneMore
<1>9. s(6) * plan[6] \in Nat /\ s(6) * plan[6] <= s(6) + 16 * (plan[6] - 1)
  BY <1>1, <1>3, OneMore
<1>10. s(7) * plan[7] = s(7)
  BY <1>3
<1>11. Extras(plan) = (plan[1] - 1) + 2 * (plan[2] - 1) + 4 * (plan[3] - 1) + 6 * (plan[4] - 1)
                        + 9 * (plan[5] - 1) + 16 * (plan[6] - 1)
  BY DEF Extras
<1> DEFINE a(i) == s(i) * plan[i]
<1>12. Seven(SizesAt(w), plan) = a(1) + a(2) + a(3) + a(4) + a(5) + a(6) + a(7)
  BY <1>2
<1>13. /\ a(1) \in Nat /\ a(1) <= s(1) + (plan[1] - 1) /\ a(2) \in Nat /\ a(2) <= s(2) + 2 * (plan[2] - 1)
       /\ a(3) \in Nat /\ a(3) <= s(3) + 4 * (plan[3] - 1) /\ a(4) \in Nat /\ a(4) <= s(4) + 6 * (plan[4] - 1)
       /\ a(5) \in Nat /\ a(5) <= s(5) + 9 * (plan[5] - 1)
       /\ a(6) \in Nat /\ a(6) <= s(6) + 16 * (plan[6] - 1) /\ a(7) = s(7)
  BY <1>3, <1>4, <1>5, <1>6, <1>7, <1>8, <1>9, <1>10
<1> HIDE DEF a
<1> QED
  BY <1>1, <1>3, <1>11, <1>12, <1>13

\* That is within what is left.
LEMMA SmallPlan ==
  ASSUME NEW pool \in Nat, NEW w \in Nat \ {0}, NEW k \in 0 .. 7, Grouped(w, k), 29 <= w, w <= 82,
         3 * w <= pool, NEW f, FirstIs(f, pool, w), f <= 11, NEW plan, PlanIs(plan, f),
         NEW left, LeftFor(left, pool, w)
  PROVE  Seven(SizesAt(w), plan) <= left
<1> DEFINE x == pool * Scale(w)
<1>1. /\ f \in Nat
      /\ \E last \in Nat : /\ RoundedDown(last, 24 * x)
                           /\ 100 * f <= 85 * last /\ 85 * last < 100 * f + 100
  BY FirstBounds
<1>2. PICK last \in Nat : RoundedDown(last, 24 * x) /\ 100 * f <= 85 * last /\ 85 * last < 100 * f + 100
  BY <1>1
<1>3. x \in Nat /\ left \in Nat /\ LeftOver(left, pool, x)
  BY RestIs DEF LeftFor
<1>4. x <= pool * 1971
  <2>1. Scale(w) <= 1971 /\ 1971 \in Nat
    BY DEF Scale, Most
  <2> QED
    BY <2>1, Rescaled, SMT
<1> HIDE DEF x
<1>5. plan[7] = 1 /\ \A i \in 1 .. 7 : plan[i] \in Nat \ {0}
  BY <1>1, SMT DEF PlanIs, Seventh, Most
<1>6. /\ plan[1] = Most(1, f) /\ plan[2] = Most(1, (f * 3) \div 4) /\ plan[3] = Most(1, (f * 9) \div 16)
      /\ plan[4] = Most(1, (f * 27) \div 64) /\ plan[5] = Most(1, (f * 81) \div 256)
      /\ plan[6] = Most(1, (f * 243) \div 1024)
  BY SMT DEF PlanIs
<1> DEFINE e == Extras(plan)
<1>7. e \in Int /\ (f <= 2 => e <= 1) /\ (f = 3 => e <= 4) /\ (f = 4 => e <= 11) /\ (f = 5 => e <= 18)
      /\ (f = 6 => e <= 25) /\ (f = 7 => e <= 37) /\ (f = 8 => e <= 50) /\ (f = 9 => e <= 71)
      /\ (f = 10 => e <= 89) /\ (f = 11 => e <= 96)
  BY <1>1, <1>6, SMT DEF Extras, Most
<1>8. Seven(SizesAt(w), plan) <= w - 10 + e
  BY <1>5, SmallCost
<1> HIDE DEF e
<1>9. w - 10 + e <= left
  <2>1. CASE f <= 4
    BY <1>1, <1>3, <1>4, <1>7, <2>1, SMT DEF LeftOver
  <2>2. CASE f = 5
    BY <1>2, <1>3, <1>4, <1>7, <2>2, SMT DEF LeftOver, RoundedDown
  <2>3. CASE f = 6
    BY <1>2, <1>3, <1>4, <1>7, <2>3, SMT DEF LeftOver, RoundedDown
  <2>4. CASE f = 7
    BY <1>2, <1>3, <1>4, <1>7, <2>4, SMT DEF LeftOver, RoundedDown
  <2>5. CASE f = 8
    BY <1>2, <1>3, <1>4, <1>7, <2>5, SMT DEF LeftOver, RoundedDown
  <2>6. CASE f = 9
    BY <1>2, <1>3, <1>4, <1>7, <2>6, SMT DEF LeftOver, RoundedDown
  <2>7. CASE f = 10
    BY <1>2, <1>3, <1>4, <1>7, <2>7, SMT DEF LeftOver, RoundedDown
  <2>8. CASE f = 11
    BY <1>2, <1>3, <1>4, <1>7, <2>8, SMT DEF LeftOver, RoundedDown
  <2> QED
    BY <1>1, <2>1, <2>2, <2>3, <2>4, <2>5, <2>6, <2>7, <2>8, SMT
<1>10. Seven(SizesAt(w), plan) \in Int
  <2>1. /\ \A i \in 1 .. 7 : SizesAt(w)[i] \in Nat
    BY SizesWeigh, SMT DEF Weighed
  <2>2. /\ SizesAt(w)[1] * plan[1] \in Nat /\ SizesAt(w)[2] * plan[2] \in Nat /\ SizesAt(w)[3] * plan[3] \in Nat
        /\ SizesAt(w)[4] * plan[4] \in Nat /\ SizesAt(w)[5] * plan[5] \in Nat /\ SizesAt(w)[6] * plan[6] \in Nat
        /\ SizesAt(w)[7] * plan[7] \in Nat
    BY <1>5, <2>1, ProductNat
  <2> QED
    BY <2>2 DEF Seven
<1> QED
  BY <1>3, <1>7, <1>8, <1>9, <1>10, SMT

\* What is left can always pay the groups, in full or scaled down.
LEMMA AlwaysAffordable ==
  ASSUME NEW pool, NEW n, PoolOf(pool, n), 3 * Winners(n) <= pool,
         NEW k \in 0 .. 7, Grouped(Winners(n), k),
         NEW last, last = TopPrizes(pool, Winners(n))[Least(10, Winners(n))]
  PROVE  Affordable(pool, Winners(n), PlannedCost(Winners(n), last), PlanOf(Winners(n), last))
<1> DEFINE w == Winners(n)
           left == Rest(pool, w)
           f == FirstGroup(last)
           plan == PlanOf(w, last)
           planned == PlannedCost(w, last)
<1>1. pool \in Nat /\ n \in Nat \ {0} /\ (n <= 250 \/ pool >= 1000 + Growth(n))
  BY DEF PoolOf
<1>2. w \in Nat \ {0} /\ (w > 3 => 100 * w <= 33 * n)
  BY <1>1, WinnersAre
<1>3. CASE w <= 28
  <2>1. planned <= left
    BY <1>1, <1>2, <1>3, FewWinners
  <2> QED
    BY <2>1 DEF Affordable
<1>4. CASE w >= 29
  <2>0. Least(10, w) = 10 /\ 10 <= w
    BY <1>2, <1>4 DEF Least
  <2>1. last = Tenth(pool, w) /\ last \in Nat
    BY <1>1, <1>2, <2>0, TenthIs
  <2>2. FirstIs(f, pool, w)
    BY <2>1 DEF FirstIs
  <2>3. LeftFor(left, pool, w) /\ left \in Nat
    BY <1>1, <1>2, RestIs DEF LeftFor
  <2>4. f \in Nat /\ PlanIs(plan, f)
    BY <1>2, <1>4, <2>1, PlansAre
  <2>5. CASE f >= 12
    <3>1. Enough(Seventh(f), w, left)
      BY <1>4, <2>2, <2>3, <2>5, EnoughLeft
    <3>2. \A i \in Groups(w) : planned <= plan[i] * left
      BY <1>2, <1>4, <2>1, <2>3, <2>5, <3>1, LargePlan
    <3> QED
      BY <3>2 DEF Affordable
  <2>6. CASE f <= 11
    <3>1. n <= 250
      <4> HIDE DEF f
      <4>1. n > 250 => f >= 12
        BY <2>2, LargeField
      <4> QED
        BY <1>1, <2>4, <2>6, <4>1
    <3>2. w <= 82
      BY <1>1, <1>2, <1>4, <3>1
    <3>3. Seven(SizesAt(w), plan) <= left
      BY <1>1, <1>2, <1>4, <2>2, <2>3, <2>4, <2>6, <3>2, SmallPlan
    <3>4. planned = Seven(SizesAt(w), plan)
      BY <1>2, <1>4, <2>1, SevenCost
    <3> QED
      BY <3>3, <3>4 DEF Affordable
  <2> HIDE DEF f
  <2> QED
    BY <2>4, <2>5, <2>6
<1> HIDE DEF w
<1> QED
  BY <1>2, <1>3, <1>4 DEF w

\* What the table pays in all.
LEMMA TablePays ==
  ASSUME NEW pool, NEW n, PoolOf(pool, n)
  PROVE  /\ pool <= Paid(distribute_prizes(pool, n), 1, n)
         /\ Paid(distribute_prizes(pool, n), 1, n) < pool + Winners(n)
         /\ pool >= 3 * Winners(n) => Paid(distribute_prizes(pool, n), 1, n) = pool
<1> DEFINE w == Winners(n)
           b == BareTotal(pool, w)
           last == TopPrizes(pool, w)[Least(10, w)]
<1>1. pool \in Nat /\ n \in Nat \ {0}
  BY DEF PoolOf
<1>2. w \in Nat \ {0}
  BY <1>1, WinnersAre
<1>3. PICK k \in 0 .. 7 : Grouped(w, k)
  BY <1>2, GroupsAre
<1>4. Paid(distribute_prizes(pool, n), 1, n) = Most(pool, b) /\ b \in Nat
  BY <1>1, <1>3, DistributedIs
<1>5. /\ b < pool + w
      /\ Affordable(pool, w, PlannedCost(w, last), PlanOf(w, last)) => b <= pool
  BY <1>1, <1>2, <1>3, BareAtMost
<1>6. 3 * w <= pool => Affordable(pool, w, PlannedCost(w, last), PlanOf(w, last))
  BY <1>3, AlwaysAffordable
<1> HIDE DEF w, b, last
<1>7. /\ pool <= Most(pool, b) /\ Most(pool, b) < pool + w
      /\ pool >= 3 * w => Most(pool, b) = pool
  BY <1>1, <1>2, <1>4, <1>5, <1>6 DEF Most
<1> QED
  BY <1>4, <1>7 DEF w

-----------------------------------------------------------------------------
(* The order of the table *)

\* What falls from one position to the next falls throughout.
LEMMA FallsInSteps ==
  ASSUME NEW m \in Nat, NEW p, \A i \in 1 .. m : p[i] \in Nat,
         \A i \in 1 .. m : i # 1 => p[i] <= p[i - 1]
  PROVE  \A i, j \in 1 .. m : i <= j => p[j] <= p[i]
<1> DEFINE T == {j \in 0 .. m : \A i \in 1 .. j : p[j] <= p[i]}
<1>1. 0 \in T
  OBVIOUS
<1>2. ASSUME NEW j \in 1 .. m, j - 1 \in T PROVE j \in T
  <2>1. j \in 0 .. m /\ p[j] \in Nat
    OBVIOUS
  <2>2. ASSUME NEW i \in 1 .. j PROVE p[j] <= p[i]
    <3>1. CASE i = j
      BY <2>1, <3>1
    <3>2. CASE i # j
      <4>1. i \in 1 .. j - 1 /\ j # 1 /\ j - 1 \in 1 .. m /\ i \in 1 .. m
        BY <3>2
      <4>2. p[j - 1] <= p[i]
        BY <1>2, <4>1
      <4>3. p[j] <= p[j - 1] /\ p[j - 1] \in Nat /\ p[i] \in Nat
        BY <4>1
      <4> QED
        BY <2>1, <4>2, <4>3
    <3> QED
      BY <3>1, <3>2
  <2> QED
    BY <2>1, <2>2
<1>3. ASSUME NEW j \in 1 .. m PROVE j \in T
  <2>1. j \in Nat /\ \A i \in 1 .. j : i \in 1 .. m
    OBVIOUS
  <2>2. \A i \in 1 .. j : i - 1 \in T => i \in T
    BY <1>2, <2>1
  <2> HIDE DEF T
  <2> QED
    BY <1>1, <2>1, <2>2, UpTo
<1> QED
  BY <1>3

\* Prizes of single places fall, and by 4 or more where the last of the five is topped up.
LEMMA SharesFall ==
  ASSUME NEW x \in Nat
  PROVE  /\ \A i \in 1 .. 10 : TopShares[i] \in Nat /\ Share(TopShares[i], x) \in Nat
         /\ \A i \in 1 .. 10 : i # 1 => Share(TopShares[i], x) <= Share(TopShares[i - 1], x)
<1>1. /\ \A i \in 1 .. 10 : TopShares[i] \in Nat
      /\ \A i \in 1 .. 10 : i # 1 => TopShares[i] <= TopShares[i - 1] /\ i - 1 \in 1 .. 10
  BY DEF TopShares
<1>2. \A i \in 1 .. 10 : Share(TopShares[i], x) \in Nat
  BY <1>1, ShareIs, Zenon
<1>3. ASSUME NEW s \in Nat, NEW t \in Nat, s <= t PROVE Share(s, x) <= Share(t, x)
  <2>1. s * x <= t * x /\ s * x \in Nat /\ t * x \in Nat
    BY <1>3
  <2> DEFINE y == s * x
             z == t * x
  <2> HIDE DEF y, z
  <2>2. y \div 2000000 <= z \div 2000000
    BY <2>1, SMT DEF y, z
  <2> QED
    BY <2>2, SMT DEF Share, y, z
<1>4. ASSUME NEW i \in 1 .. 10, i # 1 PROVE Share(TopShares[i], x) <= Share(TopShares[i - 1], x)
  <2>1. TopShares[i] \in Nat /\ TopShares[i - 1] \in Nat /\ TopShares[i] <= TopShares[i - 1]
    BY <1>1, <1>4
  <2> QED
    BY <1>3, <2>1, Zenon
<1> QED
  BY <1>1, <1>2, <1>4, Zenon

\* Between the five best it falls by 4 or more.
LEMMA GapsOfFour ==
  ASSUME NEW x \in Nat, x >= 613760
  PROVE  \A i \in 2 .. 5 : Share(TopShares[i], x) + 4 <= Share(TopShares[i - 1], x)
<1>1. TopShares[1] = 140 /\ TopShares[2] = 105 /\ TopShares[3] = 85 /\ TopShares[4] = 70 /\ TopShares[5] = 57
  BY DEF TopShares
<1>2. Share(105, x) + 4 <= Share(140, x)
  BY SMT DEF Share
<1>3. Share(85, x) + 4 <= Share(105, x)
  BY SMT DEF Share
<1>4. Share(70, x) + 4 <= Share(85, x)
  BY SMT DEF Share
<1>5. Share(57, x) + 4 <= Share(70, x)
  BY SMT DEF Share
<1>6. \A i \in 2 .. 5 : i = 2 \/ i = 3 \/ i = 4 \/ i = 5
  OBVIOUS
<1>7. /\ Share(TopShares[2], x) + 4 <= Share(TopShares[2 - 1], x)
      /\ Share(TopShares[3], x) + 4 <= Share(TopShares[3 - 1], x)
      /\ Share(TopShares[4], x) + 4 <= Share(TopShares[4 - 1], x)
      /\ Share(TopShares[5], x) + 4 <= Share(TopShares[5 - 1], x)
  BY <1>1, <1>2, <1>3, <1>4, <1>5, SMT
<1> QED
  BY <1>6, <1>7, SMT

\* A pool of 320 or more is that large once scaled.
LEMMA PoolOf320 ==
  ASSUME NEW pool, NEW n, PoolOf(pool, n), pool >= 320
  PROVE  pool * Scale(Winners(n)) \in Nat /\ pool * Scale(Winners(n)) >= 613760
<1> DEFINE w == Winners(n)
           x == pool * Scale(w)
<1>1. pool \in Nat /\ n \in Nat \ {0} /\ (n <= 250 \/ pool >= 1000 + Growth(n))
  BY DEF PoolOf
<1>2. w \in Nat \ {0} /\ (100 * w <= 33 * n \/ w <= 3)
  BY <1>1, WinnersAre
<1> HIDE DEF w
<1>3. x \in Nat
  BY <1>1, <1>2, RestIs
<1>4. CASE n <= 250
  <2>1. 1918 <= Scale(w) /\ 1918 \in Nat
    BY <1>1, <1>2, <1>4 DEF Scale, Most
  <2>2. pool * 1918 <= x
    BY <1>1, <1>2, <2>1, Rescaled, SMT
  <2> HIDE DEF x
  <2>3. x >= 613760
    BY <1>1, <1>3, <2>2, SMT
  <2> QED
    BY <1>3, <2>3, SMT DEF w, x
<1>5. CASE n > 250
  <2>1. 1200 <= Scale(w) /\ 1200 \in Nat
    BY <1>2, ScaleIs
  <2>2. pool * 1200 <= x
    BY <1>1, <1>2, <2>1, Rescaled, SMT
  <2>3. pool >= 1000
    BY <1>1, <1>5 DEF Growth, Most, Least
  <2> HIDE DEF x
  <2>4. x >= 613760
    BY <1>1, <1>3, <2>2, <2>3, SMT
  <2> QED
    BY <1>3, <2>4, SMT DEF w, x
<1> QED
  BY <1>1, <1>4, <1>5

\* Each group is paid no more than the group above it, and the first no more than the tenth place.
LEMMA EachFalls ==
  ASSUME NEW pool \in Nat, NEW w \in Nat \ {0}, NEW k \in 0 .. 7, Grouped(w, k),
         NEW last, last = TopPrizes(pool, w)[Least(10, w)], last >= 1
  PROVE  \A g \in 1 .. k : /\ EachOf(pool, w)[g] \in Nat /\ EachOf(pool, w)[g] <= last
                           /\ g # 1 => EachOf(pool, w)[g] <= EachOf(pool, w)[g - 1]
<1> DEFINE left == Rest(pool, w)
           planned == PlannedCost(w, last)
           each == EachOf(pool, w)
           S == Groups(w)
           plan == PlanOf(w, last)
           f == FirstGroup(last)
<1>1. last \in Nat /\ left \in Nat
  BY EachTyped
<1>2. each = GroupPrizes(w, last, left)
  BY DEF EachOf
<1>3. f \in Nat /\ f <= last
  BY <1>1 DEF FirstGroup
<1> HIDE DEF left, each
<1>4. /\ IsFiniteSet(S) /\ S = 1 .. k
      /\ Planned(S, SizesOf(w), plan) /\ planned \in Nat
      /\ planned <= left => each = plan
      /\ planned > left => Lifted(each, S, plan, left, planned)
  BY <1>1, <1>2, GroupPrizesAre
<1>5. \A g \in 1 .. k : plan[g] = Most(1, Decayed(f, g))
  BY <1>4 DEF PlanOf, FirstGroup
<1>6. \A g \in 1 .. k : /\ Decayed(f, g) \in Nat /\ Decayed(f, g) <= f
                        /\ g # 1 => Decayed(f, g) <= Decayed(f, g - 1)
  <2>1. \A g \in 1 .. k : g \in 1 .. 7 /\ (g # 1 => g - 1 \in 1 .. 7 /\ g - 1 <= g)
    OBVIOUS
  <2> HIDE DEF f
  <2>2. /\ \A i \in 1 .. 7 : Decayed(f, i) \in Nat /\ Decayed(f, i) <= f
        /\ \A i, j \in 1 .. 7 : i <= j => Decayed(f, j) <= Decayed(f, i)
    BY <1>3, DecayedFalls
  <2> QED
    BY <2>1, <2>2
<1> HIDE DEF f, planned
<1>7. \A g \in 1 .. k : /\ plan[g] \in Nat /\ plan[g] <= last
                        /\ g # 1 => g - 1 \in 1 .. k /\ plan[g] <= plan[g - 1]
  <2> TAKE g \in 1 .. k
  <2>1. g # 1 => g - 1 \in 1 .. k
    OBVIOUS
  <2>2. plan[g] = Most(1, Decayed(f, g)) /\ Decayed(f, g) \in Nat /\ Decayed(f, g) <= f
    BY <1>5, <1>6
  <2>3. g # 1 => /\ plan[g - 1] = Most(1, Decayed(f, g - 1)) /\ Decayed(f, g - 1) \in Nat
                 /\ Decayed(f, g) <= Decayed(f, g - 1)
    BY <1>5, <1>6, <2>1
  <2> HIDE DEF plan
  <2> QED
    BY <1>1, <1>3, <2>1, <2>2, <2>3 DEF Most
<1>8. CASE planned <= left
  BY <1>4, <1>7, <1>8 DEF each
<1>9. CASE planned > left
  <2>1. planned = CostOf(S, SizesOf(w), plan)
    BY DEF PlannedCost, planned
  <2> HIDE DEF plan, S
  <2>2. /\ \A i \in S : each[i] \in Nat \ {0} /\ each[i] <= plan[i]
        /\ \A i, j \in S : plan[i] <= plan[j] => each[i] <= each[j]
    BY <1>1, <1>4, <1>9, <2>1, ScaledDown
  <2>3. \A g \in 1 .. k : /\ each[g] \in Nat /\ each[g] <= last
                          /\ g # 1 => each[g] <= each[g - 1]
    <3> TAKE g \in 1 .. k
    <3>1. each[g] \in Nat /\ each[g] <= plan[g] /\ plan[g] \in Nat /\ plan[g] <= last
      BY <1>4, <1>7, <2>2
    <3>2. g # 1 => each[g] <= each[g - 1]
      BY <1>4, <1>7, <2>2
    <3> QED
      BY <1>1, <3>1, <3>2
  <2> QED
    BY <2>3 DEF each
<1> QED
  BY <1>1, <1>4, <1>8, <1>9

\* What is left over is handed out so that it does not disturb the order.
LEMMA BonusFalls ==
  ASSUME NEW w \in Nat \ {0}, NEW left \in Int, NEW i \in Nat \ {0}, i # 1
  PROVE  /\ Bonus(w, left, i) \in Nat /\ Bonus(w, left, i - 1) \in Nat
         /\ Bonus(w, left, i) <= Bonus(w, left, i - 1) + IF i = Least(5, w) THEN 4 ELSE 0
<1>1. Bonus(w, left, i) \in Nat /\ Bonus(w, left, i - 1) \in Nat
  <2>1. i - 1 \in Nat \ {0}
    OBVIOUS
  <2> QED
    BY <2>1, BonusNat
<1>2. CASE left > 0 /\ i <= Least(5, w)
  <2>1. left \in Nat /\ i - 1 \in 1 .. Least(5, w) - 1 /\ i - 1 <= Least(5, w)
    BY <1>2 DEF Least
  <2> DEFINE c == Least(5, w)
             e == Extra(w, left)
             h == i - 1
  <2>2. \A j \in 1 .. c - 1 : e[j + 1] <= e[j] + IF j + 1 = c THEN 4 ELSE 0
    BY <2>1, ExtraIs DEF Fair
  <2>3. Bonus(w, left, i) = e[i] /\ Bonus(w, left, i - 1) = e[h]
    BY <1>2, <2>1 DEF Bonus
  <2>4. h \in 1 .. c - 1 /\ h + 1 = i
    BY <2>1
  <2> HIDE DEF h, e, c
  <2>5. e[i] <= e[h] + IF i = c THEN 4 ELSE 0
    BY <2>2, <2>4
  <2> QED
    BY <1>1, <2>3, <2>5 DEF c
<1>3. CASE ~(left > 0 /\ i <= Least(5, w))
  <2>1. Bonus(w, left, i) = 0
    BY <1>3 DEF Bonus
  <2> QED
    BY <1>1, <2>1
<1> QED
  BY <1>2, <1>3

\* From a pool of 320 on no run of places is paid more than the one above it.
LEMMA TableFalls ==
  ASSUME NEW pool, NEW n, PoolOf(pool, n), pool >= 320, NEW k \in 0 .. 7, Grouped(Winners(n), k)
  PROVE  Descends(distribute_prizes(pool, n), RunsOf(Winners(n), k))
<1> DEFINE w == Winners(n)
           t == BareTable(pool, w)
           up == distribute_prizes(pool, n)
           m == RunsOf(w, k)
           a == Least(10, w)
           left == pool - BareTotal(pool, w)
           top == TopPrizes(pool, w)
           x == pool * Scale(w)
           each == EachOf(pool, w)
           p == [i \in 1 .. m |-> up[i].prize]
<1>1. pool \in Nat /\ n \in Nat \ {0}
  BY DEF PoolOf
<1>2. w \in Nat \ {0} /\ Grouped(w, k)
  BY <1>1, WinnersAre
<1>3. Raised(t, up, m, w, left) /\ left \in Int
  <2>1. Raised(t, up, m, w, left) /\ BareTotal(pool, w) \in Nat
    BY <1>1, DistributedIs
  <2> QED
    BY <1>1, <2>1
<1>4. x \in Nat
  BY PoolOf320, SMT
<1>17. x >= 613760
  BY PoolOf320, SMT
<1> HIDE DEF w
<1>5. m = a + k /\ a \in 1 .. 10 /\ a <= w /\ (k # 0 => a = 10) /\ m \in Nat
  <2>1. k # 0 => a = 10
    BY <1>1, <1>2, BareIs
  <2>2. a \in 1 .. 10 /\ a <= w
    BY <1>2 DEF Least
  <2>3. m = a + k
    BY DEF RunsOf
  <2> HIDE DEF a, m
  <2> QED
    BY <2>1, <2>2, <2>3
<1>6. \A i \in 1 .. a : t[i].prize = top[i] /\ top[i] \in Nat
  <2>1. \A i \in 1 .. a : SingleRun(t, i, top[i])
    BY <1>1, <1>2, BareIs
  <2> HIDE DEF t, top, a
  <2> QED
    BY <2>1 DEF SingleRun
<1>7. \A g \in 1 .. k : t[10 + g].prize = each[g] /\ each[g] \in Nat
  <2>1. \A g \in 1 .. k : GroupRun(t, g, w, each[g])
    BY <1>1, <1>2, BareIs
  <2> HIDE DEF t, each
  <2> QED
    BY <2>1 DEF GroupRun
<1>8. \A i \in 1 .. a : i \in 1 .. 10 /\ top[i] = Share(TopShares[i], x)
  BY <1>1, <1>2, TopIs DEF TopIsShare
<1> HIDE DEF x
<1>9. \A i \in 1 .. 10 : i # 1 => /\ i - 1 \in 1 .. 10
                                  /\ Share(TopShares[i], x) \in Nat /\ Share(TopShares[i - 1], x) \in Nat
                                  /\ Share(TopShares[i], x) <= Share(TopShares[i - 1], x)
  <2>1. /\ \A i \in 1 .. 10 : Share(TopShares[i], x) \in Nat
        /\ \A i \in 1 .. 10 : i # 1 => Share(TopShares[i], x) <= Share(TopShares[i - 1], x)
    BY <1>4, SharesFall, Zenon
  <2>2. \A i \in 1 .. 10 : i # 1 => i - 1 \in 1 .. 10
    OBVIOUS
  <2> QED
    BY <2>1, <2>2
<1>10. \A i \in 2 .. 5 : Share(TopShares[i], x) + 4 <= Share(TopShares[i - 1], x)
  BY <1>4, <1>17, GapsOfFour, SMT
<1>11. top[a] \in Nat /\ top[a] >= 1
  <2>1. a \in 1 .. a
    BY <1>5
  <2>2. top[a] = Share(TopShares[a], x) /\ a \in 1 .. 10
    BY <1>8, <2>1
  <2>3. TopShares[a] \in Nat /\ TopShares[a] >= 24
    BY <2>2 DEF TopShares
  <2> DEFINE s == TopShares[a]
  <2>4. s \in Nat /\ s >= 24
    BY <2>3
  <2> HIDE DEF s
  <2>5. s * x >= 24 * x /\ s * x \in Nat
    BY <1>4, <2>4, SMT
  <2>6. Share(s, x) \in Nat /\ RoundedDown(Share(s, x), s * x)
    BY <1>4, <2>4, ShareIs
  <2> DEFINE y == s * x
             q == Share(s, x)
  <2>7. y \in Nat /\ y >= 24 * x /\ q \in Nat /\ RoundedDown(q, y)
    BY <2>5, <2>6, SMT
  <2> HIDE DEF y, q
  <2>8. q >= 1
    BY <1>4, <1>17, <2>7, SMT DEF RoundedDown
  <2> QED
    BY <2>2, <2>7, <2>8 DEF q, s
<1>12. \A g \in 1 .. k : each[g] <= top[a] /\ (g # 1 => each[g] <= each[g - 1])
  <2> HIDE DEF each
  <2> QED
    BY <1>1, <1>2, <1>11, EachFalls DEF each
<1>13. \A i \in 1 .. m : /\ up[i].prize = t[i].prize + Bonus(w, left, i) /\ Bonus(w, left, i) \in Nat
                         /\ up[i].prize \in Nat
  BY <1>3 DEF Raised, Run
<1> HIDE DEF t, up, m, left, top, each, a
<1>14. ASSUME NEW i \in 1 .. m, i # 1 PROVE up[i].prize <= up[i - 1].prize
  <2> DEFINE h == i - 1
  <2>1. i \in Nat \ {0} /\ h \in 1 .. m /\ m \in Nat
    BY <1>5, <1>14
  <2>2. /\ Bonus(w, left, i) \in Nat /\ Bonus(w, left, h) \in Nat
        /\ Bonus(w, left, i) <= Bonus(w, left, h) + IF i = Least(5, w) THEN 4 ELSE 0
    BY <1>2, <1>3, <1>14, <2>1, BonusFalls
  <2>3. CASE i <= a
    <3>1. i \in 1 .. a /\ h \in 1 .. a
      BY <1>5, <1>14, <2>1, <2>3
    <3>2. /\ t[i].prize = Share(TopShares[i], x) /\ t[h].prize = Share(TopShares[h], x)
          /\ t[i].prize \in Nat /\ t[h].prize \in Nat
      BY <1>6, <1>8, <3>1
    <3>3. t[i].prize <= t[h].prize
      BY <1>8, <1>9, <1>14, <3>1, <3>2
    <3>4. i = Least(5, w) => t[i].prize + 4 <= t[h].prize
      <4>1. i = Least(5, w) => i \in 2 .. 5
        BY <1>2, <1>14, <2>1 DEF Least
      <4> QED
        BY <1>10, <3>2, <4>1
    <3> HIDE DEF h
    <3> QED
      BY <1>13, <2>1, <2>2, <3>2, <3>3, <3>4 DEF h
  <2>4. CASE i > a
    <3>1. k # 0 /\ a = 10 /\ i - 10 \in 1 .. k /\ i # Least(5, w)
      <4>1. k # 0
        BY <1>5, <2>1, <2>4
      <4>2. a = 10 /\ m = 10 + k
        BY <1>5, <4>1
      <4>3. i # Least(5, w)
        BY <1>2, <2>1, <2>4, <4>2 DEF Least
      <4> QED
        BY <2>1, <2>4, <4>1, <4>2, <4>3
    <3> DEFINE g == i - 10
    <3>2. g \in 1 .. k /\ 10 + g = i /\ 10 + (g - 1) = h
      BY <3>1
    <3>3. t[i].prize = each[g] /\ each[g] \in Nat
      <4> HIDE DEF g
      <4> QED
        BY <1>7, <3>2
    <3>4. t[h].prize \in Nat /\ each[g] <= t[h].prize
      <4>1. CASE g = 1
        <5>1. h = a /\ a \in 1 .. a
          BY <1>5, <3>1, <3>2, <4>1
        <5>2. t[h].prize = top[a]
          BY <1>6, <5>1
        <5> HIDE DEF g, h
        <5> QED
          BY <1>11, <1>12, <3>2, <5>2
      <4>2. CASE g # 1
        <5> DEFINE b == g - 1
        <5>1. b \in 1 .. k /\ 10 + b = h
          BY <3>2, <4>2
        <5> HIDE DEF h
        <5>2. t[h].prize = each[b] /\ each[b] \in Nat
          <6> HIDE DEF b
          <6> QED
            BY <1>7, <5>1
        <5>3. each[g] <= each[b]
          <6> HIDE DEF g
          <6> QED
            BY <1>12, <3>2, <4>2
        <5> QED
          BY <5>2, <5>3
      <4> QED
        BY <4>1, <4>2
    <3> HIDE DEF h, g
    <3> QED
      BY <1>13, <2>1, <2>2, <3>1, <3>3, <3>4 DEF h
  <2> QED
    BY <1>5, <2>1, <2>3, <2>4
<1>15. \A i, j \in 1 .. m : i <= j => p[j] <= p[i]
  <2>1. \A i \in 1 .. m : p[i] \in Nat /\ p[i] = up[i].prize
    BY <1>13
  <2>2. \A i \in 1 .. m : i # 1 => p[i] <= p[i - 1]
    <3>1. \A i \in 1 .. m : i # 1 => i - 1 \in 1 .. m
      BY <1>5
    <3> HIDE DEF p
    <3> QED
      BY <1>14, <2>1, <3>1
  <2> HIDE DEF p
  <2> QED
    BY <1>5, <2>1, <2>2, FallsInSteps
<1>16. Descends(up, m)
  BY <1>15 DEF Descends
<1> QED
  BY <1>16 DEF up, m, w

\* A better score is not paid less where the table falls.
LEMMA ListedInOrder ==
  ASSUME ListedDecks, NEW m \in Nat, NEW w \in Nat, NEW table, Tabled(table, m, w), Descends(table, m)
  PROVE  \A i, j \in DOMAIN Given(table) :
           scores[i] >= scores[j] =>
             Given(table)[i].sum * Given(table)[j].count >= Given(table)[j].sum * Given(table)[i].count
<1> DEFINE G == Given(table)
<1>1. DOMAIN G = DOMAIN scores
  BY DEF Given
<1> SUFFICES ASSUME NEW i \in DOMAIN scores, NEW j \in DOMAIN scores, scores[i] >= scores[j]
             PROVE  G[i].sum * G[j].count >= G[j].sum * G[i].count
  BY <1>1
<1> DEFINE s == scores[i]
           t == scores[j]
<1>2. /\ s \in Nat /\ Better(s) \in Nat /\ Equal(s) \in 1 .. 8 /\ G[i].count = Equal(s)
      /\ G[i].sum = Paid(table, Better(s) + 1, Better(s) + Equal(s)) /\ G[i].sum \in Nat
  BY GivenIs
<1>3. /\ t \in Nat /\ Better(t) \in Nat /\ Equal(t) \in 1 .. 8 /\ G[j].count = Equal(t)
      /\ G[j].sum = Paid(table, Better(t) + 1, Better(t) + Equal(t)) /\ G[j].sum \in Nat
  BY GivenIs
<1>4. s >= t
  OBVIOUS
<1> HIDE DEF G, s, t
<1>5. CASE s = t
  <2>1. G[i].sum = G[j].sum /\ G[i].count = G[j].count
    BY <1>2, <1>3, <1>5
  <2>2. G[i].sum * G[j].count \in Int
    BY <1>2, <1>3
  <2> QED
    BY <2>1, <2>2
<1>6. CASE s # t
  <2>1. Better(s) + Equal(s) <= Better(t)
    <3>1. /\ IsFiniteSet(From(s)) /\ Cardinality(From(s)) \in Nat
          /\ Cardinality(From(s)) = Cardinality(From(s + 1)) + Cardinality(Tied(s))
          /\ Better(s) = strong + Cardinality(From(s + 1)) /\ Equal(s) = Cardinality(Tied(s))
          /\ Cardinality(From(s + 1)) \in Nat /\ Cardinality(Tied(s)) \in 0 .. 8
      BY <1>2, TiedFinite
    <3>2. /\ IsFiniteSet(From(t + 1)) /\ Cardinality(From(t + 1)) \in Nat
          /\ Better(t) = strong + Cardinality(From(t + 1))
      BY <1>3, TiedFinite
    <3>3. From(s) \subseteq From(t + 1)
      <4>1. \A x \in DOMAIN scores : scores[x] \in Nat
        BY DEF ListedDecks
      <4> QED
        BY <1>2, <1>3, <1>4, <1>6, <4>1 DEF From
    <3>4. Cardinality(From(s)) <= Cardinality(From(t + 1))
      BY <3>2, <3>3, FS_Subset
    <3>5. strong \in Nat
      BY DEF ListedDecks
    <3> QED
      BY <3>1, <3>2, <3>4, <3>5
  <2> DEFINE a == Better(s) + 1
             b == Better(s) + Equal(s)
             c == Better(t) + 1
             d == Better(t) + Equal(t)
  <2>2. /\ a \in Nat /\ b \in Nat /\ c \in Nat /\ d \in Nat /\ 1 <= a /\ a <= b /\ b < c /\ c <= d
        /\ b - a + 1 = Equal(s) /\ d - c + 1 = Equal(t)
    BY <1>2, <1>3, <2>1
  <2>3. Paid(table, a, b) = G[i].sum /\ Paid(table, c, d) = G[j].sum
    BY <1>2, <1>3
  <2> HIDE DEF a, b, c, d
  <2>4. Paid(table, c, d) * (b - a + 1) <= Paid(table, a, b) * (d - c + 1)
    BY <2>2, BetterPlaces, Zenon
  <2>5. G[j].sum * G[i].count <= G[i].sum * G[j].count
    BY <1>2, <1>3, <2>2, <2>3, <2>4, Zenon
  <2>6. G[j].sum * G[i].count \in Nat /\ G[i].sum * G[j].count \in Nat
    BY <1>2, <1>3, ProductNat
  <2> QED
    BY <2>5, <2>6
<1> QED
  BY <1>5, <1>6 DEF G

\* The pool grows by permille of a base that is whole in thousands beyond 250 decks.
LEMMA PoolGrows ==
  ASSUME NEW b \in Nat \ {0}, NEW n \in Nat \ {0}, n > 250 => b % 1000 = 0
  PROVE  PoolOf(calculate_dynamic_prize_pool(b, n), n)
<1> DEFINE k == Growth(n)
<1>1. k \in Nat /\ (n <= 250 => k = 0)
  BY DEF Growth, Most, Least
<1>2. calculate_dynamic_prize_pool(b, n) = b + (b * k) \div 1000
  BY DEF calculate_dynamic_prize_pool, Growth
<1> HIDE DEF k
<1>3. b * k \in Nat /\ (b * k) \div 1000 \in Nat
  <2>1. b * k \in Nat
    BY <1>1, ProductNat
  <2> DEFINE x == b * k
  <2> HIDE DEF x
  <2>2. x \div 1000 \in Nat
    BY <2>1, SMT DEF x
  <2> QED
    BY <2>1, <2>2 DEF x
<1>4. n > 250 => b >= 1000 /\ (b * k) \div 1000 >= k
  <2> SUFFICES ASSUME n > 250 PROVE b >= 1000 /\ (b * k) \div 1000 >= k
    OBVIOUS
  <2>1. b >= 1000
    BY SMT
  <2> DEFINE x == b * k
  <2>2. x >= 1000 * k /\ x \in Nat
    BY <1>1, <2>1, SMT
  <2> HIDE DEF x
  <2>3. x \div 1000 >= k
    BY <1>1, <2>2, SMT
  <2> QED
    BY <2>1, <2>3 DEF x
<1> DEFINE q == (b * k) \div 1000
<1>5. q \in Nat /\ (n > 250 => b >= 1000 /\ q >= k)
  BY <1>3, <1>4
<1> HIDE DEF q
<1>6. b + q \in Nat /\ (n <= 250 \/ b + q >= 1000 + k)
  BY <1>1, <1>5
<1> QED
  BY <1>2, <1>6 DEF PoolOf, k, q

-----------------------------------------------------------------------------
(* Every rank *)

\* The table and the prizes are nothing, or what the decks that joined make of the pool asked for.
PrizeInv ==
  /\ base \in Pools \cup {0} /\ strong \in Fields \cup {0}
  /\ scores \in Seq(Scores) /\ Len(scores) <= MaxListed
  /\ base # 0 /\ strong + MaxListed > 250 => base % 1000 = 0
  /\ rows = <<>> => prizes = <<>>
  /\ rows # <<>> => /\ base # 0 /\ Decks > 0
                    /\ rows = distribute_prizes(Pool, Decks) /\ prizes = Given(rows)

\* What the invariant says of the decks and of the pool.
LEMMA DecksListed ==
  ASSUME PrizeInv
  PROVE  /\ ListedDecks /\ Len(scores) <= MaxListed /\ strong \in Nat /\ Len(scores) \in Nat
         /\ Decks \in Nat /\ Decks = strong + Len(scores)
         /\ base # 0 => base \in Nat \ {0}
         /\ base # 0 /\ Decks > 0 => PoolOf(Pool, Decks)
<1>1. /\ Pools \subseteq Nat \ {0} /\ Fields \subseteq Nat /\ Scores \subseteq Nat /\ MaxListed \in 0 .. 8
  BY PrizeAssumption
<1>2. /\ base \in Pools \cup {0} /\ strong \in Fields \cup {0}
      /\ scores \in Seq(Scores) /\ Len(scores) <= MaxListed
      /\ base # 0 /\ strong + MaxListed > 250 => base % 1000 = 0
  BY DEF PrizeInv
<1>3. scores \in Seq(Nat) /\ Len(scores) \in Nat
  <2>1. Len(scores) \in Nat /\ scores \in [1 .. Len(scores) -> Scores]
    BY <1>2
  <2>2. scores \in [1 .. Len(scores) -> Nat]
    BY <1>1, <2>1
  <2> QED
    BY <2>1, <2>2
<1>4. strong \in Nat /\ Len(scores) \in 0 .. 8 /\ (base # 0 => base \in Nat \ {0})
  <2>1. strong \in Nat /\ (base # 0 => base \in Nat \ {0})
    BY <1>1, <1>2
  <2>2. MaxListed \in 0 .. 8 /\ Len(scores) <= MaxListed
    BY <1>1, <1>2
  <2>3. Len(scores) \in 0 .. 8
    <3> DEFINE n == Len(scores)
               most == MaxListed
    <3>1. n \in Nat /\ most \in 0 .. 8 /\ n <= most
      BY <1>3, <2>2
    <3> HIDE DEF n, most
    <3>2. n \in 0 .. 8
      BY <3>1
    <3> QED
      BY <3>2 DEF n
  <2> QED
    BY <2>1, <2>3
<1>5. Decks = strong + Len(scores) /\ Decks \in Nat
  BY <1>3, <1>4 DEF Decks
<1>6. base # 0 /\ Decks > 0 => PoolOf(Pool, Decks)
  <2> SUFFICES ASSUME base # 0, Decks > 0 PROVE PoolOf(Pool, Decks)
    OBVIOUS
  <2>1. Decks \in Nat \ {0} /\ base \in Nat \ {0}
    BY <1>4, <1>5
  <2>2. Decks > 250 => base % 1000 = 0
    BY <1>1, <1>2, <1>3, <1>4, <1>5
  <2> QED
    BY <2>1, <2>2, PoolGrows DEF Pool
<1> QED
  BY <1>2, <1>3, <1>4, <1>5, <1>6 DEF ListedDecks

\* What a pool is cut into, whatever the number of decks.
LEMMA TableOf ==
  ASSUME NEW pool, NEW n, PoolOf(pool, n)
  PROVE  \E m \in Nat \ {0}, w \in Nat :
           /\ Tabled(distribute_prizes(pool, n), m, w)
           /\ distribute_prizes(pool, n) \in Seq(Run) /\ distribute_prizes(pool, n) # <<>>
           /\ pool >= 320 => Descends(distribute_prizes(pool, n), m)
<1> DEFINE w == Winners(n)
           t == distribute_prizes(pool, n)
<1>1. pool \in Nat /\ n \in Nat \ {0}
  BY DEF PoolOf
<1>2. w \in Nat \ {0}
  BY <1>1, WinnersAre
<1>3. PICK k \in 0 .. 7 : Grouped(w, k)
  BY <1>2, GroupsAre
<1> DEFINE m == RunsOf(w, k)
<1>4. Tabled(t, m, w)
  BY <1>1, <1>3, DistributedIs
<1>5. pool >= 320 => Descends(t, m)
  BY <1>3, TableFalls
<1>6. m \in Nat \ {0}
  <2> HIDE DEF w
  <2> QED
    BY <1>2 DEF RunsOf, Least
<1>7. t \in Seq(Run)
  <2> DEFINE b == BareTable(pool, w)
             left == pool - Paid(b, 1, w)
  <2>1. t = TopUp(b, w, left)
    BY DistributeIs
  <2>2. t = [i \in DOMAIN t |-> t[i]]
    <3> HIDE DEF b, left, w
    <3> QED
      BY <2>1 DEF TopUp
  <2> HIDE DEF t, m
  <2>3. DOMAIN t = 1 .. m /\ \A i \in 1 .. m : t[i] \in Run
    BY <1>4 DEF Tabled
  <2>4. t \in [1 .. m -> Run]
    BY <2>2, <2>3
  <2> QED
    BY <1>6, <2>4
<1>8. t # <<>>
  <2>1. 1 \in DOMAIN t
    <3> HIDE DEF m
    <3> QED
      BY <1>4, <1>6 DEF Tabled
  <2>2. 1 \notin DOMAIN <<>>
    OBVIOUS
  <2> HIDE DEF t
  <2> QED
    BY <2>1, <2>2
<1> HIDE DEF w, t, m
<1>9. w \in Nat
  BY <1>2
<1> QED
  BY <1>4, <1>5, <1>6, <1>7, <1>8, <1>9 DEF t

\* The invariant holds at first.
LEMMA PrizeInvInit == PrizeInit => PrizeInv
<1> SUFFICES ASSUME PrizeInit PROVE PrizeInv
  OBVIOUS
<1>1. base = 0 /\ strong = 0 /\ scores = <<>> /\ rows = <<>> /\ prizes = <<>>
  BY DEF PrizeInit
<1>2. scores \in Seq(Scores) /\ Len(scores) = 0 /\ MaxListed \in 0 .. 8
  BY <1>1, PrizeAssumption
<1> QED
  BY <1>1, <1>2 DEF PrizeInv

\* A pool and a field are chosen: nothing is ranked yet.
LEMMA PrizeInvStart ==
  ASSUME PrizeInv, NEW pool \in Pools, NEW field \in Fields, PrizeStart(pool, field)
  PROVE  PrizeInv'
<1>1. /\ base = 0 /\ base' = pool /\ strong' = field
      /\ field + MaxListed > 250 => pool % 1000 = 0
      /\ scores' = scores /\ rows' = rows /\ prizes' = prizes
  BY DEF PrizeStart
<1>2. rows = <<>> /\ prizes = <<>>
  BY <1>1 DEF PrizeInv
<1>3. scores \in Seq(Scores) /\ Len(scores) <= MaxListed
  BY DEF PrizeInv
<1>4. rows' = <<>> /\ prizes' = <<>> /\ scores' \in Seq(Scores) /\ Len(scores') <= MaxListed
  BY <1>1, <1>2, <1>3
<1> QED
  BY <1>1, <1>4 DEF PrizeInv

\* A deck joins before the rank.
LEMMA PrizeInvJoin ==
  ASSUME PrizeInv, NEW s \in Scores, PrizeJoin(s)
  PROVE  PrizeInv'
<1>1. /\ base # 0 /\ rows = <<>> /\ Len(scores) < MaxListed /\ scores' = Append(scores, s)
      /\ base' = base /\ strong' = strong /\ rows' = rows /\ prizes' = prizes
  BY DEF PrizeJoin
<1>2. /\ scores \in Seq(Scores) /\ prizes = <<>> /\ MaxListed \in Nat
      /\ base \in Pools \cup {0} /\ strong \in Fields \cup {0}
      /\ base # 0 /\ strong + MaxListed > 250 => base % 1000 = 0
  BY <1>1, PrizeAssumption DEF PrizeInv
<1>3. scores' \in Seq(Scores) /\ Len(scores') <= MaxListed
  <2>1. Append(scores, s) \in Seq(Scores) /\ Len(Append(scores, s)) = Len(scores) + 1 /\ Len(scores) \in Nat
    BY <1>2
  <2> QED
    BY <1>1, <1>2, <2>1
<1>4. rows' = <<>> /\ prizes' = <<>>
  BY <1>1, <1>2
<1> QED
  BY <1>1, <1>2, <1>3, <1>4 DEF PrizeInv

\* The rank writes the table of the pool and what the decks are given.
LEMMA PrizeInvRank ==
  ASSUME PrizeInv, PrizeRank
  PROVE  PrizeInv'
<1>1. /\ base # 0 /\ Decks > 0
      /\ rows' = distribute_prizes(calculate_dynamic_prize_pool(base, Decks), Decks)
      /\ prizes' = [i \in DOMAIN scores |->
           calculate_avg_prize_for_tie(rows', Better(scores[i]) + 1, Better(scores[i]) + Equal(scores[i]))]
      /\ base' = base /\ strong' = strong /\ scores' = scores
  BY DEF PrizeRank
<1>2. Decks' = Decks /\ Pool' = Pool
  BY <1>1 DEF Decks, Pool
<1>3. rows' = distribute_prizes(Pool', Decks')
  BY <1>1, <1>2 DEF Pool
<1>4. prizes' = Given(rows)'
  BY <1>1 DEF Given, Better, Equal
<1>5. rows' # <<>>
  <2>1. PoolOf(Pool, Decks)
    BY <1>1, DecksListed
  <2>2. distribute_prizes(Pool, Decks) # <<>>
    BY <2>1, TableOf
  <2> QED
    BY <1>2, <1>3, <2>2
<1>6. /\ base \in Pools \cup {0} /\ strong \in Fields \cup {0}
      /\ scores \in Seq(Scores) /\ Len(scores) <= MaxListed
      /\ base # 0 /\ strong + MaxListed > 250 => base % 1000 = 0
  BY DEF PrizeInv
<1>7. /\ base' \in Pools \cup {0} /\ strong' \in Fields \cup {0}
      /\ scores' \in Seq(Scores) /\ Len(scores') <= MaxListed
      /\ base' # 0 /\ strong' + MaxListed > 250 => base' % 1000 = 0
      /\ base' # 0 /\ Decks' > 0
  BY <1>1, <1>2, <1>6
<1> QED
  BY <1>3, <1>4, <1>5, <1>7 DEF PrizeInv

\* Every step keeps it.
LEMMA PrizeInvNext == ASSUME PrizeInv, [PrizeNext]_prizeVars PROVE PrizeInv'
<1>1. CASE UNCHANGED prizeVars
  <2>1. base' = base /\ strong' = strong /\ scores' = scores /\ rows' = rows /\ prizes' = prizes
    BY <1>1 DEF prizeVars
  <2>2. Decks' = Decks /\ Pool' = Pool /\ Given(rows)' = Given(rows)
    BY <2>1 DEF Decks, Pool, Given, Better, Equal
  <2> QED
    BY <2>1, <2>2 DEF PrizeInv
<1>2. ASSUME NEW pool \in Pools, NEW field \in Fields, PrizeStart(pool, field) PROVE PrizeInv'
  BY <1>2, PrizeInvStart
<1>3. ASSUME NEW s \in Scores, PrizeJoin(s) PROVE PrizeInv'
  BY <1>3, PrizeInvJoin
<1>4. CASE PrizeRank
  BY <1>4, PrizeInvRank
<1> QED
  BY <1>1, <1>2, <1>3, <1>4 DEF PrizeNext

\* Before the rank nothing is paid.
LEMMA NothingPaid ==
  ASSUME rows = <<>>, prizes = <<>>
  PROVE  PoolKept /\ PaidInOrder /\ TiesPaidInFull
<1>1. DOMAIN rows = {} /\ DOMAIN prizes = {}
  OBVIOUS
<1>2. PoolKept
  BY DEF PoolKept
<1>3. PaidInOrder
  BY <1>1 DEF PaidInOrder
<1>4. TiesPaidInFull
  <2> DEFINE share == [i \in DOMAIN prizes |-> (840 * prizes[i].sum) \div prizes[i].count]
             parts == [i \in DOMAIN rows |-> rows[i].prize * Overlap(rows[i], strong + 1, Decks)]
  <2>1. DOMAIN share = {} /\ DOMAIN parts = {}
    BY <1>1
  <2>2. Paid(rows, strong + 1, Decks) = SumOf(parts)
    BY DEF Paid
  <2> HIDE DEF share, parts
  <2>3. ASSUME NEW v, DOMAIN v = {} PROVE SumOf(v) = 0
    <3>1. IsFiniteSet({}) /\ Whole(v, {})
      BY FS_EmptySet DEF Whole
    <3>2. SumOver(v, {}) = 0
      BY <3>1, SumOverAdds
    <3> QED
      BY <2>3, <3>2, SumOfIs
  <2>4. SumOf(share) = 0 /\ SumOf(parts) = 0
    BY <2>1, <2>3
  <2>5. SumOf(share) = 840 * Paid(rows, strong + 1, Decks)
    BY <2>2, <2>4
  <2> QED
    BY <2>5 DEF TiesPaidInFull, share
<1> QED
  BY <1>2, <1>3, <1>4

\* After it the table and the prizes are fair.
LEMMA RankFair ==
  ASSUME PrizeInv, rows # <<>>
  PROVE  /\ PoolKept /\ PaidInOrder /\ TiesPaidInFull
         /\ rows \in Seq(Run) /\ prizes \in Seq([sum : Nat, count : 1 .. MaxListed])
<1>1. /\ base # 0 /\ Decks > 0 /\ rows = distribute_prizes(Pool, Decks) /\ prizes = Given(rows)
  BY DEF PrizeInv
<1>2. /\ ListedDecks /\ Len(scores) <= MaxListed /\ Decks = strong + Len(scores)
      /\ Len(scores) \in Nat /\ PoolOf(Pool, Decks)
  BY <1>1, DecksListed
<1>3. PICK m \in Nat \ {0}, w \in Nat : /\ Tabled(rows, m, w) /\ rows \in Seq(Run)
                                        /\ Pool >= 320 => Descends(rows, m)
  BY <1>1, <1>2, TableOf
<1>4. PoolKept
  BY <1>1, <1>2, TablePays DEF PoolKept
<1>5. PaidInOrder
  <2> SUFFICES ASSUME Pool >= 320 PROVE PaidInOrder
    BY DEF PaidInOrder
  <2>1. m \in Nat /\ Descends(rows, m)
    BY <1>3
  <2>2. \A i, j \in DOMAIN Given(rows) :
          scores[i] >= scores[j] =>
            Given(rows)[i].sum * Given(rows)[j].count >= Given(rows)[j].sum * Given(rows)[i].count
    BY <1>2, <1>3, <2>1, ListedInOrder, Zenon
  <2> QED
    BY <1>1, <2>2, Zenon DEF PaidInOrder
<1>6. TiesPaidInFull
  <2>1. m \in Nat
    BY <1>3
  <2>2. SumOf(Shares(rows)) = 840 * Paid(rows, strong + 1, strong + Len(scores))
    BY <1>2, <1>3, <2>1, TiesInFull
  <2>3. Shares(rows) = [i \in DOMAIN prizes |-> (840 * prizes[i].sum) \div prizes[i].count]
    <3>1. \A x : x = Given(rows) => Shares(rows) = [i \in DOMAIN x |-> (840 * x[i].sum) \div x[i].count]
      BY Zenon DEF Shares
    <3>2. prizes = Given(rows)
      BY <1>1
    <3> QED
      BY <3>1, <3>2, SMT
  <2> QED
    BY <1>2, <2>2, <2>3, Zenon DEF TiesPaidInFull
<1>7. prizes \in Seq([sum : Nat, count : 1 .. MaxListed])
  <2>1. m \in Nat
    BY <1>3
  <2>2. DOMAIN scores = 1 .. Len(scores)
    BY <1>2 DEF ListedDecks
  <2>3. \A i \in DOMAIN scores : Given(rows)[i] \in [sum : Nat, count : 1 .. MaxListed]
    <3>1. \A i \in DOMAIN scores : Given(rows)[i] \in [sum : Nat, count : 1 .. Len(scores)]
      BY <1>2, <1>3, <2>1, GivenIs
    <3>2. MaxListed \in Nat
      BY PrizeAssumption
    <3>3. 1 .. Len(scores) \subseteq 1 .. MaxListed
      BY <1>2, <3>2
    <3> QED
      BY <3>1, <3>3
  <2>4. Given(rows) \in [1 .. Len(scores) -> [sum : Nat, count : 1 .. MaxListed]]
    <3>1. Given(rows) = [i \in DOMAIN scores |-> Given(rows)[i]]
      BY DEF Given
    <3> QED
      BY <2>2, <2>3, <3>1
  <2> DEFINE n == Len(scores)
             X == [sum : Nat, count : 1 .. MaxListed]
  <2>5. n \in Nat /\ prizes \in [1 .. n -> X]
    BY <1>1, <1>2, <2>4
  <2> HIDE DEF n, X
  <2>6. prizes \in Seq(X)
    BY <2>5
  <2> QED
    BY <2>6 DEF X
<1> QED
  BY <1>3, <1>4, <1>5, <1>6, <1>7

\* The invariant gives the property.
LEMMA PrizeInvFair == PrizeInv => PrizesFair
<1> SUFFICES ASSUME PrizeInv PROVE PrizesFair
  OBVIOUS
<1>1. /\ base \in Pools \cup {0} /\ strong \in Fields \cup {0}
      /\ scores \in Seq(Scores) /\ Len(scores) <= MaxListed
      /\ rows = <<>> => prizes = <<>>
  BY DEF PrizeInv
<1>2. CASE rows = <<>>
  <2>1. PoolKept /\ PaidInOrder /\ TiesPaidInFull
    BY <1>1, <1>2, NothingPaid
  <2>2. rows \in Seq(Run) /\ prizes \in Seq([sum : Nat, count : 1 .. MaxListed])
    BY <1>1, <1>2
  <2> QED
    BY <1>1, <2>1, <2>2 DEF PrizesFair, PrizeTypeOK, Run
<1>3. CASE rows # <<>>
  <2>1. /\ PoolKept /\ PaidInOrder /\ TiesPaidInFull
        /\ rows \in Seq(Run) /\ prizes \in Seq([sum : Nat, count : 1 .. MaxListed])
    BY <1>3, RankFair
  <2> QED
    BY <1>1, <2>1 DEF PrizesFair, PrizeTypeOK, Run
<1> QED
  BY <1>2, <1>3

\* prize_distribution.py and calculate_results: whatever the pool, the field and the scores,
\* a rank gives the pool away and no more than it, pays no deck more than a better one and
\* loses nothing to a tie.
THEOREM FairPrizes == PrizeSpec => []PrizesFair
<1>1. PrizeInit => PrizeInv
  BY PrizeInvInit
<1>2. PrizeInv /\ [PrizeNext]_prizeVars => PrizeInv'
  BY PrizeInvNext
<1>3. PrizeInv => PrizesFair
  BY PrizeInvFair
<1> QED
  BY <1>1, <1>2, <1>3, PTL DEF PrizeSpec

==============================================================================
