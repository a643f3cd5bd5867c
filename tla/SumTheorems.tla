----------------------------- MODULE SumTheorems -----------------------------
(* What the sum of a function over a finite set is, for the proofs whose      *)
(* invariants count: the intervals that queued frames stand for, the skips    *)
(* that cached frames note.  The sum is SumFunctionOnSet of the community     *)
(* modules, a fold that takes an element of its own choice at each step.      *)
EXTENDS Integers, Sequences, FiniteSets, Functions, FiniteSetTheorems,
        WellFoundedInduction, TLAPS

-----------------------------------------------------------------------------
(* Induction, stated with sets: no prover instantiates a theorem that has an  *)
(* operator for a parameter.                                                  *)

\* A set of naturals that is not empty has a least element.
LEMMA LeastOf ==
    ASSUME NEW T, T \subseteq Nat, T # {}
    PROVE  \E x \in T : \A y \in T : x <= y
<1> DEFINE R == OpToRel(<, Nat)
<1>1. IsWellFoundedOn(R, Nat)
  BY NatLessThanWellFounded
<1>2. \A x, y \in Nat : x < y => <<x, y>> \in R
  BY DEF OpToRel
<1> HIDE DEF R
<1>3. PICK x \in T : \A y \in T : ~ (<<y, x>> \in R)
  BY <1>1, WFMin
<1>4. ASSUME NEW y \in T  PROVE x <= y
  <2>1. x \in Nat /\ y \in Nat
    OBVIOUS
  <2>2. ~ (y < x)
    BY <1>2, <1>3, <2>1
  <2> QED  BY <2>1, <2>2
<1> QED  BY <1>4

\* The principle of induction.
LEMMA Induction ==
    ASSUME NEW P, 0 \in P, \A n \in Nat : n \in P => n + 1 \in P
    PROVE  Nat \subseteq P
<1> SUFFICES ASSUME Nat \ P # {} PROVE FALSE
  OBVIOUS
<1>1. PICK x \in Nat \ P : \A y \in Nat \ P : x <= y
  BY LeastOf
<1>2. x - 1 \in Nat
  BY <1>1
<1>3. x - 1 \in P
  BY <1>1, <1>2
<1> QED  BY <1>1, <1>2, <1>3

\* Induction over the subsets of a finite set: what holds of a set if it holds of
\* the set without any one of its elements, holds of them all.
LEMMA FiniteInduction ==
    ASSUME NEW S, IsFiniteSet(S), NEW P, {} \in P,
           \A s \in SUBSET S : s # {} /\ (\A x \in s : s \ {x} \in P) => s \in P
    PROVE  SUBSET S \subseteq P
<1> DEFINE Q == {n \in Nat : \A s \in SUBSET S : Cardinality(s) = n => s \in P}
<1>0. \A s \in SUBSET S : IsFiniteSet(s) /\ Cardinality(s) \in Nat
  BY FS_Subset, FS_CardinalityType
<1>1. 0 \in Q
  BY <1>0, FS_EmptySet
<1>2. ASSUME NEW n \in Nat, n \in Q  PROVE n + 1 \in Q
  <2> SUFFICES ASSUME NEW s \in SUBSET S, Cardinality(s) = n + 1  PROVE s \in P
    OBVIOUS
  <2>1. s # {}
    BY FS_EmptySet
  <2>2. ASSUME NEW x \in s  PROVE s \ {x} \in P
    <3>1. Cardinality(s \ {x}) = n
      BY <1>0, FS_RemoveElement
    <3>2. s \ {x} \in SUBSET S
      OBVIOUS
    <3> QED  BY <1>2, <3>1, <3>2
  <2> QED  BY <2>1, <2>2
<1> HIDE DEF Q
<1>3. Nat \subseteq Q
  BY <1>1, <1>2, Induction
<1> QED  BY <1>0, <1>3 DEF Q

-----------------------------------------------------------------------------
(* The recursion of the fold.                                                 *)

Chosen(s) == CHOOSE x \in s : TRUE

\* One step of the fold, given the sums of smaller sets.
SumStep(f, g, s) == IF s = {} THEN 0 ELSE f[Chosen(s)] + g[s \ {Chosen(s)}]

\* g is the sum of f over every subset of S.
IsSum(f, S, g) == g = [s \in SUBSET S |-> SumStep(f, g, s)]

\* The definition of a fold over a set, by its choice,
LEMMA SumUnfold ==
    ASSUME NEW f, NEW S
    PROVE  SumFunctionOnSet(f, S) = (CHOOSE g : IsSum(f, S, g))[S]
  BY Zenon DEF SumFunctionOnSet, FoldFunctionOnSet, MapThenFoldSet, IsSum, SumStep, Chosen

\* which there is.
LEMMA SumExists ==
    ASSUME NEW f, NEW S, IsFiniteSet(S)
    PROVE  \E g : IsSum(f, S, g)
<1> DEFINE Level(n) == {s \in SUBSET S : Cardinality(s) <= n}
           P == {n \in Nat : \E g : g = [s \in Level(n) |-> SumStep(f, g, s)]}
<1>0. \A s \in SUBSET S : IsFiniteSet(s) /\ Cardinality(s) \in Nat
  BY FS_Subset, FS_CardinalityType
<1>1. 0 \in P
  <2> DEFINE g == [s \in Level(0) |-> 0]
  <2>1. \A s \in Level(0) : s = {}
    BY <1>0, FS_EmptySet
  <2>2. \A s \in Level(0) : SumStep(f, g, s) = 0
    BY <2>1 DEF SumStep
  <2>3. g = [s \in Level(0) |-> SumStep(f, g, s)]
    BY <2>2
  <2> QED  BY <2>3
<1>2. ASSUME NEW n \in Nat, n \in P  PROVE n + 1 \in P
  <2>1. PICK g : g = [s \in Level(n) |-> SumStep(f, g, s)]
    BY <1>2
  <2> DEFINE h == [s \in Level(n + 1) |-> SumStep(f, g, s)]
  <2>2. ASSUME NEW s \in Level(n + 1)  PROVE SumStep(f, g, s) = SumStep(f, h, s)
    <3>1. CASE s = {}
      BY <3>1 DEF SumStep
    <3>2. CASE s # {}
      <4> DEFINE r == s \ {Chosen(s)}
      <4>1. Chosen(s) \in s
        BY <3>2 DEF Chosen
      <4>2. r \in SUBSET S /\ Cardinality(r) = Cardinality(s) - 1
        BY <1>0, <4>1, FS_RemoveElement
      <4>3. Cardinality(s) \in Nat /\ Cardinality(s) <= n + 1 /\ Cardinality(r) \in Nat
        BY <1>0, <4>2
      <4>4. Cardinality(r) <= n /\ Cardinality(r) <= n + 1
        BY <4>2, <4>3
      <4>5. r \in Level(n) /\ r \in Level(n + 1)
        BY <4>2, <4>4
      <4> HIDE DEF r, Level
      <4>6. g[r] = SumStep(f, g, r) /\ h[r] = SumStep(f, g, r)
        BY <2>1, <4>5
      <4> HIDE DEF h
      <4> QED  BY <3>2, <4>6 DEF SumStep, r
    <3> QED  BY <3>1, <3>2
  <2>3. h = [s \in Level(n + 1) |-> SumStep(f, h, s)]
    BY <2>2
  <2> HIDE DEF h, Level
  <2> QED  BY <2>3
<1> HIDE DEF P
<1>3. Nat \subseteq P
  BY <1>1, <1>2, Induction
<1> DEFINE n == Cardinality(S)
<1>4. n \in Nat /\ \A s \in SUBSET S : Cardinality(s) <= n
  BY FS_CardinalityType, FS_Subset
<1>5. Level(n) = SUBSET S
  BY <1>4
<1>6. \E g : g = [s \in Level(n) |-> SumStep(f, g, s)]
  BY <1>3, <1>4 DEF P
<1> HIDE DEF Level, n
<1> QED  BY <1>5, <1>6 DEF IsSum

\* Which set the recursion starts from makes no difference.
LEMMA SumUnique ==
    ASSUME NEW f, NEW S, IsFiniteSet(S), NEW T \in SUBSET S,
           NEW g, IsSum(f, S, g), NEW h, IsSum(f, T, h)
    PROVE  g[T] = h[T]
<1> DEFINE P == {s \in SUBSET T : g[s] = h[s]}
<1>1. IsFiniteSet(T)
  BY FS_Subset
<1>2. ASSUME NEW s \in SUBSET T  PROVE g[s] = SumStep(f, g, s) /\ h[s] = SumStep(f, h, s)
  BY DEF IsSum
<1>3. {} \in P
  BY <1>2 DEF SumStep
<1>4. ASSUME NEW s \in SUBSET T, s # {}, \A x \in s : s \ {x} \in P
      PROVE  s \in P
  <2>1. Chosen(s) \in s
    BY <1>4 DEF Chosen
  <2>2. g[s \ {Chosen(s)}] = h[s \ {Chosen(s)}]
    BY <1>4, <2>1
  <2> QED  BY <1>2, <1>4, <2>2 DEF SumStep
<1> HIDE DEF P
<1>5. SUBSET T \subseteq P
  BY <1>1, <1>3, <1>4, FiniteInduction
<1> QED  BY <1>5 DEF P

-----------------------------------------------------------------------------
(* The sum of a function over a finite set.                                   *)

\* The sum over a part of a set, from the sums of its parts.
LEMMA SumOverSubset ==
    ASSUME NEW f, NEW S, IsFiniteSet(S), NEW g, IsSum(f, S, g), NEW T \in SUBSET S
    PROVE  SumFunctionOnSet(f, T) = g[T]
<1>1. IsFiniteSet(T)
  BY FS_Subset
<1> DEFINE h == CHOOSE k : IsSum(f, T, k)
<1>2. IsSum(f, T, h)
  BY <1>1, SumExists
<1>3. SumFunctionOnSet(f, T) = h[T]
  BY SumUnfold
<1> HIDE DEF h
<1>4. g[T] = h[T]
  BY <1>2, SumUnique
<1> QED  BY <1>3, <1>4

\* The empty sum.
LEMMA SumOverNothing == ASSUME NEW f PROVE SumFunctionOnSet(f, {}) = 0
<1>1. IsFiniteSet({})
  BY FS_EmptySet
<1>2. PICK g : IsSum(f, {}, g)
  BY <1>1, SumExists
<1>3. SumFunctionOnSet(f, {}) = g[{}]
  BY <1>1, <1>2, SumOverSubset
<1>4. g[{}] = SumStep(f, g, {})
  BY <1>2 DEF IsSum
<1> QED  BY <1>3, <1>4 DEF SumStep

LEMMA SumOfChosen ==
    ASSUME NEW f, NEW S, IsFiniteSet(S), S # {}
    PROVE  /\ Chosen(S) \in S
           /\ SumFunctionOnSet(f, S) =
                f[Chosen(S)] + SumFunctionOnSet(f, S \ {Chosen(S)})
<1>1. PICK g : IsSum(f, S, g)
  BY SumExists
<1>2. Chosen(S) \in S
  BY DEF Chosen
<1>3. /\ SumFunctionOnSet(f, S) = g[S]
      /\ SumFunctionOnSet(f, S \ {Chosen(S)}) = g[S \ {Chosen(S)}]
  BY <1>1, SumOverSubset
<1>4. g[S] = SumStep(f, g, S)
  BY <1>1 DEF IsSum
<1> QED  BY <1>2, <1>3, <1>4 DEF SumStep

\* A sum of integers is one, a sum of naturals is one.
LEMMA SumType ==
    ASSUME NEW f, NEW S, IsFiniteSet(S), NEW D \in {Int, Nat}, \A x \in S : f[x] \in D
    PROVE  SumFunctionOnSet(f, S) \in D
<1> DEFINE P == {s \in SUBSET S : SumFunctionOnSet(f, s) \in D}
<1>1. {} \in P
  BY SumOverNothing
<1>2. ASSUME NEW s \in SUBSET S, s # {}, \A x \in s : s \ {x} \in P
      PROVE  s \in P
  <2>1. IsFiniteSet(s)
    BY FS_Subset
  <2>2. /\ Chosen(s) \in s
        /\ SumFunctionOnSet(f, s) = f[Chosen(s)] + SumFunctionOnSet(f, s \ {Chosen(s)})
    BY <1>2, <2>1, SumOfChosen
  <2>3. SumFunctionOnSet(f, s \ {Chosen(s)}) \in D /\ f[Chosen(s)] \in D
    BY <1>2, <2>2
  <2> QED  BY <2>2, <2>3
<1> HIDE DEF P
<1>3. SUBSET S \subseteq P
  BY <1>1, <1>2, FiniteInduction
<1> QED  BY <1>3 DEF P

\* Any element may be taken out first.
LEMMA SumWithout ==
    ASSUME NEW f, NEW S, IsFiniteSet(S), \A x \in S : f[x] \in Int, NEW x \in S
    PROVE  SumFunctionOnSet(f, S) = f[x] + SumFunctionOnSet(f, S \ {x})
<1> DEFINE Total(s) == SumFunctionOnSet(f, s)
           P == {s \in SUBSET S : \A y \in s : Total(s) = f[y] + Total(s \ {y})}
<1>0. \A s \in SUBSET S : Total(s) \in Int
  BY FS_Subset, SumType
<1>1. {} \in P
  OBVIOUS
<1>2. ASSUME NEW s \in SUBSET S, s # {}, \A y \in s : s \ {y} \in P
      PROVE  s \in P
  <2> DEFINE c == Chosen(s)
  <2>1. IsFiniteSet(s)
    BY FS_Subset
  <2>2. c \in s /\ Total(s) = f[c] + Total(s \ {c})
    BY <1>2, <2>1, SumOfChosen
  <2> HIDE DEF c, Total
  <2>3. ASSUME NEW y \in s, y # c  PROVE Total(s) = f[y] + Total(s \ {y})
    <3> DEFINE r == (s \ {c}) \ {y}
    <3>1. y \in s \ {c} /\ c \in s \ {y} /\ (s \ {y}) \ {c} = r
      BY <2>2, <2>3
    <3>2. Total(s \ {c}) = f[y] + Total(r)
      BY <1>2, <2>2, <3>1
    <3>3. Total(s \ {y}) = f[c] + Total(r)
      BY <1>2, <3>1
    <3>4. Total(r) \in Int /\ f[y] \in Int /\ f[c] \in Int
      BY <1>0, <2>2
    <3> HIDE DEF r
    <3> QED  BY <2>2, <3>2, <3>3, <3>4
  <2>4. \A y \in s : Total(s) = f[y] + Total(s \ {y})
    BY <2>2, <2>3
  <2> QED  BY <2>4
<1> HIDE DEF P
<1>3. SUBSET S \subseteq P
  BY <1>1, <1>2, FiniteInduction
<1> QED  BY <1>3 DEF P

\* One more element.
LEMMA SumWith ==
    ASSUME NEW f, NEW S, IsFiniteSet(S), NEW x, x \notin S,
           \A y \in S \cup {x} : f[y] \in Int
    PROVE  SumFunctionOnSet(f, S \cup {x}) = f[x] + SumFunctionOnSet(f, S)
<1>1. IsFiniteSet(S \cup {x}) /\ (S \cup {x}) \ {x} = S
  BY FS_AddElement
<1> QED  BY <1>1, SumWithout

\* The sum depends on the values summed alone.
LEMMA SumAgree ==
    ASSUME NEW f, NEW g, NEW S, IsFiniteSet(S), \A x \in S : f[x] = g[x]
    PROVE  SumFunctionOnSet(f, S) = SumFunctionOnSet(g, S)
<1> DEFINE P == {s \in SUBSET S : SumFunctionOnSet(f, s) = SumFunctionOnSet(g, s)}
<1>1. {} \in P
  BY SumOverNothing
<1>2. ASSUME NEW s \in SUBSET S, s # {}, \A x \in s : s \ {x} \in P
      PROVE  s \in P
  <2>1. IsFiniteSet(s)
    BY FS_Subset
  <2> DEFINE c == Chosen(s)
  <2>2. /\ c \in s
        /\ SumFunctionOnSet(f, s) = f[c] + SumFunctionOnSet(f, s \ {c})
        /\ SumFunctionOnSet(g, s) = g[c] + SumFunctionOnSet(g, s \ {c})
    BY <1>2, <2>1, SumOfChosen
  <2> HIDE DEF c
  <2>3. SumFunctionOnSet(f, s \ {c}) = SumFunctionOnSet(g, s \ {c})
    BY <1>2, <2>2
  <2> QED  BY <2>2, <2>3
<1> HIDE DEF P
<1>3. SUBSET S \subseteq P
  BY <1>1, <1>2, FiniteInduction
<1> QED  BY <1>3 DEF P

\* A sum of zeros.
LEMMA SumOfZeros ==
    ASSUME NEW f, NEW S, IsFiniteSet(S), \A x \in S : f[x] = 0
    PROVE  SumFunctionOnSet(f, S) = 0
<1> DEFINE P == {s \in SUBSET S : SumFunctionOnSet(f, s) = 0}
<1>1. {} \in P
  BY SumOverNothing
<1>2. ASSUME NEW s \in SUBSET S, s # {}, \A x \in s : s \ {x} \in P
      PROVE  s \in P
  <2>1. IsFiniteSet(s)
    BY FS_Subset
  <2>2. /\ Chosen(s) \in s
        /\ SumFunctionOnSet(f, s) = f[Chosen(s)] + SumFunctionOnSet(f, s \ {Chosen(s)})
    BY <1>2, <2>1, SumOfChosen
  <2>3. SumFunctionOnSet(f, s \ {Chosen(s)}) = 0 /\ f[Chosen(s)] = 0
    BY <1>2, <2>2
  <2> QED  BY <2>2, <2>3
<1> HIDE DEF P
<1>3. SUBSET S \subseteq P
  BY <1>1, <1>2, FiniteInduction
<1> QED  BY <1>3 DEF P

\* One value changed.
LEMMA SumChanged ==
    ASSUME NEW f, NEW g, NEW S, IsFiniteSet(S), NEW x \in S,
           \A y \in S : f[y] \in Int, g[x] \in Int, \A y \in S \ {x} : g[y] = f[y]
    PROVE  SumFunctionOnSet(g, S) = SumFunctionOnSet(f, S) + g[x] - f[x]
<1>1. IsFiniteSet(S \ {x})
  BY FS_Subset
<1>2. \A y \in S : g[y] \in Int
  OBVIOUS
<1>3. SumFunctionOnSet(g, S \ {x}) = SumFunctionOnSet(f, S \ {x})
  BY <1>1, SumAgree
<1>4. SumFunctionOnSet(f, S) = f[x] + SumFunctionOnSet(f, S \ {x})
  BY SumWithout
<1>5. SumFunctionOnSet(g, S) = g[x] + SumFunctionOnSet(g, S \ {x})
  BY <1>2, SumWithout
<1>6. SumFunctionOnSet(f, S \ {x}) \in Int /\ f[x] \in Int /\ g[x] \in Int
  BY <1>1, SumType
<1> QED  BY <1>3, <1>4, <1>5, <1>6

\* A natural summand is at most the sum.
LEMMA SumAtLeast ==
    ASSUME NEW f, NEW S, IsFiniteSet(S), \A x \in S : f[x] \in Nat, NEW x \in S
    PROVE  SumFunctionOnSet(f, S) >= f[x]
<1>1. SumFunctionOnSet(f, S) = f[x] + SumFunctionOnSet(f, S \ {x})
  BY SumWithout
<1>2. IsFiniteSet(S \ {x}) /\ \A y \in S \ {x} : f[y] \in Nat
  BY FS_Subset
<1>3. SumFunctionOnSet(f, S \ {x}) \in Nat
  BY <1>2, SumType
<1> QED  BY <1>1, <1>3

-----------------------------------------------------------------------------
(* The sum of a sequence of numbers, as its ends change.                      *)

\* Moving the summands down by one.
LEMMA SumShifted ==
    ASSUME NEW f, NEW g, NEW n \in Nat, \A i \in 1..n + 1 : f[i] \in Int,
           \A i \in 1..n : g[i] = f[i + 1]
    PROVE  SumFunctionOnSet(f, 1..n + 1) = f[1] + SumFunctionOnSet(g, 1..n)
<1> DEFINE P == {k \in Nat : k <= n => SumFunctionOnSet(f, 1..k + 1)
                                        = f[1] + SumFunctionOnSet(g, 1..k)}
<1>1. 0 \in P
  <2>1. 1..0 + 1 = {} \cup {1} /\ 1..0 = {} /\ f[1] \in Int
    OBVIOUS
  <2>2. SumFunctionOnSet(f, {} \cup {1}) = f[1] + SumFunctionOnSet(f, {})
    BY <2>1, FS_EmptySet, SumWith
  <2> QED  BY <2>1, <2>2, SumOverNothing
<1>2. ASSUME NEW k \in Nat, k \in P  PROVE k + 1 \in P
  <2> SUFFICES ASSUME k + 1 <= n
               PROVE  SumFunctionOnSet(f, 1..k + 1 + 1)
                        = f[1] + SumFunctionOnSet(g, 1..k + 1)
    OBVIOUS
  <2>1. /\ 1..k + 1 + 1 = (1..k + 1) \cup {k + 2} /\ k + 2 \notin 1..k + 1
        /\ 1..k + 1 = (1..k) \cup {k + 1} /\ k + 1 \notin 1..k
    OBVIOUS
  <2>2. IsFiniteSet(1..k) /\ IsFiniteSet(1..k + 1)
    BY FS_Interval
  <2>3. /\ \A i \in (1..k + 1) \cup {k + 2} : f[i] \in Int
        /\ \A i \in (1..k) \cup {k + 1} : g[i] \in Int
    OBVIOUS
  <2>4. SumFunctionOnSet(f, 1..k + 1 + 1) = f[k + 2] + SumFunctionOnSet(f, 1..k + 1)
    <3>1. SumFunctionOnSet(f, (1..k + 1) \cup {k + 2})
            = f[k + 2] + SumFunctionOnSet(f, 1..k + 1)
      BY <2>1, <2>2, <2>3, SumWith, Zenon
    <3> QED  BY <2>1, <3>1, Zenon
  <2>5. SumFunctionOnSet(g, 1..k + 1) = g[k + 1] + SumFunctionOnSet(g, 1..k)
    <3>1. SumFunctionOnSet(g, (1..k) \cup {k + 1})
            = g[k + 1] + SumFunctionOnSet(g, 1..k)
      BY <2>1, <2>2, <2>3, SumWith, Zenon
    <3> QED  BY <2>1, <3>1, Zenon
  <2>6. SumFunctionOnSet(f, 1..k + 1) = f[1] + SumFunctionOnSet(g, 1..k)
    BY <1>2
  <2>7. /\ SumFunctionOnSet(g, 1..k) \in Int /\ f[1] \in Int
        /\ g[k + 1] = f[k + 2] /\ f[k + 2] \in Int
    <3>1. \A i \in 1..k : g[i] \in Int
      BY <2>3
    <3>2. SumFunctionOnSet(g, 1..k) \in Int
      BY <2>2, <3>1, SumType
    <3>3. k + 1 + 1 = k + 2
      OBVIOUS
    <3>4. k + 1 \in 1..n /\ k + 2 \in 1..n + 1 /\ 1 \in 1..n + 1
      OBVIOUS
    <3> QED  BY <3>2, <3>3, <3>4
  <2> QED  BY <2>4, <2>5, <2>6, <2>7
<1> HIDE DEF P
<1>3. Nat \subseteq P
  BY <1>1, <1>2, Induction
<1> QED  BY <1>3 DEF P
=============================================================================
