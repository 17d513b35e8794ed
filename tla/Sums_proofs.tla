----------------------------- MODULE Sums_proofs -----------------------------
(***************************************************************************)
(* What SumFunctionOnSet computes over any finite set, and Max and Min.     *)
(***************************************************************************)
EXTENDS Integers, FiniteSets, FiniteSetsExt, FiniteSetTheorems, WellFoundedInduction, TLAPS

-----------------------------------------------------------------------------
(* Induction over sets that are given as such.                             *)

LEMMA NatInductionSet ==
  ASSUME NEW T, 0 \in T, \A n \in Nat : n \in T => n + 1 \in T
  PROVE  Nat \subseteq T
<1> DEFINE Missing == Nat \ T
<1> SUFFICES ASSUME Missing # {} PROVE FALSE
  OBVIOUS
<1>1. Missing \subseteq Nat
  OBVIOUS
<1>2. PICK n \in Missing : \A m \in Missing : ~ (<<m, n>> \in OpToRel(<, Nat))
  <2> HIDE DEF Missing
  <2> QED BY <1>1, NatLessThanWellFounded, WFMin
<1>3. n \in Nat /\ n # 0 /\ n - 1 \in Nat /\ n - 1 < n
  OBVIOUS
<1>4. n - 1 \in T
  BY <1>2, <1>3 DEF OpToRel
<1>5. (n - 1) + 1 \in T
  BY <1>3, <1>4
<1> QED
  BY <1>3, <1>5

\* Finite sets are built up from the empty one.
LEMMA FiniteInductionSet ==
  ASSUME NEW S, IsFiniteSet(S), NEW C, {} \in C,
         \A s \in SUBSET S, x \in S : s \in C /\ x \notin s => s \union {x} \in C
  PROVE  S \in C
<1> DEFINE T == {n \in Nat : \A s \in SUBSET S : Cardinality(s) = n => s \in C}
<1>1. ASSUME NEW s \in SUBSET S PROVE IsFiniteSet(s) /\ Cardinality(s) \in Nat
  BY FS_Subset, FS_CardinalityType
<1>2. 0 \in T
  BY <1>1, FS_EmptySet
<1>3. ASSUME NEW n \in Nat, n \in T PROVE n + 1 \in T
  <2> SUFFICES ASSUME NEW s \in SUBSET S, Cardinality(s) = n + 1 PROVE s \in C
    OBVIOUS
  <2>1. s # {}
    BY <1>3, FS_EmptySet
  <2>2. PICK x \in s : TRUE
    BY <2>1
  <2>3. Cardinality(s \ {x}) = n
    <3>1. Cardinality(s \ {x}) = Cardinality(s) - 1
      BY <1>1, <2>2, FS_RemoveElement
    <3> QED
      BY <1>3, <3>1
  <2>4. s \ {x} \in C
    BY <1>3, <2>3
  <2>5. (s \ {x}) \union {x} = s
    BY <2>2
  <2> QED
    BY <2>2, <2>4, <2>5
<1>4. Nat \subseteq T
  <2> HIDE DEF T
  <2> QED BY <1>2, <1>3, NatInductionSet
<1> QED
  BY <1>1, <1>4

\* The values a function takes on a finite set.
LEMMA FiniteImage ==
  ASSUME NEW S, IsFiniteSet(S), NEW f
  PROVE  IsFiniteSet({f[x] : x \in S})
<1> DEFINE Image(R) == {f[x] : x \in R}
           C == {R \in SUBSET S : IsFiniteSet(Image(R))}
<1>1. {} \in C
  <2>1. Image({}) = {}
    OBVIOUS
  <2>2. IsFiniteSet(Image({}))
    BY <2>1, FS_EmptySet
  <2> QED
    BY <2>2
<1>2. ASSUME NEW s \in SUBSET S, NEW x \in S, s \in C, x \notin s PROVE s \union {x} \in C
  <2>1. Image(s \union {x}) = Image(s) \union {f[x]}
    OBVIOUS
  <2>2. IsFiniteSet(Image(s) \union {f[x]})
    <3>1. IsFiniteSet(Image(s))
      BY <1>2
    <3> HIDE DEF Image
    <3> QED BY <3>1, FS_AddElement
  <2>3. IsFiniteSet(Image(s \union {x}))
    BY <2>1, <2>2, Zenon
  <2> QED
    BY <2>3
<1>3. S \in C
  <2> HIDE DEF C
  <2> QED BY <1>1, <1>2, FiniteInductionSet
<1> QED
  BY <1>3

-----------------------------------------------------------------------------
(* The recursive function behind the sum.                                  *)

Picked(s) == CHOOSE x \in s : TRUE

SumStep(g, f, s) == IF s = {} THEN 0 ELSE f[Picked(s)] + g[s \ {Picked(s)}]

IsSum(g, f, S) == g = [s \in SUBSET S |-> SumStep(g, f, s)]

LEMMA PickedIsMember ==
  ASSUME NEW s, s # {}
  PROVE  Picked(s) \in s
  BY DEF Picked

\* The function exists: it is defined on the sets of each size in turn.
LEMMA SumExists ==
  ASSUME NEW S, IsFiniteSet(S), NEW f
  PROVE  \E g : IsSum(g, f, S)
<1> DEFINE Small(n) == {s \in SUBSET S : Cardinality(s) <= n}
           T == {n \in Nat : \E g : g = [s \in Small(n) |-> SumStep(g, f, s)]}
<1>1. ASSUME NEW s \in SUBSET S
      PROVE  IsFiniteSet(s) /\ Cardinality(s) \in Nat /\ Cardinality(s) <= Cardinality(S)
  BY FS_Subset, FS_CardinalityType
<1>2. 0 \in T
  <2>1. ASSUME NEW s \in Small(0) PROVE s = {}
    BY <1>1, FS_EmptySet
  <2>2. [s \in Small(0) |-> 0] = [s \in Small(0) |-> SumStep([t \in Small(0) |-> 0], f, s)]
    BY <2>1 DEF SumStep
  <2> QED
    BY <2>2
<1>3. ASSUME NEW n \in Nat, n \in T PROVE n + 1 \in T
  <2>1. PICK g : g = [s \in Small(n) |-> SumStep(g, f, s)]
    BY <1>3
  <2> DEFINE h == [s \in Small(n + 1) |-> SumStep(g, f, s)]
  <2>2. ASSUME NEW s \in Small(n + 1), s # {}
        PROVE  g[s \ {Picked(s)}] = h[s \ {Picked(s)}]
    <3>1. Picked(s) \in s
      BY <2>2, PickedIsMember
    <3>2. Cardinality(s \ {Picked(s)}) = Cardinality(s) - 1
      BY <1>1, <3>1, FS_RemoveElement
    <3>3. s \ {Picked(s)} \in Small(n) /\ s \ {Picked(s)} \in Small(n + 1)
      BY <1>1, <3>2
    <3> QED
      BY <2>1, <3>3
  <2>3. ASSUME NEW s \in Small(n + 1)
        PROVE  SumStep(g, f, s) = SumStep(h, f, s)
    BY <2>2 DEF SumStep
  <2>4. h = [s \in Small(n + 1) |-> SumStep(h, f, s)]
    BY <2>3
  <2>6. n + 1 \in Nat
    BY <1>3
  <2>5. \E k : k = [s \in Small(n + 1) |-> SumStep(k, f, s)]
    <3> HIDE DEF h
    <3> QED BY <2>4
  <2> QED
    BY <2>5, <2>6, Zenon
<1>4. Nat \subseteq T
  <2> HIDE DEF T
  <2> QED BY <1>2, <1>3, NatInductionSet
<1>5. Cardinality(S) \in Nat /\ Small(Cardinality(S)) = SUBSET S
  BY <1>1, FS_CardinalityType
<1>6. PICK g : g = [s \in Small(Cardinality(S)) |-> SumStep(g, f, s)]
  BY <1>4, <1>5
<1> QED
  BY <1>5, <1>6, Zenon DEF IsSum

\* ... and is what the sum takes its value from.
LEMMA SumUnfolds ==
  ASSUME NEW S, IsFiniteSet(S), NEW f
  PROVE  \E g : IsSum(g, f, S) /\ SumFunctionOnSet(f, S) = g[S]
<1> DEFINE g == CHOOSE h : IsSum(h, f, S)
<1>1. IsSum(g, f, S)
  <2> HIDE DEF g
  <2>1. \E h : IsSum(h, f, S)
    BY SumExists
  <2> QED
    BY <2>1, Zenon DEF g
<1>2. SumFunctionOnSet(f, S) = g[S]
  BY Zenon DEF SumFunctionOnSet, FoldFunctionOnSet, MapThenFoldSet, IsSum, SumStep, Picked
<1> QED
  BY <1>1, <1>2

\* Two such functions agree where the functions they sum agree.
LEMMA SumUnique ==
  ASSUME NEW S, NEW R, IsFiniteSet(S), NEW f, NEW e, NEW g, NEW h,
         IsSum(g, f, S), IsSum(h, e, R),
         NEW U \in SUBSET S, U \subseteq R, \A x \in U : f[x] = e[x]
  PROVE  g[U] = h[U]
<1> DEFINE T == {n \in Nat : \A s \in SUBSET U : Cardinality(s) = n => g[s] = h[s]}
<1>1. ASSUME NEW s \in SUBSET U PROVE IsFiniteSet(s) /\ Cardinality(s) \in Nat
  BY FS_Subset, FS_CardinalityType
<1>2. ASSUME NEW s \in SUBSET U PROVE g[s] = SumStep(g, f, s) /\ h[s] = SumStep(h, e, s)
  BY DEF IsSum
<1>3. 0 \in T
  <2>1. ASSUME NEW s \in SUBSET U, Cardinality(s) = 0 PROVE s = {}
    BY <1>1, <2>1, FS_EmptySet
  <2> QED
    BY <1>2, <2>1 DEF SumStep
<1>4. ASSUME NEW n \in Nat, n \in T PROVE n + 1 \in T
  <2> SUFFICES ASSUME NEW s \in SUBSET U, Cardinality(s) = n + 1 PROVE g[s] = h[s]
    BY <1>4
  <2>1. s # {}
    BY <1>1, <1>4, FS_EmptySet
  <2>2. Picked(s) \in s
    BY <2>1, PickedIsMember
  <2>3. Cardinality(s \ {Picked(s)}) = Cardinality(s) - 1
    BY <1>1, <2>2, FS_RemoveElement
  <2>4. g[s \ {Picked(s)}] = h[s \ {Picked(s)}]
    BY <1>4, <2>3
  <2> QED
    BY <1>2, <2>1, <2>2, <2>4 DEF SumStep
<1>5. Nat \subseteq T
  <2> HIDE DEF T
  <2> QED BY <1>3, <1>4, NatInductionSet
<1>6. IsFiniteSet(U) /\ Cardinality(U) \in Nat
  BY <1>1
<1> QED
  BY <1>5, <1>6

-----------------------------------------------------------------------------
(* Sums of natural numbers.                                                *)

LEMMA SumEmpty ==
  ASSUME NEW f
  PROVE  SumFunctionOnSet(f, {}) = 0
<1>1. PICK g : IsSum(g, f, {}) /\ SumFunctionOnSet(f, {}) = g[{}]
  BY FS_EmptySet, SumUnfolds
<1> QED
  BY <1>1 DEF IsSum, SumStep

\* Only the values on the set matter.
LEMMA SumSame ==
  ASSUME NEW S, IsFiniteSet(S), NEW f, NEW e, \A x \in S : f[x] = e[x]
  PROVE  SumFunctionOnSet(f, S) = SumFunctionOnSet(e, S)
<1>1. PICK g : IsSum(g, f, S) /\ SumFunctionOnSet(f, S) = g[S]
  BY SumUnfolds
<1>2. PICK h : IsSum(h, e, S) /\ SumFunctionOnSet(e, S) = h[S]
  BY SumUnfolds
<1>3. g[S] = h[S]
  <2> DEFINE U == S
  <2>1. U \in SUBSET S /\ U \subseteq S /\ \A x \in U : f[x] = e[x]
    OBVIOUS
  <2> HIDE DEF U
  <2>2. g[U] = h[U]
    BY <1>1, <1>2, <2>1, SumUnique
  <2> QED
    BY <2>2 DEF U
<1> QED
  BY <1>1, <1>2, <1>3

\* The first step of the recursion.
LEMMA SumPicked ==
  ASSUME NEW S, IsFiniteSet(S), S # {}, NEW f
  PROVE  SumFunctionOnSet(f, S) = f[Picked(S)] + SumFunctionOnSet(f, S \ {Picked(S)})
<1>1. PICK g : IsSum(g, f, S) /\ SumFunctionOnSet(f, S) = g[S]
  BY SumUnfolds
<1>2. IsFiniteSet(S \ {Picked(S)})
  BY FS_RemoveElement
<1>3. PICK h : /\ IsSum(h, f, S \ {Picked(S)})
               /\ SumFunctionOnSet(f, S \ {Picked(S)}) = h[S \ {Picked(S)}]
  BY <1>2, SumUnfolds
<1>4. h[S \ {Picked(S)}] = g[S \ {Picked(S)}]
  <2> DEFINE R == S \ {Picked(S)}
  <2>1. R \in SUBSET R /\ R \subseteq S /\ IsFiniteSet(R) /\ IsSum(h, f, R)
    BY <1>2, <1>3
  <2> HIDE DEF R
  <2>2. h[R] = g[R]
    BY <1>1, <2>1, SumUnique
  <2> QED
    BY <2>2 DEF R
<1>5. g[S] = f[Picked(S)] + g[S \ {Picked(S)}]
  BY <1>1 DEF IsSum, SumStep
<1> QED
  BY <1>1, <1>3, <1>4, <1>5

LEMMA SumIsNat ==
  ASSUME NEW S, IsFiniteSet(S), NEW f, \A x \in S : f[x] \in Nat
  PROVE  SumFunctionOnSet(f, S) \in Nat
<1> DEFINE T == {n \in Nat : \A s \in SUBSET S :
                   Cardinality(s) = n => SumFunctionOnSet(f, s) \in Nat}
<1>1. ASSUME NEW s \in SUBSET S PROVE IsFiniteSet(s) /\ Cardinality(s) \in Nat
  BY FS_Subset, FS_CardinalityType
<1>2. 0 \in T
  BY <1>1, FS_EmptySet, SumEmpty
<1>3. ASSUME NEW n \in Nat, n \in T PROVE n + 1 \in T
  <2> SUFFICES ASSUME NEW s \in SUBSET S, Cardinality(s) = n + 1
               PROVE  SumFunctionOnSet(f, s) \in Nat
    BY <1>3
  <2>1. s # {} /\ IsFiniteSet(s)
    BY <1>1, <1>3, FS_EmptySet
  <2>2. Picked(s) \in s
    BY <2>1, PickedIsMember
  <2>3. Cardinality(s \ {Picked(s)}) = Cardinality(s) - 1
    BY <1>1, <2>2, FS_RemoveElement
  <2>4. SumFunctionOnSet(f, s \ {Picked(s)}) \in Nat
    BY <1>3, <2>3
  <2>5. f[Picked(s)] \in Nat
    BY <2>2
  <2> QED
    BY <2>1, <2>4, <2>5, SumPicked
<1>4. Nat \subseteq T
  <2> HIDE DEF T
  <2> QED BY <1>2, <1>3, NatInductionSet
<1> QED
  BY <1>1, <1>4

\* The order in which the elements are taken does not matter.
LEMMA SumRemove ==
  ASSUME NEW S, IsFiniteSet(S), NEW f, \A x \in S : f[x] \in Nat, NEW x \in S
  PROVE  SumFunctionOnSet(f, S) = f[x] + SumFunctionOnSet(f, S \ {x})
<1> DEFINE T == {n \in Nat : \A s \in SUBSET S : Cardinality(s) = n =>
                   \A y \in s : SumFunctionOnSet(f, s) = f[y] + SumFunctionOnSet(f, s \ {y})}
<1>1. ASSUME NEW s \in SUBSET S
      PROVE  IsFiniteSet(s) /\ Cardinality(s) \in Nat /\ SumFunctionOnSet(f, s) \in Nat
  <2>1. IsFiniteSet(s) /\ Cardinality(s) \in Nat
    BY FS_Subset, FS_CardinalityType
  <2> QED
    BY <2>1, SumIsNat
<1>2. 0 \in T
  BY <1>1, FS_EmptySet
<1>3. ASSUME NEW n \in Nat, n \in T PROVE n + 1 \in T
  <2> SUFFICES ASSUME NEW s \in SUBSET S, Cardinality(s) = n + 1, NEW y \in s
               PROVE  SumFunctionOnSet(f, s) = f[y] + SumFunctionOnSet(f, s \ {y})
    BY <1>3
  <2>1. s # {} /\ IsFiniteSet(s)
    BY <1>1
  <2> DEFINE p == Picked(s)
  <2>2. p \in s
    BY <2>1, PickedIsMember
  <2> HIDE DEF p
  <2>3. SumFunctionOnSet(f, s) = f[p] + SumFunctionOnSet(f, s \ {p})
    BY <2>1, SumPicked DEF p
  <2>4. CASE p = y
    BY <2>3, <2>4
  <2>5. CASE p # y
    <3>1. Cardinality(s \ {p}) = Cardinality(s) - 1 /\ Cardinality(s \ {y}) = Cardinality(s) - 1
      BY <1>1, <2>2, FS_RemoveElement
    <3>2. SumFunctionOnSet(f, s \ {p}) = f[y] + SumFunctionOnSet(f, (s \ {p}) \ {y})
      <4>1. s \ {p} \in SUBSET S /\ Cardinality(s \ {p}) = n /\ y \in s \ {p}
        BY <1>3, <2>5, <3>1
      <4> QED
        BY <1>3, <4>1
    <3>3. SumFunctionOnSet(f, s \ {y}) = f[p] + SumFunctionOnSet(f, (s \ {y}) \ {p})
      <4>1. s \ {y} \in SUBSET S /\ Cardinality(s \ {y}) = n /\ p \in s \ {y}
        BY <1>3, <2>2, <2>5, <3>1
      <4> QED
        BY <1>3, <4>1
    <3>4. (s \ {p}) \ {y} = (s \ {y}) \ {p}
      OBVIOUS
    <3>5. f[p] \in Nat /\ f[y] \in Nat /\ SumFunctionOnSet(f, (s \ {y}) \ {p}) \in Nat
      BY <1>1, <2>2
    <3> QED
      BY <2>3, <3>2, <3>3, <3>4, <3>5
  <2> QED
    BY <2>4, <2>5
<1>4. Nat \subseteq T
  <2> HIDE DEF T
  <2> QED BY <1>2, <1>3, NatInductionSet
<1>5. S \in SUBSET S /\ Cardinality(S) \in T
  BY <1>1, <1>4
<1> QED
  BY <1>5

LEMMA SumAdd ==
  ASSUME NEW S, IsFiniteSet(S), NEW f, \A y \in S : f[y] \in Nat,
         NEW x, x \notin S, f[x] \in Nat
  PROVE  SumFunctionOnSet(f, S \union {x}) = f[x] + SumFunctionOnSet(f, S)
<1>1. IsFiniteSet(S \union {x}) /\ (S \union {x}) \ {x} = S
  BY FS_AddElement
<1>2. \A y \in S \union {x} : f[y] \in Nat
  OBVIOUS
<1> DEFINE R == S \union {x}
<1>3. x \in R
  OBVIOUS
<1> HIDE DEF R
<1>4. SumFunctionOnSet(f, R) = f[x] + SumFunctionOnSet(f, R \ {x})
  BY <1>1, <1>2, <1>3, SumRemove DEF R
<1> QED
  BY <1>1, <1>4 DEF R

LEMMA SumMonotone ==
  ASSUME NEW S, IsFiniteSet(S), NEW f, NEW e,
         \A x \in S : f[x] \in Nat /\ e[x] \in Nat /\ f[x] <= e[x]
  PROVE  SumFunctionOnSet(f, S) <= SumFunctionOnSet(e, S)
<1> DEFINE C == {s \in SUBSET S : SumFunctionOnSet(f, s) <= SumFunctionOnSet(e, s)}
<1>1. {} \in C
  BY SumEmpty
<1>2. ASSUME NEW s \in SUBSET S, NEW x \in S, s \in C, x \notin s
      PROVE  s \union {x} \in C
  <2>1. IsFiniteSet(s)
    BY FS_Subset
  <2>2. SumFunctionOnSet(f, s \union {x}) = f[x] + SumFunctionOnSet(f, s)
    BY <1>2, <2>1, SumAdd
  <2>3. SumFunctionOnSet(e, s \union {x}) = e[x] + SumFunctionOnSet(e, s)
    BY <1>2, <2>1, SumAdd
  <2>4. SumFunctionOnSet(f, s) \in Nat /\ SumFunctionOnSet(e, s) \in Nat
    BY <2>1, SumIsNat
  <2> QED
    BY <1>2, <2>2, <2>3, <2>4
<1>3. S \in C
  <2> HIDE DEF C
  <2> QED BY <1>1, <1>2, FiniteInductionSet
<1> QED
  BY <1>3

\* A sum is at least each of its terms, ...
LEMMA SumAtLeast ==
  ASSUME NEW S, IsFiniteSet(S), NEW f, \A y \in S : f[y] \in Nat, NEW x \in S
  PROVE  f[x] <= SumFunctionOnSet(f, S)
<1>1. SumFunctionOnSet(f, S) = f[x] + SumFunctionOnSet(f, S \ {x})
  BY SumRemove
<1>2. IsFiniteSet(S \ {x})
  BY FS_RemoveElement
<1>3. SumFunctionOnSet(f, S \ {x}) \in Nat
  BY <1>2, SumIsNat
<1>4. f[x] \in Nat
  OBVIOUS
<1> QED
  BY <1>1, <1>3, <1>4

\* ... at most as many times a bound as there are terms, ...
LEMMA SumAtMost ==
  ASSUME NEW S, IsFiniteSet(S), NEW f, NEW b \in Nat,
         \A x \in S : f[x] \in Nat /\ f[x] <= b
  PROVE  SumFunctionOnSet(f, S) <= Cardinality(S) * b
<1> DEFINE C == {s \in SUBSET S : SumFunctionOnSet(f, s) <= Cardinality(s) * b}
<1>1. {} \in C
  BY SumEmpty, FS_EmptySet
<1>2. ASSUME NEW s \in SUBSET S, NEW x \in S, s \in C, x \notin s
      PROVE  s \union {x} \in C
  <2>1. IsFiniteSet(s) /\ Cardinality(s) \in Nat
    BY FS_Subset, FS_CardinalityType
  <2>2. SumFunctionOnSet(f, s \union {x}) = f[x] + SumFunctionOnSet(f, s)
    BY <1>2, <2>1, SumAdd
  <2>3. Cardinality(s \union {x}) = Cardinality(s) + 1
    BY <1>2, <2>1, FS_AddElement
  <2>4. SumFunctionOnSet(f, s) \in Nat
    BY <2>1, SumIsNat
  <2>5. (Cardinality(s) + 1) * b = Cardinality(s) * b + b
    BY <2>1
  <2>6. Cardinality(s) * b \in Nat
    BY <2>1
  <2>7. f[x] \in Nat /\ f[x] <= b
    OBVIOUS
  <2>8. SumFunctionOnSet(f, s) <= Cardinality(s) * b
    BY <1>2
  <2>9. SumFunctionOnSet(f, s \union {x}) <= Cardinality(s) * b + b
    BY <2>2, <2>4, <2>6, <2>7, <2>8
  <2> QED
    BY <1>2, <2>3, <2>5, <2>9
<1>3. S \in C
  <2> HIDE DEF C
  <2> QED BY <1>1, <1>2, FiniteInductionSet
<1> QED
  BY <1>3

\* ... and zero only if each of them is.
LEMMA SumOfZeros ==
  ASSUME NEW S, IsFiniteSet(S), NEW f, \A x \in S : f[x] = 0
  PROVE  SumFunctionOnSet(f, S) = 0
<1> DEFINE C == {s \in SUBSET S : SumFunctionOnSet(f, s) = 0}
<1>1. {} \in C
  BY SumEmpty
<1>2. ASSUME NEW s \in SUBSET S, NEW x \in S, s \in C, x \notin s
      PROVE  s \union {x} \in C
  <2>1. IsFiniteSet(s) /\ \A y \in s : f[y] \in Nat
    BY FS_Subset
  <2>2. SumFunctionOnSet(f, s \union {x}) = f[x] + SumFunctionOnSet(f, s)
    BY <1>2, <2>1, SumAdd
  <2> QED
    BY <1>2, <2>2
<1>3. S \in C
  <2> HIDE DEF C
  <2> QED BY <1>1, <1>2, FiniteInductionSet
<1> QED
  BY <1>3

LEMMA SumPositive ==
  ASSUME NEW S, IsFiniteSet(S), NEW f, \A x \in S : f[x] \in Nat,
         SumFunctionOnSet(f, S) > 0
  PROVE  \E x \in S : f[x] > 0
<1> SUFFICES ASSUME \A x \in S : f[x] = 0 PROVE FALSE
  OBVIOUS
<1>1. SumFunctionOnSet(f, S) = 0
  BY SumOfZeros
<1> QED
  BY <1>1

\* The sum over two sets that have nothing in common.
LEMMA SumUnion ==
  ASSUME NEW S, IsFiniteSet(S), NEW R, IsFiniteSet(R), S \intersect R = {},
         NEW f, \A x \in S \union R : f[x] \in Nat
  PROVE  SumFunctionOnSet(f, S \union R) = SumFunctionOnSet(f, S) + SumFunctionOnSet(f, R)
<1> DEFINE C == {s \in SUBSET R : SumFunctionOnSet(f, S \union s)
                                   = SumFunctionOnSet(f, S) + SumFunctionOnSet(f, s)}
<1>0. SumFunctionOnSet(f, S) \in Nat
  BY SumIsNat
<1>1. {} \in C
  <2>1. S \union {} = S
    OBVIOUS
  <2> QED
    BY <1>0, <2>1, SumEmpty
<1>2. ASSUME NEW s \in SUBSET R, NEW x \in R, s \in C, x \notin s
      PROVE  s \union {x} \in C
  <2>1. IsFiniteSet(s) /\ IsFiniteSet(S \union s)
    BY FS_Subset, FS_Union
  <2>2. SumFunctionOnSet(f, s \union {x}) = f[x] + SumFunctionOnSet(f, s)
    BY <1>2, <2>1, SumAdd
  <2>3. SumFunctionOnSet(f, (S \union s) \union {x}) = f[x] + SumFunctionOnSet(f, S \union s)
    <3>1. x \notin S \union s /\ f[x] \in Nat /\ \A y \in S \union s : f[y] \in Nat
      BY <1>2
    <3> QED
      BY <2>1, <3>1, SumAdd
  <2>4. SumFunctionOnSet(f, s) \in Nat /\ f[x] \in Nat
    BY <2>1, SumIsNat
  <2>5. (S \union s) \union {x} = S \union (s \union {x})
    OBVIOUS
  <2>6. SumFunctionOnSet(f, S \union s) = SumFunctionOnSet(f, S) + SumFunctionOnSet(f, s)
    BY <1>2
  <2>7. SumFunctionOnSet(f, (S \union s) \union {x})
          = SumFunctionOnSet(f, S) + SumFunctionOnSet(f, s \union {x})
    BY <1>0, <2>2, <2>3, <2>4, <2>6
  <2>8. SumFunctionOnSet(f, S \union (s \union {x}))
          = SumFunctionOnSet(f, S) + SumFunctionOnSet(f, s \union {x})
    BY <2>5, <2>7, Zenon
  <2> QED
    BY <2>8
<1>3. R \in C
  <2> HIDE DEF C
  <2> QED BY <1>1, <1>2, FiniteInductionSet
<1> QED
  BY <1>3

\* A subset does not sum up to more.
LEMMA SumSubset ==
  ASSUME NEW S, IsFiniteSet(S), NEW R \in SUBSET S, NEW f, \A x \in S : f[x] \in Nat
  PROVE  SumFunctionOnSet(f, R) <= SumFunctionOnSet(f, S)
<1>1. IsFiniteSet(R) /\ IsFiniteSet(S \ R)
  BY FS_Subset, FS_Difference
<1>2. R \union (S \ R) = S /\ R \intersect (S \ R) = {}
  OBVIOUS
<1> DEFINE Q == S \ R
<1>3. SumFunctionOnSet(f, R \union Q) = SumFunctionOnSet(f, R) + SumFunctionOnSet(f, Q)
  <2>1. IsFiniteSet(Q) /\ R \intersect Q = {} /\ \A x \in R \union Q : f[x] \in Nat
    BY <1>1
  <2> HIDE DEF Q
  <2> QED
    BY <1>1, <2>1, SumUnion
<1>4. SumFunctionOnSet(f, R) \in Nat /\ SumFunctionOnSet(f, Q) \in Nat
  BY <1>1, SumIsNat
<1>5. SumFunctionOnSet(f, S) = SumFunctionOnSet(f, R) + SumFunctionOnSet(f, Q)
  BY <1>2, <1>3, Zenon
<1> HIDE DEF Q
<1> QED
  BY <1>4, <1>5

\* The sum of the sums over parts that have nothing in common.
LEMMA SumOfParts ==
  ASSUME NEW A, IsFiniteSet(A), NEW S, IsFiniteSet(S), NEW part \in [A -> SUBSET S],
         \A a, b \in A : a # b => part[a] \intersect part[b] = {},
         NEW f, \A x \in S : f[x] \in Nat,
         NEW total, \A a \in A : total[a] = SumFunctionOnSet(f, part[a])
  PROVE  SumFunctionOnSet(total, A) = SumFunctionOnSet(f, UNION {part[a] : a \in A})
<1> DEFINE All(B) == UNION {part[a] : a \in B}
           C == {B \in SUBSET A : SumFunctionOnSet(total, B) = SumFunctionOnSet(f, All(B))}
<1>1. {} \in C
  <2>1. All({}) = {}
    OBVIOUS
  <2> QED
    BY <2>1, SumEmpty
<1>2. ASSUME NEW B \in SUBSET A, NEW a \in A, B \in C, a \notin B
      PROVE  B \union {a} \in C
  <2>1. All(B \union {a}) = All(B) \union part[a]
    OBVIOUS
  <2>2. All(B) \intersect part[a] = {}
    BY <1>2
  <2>3. All(B) \in SUBSET S /\ part[a] \in SUBSET S
    OBVIOUS
  <2> HIDE DEF All
  <2>4. IsFiniteSet(All(B)) /\ IsFiniteSet(part[a]) /\ IsFiniteSet(B)
    BY <2>3, FS_Subset
  <2>5. SumFunctionOnSet(f, All(B) \union part[a])
          = SumFunctionOnSet(f, All(B)) + SumFunctionOnSet(f, part[a])
    BY <2>2, <2>3, <2>4, SumUnion
  <2>6. \A b \in A : total[b] \in Nat
    <3> TAKE b \in A
    <3>1. part[b] \in SUBSET S
      OBVIOUS
    <3>2. IsFiniteSet(part[b]) /\ \A x \in part[b] : f[x] \in Nat
      BY <3>1, FS_Subset
    <3> QED
      BY <3>2, SumIsNat
  <2>7. SumFunctionOnSet(total, B \union {a}) = total[a] + SumFunctionOnSet(total, B)
    BY <1>2, <2>4, <2>6, SumAdd
  <2>8. SumFunctionOnSet(total, B) \in Nat /\ total[a] \in Nat
    BY <2>4, <2>6, SumIsNat
  <2>9. SumFunctionOnSet(total, B) = SumFunctionOnSet(f, All(B))
    BY <1>2
  <2>10. SumFunctionOnSet(total, B \union {a}) = SumFunctionOnSet(f, All(B \union {a}))
    <3>1. total[a] = SumFunctionOnSet(f, part[a])
      OBVIOUS
    <3>2. SumFunctionOnSet(total, B \union {a}) = SumFunctionOnSet(f, All(B) \union part[a])
      BY <2>5, <2>7, <2>8, <2>9, <3>1
    <3> QED
      BY <2>1, <3>2, Zenon
  <2> QED
    BY <2>10
<1>3. A \in C
  <2> HIDE DEF C
  <2> QED BY <1>1, <1>2, FiniteInductionSet
<1> QED
  BY <1>3

\* What is zero outside a subset sums up over the subset.
LEMMA SumOfSupport ==
  ASSUME NEW S, IsFiniteSet(S), NEW R \in SUBSET S, NEW f, \A x \in S : f[x] \in Nat,
         \A x \in S \ R : f[x] = 0
  PROVE  SumFunctionOnSet(f, S) = SumFunctionOnSet(f, R)
<1>1. IsFiniteSet(R) /\ IsFiniteSet(S \ R)
  BY FS_Subset, FS_Difference
<1>2. S = R \union (S \ R) /\ R \intersect (S \ R) = {}
  OBVIOUS
<1>3. SumFunctionOnSet(f, R \union (S \ R)) = SumFunctionOnSet(f, R) + SumFunctionOnSet(f, S \ R)
  BY <1>1, <1>2, SumUnion
<1>4. SumFunctionOnSet(f, S \ R) = 0
  BY <1>1, SumOfZeros
<1>5. SumFunctionOnSet(f, R) \in Nat
  BY <1>1, SumIsNat
<1>6. SumFunctionOnSet(f, S) = SumFunctionOnSet(f, R \union (S \ R))
  BY <1>2, Zenon
<1> QED
  BY <1>3, <1>4, <1>5, <1>6

-----------------------------------------------------------------------------
(* Largest and smallest numbers.                                           *)

\* A non-empty bounded set of numbers has a largest one.
LEMMA MaxIsLargest ==
  ASSUME NEW S, S \subseteq Nat, S # {}, NEW b \in Nat, \A x \in S : x <= b
  PROVE  Max(S) \in S /\ \A x \in S : x <= Max(S)
<1> DEFINE T == {t \in Nat : \E x \in S : t = b - x}
<1>1. T \subseteq Nat /\ T # {}
  <2>1. PICK x \in S : TRUE
    OBVIOUS
  <2>2. b - x \in T
    BY <2>1
  <2> QED
    BY <2>2
<1>2. PICK t \in T : \A u \in T : ~ (<<u, t>> \in OpToRel(<, Nat))
  <2> HIDE DEF T
  <2> QED BY <1>1, NatLessThanWellFounded, WFMin
<1>3. PICK y \in S : t = b - y
  OBVIOUS
<1>4. \A x \in S : y >= x
  <2> TAKE x \in S
  <2>1. b - x \in T /\ t \in Nat
    OBVIOUS
  <2>2. ~ (b - x < t)
    BY <1>2, <2>1 DEF OpToRel
  <2> QED
    BY <1>3, <2>2
<1>5. Max(S) \in S /\ \A x \in S : Max(S) >= x
  BY <1>4 DEF Max
<1> QED
  BY <1>5

\* A finite set of numbers has a bound, and so a largest one.
LEMMA FiniteMax ==
  ASSUME NEW S, IsFiniteSet(S), S \subseteq Nat, S # {}
  PROVE  Max(S) \in S /\ \A x \in S : x <= Max(S)
<1> DEFINE C == {R \in SUBSET S : \E b \in Nat : \A x \in R : x <= b}
<1>1. {} \in C
  OBVIOUS
<1>2. \A R \in C, x \in S : R \union {x} \in C
  <2> SUFFICES ASSUME NEW R \in C, NEW x \in S PROVE R \union {x} \in C
    OBVIOUS
  <2>1. PICK b \in Nat : \A y \in R : y <= b
    OBVIOUS
  <2>2. x \in Nat /\ b + x \in Nat /\ x <= b + x /\ \A y \in Nat : y <= b => y <= b + x
    OBVIOUS
  <2>3. \A y \in R \union {x} : y <= b + x
    BY <2>1, <2>2
  <2> QED
    BY <2>2, <2>3
<1>3. S \in C
  <2> HIDE DEF C
  <2> QED BY <1>1, <1>2, FiniteInductionSet
<1> QED
  BY <1>3, MaxIsLargest

LEMMA SmallestExists ==
  ASSUME NEW S, S \subseteq Nat, S # {}
  PROVE  \E x \in S : \A y \in S : x <= y
<1>1. PICK x \in S : \A y \in S : ~ (<<y, x>> \in OpToRel(<, Nat))
  BY NatLessThanWellFounded, WFMin
<1>2. \A y \in S : ~ (y < x)
  BY <1>1 DEF OpToRel
<1> QED
  BY <1>2

LEMMA MinOfTwo ==
  ASSUME NEW m \in Int, NEW n \in Int
  PROVE  Min({m, n}) = IF m <= n THEN m ELSE n
<1> DEFINE least == IF m <= n THEN m ELSE n
<1>1. least \in {m, n} /\ \A y \in {m, n} : least <= y
  OBVIOUS
<1>2. \A x \in {m, n} : (\A y \in {m, n} : x <= y) => x = least
  OBVIOUS
<1> QED
  BY <1>1, <1>2 DEF Min

LEMMA MaxOfTwo ==
  ASSUME NEW m \in Int, NEW n \in Int
  PROVE  Max({m, n}) = IF m >= n THEN m ELSE n
<1> DEFINE greatest == IF m >= n THEN m ELSE n
<1>1. greatest \in {m, n} /\ \A y \in {m, n} : greatest >= y
  OBVIOUS
<1>2. \A x \in {m, n} : (\A y \in {m, n} : x >= y) => x = greatest
  OBVIOUS
<1> QED
  BY <1>1, <1>2 DEF Max
==============================================================================
