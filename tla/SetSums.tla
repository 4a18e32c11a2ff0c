------------------------------ MODULE SetSums ------------------------------
(***************************************************************************)
(* Sums over finite sets, as the ledgers of this project take them          *)
(* (SumFunctionOnSet of the community modules), and the facts about them    *)
(* that the proofs cite.  Its elements are taken in an order CHOOSE         *)
(* fixes; what is shown first is that this order does not matter.           *)
(*                                                                         *)
(* The induction principles are stated over a set, of numbers or of sets,   *)
(* where the library's take a predicate: a set is a value, and a proof can  *)
(* instantiate it.                                                          *)
(***************************************************************************)
EXTENDS Integers, Functions, Folds, FiniteSetTheorems, TLAPS

\* The element taken first, and the sums of all subsets of S as a function.
Pick(s) == CHOOSE x \in s : TRUE
SumFrom(w, s, h) == IF s = {} THEN 0 ELSE w[Pick(s)] + h[s \ {Pick(s)}]
IsSums(w, S, h) == h = [s \in SUBSET S |-> SumFrom(w, s, h)]
Sums(w, S) == CHOOSE h : IsSums(w, S, h)

-----------------------------------------------------------------------------
(* Induction *)

\* A set of numbers that holds 0 and the successor of each of its members
\* is Nat: a least number outside it would be neither 0 nor a successor.
LEMMA NatSetInduction ==
    ASSUME NEW T \in SUBSET Nat, 0 \in T, \A n \in T : n + 1 \in T
    PROVE  T = Nat
<1> DEFINE R == OpToRel(<, Nat)
           Out == Nat \ T
<1> SUFFICES ASSUME Out # {} PROVE FALSE
    OBVIOUS
<1>1. \E n \in Out : \A m \in Out : ~(<<m, n>> \in R)
    <2>1. IsWellFoundedOn(R, Nat)
        BY NatLessThanWellFounded, Zenon
    <2>2. Out \subseteq Nat
        OBVIOUS
    <2> HIDE DEF R, Out
    <2> QED
        BY <2>1, <2>2, WFMin
<1>2. PICK n \in Out : \A m \in Out : ~(m < n)
    BY <1>1 DEF OpToRel
<1>3. n # 0 /\ n - 1 \in Nat /\ n - 1 < n
    OBVIOUS
<1>4. n - 1 \in T
    BY <1>2, <1>3
<1> QED
    BY <1>3, <1>4

\* A family of sets that holds a subset of S as soon as it holds what is left
\* of it when any one element is removed holds every subset of S.
LEMMA RemovalInduction ==
    ASSUME NEW S, IsFiniteSet(S), NEW P,
           \A T \in SUBSET S : (\A x \in T : T \ {x} \in P) => T \in P
    PROVE  \A T \in SUBSET S : T \in P
<1> DEFINE N == {n \in Nat : \A T \in SUBSET S : Cardinality(T) = n => T \in P}
<1>f. \A T \in SUBSET S : /\ IsFiniteSet(T) /\ Cardinality(T) \in Nat
                          /\ (Cardinality(T) = 0 <=> T = {})
    BY FS_Subset, FS_CardinalityType, FS_EmptySet
<1>1. 0 \in N
    BY <1>f
<1>2. ASSUME NEW n \in N PROVE n + 1 \in N
    <2> SUFFICES ASSUME NEW T \in SUBSET S, Cardinality(T) = n + 1, NEW x \in T
                 PROVE  T \ {x} \in P
        OBVIOUS
    <2>1. Cardinality(T \ {x}) = n
        BY <1>f, FS_RemoveElement
    <2> QED
        BY <2>1
<1>3. N = Nat
    <2> HIDE DEF N
    <2>1. N \in SUBSET Nat
        BY DEF N
    <2> QED
        BY <1>1, <1>2, <2>1, NatSetInduction
<1> QED
    BY <1>f, <1>3

-----------------------------------------------------------------------------
(* The recursion has a solution *)

LEMMA PickIsMember == ASSUME NEW s, s # {} PROVE Pick(s) \in s
    BY DEF Pick

LEMMA SumsExist ==
    ASSUME NEW S, IsFiniteSet(S), NEW w
    PROVE  IsSums(w, S, Sums(w, S))
<1> DEFINE UpTo(n, h) == \A s \in SUBSET S : Cardinality(s) <= n => h[s] = SumFrom(w, s, h)
           N == {n \in Nat : \E h : UpTo(n, h)}
<1>f. \A s \in SUBSET S : IsFiniteSet(s) /\ Cardinality(s) \in Nat
                          /\ (Cardinality(s) = 0 <=> s = {})
    BY FS_Subset, FS_CardinalityType, FS_EmptySet
<1>p. \A s \in SUBSET S : s # {} =>
         /\ s \ {Pick(s)} \in SUBSET S
         /\ Cardinality(s \ {Pick(s)}) = Cardinality(s) - 1
    BY <1>f, PickIsMember, FS_RemoveElement
<1>1. 0 \in N
    <2> DEFINE h == [s \in SUBSET S |-> 0]
    <2>1. UpTo(0, h)
        BY <1>f DEF SumFrom
    <2> QED
        BY <2>1
<1>2. ASSUME NEW n \in N PROVE n + 1 \in N
    <2>1. PICK h : UpTo(n, h)
        OBVIOUS
    <2> DEFINE g == [s \in SUBSET S |-> IF Cardinality(s) <= n THEN h[s] ELSE SumFrom(w, s, h)]
    <2>2. ASSUME NEW s \in SUBSET S, Cardinality(s) <= n + 1 PROVE g[s] = SumFrom(w, s, h)
        BY <2>1, <2>2
    <2>3. ASSUME NEW s \in SUBSET S, Cardinality(s) <= n + 1
          PROVE  SumFrom(w, s, h) = SumFrom(w, s, g)
        <3>1. CASE s = {}
            BY <3>1 DEF SumFrom
        <3>2. CASE s # {}
            <4>1. /\ s \ {Pick(s)} \in SUBSET S
                  /\ Cardinality(s \ {Pick(s)}) <= n
                BY <2>3, <3>2, <1>f, <1>p
            <4>2. g[s \ {Pick(s)}] = h[s \ {Pick(s)}]
                BY <4>1
            <4> QED
                BY <3>2, <4>2 DEF SumFrom
        <3> QED
            BY <3>1, <3>2
    <2> HIDE DEF g
    <2>4. UpTo(n + 1, g)
        BY <2>2, <2>3
    <2> HIDE DEF UpTo
    <2> QED
        BY <2>4
<1>3. N = Nat
    <2> HIDE DEF N
    <2>1. N \in SUBSET Nat
        BY DEF N
    <2> QED
        BY <1>1, <1>2, <2>1, NatSetInduction
<1>4. Cardinality(S) \in Nat /\ \A s \in SUBSET S : Cardinality(s) <= Cardinality(S)
    BY FS_Subset, FS_CardinalityType
<1>5. PICK h : UpTo(Cardinality(S), h)
    BY <1>3, <1>4
<1> DEFINE g == [s \in SUBSET S |-> h[s]]
<1>6. \A s \in SUBSET S : SumFrom(w, s, h) = SumFrom(w, s, g)
    <2> SUFFICES ASSUME NEW s \in SUBSET S, s # {}
                 PROVE  g[s \ {Pick(s)}] = h[s \ {Pick(s)}]
        BY DEF SumFrom
    <2> QED
        BY <1>p
<1>7. \A s \in SUBSET S : h[s] = SumFrom(w, s, g)
    BY <1>4, <1>5, <1>6
<1>8. IsSums(w, S, g)
    <2>1. g = [s \in SUBSET S |-> SumFrom(w, s, g)]
        BY <1>7
    <2> HIDE DEF g
    <2> QED
        BY <2>1 DEF IsSums
<1> QED
    BY <1>8 DEF Sums

\* SumFunctionOnSet is that solution, taken at S.
LEMMA SumIsFold == ASSUME NEW w, NEW S PROVE SumFunctionOnSet(w, S) = Sums(w, S)[S]
    BY DEF Sums, IsSums, SumFrom, Pick, SumFunctionOnSet, FoldFunctionOnSet, MapThenFoldSet

\* The solution for a subset of S agrees with the one for S.
LEMMA SumsAgree ==
    ASSUME NEW S, IsFiniteSet(S), NEW w, NEW T \in SUBSET S
    PROVE  Sums(w, T)[T] = Sums(w, S)[T]
<1> DEFINE P == {s \in SUBSET T : Sums(w, T)[s] = Sums(w, S)[s]}
<1>f. IsFiniteSet(T)
    BY FS_Subset
<1>1. /\ \A s \in SUBSET T : Sums(w, T)[s] = SumFrom(w, s, Sums(w, T))
      /\ \A s \in SUBSET S : Sums(w, S)[s] = SumFrom(w, s, Sums(w, S))
    BY <1>f, SumsExist DEF IsSums
<1>2. ASSUME NEW s \in SUBSET T, \A x \in s : s \ {x} \in P PROVE s \in P
    <2>1. CASE s = {}
        BY <1>1, <2>1 DEF SumFrom
    <2>2. CASE s # {}
        <3>1. Pick(s) \in s
            BY <2>2, PickIsMember
        <3>2. Sums(w, T)[s \ {Pick(s)}] = Sums(w, S)[s \ {Pick(s)}]
            BY <1>2, <3>1
        <3> QED
            BY <1>1, <2>2, <3>2 DEF SumFrom
    <2> QED
        BY <2>1, <2>2
<1>3. T \in P
    <2> HIDE DEF P
    <2> QED
        BY <1>f, <1>2, RemovalInduction
<1> QED
    BY <1>3

\* The recursion equation of a sum, in the order the fold takes.
LEMMA SumUnfold ==
    ASSUME NEW S, IsFiniteSet(S), NEW w
    PROVE  /\ S = {} => SumFunctionOnSet(w, S) = 0
           /\ S # {} => Pick(S) \in S /\ SumFunctionOnSet(w, S) = w[Pick(S)] + SumFunctionOnSet(w, S \ {Pick(S)})
<1>1. SumFunctionOnSet(w, S) = SumFrom(w, S, Sums(w, S))
    BY SumsExist, SumIsFold DEF IsSums
<1>2. CASE S = {}
    BY <1>1, <1>2 DEF SumFrom
<1>3. CASE S # {}
    <2>1. Pick(S) \in S /\ S \ {Pick(S)} \in SUBSET S
        BY <1>3, PickIsMember
    <2>2. Sums(w, S)[S \ {Pick(S)}] = SumFunctionOnSet(w, S \ {Pick(S)})
        BY <2>1, SumsAgree, SumIsFold
    <2> QED
        BY <1>1, <1>3, <2>1, <2>2 DEF SumFrom
<1> QED
    BY <1>2, <1>3

-----------------------------------------------------------------------------
(* What the proofs cite *)

\* The empty sum.
LEMMA SumEmpty == ASSUME NEW w PROVE SumFunctionOnSet(w, {}) = 0
    BY SumUnfold, FS_EmptySet

\* A sum of integers is one.
LEMMA SumType ==
    ASSUME NEW S, IsFiniteSet(S), NEW w, \A x \in S : w[x] \in Int
    PROVE  SumFunctionOnSet(w, S) \in Int
<1> DEFINE P == {s \in SUBSET S : SumFunctionOnSet(w, s) \in Int}
<1>1. ASSUME NEW s \in SUBSET S, \A x \in s : s \ {x} \in P PROVE s \in P
    <2>1. IsFiniteSet(s)
        BY FS_Subset
    <2>2. CASE s = {}
        BY <2>2, SumEmpty
    <2>3. CASE s # {}
        <3>1. Pick(s) \in s /\ SumFunctionOnSet(w, s) = w[Pick(s)] + SumFunctionOnSet(w, s \ {Pick(s)})
            BY <2>1, <2>3, SumUnfold
        <3> QED
            BY <1>1, <3>1
    <2> QED
        BY <2>2, <2>3
<1>2. S \in P
    <2> HIDE DEF P
    <2>1. \A s \in SUBSET S : (\A x \in s : s \ {x} \in P) => s \in P
        BY <1>1
    <2>2. \A s \in SUBSET S : s \in P
        BY <2>1, RemovalInduction
    <2> QED
        BY <2>2
<1> QED
    BY <1>2

\* Any element may be taken first.
LEMMA SumRemove ==
    ASSUME NEW S, IsFiniteSet(S), NEW w, \A x \in S : w[x] \in Int, NEW y \in S
    PROVE  SumFunctionOnSet(w, S) = w[y] + SumFunctionOnSet(w, S \ {y})
<1> DEFINE P == {s \in SUBSET S : \A x \in s : SumFunctionOnSet(w, s) = w[x] + SumFunctionOnSet(w, s \ {x})}
<1>1. ASSUME NEW s \in SUBSET S, \A x \in s : s \ {x} \in P PROVE s \in P
    <2> SUFFICES ASSUME NEW x \in s PROVE SumFunctionOnSet(w, s) = w[x] + SumFunctionOnSet(w, s \ {x})
        OBVIOUS
    <2> DEFINE c == Pick(s)
    <2>1. IsFiniteSet(s)
        BY FS_Subset
    <2>2. c \in s /\ SumFunctionOnSet(w, s) = w[c] + SumFunctionOnSet(w, s \ {c})
        BY <2>1, SumUnfold
    <2> HIDE DEF c
    <2>3. CASE x # c
        <3> DEFINE rest == SumFunctionOnSet(w, (s \ {c}) \ {x})
        <3>1. SumFunctionOnSet(w, s \ {c}) = w[x] + rest
            BY <1>1, <2>2, <2>3
        <3>2. SumFunctionOnSet(w, s \ {x}) = w[c] + rest
            <4>1. (s \ {x}) \ {c} = (s \ {c}) \ {x}
                OBVIOUS
            <4>2. SumFunctionOnSet(w, s \ {x}) = w[c] + SumFunctionOnSet(w, (s \ {x}) \ {c})
                BY <1>1, <2>2, <2>3
            <4> QED
                BY <4>1, <4>2
        <3>3. rest \in Int
            <4>1. IsFiniteSet((s \ {c}) \ {x})
                BY <2>1, FS_RemoveElement
            <4> QED
                BY <4>1, SumType
        <3>4. w[x] \in Int /\ w[c] \in Int
            BY <2>2
        <3> HIDE DEF rest
        <3> QED
            BY <2>2, <3>1, <3>2, <3>3, <3>4
    <2> QED
        BY <2>2, <2>3
<1>2. S \in P
    <2> HIDE DEF P
    <2>1. \A s \in SUBSET S : (\A x \in s : s \ {x} \in P) => s \in P
        BY <1>1
    <2>2. \A s \in SUBSET S : s \in P
        BY <2>1, RemovalInduction
    <2> QED
        BY <2>2
<1> QED
    BY <1>2

\* An element that is added.
LEMMA SumAdd ==
    ASSUME NEW S, IsFiniteSet(S), NEW w, NEW y, y \notin S,
           \A x \in S \cup {y} : w[x] \in Int
    PROVE  SumFunctionOnSet(w, S \cup {y}) = SumFunctionOnSet(w, S) + w[y]
<1>1. IsFiniteSet(S \cup {y}) /\ (S \cup {y}) \ {y} = S
    BY FS_AddElement
<1>2. SumFunctionOnSet(w, S \cup {y}) = w[y] + SumFunctionOnSet(w, S)
    BY <1>1, SumRemove
<1>3. w[y] \in Int /\ SumFunctionOnSet(w, S) \in Int
    BY SumType
<1> QED
    BY <1>2, <1>3

\* A sum depends on the values at its elements only.
LEMMA SumSame ==
    ASSUME NEW S, IsFiniteSet(S), NEW w, NEW v, \A x \in S : w[x] = v[x]
    PROVE  SumFunctionOnSet(w, S) = SumFunctionOnSet(v, S)
<1> DEFINE P == {s \in SUBSET S : SumFunctionOnSet(w, s) = SumFunctionOnSet(v, s)}
<1>1. ASSUME NEW s \in SUBSET S, \A x \in s : s \ {x} \in P PROVE s \in P
    <2>1. IsFiniteSet(s)
        BY FS_Subset
    <2>2. CASE s = {}
        BY <2>2, SumEmpty
    <2>3. CASE s # {}
        <3>1. /\ Pick(s) \in s
              /\ SumFunctionOnSet(w, s) = w[Pick(s)] + SumFunctionOnSet(w, s \ {Pick(s)})
              /\ SumFunctionOnSet(v, s) = v[Pick(s)] + SumFunctionOnSet(v, s \ {Pick(s)})
            BY <2>1, <2>3, SumUnfold
        <3> QED
            BY <1>1, <3>1
    <2> QED
        BY <2>2, <2>3
<1>2. S \in P
    <2> HIDE DEF P
    <2>1. \A s \in SUBSET S : (\A x \in s : s \ {x} \in P) => s \in P
        BY <1>1
    <2>2. \A s \in SUBSET S : s \in P
        BY <2>1, RemovalInduction
    <2> QED
        BY <2>2
<1> QED
    BY <1>2

\* One value that changes.
LEMMA SumChange ==
    ASSUME NEW S, IsFiniteSet(S), NEW w, NEW v, NEW y \in S,
           \A x \in S : w[x] \in Int /\ v[x] \in Int,
           \A x \in S : x # y => v[x] = w[x]
    PROVE  SumFunctionOnSet(v, S) = SumFunctionOnSet(w, S) - w[y] + v[y]
<1>1. IsFiniteSet(S \ {y})
    BY FS_RemoveElement
<1>2. /\ SumFunctionOnSet(w, S) = w[y] + SumFunctionOnSet(w, S \ {y})
      /\ SumFunctionOnSet(v, S) = v[y] + SumFunctionOnSet(v, S \ {y})
    BY SumRemove
<1>3. SumFunctionOnSet(w, S \ {y}) = SumFunctionOnSet(v, S \ {y})
    BY <1>1, SumSame
<1>4. SumFunctionOnSet(w, S \ {y}) \in Int /\ w[y] \in Int /\ v[y] \in Int
    BY <1>1, SumType
<1> QED
    BY <1>2, <1>3, <1>4

\* Larger values, larger sum.
LEMMA SumMonotone ==
    ASSUME NEW S, IsFiniteSet(S), NEW w, NEW v,
           \A x \in S : w[x] \in Int /\ v[x] \in Int /\ w[x] <= v[x]
    PROVE  SumFunctionOnSet(w, S) <= SumFunctionOnSet(v, S)
<1> DEFINE P == {s \in SUBSET S : SumFunctionOnSet(w, s) <= SumFunctionOnSet(v, s)}
<1>1. ASSUME NEW s \in SUBSET S, \A x \in s : s \ {x} \in P PROVE s \in P
    <2>1. IsFiniteSet(s)
        BY FS_Subset
    <2>2. CASE s = {}
        BY <2>2, SumEmpty
    <2>3. CASE s # {}
        <3> DEFINE c == Pick(s)
                   a == SumFunctionOnSet(w, s \ {c})
                   b == SumFunctionOnSet(v, s \ {c})
        <3>1. c \in s /\ SumFunctionOnSet(w, s) = w[c] + a /\ SumFunctionOnSet(v, s) = v[c] + b
            BY <2>1, <2>3, SumUnfold
        <3>2. a <= b
            BY <1>1, <3>1
        <3>3. a \in Int /\ b \in Int
            <4>1. IsFiniteSet(s \ {c}) /\ \A x \in s \ {c} : w[x] \in Int /\ v[x] \in Int
                BY <2>1, FS_RemoveElement
            <4> QED
                BY <4>1, SumType
        <3>4. w[c] \in Int /\ v[c] \in Int /\ w[c] <= v[c]
            BY <3>1
        <3> HIDE DEF a, b, c
        <3> QED
            BY <3>1, <3>2, <3>3, <3>4
    <2> QED
        BY <2>2, <2>3
<1>2. S \in P
    <2> HIDE DEF P
    <2>1. \A s \in SUBSET S : (\A x \in s : s \ {x} \in P) => s \in P
        BY <1>1
    <2>2. \A s \in SUBSET S : s \in P
        BY <2>1, RemovalInduction
    <2> QED
        BY <2>2
<1> QED
    BY <1>2

\* A sum of nothings.
LEMMA SumZero ==
    ASSUME NEW S, IsFiniteSet(S), NEW w, \A x \in S : w[x] = 0
    PROVE  SumFunctionOnSet(w, S) = 0
<1> DEFINE P == {s \in SUBSET S : SumFunctionOnSet(w, s) = 0}
<1>1. ASSUME NEW s \in SUBSET S, \A x \in s : s \ {x} \in P PROVE s \in P
    <2>1. IsFiniteSet(s)
        BY FS_Subset
    <2>2. CASE s = {}
        BY <2>2, SumEmpty
    <2>3. CASE s # {}
        <3>1. /\ Pick(s) \in s
              /\ SumFunctionOnSet(w, s) = w[Pick(s)] + SumFunctionOnSet(w, s \ {Pick(s)})
            BY <2>1, <2>3, SumUnfold
        <3>2. w[Pick(s)] = 0 /\ SumFunctionOnSet(w, s \ {Pick(s)}) = 0
            BY <1>1, <3>1
        <3> QED
            BY <3>1, <3>2
    <2> QED
        BY <2>2, <2>3
<1>2. S \in P
    <2> HIDE DEF P
    <2>1. \A s \in SUBSET S : (\A x \in s : s \ {x} \in P) => s \in P
        BY <1>1
    <2>2. \A s \in SUBSET S : s \in P
        BY <2>1, RemovalInduction
    <2> QED
        BY <2>2
<1> QED
    BY <1>2

\* All but one are nothing.
LEMMA SumOfOne ==
    ASSUME NEW S, IsFiniteSet(S), NEW w, NEW y \in S, w[y] \in Int,
           \A x \in S : x # y => w[x] = 0
    PROVE  SumFunctionOnSet(w, S) = w[y]
<1>1. IsFiniteSet(S \ {y}) /\ \A x \in S : w[x] \in Int
    BY FS_RemoveElement
<1>2. SumFunctionOnSet(w, S) = w[y] + SumFunctionOnSet(w, S \ {y})
    BY <1>1, SumRemove
<1>3. SumFunctionOnSet(w, S \ {y}) = 0
    BY <1>1, SumZero
<1> QED
    BY <1>2, <1>3

\* Naturals: a sum over a part is at most the sum over the whole.
LEMMA SumOfPart ==
    ASSUME NEW S, IsFiniteSet(S), NEW w, \A x \in S : w[x] \in Nat, NEW T \in SUBSET S
    PROVE  /\ SumFunctionOnSet(w, T) \in Nat
           /\ SumFunctionOnSet(w, T) <= SumFunctionOnSet(w, S)
<1> DEFINE P == {s \in SUBSET S : /\ SumFunctionOnSet(w, T \cap s) \in Nat
                                  /\ SumFunctionOnSet(w, T \cap s) <= SumFunctionOnSet(w, s)}
<1>1. ASSUME NEW s \in SUBSET S, \A x \in s : s \ {x} \in P PROVE s \in P
    <2>1. IsFiniteSet(s) /\ IsFiniteSet(T \cap s)
        BY FS_Subset
    <2>2. CASE s = {}
        <3>1. T \cap s = {}
            BY <2>2
        <3> QED
            BY <2>2, <3>1, SumEmpty
    <2>3. CASE s # {}
        <3> DEFINE c == Pick(s)
                   a == SumFunctionOnSet(w, T \cap (s \ {c}))
                   b == SumFunctionOnSet(w, s \ {c})
        <3>1. c \in s /\ SumFunctionOnSet(w, s) = w[c] + b
            BY <2>1, <2>3, SumUnfold
        <3>2. a \in Nat /\ a <= b
            BY <1>1, <3>1
        <3>3. b \in Int
            <4>1. IsFiniteSet(s \ {c}) /\ \A x \in s \ {c} : w[x] \in Int
                BY <2>1, FS_RemoveElement
            <4> QED
                BY <4>1, SumType
        <3>4. w[c] \in Nat
            BY <3>1
        <3>5. CASE c \in T
            <4>1. (T \cap s) \ {c} = T \cap (s \ {c}) /\ c \in T \cap s
                BY <3>1, <3>5
            <4>2. SumFunctionOnSet(w, T \cap s) = w[c] + SumFunctionOnSet(w, (T \cap s) \ {c})
                <5>1. \A x \in T \cap s : w[x] \in Int
                    OBVIOUS
                <5> QED
                    BY <2>1, <4>1, <5>1, SumRemove
            <4>3. SumFunctionOnSet(w, T \cap s) = w[c] + a
                BY <4>1, <4>2
            <4> HIDE DEF a, b, c
            <4> QED
                BY <3>1, <3>2, <3>3, <3>4, <4>3
        <3>6. CASE c \notin T
            <4>1. T \cap s = T \cap (s \ {c})
                BY <3>6
            <4>2. SumFunctionOnSet(w, T \cap s) = a
                BY <4>1
            <4> HIDE DEF a, b, c
            <4> QED
                BY <3>1, <3>2, <3>3, <3>4, <4>2
        <3> QED
            BY <3>5, <3>6
    <2> QED
        BY <2>2, <2>3
<1>2. S \in P
    <2> HIDE DEF P
    <2>1. \A s \in SUBSET S : (\A x \in s : s \ {x} \in P) => s \in P
        BY <1>1
    <2>2. \A s \in SUBSET S : s \in P
        BY <2>1, RemovalInduction
    <2> QED
        BY <2>2
<1>3. T \cap S = T
    OBVIOUS
<1> QED
    BY <1>2, <1>3
=============================================================================
