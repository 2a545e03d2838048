------------------------------- MODULE Ranks --------------------------------
(***************************************************************************)
(* Counting and ordering: the facts about finite sets that the proofs      *)
(* about collections and rankings share.  An order is a set of pairs.      *)
(***************************************************************************)
EXTENDS Integers, FiniteSetTheorems, WellFoundedInduction, TLAPS

\* The members of S in front of x, and how many there are.
InFront(x, S, R) == {y \in S : <<y, x>> \in R}
Rank(x, S, R) == Cardinality(InFront(x, S, R))

StrictOrder(R, S) ==
    /\ \A x \in S : <<x, x>> \notin R
    /\ \A x, y, z \in S : <<x, y>> \in R /\ <<y, z>> \in R => <<x, z>> \in R
    /\ \A x, y \in S : x = y \/ <<x, y>> \in R \/ <<y, x>> \in R

----------------------------------------------------------------------------
\* A set of natural numbers has a least one. What is false of some number is
\* false of a first one, so this is induction.
LEMMA Least ==
    ASSUME NEW T \in SUBSET Nat, T # {}
    PROVE  \E x \in T : \A y \in T : x <= y
<1>1. PICK x \in T : \A y \in T : ~ (<<y, x>> \in OpToRel(<, Nat))
    BY NatLessThanWellFounded, WFMin
<1>2. \A y \in T : ~ (y < x)
    BY <1>1 DEF OpToRel
<1> QED BY <1>2

\* What is made of the members of a finite set is finite.
LEMMA ImageFinite ==
    ASSUME NEW S, IsFiniteSet(S), NEW f
    PROVE  IsFiniteSet({f[x] : x \in S})
<1> DEFINE T == {f[x] : x \in S}
           g == [x \in S |-> f[x]]
<1>1. g \in Surjection(S, T)
    BY DEF Surjection
<1> QED BY <1>1, FS_Surjection

\* And if different members are made into different things, there are as many
\* of them.
LEMMA ImageCardinality ==
    ASSUME NEW S, IsFiniteSet(S), NEW f,
           \A x, y \in S : f[x] = f[y] => x = y
    PROVE  Cardinality({f[x] : x \in S}) = Cardinality(S)
<1> DEFINE T == {f[x] : x \in S}
           g == [x \in S |-> f[x]]
<1>1. g \in Bijection(S, T)
    BY DEF Bijection, Injection, Surjection, IsInjective
<1>2. ExistsBijection(S, T)
    BY <1>1 DEF ExistsBijection
<1> QED BY <1>2, FS_Bijection

----------------------------------------------------------------------------
\* Ranks are numbers below the size of the set.
LEMMA RankBound ==
    ASSUME NEW S, IsFiniteSet(S), NEW R, StrictOrder(R, S), NEW x \in S
    PROVE  /\ IsFiniteSet(InFront(x, S, R))
           /\ Rank(x, S, R) \in 0..(Cardinality(S) - 1)
<1>1. InFront(x, S, R) \in SUBSET S /\ InFront(x, S, R) # S
    BY DEF InFront, StrictOrder
<1>2. IsFiniteSet(InFront(x, S, R)) /\ Cardinality(InFront(x, S, R)) < Cardinality(S)
    <2>1. /\ IsFiniteSet(InFront(x, S, R))
          /\ Cardinality(InFront(x, S, R)) <= Cardinality(S)
          /\ Cardinality(InFront(x, S, R)) # Cardinality(S)
        BY <1>1, FS_Subset
    <2>2. Cardinality(S) \in Nat /\ Cardinality(InFront(x, S, R)) \in Nat
        BY <2>1, FS_CardinalityType
    <2> QED BY <2>1, <2>2
<1>3. Cardinality(S) \in Nat /\ Cardinality(InFront(x, S, R)) \in Nat
    BY <1>2, FS_CardinalityType
<1> QED BY <1>2, <1>3 DEF Rank

\* Whoever is in front has the smaller rank.
LEMMA RankGrows ==
    ASSUME NEW S, IsFiniteSet(S), NEW R, StrictOrder(R, S),
           NEW x \in S, NEW y \in S
    PROVE  Rank(x, S, R) < Rank(y, S, R) <=> <<x, y>> \in R
<1>1. ASSUME NEW a \in S, NEW b \in S, <<a, b>> \in R
      PROVE  Rank(a, S, R) < Rank(b, S, R)
    <2>1. InFront(a, S, R) \in SUBSET InFront(b, S, R)
        BY <1>1 DEF InFront, StrictOrder
    <2>2. a \in InFront(b, S, R) /\ a \notin InFront(a, S, R)
        BY <1>1 DEF InFront, StrictOrder
    <2>3. IsFiniteSet(InFront(b, S, R)) /\ IsFiniteSet(InFront(a, S, R))
        BY RankBound
    <2>4. /\ Cardinality(InFront(a, S, R)) <= Cardinality(InFront(b, S, R))
          /\ Cardinality(InFront(a, S, R)) # Cardinality(InFront(b, S, R))
        BY <2>1, <2>2, <2>3, FS_Subset
    <2>5. Cardinality(InFront(a, S, R)) \in Nat /\ Cardinality(InFront(b, S, R)) \in Nat
        BY <2>3, FS_CardinalityType
    <2> QED BY <2>4, <2>5 DEF Rank
<1>2. Rank(x, S, R) \in Int /\ Rank(y, S, R) \in Int
    BY RankBound, FS_CardinalityType
<1>3. x = y \/ <<x, y>> \in R \/ <<y, x>> \in R
    BY DEF StrictOrder
<1>4. <<x, x>> \notin R /\ (<<y, x>> \in R => <<x, y>> \notin R)
    BY DEF StrictOrder
<1> QED BY <1>1, <1>2, <1>3, <1>4

\* Every number below the size of the set is the rank of just one member.
LEMMA RankUnique ==
    ASSUME NEW S, IsFiniteSet(S), NEW R, StrictOrder(R, S),
           NEW k \in 0..(Cardinality(S) - 1)
    PROVE  /\ \E x \in S : Rank(x, S, R) = k
           /\ \A x, y \in S : Rank(x, S, R) = Rank(y, S, R) => x = y
<1> DEFINE f == [x \in S |-> Rank(x, S, R)]
           T == {f[x] : x \in S}
<1>1. Cardinality(S) \in Nat
    BY FS_CardinalityType
<1>2. \A x, y \in S : Rank(x, S, R) = Rank(y, S, R) => x = y
    <2> SUFFICES ASSUME NEW x \in S, NEW y \in S, Rank(x, S, R) = Rank(y, S, R)
                 PROVE  x = y
        OBVIOUS
    <2>1. Rank(x, S, R) \in Int /\ Rank(y, S, R) \in Int
        BY RankBound, <1>1
    <2>2. ~ (<<x, y>> \in R) /\ ~ (<<y, x>> \in R)
        BY <2>1, RankGrows
    <2> QED BY <2>2 DEF StrictOrder
<1>3. \A x, y \in S : f[x] = f[y] => x = y
    BY <1>2
<1>4. Cardinality(T) = Cardinality(S)
    <2> HIDE DEF f
    <2> QED BY <1>3, ImageCardinality
<1>5. T \in SUBSET (0..(Cardinality(S) - 1))
    BY RankBound
<1>6. /\ IsFiniteSet(0..(Cardinality(S) - 1))
      /\ Cardinality(0..(Cardinality(S) - 1)) = Cardinality(S)
    BY <1>1, FS_Interval
<1>7. T = 0..(Cardinality(S) - 1)
    <2> HIDE DEF T
    <2> QED BY <1>4, <1>5, <1>6, FS_Subset
<1> QED BY <1>2, <1>7

\* A finite set that is not empty has a member in front of all others.
LEMMA FrontExists ==
    ASSUME NEW S, IsFiniteSet(S), NEW R, StrictOrder(R, S), S # {}
    PROVE  \E x \in S : \A y \in S : x = y \/ <<x, y>> \in R
<1>1. Cardinality(S) \in Nat /\ Cardinality(S) # 0
    BY FS_CardinalityType, FS_EmptySet
<1>2. PICK x \in S : Rank(x, S, R) = 0
    <2>1. 0 \in 0..(Cardinality(S) - 1)
        BY <1>1
    <2> QED BY <2>1, RankUnique
<1>3. InFront(x, S, R) = {}
    <2>1. IsFiniteSet(InFront(x, S, R))
        BY RankBound
    <2> QED BY <1>2, <2>1, FS_EmptySet DEF Rank
<1>4. \A y \in S : <<y, x>> \notin R
    BY <1>3 DEF InFront
<1> QED BY <1>4 DEF StrictOrder

\* Of those that few are in front of there are as many as were asked for, if
\* anyone is left out at all.
LEMMA FirstFew ==
    ASSUME NEW S, IsFiniteSet(S), NEW R, StrictOrder(R, S), NEW n \in Nat,
           NEW z \in S, Rank(z, S, R) >= n
    PROVE  /\ Cardinality({x \in S : Rank(x, S, R) < n}) = n
           /\ \A x \in S : Rank(x, S, R) < n => <<x, z>> \in R
<1> DEFINE F == {x \in S : Rank(x, S, R) < n}
           f == [x \in F |-> Rank(x, S, R)]
<1>1. Cardinality(S) \in Nat /\ Rank(z, S, R) \in 0..(Cardinality(S) - 1)
    BY FS_CardinalityType, RankBound
<1>2. n - 1 < Cardinality(S)
    BY <1>1
<1>3. \A x \in S : Rank(x, S, R) \in Nat
    BY RankBound, <1>1
<1>4. {f[x] : x \in F} = 0..(n - 1)
    <2>1. ASSUME NEW k \in 0..(n - 1)
          PROVE  \E x \in F : f[x] = k
        <3>1. k \in 0..(Cardinality(S) - 1)
            BY <1>1, <1>2
        <3>2. PICK x \in S : Rank(x, S, R) = k
            BY <3>1, RankUnique
        <3> QED BY <3>2
    <2>2. \A x \in F : f[x] \in 0..(n - 1)
        BY <1>3
    <2> QED BY <2>1, <2>2
<1>5. IsFiniteSet(F)
    BY FS_Subset
<1>6. \A x, y \in F : f[x] = f[y] => x = y
    <2>1. Rank(z, S, R) \in 0..(Cardinality(S) - 1) BY <1>1
    <2> QED BY <2>1, RankUnique
<1>7. Cardinality({f[x] : x \in F}) = Cardinality(F)
    <2> HIDE DEF F, f
    <2> QED BY <1>5, <1>6, ImageCardinality
<1>8. Cardinality(0..(n - 1)) = n
    BY FS_Interval
<1>9. \A x \in S : Rank(x, S, R) < n => <<x, z>> \in R
    BY <1>1, <1>3, RankGrows
<1> QED BY <1>4, <1>7, <1>8, <1>9
----------------------------------------------------------------------------
(* Induction and recursion up to a number, with sets and functions where   *)
(* the theorems of the library have operators.                             *)

\* What holds of 0, and of every number up to N that it holds of the number
\* before, holds of all numbers up to N.
LEMMA Induction ==
    ASSUME NEW N \in Nat, NEW T, 0 \in T,
           \A n \in 1..N : n - 1 \in T => n \in T
    PROVE  \A n \in 0..N : n \in T
<1> DEFINE F == {n \in 0..N : n \notin T}
<1> SUFFICES F = {}
    OBVIOUS
<1> SUFFICES ASSUME F # {} PROVE FALSE
    OBVIOUS
<1>1. F \in SUBSET Nat
    OBVIOUS
<1>2. PICK x \in F : \A y \in F : x <= y
    <2> HIDE DEF F
    <2> QED BY <1>1, Least
<1>3. x \in 0..N /\ x # 0 /\ x \notin T
    OBVIOUS
<1>4. x - 1 \in 0..N /\ x - 1 \notin F
    BY <1>2, <1>3
<1> QED BY <1>3, <1>4

\* f begins with e and goes on by step, which is given the number and the value
\* before.
Iterates(f, N, e, step) ==
    f[0] = e /\ \A n \in 1..N : f[n] = step[<<n, f[n - 1]>>]

\* There is such a function.
LEMMA Recursion ==
    ASSUME NEW N \in Nat, NEW S, NEW e \in S, NEW step,
           \A n \in 1..N, s \in S : step[<<n, s>>] \in S
    PROVE  \E f \in [0..N -> S] : Iterates(f, N, e, step)
<1> DEFINE Good(f, m) == /\ f \in [0..m -> S] /\ f[0] = e
                         /\ \A n \in 1..m : f[n] = step[<<n, f[n - 1]>>]
           T == {m \in 0..N : \E f : Good(f, m)}
<1>1. 0 \in T
    <2> DEFINE f == [n \in 0..0 |-> e]
    <2>1. f \in [0..0 -> S] /\ f[0] = e /\ 1..0 = {}
        OBVIOUS
    <2>2. Good(f, 0)
        <3> HIDE DEF f
        <3> QED BY <2>1
    <2>3. 0 \in 0..N
        OBVIOUS
    <2> HIDE DEF f, Good
    <2> QED BY <2>2, <2>3
<1>2. ASSUME NEW m \in 1..N, m - 1 \in T
      PROVE  m \in T
    <2>1. PICK g : Good(g, m - 1)
        BY <1>2
    <2> DEFINE f == [n \in 0..m |-> IF n = m THEN step[<<m, g[m - 1]>>] ELSE g[n]]
    <2>2. g[m - 1] \in S
        BY <2>1
    <2>3. f \in [0..m -> S] /\ f[0] = e
        BY <2>1, <2>2
    <2>4. ASSUME NEW n \in 1..m PROVE f[n] = step[<<n, f[n - 1]>>]
        <3>1. f[n - 1] = g[n - 1] /\ f[m] = step[<<m, g[m - 1]>>]
            OBVIOUS
        <3>2. CASE n = m
            <4> HIDE DEF f
            <4> QED BY <3>1, <3>2
        <3>3. CASE n # m
            <4>1. n \in 1..(m - 1) /\ f[n] = g[n]
                BY <3>3
            <4> HIDE DEF f
            <4> QED BY <2>1, <3>1, <4>1
        <3> QED BY <3>2, <3>3
    <2>5. Good(f, m)
        <3> HIDE DEF f
        <3> QED BY <2>3, <2>4
    <2> HIDE DEF f, Good
    <2> QED BY <2>5
<1>3. N \in T
    <2> HIDE DEF T
    <2> QED BY <1>1, <1>2, Induction
<1> QED BY <1>3 DEF Iterates
=============================================================================
