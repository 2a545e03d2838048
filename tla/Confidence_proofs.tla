------------------------- MODULE Confidence_proofs --------------------------
(***************************************************************************)
(* What the score promises for every choice of weights, penalties and      *)
(* bands that the configuration accepts.                                   *)
(***************************************************************************)
EXTENDS Confidence, TLAPS

\* A sum of weights is a natural number, and no smaller for a larger set.
LEMMA WeightNat ==
    ASSUME NEW S \in SUBSET Signals
    PROVE  WeightOf(S) \in Nat
<1>1. \A s \in Signals : Weight[s] \in Nat
    BY ModelAssumption DEF AcceptedModel
<1>2. \A s \in Signals : W(s, S) \in Nat
    BY <1>1 DEF W
<1> QED BY <1>2 DEF WeightOf, Signals

\* Without one of its signals a set weighs less by just that one's weight.
LEMMA WeightWithout ==
    ASSUME NEW S \in SUBSET Signals, NEW s \in S
    PROVE  WeightOf(S) = WeightOf(S \ {s}) + Weight[s]
<1>1. \A t \in Signals : Weight[t] \in Nat
    BY ModelAssumption DEF AcceptedModel
<1>2. \A t \in Signals : t # s => W(t, S) = W(t, S \ {s})
    BY DEF W
<1>3. W(s, S) = Weight[s] /\ W(s, S \ {s}) = 0
    BY DEF W
<1>4. \A t \in Signals : W(t, S) \in Nat /\ W(t, S \ {s}) \in Nat
    BY <1>1 DEF W
<1>5. s \in Signals OBVIOUS
<1> QED BY <1>1, <1>2, <1>3, <1>4, <1>5, SMTT(30) DEF WeightOf, Signals

\* What counts weighs no more than what is available.
LEMMA CountedLighter ==
    ASSUME NEW F \in SUBSET Signals, NEW A \in SUBSET Signals
    PROVE  WeightOf(Counted(F, A)) <= WeightOf(A)
<1>1. \A t \in Signals : Weight[t] \in Nat
    BY ModelAssumption DEF AcceptedModel
<1>2. \A t \in Signals : /\ W(t, Counted(F, A)) \in Nat /\ W(t, A) \in Nat
                         /\ W(t, Counted(F, A)) <= W(t, A)
    BY <1>1 DEF W, Counted
<1> QED BY <1>2 DEF WeightOf, Signals

\* A quotient is the greatest number that fits.
LEMMA Quotient ==
    ASSUME NEW a \in Nat, NEW b \in Nat \ {0}
    PROVE  /\ a \div b \in Nat
           /\ b * (a \div b) <= a
           /\ a < b * (a \div b) + b
           /\ \A q \in Nat : b * q <= a => q <= a \div b
  OBVIOUS

\* A share that is no more than the whole grows when both of its parts do by
\* the same, also when it is rounded.
LEMMA ShareGrows ==
    ASSUME NEW n \in Nat, NEW d \in Nat \ {0}, NEW w \in Nat, n <= d
    PROVE  (2 * One * n + d) \div (2 * d)
               <= (2 * One * (n + w) + (d + w)) \div (2 * (d + w))
<1> DEFINE a == 2 * One * n + d
           b == 2 * d
           q == a \div b
           c == 2 * One * (n + w) + (d + w)
           e == 2 * (d + w)
<1>1. a \in Nat /\ b \in Nat \ {0} /\ c \in Nat /\ e \in Nat \ {0}
    BY DEF One
<1>2. q \in Nat /\ b * q <= a
    <2> HIDE DEF a, b
    <2> QED BY <1>1, Quotient
<1>3. q <= One
    <2> HIDE DEF q
    <2>1. SUFFICES ASSUME q >= One + 1 PROVE FALSE
        BY <1>2 DEF One
    <2>2. PICK r \in Nat : q = One + 1 + r
        <3>1. q - (One + 1) \in Nat BY <1>2, <2>1 DEF One
        <3> QED BY <3>1, <1>2 DEF One
    <2>3. d * q = d * (One + 1) + d * r /\ d * r \in Nat
        BY <2>2 DEF One
    <2>4. b * q = 2 * (d * q)
        BY <1>2
    <2> QED BY <1>2, <2>3, <2>4 DEF One
<1>4. e * q <= c
    <2> HIDE DEF q
    <2>1. e * q = b * q + 2 * (w * q)
        BY <1>2
    <2>2. w * q <= w * One
        <3>1. PICK r \in Nat : One = q + r
            <4>1. One - q \in Nat BY <1>2, <1>3 DEF One
            <4> QED BY <4>1, <1>2 DEF One
        <3>2. w * One = w * q + w * r /\ w * r \in Nat
            BY <3>1, <1>2
        <3> QED BY <3>2, <1>2 DEF One
    <2>3. w * q \in Nat BY <1>2
    <2> QED BY <1>2, <2>1, <2>2, <2>3 DEF One
<1>5. q <= c \div e
    <2> HIDE DEF q, c, e
    <2> QED BY <1>1, <1>2, <1>4, Quotient
<1> QED BY <1>5

\* Support is a natural number.
LEMMA SupportNat ==
    ASSUME NEW F \in SUBSET Signals, NEW A \in SUBSET Signals
    PROVE  RawSupport(F, A) \in Nat
<1>1. WeightOf(Counted(F, A)) \in Nat
    BY WeightNat DEF Counted
<1>2. WeightOf(A) \in Nat
    BY WeightNat
<1> DEFINE n == WeightOf(Counted(F, A))
           d == WeightOf(A)
<1> HIDE DEF n, d
<1>3. ASSUME d > 0
      PROVE  (2 * One * n + d) \div (2 * d) \in Nat
    <2>1. 2 * One * n + d \in Nat /\ 2 * d \in Nat \ {0}
        BY <1>1, <1>2, <1>3 DEF One, n, d
    <2> QED BY <2>1, Quotient
<1> QED BY <1>1, <1>2, <1>3 DEF RawSupport, n, d

\* A penalty is a natural number, and grows with the objections.
LEMMA PenaltyGrows ==
    ASSUME NEW m \in Nat, NEW k \in Nat
    PROVE  /\ Penalty(m) \in Nat
           /\ Penalty(m) <= Penalty(m + k)
<1>1. PerEvent \in Nat /\ Cap \in Nat
    BY ModelAssumption DEF AcceptedModel, One
<1>2. PerEvent * (m + k) = PerEvent * m + PerEvent * k
    BY <1>1
<1>3. PerEvent * m \in Nat /\ PerEvent * k \in Nat
    BY <1>1
<1>4. PerEvent * m <= PerEvent * (m + k)
    BY <1>2, <1>3
<1> QED BY <1>1, <1>3, <1>4 DEF Penalty, Lower

----------------------------------------------------------------------------
\* Whatever fired, whatever was collected and however much speaks against it,
\* a score is between nothing and one.
THEOREM ScoreInRange ==
    ASSUME NEW F \in SUBSET Signals, NEW A \in SUBSET Signals, NEW m \in Nat
    PROVE  Score(F, A, m) \in 0..One
<1>1. RawSupport(F, A) \in Int
    BY SupportNat
<1>2. Penalty(m) \in Int
    BY PenaltyGrows
<1>3. \A x \in Int : Clamp(x) \in 0..One
    BY DEF Clamp, Lower, One
<1>4. RawSupport(F, A) - Penalty(m) \in Int
    BY <1>1, <1>2
<1> QED BY <1>3, <1>4 DEF Score

\* Evidence against a hypothesis never raises its score.
THEOREM ObjectionsNeverHelp ==
    ASSUME NEW F \in SUBSET Signals, NEW A \in SUBSET Signals,
           NEW m \in Nat, NEW k \in Nat
    PROVE  Score(F, A, m + k) <= Score(F, A, m)
<1>1. RawSupport(F, A) \in Int
    BY SupportNat
<1>2. Penalty(m) \in Int /\ Penalty(m) <= Penalty(m + k)
    BY PenaltyGrows
<1>3. Penalty(m + k) \in Int
    <2>1. m + k \in Nat OBVIOUS
    <2> QED BY <2>1, PenaltyGrows
<1> QED BY <1>1, <1>2, <1>3 DEF Score, Clamp, Lower, One

\* A source that fails takes its signal out of both sides of the quotient, and
\* some objections with it. If the signal spoke for the hypothesis, the score
\* rises by no more than what those objections cost.
THEOREM LostSupportNeverHelps ==
    ASSUME NEW F \in SUBSET Signals, NEW A \in SUBSET Signals,
           NEW s \in F \intersect A, NEW m \in Nat, NEW k \in Nat
    PROVE  Score(F, A \ {s}, m) <= Score(F, A, m + k) + Penalty(m + k) - Penalty(m)
<1> DEFINE B == A \ {s}
           n == WeightOf(Counted(F, B))
           d == WeightOf(B)
           w == Weight[s]
<1>1. Counted(F, B) = Counted(F, A) \ {s} /\ s \in Counted(F, A)
    BY DEF Counted
<1>2. WeightOf(Counted(F, A)) = n + w /\ WeightOf(A) = d + w
    BY <1>1, WeightWithout DEF Counted
<1>3. n \in Nat /\ d \in Nat /\ w \in Nat \ {0} /\ n <= d
    BY WeightNat, CountedLighter, ModelAssumption DEF Counted, AcceptedModel
<1>4. RawSupport(F, B) <= RawSupport(F, A)
    <2>1. CASE d = 0
        BY <2>1, <1>3, SupportNat DEF RawSupport
    <2>2. CASE d # 0
        <3>1. RawSupport(F, B) = (2 * One * n + d) \div (2 * d)
            BY <1>3, <2>2 DEF RawSupport
        <3>2. RawSupport(F, A) =
                (2 * One * (n + w) + (d + w)) \div (2 * (d + w))
            BY <1>2, <1>3, <2>2 DEF RawSupport
        <3> HIDE DEF n, d, w
        <3> QED BY <3>1, <3>2, <1>3, <2>2, ShareGrows
    <2> QED BY <2>1, <2>2
<1>5. RawSupport(F, B) \in Int /\ RawSupport(F, A) \in Int
    BY SupportNat
<1>6. /\ Penalty(m) \in Int /\ Penalty(m + k) \in Int
      /\ Penalty(m) <= Penalty(m + k)
    <2>1. m + k \in Nat
        OBVIOUS
    <2>2. Penalty(m + k) \in Nat
        BY <2>1, PenaltyGrows
    <2>3. Penalty(m) \in Nat /\ Penalty(m) <= Penalty(m + k)
        BY PenaltyGrows
    <2> QED BY <2>2, <2>3
<1> HIDE DEF B
<1> QED BY <1>4, <1>5, <1>6 DEF Score, Clamp, Lower, One, B

\* A share of a smaller whole is no smaller, also when it is rounded.
LEMMA ShareOfLess ==
    ASSUME NEW n \in Nat, NEW d \in Nat \ {0}, NEW w \in Nat
    PROVE  (2 * One * n + (d + w)) \div (2 * (d + w))
               <= (2 * One * n + d) \div (2 * d)
<1> DEFINE a == 2 * One * n + (d + w)
           b == 2 * (d + w)
           q == a \div b
           c == 2 * One * n + d
           e == 2 * d
<1>1. a \in Nat /\ b \in Nat \ {0} /\ c \in Nat /\ e \in Nat \ {0}
    BY DEF One
<1>2. q \in Nat /\ b * q <= a
    <2> HIDE DEF a, b
    <2> QED BY <1>1, Quotient
<1>3. e * q <= c
    <2> HIDE DEF q
    <2>1. CASE q = 0
        BY <1>1, <2>1
    <2>2. CASE q # 0
        <3>1. PICK r \in Nat : q = r + 1
            <4>1. q - 1 \in Nat BY <1>2, <2>2
            <4> QED BY <4>1, <1>2
        <3>2. b * q = 2 * (d * r) + 2 * (w * r) + 2 * d + 2 * w
            <4>1. (d + w) * q = d * q + w * q
                BY <1>2
            <4>2. d * q = d * r + d /\ w * q = w * r + w
                BY <3>1
            <4>3. b * q = 2 * ((d + w) * q)
                BY <1>2
            <4> QED BY <3>1, <4>1, <4>2, <4>3
        <3>3. e * q = 2 * (d * r) + 2 * d
            BY <3>1
        <3>4. d * r \in Nat /\ w * r \in Nat
            BY <3>1
        <3> QED BY <1>2, <3>2, <3>3, <3>4 DEF One
    <2> QED BY <2>1, <2>2
<1>4. q <= c \div e
    <2> HIDE DEF q, c, e
    <2> QED BY <1>1, <1>2, <1>3, Quotient
<1> QED BY <1>4

\* A source that is silent about a hypothesis never lowers its score by failing,
\* whatever objections it takes with it: the whole it is measured by shrinks.
THEOREM LostSilenceNeverHurts ==
    ASSUME NEW F \in SUBSET Signals, NEW A \in SUBSET Signals,
           NEW s \in A \ F, NEW m \in Nat, NEW k \in Nat
    PROVE  Score(F, A \ {s}, m) >= Score(F, A, m + k)
<1> DEFINE B == A \ {s}
           n == WeightOf(Counted(F, B))
           d == WeightOf(B)
           w == Weight[s]
<1>1. Counted(F, A) = Counted(F, B)
    BY DEF Counted
<1>2. WeightOf(Counted(F, A)) = n /\ WeightOf(A) = d + w
    BY <1>1, WeightWithout
<1>3. n \in Nat /\ d \in Nat /\ w \in Nat \ {0} /\ n <= d
    BY WeightNat, CountedLighter, ModelAssumption DEF Counted, AcceptedModel
<1>4. RawSupport(F, B) >= RawSupport(F, A)
    <2>1. CASE d = 0
        <3>1. n = 0 /\ RawSupport(F, B) = 0
            BY <1>3, <2>1 DEF RawSupport
        <3>2. RawSupport(F, A) = (2 * One * n + (d + w)) \div (2 * (d + w))
            BY <1>2, <1>3, <2>1 DEF RawSupport
        <3>3. RawSupport(F, A) = w \div (2 * w)
            <4> HIDE DEF n, d, w
            <4> QED BY <1>3, <2>1, <3>1, <3>2 DEF One
        <3>4. w \div (2 * w) = 0
            <4> HIDE DEF w
            <4>1. w \in Nat /\ 2 * w \in Nat \ {0}
                BY <1>3
            <4> DEFINE q == w \div (2 * w)
            <4>2. q \in Nat /\ (2 * w) * q <= w
                BY <4>1, Quotient
            <4> HIDE DEF q
            <4>3. ASSUME q # 0 PROVE FALSE
                <5>1. PICK r \in Nat : q = r + 1
                    <6>1. q - 1 \in Nat BY <4>2, <4>3
                    <6> QED BY <6>1, <4>2
                <5>2. (2 * w) * q = 2 * (w * r) + 2 * w /\ w * r \in Nat
                    BY <1>3, <5>1
                <5> QED BY <1>3, <4>2, <5>2
            <4> QED BY <4>3 DEF q
        <3> QED BY <3>1, <3>3, <3>4
    <2>2. CASE d # 0
        <3>1. RawSupport(F, B) = (2 * One * n + d) \div (2 * d)
            BY <1>3, <2>2 DEF RawSupport
        <3>2. RawSupport(F, A) = (2 * One * n + (d + w)) \div (2 * (d + w))
            BY <1>2, <1>3, <2>2 DEF RawSupport
        <3>3. RawSupport(F, B) \in Int /\ RawSupport(F, A) \in Int
            BY SupportNat
        <3> HIDE DEF n, d, w, B
        <3> QED BY <3>1, <3>2, <3>3, <1>3, <2>2, ShareOfLess
    <2> QED BY <2>1, <2>2
<1>5. RawSupport(F, B) \in Int /\ RawSupport(F, A) \in Int
    BY SupportNat
<1>6. /\ Penalty(m) \in Int /\ Penalty(m + k) \in Int
      /\ Penalty(m) <= Penalty(m + k)
    <2>1. m + k \in Nat
        OBVIOUS
    <2>2. Penalty(m + k) \in Nat
        BY <2>1, PenaltyGrows
    <2>3. Penalty(m) \in Nat /\ Penalty(m) <= Penalty(m + k)
        BY PenaltyGrows
    <2> QED BY <2>2, <2>3
<1> HIDE DEF B
<1> QED BY <1>4, <1>5, <1>6 DEF Score, Clamp, Lower, One, B

\* Objections, however many, zero only what has no more support than the cap.
LEMMA OnlyTheWeakAreZeroed ==
    ASSUME NEW F \in SUBSET Signals, NEW A \in SUBSET Signals, NEW m \in Nat,
           Score(F, A, m) = 0
    PROVE  RawSupport(F, A) <= Cap
<1>1. RawSupport(F, A) \in Int /\ Penalty(m) \in Int /\ Cap \in Int
    <2>1. 0 \in Nat
        OBVIOUS
    <2>2. Penalty(m) \in Nat
        BY <2>1, PenaltyGrows
    <2> QED BY <2>2, SupportNat, ModelAssumption DEF AcceptedModel, One
<1>2. Penalty(m) <= Cap
    <2>1. PerEvent * m \in Int
        BY ModelAssumption DEF AcceptedModel
    <2> DEFINE x == PerEvent * m
    <2>2. Penalty(m) = Lower(Cap, x)
        BY DEF Penalty
    <2> HIDE DEF x
    <2>3. Lower(Cap, x) <= Cap
        BY <1>1, <2>1 DEF Lower, x
    <2> QED BY <2>2, <2>3
<1>3. \A x \in Int : x > 0 => Clamp(x) > 0
    BY DEF Clamp, Lower, One
<1>4. ~ (RawSupport(F, A) - Penalty(m) > 0)
    <2>1. RawSupport(F, A) - Penalty(m) \in Int
        BY <1>1
    <2> QED BY <1>3, <2>1 DEF Score
<1> QED BY <1>1, <1>2, <1>4

\* The support of a hypothesis is at most everything there is.
LEMMA SupportBounded ==
    ASSUME NEW F \in SUBSET Signals, NEW A \in SUBSET Signals
    PROVE  RawSupport(F, A) <= One
<1> DEFINE n == WeightOf(Counted(F, A))
           d == WeightOf(A)
<1>1. n \in Nat /\ d \in Nat /\ n <= d
    BY WeightNat, CountedLighter DEF Counted
<1>2. CASE d > 0
    <2> DEFINE a == 2 * One * n + d
               b == 2 * d
               q == a \div b
    <2> HIDE DEF n, d
    <2>1. a \in Nat /\ b \in Nat \ {0}
        BY <1>1, <1>2 DEF One
    <2>2. q \in Nat /\ b * q <= a
        <3> HIDE DEF a, b
        <3> QED BY <2>1, Quotient
    <2>3. RawSupport(F, A) = q
        BY <1>2 DEF RawSupport, n, d
    <2>4. q <= One
        <3> HIDE DEF q
        <3> SUFFICES ASSUME q >= One + 1 PROVE FALSE
            BY <2>2 DEF One
        <3>1. PICK r \in Nat : q = One + 1 + r
            <4>1. q - (One + 1) \in Nat BY <2>2 DEF One
            <4> QED BY <4>1, <2>2 DEF One
        <3>2. d * q = d * (One + 1) + d * r /\ d * r \in Nat
            BY <1>1, <3>1 DEF One
        <3>3. b * q = 2 * (d * q)
            BY <1>1, <2>2
        <3> QED BY <1>1, <1>2, <2>2, <3>2, <3>3 DEF One
    <2> QED BY <2>3, <2>4
<1>3. CASE ~ (d > 0)
    BY <1>3 DEF RawSupport, One
<1> QED BY <1>2, <1>3

\* If two objections cost more than what lies between certainty and the band,
\* two objections are the end of it, whatever else speaks for a hypothesis.
LEMMA Contested ==
    ASSUME NEW F \in SUBSET Signals, NEW A \in SUBSET Signals,
           NEW m \in Nat, m >= 2, Lower(Cap, 2 * PerEvent) > One - Likely
    PROVE  Score(F, A, m) < Likely
<1>1. RawSupport(F, A) \in Nat /\ RawSupport(F, A) <= One
    BY SupportNat, SupportBounded
<1>2. Penalty(2) \in Nat /\ Penalty(m) \in Nat /\ Penalty(2) <= Penalty(m)
    <2>1. PICK k \in Nat : m = 2 + k
        <3>1. m - 2 \in Nat /\ m = 2 + (m - 2)
            OBVIOUS
        <3> QED BY <3>1
    <2>2. Penalty(2) \in Nat /\ Penalty(2) <= Penalty(2 + k)
        BY PenaltyGrows
    <2>3. Penalty(m) \in Nat
        BY PenaltyGrows
    <2> QED BY <2>1, <2>2, <2>3
<1>3. Penalty(2) = Lower(Cap, 2 * PerEvent)
    <2>1. PerEvent * 2 = 2 * PerEvent
        BY ModelAssumption DEF AcceptedModel
    <2> QED BY <2>1 DEF Penalty
<1>4. Likely \in 1..One
    BY ModelAssumption DEF AcceptedModel
<1> DEFINE x == RawSupport(F, A) - Penalty(m)
<1>5. x \in Int /\ x < Likely
    <2>1. Penalty(2) > One - Likely
        BY <1>3
    <2>2. One \in Nat /\ Likely \in Int
        BY <1>4 DEF One
    <2> QED BY <1>1, <1>2, <2>1, <2>2
<1>6. Score(F, A, m) = Clamp(x)
    BY DEF Score
<1> HIDE DEF x
<1> QED BY <1>4, <1>5, <1>6 DEF Clamp, Lower, One
=============================================================================
