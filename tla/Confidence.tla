----------------------------- MODULE Confidence -----------------------------
(***************************************************************************)
(* The confidence model: a score from which signals fired and which could  *)
(* have.  Weights are in hundredths, scores in ten-thousandths, the four   *)
(* decimals the code rounds to.                                            *)
(***************************************************************************)
EXTENDS Integers

CONSTANTS
    Weight,       \* per signal
    PerEvent,     \* what one contradicting event costs, a score
    Cap,          \* and all of them together
    Likely,       \* the lower bounds of the bands
    Plausible

Signals == {"change_path_overlap", "log_signature_match", "metric_correlation",
            "temporal_proximity", "human_confirmation"}

One == 10000

\* What loading the configuration insists on.
AcceptedModel ==
    /\ Weight \in [Signals -> Nat \ {0}]
    /\ PerEvent \in Nat \ {0}
    /\ Cap \in 1..One
    /\ Plausible \in 1..One /\ Likely \in 1..One /\ Plausible < Likely

ASSUME ModelAssumption == AcceptedModel

\* The collector a signal depends on, by its name.
SourceOf ==
    [change_path_overlap |-> "git", log_signature_match |-> "logs",
     metric_correlation |-> "alerts", human_confirmation |-> "chat"]

Available(sources) ==
    {s \in Signals : s \in DOMAIN SourceOf => SourceOf[s] \in sources}

\* Fault: what fired counts, whether its source was there or not.
Counted_Fired(fired, available) == fired

Counted(fired, available) == fired \intersect available

W(s, S) == IF s \in S THEN Weight[s] ELSE 0

WeightOf(S) ==
    W("change_path_overlap", S) + W("log_signature_match", S)
    + W("metric_correlation", S) + W("temporal_proximity", S)
    + W("human_confirmation", S)

Lower(a, b) == IF a <= b THEN a ELSE b

\* Fault: penalties may exceed what speaks for it.
Clamp_Above(x) == Lower(x, One)

Clamp(x) == IF x < 0 THEN 0 ELSE Lower(x, One)

\* The quotient of two sums of weights, rounded; no signals, no confidence.
RawSupport(fired, available) ==
    LET n == WeightOf(Counted(fired, available))
        d == WeightOf(available)
    IN IF d > 0 THEN (2 * One * n + d) \div (2 * d) ELSE 0

\* Fault: one objection weighs as much as several.
Penalty_Once(contradicting) == IF contradicting > 0 THEN Lower(Cap, PerEvent) ELSE 0

\* Fault: there is no cap.
Penalty_Uncapped(contradicting) == PerEvent * contradicting

Penalty(contradicting) == Lower(Cap, PerEvent * contradicting)

Score(fired, available, contradicting) ==
    Clamp(RawSupport(fired, available) - Penalty(contradicting))

\* From the rounded score, so that number and word never disagree.
Band(score) ==
    IF score >= Likely THEN "likely"
    ELSE IF score >= Plausible THEN "plausible" ELSE "tentative"
=============================================================================
