------------------------------ MODULE Metrics -------------------------------
(***************************************************************************)
(* What the evaluation makes of one run of the pipeline on a golden        *)
(* incident, and of all of them.  Shares are in ten-thousandths, rounded   *)
(* down; those of fabricated citations, which the code compares with zero, *)
(* up.  Measures that nothing is decided on are left out.                  *)
(***************************************************************************)
EXTENDS Validator

CONSTANTS
    Root,         \* per case, the label of its root cause
    Alternates,   \* per case, labels that will do as well
    MustCite,     \* per case, labels the document should cite
    Matches       \* per label, the events it could mean

Whole == 10000

Share(n, d) == (Whole * n) \div d

RoundedUp(n, d) == (n + d - 1) \div d

\* A label that means nothing that was collected is a fault of the fixture.
Resolve(label, events) == Matches[label] \intersect events

UnresolvedIn(labels, events) == {l \in labels : Resolve(l, events) = {}}

\* Any label that does not resolve leaves nothing that is correct.
CorrectEvents(case, events) ==
    LET labels == {Root[case]} \union Alternates[case] IN
    IF UnresolvedIn(labels, events) = {}
    THEN UNION {Resolve(l, events) : l \in labels} ELSE {}

PrecisionAt1(hypotheses, correct) ==
    hypotheses # <<>> /\ hypotheses[1].supporting \intersect correct # {}

UnresolvedLabels(case, events) ==
    UnresolvedIn({Root[case]} \union Alternates[case] \union MustCite[case], events)

Coverage(report) ==
    IF report = None THEN 0
    ELSE IF report.factual = 0 THEN Whole ELSE Share(report.cited, report.factual)

HallucinationRate(report) ==
    IF report = None THEN Whole
    ELSE IF report.total = 0 THEN 0 ELSE RoundedUp(Whole * report.hallucinated, report.total)

\* Whether the document was accepted is no measure of its own.
ScoreCase(case, events, hypotheses, report) ==
    [case |-> case,
     precision |-> IF PrecisionAt1(hypotheses, CorrectEvents(case, events))
                   THEN Whole ELSE 0,
     coverage |-> Coverage(report),
     hallucinated |-> HallucinationRate(report),
     unresolved |-> UnresolvedLabels(case, events)]

Total(values) ==
    LET sum[n \in 0..Len(values)] == IF n = 0 THEN 0 ELSE sum[n - 1] + values[n]
    IN sum[Len(values)]

Each(results, measure) == [n \in DOMAIN results |-> results[n][measure]]

Mean(values) == IF values = <<>> THEN 0 ELSE Total(values) \div Len(values)

Aggregate(results) ==
    [cases |-> Len(results),
     precision |-> Mean(Each(results, "precision")),
     coverage |-> Mean(Each(results, "coverage")),
     hallucinated |->
        IF results = <<>> THEN 0
        ELSE RoundedUp(Total(Each(results, "hallucinated")), Len(results))]

CoverageMin == 9500
PrecisionMin == 7000

\* The three hard gates; those on decoys and cost only warn.
GateFailures(suite) ==
    {g \in {"hallucinations", "coverage", "precision"} :
        \/ g = "hallucinations" /\ suite.hallucinated # 0
        \/ g = "coverage" /\ suite.coverage < CoverageMin
        \/ g = "precision" /\ suite.precision < PrecisionMin}
=============================================================================
