------------------------------ MODULE Analyst -------------------------------
(***************************************************************************)
(* What the analyst makes of a reply of the model: the hypotheses it       *)
(* proposes, with the evidence that exists and a score that is not its     *)
(* own.                                                                    *)
(***************************************************************************)
EXTENDS Confidence, Linker

\* What a list of the model names.
Named(list) == {list[n] : n \in DOMAIN list}

Contradicting(item, known) == Named(item.contradicting) \intersect known

\* Fault: an event the model puts on both sides stays on both.
Supporting_BothSides(item, known) == Named(item.supporting) \intersect known

\* The objection wins.
Supporting(item, known) ==
    (Named(item.supporting) \intersect known) \ Named(item.contradicting)

Event(id, E) == CHOOSE e \in E : e.id = id

\* The earliest event that supports it, and the first the model names of
\* those at the same time.
Cause(item, E) ==
    LET ts(n) == Event(item.supporting[n], E).ts
        real == {n \in DOMAIN item.supporting :
                    item.supporting[n] \in Supporting(item, Ids(E))}
        first == CHOOSE n \in real : \A m \in real :
                    ts(n) < ts(m) \/ (ts(n) = ts(m) /\ n <= m)
    IN Event(item.supporting[first], E)

\* Those of any chain that the cause begins.
HeuristicsFor(cause, chains) ==
    UNION {l.heuristics : l \in {l \in chains : l.cause = cause.id}}

\* An error that comes after the cause and, whatever its service, not before.
HasNewErrorSignature(cause, symptoms, E) ==
    LET prior == {e.signature : e \in {e \in E : e.ts <= cause.ts}} IN
    \E e \in symptoms :
        /\ e.type = "log_error" /\ e.signature # None
        /\ e.ts > cause.ts /\ e.signature \notin prior

HasCorrelatedAlert(cause, symptoms) ==
    \E e \in symptoms :
        /\ e.type = "alert_fired" /\ e.ts > cause.ts
        /\ cause.service = None \/ e.service = cause.service

SignalsFor(cause, symptoms, E, heuristics) ==
    {s \in Signals :
        \/ s \in {"temporal_proximity", "change_path_overlap"} \intersect heuristics
        \/ s = "log_signature_match" /\ HasNewErrorSignature(cause, symptoms, E)
        \/ s = "metric_correlation" /\ HasCorrelatedAlert(cause, symptoms)
        \/ s = "human_confirmation" /\ \E e \in symptoms : e.type = "chat_message"}

Hypothesis(item, E, chains, sources) ==
    LET known == Ids(E)
        supporting == Supporting(item, known)
        contradicting == Contradicting(item, known)
        cause == Cause(item, E)
        symptoms == {e \in E : e.id \in supporting \ {cause.id}}
        fired == SignalsFor(cause, symptoms, E, HeuristicsFor(cause, chains))
        available == Available(sources)
        score == Score(fired, available, Cardinality(contradicting))
    IN [statement |-> item.statement, supporting |-> supporting,
        contradicting |-> contradicting, fired |-> fired, available |-> available,
        confidence |-> score, band |-> Band(score)]

\* Without a statement, or without support, it is none.
Usable(item, known) == item.statement # "" /\ Supporting(item, known) # {}

\* Of those at the positions of a reply, one before the other: by confidence,
\* and among equals in the order of the model.
Ahead(m, n, hypotheses) ==
    \/ hypotheses[m].confidence > hypotheses[n].confidence
    \/ hypotheses[m].confidence = hypotheses[n].confidence /\ m < n

\* Fault: the order of the model stands.
Rerank_Proposed(hypotheses) ==
    LET place(n) == Cardinality({m \in DOMAIN hypotheses : m <= n})
    IN [k \in 1..Cardinality(DOMAIN hypotheses) |->
           hypotheses[CHOOSE n \in DOMAIN hypotheses : place(n) = k]]

Rerank(hypotheses) ==
    LET place(n) == 1 + Cardinality({m \in DOMAIN hypotheses : Ahead(m, n, hypotheses)})
    IN [k \in 1..Cardinality(DOMAIN hypotheses) |->
           hypotheses[CHOOSE n \in DOMAIN hypotheses : place(n) = k]]

Analyze(items, E, chains, sources) ==
    LET usable == {n \in DOMAIN items : Usable(items[n], Ids(E))}
    IN Rerank([n \in usable |-> Hypothesis(items[n], E, chains, sources)])
=============================================================================
