-------------------------- MODULE MCEvidenceGraph --------------------------
EXTENDS EvidenceGraph

Event(id, type, ts, symptom, count, attrs) ==
    [id |-> id, type |-> type, ts |-> ts, symptom |-> symptom, count |-> count,
     attrs |-> attrs]

Commit(id, ts) == Event(id, "commit", ts, "none", 1, {})
Log(ts, n) == Event(2, "log_error", ts, "pool exhausted", n, {})
Alert(id, ts, attrs) == Event(id, "alert_fired", ts, "5xx", 1, attrs)

\* Incident 1: its log line may not have been shipped yet, nor its alert have
\* an end. Incident 2, later, has the same error, hence the same node.
MCObservable ==
    [i \in {1, 2} |->
        IF i = 1
        THEN {{Commit(1, 1), Alert(3, 3, {})},
              {Commit(1, 1), Alert(3, 3, {"resolved_at"}), Log(2, 1)}}
        ELSE {{Commit(4, 6), Log(7, 2), Alert(5, 8, {})}}]

MCSpan == [i \in {1, 2} |-> IF i = 1 THEN [start |-> 1, end |-> 4]
                            ELSE [start |-> 6, end |-> 9]]

\* 4 is the other incident's commit, which a chain to their log line shows.
MCAnswers == {[supporting |-> {1, 2, 3}, contradicting |-> {}],
              [supporting |-> {1, 3, 4}, contradicting |-> {3}]}

MCTarget == [p \in {"run1", "sweep1", "run2"} |-> IF p = "run2" THEN 2 ELSE 1]
=============================================================================
