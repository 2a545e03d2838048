--------------------------- MODULE EvidenceGraph ---------------------------
(***************************************************************************)
(* What the pods write to Neo4j about the evidence of their incidents, one *)
(* statement, hence one transaction, a step.  A pass is one way of a pod   *)
(* through one incident: `run` collects, `sweep` resumes from what the     *)
(* graph holds.  Passes overlap, die anywhere and start again; incidents   *)
(* share Event nodes, because the id of a collapsed log error says nothing *)
(* of the incident.                                                        *)
(*                                                                         *)
(* Lifecycle has the order of a pod's writes and what becomes of its Job;  *)
(* here is what the writes do to each other.                               *)
(***************************************************************************)
EXTENDS Events, FiniteSets

CONSTANTS
    Incidents,
    Span,         \* per incident, its start and end time
    Observable,   \* per incident, what a collection may find: sets of events
    Passes,
    Target,       \* per pass, its incident
    Resumes,      \* the passes of sweeps
    Crashes,      \* how many passes may lose a pod
    AtOnce,       \* how many pods may work at the same time
    Answers,      \* what the model may answer: its evidence, for and against
    Window,       \* CAUSAL_WINDOW_MINUTES
    MinShared     \* fingerprint components that make two incidents similar

ASSUME SpanAssumption ==
    Span \in [Incidents -> [start : Nat, end : Nat]]
ASSUME TargetAssumption == Target \in [Passes -> Incidents]
ASSUME ResumesAssumption == Resumes \subseteq Passes
ASSUME BoundsAssumption ==
    /\ Crashes \in Nat /\ AtOnce \in Nat
    /\ Window \in Nat /\ MinShared \in Nat

\* One node an id, and no collection of nothing: that raises.
ASSUME ObservableAssumption ==
    /\ DOMAIN Observable = Incidents
    /\ \A i \in Incidents : \A v \in Observable[i] :
        /\ v # {}
        /\ \A a, b \in v : a.id = b.id => a = b

VARIABLES
    known,        \* the Incident nodes
    events,       \* the Event nodes
    attributes,   \* per event id, the names of the node's further attributes
    partOf,       \* PART_OF: pairs of an event id and an incident
    precedes,     \* PRECEDES: pairs of event ids
    caused,       \* POSSIBLY_CAUSED: pairs of event ids
    fingerprint,  \* per incident
    similar,      \* SIMILAR_TO: pairs of an incident and an earlier one
    hypotheses,   \* incidents with a Hypothesis node
    supports,     \* SUPPORTS: pairs of an event id and an incident
    contradicts,  \* CONTRADICTS, likewise
    pass,         \* per pass, where it is and what it has in memory
    \* Not in the code, for the properties:
    torn,         \* incidents written to since their chain was last dropped
    judged,       \* per incident, the replies whose hypotheses were stored
    contended     \* passes that did not have their incident to themselves

edges == <<precedes, caused, similar>>
verdicts == <<hypotheses, supports, contradicts, judged>>
nodes == <<known, events, attributes, partOf>>
vars == <<nodes, edges, fingerprint, verdicts, pass, torn, contended>>

Observed == UNION UNION {Observable[i] : i \in Incidents}
EventIds == Ids(Observed)

\* An id is a hash over what makes the symptom: two collections may differ in
\* an event's time and count, not in these.
ASSUME ObservedAssumption ==
    /\ IsFiniteSet(Observed)
    /\ \A a, b \in Observed :
        a.id = b.id => a.type = b.type /\ a.symptom = b.symptom

Node(id) == CHOOSE e \in events : e.id = id

PartOf(i) == {id \in EventIds : <<id, i>> \in partOf}

Timeline(i) == {e \in events : e.id \in PartOf(i)}

\* Fault: an event the model puts on both sides stays on both.
Reply_BothSides(answer, view) ==
    [supporting |-> answer.supporting \intersect Ids(view),
     contradicting |-> answer.contradicting \intersect Ids(view)]

\* What the analyst makes of the model's answer: one statement about the
\* incident, with the events it knows; the objection wins over the support.
Reply(answer, view) ==
    [supporting |-> (answer.supporting \ answer.contradicting) \intersect Ids(view),
     contradicting |-> answer.contradicting \intersect Ids(view)]

NoReply == [supporting |-> {}, contradicting |-> {}]

\* cause_type|effect_type|service|signature; an event's symptom stands for
\* its service and signature.
Component(c, e) == <<c.type, e.type, e.symptom>>

Components(i) ==
    {Component(Node(l[1]), Node(l[2])) : l \in
        {l \in caused : l[1] \in PartOf(i) /\ l[2] \in PartOf(i)}}

Fresh == [at |-> "idle", view |-> {}, rows |-> {}, links |-> {},
          carried |-> {}, reply |-> NoReply, died |-> FALSE]

Working == {"timeline", "incident", "events", "drop", "build", "link",
            "read", "set", "model", "hypotheses", "supports",
            "contradicts", "similar"}

TypeOK ==
    /\ known \subseteq Incidents
    /\ partOf \subseteq EventIds \X Incidents
    /\ precedes \subseteq EventIds \X EventIds
    /\ caused \subseteq EventIds \X EventIds
    /\ DOMAIN fingerprint = Incidents
    /\ similar \subseteq Incidents \X Incidents
    /\ hypotheses \subseteq Incidents
    /\ supports \union contradicts \subseteq EventIds \X Incidents
    /\ DOMAIN pass = Passes
    /\ \A p \in Passes :
        /\ pass[p].at \in Working \union {"idle", "done"}
        /\ pass[p].died \in BOOLEAN
        /\ pass[p].rows \subseteq pass[p].view
        /\ pass[p].at \notin Working => pass[p].view = {}
    /\ DOMAIN attributes = EventIds
    /\ torn \subseteq Incidents /\ contended \subseteq Passes

----------------------------------------------------------------------------
(* How a pass begins and ends.                                             *)

Goto(p, s) == pass' = [pass EXCEPT ![p].at = s]

\* What a pod made of the evidence goes with it; the reply is kept for the
\* properties.
Exit(p) == pass' = [pass EXCEPT ![p].at = "done", ![p].view = {}]

\* The other passes at work on the incident.
Rivals(p) ==
    {q \in Passes \ {p} : Target[q] = Target[p] /\ pass[q].at \in Working}

\* A pod has nothing in memory. A sweep takes incidents without a Hypothesis,
\* and with each the fingerprint it had then.
Start(p) ==
    /\ pass[p].at = "idle"
    /\ Cardinality({q \in Passes : pass[q].at \in Working}) < AtOnce
    /\ \/ /\ p \notin Resumes
          /\ \E v \in Observable[Target[p]] :
                pass' = [pass EXCEPT ![p] =
                    [Fresh EXCEPT !.at = "incident", !.view = v, !.rows = v,
                                  !.died = pass[p].died]]
       \/ /\ p \in Resumes
          /\ Target[p] \in known \ hypotheses
          /\ pass' = [pass EXCEPT ![p] =
                [Fresh EXCEPT !.at = "timeline",
                              !.carried = fingerprint[Target[p]],
                              !.died = pass[p].died]]
    /\ contended' = IF Rivals(p) = {} THEN contended \ {p}
                    ELSE contended \union Rivals(p) \union {p}
    /\ UNCHANGED <<nodes, edges, fingerprint, verdicts, torn>>

\* What a sweep goes by is the graph; without events it skips the incident.
ReadTimeline(p) ==
    /\ pass[p].at = "timeline"
    /\ LET v == Timeline(Target[p]) IN
        pass' = [pass EXCEPT ![p].at = IF v = {} THEN "done" ELSE "incident",
                             ![p].view = v, ![p].rows = v]
    /\ UNCHANGED <<nodes, edges, fingerprint, verdicts, torn, contended>>

\* Fault: what the pod had in memory outlives it.
Crash_KeepsMemory(p) ==
    /\ pass[p].at \in Working
    /\ Cardinality({q \in Passes : pass[q].died}) < Crashes
    /\ pass' = [pass EXCEPT ![p].at = "idle", ![p].died = TRUE]
    /\ UNCHANGED <<nodes, edges, fingerprint, verdicts, torn, contended>>

\* The pod is killed, or a statement raises. Between the two statements of
\* link_temporal that leaves the incident without a chain.
Crash(p) ==
    /\ pass[p].at \in Working
    /\ Cardinality({q \in Passes : pass[q].died}) < Crashes
    /\ pass' = [pass EXCEPT ![p] = [Fresh EXCEPT !.died = TRUE]]
    /\ torn' = IF pass[p].at = "build" THEN torn \union {Target[p]} ELSE torn
    /\ UNCHANGED <<nodes, edges, fingerprint, verdicts, contended>>

----------------------------------------------------------------------------
(* The evidence plane.                                                     *)

\* MERGE. An incident that comes without a fingerprint leaves it alone.
UpsertIncident(p) ==
    /\ pass[p].at = "incident"
    /\ known' = known \union {Target[p]}
    /\ fingerprint' = [fingerprint EXCEPT ![Target[p]] =
            IF pass[p].carried = {} THEN @ ELSE pass[p].carried]
    /\ Goto(p, "events")
    /\ UNCHANGED <<events, attributes, partOf, edges, verdicts, torn, contended>>

\* Fault: occurrences add up.
Merge_AddsCounts(rows) ==
    {e \in events : e.id \notin Ids(rows)} \union
    {IF \E e \in events : e.id = r.id
     THEN [r EXCEPT !.count = @ + Node(r.id).count] ELSE r : r \in rows}

\* MERGE on the id, then SET of every property an event has: the last writer's
\* view.
Merge(rows) == {e \in events : e.id \notin Ids(rows)} \union rows

\* SET e += attributes: those the row does not have are left on the node, an
\* alert's resolved_at, say, when an older view of it is written again.
AddAttributes(rows) ==
    [id \in EventIds |->
        attributes[id] \union UNION {r.attrs : r \in {r \in rows : r.id = id}}]

\* Fault: one statement is taken for all.
WriteEvents_FirstTypeOnly(p) ==
    /\ pass[p].at = "events"
    /\ LET batch == {r \in pass[p].rows : r.type = First(pass[p].rows).type} IN
        /\ events' = Merge(batch)
        /\ attributes' = AddAttributes(batch)
        /\ partOf' = partOf \union (Ids(batch) \X {Target[p]})
        /\ pass' = [pass EXCEPT ![p].rows = {}, ![p].at = "drop"]
        /\ torn' = torn \union {Target[p]}
    /\ UNCHANGED <<known, edges, fingerprint, verdicts, contended>>

\* One statement a type, in the order in which the types first appear.
WriteEvents(p) ==
    /\ pass[p].at = "events"
    /\ LET batch == {r \in pass[p].rows : r.type = First(pass[p].rows).type}
           left == pass[p].rows \ batch
       IN
        /\ events' = Merge(batch)
        /\ attributes' = AddAttributes(batch)
        /\ partOf' = partOf \union (Ids(batch) \X {Target[p]})
        /\ pass' = [pass EXCEPT ![p].rows = left,
                                ![p].at = IF left = {} THEN "drop" ELSE @]
        /\ torn' = torn \union {Target[p]}
    /\ UNCHANGED <<known, edges, fingerprint, verdicts, contended>>

\* Fault: the old chain stays.
DropChain_Keeps(p) ==
    /\ pass[p].at = "drop"
    /\ Goto(p, "build")
    /\ torn' = torn \ {Target[p]}
    /\ UNCHANGED <<nodes, edges, fingerprint, verdicts, contended>>

\* link_temporal, first statement: every edge between two of its events.
DropChain(p) ==
    /\ pass[p].at = "drop"
    /\ precedes' = precedes \ (PartOf(Target[p]) \X PartOf(Target[p]))
    /\ torn' = torn \ {Target[p]}
    /\ Goto(p, "build")
    /\ UNCHANGED <<nodes, caused, similar, fingerprint, verdicts, contended>>

\* The linker's proposals, over the events the pod has in memory.
Candidates(view) ==
    {<<l[1].id, l[2].id>> : l \in
        {l \in view \X view : MayCause(l[1], l[2], Window)}}

\* link_temporal, second statement: over what the graph holds by now. Like every
\* statement it is taken to see one state of the graph.
BuildChain(p) ==
    /\ pass[p].at = "build"
    /\ precedes' = precedes \union
            {<<l[1].id, l[2].id>> : l \in Consecutive(Timeline(Target[p]))}
    /\ pass' = [pass EXCEPT ![p].at = "link",
                            ![p].links = Candidates(pass[p].view)]
    /\ UNCHANGED <<nodes, caused, similar, fingerprint, verdicts, torn, contended>>

\* One statement a candidate; it raises when an end is missing.
LinkCandidate(p) ==
    /\ pass[p].at = "link"
    /\ LET l == CHOOSE l \in pass[p].links : TRUE IN
        \/ /\ pass[p].links = {}
           /\ Goto(p, "read")
           /\ UNCHANGED caused
        \/ /\ pass[p].links # {}
           /\ {l[1], l[2]} \subseteq Ids(events)
           /\ caused' = caused \union {l}
           /\ pass' = [pass EXCEPT ![p].links = @ \ {l}]
    /\ UNCHANGED <<nodes, precedes, similar, fingerprint, verdicts, torn, contended>>

\* Fault: the components of what the pod has in memory.
ReadComponents_InMemory(p) ==
    /\ pass[p].at = "read"
    /\ pass' = [pass EXCEPT ![p].at = "set",
            ![p].carried = {Component(Node(l[1]), Node(l[2])) :
                                l \in Candidates(pass[p].view)}]
    /\ UNCHANGED <<nodes, edges, fingerprint, verdicts, torn, contended>>

\* compute_fingerprint, first statement.
ReadComponents(p) ==
    /\ pass[p].at = "read"
    /\ pass' = [pass EXCEPT ![p].at = "set",
                            ![p].carried = Components(Target[p])]
    /\ UNCHANGED <<nodes, edges, fingerprint, verdicts, torn, contended>>

\* compute_fingerprint, second statement, whatever was set in between.
SetFingerprint(p) ==
    /\ pass[p].at = "set"
    /\ fingerprint' = [fingerprint EXCEPT ![Target[p]] = pass[p].carried]
    /\ pass' = [pass EXCEPT ![p].at = "model", ![p].carried = {}]
    /\ UNCHANGED <<nodes, edges, verdicts, torn, contended>>

----------------------------------------------------------------------------
(* What is stored after the run, if its document was published.            *)

\* The chains the model is shown beside the events: every edge to an event of
\* the incident, wherever its cause belongs.
Chains(i) == {l \in caused : l[2] \in PartOf(i)}

\* The reasoning and the verdict on the document. The model may cite any id of
\* the events or the chains; the analyst keeps those of the events it has. A
\* document may be published that rests on no hypothesis.
Judge(p) ==
    /\ pass[p].at = "model"
    /\ \/ Exit(p)
       \/ \E a \in Answers : LET r == Reply(a, pass[p].view) IN
            pass' = [pass EXCEPT
                ![p].at = IF r.supporting = {} THEN "similar" ELSE "hypotheses",
                ![p].reply = IF r.supporting = {} THEN NoReply ELSE r]
    /\ UNCHANGED <<nodes, edges, fingerprint, verdicts, torn, contended>>

\* persist_hypotheses, first statement.
MergeHypotheses(p) ==
    /\ pass[p].at = "hypotheses"
    /\ hypotheses' = hypotheses \union {Target[p]}
    /\ judged' = [judged EXCEPT ![Target[p]] = @ \union {pass[p].reply}]
    /\ Goto(p, "supports")
    /\ UNCHANGED <<nodes, edges, fingerprint, supports, contradicts,
                   torn, contended>>

\* The events of a list that MATCH finds; the rest are dropped silently.
Matched(p, ids) == (ids \intersect PartOf(Target[p])) \X {Target[p]}

\* persist_hypotheses, second statement.
MergeSupports(p) ==
    /\ pass[p].at = "supports"
    /\ supports' = supports \union Matched(p, pass[p].reply.supporting)
    /\ Goto(p, "contradicts")
    /\ UNCHANGED <<nodes, edges, fingerprint, hypotheses, contradicts, judged,
                   torn, contended>>

\* persist_hypotheses, third statement.
MergeContradicts(p) ==
    /\ pass[p].at = "contradicts"
    /\ contradicts' = contradicts \union Matched(p, pass[p].reply.contradicting)
    /\ Goto(p, "similar")
    /\ UNCHANGED <<nodes, edges, fingerprint, hypotheses, supports, judged,
                   torn, contended>>

Shared(i, past) == Cardinality(fingerprint[i] \intersect fingerprint[past])

\* Fault: any other incident counts as past.
SimilarPast_Any(i) ==
    {past \in known \ {i} : Shared(i, past) >= MinShared}

\* Incidents over before this one began, with enough in common.
SimilarPast(i) ==
    {past \in known \ {i} :
        Span[past].end < Span[i].start /\ Shared(i, past) >= MinShared}

LinkSimilar(p) ==
    /\ pass[p].at = "similar"
    /\ similar' = similar \union ({Target[p]} \X SimilarPast(Target[p]))
    /\ Exit(p)
    /\ UNCHANGED <<nodes, precedes, caused, fingerprint, verdicts, torn, contended>>

----------------------------------------------------------------------------
Init ==
    /\ known = {}
    /\ events = {} /\ attributes = [id \in EventIds |-> {}]
    /\ partOf = {}
    /\ precedes = {} /\ caused = {} /\ similar = {}
    /\ fingerprint = [i \in Incidents |-> {}]
    /\ hypotheses = {} /\ supports = {} /\ contradicts = {}
    /\ pass = [p \in Passes |-> Fresh]
    /\ torn = {} /\ contended = {}
    /\ judged = [i \in Incidents |-> {}]

WriteEvidence(p) ==
    \/ UpsertIncident(p)
    \/ WriteEvents(p)
    \/ DropChain(p)
    \/ BuildChain(p)
    \/ LinkCandidate(p)
    \/ ReadComponents(p)
    \/ SetFingerprint(p)

WriteReasoning(p) ==
    \/ MergeHypotheses(p)
    \/ MergeSupports(p)
    \/ MergeContradicts(p)
    \/ LinkSimilar(p)

Next == \E p \in Passes :
    \/ Start(p)
    \/ ReadTimeline(p)
    \/ WriteEvidence(p)
    \/ Judge(p)
    \/ WriteReasoning(p)
    \/ Crash(p)

Spec == Init /\ [][Next]_vars

----------------------------------------------------------------------------
(* Properties.                                                             *)

\* Whatever is rewritten, by retries, sweeps and other incidents, an id has
\* one node, and the node is what one collection saw: counts never add up.
\* Only attributes outlive a rewrite: a node has those of the collection last
\* written, and none that no collection saw on it.
StoredAsObserved ==
    /\ events \subseteq Observed
    /\ \A a, b \in events : a.id = b.id => a = b
    /\ \A e \in events :
        /\ e.attrs \subseteq attributes[e.id]
        /\ \A n \in attributes[e.id] :
            \E o \in Observed : o.id = e.id /\ n \in o.attrs

\* A chain within one incident.
WithinOne(l) == \E j \in Incidents : {l[1], l[2]} \subseteq PartOf(j)

\* What the model is given can be cited: an event in memory is in the graph and
\* belongs to the incident, even if an earlier pod died between two batches, so
\* link_candidate never raises for a missing end either; and both ends of a
\* chain are in the graph. A cause may be another incident's, if the effect is
\* shared by both, but no chain joins two incidents that nothing joins, and no
\* event from outside gets into what is stored about the incident.
GivenEvidenceResolves ==
    /\ \A p \in Passes : pass[p].at \in Working \ {"timeline", "incident", "events"} =>
        Ids(pass[p].view) \subseteq PartOf(Target[p]) \intersect Ids(events)
    /\ \A p \in Passes : pass[p].at = "model" =>
        \A l \in Chains(Target[p]) :
            {l[1], l[2]} \subseteq Ids(events) /\ WithinOne(l)
    /\ supports \union contradicts \subseteq partOf

\* Nobody else's event is in the incident.
Unshared(i) == \A id \in PartOf(i), j \in Incidents \ {i} : <<id, j>> \notin partOf

\* The chain of an incident is its timeline, without shortcuts left over from
\* before a late event came in, whoever else rebuilds it at the same time:
\* unless somebody still has to, or another incident shares one of the events.
ChainIsTimeline ==
    \A i \in Incidents :
        /\ Unshared(i)
        /\ i \notin torn
        /\ \A p \in Passes : Target[p] = i => pass[p].at # "build"
        => {l \in precedes : l[1] \in PartOf(i) /\ l[2] \in PartOf(i)}
              = {<<l[1].id, l[2].id>> : l \in Consecutive(Timeline(i))}

\* Recurrence is never claimed of two incidents whose own evidence does not
\* show it, however old the fingerprints compared were; and only of an
\* incident that was over before the other began.
SimilarIsJustified ==
    \A i, past \in Incidents : <<i, past>> \in similar =>
        /\ Span[past].end < Span[i].start
        /\ Cardinality(Components(i) \intersect Components(past)) >= MinShared

\* No other incident has two of its events.
Apart(i) ==
    \A j \in Incidents \ {i} :
        \A a, b \in PartOf(i) \intersect PartOf(j) : a = b

\* While a pass that has had its incident to itself reasons about it, the
\* fingerprint recurrence goes by is the one the graph shows, although it is
\* read and set in two statements and other incidents write to shared nodes in
\* between. Two passes over one incident may undo each other's.
FingerprintIsCurrent ==
    \A p \in Passes \ contended :
        /\ pass[p].at \in {"model", "hypotheses", "supports", "contradicts", "similar"}
        /\ Apart(Target[p])
        => fingerprint[Target[p]] = Components(Target[p])

\* The evidence of a pass that went through is all stored; MATCH dropped none.
VerdictsAreStored ==
    \A p \in Passes : pass[p].at = "done" =>
        /\ pass[p].reply.supporting \X {Target[p]} \subseteq supports
        /\ pass[p].reply.contradicting \X {Target[p]} \subseteq contradicts

\* An event both supports and contradicts a hypothesis only if it was judged
\* more than once: edges of an earlier judgement are never taken back.
BothSidesOnlyAfterRerun ==
    \A i \in Incidents : Cardinality(judged[i]) <= 1 =>
        supports \intersect contradicts \intersect (EventIds \X {i}) = {}
=============================================================================
