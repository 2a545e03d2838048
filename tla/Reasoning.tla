----------------------------- MODULE Reasoning ------------------------------
(***************************************************************************)
(* One incident from its sources to ranked hypotheses, pass after pass: a  *)
(* `run` collects, a `sweep` goes by what is stored.  Any source may fail, *)
(* any pass may die, and whatever the model replies is taken as it is.     *)
(* Passes do not overlap here; EvidenceGraph has those that do.            *)
(***************************************************************************)
EXTENDS Analyst

CONSTANTS
    Collectors,   \* in the order in which they are asked
    Holds,        \* per collector, what it may be found to hold
    Replies,      \* what the model may propose: sequences of items
    MaxPasses     \* bound

Sources == {Collectors[n] : n \in DOMAIN Collectors}

ASSUME CollectorAssumption ==
    /\ Collectors \in Seq({"logs", "git", "alerts"})
    /\ \A m, n \in DOMAIN Collectors : m # n => Collectors[m] # Collectors[n]
    /\ MaxPasses \in Nat
    /\ None \notin Int

\* At any time a source holds finitely many items, told apart by what their
\* ids are made of: a line by its file's name and its number, a commit by its
\* hash, an alert by its rule and its start. Files of one name in two
\* directories are not told apart by the code, and excluded here.
ASSUME ItemAssumption ==
    \A c \in Sources : \A items \in Holds[c] :
        /\ IsFiniteSet(items)
        /\ \A i, j \in items :
            /\ c = "logs" /\ i.file = j.file /\ i.n = j.n => i = j
            /\ c = "git" /\ i.sha = j.sha => i = j
            /\ c = "alerts" /\ i.rule = j.rule /\ i.started = j.started => i = j
        /\ \A i \in items :
            /\ c = "logs" => i.ts \in Int \union {None}
            /\ c = "git" => i.authored \in Int \union {None}
            /\ c = "alerts" => i.started \in Int \union {None}

\* Whatever a collection may ever find, in one source and in all.
Found(c) == UNION {Parse(c, items) : items \in Holds[c]}
Findable == UNION {Found(c) : c \in Sources}

\* What the ids of the events of a record are made of.
IdKeys ==
    {<<r.source, r.native>> : r \in Findable} \union
    {<<e.source, <<"sig", e.service, e.signature>> >> :
        e \in {e \in {ToEvent(r) : r \in Findable} : Collapsible(e)}}

\* A hash that meets no collision.
ASSUME HashAssumption ==
    \A k \in IdKeys : Hash(k) \in Nat /\ \A l \in IdKeys : Hash(k) = Hash(l) => k = l

ASSUME ReplyAssumption ==
    Replies \subseteq Seq([statement : STRING, supporting : Seq(Nat),
                           contradicting : Seq(Nat)])

VARIABLES
    way,          \* of the pass, "run" or "sweep"
    step,         \* the node it is at
    passes,       \* how many there have been
    todo,         \* collectors still to be asked
    records, used, failed,
    events,
    chains,
    hypotheses,
    stored,       \* the Event nodes
    links,        \* the POSSIBLY_CAUSED edges
    \* Not in the code, for the properties:
    moved,        \* events that were stored again with another time
    earlier       \* the last pass that was scored, and from what

gathered == <<todo, records, used, failed>>
graph == <<stored, links, moved>>
vars == <<way, step, passes, gathered, events, chains, hypotheses, graph, earlier>>

NotScored == [graph |-> <<>>, hypotheses |-> <<>>, complete |-> FALSE]

TypeOK ==
    /\ way \in {"run", "sweep"}
    /\ step \in {"collect", "build_graph", "link_candidates", "analyze",
                 "done", "aborted"}
    /\ passes \in 0..MaxPasses
    /\ used \subseteq Sources \union {"alertmanager"}
    /\ failed \subseteq Sources /\ used \intersect failed = {}
    /\ \A e \in events \union stored :
        e.type \in EventTypes /\ e.count > 0 /\ e.id \in Nat
    /\ chains \subseteq links
    /\ \A n \in DOMAIN hypotheses :
        /\ hypotheses[n].confidence \in 0..One
        /\ hypotheses[n].band \in {"likely", "plausible", "tentative"}
    /\ Ids(events) \subseteq Ids(stored) \/ step \in {"build_graph", "aborted"}

----------------------------------------------------------------------------
Forget ==
    /\ records' = {} /\ failed' = {}
    /\ chains' = {} /\ hypotheses' = <<>>
    /\ passes' = passes + 1

Start ==
    /\ step \in {"done", "aborted"} /\ passes < MaxPasses
    /\ Forget
    /\ \/ /\ way' = "run" /\ step' = "collect"
          /\ todo' = Collectors /\ used' = {} /\ events' = {}
       \* Its sources are those that the stored events name.
       \/ /\ stored # {}
          /\ way' = "sweep" /\ step' = "build_graph"
          /\ todo' = <<>> /\ used' = {e.source : e \in stored}
          /\ events' = stored
    /\ earlier' = IF step = "done"
                  THEN [graph |-> <<stored, chains>>, hypotheses |-> hypotheses,
                        complete |-> failed = {}]
                  ELSE earlier
    /\ UNCHANGED graph

\* A collector that raises is a gap, and the run goes on.
CollectFrom ==
    /\ step = "collect" /\ todo # <<>>
    /\ todo' = Tail(todo)
    /\ \/ /\ failed' = failed \union {Head(todo)}
          /\ UNCHANGED <<records, used>>
       \/ /\ \E items \in Holds[Head(todo)] :
                records' = records \union Parse(Head(todo), items)
          /\ used' = used \union {Head(todo)}
          /\ UNCHANGED failed
    /\ UNCHANGED <<way, step, passes, events, chains, hypotheses, graph, earlier>>

Collected ==
    /\ step = "collect" /\ todo = <<>>
    /\ events' = Cut(Normalize(records))
    /\ step' = "build_graph"
    /\ UNCHANGED <<way, passes, gathered, chains, hypotheses, graph, earlier>>

\* Nothing collected is an error. The nodes take on what was seen last.
BuildGraph ==
    /\ step = "build_graph"
    /\ \/ /\ events = {}
          /\ step' = "aborted"
          /\ UNCHANGED graph
       \/ /\ events # {}
          /\ step' = "link_candidates"
          /\ stored' = {e \in stored : e.id \notin Ids(events)} \union events
          /\ moved' = moved \union
                {e.id : e \in {e \in stored : \E f \in events :
                                    f.id = e.id /\ f.ts # e.ts}}
          /\ UNCHANGED links
    /\ UNCHANGED <<way, passes, gathered, events, chains, hypotheses, earlier>>

\* An edge between the same events is replaced, any other stays.
LinkCandidates ==
    /\ step = "link_candidates"
    /\ \E new \in Link(events) :
        links' = new \union
            {l \in links : \A k \in new : <<k.cause, k.effect>> # <<l.cause, l.effect>>}
    /\ step' = "analyze"
    /\ UNCHANGED <<way, passes, gathered, events, chains, hypotheses, stored,
                   moved, earlier>>

\* A reply that is no list of hypotheses raises.
AnalyzeEvents ==
    /\ step = "analyze"
    /\ \E shown \in CandidateChains(links, Ids(stored)), items \in Replies :
        /\ chains' = shown
        /\ hypotheses' = Analyze(items, events, shown, used)
    /\ step' = "done"
    /\ UNCHANGED <<way, passes, gathered, events, graph, earlier>>

\* A statement or the model raises, or the pod dies.
Abort ==
    /\ step \notin {"done", "aborted"}
    /\ step' = "aborted"
    /\ UNCHANGED <<way, passes, gathered, events, chains, hypotheses, graph,
                   earlier>>

Init ==
    /\ way = "run" /\ step = "aborted" /\ passes = 0
    /\ todo = <<>> /\ records = {} /\ used = {} /\ failed = {}
    /\ events = {} /\ chains = {} /\ hypotheses = <<>>
    /\ stored = {} /\ links = {} /\ moved = {}
    /\ earlier = NotScored

Next ==
    \/ Start
    \/ CollectFrom
    \/ Collected
    \/ BuildGraph
    \/ LinkCandidates
    \/ AnalyzeEvents
    \/ Abort

Spec == Init /\ [][Next]_vars
----------------------------------------------------------------------------
(* Properties.                                                             *)

Stands(e, r) ==
    IF Collapsible(e)
    THEN /\ r.type = "log_error" /\ r.text # None
         /\ Signature[r.text] = e.signature
         /\ Canonical(r.hint) = e.service
    ELSE e.id = Hash(<<r.source, r.native>>)

\* Every record a collection yields is in one event that counts it and is no
\* later than it; only beyond the limit are records left out, and then none
\* that is older than what was kept.
RecordsAreAccountedFor ==
    way = "run" /\ step \in {"build_graph", "link_candidates", "analyze"} =>
        /\ \A e \in events :
            /\ e.count = Cardinality({r \in records : Stands(e, r)})
            /\ \E r \in records : Stands(e, r) /\ r.ts = e.ts
            /\ \A r \in records : Stands(e, r) => e.ts <= r.ts
        /\ \A r \in records :
            \/ \E e \in events : Stands(e, r)
            \/ /\ Cardinality(events) = MaxEvents
               /\ \A e \in events : e.ts <= r.ts

\* A failure mode has one node, however often and however completely its
\* lines are collected: a second one would corroborate the first.
OneNodePerFailureMode ==
    \A a, b \in stored :
        Collapsible(a) /\ Collapsible(b) /\ a.service = b.service
            /\ a.signature = b.signature => a = b

\* What the model is shown as a cause is earlier than what it is shown as its
\* effect, by no more than the window. Not so if one of them was collected
\* again with another time: the edges of before are not taken back.
ChainsPointForward ==
    \A l \in chains : {l.cause, l.effect} \intersect moved = {} =>
        LET gap == Event(l.effect, stored).ts - Event(l.cause, stored).ts
        IN gap = l.delta /\ gap > 0 /\ gap <= CausalWindow

\* No reply crashes the analyst, and none smuggles in an event it was not
\* given: a hypothesis has support, and its evidence is stored and on one side.
EvidenceIsReal ==
    \A n \in DOMAIN hypotheses : LET h == hypotheses[n] IN
        /\ h.supporting # {} /\ h.supporting \intersect h.contradicting = {}
        /\ h.supporting \union h.contradicting \subseteq Ids(stored)

\* The number decides the order, wherever the model put a hypothesis.
RanksFollowScores ==
    \A m, n \in DOMAIN hypotheses : m < n =>
        hypotheses[m].confidence >= hypotheses[n].confidence

\* The events of a collector.
Of(collector) ==
    {e \in events : e.source =
        IF collector = "alerts" THEN "alertmanager" ELSE collector}

\* The objections left, had the source of a signal failed.
ObjectionsWithout(h, s) == h.contradicting \ Ids(Of(SourceOf[s]))

\* The same cause, scored without that source: its signal is not available and
\* its objections are not known.
ScoreWithout(h, s) ==
    Score(h.fired, h.available \ {s}, Cardinality(ObjectionsWithout(h, s)))

\* A source that speaks for a hypothesis raises its score by failing by no more
\* than its own objections cost; and one that is silent about it never lowers
\* the score. So a gap in the collection may raise a confidence, by both ways.
LossOfSource ==
    \A n \in DOMAIN hypotheses : LET h == hypotheses[n] IN
        \A s \in h.available \intersect DOMAIN SourceOf :
            IF s \in h.fired
            THEN ScoreWithout(h, s) <= h.confidence
                    + Penalty(Cardinality(h.contradicting))
                    - Penalty(Cardinality(ObjectionsWithout(h, s)))
            ELSE ScoreWithout(h, s) >= h.confidence

\* With the weights and bounds as shipped, nothing that two events contradict
\* is called likely; and contradictions, however many, zero only a hypothesis
\* whose support is no more than the cap. That much they do zero.
ObjectionsDemote ==
    \A n \in DOMAIN hypotheses : LET h == hypotheses[n] IN
        /\ h.band = "likely" => Cardinality(h.contradicting) <= 1
        /\ h.confidence = 0 => RawSupport(h.fired, h.available) <= Cap

\* "Given the same graph you get the same number": the same evidence for and
\* against, over the same nodes and chains, with no source failing.
SameGraphSameNumber ==
    step = "done" /\ failed = {} /\ earlier.complete
        /\ earlier.graph = <<stored, chains>> =>
        \A m \in DOMAIN hypotheses, n \in DOMAIN earlier.hypotheses :
            LET g == hypotheses[m]
                h == earlier.hypotheses[n]
            IN /\ g.statement = h.statement /\ g.supporting = h.supporting
               /\ g.contradicting = h.contradicting
               => g.confidence = h.confidence
=============================================================================
