------------------------------ MODULE Pipeline ------------------------------
(***************************************************************************)
(* One run of the agent's DAG (agent/graph.py), from the first node to the *)
(* end of `pipeline.invoke`: collection that survives failing sources, the *)
(* graph writes, the two model calls, and the validate/write cycle with    *)
(* its retry budget and LangGraph's recursion limit.                       *)
(*                                                                         *)
(* `mode` "run" is build_pipeline, "sweep" is build_recovery_pipeline,     *)
(* which has no collect node.  A draft is abstracted to whether it has any *)
(* text, a report to its verdict; what the verdict depends on is the       *)
(* Validator's matter, except that a document making no claim passes.      *)
(***************************************************************************)
EXTENDS Naturals

CONSTANTS
    Collectors,   \* the configured evidence sources
    MaxRetries    \* config.pipeline.max_validation_retries

ASSUME MaxRetriesAssumption == MaxRetries \in Nat

VARIABLES
    mode,            \* which of the two graphs is run
    node,            \* the node to execute next, or how invoke ended
    step,            \* supersteps LangGraph has executed
    sources_used,    \* state["sources_used"]
    sources_failed,  \* state["sources_failed"]
    events,          \* the sources state["events"] has an event of
    stored,          \* what the graph holds of this incident
    header_claims,   \* the generated header has an uncited factual sentence
    draft,           \* state["draft_md"]: not written yet, empty or not
    drafts,          \* number of the latest draft
    document,        \* number of the draft state["document_md"] was built from
    validation,      \* state["validation"]: None, or whether it passed
    retry_count,     \* state["retry_count"]
    calls,           \* model calls made by analyze and write
    blank            \* the writer returned an empty draft at least once

runVars == <<mode, sources_used, sources_failed, events>>
draftVars == <<header_claims, draft, drafts, document, validation,
               retry_count, calls, blank>>
vars == <<node, step, stored, runVars, draftVars>>

Nodes == {"collect", "build_graph", "link_candidates", "recall_similar",
          "analyze", "write", "validate", "publish"}
Ended == {"END", "RAISED"}
Artefacts == {"incident", "events", "temporal", "candidates", "fingerprint"}

\* Fault: a limit sized for the happy path only.
RecursionLimit_HappyPath == 8 + MaxRetries

\* Fault: a limit that allows the whole graph again for every retry.
RecursionLimit_WholeGraph == 12 + MaxRetries * 8

\* LangGraph counts supersteps, so this bounds the whole graph.
RecursionLimit == 12 + MaxRetries * 4

TypeOK ==
    /\ mode \in {"run", "sweep"}
    /\ node \in Nodes \cup Ended
    /\ step \in 0..RecursionLimit
    /\ sources_used \subseteq Collectors
    /\ sources_failed \subseteq Collectors
    /\ events \subseteq sources_used
    /\ stored \subseteq Artefacts
    /\ header_claims \in BOOLEAN
    /\ draft \in {"none", "empty", "text"}
    /\ drafts \in Nat
    /\ document \in 0..drafts
    /\ validation \in {"none", "failed", "passed"}
    /\ retry_count \in 0..MaxRetries
    /\ calls \in Nat
    /\ blank \in BOOLEAN

----------------------------------------------------------------------------
(* The decisions the nodes take.                                           *)

\* Fault: the decision lets one retry too many through.
AfterValidation_OffByOne(verdict, count) ==
    IF verdict = "passed" THEN "publish"
    ELSE IF count <= MaxRetries THEN "write" ELSE "END"

\* Fault: a draft that used up its retries is published anyway.
AfterValidation_FailOpen(verdict, count) ==
    IF verdict = "passed" \/ count >= MaxRetries THEN "publish" ELSE "write"

\* The only branch of the graph: publish, retry or fail.
AfterValidation(verdict, count) ==
    IF verdict = "passed" THEN "publish"
    ELSE IF count < MaxRetries THEN "write" ELSE "END"

\* A write is a repair when a rejected draft with some text precedes it.
Repairing == validation = "failed" /\ draft = "text"

\* Fault: similar incidents are looked up after the model was asked.
Edges_LateRecall ==
    [collect |-> "build_graph", build_graph |-> "link_candidates",
     link_candidates |-> "analyze", analyze |-> "recall_similar",
     recall_similar |-> "write", write |-> "validate", publish |-> "END"]

\* The unconditional edges of the graph.
Edges ==
    [collect |-> "build_graph", build_graph |-> "link_candidates",
     link_candidates |-> "recall_similar", recall_similar |-> "analyze",
     analyze |-> "write", write |-> "validate", publish |-> "END"]

\* A document with no factual sentence is vacuously covered: with an empty
\* draft only a claim in the generated header can fail it.
MayFail == draft = "text" \/ header_claims

----------------------------------------------------------------------------
(* The nodes. LangGraph executes one a superstep.                          *)

Superstep(n) ==
    /\ node = n
    /\ step < RecursionLimit
    /\ step' = step + 1

\* The graph writes of a node: all of `artefacts` and on to the next node, or
\* an exception after those of one of `partial`.
Store(n, artefacts, partial) ==
    \/ /\ stored' = stored \union artefacts
       /\ node' = Edges[n]
    \/ /\ \E some \in partial : stored' = stored \union some
       /\ node' = "RAISED"

\* Every collector in turn; one that raises CollectorError becomes a
\* SourceFailure. `seen` are the sources with an event left after
\* normalisation and the max_events_per_run cut.
Collect ==
    /\ Superstep("collect")
    /\ \E failing \in SUBSET Collectors :
        /\ sources_failed' = failing
        /\ sources_used' = Collectors \ failing
        /\ \E seen \in SUBSET (Collectors \ failing) : events' = seen
    /\ node' = Edges.collect
    /\ UNCHANGED <<mode, stored, draftVars>>

\* Zero events raise before anything is written.
BuildGraph ==
    /\ Superstep("build_graph")
    /\ IF events = {}
       THEN node' = "RAISED" /\ UNCHANGED stored
       ELSE Store("build_graph", {"incident", "events", "temporal"},
                              {{}, {"incident"}, {"incident", "events"}})
    /\ UNCHANGED <<runVars, draftVars>>

LinkCandidates ==
    /\ Superstep("link_candidates")
    /\ Store("link_candidates", {"candidates"}, {{}, {"candidates"}})
    /\ UNCHANGED <<runVars, draftVars>>

RecallSimilar ==
    /\ Superstep("recall_similar")
    /\ Store("recall_similar", {"fingerprint"}, {{}, {"fingerprint"}})
    /\ UNCHANGED <<runVars, draftVars>>

\* One model call. Whether the header will carry an uncited claim is settled
\* here: it quotes the leading hypothesis, whose statement may span lines.
Analyze ==
    /\ Superstep("analyze")
    /\ calls' = calls + 1
    /\ \/ node' = Edges.analyze /\ header_claims' \in BOOLEAN
       \/ node' = "RAISED" /\ UNCHANGED header_claims
    /\ UNCHANGED <<stored, runVars, draft, drafts, document, validation,
                   retry_count, blank>>

\* One model call; only a repair counts against the retry budget.
Write ==
    /\ Superstep("write")
    /\ calls' = calls + 1
    /\ \/ /\ node' = Edges.write
          /\ draft' \in {"empty", "text"}
          /\ drafts' = drafts + 1
          /\ retry_count' = retry_count + (IF Repairing THEN 1 ELSE 0)
          /\ blank' = (blank \/ draft' = "empty")
       \/ node' = "RAISED" /\ UNCHANGED <<draft, drafts, retry_count, blank>>
    /\ UNCHANGED <<stored, runVars, header_claims, document, validation>>

\* Assemble the document from the latest draft, judge it, and branch. The
\* citation lookup may raise.
Validate ==
    /\ Superstep("validate")
    /\ \/ /\ document' = drafts
          /\ validation' \in IF MayFail THEN {"failed", "passed"} ELSE {"passed"}
          /\ node' = AfterValidation(validation', retry_count)
       \/ node' = "RAISED" /\ UNCHANGED <<document, validation>>
    /\ UNCHANGED <<stored, runVars, header_claims, draft, drafts, retry_count,
                   calls, blank>>

Publish ==
    /\ Superstep("publish")
    /\ node' = Edges.publish
    /\ UNCHANGED <<stored, runVars, draftVars>>

\* LangGraph raises GraphRecursionError when the supersteps run out.
OutOfSteps ==
    /\ node \notin Ended
    /\ step = RecursionLimit
    /\ node' = "RAISED"
    /\ UNCHANGED <<step, stored, runVars, draftVars>>

----------------------------------------------------------------------------
(* What an earlier attempt of this incident left in the graph: the writes  *)
(* happen in one order, so a prefix of it.                                 *)
Leftovers ==
    {{}, {"incident"}, {"incident", "events"},
     {"incident", "events", "temporal"},
     {"incident", "events", "temporal", "candidates"}, Artefacts}

\* START goes to collect in a run. The sweep starts at build_graph with the
\* events it read back from the graph.
Init ==
    /\ stored \in Leftovers
    /\ \/ /\ mode = "run"
          /\ node = "collect"
          /\ events = {}
       \/ /\ mode = "sweep"
          /\ node = "build_graph"
          /\ events \in (SUBSET Collectors) \ {{}}
          /\ {"incident", "events"} \subseteq stored
    /\ step = 0
    /\ sources_used = events
    /\ sources_failed = {}
    /\ header_claims = FALSE
    /\ draft = "none"
    /\ drafts = 0
    /\ document = 0
    /\ validation = "none"
    /\ retry_count = 0
    /\ calls = 0
    /\ blank = FALSE

Next ==
    \/ Collect
    \/ BuildGraph
    \/ LinkCandidates
    \/ RecallSimilar
    \/ Analyze
    \/ Write
    \/ Validate
    \/ Publish
    \/ OutOfSteps

Spec == Init /\ [][Next]_vars

----------------------------------------------------------------------------
(* Properties.                                                             *)

\* cli.py promises that "a miscounted retry must not become an unbounded
\* model spend". Retries are miscounted when a draft comes back empty, since
\* the rewrite of an empty draft is not a repair; the recursion limit alone
\* must then bound the calls of analyze and write.
SpendBound == calls <= 5 + 2 * MaxRetries

\* The recursion limit never cuts off a run that uses its retry budget as
\* intended: whoever hits it had an empty draft under a header with an
\* uncited claim.
LimitSparesHonestRuns ==
    node \notin Ended /\ step = RecursionLimit => blank /\ header_claims

\* The model is only asked about an incident whose whole evidence graph is
\* written: it reads the chains, the validator resolves its citations there,
\* and the fingerprint finds the similar incidents the document lists.
ReasonsOverCompleteGraph ==
    calls > 0 => stored = Artefacts /\ events # {}

\* The verdict a reader may rely on is the one given to the latest draft.
CurrentVerdict ==
    IF drafts = 0 \/ document # drafts THEN "unjudged" ELSE validation

RunOutcome ==
    IF node = "RAISED" THEN "aborted"
    ELSE IF node # "END" THEN "open"
    ELSE IF validation = "passed" THEN "published" ELSE "rejected"

Gate == INSTANCE PublishGate
        WITH MaxDrafts <- 4 + 2 * MaxRetries,
             verdict <- CurrentVerdict,
             outcome <- RunOutcome

\* Invariant 8 of the code: a run implements the publish gate. A document is
\* published only if the verdict on its latest draft is a pass, and rejected
\* only when the repair budget is spent.
ImplementsGate == Gate!Spec
=============================================================================
