-------------------------- MODULE Pipeline_proofs --------------------------
(***************************************************************************)
(* Proofs about Pipeline for any set of collectors and any retry budget.   *)
(*                                                                         *)
(* The properties are not inductive by themselves.  Inv ties the number of *)
(* supersteps and of model calls to the node and the number of drafts, and *)
(* says what each node may rely on about the drafts before it.             *)
(***************************************************************************)
EXTENDS Pipeline, TLAPS

Gathering == {"collect", "build_graph", "link_candidates", "recall_similar",
              "analyze"}

\* build_pipeline has one node before build_graph, build_recovery_pipeline none.
Lead == IF mode = "run" THEN 1 ELSE 0

\* Supersteps executed when `node` is next.
StepInv ==
    /\ node = "collect" => mode = "run" /\ step = 0
    /\ node = "build_graph" => step = Lead
    /\ node = "link_candidates" => step = Lead + 1
    /\ node = "recall_similar" => step = Lead + 2
    /\ node = "analyze" => step = Lead + 3
    /\ node = "write" => step = Lead + 4 + 2 * drafts
    /\ node = "validate" => step = Lead + 3 + 2 * drafts
    /\ node = "publish" => step = Lead + 4 + 2 * drafts

\* Model calls and drafts.
CallInv ==
    /\ node \in Gathering => calls = 0
    /\ node \in {"write", "validate", "publish"} => calls = 1 + drafts
    /\ calls <= 5 + 2 * MaxRetries
    /\ drafts <= 4 + 2 * MaxRetries

\* What the graph holds as the run advances.
StoredInv ==
    /\ node = "link_candidates" =>
          events # {} /\ {"incident", "events", "temporal"} \subseteq stored
    /\ node = "recall_similar" =>
          events # {} /\ Artefacts \ {"fingerprint"} \subseteq stored
    /\ node = "analyze" => events # {} /\ stored = Artefacts
    /\ calls > 0 => events # {} /\ stored = Artefacts

\* The drafts and their verdicts.
DraftInv ==
    /\ node \in Gathering => drafts = 0
    /\ drafts = 0 => validation = "none" /\ document = 0 /\ retry_count = 0
    /\ drafts = 0 <=> draft = "none"
    /\ drafts # 0 => retry_count < drafts
    /\ node = "write" /\ drafts # 0 =>
          document = drafts /\ validation = "failed" /\ retry_count < MaxRetries
    /\ node = "validate" =>
          drafts # 0 /\ document = drafts - 1 /\ validation # "passed"
    /\ node = "publish" => drafts # 0 /\ document = drafts /\ validation = "passed"
    /\ node = "END" =>
          /\ drafts # 0 /\ document = drafts /\ validation # "none"
          /\ validation = "failed" => retry_count = MaxRetries

\* Every rewrite counted, unless an empty draft met a header with a claim.
CountInv ==
    ~ (blank /\ header_claims) /\ drafts # 0 =>
        /\ retry_count = drafts - 1
        /\ node = "write" => draft = "text"
        /\ blank \/ draft = "text"

Inv == TypeOK /\ StepInv /\ CallInv /\ StoredInv /\ DraftInv /\ CountInv

----------------------------------------------------------------------------

\* The inductive invariant holds before the first node of either graph
\* (initial_state and the two entry points of graph.py).
LEMMA InitInv == Init => Inv
  <1> SUFFICES ASSUME Init PROVE Inv
    OBVIOUS
  <1> USE MaxRetriesAssumption DEF Init
  <1>1. TypeOK
    <2>1. stored \subseteq Artefacts
      BY DEF Leftovers, Artefacts
    <2>2. events \subseteq Collectors
      OBVIOUS
    <2>3. step \in 0..RecursionLimit /\ retry_count \in 0..MaxRetries
      BY DEF RecursionLimit
    <2>4. mode \in {"run", "sweep"} /\ node \in Nodes
      BY DEF Nodes
    <2>5. document \in 0..drafts /\ drafts \in Nat /\ calls \in Nat
      OBVIOUS
    <2>6. header_claims \in BOOLEAN /\ blank \in BOOLEAN
      OBVIOUS
    <2>7. sources_used \subseteq Collectors /\ sources_failed \subseteq Collectors
      BY <2>2
    <2> HIDE DEF Init
    <2>8. /\ events \subseteq sources_used
          /\ draft \in {"none", "empty", "text"}
          /\ validation \in {"none", "failed", "passed"}
      BY DEF Init
    <2> QED
      BY <2>1, <2>3, <2>4, <2>5, <2>6, <2>7, <2>8 DEF TypeOK
  <1>2. StepInv /\ CallInv
    BY DEF StepInv, CallInv, Lead, Gathering
  <1>3. StoredInv /\ DraftInv /\ CountInv
    BY DEF StoredInv, DraftInv, CountInv, Gathering
  <1>4. QED
    BY <1>1, <1>2, <1>3 DEF Inv

\* Every node, and the exception LangGraph raises when the supersteps run out,
\* preserves the inductive invariant.
LEMMA StepPreservesInv == Inv /\ [Next]_vars => Inv'
  <1> SUFFICES ASSUME Inv, [Next]_vars PROVE Inv'
    OBVIOUS
  <1> USE MaxRetriesAssumption DEF Superstep, Edges, Nodes, Ended, Gathering,
        Artefacts, RecursionLimit, runVars, draftVars
  <1>1. CASE Collect
    <2>1. TypeOK'
      BY <1>1 DEF Collect, Inv, TypeOK
    <2>2. StepInv'
      BY <1>1 DEF Collect, Inv, StepInv, TypeOK, Lead
    <2>3. CallInv'
      BY <1>1 DEF Collect, Inv, CallInv, StepInv, TypeOK, Lead
    <2>4. StoredInv'
      BY <1>1 DEF Collect, Inv, StoredInv, CallInv, TypeOK
    <2>5. DraftInv'
      BY <1>1 DEF Collect, Inv, DraftInv, TypeOK
    <2>6. CountInv'
      BY <1>1 DEF Collect, Inv, CountInv, DraftInv, TypeOK
    <2> QED
      BY <2>1, <2>2, <2>3, <2>4, <2>5, <2>6 DEF Inv
  <1>2. CASE BuildGraph
    <2>1. TypeOK'
      <3>1. step' \in 0..RecursionLimit
        BY <1>2 DEF BuildGraph, Inv, TypeOK
      <3>2. stored' \subseteq Artefacts /\ node' \in Nodes \union Ended
        BY <1>2 DEF BuildGraph, Store, Inv, TypeOK
      <3> QED
        BY <1>2, <3>1, <3>2 DEF BuildGraph, Inv, TypeOK
    <2>2. StepInv'
      BY <1>2 DEF BuildGraph, Store, Inv, StepInv, TypeOK, Lead
    <2>3. CallInv'
      BY <1>2 DEF BuildGraph, Store, Inv, CallInv, StepInv, TypeOK, Lead
    <2>4. StoredInv'
      BY <1>2 DEF BuildGraph, Store, Inv, StoredInv, CallInv, TypeOK
    <2>5. DraftInv'
      BY <1>2 DEF BuildGraph, Store, Inv, DraftInv, TypeOK
    <2>6. CountInv'
      BY <1>2 DEF BuildGraph, Store, Inv, CountInv, DraftInv, TypeOK
    <2> QED
      BY <2>1, <2>2, <2>3, <2>4, <2>5, <2>6 DEF Inv
  <1>3. CASE LinkCandidates
    <2>1. TypeOK'
      <3>1. step' \in 0..RecursionLimit
        BY <1>3 DEF LinkCandidates, Inv, TypeOK
      <3>2. stored' \subseteq Artefacts /\ node' \in Nodes \union Ended
        BY <1>3 DEF LinkCandidates, Store, Inv, TypeOK
      <3> QED
        BY <1>3, <3>1, <3>2 DEF LinkCandidates, Inv, TypeOK
    <2>2. StepInv'
      BY <1>3 DEF LinkCandidates, Store, Inv, StepInv, TypeOK, Lead
    <2>3. CallInv'
      BY <1>3 DEF LinkCandidates, Store, Inv, CallInv, StepInv, TypeOK, Lead
    <2>4. StoredInv'
      BY <1>3 DEF LinkCandidates, Store, Inv, StoredInv, CallInv, TypeOK
    <2>5. DraftInv'
      BY <1>3 DEF LinkCandidates, Store, Inv, DraftInv, TypeOK
    <2>6. CountInv'
      BY <1>3 DEF LinkCandidates, Store, Inv, CountInv, DraftInv, TypeOK
    <2> QED
      BY <2>1, <2>2, <2>3, <2>4, <2>5, <2>6 DEF Inv
  <1>4. CASE RecallSimilar
    <2>1. TypeOK'
      <3>1. step' \in 0..RecursionLimit
        BY <1>4 DEF RecallSimilar, Inv, TypeOK
      <3>2. stored' \subseteq Artefacts /\ node' \in Nodes \union Ended
        BY <1>4 DEF RecallSimilar, Store, Inv, TypeOK
      <3> QED
        BY <1>4, <3>1, <3>2 DEF RecallSimilar, Inv, TypeOK
    <2>2. StepInv'
      BY <1>4 DEF RecallSimilar, Store, Inv, StepInv, TypeOK, Lead
    <2>3. CallInv'
      BY <1>4 DEF RecallSimilar, Store, Inv, CallInv, StepInv, TypeOK, Lead
    <2>4. StoredInv'
      BY <1>4 DEF RecallSimilar, Store, Inv, StoredInv, CallInv, TypeOK
    <2>5. DraftInv'
      BY <1>4 DEF RecallSimilar, Store, Inv, DraftInv, TypeOK
    <2>6. CountInv'
      BY <1>4 DEF RecallSimilar, Store, Inv, CountInv, DraftInv, TypeOK
    <2> QED
      BY <2>1, <2>2, <2>3, <2>4, <2>5, <2>6 DEF Inv
  <1>5. CASE Analyze
    <2>1. TypeOK'
      BY <1>5 DEF Analyze, Inv, TypeOK
    <2>2. StepInv'
      BY <1>5 DEF Analyze, Inv, StepInv, DraftInv, TypeOK, Lead
    <2>3. CallInv'
      BY <1>5 DEF Analyze, Inv, CallInv, DraftInv, TypeOK
    <2>4. StoredInv'
      BY <1>5 DEF Analyze, Inv, StoredInv, CallInv, TypeOK
    <2>5. DraftInv'
      BY <1>5 DEF Analyze, Inv, DraftInv, TypeOK
    <2>6. CountInv'
      BY <1>5 DEF Analyze, Inv, CountInv, DraftInv, TypeOK
    <2> QED
      BY <2>1, <2>2, <2>3, <2>4, <2>5, <2>6 DEF Inv
  <1>6. CASE Write
    <2>1. TypeOK'
      <3>1. step' \in 0..RecursionLimit /\ calls' \in Nat
        BY <1>6 DEF Write, Inv, TypeOK
      <3>2. retry_count' \in 0..MaxRetries
        BY <1>6 DEF Write, Repairing, Inv, TypeOK, DraftInv
      <3>3. drafts' \in Nat /\ document' \in 0..drafts'
        BY <1>6 DEF Write, Inv, TypeOK
      <3>4. /\ draft' \in {"none", "empty", "text"}
            /\ blank' \in BOOLEAN
            /\ node' \in Nodes \union Ended
        BY <1>6 DEF Write, Inv, TypeOK
      <3> QED
        BY <1>6, <3>1, <3>2, <3>3, <3>4 DEF Write, Inv, TypeOK
    <2>2. StepInv'
      BY <1>6 DEF Write, Repairing, Inv, StepInv, TypeOK, Lead
    <2>3. CallInv'
      BY <1>6 DEF Write, Repairing, Inv, CallInv, StepInv, TypeOK, Lead
    <2>4. StoredInv'
      BY <1>6 DEF Write, Repairing, Inv, StoredInv, CallInv, TypeOK
    <2>5. DraftInv'
      BY <1>6 DEF Write, Repairing, Inv, DraftInv, TypeOK
    <2>6. CountInv'
      <3>1. ASSUME node' = "validate"
            PROVE  blank' <=> blank \/ draft' = "empty"
        BY <1>6, <3>1, Zenon DEF Write
      <3>2. node' \in {"validate", "RAISED"}
        BY <1>6 DEF Write
      <3>3. CASE node' = "validate"
        BY <1>6, <3>1, <3>3 DEF Write, Repairing, Inv, CountInv, DraftInv, TypeOK
      <3>4. CASE node' = "RAISED"
        BY <1>6, <3>4 DEF Write, Inv, CountInv, TypeOK
      <3> QED
        BY <3>2, <3>3, <3>4
    <2> QED
      BY <2>1, <2>2, <2>3, <2>4, <2>5, <2>6 DEF Inv
  <1>7. CASE Validate
    <2>1. TypeOK'
      BY <1>7 DEF Validate, AfterValidation, MayFail, Inv, TypeOK
    <2>2. StepInv'
      BY <1>7 DEF Validate, AfterValidation, MayFail, Inv, StepInv, TypeOK, Lead
    <2>3. CallInv'
      BY <1>7 DEF Validate, AfterValidation, MayFail, Inv, CallInv, StepInv, TypeOK, Lead
    <2>4. StoredInv'
      BY <1>7 DEF Validate, AfterValidation, MayFail, Inv, StoredInv, CallInv, TypeOK
    <2>5. DraftInv'
      BY <1>7 DEF Validate, AfterValidation, MayFail, Inv, DraftInv, TypeOK
    <2>6. CountInv'
      BY <1>7 DEF Validate, AfterValidation, MayFail, Inv, CountInv, DraftInv, TypeOK
    <2> QED
      BY <2>1, <2>2, <2>3, <2>4, <2>5, <2>6 DEF Inv
  <1>8. CASE Publish
    <2>1. TypeOK'
      BY <1>8 DEF Publish, Inv, TypeOK
    <2>2. StepInv'
      BY <1>8 DEF Publish, Inv, StepInv, TypeOK, Lead
    <2>3. CallInv'
      BY <1>8 DEF Publish, Inv, CallInv, StepInv, TypeOK, Lead
    <2>4. StoredInv'
      BY <1>8 DEF Publish, Inv, StoredInv, CallInv, TypeOK
    <2>5. DraftInv'
      BY <1>8 DEF Publish, Inv, DraftInv, TypeOK
    <2>6. CountInv'
      BY <1>8 DEF Publish, Inv, CountInv, DraftInv, TypeOK
    <2> QED
      BY <2>1, <2>2, <2>3, <2>4, <2>5, <2>6 DEF Inv
  <1>9. CASE OutOfSteps
    <2>1. TypeOK'
      BY <1>9 DEF OutOfSteps, Inv, TypeOK
    <2>2. StepInv'
      BY <1>9 DEF OutOfSteps, Inv, StepInv, TypeOK, Lead
    <2>3. CallInv'
      BY <1>9 DEF OutOfSteps, Inv, CallInv, StepInv, TypeOK, Lead
    <2>4. StoredInv'
      BY <1>9 DEF OutOfSteps, Inv, StoredInv, CallInv, TypeOK
    <2>5. DraftInv'
      BY <1>9 DEF OutOfSteps, Inv, DraftInv, TypeOK
    <2>6. CountInv'
      BY <1>9 DEF OutOfSteps, Inv, CountInv, DraftInv, TypeOK
    <2> QED
      BY <2>1, <2>2, <2>3, <2>4, <2>5, <2>6 DEF Inv
  <1>10. CASE UNCHANGED vars
    BY <1>10 DEF vars, Inv, TypeOK, StepInv, CallInv, StoredInv, DraftInv,
                 CountInv, Lead
  <1> QED
    BY <1>1, <1>2, <1>3, <1>4, <1>5, <1>6, <1>7, <1>8, <1>9, <1>10 DEF Next

\* The inductive invariant holds throughout every run of graph.py.
LEMMA InvInvariant == Spec => []Inv
  BY InitInv, StepPreservesInv, PTL DEF Spec

----------------------------------------------------------------------------

\* Every variable of a run stays in its type; in particular the retry count
\* never exceeds the configured budget (_after_validation, graph.py).
THEOREM TypeCorrect == Spec => []TypeOK
  BY InvInvariant, PTL DEF Inv

\* The recursion limit of cli.py bounds the model calls of any run by
\* 5 + 2 * MaxRetries, miscounted retries included.
THEOREM SpendBounded == Spec => []SpendBound
  <1>1. Inv => SpendBound
    BY DEF Inv, CallInv, SpendBound
  <1> QED
    BY InvInvariant, <1>1, PTL

\* No run within its retry budget meets the recursion limit of cli.py.
THEOREM HonestRunsSpared == Spec => []LimitSparesHonestRuns
  <1>1. Inv => LimitSparesHonestRuns
    <2> SUFFICES ASSUME Inv, node \notin Ended, step = RecursionLimit,
                        ~ (blank /\ header_claims)
                 PROVE  FALSE
      BY DEF LimitSparesHonestRuns
    <2> USE MaxRetriesAssumption
    <2>1. node \in Nodes /\ Lead <= 1
      BY DEF Inv, TypeOK, Lead
    <2>2. drafts # 0 => retry_count = drafts - 1 /\ retry_count <= MaxRetries
      BY DEF Inv, CountInv, TypeOK
    <2>3. step <= 7 + 2 * MaxRetries
      BY <2>1, <2>2 DEF Inv, StepInv, DraftInv, TypeOK, Nodes, Gathering, Lead
    <2> QED
      BY <2>3 DEF RecursionLimit
  <1> QED
    BY InvInvariant, <1>1, PTL

\* The model is only called once the incident's evidence graph is complete
\* (the order of the edges in build_pipeline).
THEOREM GraphCompleteBeforeModel == Spec => []ReasonsOverCompleteGraph
  <1>1. Inv => ReasonsOverCompleteGraph
    BY DEF Inv, StoredInv, ReasonsOverCompleteGraph
  <1> QED
    BY InvInvariant, <1>1, PTL

----------------------------------------------------------------------------
(* The publish gate.                                                       *)

\* A run starts where the publish gate starts: nothing written or judged.
LEMMA GateInit == Init => Gate!Init
  BY DEF Init, Gate!Init, CurrentVerdict, RunOutcome

\* Every node of graph.py is a step of the publish gate or a stutter.
LEMMA GateStep == Inv /\ [Next]_vars => [Gate!Next]_Gate!vars
  <1> SUFFICES ASSUME Inv, [Next]_vars PROVE [Gate!Next]_Gate!vars
    OBVIOUS
  <1> USE MaxRetriesAssumption DEF Superstep, Edges, CurrentVerdict, RunOutcome,
        runVars, draftVars, Gate!vars
  <1>1. CASE Collect \/ BuildGraph \/ LinkCandidates \/ RecallSimilar \/ Analyze
    <2>1. drafts' = drafts /\ document' = document /\ validation' = validation
      BY <1>1 DEF Collect, BuildGraph, LinkCandidates, RecallSimilar, Analyze
    <2>2. node \notin Ended /\ node' # "END"
      BY <1>1 DEF Collect, BuildGraph, LinkCandidates, RecallSimilar, Analyze,
                  Store, Ended
    <2> QED
      BY <2>1, <2>2 DEF Gate!Next, Gate!Abort, Ended
  <1>2. CASE Write
    <2>1. CASE node' = "validate"
      <3>1. drafts < 4 + 2 * MaxRetries
        BY <1>2 DEF Write, Inv, StepInv, TypeOK, RecursionLimit, Lead
      <3>2. Gate!Draft
        BY <1>2, <2>1, <3>1 DEF Write, Gate!Draft, Inv, DraftInv, TypeOK
      <3> QED
        BY <3>2 DEF Gate!Next
    <2>2. CASE node' = "RAISED"
      BY <1>2, <2>2 DEF Write, Gate!Next, Gate!Abort
    <2> QED
      BY <1>2, <2>1, <2>2 DEF Write
  <1>3. CASE Validate
    <2>1. CASE node' = "RAISED"
      BY <1>3, <2>1 DEF Validate, AfterValidation, Gate!Next, Gate!Abort
    <2>2. CASE node' # "RAISED"
      <3>1. /\ drafts # 0 /\ document # drafts /\ node = "validate"
            /\ drafts' = drafts /\ document' = drafts
            /\ validation' \in {"failed", "passed"}
            /\ node' = AfterValidation(validation', retry_count)
        BY <1>3, <2>2 DEF Validate, MayFail, Inv, DraftInv, TypeOK
      <3>2. node' = "END" => validation' = "failed" /\ drafts > MaxRetries
        BY <3>1 DEF AfterValidation, Inv, DraftInv, TypeOK
      <3>3. Gate!Judge
        BY <2>2, <3>1, <3>2 DEF Gate!Judge, Inv, TypeOK
      <3> QED
        BY <3>3 DEF Gate!Next
    <2> QED
      BY <2>1, <2>2
  <1>4. CASE Publish
    BY <1>4 DEF Publish, Gate!Next, Gate!Publish, Inv, DraftInv
  <1>5. CASE OutOfSteps
    BY <1>5 DEF OutOfSteps, Gate!Next, Gate!Abort, Ended
  <1>6. CASE UNCHANGED vars
    BY <1>6 DEF vars
  <1> QED
    BY <1>1, <1>2, <1>3, <1>4, <1>5, <1>6 DEF Next

\* Invariant 8 of the code: every run implements the publish gate, so nothing
\* is published but on a pass of its latest draft, and nothing is rejected
\* before the repair budget is spent (_after_validation and the nodes of
\* graph.py).
THEOREM RunImplementsGate == Spec => ImplementsGate
  BY GateInit, GateStep, InvInvariant, PTL DEF Spec, ImplementsGate, Gate!Spec
=============================================================================
