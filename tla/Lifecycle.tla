----------------------------- MODULE Lifecycle -----------------------------
(***************************************************************************)
(* What becomes of incidents once they have a Job: the pods of each Job    *)
(* (`run`), retried by Kubernetes, and those of the nightly CronJob        *)
(* (`sweep`), which may overlap them and each other, all writing to one    *)
(* graph.  Any of them may die, or raise, between two writes.              *)
(*                                                                         *)
(* What the model calls come to is one step here, Judge: Pipeline has the  *)
(* inside of it, and shows that a run publishes only what passed.          *)
(***************************************************************************)
EXTENDS Naturals

CONSTANTS
    Incidents,   \* numbered in the order of their end_time
    Past,        \* those whose Job is over, without success, at the start
    Sweeps,      \* the nightly Jobs
    Backoff      \* backoffLimit of every Job

ASSUME IncidentsAssumption == Incidents \subseteq Nat \ {0}
ASSUME PastAssumption == Past \subseteq Incidents
ASSUME SweepsAssumption == Sweeps \intersect (Incidents \union {0}) = {}
ASSUME BackoffAssumption == Backoff \in Nat

VARIABLES
    at,         \* per Job, where it is: its own state or its pod's next step
    tries,      \* per Job, pods started
    pod,        \* per Job, what its pod has in memory
    evidence,   \* per incident, what the graph holds of its events
    reasoned,   \* incidents with a Hypothesis node
    linked,     \* incidents whose SIMILAR_TO edges are written
    action,     \* per incident, its corrective action, if any
    published   \* incidents a document was published for

graphVars == <<evidence, reasoned, linked, action>>
vars == <<at, tries, pod, graphVars, published>>

Jobs == Incidents \union Sweeps

Working == {"incident", "events", "model", "hypotheses", "similar", "actions"}
Steps == Working \union {"query", "next", "push"}
JobStates == {"none", "queued", "complete", "failed"}

\* target is the incident a pod works on, found whether its document rests on
\* a hypothesis, flawed whether it will exit with a validation failure; batch
\* are the incidents a sweep still has to do of those it has taken.
Memory == [target : Incidents \union {0}, found : BOOLEAN, flawed : BOOLEAN,
           batch : SUBSET Incidents, taken : SUBSET Incidents]

Fresh == [target |-> 0, found |-> FALSE, flawed |-> FALSE,
          batch |-> {}, taken |-> {}]

TypeOK ==
    /\ at \in [Jobs -> Steps \union JobStates]
    /\ tries \in [Jobs -> 0..(Backoff + 1)]
    /\ pod \in [Jobs -> Memory]
    /\ \A w \in Jobs : at[w] \in Working => pod[w].target # 0
    /\ evidence \in [Incidents -> {"none", "bare", "partial", "full"}]
    /\ reasoned \subseteq Incidents
    /\ linked \subseteq Incidents
    /\ action \in [Incidents -> {"none", "open", "done"}]
    /\ published \subseteq Incidents

----------------------------------------------------------------------------
(* Kubernetes and the people.                                              *)

Goto(w, s) == at' = [at EXCEPT ![w] = s]

\* The receiver creates an incident's Job, the CronJob controller a sweep.
Submit(w) ==
    /\ at[w] = "none"
    /\ Goto(w, "queued")
    /\ UNCHANGED <<tries, pod, graphVars, published>>

\* A Job's pods run one after the other, each from the start.
StartPod(w) ==
    /\ at[w] = "queued"
    /\ tries' = [tries EXCEPT ![w] = @ + 1]
    /\ \/ /\ w \in Incidents
          /\ Goto(w, "incident")
          /\ pod' = [pod EXCEPT ![w] = [Fresh EXCEPT !.target = w]]
       \/ /\ w \in Sweeps
          /\ Goto(w, "query")
          /\ pod' = [pod EXCEPT ![w] = Fresh]
    /\ UNCHANGED <<graphVars, published>>

\* Fault: a failed pod is always replaced.
AfterFailure_Replace(w) == "queued"

\* The Job is tried again while backoffLimit allows (restartPolicy Never).
AfterFailure(w) == IF tries[w] <= Backoff THEN "queued" ELSE "failed"

\* A pod is gone, and its memory with it.
Fail(w) ==
    /\ Goto(w, AfterFailure(w))
    /\ pod' = [pod EXCEPT ![w] = Fresh]

\* The pod is killed, or anything it calls raises: nothing catches it per
\* incident, so it takes the whole pod down.
Crash(w) ==
    /\ at[w] \in Steps
    /\ Fail(w)
    /\ UNCHANGED <<tries, graphVars, published>>

\* Somebody did what the corrective action asks for.
CloseAction(i) ==
    /\ action[i] = "open"
    /\ action' = [action EXCEPT ![i] = "done"]
    /\ UNCHANGED <<at, tries, pod, evidence, reasoned, linked, published>>

----------------------------------------------------------------------------
(* The sweep.                                                              *)

\* Incidents in the graph with no Hypothesis node.
NeedingPostmortem ==
    {i \in Incidents : evidence[i] # "none" /\ i \notin reasoned}

\* Those of them that ended within --hours. With none the pod is done.
Query(s) ==
    /\ at[s] = "query"
    /\ \E recent \in SUBSET NeedingPostmortem :
        /\ pod' = [pod EXCEPT ![s].batch = recent, ![s].taken = recent]
        /\ Goto(s, IF recent = {} THEN "complete" ELSE "next")
    /\ UNCHANGED <<tries, graphVars, published>>

\* Fault: an incident that is skipped does not count as a failure.
TakeNext_SilentSkip(s) ==
    /\ at[s] = "next"
    /\ \E i \in pod[s].batch :
        /\ \A j \in pod[s].batch : i <= j
        /\ \/ /\ evidence[i] = "bare"
              /\ pod' = [pod EXCEPT ![s].batch = @ \ {i}]
              /\ UNCHANGED at
           \/ /\ evidence[i] # "bare"
              /\ pod' = [pod EXCEPT ![s].batch = @ \ {i}, ![s].target = i]
              /\ Goto(s, "incident")
    /\ UNCHANGED <<tries, graphVars, published>>

\* Fault: an incident that is skipped stays at the head of the batch.
TakeNext_RetriesSkipped(s) ==
    /\ at[s] = "next"
    /\ \E i \in pod[s].batch :
        /\ \A j \in pod[s].batch : i <= j
        /\ \/ /\ evidence[i] = "bare"
              /\ pod' = [pod EXCEPT ![s].flawed = TRUE]
              /\ UNCHANGED at
           \/ /\ evidence[i] # "bare"
              /\ pod' = [pod EXCEPT ![s].batch = @ \ {i}, ![s].target = i]
              /\ Goto(s, "incident")
    /\ UNCHANGED <<tries, graphVars, published>>

\* The next candidate, oldest end first. One without events is skipped; one
\* that has been finished since the query is not.
TakeNext(s) ==
    /\ at[s] = "next"
    /\ \E i \in pod[s].batch :
        /\ \A j \in pod[s].batch : i <= j
        /\ \/ /\ evidence[i] = "bare"
              /\ pod' = [pod EXCEPT ![s].batch = @ \ {i}, ![s].flawed = TRUE]
              /\ UNCHANGED at
           \/ /\ evidence[i] # "bare"
              /\ pod' = [pod EXCEPT ![s].batch = @ \ {i}, ![s].target = i]
              /\ Goto(s, "incident")
    /\ UNCHANGED <<tries, graphVars, published>>

\* One push for the whole batch.
BatchDone(s) ==
    /\ at[s] = "next"
    /\ pod[s].batch = {}
    /\ Goto(s, "push")
    /\ UNCHANGED <<tries, pod, graphVars, published>>

----------------------------------------------------------------------------
(* What both commands do for one incident.                                 *)

\* MERGE the Incident node.
UpsertIncident(w) ==
    /\ at[w] = "incident"
    /\ evidence' = [evidence EXCEPT ![pod[w].target] =
                        IF @ = "none" THEN "bare" ELSE @]
    /\ Goto(w, "events")
    /\ UNCHANGED <<tries, pod, reasoned, linked, action, published>>

\* Events are merged in one statement a type, so a pod that dies between two
\* leaves part of them. The sweep writes what it read from the graph: no news.
WriteEvents(w) ==
    /\ at[w] = "events"
    /\ \/ /\ w \in Incidents
          /\ evidence[w] = "bare"
          /\ evidence' = [evidence EXCEPT ![w] = "partial"]
          /\ UNCHANGED at
       \/ /\ w \in Incidents
          /\ evidence' = [evidence EXCEPT ![w] = "full"]
          /\ Goto(w, "model")
       \/ /\ w \in Sweeps
          /\ UNCHANGED evidence
          /\ Goto(w, "model")
    /\ UNCHANGED <<tries, pod, reasoned, linked, action, published>>

\* Where a pod goes when it is through with an incident.
Onward(w) == IF w \in Sweeps THEN "next" ELSE "push"

\* Fault: a rejected draft's reasoning is persisted like any other.
Judge_PersistsRejected(w) ==
    /\ at[w] = "model"
    /\ Goto(w, "hypotheses")
    /\ \/ /\ \E h \in BOOLEAN : pod' = [pod EXCEPT ![w].found = h]
          /\ published' = published \union {pod[w].target}
       \/ /\ pod' = [pod EXCEPT ![w].found = TRUE, ![w].flawed = TRUE]
          /\ UNCHANGED published
    /\ UNCHANGED <<tries, graphVars>>

\* The rest of the graph run: a document published, resting on hypotheses or
\* on none, or one rejected with its retries spent.
Judge(w) ==
    /\ at[w] = "model"
    /\ \/ /\ \E h \in BOOLEAN : pod' = [pod EXCEPT ![w].found = h]
          /\ published' = published \union {pod[w].target}
          /\ Goto(w, "hypotheses")
       \/ /\ pod' = [pod EXCEPT ![w].flawed = TRUE]
          /\ Goto(w, Onward(w))
          /\ UNCHANGED published
    /\ UNCHANGED <<tries, graphVars>>

\* The incident whose hypotheses a pod has to store.
Reasoning(w) == IF pod[w].found THEN {pod[w].target} ELSE {}

\* Fault: a retry that finds hypotheses takes all the rest for done.
PersistHypotheses_TakesRestForDone(w) ==
    /\ at[w] = "hypotheses"
    /\ reasoned' = reasoned \union Reasoning(w)
    /\ Goto(w, IF pod[w].target \in reasoned THEN Onward(w) ELSE "similar")
    /\ UNCHANGED <<tries, pod, evidence, linked, action, published>>

\* Returns at once when there are none.
PersistHypotheses(w) ==
    /\ at[w] = "hypotheses"
    /\ reasoned' = reasoned \union Reasoning(w)
    /\ Goto(w, "similar")
    /\ UNCHANGED <<tries, pod, evidence, linked, action, published>>

LinkSimilar(w) ==
    /\ at[w] = "similar"
    /\ linked' = linked \union {pod[w].target}
    /\ Goto(w, "actions")
    /\ UNCHANGED <<tries, pod, evidence, reasoned, action, published>>

\* Fault: the status is set on every merge.
MergeAction_SetsStatus(status) == "open"

\* ON CREATE SET status: a node that exists keeps its own.
MergeAction(status) == IF status = "none" THEN "open" ELSE status

\* The document proposes the action or does not.
PersistActions(w) ==
    /\ at[w] = "actions"
    /\ \/ action' = [action EXCEPT ![pod[w].target] = MergeAction(@)]
       \/ UNCHANGED action
    /\ Goto(w, Onward(w))
    /\ UNCHANGED <<tries, pod, evidence, reasoned, linked, published>>

\* Metrics, and the exit code.
Push(w) ==
    /\ at[w] = "push"
    /\ \/ /\ pod[w].flawed
          /\ Fail(w)
       \/ /\ ~pod[w].flawed
          /\ Goto(w, "complete")
          /\ UNCHANGED pod
    /\ UNCHANGED <<tries, graphVars, published>>

----------------------------------------------------------------------------
\* A Job of the past failed before its pods had persisted any reasoning.
Init ==
    /\ at = [w \in Jobs |-> IF w \in Past THEN "failed" ELSE "none"]
    /\ tries = [w \in Jobs |-> IF w \in Past THEN Backoff + 1 ELSE 0]
    /\ pod = [w \in Jobs |-> Fresh]
    /\ evidence \in [Incidents -> {"none", "bare", "partial", "full"}]
    /\ \A i \in Incidents \ Past : evidence[i] = "none"
    /\ reasoned = {}
    /\ linked = {}
    /\ action = [i \in Incidents |-> "none"]
    /\ published = {}

Sweep(s) == Query(s) \/ TakeNext(s) \/ BatchDone(s)

Work(w) ==
    \/ UpsertIncident(w)
    \/ WriteEvents(w)
    \/ Judge(w)
    \/ PersistHypotheses(w)
    \/ LinkSimilar(w)
    \/ PersistActions(w)
    \/ Push(w)

Next ==
    \/ \E w \in Jobs : Submit(w) \/ StartPod(w) \/ Crash(w) \/ Work(w)
    \/ \E s \in Sweeps : Sweep(s)
    \/ \E i \in Incidents : CloseAction(i)

\* Kubernetes starts the pods of a Job, and a started pod runs until it exits
\* or dies. Nothing makes an incident happen or a night come.
Fairness ==
    /\ \A w \in Jobs : WF_vars(StartPod(w) \/ Work(w))
    /\ \A s \in Sweeps : WF_vars(Sweep(s))

Spec == Init /\ [][Next]_vars

FairSpec == Spec /\ Fairness

----------------------------------------------------------------------------
(* Properties.                                                             *)

\* A Job that Kubernetes calls complete left everything: a document, the
\* similar incidents, and the hypotheses if the document rests on any. So a
\* retry after a crash anywhere in the post-run writes makes them good.
CompleteIsPersisted ==
    \A i \in Incidents : at[i] = "complete" =>
        /\ i \in published \intersect linked
        /\ pod[i].found => i \in reasoned

\* A rejected draft leaves nothing: what the graph holds of reasoning,
\* recurrence and actions comes from some published document, whichever of
\* the pods that worked on the incident wrote it.
FactsArePublished ==
    /\ reasoned \union linked \subseteq published
    /\ \A i \in Incidents : action[i] # "none" => i \in published

\* A sweep that exits zero leaves none of the incidents it found without a
\* published document, not even one it had to skip.
CleanSweepLeavesNone ==
    \A s \in Sweeps : at[s] = "complete" => pod[s].taken \subseteq published

\* No rerun, by a retry or by a sweep, reopens an action somebody closed.
ActionsStayClosed ==
    [][\A i \in Incidents : action[i] = "done" => action'[i] = "done"]_vars

\* Retries and sweeps come to an end, with every pod of every Job.
EveryJobEnds ==
    \A w \in Jobs : at[w] = "queued" ~> at[w] \in {"complete", "failed"}

----------------------------------------------------------------------------
(* What the source says of itself and the code does not keep.              *)

\* cli.py: the sweep is for incidents that "never finished" a run. A document
\* may be published without any hypothesis, and then nothing marks the end.
SweepsOnlyUnfinished ==
    \A s \in Sweeps : at[s] = "query" =>
        \A i \in NeedingPostmortem : at[i] # "complete"

\* memory.py: the query "catches a run that crashed, was OOM-killed, or
\* exhausted validation retries after collection succeeded".
CrashedRunsAreCaught ==
    \A i \in Incidents :
        /\ at[i] = "failed" /\ evidence[i] = "full" /\ i \notin linked
        /\ \A w \in Jobs : at[w] \in Steps => pod[w].target # i
        => i \in NeedingPostmortem
=============================================================================
