# Postmortem Autopilot: a TLA+ verification project

Postmortem Autopilot turns resolved alerts into postmortem documents.
Alertmanager posts to a **receiver**, which creates a Kubernetes Job per
incident; the Job runs the **agent**, a LangGraph pipeline that collects
evidence, stores it in Neo4j, asks a model for hypotheses and a text, and
publishes the text only if every citation in it resolves. A nightly **sweep**
finishes what earlier Jobs left. An **evaluation** runs the same pipeline over
golden incidents and keeps a history of its numbers.

This directory holds models of those parts (TLA+), configurations that check
them on small instances (TLC), and proofs for all instances (TLAPS).

    tlc -workers 2 -config MCReceiver.cfg MCReceiver     one model
    tlapm Receiver_proofs.tla                            one set of proofs

`PROJECT.json` lists components, runs, the source lines behind every
definition, hazards, findings and theorems, and for every checked property a
mutant of the code that breaks it. Operators whose names end in `_Something`
and whose comment begins with "Fault:" are those mutants; no specification
uses them.

## 1. Inventory

| Component | State it keeps | Operations | Talks to |
|---|---|---|---|
| Receiver (`receiver/`) | none of its own; dedup keys in Valkey (`SET NX EX`) | `POST /hooks/alertmanager`: parse, derive, claim, create ConfigMap, create Job, patch the owner reference, answer | Alertmanager (retries), Valkey, Kubernetes API |
| Pipeline DAG (`agent/graph.py`) | `PipelineState`, in memory of one process | eight nodes, one conditional edge | collectors, Neo4j, model |
| Lifecycle (`agent/cli.py`, Jobs and CronJob) | the Jobs' status; the graph | `run`, `sweep`, `validate`, `schema-init` | everything below |
| Evidence graph (`agent/memory.py`) | `Incident`, `Event`, `Hypothesis`, `CorrectiveAction` nodes and edges | idempotent merges, link rebuilding, queries | Neo4j, one transaction a statement |
| Collectors, normalisation (`agent/collectors/`, `agent/normalize/`) | none | read logs, git, alerts; make events with content-derived ids | files |
| Linker (`agent/linker.py`) | none | candidate cause/effect pairs, ranked and capped | |
| Analyst, Writer (`agent/nodes/`) | none | one model call each; parse, filter, score, rank | model provider |
| Confidence (`agent/confidence.py`) | none | signals to a score and a band | |
| Rendering (`agent/nodes/writer.py`, `agent/render/`) | none | header and generated sections around a draft | |
| Validator (`agent/nodes/validator.py`) | none | split, classify, resolve, judge | evidence graph |
| Model providers (`agent/llm.py`) | none | one call; retry with backoff on transient errors | HTTP |
| Configuration (`agent/config.py`) | none | environment and files to a `Config`, or a refusal | |
| Evaluation (`evals/`) | result files, history, a block of the README | run cases, score, gate, append, report | pipeline |
| Reports, metrics | Prometheus counters of a process | push at the end | Pushgateway |
| Backup (`cronjob-backup.yaml`) | the StatefulSet's replicas | stop, dump, start | Kubernetes |

What is hard, and what correctness means, component by component:

* **Receiver.** Four remote calls, no transaction around them, and a caller
  that retries on anything but a 2xx. Two pods during a rolling update; a
  garbage collector and a TTL controller that act in their own time. Correct
  means: one Job a claim, every Job with its files, every resolved alert in the
  window of some Job, every notification answered in the end, nothing left
  behind.
* **Pipeline.** A cycle (validate, write) with a counter that does not count
  every turn, cut off by a limit on supersteps. Correct means: only a document
  that passed is published, none is rejected that had a repair left, the model
  is not called without bound nor before the evidence is complete.
* **Lifecycle.** Several pods write to one graph; any dies between two writes,
  and is started from the beginning. "Unfinished" is inferred from the absence
  of a node. Correct means: complete Jobs left everything, rejected drafts left
  nothing, sweeps report what they could not do, human decisions stay.
* **Evidence graph.** Nodes shared by incidents; a chain dropped and rebuilt in
  two transactions; a fingerprint read in one and set in another; verdicts that
  are only ever added. Correct means: what a model is shown resolves, a chain
  is the timeline, recurrence is claimed of incidents whose evidence shows it.
* **Collectors, linker, analyst, confidence.** Pure functions with caps, ties,
  ratios with denominators that shrink, and a model's reply in the middle,
  which may be anything; and a second pass over what a first one stored.
  Correct means: nothing that was collected is lost or counted twice, causes
  come before effects, evidence exists, numbers mean what their words say.
* **Validator, rendering.** A document is put together from a draft and
  generated sections, then taken apart again line by line. Correct means: what
  passes cites what exists, at the time it says, to the share asked for.
* **Providers, configuration, evaluation.** Failures that must be told apart; a
  suite that may stop anywhere, and a verdict decided in two places.

The list with source lines is `hazards` in `PROJECT.json`; a hazard that no
property covers says why.

## 2. Modules

| Module | Models | Extends / instantiates |
|---|---|---|
| `PublishGate` | the abstract promise of one run | |
| `Pipeline` | `graph.py`, one `invoke` | instantiates `PublishGate` |
| `Receiver` | `receiver/` with Alertmanager, Valkey, Kubernetes | |
| `Lifecycle` | `cli.py` run and sweep, Jobs, shared graph | |
| `Events` | event types, timeline order, who may cause whom | |
| `EvidenceGraph` | `memory.py`: the writes of overlapping passes | `Events` |
| `Collection` | `collectors/`, `normalize/`: from items to events | `Events` |
| `Linker` | `linker.py`, and the chains `memory.py` selects | `Collection` |
| `Confidence` | `confidence.py` | |
| `Analyst` | `nodes/analyst.py` after the reply | `Confidence`, `Linker` |
| `Reasoning` | one incident from sources to ranked hypotheses, pass after pass | `Analyst` |
| `Config` | `config.py` | |
| `ModelProvider` | `llm.py` | |
| `Document` | the writer's assembly and `render/` | |
| `Validator` | `nodes/validator.py` | `Document` |
| `Metrics` | `evals/metrics.py` and labels | `Validator` |
| `Evaluation` | `evals/runner.py`, `update_readme.py`, and a run's calls and documents | `Config`, `ModelProvider`, `Metrics` |
| `MC*` | constants for TLC | the module they check |
| `*_proofs` | theorems and proofs | the module they prove about |
| `Ranks` | nothing: lemmas on finite sets, orders and induction | |

The same code appears in more than one module where it has more than one side.
A run is one action of `Lifecycle` (`Judge`), a graph of nodes in `Pipeline`,
and calls and documents in `Evaluation`; a write to Neo4j is one step of
`Lifecycle`, with the order of steps and crashes, and one statement of
`EvidenceGraph`, with what it does to others' statements.

### Pipeline

`node` is the node LangGraph executes next and `step` how many supersteps it
has executed; each node function is one action (`Collect`, `BuildGraph`, ...,
`Publish`). A node that writes to the graph or calls the model may raise
instead, after part of its writes. `stored` is what the graph holds of the
incident, `validation`, `retry_count` are the state's fields of that name, and
`draft` tells only whether the model's text is empty, which is what Python's
truth value of it decides on in `write`. The verdict of the validator is
nondeterministic, except that a document with no factual sentence passes: with
an empty draft only the generated header can carry one (`header_claims`).
`calls`, `drafts`, `document` and `blank` are history. `mode` selects between
`build_pipeline` and `build_recovery_pipeline`; the latter starts at
`build_graph` with events read from the graph. `Leftovers` are the prefixes of
the graph writes an earlier attempt may have left.

`PublishGate` knows drafts, verdicts and outcomes only. The refinement mapping
calls a draft *unjudged* until the document under `validation` was built from
it, so a stale report does not count as a verdict.

### Receiver

The alerts are those of one Alertmanager group. Each has a start, and those
that one evaluation fires share it: an incident is named by the earliest start
of the resolved alerts, as `derive_incident` does (`window.py:41`, `55-58`),
and that name is the dedup key and the name of both objects. Two alerts with
one start have one key even if they resolve in different notifications. A
handler is a record: the call it makes next (`at`), the resolved alerts of its
notification, its incident and the uid of the Job it made. One action per
remote call, each with its failure: a failed call may have taken effect or not.
An exception out of a call is a 500 (`Close(p, FALSE)`). The handler is a
coroutine whose calls all block, so a pod has one handler at a time; `Pods`
lets several pods overlap. Alertmanager (`Fire`, `Resolve`, `Notify`,
`Timeout`), Valkey's expiry and the Kubernetes controllers (`FinishJob`,
`ReapJob`, `Collect`) are external and as free as their documentation lets them
be: the garbage collector, for one, may be arbitrarily late. The TTL controller
deletes in the foreground: `ReapJob` only marks the Job, which keeps its name
until `RemoveJob`, while `Collect` takes the ConfigMap, whose owner reference
blocks that (`jobs.py:232`). So a later attempt may make the ConfigMap and meet
the Job that is still on its way out: `CreateJob` has the conflict as a branch,
`clashed` remembers it, and `NoRivalJob` says that no other Job can be in the
way. `covered` and `clashed` are history.

### Lifecycle

A *worker* is a Job: that of an incident (`run`) or a night's (`sweep`). `at`
is the Job's status or the next step of its pod, `pod` what the process has in
memory, which is lost when it ends. The Cypher statements are the actions:
`UpsertIncident`, `WriteEvents` (which may stop half way), `PersistHypotheses`,
`LinkSimilar`, `PersistActions`. `Judge` is everything between the evidence
and the outcome; `Pipeline` has its inside. `Crash` may happen at any step and
stands for an exception, too: nothing in `cmd_sweep` catches one per incident.
`Push` ends a run with its exit code. `Past` are incidents whose Jobs had
failed before the model starts, so that a sweep has something to find on the
first night.

### EvidenceGraph

A *pass* is one way of a pod through one incident, `pass[p]` what the pod has
in memory and `at` its next statement; the graph is one variable a node label
or edge type. The actions are the Cypher statements in the order in which
`graph.py`, `memory.py` and `cli.py` issue them: `UpsertIncident`,
`WriteEvents` (one statement an event type), `DropChain` and `BuildChain` (the
two of `link_temporal`), `LinkCandidate` (one a candidate), `ReadComponents`
and `SetFingerprint` (the two of `compute_fingerprint`), then, for a run that
published, `MergeHypotheses`, `MergeSupports`, `MergeContradicts` and
`LinkSimilar`. Between any two of them another pass may write, or the pod die.
An event is id, type, time, symptom, count and attributes; the symptom stands
for service and signature. All but the attributes are replaced by a rewrite;
those are added to (`memory.py:269`), so they are a variable of their own.
Because the id of a collapsed log error is a hash of service and signature
only, two incidents with the same error share a node, and each `SET`s its count
and time as it saw them. `torn` names the incidents written to since their
chain was last dropped: an incident whose pod died there has no promise to be
in order. What the model is given is the events in memory and the chains the
graph has for the incident (`Chains`), of which only the effect need be in the
incident (`memory.py:380-382`); it may cite the causes, too. `judged` and
`contended` (passes that met another over the same incident) are history.

Every statement is one step, its reads with its writes. Neo4j is
read-committed, so that is an assumption: between what the second statement of
`link_temporal` matches and what it merges, another transaction could commit.

### Collection, Linker, Analyst, Confidence, Reasoning

`Collection` translates what each collector keeps of an item (`ParseLine`,
`ParseCommit`, `ParseAlert`; a line is known by the name of its file and its
number in it), the window, canonical service names (alias first,
then the longest suffix, once), and normalisation: error lines with one service
and one signature become one event with a count, under an id that does not
depend on the line, and the newest beyond `MAX_EVENTS_PER_RUN` are cut after
that. git selects commits by the committer's date and the record has the
author's; both are in the model. `Linker` has the window, the heuristics, the
ranking and the cap, and the selection of chains (`CandidateChains`); where the
order leaves a choice, any of them is possible, as Neo4j makes it. `Analyst`
takes a reply of the model, which is any list of items, to hypotheses:
unknown ids go, the contradicting side wins, what is left without support goes,
signals are derived, scores and bands computed and the list sorted stably.
`Confidence` has the score in exact ten-thousandths.

`Reasoning` composes them over `step`, the node a pass is at. A `run` collects,
any source may fail or hold something else than the last time, and a `sweep`
takes its events from the graph and its sources from what those events name.
Passes follow one another and leave `stored` and `links` to the next; any may
abort between two steps. `moved` and `earlier` are history.

### Config, ModelProvider, Document, Validator, Metrics, Evaluation

`Config`: an environment is a record of raw settings, and `Accepted` and `Load`
say which start a run and with which values. An empty text variable is an error
and an empty number is the default, as `_env_str` and `_env_int` have it.
`ModelProvider`: every way a request fails, which of them are transient for
which provider, and the delays. A request is one call of `inner.complete`: for
Anthropic that is a call of its SDK, whose client (`llm.py:215`) by default
retries timeouts, dropped connections and server errors by itself, so requests
and waits are those of `RetryingProvider` and there may be more on the wire.
`Document`: a document is a sequence of lines with a kind; a draft loses its
own timeline and gets the generated one in front of the hypotheses. What a
search for "## ..." does to a deeper heading is part of that (`Headed`,
`Glued`). `Validator` reads lines into sentences under a path of headings: what
is known after each line (`CodeAfter`, `SectionAfter`, `SentencesOf`,
`CitationsOf`) is a function of its number. Text is not in the model: a
sentence is a claim, a question, a fragment or a remark on the analysis, a
citation an event and maybe a time.

`Evaluation` is the process of `evals.runner` over `stage`: configuration,
selection, then, case by case, the two model calls with every failure of a
request, the repair loop over rendered and validated documents, and the score;
then history and verdict. With `--sweep-weights` it goes round several times
and keeps nothing. `Stop` stands for any exception elsewhere. `UpdateReadme` is
the other process, at any time. An option is chosen where it is first read.
`gated` and `lost` are history.

## 3. Runs

| Run | Instance | States | Checks |
|---|---|---|---|
| `pipeline` | 3 collectors, 2 retries (the default) | 7 thousand | `TypeOK`, `SpendBound`, `LimitSparesHonestRuns`, `ReasonsOverCompleteGraph`, `ImplementsGate` |
| `receiver` | 3 alerts of which 2 start together, 2 pods, 1 fault, 1 expiry a key | 293 thousand | `TypeOK`, `JobFindsIncident`, `NoRivalJob`, `OneJobPerClaim`, `Acknowledged`, `CoveredUnlessFaulted`, `NoLeakUnlessFaulted` |
| `lifecycle` | 2 incidents, 1 sweep, 1 retry a Job | 238 thousand | `TypeOK`, `CompleteIsPersisted`, `FactsArePublished`, `CleanSweepLeavesNone`, `ActionsStayClosed`, `EveryJobEnds` |
| `evidence` | 2 incidents with one failure mode, 3 passes, 2 at a time, 1 crash | 2.11 million | `TypeOK`, `StoredAsObserved`, `GivenEvidenceResolves`, `ChainIsTimeline`, `SimilarIsJustified`, `VerdictsAreStored`, `BothSidesOnlyAfterRerun`, `FingerprintIsCurrent` |
| `reasoning` | 3 passes, 3 sources, up to 5 events, shipped weights | 327 thousand | `TypeOK`, `RecordsAreAccountedFor`, `OneNodePerFailureMode`, `ChainsPointForward`, `EvidenceIsReal`, `RanksFollowScores`, `LossOfSource`, `ObjectionsDemote` |
| `evaluation` | 2 cases, 9 environments, 184 drafts, 3 attempts | 827 thousand | `TypeOK`, `PassedIsCited`, `GivenUpInTime`, `OnlyWholeSuites`, `ReadmeTellsTheVerdict`, `EverySuiteEnds` |
| `receiver_lost` | as `receiver`, no expiry | violated | `DedupedIsHandled` |
| `receiver_leak` | as `receiver`, no expiry | violated | `ConfigMapGoesWithJob` |
| `receiver_flap` | one alert firing twice, no fault | violated | `FlapsShareOneJob` |
| `lifecycle_redone` | as `lifecycle` | violated | `SweepsOnlyUnfinished` |
| `lifecycle_missed` | as `lifecycle` | violated | `CrashedRunsAreCaught` |
| `reasoning_same` | as `reasoning` | violated | `SameGraphSameNumber` |

What the larger ones show:

* `receiver`: whatever is retried, late or reaped, a claim makes at most one Job
  and a Job has its files. Without a fault every alert gets into the window of
  a Job, but for one that resolves after an alert of the same start had its
  Job, and what comes with it (`Overshadowed`); see section 4.
* `evidence`: whatever two pods and a crash do to each other's statements, the
  fields of a node are those of one observation and never a sum, and only
  attributes of earlier ones remain; every event a model is given is in the
  graph and in the incident, so `link_candidate` never raises and `MATCH` drops
  no verdict; a chain it is given lies within one incident, which need not be
  this one if they share an event, and nothing of it gets into what is stored
  about this one; a chain of `PRECEDES` is the timeline of its incident, unless
  the incident shares an event, in which case the other one's rebuild takes
  edges out of it; a fingerprint, though read and set in two transactions,
  never claims a recurrence the edges do not show, since edges are only added,
  and is the current one when a pass that had its incident to itself goes by it.
* `reasoning`: lines are neither lost nor counted twice by collapsing and
  cutting; a failure mode keeps its node over passes with different lines; no
  reply gets an unknown event or one event on both sides into a hypothesis. Of
  `ChainsPointForward` an event that was collected again with another time is
  an exception the code needs: its old edges stay, and may point backwards.
  A source that fails raises a score by as much as its own objections cost, or
  by its silence; contradictions zero only weak hypotheses.
* `evaluation`: a document that passes cites only what exists, at the right
  time, and enough of it, said over the whole document rather than line by
  line; a history never holds half a suite; what the README says of a gated run
  is what its exit code said, unless a label did not resolve. A call is asked
  again only after a failure that may pass, and then as often as the limit lets
  it, Anthropic's timeouts excepted.

**Bounds, and why they are enough.** `MaxFaults` bounds failed calls, crashes
and timeouts together. One fault reaches every finding. `MaxExpiries` one lets
each key be claimed twice, which is what a Job that is being deleted and its
late garbage collection need. Three alerts, two of one start and a later flap of
the first, are enough for a notification whose earliest alert is not its newest,
for twins that resolve apart and for an alert that is lost with a twin;
`receiver_flap` has two of one series. In `lifecycle`
an incident of the past gives the sweep work from the start, a new one gives it
a Job to race, and a retry lets a pod find what its predecessor left. `Backoff`
is one instead of the chart's two, the least that has a retry.

In `evidence` the three passes are a run of an incident, a sweep over the same
one and a run of a later incident with the same error. `Crashes` one lets a
pass die at any statement and start again; the sweep then finds a part of the
events. `AtOnce` two bounds overlap to pairs, which is what the two-statement
writes need. A collection of the first incident may or may not hold the log
line and the end of its alert, so a rerun may find an event between two that
were consecutive, and an attribute more or less. One answer cites the other
incident's commit, which a chain to the shared line shows. In `reasoning` the
sources hold two lines of one failure under two names of a service and one of
another service, a line that some collections miss, a cause, a decoy, a rebased
commit and an alert; five events are one less than there may be, so the cut
happens, and chains are limited to five, fewer than there are links. Three
passes give a stored event two later ones. `Replies` have unknown ids, an event
on both sides, no statement, and a ranking that contradicts the scores. In
`evaluation` drafts are all pairs of thirteen kinds of lines and eleven longer
ones, up to seven lines, for sections in sections, fences around a heading,
coverage just above and below the threshold, and a timeline of the model's own.
A second is two units of the clock, so that half a second off is accepted and a
whole one is not. One title names an exempt section. Nine environments are one
of each provider and six refusals.

Properties of the tables are proved without any of these bounds where section 5
says so.

Deadlock is not checked: a run, a Job, a batch of alerts and a suite really
end.

**Fairness.** `Pipeline`, `EvidenceGraph` and `Reasoning` need none: that a run
ends is LangGraph's doing, what the code's limit allows before that is a safety
property. `Receiver`: a pod's handler goes on, Alertmanager notifies again
while something is unacknowledged (it retries and repeats), the controllers of
Kubernetes do their work; alerts, expiries and faults owe nothing.
`Lifecycle`: Kubernetes starts the pods of a Job and a pod goes on until it
exits or dies; no fairness for submission, crashes or people. `Evaluation`: its
process goes on, which is `WF_vars(Process)`: the code has no wait but for
requests, and those time out. It is written `WF_progress(Runs)` with the
variables `stage`, `call` and `rounds`, at least one of which every step of the
process changes and `UpdateReadme` never does, and with what enables a step of
the process said directly; that is the same, and far cheaper to evaluate.

## 4. What the violated runs show

1. **A claimed incident may be lost** (`receiver_lost`). The key is claimed
   before anything is created and never given back. One failed call of the
   Kubernetes API: 500, retry, "deduped", and no Job for the TTL (six hours).
   The sweep cannot help: the incident was never in the graph.
   `CoveredUnlessFaulted` says that without a fault only twins are lost, below.
2. **A ConfigMap may outlive its Job** (`receiver_leak`). The owner reference
   comes last and is never tried again. The ConfigMap left over makes the next
   attempt for that incident fail with a conflict. `NoLeakUnlessFaulted` is
   the same promise without a fault, unless the attempt met a Job that was just
   being deleted, which leaves a ConfigMap as well.
3. **A flapping alert gets a Job a flap** (`receiver_flap`), since the key
   contains the start of the alert.
4. **A published incident is swept again** (`lifecycle_redone`), if its document
   rests on no hypothesis: by every sweep as long as its window ended within
   that sweep's `--hours`.
5. **A crashed run may be found by no sweep** (`lifecycle_missed`), if it
   crashed after its hypotheses were stored.
6. **A sweep scores the same graph differently** (`reasoning_same`). It takes
   its sources from the events, and an alert's source is "alertmanager" where
   the confidence model asks for "alerts" (`cli.py:283`): an alert that counted
   for a hypothesis in the run counts for nothing in the sweep, and its weight
   is out of the denominator as well.

What else the modelling met. There is no run for each of these; the first six
are exceptions, or bounds, that a property above states:

* Two alerts of one start have one key. If the first resolves and gets its Job,
  and the second resolves later, its notification is "deduped"
  (`main.py:134`) and the second alert is in no Job's window, with no fault at
  all; an alert that resolves with the second is lost with it.
* `docs/02-knowledge-graph.md:177` calls leakage between incidents "structurally
  impossible", yet `get_candidate_chains` wants only the effect in the incident:
  through a log node that two incidents share, the prompt of one shows the
  other's cause (`GivenEvidenceResolves`). The analyst drops it if it is cited.
* Two passes over one incident may undo each other's fingerprint: one that read
  before the events were written sets a stale or empty one after the other
  (`FingerprintIsCurrent` is about passes that had the incident to themselves).
* `docs/01-architecture.md:250` says of a collector that errors that "confidence
  scores drop accordingly". They may rise: a silent source leaves the
  denominator (`confidence.py:136`), and a source that holds objections takes
  their penalty with it. `LossOfSource` says by how much at most.
* `confidence.py:122` and `config/confidence.yaml` say that the penalty can
  demote a hypothesis "but never zero it". It does zero one whose support is no
  more than the cap; `ObjectionsDemote` says that it does so to no other.
* A timeout or a dropped connection of the Anthropic client has no status and
  is not transient (`llm.py:224`), other than OpenRouter's. `llm.py:45` counts
  timeouts among what is worth retrying, and `docs/01-architecture.md:253` names
  three attempts for a failed call. `GivenUpInTime` makes that one exception; the
  SDK's own retries are all such a call gets.
* The heading everything in a document is under is its title, and a heading
  exempts by containing the name of a section (`validator.py:339`): an incident
  of a service called "recommendations" has no claim that wants a citation.
  `PassedIsCited` makes an exception of such titles, for claims; wrong
  citations fail there as well.
* A code fence that is not closed hides what follows from the validator.
* Only the first timeline of a draft is replaced; a second is taken for the
  model's table and read over.
* The gates look at averages of coverage and hallucination, not at whether the
  document was accepted (`metrics.py:158`): one rejected for a wrong time only
  counts as fully covered.
* `--case X` appends to the history like a whole suite, and is then what the
  README is about. The README says nothing of labels that did not resolve,
  although the run failed for them. One case that raises ends the suite with
  nothing written.
* No collector reads chat, so `human_confirmation` is never available, and no
  hypothesis can have its weight.
* A stored chain may name an event this pass did not collect; citing it is then
  dropped as an invention, though the model was shown it.
* The backup's trap is set after its wait: a timeout there leaves the database
  stopped.

## 5. Proofs

`tlapm` checks every leaf. Every safety property of the six passing runs is
proved of its specification, for every value of the constants that the modules'
`ASSUME`s allow; TLC evaluates those on every run.

* **`Pipeline_proofs`.** `TypeCorrect`, `SpendBounded`, `HonestRunsSpared`,
  `GraphCompleteBeforeModel` and the refinement `RunImplementsGate`, for any
  collectors and any `MaxRetries`. The inductive invariant `Inv` ties `step` to
  the node: the prefix of the graph takes a fixed number of supersteps and each
  draft two more, so `step`, `drafts` and `calls` determine each other at every
  node, and `retry_count` is one less than `drafts` unless an empty draft met a
  header with a claim. Without it nothing relates the limit on supersteps to
  the number of model calls.
* **`Receiver_proofs`.** `TypeCorrect`, `JobsFindTheirIncident`,
  `JobsHaveNoRival`, `ClaimsMakeOneJob`, for any alerts, starts, pods, faults
  and expiries. None is inductive. For the second and third, two facts are
  added: a Job that is not being deleted has its ConfigMap, which has no owner
  but that Job (so the collector cannot take it), and the pod between the two
  creations is alone with its incident, its ConfigMap unowned and no Job of the
  name there but one on its way out. That holds because a ConfigMap that exists
  shuts every other creator out, whatever becomes of the dedup key.
  The fourth counts (`ClaimInv`): the Jobs a key has made and the pods that hold
  a claim of it and have not made theirs are together no more than the claims
  granted, one for each expiry and one for the claim that stands.
* **`Lifecycle_proofs`.** `TypeCorrect`, `CompleteJobsArePersisted`,
  `FactsComeFromPublished`, `CleanSweepsLeaveNone`, `ClosedActionsStayClosed`,
  for any incidents, sweeps and retries. The invariant says for each step what
  the pod at it has already published and stored, and for a sweep that what it
  has taken is published, still in its batch, under its hands, or counted as
  failed. `StepAlone` and `LocalStep` reduce a step to the Job that moves:
  facts in the graph only accumulate.
* **`EvidenceGraph_proofs`.** `TypeCorrect`, `NodesAreObservations`,
  `EvidenceResolves`, `NoVerdictIsDropped`, `BothSidesNeedTwoJudgements`,
  `FingerprintsAreCurrent`, `RecurrenceIsJustified`, `ChainsAreTimelines`, for any
  incidents, collections, answers, passes, overlap and crashes. The invariant
  says that what a pass has in memory is `Backed` by the graph: from the
  statement that stored it on, every event it was given is a node and in its
  incident, its candidates have both ends, the components it carries are its
  incident's own. That survives what others write because the graph `Grows`:
  nodes keep their ids, memberships, causal edges and verdicts are only added,
  and a node that is rewritten keeps type and symptom, hence its components
  (`ObservedAssumption`). `NothingWritten`, `StillBacked` and their like turn
  that into one lemma a kind of step. `ChainInv` is for the chain: if no event
  is shared and nothing was written since the drop, its edges are part of the
  timeline's, and all of it unless some pass is between the two statements; two
  rebuilds at once insert the same edges. `GivenInv` keeps every causal edge
  within some incident, since whoever made it had both ends in its own.
  `CurrentInv` is for the fingerprint: two passes over one incident are both
  contended, so for one that is not, what it has read, and then set, stays what
  the graph shows, because another incident with at most one event in common
  adds no causal edge between two of this one's. `AttributesInv` keeps a node's
  attributes between those of its last observation and those of all.
* **`Confidence_proofs`.** `ScoreInRange`, `ObjectionsNeverHelp`,
  `LostSupportNeverHelps` and `LostSilenceNeverHurts`, for any weights, penalties
  and bands the configuration accepts. The last two say for all signals what
  `LossOfSource` checks for the shipped weights: a share that is no more than
  one does not grow when the same weight leaves both its parts (`ShareGrows`),
  nor shrink when it leaves the denominator alone (`ShareOfLess`), even when it
  is rounded; what is left of a gain is the penalty of the objections that went
  with the source.
* **`Reasoning_proofs`.** `TypeCorrect`, `RecordsAccounted`, `OneNodeEach`,
  `CausesComeFirst`, `EvidenceResolves`, `NumberRanks`, `LosingASource`,
  `ContestedIsNotLikely`, for any sources, hashes without collisions, replies
  and numbers of passes. The lemmas before the invariant are about one step's
  operators: two records of a finding are told apart by what their ids are
  hashes of (`WellFormed`), collapsing partitions them, the cut takes the latest
  (`FirstFew`), a ranking is the order it claims to be (`RankGrows`). `Inv` says
  that stored nodes are told apart by id and hold what was seen last; that a
  link joins two of them and is as long as the time between, unless one of them
  was collected again with another time; that the events of a pass are stored
  once it has written them; and of a hypothesis that its signals and its score
  are those of its evidence (`Sane`). `ContestedIsNotLikely` asks of the numbers
  that two objections cost more than what is between certainty and the band. It
  is so of the shipped ones; `agent/config.py` does not ask for it. That only
  hypotheses within the cap are zeroed needs nothing of them
  (`OnlyTheWeakAreZeroed`).
* **`Evaluation_proofs`.** `TypeCorrect`, `GivesUpInTime`, `SuitesAreWhole`,
  `AcceptedAreCited`, `ReadmeAgrees`, for any distinct cases, any environments,
  drafts, evidence, histories and failures.
  - `GivesUpInTime`: `CallInv` relates the requests made and what was waited,
    the base delay times one less than a power of two, and says that what was
    asked again had failed in a way that may pass (`OnlyPassingIsRetried`).
  - `SuitesAreWhole`: the property does not know what a suite is made of before
    it is appended; the invariant does. What is still to do is the end of what
    was selected, and the results are those of the cases before, one each. A
    sweep of weights keeps no results and never comes to a report.
  - `AcceptedAreCited`: the validator reads line by line and carries a state;
    the property counts fences and looks for headings over the whole document.
    `CodeIsParity` says that a line is code if and only if the fences up to it
    are odd in number, `SectionsAreOpen` that the path is that of the headings
    still open; then what is read of a line is what the property takes it for
    (`SaidAsRead`, `ExemptAsRead`). `ReportInv` keeps that a report which passes
    is that of the document, through repairs that replace the draft but not yet
    the document.
  - `ReadmeAgrees`: `main` looks at every result, the README at the
    averages that are in the history. `VerdictInv` says what the
    exit code of a gated run was made of. A share of fabricated citations that is
    not zero is not zero on average (`RoundingUp`, `TotalZero`), so the two
    cannot differ on it.
* **`Ranks`.** What the other two rest on: a set of numbers has a least one, an
  image of a finite set is finite, and in a strict order each rank is taken
  once. `Induction` (up to a number, from the least counterexample) and
  `Recursion` (a function that is defined step by step exists) make induction
  over the length of a document or of a list of results possible where sets and
  functions are enough.

What is assumed, and what in the code justifies it:

* `HashAssumption`: an id is a hash of a source and a native key
  (`agent/state.py:95`), and no two keys that are met have one hash. It
  says nothing of keys that leave out what they should have in them: what is
  hashed is in the model.
* `ItemAssumption`: what is in a source is finite, and items of one collection
  are told apart by the name of their file and their number in it, by commit
  hash, and by rule and start. Of lines that leaves out two files of one name in
  two directories, which `LogCollector` reads (`rglob`) and whose lines without
  a signature it does not tell apart (`logs.py:198-213`). Of alerts
  Alertmanager does not promise it: two services may fire one rule in one
  second. Their ids then collide in the code, which section 6 and the hazards
  leave open, so the theorems are about collections where neither happens.
* `AliasAssumption`, `ObservedAssumption`: no alias for two services; an id
  determines type and symptom.
* `StartAssumption`: two alerts of one series do not start at the same time.
* `CollectorAssumption`: the collectors are the code's, each once.
* `ReplyAssumption`: a reply is what the parser lets through, of any content.
* `ModelAssumption`, `LinkerAssumption`, `MaxEventsAssumption` and the like:
  settings are in the range outside of which `Config` refuses them.
* `TitlesAssumption`: headings that the code itself writes are titles, and no
  exempt section has an empty name. `TimesAssumption`: a missing time is not one
  that does not parse.
* `DraftsAssumption`, `EvidenceAssumption`: a draft has a line, and a case an
  event. A run without events ends before the model is asked
  (`agent/graph.py:156`), and an empty draft is `Pipeline`'s.
* `CasesAssumption`, `TitleAssumption`, `PastAssumption`: cases are directories,
  so distinct; a document is titled by its incident; a history is a finite list.

Only model-checked: liveness (`Acknowledged`, `CoveredUnlessFaulted`,
`NoLeakUnlessFaulted`, `EveryJobEnds`, `EverySuiteEnds`), which TLAPS cannot do
under fairness, and the six properties of section 4, which do not hold.

## 6. What is not modelled

* Text: regular expressions, JSON and git's output, prompts, wording, the
  splitting of a line into sentences. What a text is reduced to is a constant
  (`Signature`, `Words`, `Distinctive`), a sentence is its form.
* Numbers: scores are exact, where the code has floats rounded to four
  decimals; the shares of the evaluation are ten-thousandths, rounded down,
  those of fabricated citations rounded up, since the gate asks of the float
  only whether it is more than nothing.
* Ids are distinct for distinct symptoms. The id of an alert is of its rule and
  start alone, so two services with one rule and one second would collide;
  `ObservedAssumption` and the constants of `MCReasoning` leave that out, as they
  do two log files of one name.
  Aliases are taken to be unambiguous (`AliasAssumption`).
* `EvidenceGraph` has one hypothesis an incident, so no two with the same
  statement. `Reasoning`'s passes do not overlap and `EvidenceGraph`'s do.
* `revise_until_valid`, which only tests call; the service filter of the
  collectors, which nothing sets; measures that are printed and not decided on,
  with the gates that only warn.
* Prometheus counters; receiver configuration, health and authentication, which
  keep no state; the charts, whose values are constants of the models; the
  backup's script.
* In `Lifecycle`, one corrective action stands for all of an incident, and the
  document, which lives in the pod's scratch volume, is a set of incidents. In
  `Receiver`, an alert that fires again before its resolution is acknowledged
  is left out.

## 7. Plan

1. Done: the modules of section 2 with their runs, and a proof of every safety
   property they check.
2. The receiver against an abstract specification, "at most one Job a claim,
   and one for every alert", as a refinement.
3. Hypotheses with equal statements in `EvidenceGraph`; the backup's script as a
   module next to `Lifecycle`.
