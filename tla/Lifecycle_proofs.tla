-------------------------- MODULE Lifecycle_proofs --------------------------
(***************************************************************************)
(* Proofs about Lifecycle for any incidents, any number of sweeps and any  *)
(* backoffLimit.                                                           *)
(*                                                                         *)
(* What a complete Job or a clean sweep left is known only from what its   *)
(* last pod had done at each of its steps: JobInv and SweepInv say it step *)
(* by step, FactInv ties every fact in the graph to a published document.  *)
(***************************************************************************)
EXTENDS Lifecycle, TLAPS

PostRun == {"hypotheses", "similar", "actions"}

\* A Job that still may start a pod has a try left.
TriesInv ==
    \A w \in Jobs : at[w] \in {"none", "queued"} => tries[w] <= Backoff

\* A pod past the model calls has published; only such pods write facts.
FactInv ==
    /\ FactsArePublished
    /\ \A w \in Jobs : at[w] \in PostRun => pod[w].target \in published

\* A pod of an incident's Job works on that incident alone, and what it has
\* done of the post-run writes shows in the graph.
JobOK(i) ==
    /\ at[i] \notin {"query", "next"}
    /\ at[i] \in Working => pod[i].target = i
    /\ at[i] \in {"similar", "actions"} /\ pod[i].found => i \in reasoned
    /\ at[i] = "actions" => i \in linked
    /\ at[i] = "push" /\ ~pod[i].flawed =>
          /\ i \in published /\ i \in linked
          /\ pod[i].found => i \in reasoned
    /\ at[i] = "complete" =>
          /\ i \in published /\ i \in linked
          /\ pod[i].found => i \in reasoned

JobInv == \A i \in Incidents : JobOK(i)

\* Until a sweep's pod is flawed, the candidates it is through with have all
\* been published; the one it works on may still be open.
SweepOK(s) ==
    /\ at[s] \in {"next", "push"} \union Working /\ ~pod[s].flawed =>
          \A i \in pod[s].taken :
              \/ i \in published
              \/ i \in pod[s].batch
              \/ (at[s] \in Working /\ i = pod[s].target)
    /\ at[s] = "push" => pod[s].batch = {}
    /\ at[s] = "complete" => pod[s].taken \subseteq published

SweepInv == \A s \in Sweeps : SweepOK(s)

Inv == TypeOK /\ TriesInv /\ FactInv /\ JobInv /\ SweepInv

----------------------------------------------------------------------------

\* An incident is no sweep.
LEMMA Disjoint == ASSUME NEW i \in Incidents PROVE i \notin Sweeps /\ i # 0
  BY IncidentsAssumption, SweepsAssumption

\* An empty memory is one.
LEMMA FreshTyped == Fresh \in Memory
  BY DEF Fresh, Memory

\* The initial states satisfy the inductive invariant.
LEMMA InitInv == Init => Inv
  <1> SUFFICES ASSUME Init PROVE Inv
    OBVIOUS
  <1>1. TypeOK
    <2>1. at \in [Jobs -> Steps \union JobStates]
      BY DEF Init, JobStates
    <2>2. tries \in [Jobs -> 0..(Backoff + 1)]
      BY BackoffAssumption DEF Init
    <2>3. pod \in [Jobs -> Memory]
      BY FreshTyped DEF Init
    <2>4. \A w \in Jobs : at[w] \notin Working
      BY DEF Init, Working
    <2> QED
      BY <2>1, <2>2, <2>3, <2>4 DEF TypeOK, Init
  <1>2. FactInv
    BY DEF Init, FactInv, FactsArePublished, PostRun
  <1>3. JobInv
    BY DEF Init, JobInv, JobOK, Jobs, Working
  <1>4. SweepInv
    BY Disjoint, PastAssumption DEF Init, SweepInv, SweepOK, Jobs, Working, Fresh
  <1>5. TriesInv
    BY BackoffAssumption DEF Init, TriesInv
  <1> QED
    BY <1>1, <1>2, <1>3, <1>4, <1>5 DEF Inv

----------------------------------------------------------------------------

\* A step of one Job: every other Job stays where it is and what it is.
Alone(w) ==
    /\ \A v \in Jobs : v # w => at'[v] = at[v] /\ pod'[v] = pod[v]

\* Every action of a Job moves that Job alone.
LEMMA StepAlone ==
  ASSUME TypeOK, NEW w \in Jobs,
         \/ Submit(w) \/ StartPod(w) \/ Crash(w) \/ Work(w)
         \/ (w \in Sweeps /\ Sweep(w))
  PROVE  Alone(w)
  <1>1. \/ UNCHANGED at
        \/ \E s \in Steps \union JobStates : at' = [at EXCEPT ![w] = s]
    BY DEF Submit, StartPod, Crash, Work, Sweep, Goto, Fail, AfterFailure,
           UpsertIncident, WriteEvents, Judge, PersistHypotheses, LinkSimilar,
           PersistActions, Push, Onward, Query, TakeNext, BatchDone, Steps,
           Working, JobStates
  <1>2. \/ UNCHANGED pod
        \/ \E m : pod' = [pod EXCEPT ![w] = m]
    BY DEF Submit, StartPod, Crash, Work, Sweep, Fail,
           UpsertIncident, WriteEvents, Judge, PersistHypotheses, LinkSimilar,
           PersistActions, Push, Query, TakeNext, BatchDone
  <1> QED
    BY <1>1, <1>2 DEF Alone, TypeOK

\* It is enough to look at the Job that moves: facts only accumulate.
LEMMA LocalStep ==
  ASSUME FactInv, JobInv, SweepInv, NEW w \in Jobs, Alone(w),
         published \subseteq published', reasoned \subseteq reasoned',
         linked \subseteq linked',
         FactsArePublished',
         at'[w] \in PostRun => pod'[w].target \in published',
         w \in Incidents => JobOK(w)',
         w \in Sweeps => SweepOK(w)'
  PROVE  FactInv' /\ JobInv' /\ SweepInv'
  <1>1. FactInv'
    BY DEF FactInv, Alone
  <1>2. JobInv'
    <2> SUFFICES ASSUME NEW i \in Incidents, i # w PROVE JobOK(i)'
      BY DEF JobInv
    <2>1. at'[i] = at[i] /\ pod'[i] = pod[i]
      BY DEF Alone, Jobs
    <2> QED
      BY <2>1 DEF JobInv, JobOK
  <1>3. SweepInv'
    <2> SUFFICES ASSUME NEW s \in Sweeps, s # w PROVE SweepOK(s)'
      BY DEF SweepInv
    <2>1. at'[s] = at[s] /\ pod'[s] = pod[s]
      BY DEF Alone, Jobs
    <2> QED
      BY <2>1 DEF SweepInv, SweepOK
  <1> QED
    BY <1>1, <1>2, <1>3

\* What a pod has in memory is typed, and where a Job is, too.
LEMMA PodTyped ==
  ASSUME TypeOK, NEW w \in Jobs
  PROVE  /\ pod[w] \in Memory
         /\ pod[w].target \in Incidents \union {0}
         /\ pod[w].batch \subseteq Incidents /\ pod[w].taken \subseteq Incidents
         /\ pod[w].found \in BOOLEAN /\ pod[w].flawed \in BOOLEAN
         /\ at[w] \in Working => pod[w].target \in Incidents
  BY DEF TypeOK, Memory

----------------------------------------------------------------------------

\* Every step keeps the types.
LEMMA TypeStep == TypeOK /\ TriesInv /\ [Next]_vars => TypeOK'
  <1> SUFFICES ASSUME TypeOK, TriesInv, [Next]_vars PROVE TypeOK'
    OBVIOUS
  <1> USE DEF graphVars
  <1>0. ASSUME NEW w \in Jobs, NEW st \in Steps \union JobStates, Goto(w, st),
               pod' \in [Jobs -> Memory],
               \A v \in Jobs : v # w => pod'[v] = pod[v],
               st \in Working => pod'[w].target # 0
        PROVE  /\ at' \in [Jobs -> Steps \union JobStates]
               /\ \A v \in Jobs : at'[v] \in Working => pod'[v].target # 0
    BY <1>0 DEF Goto, TypeOK
  <1>1. ASSUME NEW w \in Jobs, Fail(w)
        PROVE  /\ at' \in [Jobs -> Steps \union JobStates]
               /\ \A v \in Jobs : at'[v] \in Working => pod'[v].target # 0
               /\ pod' \in [Jobs -> Memory]
    <2>1. AfterFailure(w) \in JobStates /\ AfterFailure(w) \notin Working
      BY DEF AfterFailure, JobStates, Working
    <2>2. pod' \in [Jobs -> Memory]
      BY <1>1, FreshTyped DEF Fail, TypeOK
    <2>3. \A v \in Jobs : v # w => pod'[v] = pod[v]
      BY <1>1 DEF Fail, TypeOK
    <2> QED
      BY <1>0, <1>1, <2>1, <2>2, <2>3 DEF Fail
  <1>2. ASSUME NEW w \in Jobs, Submit(w) PROVE TypeOK'
    <2>1. "queued" \in JobStates /\ "queued" \notin Working
      BY DEF JobStates, Working
    <2> QED
      BY <1>0, <1>2, <2>1 DEF Submit, TypeOK
  <1>3. ASSUME NEW w \in Jobs, NEW m \in Memory, pod' = [pod EXCEPT ![w] = m],
               \/ \E st \in Steps \union JobStates :
                     Goto(w, st) /\ (st \in Working => m.target # 0)
               \/ UNCHANGED at /\ at[w] \notin Working
        PROVE  /\ at' \in [Jobs -> Steps \union JobStates]
               /\ \A v \in Jobs : at'[v] \in Working => pod'[v].target # 0
               /\ pod' \in [Jobs -> Memory]
    <2>1. pod' \in [Jobs -> Memory]
      BY <1>3 DEF TypeOK
    <2>2. \A v \in Jobs : pod'[v] = IF v = w THEN m ELSE pod[v]
      BY <1>3 DEF TypeOK
    <2>3. CASE UNCHANGED at /\ at[w] \notin Working
      BY <2>1, <2>2, <2>3 DEF TypeOK
    <2>4. ASSUME NEW st \in Steps \union JobStates, Goto(w, st),
                 st \in Working => m.target # 0
          PROVE  /\ at' \in [Jobs -> Steps \union JobStates]
                 /\ \A v \in Jobs : at'[v] \in Working => pod'[v].target # 0
      BY <1>0, <2>1, <2>2, <2>4
    <2> QED
      BY <1>3, <2>1, <2>3, <2>4
  <1>4. ASSUME NEW w \in Jobs, StartPod(w) PROVE TypeOK'
    <2>1. tries' \in [Jobs -> 0..(Backoff + 1)]
      <3>1. tries[w] \in 0..Backoff
        BY <1>4, BackoffAssumption DEF StartPod, TriesInv, TypeOK
      <3> QED
        BY <1>4, <3>1, BackoffAssumption DEF StartPod, TypeOK
    <2>2. CASE w \in Incidents /\ Goto(w, "incident")
               /\ pod' = [pod EXCEPT ![w] = [Fresh EXCEPT !.target = w]]
      <3>1. [Fresh EXCEPT !.target = w] \in Memory
        BY <2>2 DEF Fresh, Memory
      <3>2. [Fresh EXCEPT !.target = w].target # 0
        BY <2>2, Disjoint DEF Fresh
      <3>3. "incident" \in Steps
        BY DEF Steps, Working
      <3> QED
        BY <1>3, <1>4, <2>1, <2>2, <3>1, <3>2, <3>3 DEF StartPod, TypeOK
    <2>3. CASE Goto(w, "query") /\ pod' = [pod EXCEPT ![w] = Fresh]
      <3>1. "query" \in Steps /\ "query" \notin Working
        BY DEF Steps, Working
      <3> QED
        BY <1>3, <1>4, <2>1, <2>3, <3>1, FreshTyped DEF StartPod, TypeOK
    <2> QED
      BY <1>4, <2>2, <2>3 DEF StartPod
  <1>5. ASSUME NEW w \in Jobs, Crash(w) PROVE TypeOK'
    BY <1>1, <1>5 DEF Crash, TypeOK
  <1>6. ASSUME NEW s \in Sweeps, Query(s) PROVE TypeOK'
    <2>1. PICK recent \in SUBSET NeedingPostmortem :
             /\ pod' = [pod EXCEPT ![s].batch = recent, ![s].taken = recent]
             /\ Goto(s, IF recent = {} THEN "complete" ELSE "next")
      BY <1>6 DEF Query
    <2> DEFINE m == [pod[s] EXCEPT !.batch = recent, !.taken = recent]
               st == IF recent = {} THEN "complete" ELSE "next"
    <2>2. m \in Memory /\ s \in Jobs
      <3>1. s \in Jobs /\ recent \subseteq Incidents
        BY DEF Jobs, NeedingPostmortem
      <3>2. pod[s] \in Memory
        BY <3>1, PodTyped
      <3> QED
        BY <3>1, <3>2 DEF Memory
    <2>3. pod' = [pod EXCEPT ![s] = m]
      BY <2>1, <2>2 DEF TypeOK
    <2>4. st \in Steps \union JobStates /\ st \notin Working
      BY DEF Steps, JobStates, Working
    <2> HIDE DEF m, st
    <2> QED
      BY <1>3, <1>6, <2>1, <2>2, <2>3, <2>4 DEF Query, TypeOK, st
  <1>7. ASSUME NEW s \in Sweeps, TakeNext(s) PROVE TypeOK'
    <2>1. PICK i \in pod[s].batch :
             \/ /\ pod' = [pod EXCEPT ![s].batch = @ \ {i}, ![s].flawed = TRUE]
                /\ UNCHANGED at
             \/ /\ pod' = [pod EXCEPT ![s].batch = @ \ {i}, ![s].target = i]
                /\ Goto(s, "incident")
      BY <1>7 DEF TakeNext
    <2> DEFINE skip == [pod[s] EXCEPT !.batch = @ \ {i}, !.flawed = TRUE]
               take == [pod[s] EXCEPT !.batch = @ \ {i}, !.target = i]
    <2>2. s \in Jobs /\ i \in Incidents /\ i # 0
      BY PodTyped, Disjoint DEF Jobs
    <2>3. skip \in Memory /\ take \in Memory /\ take.target # 0
      BY <2>2, PodTyped DEF Memory
    <2>4. \/ pod' = [pod EXCEPT ![s] = skip] /\ UNCHANGED at
          \/ pod' = [pod EXCEPT ![s] = take] /\ Goto(s, "incident")
      BY <2>1, <2>2 DEF TypeOK
    <2>5. "incident" \in Steps /\ at[s] \notin Working
      BY <1>7 DEF Steps, Working, TakeNext
    <2> HIDE DEF skip, take
    <2> QED
      BY <1>3, <1>7, <2>2, <2>3, <2>4, <2>5 DEF TakeNext, TypeOK
  <1>8. ASSUME NEW s \in Sweeps, BatchDone(s) PROVE TypeOK'
    <2>1. s \in Jobs /\ "push" \in Steps /\ "push" \notin Working
      BY DEF Jobs, Steps, Working
    <2> QED
      BY <1>0, <1>8, <2>1 DEF BatchDone, TypeOK
  <1>9. ASSUME NEW w \in Jobs, Judge(w) PROVE TypeOK'
    <2> DEFINE good(h) == [pod[w] EXCEPT !.found = h]
               bad == [pod[w] EXCEPT !.flawed = TRUE]
    <2>1. pod[w].target \in Incidents /\ pod[w].target # 0
      BY <1>9, PodTyped DEF Judge, Working, TypeOK
    <2>2. /\ \A h \in BOOLEAN : good(h) \in Memory /\ good(h).target # 0
          /\ bad \in Memory /\ bad.target # 0
      BY <2>1, PodTyped DEF Memory
    <2>3. /\ "hypotheses" \in Steps
          /\ Onward(w) \in Steps
      BY DEF Onward, Steps, Working
    <2>4. \/ \E h \in BOOLEAN :
                pod' = [pod EXCEPT ![w] = good(h)] /\ Goto(w, "hypotheses")
          \/ pod' = [pod EXCEPT ![w] = bad] /\ Goto(w, Onward(w))
      BY <1>9 DEF Judge
    <2>5. published' \subseteq Incidents
      BY <1>9, <2>1 DEF Judge, TypeOK
    <2> HIDE DEF good, bad
    <2>6. /\ at' \in [Jobs -> Steps \union JobStates]
          /\ \A v \in Jobs : at'[v] \in Working => pod'[v].target # 0
          /\ pod' \in [Jobs -> Memory]
      <3>1. CASE pod' = [pod EXCEPT ![w] = bad] /\ Goto(w, Onward(w))
        BY <1>3, <2>2, <2>3, <3>1
      <3>2. ASSUME NEW h \in BOOLEAN, pod' = [pod EXCEPT ![w] = good(h)],
                   Goto(w, "hypotheses")
            PROVE  /\ at' \in [Jobs -> Steps \union JobStates]
                   /\ \A v \in Jobs : at'[v] \in Working => pod'[v].target # 0
                   /\ pod' \in [Jobs -> Memory]
        BY <1>3, <2>2, <2>3, <3>2
      <3> QED
        BY <2>4, <3>1, <3>2
    <2> QED
      BY <1>9, <2>5, <2>6 DEF Judge, TypeOK
  <1>10. ASSUME NEW w \in Jobs, Push(w) PROVE TypeOK'
    <2>1. CASE Fail(w)
      BY <1>1, <1>10, <2>1 DEF Push, TypeOK
    <2>2. CASE Goto(w, "complete") /\ UNCHANGED pod
      <3>1. "complete" \in JobStates /\ "complete" \notin Working
        BY DEF JobStates, Working
      <3> QED
        BY <1>0, <1>10, <2>2, <3>1 DEF Push, TypeOK
    <2> QED
      BY <1>10, <2>1, <2>2 DEF Push
  <1>11. ASSUME NEW w \in Jobs, UpsertIncident(w) \/ WriteEvents(w)
         PROVE  TypeOK'
    <2>1. at[w] \in Working /\ pod[w].target \in Incidents /\ pod[w].target # 0
      BY <1>11, PodTyped DEF UpsertIncident, WriteEvents, Working, TypeOK
    <2>2. evidence' \in [Incidents -> {"none", "bare", "partial", "full"}]
      BY <1>11, <2>1 DEF UpsertIncident, WriteEvents, TypeOK
    <2>3. UNCHANGED at \/ Goto(w, "events") \/ Goto(w, "model")
      BY <1>11 DEF UpsertIncident, WriteEvents
    <2>4. "events" \in Steps /\ "model" \in Steps
      BY DEF Steps, Working
    <2>5. UNCHANGED <<tries, pod, reasoned, linked, action, published>>
      BY <1>11 DEF UpsertIncident, WriteEvents
    <2>6. /\ at' \in [Jobs -> Steps \union JobStates]
          /\ \A v \in Jobs : at'[v] \in Working => pod'[v].target # 0
      <3>1. CASE UNCHANGED at
        BY <2>5, <3>1 DEF TypeOK
      <3>2. CASE Goto(w, "events")
        BY <1>0, <2>1, <2>4, <2>5, <3>2 DEF TypeOK
      <3>3. CASE Goto(w, "model")
        BY <1>0, <2>1, <2>4, <2>5, <3>3 DEF TypeOK
      <3> QED
        BY <2>3, <3>1, <3>2, <3>3
    <2> QED
      BY <2>2, <2>5, <2>6 DEF TypeOK
  <1>12. ASSUME NEW w \in Jobs,
                PersistHypotheses(w) \/ LinkSimilar(w) \/ PersistActions(w)
         PROVE  TypeOK'
    <2>1. at[w] \in Working /\ pod[w].target \in Incidents /\ pod[w].target # 0
      BY <1>12, PodTyped DEF PersistHypotheses, LinkSimilar, PersistActions,
                             Working, TypeOK
    <2>2. /\ reasoned' \subseteq Incidents /\ linked' \subseteq Incidents
          /\ action' \in [Incidents -> {"none", "open", "done"}]
      BY <1>12, <2>1 DEF PersistHypotheses, LinkSimilar, PersistActions,
                         Reasoning, MergeAction, TypeOK
    <2>3. Goto(w, "similar") \/ Goto(w, "actions") \/ Goto(w, Onward(w))
      BY <1>12 DEF PersistHypotheses, LinkSimilar, PersistActions
    <2>4. "similar" \in Steps /\ "actions" \in Steps /\ Onward(w) \in Steps
      BY DEF Steps, Working, Onward
    <2>5. UNCHANGED <<tries, pod, evidence, published>>
      BY <1>12 DEF PersistHypotheses, LinkSimilar, PersistActions
    <2>6. /\ at' \in [Jobs -> Steps \union JobStates]
          /\ \A v \in Jobs : at'[v] \in Working => pod'[v].target # 0
      <3>1. CASE Goto(w, "similar")
        BY <1>0, <2>1, <2>4, <2>5, <3>1 DEF TypeOK
      <3>2. CASE Goto(w, "actions")
        BY <1>0, <2>1, <2>4, <2>5, <3>2 DEF TypeOK
      <3>3. CASE Goto(w, Onward(w))
        BY <1>0, <2>1, <2>4, <2>5, <3>3 DEF TypeOK
      <3> QED
        BY <2>3, <3>1, <3>2, <3>3
    <2> QED
      BY <2>2, <2>5, <2>6 DEF TypeOK
  <1>13. ASSUME NEW w \in Jobs, Submit(w) PROVE TypeOK'
    BY <1>2, <1>13
  <1>14. ASSUME NEW i \in Incidents, CloseAction(i) PROVE TypeOK'
    BY <1>14 DEF CloseAction, TypeOK
  <1>15. CASE UNCHANGED vars
    BY <1>15 DEF vars, TypeOK
  <1> QED
    BY <1>4, <1>5, <1>6, <1>7, <1>8, <1>9, <1>10, <1>11, <1>12, <1>13, <1>14,
       <1>15 DEF Next, Work, Sweep

----------------------------------------------------------------------------

\* No step leaves a Job waiting for a pod it is not entitled to.
LEMMA TriesStep == TypeOK /\ TriesInv /\ [Next]_vars => TriesInv'
  <1> SUFFICES ASSUME TypeOK, TriesInv, [Next]_vars PROVE TriesInv'
    OBVIOUS
  <1>1. ASSUME NEW w \in Jobs, Alone(w),
               at'[w] \in {"none", "queued"} => tries'[w] <= Backoff,
               \A v \in Jobs : v # w => tries'[v] = tries[v]
        PROVE  TriesInv'
    BY <1>1 DEF Alone, TriesInv
  <1>2. ASSUME NEW w \in Jobs, Fail(w)
        PROVE  at'[w] \in {"none", "queued"} => tries[w] <= Backoff
    BY <1>2 DEF Fail, Goto, AfterFailure, TypeOK
  <1>3. ASSUME NEW w \in Jobs, Submit(w) PROVE TriesInv'
    BY <1>1, <1>3, StepAlone DEF Submit, Goto, TriesInv, TypeOK
  <1>4. ASSUME NEW w \in Jobs, StartPod(w) PROVE TriesInv'
    <2>1. at'[w] \notin {"none", "queued"}
      BY <1>4 DEF StartPod, Goto, TypeOK
    <2>2. \A v \in Jobs : v # w => tries'[v] = tries[v]
      BY <1>4 DEF StartPod, TypeOK
    <2> QED
      BY <1>1, <1>4, <2>1, <2>2, StepAlone
  <1>5. ASSUME NEW w \in Jobs, Crash(w) \/ Push(w) PROVE TriesInv'
    <2>1. Alone(w) /\ UNCHANGED tries
      BY <1>5, StepAlone DEF Crash, Push, Work
    <2>2. Fail(w) \/ at'[w] = "complete"
      BY <1>5 DEF Crash, Push, Goto, TypeOK
    <2> QED
      BY <1>1, <1>2, <2>1, <2>2
  <1>6. ASSUME NEW w \in Jobs, \/ UpsertIncident(w) \/ WriteEvents(w) \/ Judge(w)
                               \/ PersistHypotheses(w) \/ LinkSimilar(w)
                               \/ PersistActions(w)
        PROVE  TriesInv'
    <2>1. Alone(w) /\ UNCHANGED tries
      BY <1>6, StepAlone DEF Work, UpsertIncident, WriteEvents, Judge,
                             PersistHypotheses, LinkSimilar, PersistActions
    <2>2. at'[w] \notin {"none", "queued"}
      BY <1>6 DEF UpsertIncident, WriteEvents, Judge, PersistHypotheses,
                  LinkSimilar, PersistActions, Goto, Onward, TypeOK
    <2> QED
      BY <1>1, <2>1, <2>2
  <1>7. ASSUME NEW s \in Sweeps, Sweep(s) PROVE TriesInv'
    <2>1. s \in Jobs
      BY DEF Jobs
    <2>2. Alone(s) /\ UNCHANGED tries
      BY <1>7, <2>1, StepAlone DEF Sweep, Query, TakeNext, BatchDone
    <2>3. at'[s] \notin {"none", "queued"}
      BY <1>7, <2>1 DEF Sweep, Query, TakeNext, BatchDone, Goto, TypeOK
    <2> QED
      BY <1>1, <2>1, <2>2, <2>3
  <1>8. ASSUME NEW i \in Incidents, CloseAction(i) PROVE TriesInv'
    BY <1>8 DEF CloseAction, TriesInv
  <1>9. CASE UNCHANGED vars
    BY <1>9 DEF vars, TriesInv
  <1> QED
    BY <1>3, <1>4, <1>5, <1>6, <1>7, <1>8, <1>9 DEF Next, Work

----------------------------------------------------------------------------

\* Every step keeps what the facts, the Jobs and the sweeps promise.
LEMMA FactStep ==
  TypeOK /\ FactInv /\ JobInv /\ SweepInv /\ [Next]_vars
      => FactInv' /\ JobInv' /\ SweepInv'
  <1> SUFFICES ASSUME TypeOK, FactInv, JobInv, SweepInv, [Next]_vars
               PROVE  FactInv' /\ JobInv' /\ SweepInv'
    OBVIOUS
  <1> DEFINE Kept == FactInv' /\ JobInv' /\ SweepInv'
  <1> USE DEF graphVars
  <1>0. FactsArePublished
    BY DEF FactInv
  <1>1. ASSUME NEW w \in Jobs, Alone(w), UNCHANGED <<graphVars, published>>,
               at'[w] \in {"queued", "failed", "incident", "query"},
               w \in Incidents => at'[w] # "query",
               w \in Incidents /\ at'[w] = "incident" => pod'[w].target = w,
               w \in Sweeps => at'[w] # "incident"
        PROVE  Kept
    <2>1. FactsArePublished'
      BY <1>0, <1>1 DEF FactsArePublished
    <2>2. w \in Incidents => JobOK(w)'
      BY <1>1 DEF JobOK, Working
    <2>3. w \in Sweeps => SweepOK(w)'
      BY <1>1 DEF SweepOK, Working
    <2> QED
      BY <1>1, <2>1, <2>2, <2>3, LocalStep DEF PostRun
  <1>2. ASSUME NEW w \in Jobs, Submit(w) PROVE Kept
    <2>1. at'[w] = "queued"
      BY <1>2 DEF Submit, Goto, TypeOK
    <2> QED
      BY <1>1, <1>2, <2>1, StepAlone DEF Submit
  <1>3. ASSUME NEW w \in Jobs, StartPod(w) PROVE Kept
    <2>1. CASE w \in Incidents
      <3>1. at'[w] = "incident" /\ pod'[w] = [Fresh EXCEPT !.target = w]
        BY <1>3, <2>1, Disjoint DEF StartPod, Goto, TypeOK
      <3>2. pod'[w].target = w
        BY <3>1 DEF Fresh
      <3> QED
        BY <1>1, <1>3, <2>1, <3>1, <3>2, StepAlone, Disjoint DEF StartPod
    <2>2. CASE w \in Sweeps
      <3>1. at'[w] = "query" /\ w \notin Incidents
        BY <1>3, <2>2, Disjoint DEF StartPod, Goto, TypeOK
      <3> QED
        BY <1>1, <1>3, <2>2, <3>1, StepAlone DEF StartPod
    <2> QED
      BY <2>1, <2>2 DEF Jobs
  <1>4. ASSUME NEW w \in Jobs, Fail(w), Alone(w), UNCHANGED <<graphVars, published>>
        PROVE  Kept
    <2>1. at'[w] \in {"queued", "failed"}
      BY <1>4 DEF Fail, Goto, AfterFailure, TypeOK
    <2> QED
      BY <1>1, <1>4, <2>1
  <1>5. ASSUME NEW w \in Jobs, Crash(w) PROVE Kept
    BY <1>4, <1>5, StepAlone DEF Crash
  <1>6. ASSUME NEW s \in Sweeps, Query(s) PROVE Kept
    <2>1. s \in Jobs /\ s \notin Incidents
      BY Disjoint DEF Jobs
    <2>2. PICK recent \in SUBSET NeedingPostmortem :
             /\ pod' = [pod EXCEPT ![s].batch = recent, ![s].taken = recent]
             /\ Goto(s, IF recent = {} THEN "complete" ELSE "next")
      BY <1>6 DEF Query
    <2>3. /\ pod'[s].batch = recent /\ pod'[s].taken = recent
          /\ at'[s] = IF recent = {} THEN "complete" ELSE "next"
      BY <2>1, <2>2 DEF Goto, TypeOK, Memory
    <2>4. SweepOK(s)'
      BY <2>3 DEF SweepOK
    <2>5. FactsArePublished'
      BY <1>0, <1>6 DEF FactsArePublished, Query
    <2>6. Alone(s)
      BY <1>6, <2>1, StepAlone DEF Sweep
    <2> QED
      BY <1>6, <2>1, <2>3, <2>4, <2>5, <2>6, LocalStep DEF Query, PostRun
  <1>7. ASSUME NEW s \in Sweeps, TakeNext(s) PROVE Kept
    <2>1. s \in Jobs /\ s \notin Incidents
      BY Disjoint DEF Jobs
    <2>2. PICK i \in pod[s].batch :
             \/ /\ pod' = [pod EXCEPT ![s].batch = @ \ {i}, ![s].flawed = TRUE]
                /\ UNCHANGED at
             \/ /\ pod' = [pod EXCEPT ![s].batch = @ \ {i}, ![s].target = i]
                /\ Goto(s, "incident")
      BY <1>7 DEF TakeNext
    <2>3. at[s] = "next"
      BY <1>7 DEF TakeNext
    <2>4. \/ pod'[s].flawed = TRUE /\ at'[s] = "next"
          \/ /\ pod'[s].batch = pod[s].batch \ {i}
             /\ pod'[s].target = i
             /\ pod'[s].taken = pod[s].taken
             /\ pod'[s].flawed = pod[s].flawed
             /\ at'[s] = "incident"
      BY <2>1, <2>2, <2>3 DEF Goto, TypeOK, Memory
    <2>5. SweepOK(s)'
      BY <1>7, <2>3, <2>4 DEF SweepInv, SweepOK, Working, TakeNext
    <2>6. FactsArePublished'
      BY <1>0, <1>7 DEF FactsArePublished, TakeNext
    <2>7. Alone(s)
      BY <1>7, <2>1, StepAlone DEF Sweep
    <2> QED
      BY <1>7, <2>1, <2>4, <2>5, <2>6, <2>7, LocalStep DEF TakeNext, PostRun
  <1>8. ASSUME NEW s \in Sweeps, BatchDone(s) PROVE Kept
    <2>1. s \in Jobs /\ s \notin Incidents
      BY Disjoint DEF Jobs
    <2>2. at'[s] = "push" /\ UNCHANGED pod /\ at[s] = "next" /\ pod[s].batch = {}
      BY <1>8, <2>1 DEF BatchDone, Goto, TypeOK
    <2>3. SweepOK(s)'
      BY <1>8, <2>2 DEF SweepInv, SweepOK, Working, BatchDone
    <2>4. FactsArePublished'
      BY <1>0, <1>8 DEF FactsArePublished, BatchDone
    <2>5. Alone(s)
      BY <1>8, <2>1, StepAlone DEF Sweep
    <2> QED
      BY <1>8, <2>1, <2>2, <2>3, <2>4, <2>5, LocalStep DEF BatchDone, PostRun
  <1>9. ASSUME NEW w \in Jobs, UpsertIncident(w) \/ WriteEvents(w) PROVE Kept
    <2>1. /\ at[w] \in {"incident", "events"} /\ at'[w] \in {"events", "model"}
          /\ UNCHANGED <<tries, pod, reasoned, linked, action, published>>
      BY <1>9 DEF UpsertIncident, WriteEvents, Goto, TypeOK
    <2>2. w \in Incidents => JobOK(w)'
      BY <2>1 DEF JobInv, JobOK, Working
    <2>3. w \in Sweeps => SweepOK(w)'
      BY <2>1 DEF SweepInv, SweepOK, Working
    <2>4. FactsArePublished'
      BY <1>0, <2>1 DEF FactsArePublished
    <2>5. Alone(w)
      BY <1>9, StepAlone DEF Work
    <2> QED
      BY <2>1, <2>2, <2>3, <2>4, <2>5, LocalStep DEF PostRun
  <1>10. ASSUME NEW w \in Jobs, Judge(w) PROVE Kept
    <2>1. at[w] = "model" /\ UNCHANGED graphVars
      BY <1>10 DEF Judge
    <2>2. \/ /\ at'[w] = "hypotheses"
             /\ published' = published \union {pod[w].target}
             /\ pod'[w].flawed = pod[w].flawed
          \/ /\ at'[w] = Onward(w) /\ UNCHANGED published
             /\ pod'[w].flawed = TRUE
      BY <1>10 DEF Judge, Goto, TypeOK, Memory
    <2>3. /\ pod'[w].target = pod[w].target
          /\ pod'[w].batch = pod[w].batch
          /\ pod'[w].taken = pod[w].taken
      BY <1>10 DEF Judge, TypeOK, Memory
    <2>4. w \in Incidents => JobOK(w)'
      BY <2>1, <2>2, <2>3, Disjoint DEF JobInv, JobOK, Working, Onward
    <2>5. w \in Sweeps => SweepOK(w)'
      BY <2>1, <2>2, <2>3 DEF SweepInv, SweepOK, Working, Onward
    <2>6. FactsArePublished' /\ published \subseteq published'
      BY <1>0, <2>1, <2>2 DEF FactsArePublished
    <2>7. at'[w] \in PostRun => pod'[w].target \in published'
      BY <2>2, <2>3 DEF PostRun, Onward
    <2>8. Alone(w)
      BY <1>10, StepAlone DEF Work
    <2> QED
      BY <2>1, <2>4, <2>5, <2>6, <2>7, <2>8, LocalStep
  <1>11. ASSUME NEW w \in Jobs, PersistHypotheses(w) PROVE Kept
    <2>1. /\ at[w] = "hypotheses" /\ at'[w] = "similar"
          /\ UNCHANGED <<tries, pod, evidence, linked, action, published>>
          /\ reasoned' = reasoned \union Reasoning(w)
      BY <1>11 DEF PersistHypotheses, Goto, TypeOK
    <2>2. pod[w].target \in published
      BY <2>1 DEF FactInv, PostRun
    <2>3. w \in Incidents => JobOK(w)'
      BY <2>1, <2>2 DEF JobInv, JobOK, Working, Reasoning
    <2>4. w \in Sweeps => SweepOK(w)'
      BY <2>1, <2>2 DEF SweepInv, SweepOK, Working
    <2>5. FactsArePublished'
      BY <1>0, <2>1, <2>2 DEF FactsArePublished, Reasoning
    <2>6. Alone(w)
      BY <1>11, StepAlone DEF Work
    <2> QED
      BY <2>1, <2>2, <2>3, <2>4, <2>5, <2>6, LocalStep DEF PostRun
  <1>12. ASSUME NEW w \in Jobs, LinkSimilar(w) PROVE Kept
    <2>1. /\ at[w] = "similar" /\ at'[w] = "actions"
          /\ UNCHANGED <<tries, pod, evidence, reasoned, action, published>>
          /\ linked' = linked \union {pod[w].target}
      BY <1>12 DEF LinkSimilar, Goto, TypeOK
    <2>2. pod[w].target \in published
      BY <2>1 DEF FactInv, PostRun
    <2>3. w \in Incidents => JobOK(w)'
      BY <2>1, <2>2 DEF JobInv, JobOK, Working
    <2>4. w \in Sweeps => SweepOK(w)'
      BY <2>1, <2>2 DEF SweepInv, SweepOK, Working
    <2>5. FactsArePublished'
      BY <1>0, <2>1, <2>2 DEF FactsArePublished
    <2>6. Alone(w)
      BY <1>12, StepAlone DEF Work
    <2> QED
      BY <2>1, <2>2, <2>3, <2>4, <2>5, <2>6, LocalStep DEF PostRun
  <1>13. ASSUME NEW w \in Jobs, PersistActions(w) PROVE Kept
    <2>1. /\ at[w] = "actions" /\ at'[w] = Onward(w)
          /\ UNCHANGED <<tries, pod, evidence, reasoned, linked, published>>
      BY <1>13 DEF PersistActions, Goto, TypeOK
    <2>2. pod[w].target \in published
      BY <2>1 DEF FactInv, PostRun
    <2>3. w \in Incidents => JobOK(w)'
      BY <2>1, <2>2, Disjoint DEF JobInv, JobOK, Working, Onward
    <2>4. w \in Sweeps => SweepOK(w)'
      BY <2>1, <2>2 DEF SweepInv, SweepOK, Working, Onward
    <2>5. FactsArePublished'
      BY <1>0, <1>13, <2>1, <2>2 DEF FactsArePublished, PersistActions, TypeOK
    <2>6. Alone(w)
      BY <1>13, StepAlone DEF Work
    <2> QED
      BY <2>1, <2>2, <2>3, <2>4, <2>5, <2>6, LocalStep DEF PostRun, Onward
  <1>14. ASSUME NEW w \in Jobs, Push(w) PROVE Kept
    <2>1. Alone(w) /\ UNCHANGED <<graphVars, published>>
      BY <1>14, StepAlone DEF Work, Push
    <2>2. CASE Fail(w)
      BY <1>4, <2>1, <2>2
    <2>3. CASE ~pod[w].flawed /\ Goto(w, "complete") /\ UNCHANGED pod
      <3>1. at[w] = "push" /\ at'[w] = "complete"
        BY <1>14, <2>3 DEF Push, Goto, TypeOK
      <3>2. w \in Incidents => JobOK(w)'
        BY <2>1, <2>3, <3>1 DEF JobInv, JobOK, Working
      <3>3. w \in Sweeps => SweepOK(w)'
        BY <2>1, <2>3, <3>1 DEF SweepInv, SweepOK, Working
      <3>4. FactsArePublished'
        BY <1>0, <2>1 DEF FactsArePublished
      <3> QED
        BY <2>1, <3>1, <3>2, <3>3, <3>4, LocalStep DEF PostRun
    <2> QED
      BY <1>14, <2>2, <2>3 DEF Push
  <1>15. ASSUME NEW i \in Incidents, CloseAction(i) PROVE Kept
    <2>1. FactsArePublished'
      BY <1>0, <1>15 DEF FactsArePublished, CloseAction, TypeOK
    <2> QED
      BY <1>15, <2>1 DEF CloseAction, FactInv, JobInv, JobOK, SweepInv, SweepOK
  <1>16. CASE UNCHANGED vars
    BY <1>16 DEF vars, FactInv, FactsArePublished, JobInv, JobOK, SweepInv, SweepOK
  <1> QED
    BY <1>2, <1>3, <1>5, <1>6, <1>7, <1>8, <1>9, <1>10, <1>11, <1>12, <1>13,
       <1>14, <1>15, <1>16 DEF Next, Work, Sweep

----------------------------------------------------------------------------

\* The inductive invariant holds in every reachable state.
LEMMA InvInvariant == Spec => []Inv
  <1>1. Inv /\ [Next]_vars => Inv'
    BY TypeStep, TriesStep, FactStep DEF Inv
  <1> QED
    BY InitInv, <1>1, PTL DEF Spec

\* The state of the Jobs, their pods and the graph is well typed; in
\* particular no Job starts more pods than its backoffLimit grants.
THEOREM TypeCorrect == Spec => []TypeOK
  <1>1. Inv => TypeOK
    BY DEF Inv
  <1> QED
    BY InvInvariant, <1>1, PTL

\* A complete Job has persisted everything, whichever of its pods wrote it
\* and whatever crashed before (cmd_run, cli.py).
THEOREM CompleteJobsArePersisted == Spec => []CompleteIsPersisted
  <1>1. Inv => CompleteIsPersisted
    BY DEF Inv, JobInv, JobOK, CompleteIsPersisted
  <1> QED
    BY InvInvariant, <1>1, PTL

\* The graph holds reasoning, recurrence and actions of published documents
\* only (cmd_run and cmd_sweep, cli.py).
THEOREM FactsComeFromPublished == Spec => []FactsArePublished
  <1>1. Inv => FactsArePublished
    BY DEF Inv, FactInv
  <1> QED
    BY InvInvariant, <1>1, PTL

\* The exit code of a sweep is zero only if each incident it found has a
\* published document (any_failed, cmd_sweep).
THEOREM CleanSweepsLeaveNone == Spec => []CleanSweepLeavesNone
  <1>1. Inv => CleanSweepLeavesNone
    BY DEF Inv, SweepInv, SweepOK, CleanSweepLeavesNone
  <1> QED
    BY InvInvariant, <1>1, PTL

\* No step of any pod reopens an action somebody closed
\* (add_corrective_action, memory.py).
THEOREM ClosedActionsStayClosed == Spec => ActionsStayClosed
  <1>1. TypeOK /\ [Next]_vars =>
          [\A i \in Incidents : action[i] = "done" => action'[i] = "done"]_vars
    <2> SUFFICES ASSUME TypeOK, Next, NEW i \in Incidents, action[i] = "done"
                 PROVE  action'[i] = "done"
      OBVIOUS
    <2>1. ASSUME NEW w \in Jobs, PersistActions(w) PROVE action'[i] = "done"
      BY <2>1 DEF PersistActions, MergeAction, TypeOK
    <2>2. ASSUME NEW j \in Incidents, CloseAction(j) PROVE action'[i] = "done"
      BY <2>2 DEF CloseAction, TypeOK
    <2>3. ASSUME NEW w \in Jobs,
                 \/ Submit(w) \/ StartPod(w) \/ Crash(w) \/ UpsertIncident(w)
                 \/ WriteEvents(w) \/ Judge(w) \/ PersistHypotheses(w)
                 \/ LinkSimilar(w) \/ Push(w)
          PROVE  action'[i] = "done"
      BY <2>3 DEF graphVars, Submit, StartPod, Crash, UpsertIncident,
                  WriteEvents, Judge, PersistHypotheses, LinkSimilar, Push
    <2>4. ASSUME NEW s \in Sweeps, Sweep(s) PROVE action'[i] = "done"
      BY <2>4 DEF graphVars, Sweep, Query, TakeNext, BatchDone
    <2> QED
      BY <2>1, <2>2, <2>3, <2>4 DEF Next, Work
  <1> QED
    BY <1>1, TypeCorrect, PTL DEF Spec, ActionsStayClosed
=============================================================================
