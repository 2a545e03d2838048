--------------------------- MODULE Receiver_proofs ---------------------------
(***************************************************************************)
(* Proofs about Receiver for any alerts, any number of pods and any number *)
(* of faults and expiries.                                                 *)
(*                                                                         *)
(* That a Job finds its ConfigMap is not inductive: it takes who may own   *)
(* the ConfigMap of a live Job (OwnerInv), and that a ConfigMap without an *)
(* owner belongs to the one handler that created it (CreatorInv).          *)
(***************************************************************************)
EXTENDS Receiver, FiniteSetTheorems, TLAPS

\* The states of a Job nothing has started to delete.
Kept == {"active", "finished"}

\* The ConfigMap of a Job that nobody deletes names no other Job as its owner,
\* so the garbage collector leaves it alone.
OwnerInv ==
    \A k \in Incidents :
        job[k] \in Kept => /\ configmap[k].exists
                           /\ configmap[k].owner \in {0, uid[k]}

\* A handler between its two creations, or between the second and the patch,
\* has an unowned ConfigMap, shares it with no other handler, and is about to
\* create the Job or knows its uid.
CreatorInv ==
    /\ \A p \in Pods :
        /\ handler[p].at \in {"job", "owner"} =>
              /\ configmap[handler[p].key].exists
              /\ configmap[handler[p].key].owner = 0
        /\ handler[p].at = "job" => job[handler[p].key] \notin Kept
        /\ handler[p].at = "owner" => handler[p].job = uid[handler[p].key]
    /\ \A p, q \in Pods :
        /\ handler[p].at \in {"job", "owner"}
        /\ handler[q].at \in {"job", "owner"}
        /\ handler[p].key = handler[q].key
        => p = q

Inv == TypeOK /\ OwnerInv /\ CreatorInv

----------------------------------------------------------------------------

\* The initial states satisfy the inductive invariant.
LEMMA InitInv == Init => Inv
  <1> SUFFICES ASSUME Init PROVE Inv
    OBVIOUS
  <1> USE BoundsAssumption DEF Init
  <1>1. Idle \in Handlers
    BY DEF Idle, Handlers, Steps
  <1>2. TypeOK
    <2>1. handler \in [Pods -> Handlers]
      BY <1>1
    <2>2. \A p \in Pods : handler[p].at \notin Serving
      BY DEF Idle, Serving
    <2> QED
      BY <2>1, <2>2 DEF TypeOK
  <1>3. OwnerInv
    BY DEF OwnerInv, Kept
  <1>4. CreatorInv
    BY DEF CreatorInv, Idle
  <1> QED
    BY <1>2, <1>3, <1>4 DEF Inv

\* A pod that closes its notification keeps the types and holds no object.
LEMMA CloseTyped ==
  ASSUME TypeOK, NEW p \in Pods, NEW ok \in BOOLEAN, Close(p, ok)
  PROVE  /\ handler' \in [Pods -> Handlers]
         /\ \A q \in Pods : handler'[q].at \in Serving =>
                KeyFrom(handler'[q])
         /\ waiting' \in Pods \union {NoPod}
         /\ alert' \in [Alerts -> {"quiet", "firing", "resolved", "notified"}]
  <1>1. Idle \in Handlers /\ Idle.at \notin Serving
    BY DEF Idle, Handlers, Steps, Serving
  <1>2. handler' \in [Pods -> Handlers]
    BY <1>1 DEF Close, TypeOK
  <1>3. \A q \in Pods : handler'[q] = IF q = p THEN Idle ELSE handler[q]
    BY DEF Close, TypeOK
  <1>4. \A q \in Pods : handler'[q].at \in Serving =>
            KeyFrom(handler'[q])
    BY <1>1, <1>3 DEF TypeOK
  <1>5. waiting' \in Pods \union {NoPod}
    BY DEF Close, TypeOK
  <1>6. alert' \in [Alerts -> {"quiet", "firing", "resolved", "notified"}]
    BY DEF Close, TypeOK
  <1> QED
    BY <1>2, <1>4, <1>5, <1>6

\* Moving on keeps the notification and its incident.
LEMMA GotoTyped ==
  ASSUME TypeOK, NEW p \in Pods, NEW s \in Steps, Goto(p, s),
         handler[p].at \in Serving
  PROVE  /\ handler' \in [Pods -> Handlers]
         /\ \A q \in Pods : handler'[q].at \in Serving =>
                KeyFrom(handler'[q])
         /\ \A q \in Pods : q # p => handler'[q] = handler[q]
         /\ handler'[p].at = s
         /\ handler'[p].key = handler[p].key
         /\ handler'[p].job = handler[p].job
  BY DEF Goto, TypeOK, Handlers, KeyFrom

\* A serving handler knows its incident.
LEMMA KeyTyped ==
  ASSUME TypeOK, NEW p \in Pods, handler[p].at \in Serving
  PROVE  handler[p].key \in Incidents
  BY DEF TypeOK, Handlers, Serving, Incidents, KeyFrom

\* A pod that closes its notification disturbs no other creator, as long as
\* the objects of the others' incidents stay as they are.
LEMMA CloseCreator ==
  ASSUME TypeOK, CreatorInv, NEW p \in Pods, NEW ok \in BOOLEAN, Close(p, ok),
         \A q \in Pods \ {p} : handler[q].at \in {"job", "owner"} =>
            /\ configmap'[handler[q].key] = configmap[handler[q].key]
            /\ job'[handler[q].key] = job[handler[q].key]
            /\ uid'[handler[q].key] = uid[handler[q].key]
  PROVE  CreatorInv'
  <1>1. \A q \in Pods : handler'[q] = IF q = p THEN Idle ELSE handler[q]
    BY DEF Close, TypeOK
  <1>2. Idle.at \notin {"job", "owner"}
    BY DEF Idle
  <1> QED
    BY <1>1, <1>2 DEF CreatorInv

----------------------------------------------------------------------------

\* Every step keeps the types.
LEMMA TypeStep == TypeOK /\ [Next]_vars => TypeOK'
  <1> SUFFICES ASSUME TypeOK, [Next]_vars PROVE TypeOK'
    OBVIOUS
  <1> USE DEF amVars, clusterVars, history
  <1>0. /\ faults \in 0..MaxFaults
        /\ Fault \/ UNCHANGED faults => faults' \in 0..MaxFaults
    BY BoundsAssumption DEF TypeOK, Fault
  <1>1. ASSUME NEW a \in Alerts, Fire(a) \/ Resolve(a) PROVE TypeOK'
    BY <1>1 DEF Fire, Resolve, TypeOK
  <1>2. ASSUME NEW p \in Pods, Notify(p) PROVE TypeOK'
    <2>1. handler' \in [Pods -> Handlers]
      <3>1. Resolved \subseteq Alerts
        BY DEF Resolved
      <3>2. [Idle EXCEPT !.at = "derive", !.resolved = Resolved] \in Handlers
        BY <3>1 DEF Idle, Handlers, Steps
      <3> QED
        BY <1>2, <3>2 DEF Notify, TypeOK
    <2>2. \A q \in Pods : q # p => handler'[q] = handler[q]
      BY <1>2 DEF Notify, TypeOK
    <2>3. handler'[p].at \notin Serving
      BY <1>2 DEF Notify, TypeOK, Idle, Serving
    <2> QED
      BY <1>2, <2>1, <2>2, <2>3 DEF Notify, TypeOK
  <1>3. CASE Timeout
    BY <1>0, <1>3 DEF Timeout, TypeOK
  <1>4. ASSUME NEW p \in Pods, Derive(p) PROVE TypeOK'
    <2>1. CASE Close(p, TRUE)
      BY <1>4, <2>1, CloseTyped DEF Derive, TypeOK
    <2>2. CASE \E e \in handler[p].resolved :
              /\ handler' = [handler EXCEPT ![p].at = "claim", ![p].key = Start[e]]
              /\ UNCHANGED amVars
      <3>1. PICK e \in handler[p].resolved :
              /\ handler' = [handler EXCEPT ![p].at = "claim", ![p].key = Start[e]]
              /\ UNCHANGED amVars
        BY <2>2
      <3> DEFINE k == Start[e]
      <3>2. k \in Incidents
        BY DEF TypeOK, Handlers, Incidents
      <3>3. handler' \in [Pods -> Handlers]
        <4>1. handler[p] \in Handlers
          BY DEF TypeOK
        <4>2. [handler[p] EXCEPT !.at = "claim", !.key = k] \in Handlers
          BY <3>2, <4>1 DEF Handlers, Steps
        <4> QED
          BY <3>1, <4>2 DEF TypeOK
      <3>4. \A q \in Pods : handler'[q].at \in Serving =>
                KeyFrom(handler'[q])
        BY <3>1, <3>2 DEF TypeOK, Handlers, KeyFrom
      <3> QED
        BY <1>4, <3>1, <3>3, <3>4 DEF Derive, TypeOK
    <2> QED
      BY <1>4, <2>1, <2>2 DEF Derive
  <1>5. ASSUME NEW p \in Pods, Claim(p) PROVE TypeOK'
    <2>1. handler[p].at \in Serving /\ handler[p].key \in Incidents
      BY <1>5, KeyTyped DEF Claim, Serving
    <2>2. claimed' \subseteq Incidents
      BY <1>5, <2>1 DEF Claim, DedupKey, TypeOK
    <2>3. faults' \in 0..MaxFaults
      BY <1>0, <1>5 DEF Claim
    <2>4. UNCHANGED <<configmap, job, uid, covered, clashed, expiries>>
      BY <1>5 DEF Claim
    <2>5. \/ UNCHANGED amVars /\ Goto(p, "configmap")
          \/ UNCHANGED amVars /\ Goto(p, "respond")
          \/ Close(p, FALSE)
      BY <1>5 DEF Claim
    <2>6. /\ handler' \in [Pods -> Handlers]
          /\ \A q \in Pods : handler'[q].at \in Serving =>
                KeyFrom(handler'[q])
          /\ waiting' \in Pods \union {NoPod}
          /\ alert' \in [Alerts -> {"quiet", "firing", "resolved", "notified"}]
      <3>1. CASE UNCHANGED amVars /\ Goto(p, "configmap")
        BY <2>1, <3>1, GotoTyped DEF TypeOK, Steps
      <3>2. CASE UNCHANGED amVars /\ Goto(p, "respond")
        BY <2>1, <3>2, GotoTyped DEF TypeOK, Steps
      <3>3. CASE Close(p, FALSE)
        BY <3>3, CloseTyped
      <3> QED
        BY <2>5, <3>1, <3>2, <3>3
    <2> QED
      BY <2>2, <2>3, <2>4, <2>6 DEF TypeOK
  <1>6. ASSUME NEW p \in Pods, CreateConfigMap(p) PROVE TypeOK'
    <2>1. handler[p].at \in Serving /\ handler[p].key \in Incidents
      BY <1>6, KeyTyped DEF CreateConfigMap, Serving
    <2>2. configmap' \in [Incidents -> [exists : BOOLEAN, owner : Nat]]
      <3>1. configmap' = configmap
            \/ configmap' = [configmap EXCEPT ![handler[p].key] = BareConfigMap]
        BY <1>6 DEF CreateConfigMap
      <3>2. BareConfigMap \in [exists : BOOLEAN, owner : Nat]
        BY DEF BareConfigMap
      <3> QED
        BY <2>1, <3>1, <3>2 DEF TypeOK
    <2>3. faults' \in 0..MaxFaults
      BY <1>0, <1>6 DEF CreateConfigMap
    <2>4. CASE Goto(p, "job") /\ UNCHANGED amVars
      BY <1>6, <2>1, <2>2, <2>3, <2>4, GotoTyped DEF CreateConfigMap, TypeOK, Steps
    <2>5. CASE Close(p, FALSE)
      BY <1>6, <2>2, <2>3, <2>5, CloseTyped DEF CreateConfigMap, TypeOK
    <2> QED
      BY <1>6, <2>4, <2>5 DEF CreateConfigMap
  <1>7. ASSUME NEW p \in Pods, CreateJob(p) PROVE TypeOK'
    <2> DEFINE k == handler[p].key
    <2>1. handler[p].at \in Serving /\ k \in Incidents
      BY <1>7, KeyTyped DEF CreateJob, Serving
    <2>2. /\ job' \in [Incidents -> {"none", "active", "finished", "terminating"}]
          /\ uid' \in [Incidents -> Nat]
          /\ covered' \subseteq Alerts
          /\ clashed' \subseteq Incidents
      <3>1. handler[p].resolved \subseteq Alerts
        BY DEF TypeOK, Handlers
      <3>2. clashed' \subseteq Incidents
        <4>1. clashed' = clashed \/ clashed' = clashed \union {k}
          BY <1>7 DEF CreateJob
        <4> QED
          BY <2>1, <4>1 DEF TypeOK
      <3>3. CASE NewJob(k, handler[p].resolved)
        <4>1. job' \in [Incidents -> {"none", "active", "finished", "terminating"}]
          BY <2>1, <3>3 DEF NewJob, TypeOK
        <4>2. uid' \in [Incidents -> Nat]
          <5>1. uid[k] + 1 \in Nat
            BY <2>1 DEF TypeOK
          <5> QED
            BY <2>1, <3>3, <5>1 DEF NewJob, TypeOK
        <4>3. covered' \subseteq Alerts
          BY <3>1, <3>3 DEF NewJob, TypeOK
        <4> QED
          BY <3>2, <4>1, <4>2, <4>3
      <3>4. CASE UNCHANGED <<job, uid, covered>>
        BY <3>2, <3>4 DEF TypeOK
      <3> QED
        BY <1>7, <3>2, <3>3, <3>4 DEF CreateJob
    <2>3. faults' \in 0..MaxFaults
      BY <1>0, <1>7 DEF CreateJob
    <2>4. CASE /\ handler' = [handler EXCEPT ![p].at = "owner",
                                             ![p].job = uid[k] + 1]
               /\ UNCHANGED amVars
      <3>1. uid[k] + 1 \in Nat
        BY <2>1 DEF TypeOK
      <3>2. handler' \in [Pods -> Handlers]
        <4>1. handler[p] \in Handlers
          BY DEF TypeOK
        <4>2. [handler[p] EXCEPT !.at = "owner", !.job = uid[k] + 1] \in Handlers
          BY <3>1, <4>1 DEF Handlers, Steps
        <4> QED
          BY <2>4, <4>2 DEF TypeOK
      <3>3. \A q \in Pods : handler'[q].at \in Serving =>
                KeyFrom(handler'[q])
        BY <2>1, <2>4 DEF TypeOK, Handlers, KeyFrom
      <3> QED
        BY <1>7, <2>2, <2>3, <2>4, <3>2, <3>3 DEF CreateJob, TypeOK
    <2>5. CASE Close(p, FALSE)
      BY <1>7, <2>2, <2>3, <2>5, CloseTyped DEF CreateJob, TypeOK
    <2> QED
      BY <1>7, <2>4, <2>5 DEF CreateJob
  <1>8. ASSUME NEW p \in Pods, PatchOwner(p) PROVE TypeOK'
    <2>1. handler[p].at \in Serving /\ handler[p].key \in Incidents
      BY <1>8, KeyTyped DEF PatchOwner, Serving
    <2>2. configmap' \in [Incidents -> [exists : BOOLEAN, owner : Nat]]
      <3> DEFINE k == handler[p].key
                 owned == [configmap[k] EXCEPT !.owner = handler[p].job]
      <3>1. handler[p].job \in Nat
        BY DEF TypeOK, Handlers
      <3>2. owned \in [exists : BOOLEAN, owner : Nat]
        BY <2>1, <3>1 DEF TypeOK
      <3>3. configmap' = configmap \/ configmap' = [configmap EXCEPT ![k] = owned]
        BY <1>8 DEF PatchOwner
      <3> HIDE DEF owned
      <3> QED
        BY <2>1, <3>2, <3>3 DEF TypeOK
    <2>3. faults' \in 0..MaxFaults
      BY <1>0, <1>8 DEF PatchOwner
    <2>4. CASE Goto(p, "respond") /\ UNCHANGED amVars
      BY <1>8, <2>1, <2>2, <2>3, <2>4, GotoTyped DEF PatchOwner, TypeOK, Steps
    <2>5. CASE Close(p, FALSE)
      BY <1>8, <2>2, <2>3, <2>5, CloseTyped DEF PatchOwner, TypeOK
    <2> QED
      BY <1>8, <2>4, <2>5 DEF PatchOwner
  <1>9. ASSUME NEW p \in Pods, Respond(p) PROVE TypeOK'
    BY <1>9, CloseTyped DEF Respond, TypeOK
  <1>10. ASSUME NEW p \in Pods, Crash(p) PROVE TypeOK'
    BY <1>0, <1>10, CloseTyped DEF Crash, TypeOK
  <1>11. ASSUME NEW k \in Incidents, Expire(k) PROVE TypeOK'
    <2>1. expiries[k] + 1 \in 0..MaxExpiries
      BY <1>11, BoundsAssumption DEF Expire, TypeOK
    <2>2. expiries' \in [Incidents -> 0..MaxExpiries]
      BY <1>11, <2>1 DEF Expire, TypeOK
    <2> QED
      BY <1>11, <2>2 DEF Expire, TypeOK
  <1>12. ASSUME NEW k \in Incidents, Cluster(k) PROVE TypeOK'
    <2>1. CASE FinishJob(k)
      BY <2>1 DEF FinishJob, TypeOK
    <2>2. CASE ReapJob(k) \/ RemoveJob(k)
      BY <2>2 DEF ReapJob, RemoveJob, TypeOK
    <2>3. CASE Collect(k)
      <3> DEFINE none == [exists |-> FALSE, owner |-> 0]
      <3>1. configmap' = [configmap EXCEPT ![k] = none]
        BY <2>3 DEF Collect
      <3>2. none \in [exists : BOOLEAN, owner : Nat]
        OBVIOUS
      <3> HIDE DEF none
      <3>3. configmap' \in [Incidents -> [exists : BOOLEAN, owner : Nat]]
        BY <3>1, <3>2 DEF TypeOK
      <3> QED
        BY <2>3, <3>3 DEF Collect, TypeOK
    <2> QED
      BY <1>12, <2>1, <2>2, <2>3 DEF Cluster
  <1>13. CASE UNCHANGED vars
    BY <1>13 DEF vars, TypeOK
  <1> QED
    BY <1>1, <1>2, <1>3, <1>4, <1>5, <1>6, <1>7, <1>8, <1>9, <1>10, <1>11,
       <1>12, <1>13 DEF Next, Serve

----------------------------------------------------------------------------

\* A step that leaves the objects alone, and lets no handler enter the two
\* steps in which it holds a ConfigMap, keeps both invariants.
LEMMA BystanderStep ==
  ASSUME TypeOK, OwnerInv, CreatorInv, UNCHANGED clusterVars,
         \A p \in Pods : \/ handler'[p].at \notin {"job", "owner"}
                         \/ handler'[p] = handler[p]
  PROVE  OwnerInv' /\ CreatorInv'
  <1>1. OwnerInv'
    BY DEF OwnerInv, clusterVars
  <1>2. CreatorInv'
    BY DEF CreatorInv, clusterVars
  <1> QED
    BY <1>1, <1>2

\* Every step keeps the owner and creator invariants.
LEMMA ObjectStep ==
  TypeOK /\ OwnerInv /\ CreatorInv /\ [Next]_vars => OwnerInv' /\ CreatorInv'
  <1> SUFFICES ASSUME TypeOK, OwnerInv, CreatorInv, [Next]_vars
               PROVE  OwnerInv' /\ CreatorInv'
    OBVIOUS
  <1>1. ASSUME NEW a \in Alerts, Fire(a) \/ Resolve(a)
        PROVE  OwnerInv' /\ CreatorInv'
    BY <1>1, BystanderStep DEF Fire, Resolve
  <1>2. ASSUME NEW p \in Pods, Notify(p) PROVE OwnerInv' /\ CreatorInv'
    <2>1. \A q \in Pods : handler'[q].at \notin {"job", "owner"}
                          \/ handler'[q] = handler[q]
      BY <1>2 DEF Notify, TypeOK, Idle
    <2> QED
      BY <1>2, <2>1, BystanderStep DEF Notify
  <1>3. CASE Timeout
    BY <1>3, BystanderStep DEF Timeout
  <1>4. ASSUME NEW p \in Pods, Derive(p) PROVE OwnerInv' /\ CreatorInv'
    <2>1. \A q \in Pods : handler'[q].at \notin {"job", "owner"}
                          \/ handler'[q] = handler[q]
      BY <1>4 DEF Derive, Close, TypeOK, Handlers, Idle
    <2> QED
      BY <1>4, <2>1, BystanderStep DEF Derive
  <1>5. ASSUME NEW p \in Pods, Claim(p) PROVE OwnerInv' /\ CreatorInv'
    <2>1. \A q \in Pods : handler'[q].at \notin {"job", "owner"}
                          \/ handler'[q] = handler[q]
      BY <1>5 DEF Claim, Close, Goto, TypeOK, Handlers, Idle
    <2> QED
      BY <1>5, <2>1, BystanderStep DEF Claim
  <1>6. ASSUME NEW p \in Pods, CreateConfigMap(p) PROVE OwnerInv' /\ CreatorInv'
    <2> USE DEF BareConfigMap
    <2> DEFINE k == handler[p].key
               made == [configmap EXCEPT ![k] = BareConfigMap]
    <2>1. handler[p].at = "configmap" /\ k \in Incidents /\ UNCHANGED <<job, uid>>
      BY <1>6, KeyTyped DEF CreateConfigMap, Serving
    <2>2. CASE configmap' = configmap /\ Close(p, FALSE)
      <3>1. \A q \in Pods : handler'[q].at \notin {"job", "owner"}
                            \/ handler'[q] = handler[q]
        BY <2>2 DEF Close, TypeOK, Idle
      <3> QED
        BY <2>1, <2>2, <3>1, BystanderStep DEF clusterVars
    <2>3. ASSUME ~configmap[k].exists, configmap' = made
          PROVE  /\ OwnerInv'
                 /\ job[k] \notin Kept
                 /\ \A q \in Pods : handler[q].at \in {"job", "owner"} =>
                        handler[q].key # k
      <3>1. job[k] \notin Kept
        BY <2>1, <2>3 DEF OwnerInv
      <3>2. \A j \in Incidents : j # k => configmap'[j] = configmap[j]
        BY <2>1, <2>3 DEF TypeOK
      <3>3. OwnerInv'
        BY <2>1, <3>1, <3>2 DEF OwnerInv
      <3>4. \A q \in Pods : handler[q].at \in {"job", "owner"} =>
                handler[q].key # k
        BY <2>3 DEF CreatorInv
      <3> QED
        BY <3>1, <3>3, <3>4
    <2>4. CASE ~configmap[k].exists /\ configmap' = made /\ Close(p, FALSE)
      <3>1. \A q \in Pods \ {p} : handler[q].at \in {"job", "owner"} =>
                handler[q].key \in Incidents /\ handler[q].key # k
        BY <2>3, <2>4, KeyTyped DEF Serving
      <3>2. \A q \in Pods \ {p} : handler[q].at \in {"job", "owner"} =>
                configmap'[handler[q].key] = configmap[handler[q].key]
        BY <2>4, <3>1 DEF TypeOK
      <3> QED
        BY <2>1, <2>3, <2>4, <3>2, CloseCreator
    <2>5. CASE ~configmap[k].exists /\ configmap' = made /\ Goto(p, "job")
      <3>1. /\ \A q \in Pods : q # p => handler'[q] = handler[q]
            /\ handler'[p].at = "job"
            /\ handler'[p].key = k
        BY <2>1, <2>5, GotoTyped DEF Serving, Steps
      <3>2. configmap'[k].exists /\ configmap'[k].owner = 0
        BY <2>1, <2>5 DEF TypeOK
      <3>3. \A q \in Pods : q # p /\ handler[q].at \in {"job", "owner"} =>
                /\ configmap'[handler[q].key] = configmap[handler[q].key]
                /\ handler[q].key # k
        BY <2>3, <2>5, KeyTyped DEF TypeOK, Serving
      <3>4. CreatorInv'
        BY <2>1, <2>3, <2>5, <3>1, <3>2, <3>3 DEF CreatorInv
      <3> QED
        BY <2>3, <2>5, <3>4
    <2> QED
      BY <1>6, <2>2, <2>4, <2>5 DEF CreateConfigMap
  <1>7. ASSUME NEW p \in Pods, CreateJob(p) PROVE OwnerInv' /\ CreatorInv'
    <2> DEFINE k == handler[p].key
    <2>1. /\ handler[p].at = "job" /\ k \in Incidents /\ UNCHANGED configmap
          /\ configmap[k].exists /\ configmap[k].owner = 0
      BY <1>7, KeyTyped DEF CreateJob, Serving, CreatorInv
    <2>2. CASE Close(p, FALSE) /\ UNCHANGED <<job, uid, covered>>
      <3>1. \A q \in Pods : handler'[q].at \notin {"job", "owner"}
                            \/ handler'[q] = handler[q]
        BY <2>2 DEF Close, TypeOK, Idle
      <3> QED
        BY <2>1, <2>2, <3>1, BystanderStep DEF clusterVars
    <2>3. ASSUME NewJob(k, handler[p].resolved)
          PROVE  /\ OwnerInv'
                 /\ uid'[k] = uid[k] + 1
                 /\ \A j \in Incidents : j # k => job'[j] = job[j] /\ uid'[j] = uid[j]
      <3>1. /\ uid'[k] = uid[k] + 1
            /\ \A j \in Incidents : j # k => job'[j] = job[j] /\ uid'[j] = uid[j]
        BY <2>1, <2>3 DEF NewJob, TypeOK
      <3> QED
        BY <2>1, <3>1 DEF OwnerInv
    <2>4. \A q \in Pods \ {p} : handler[q].at \in {"job", "owner"} =>
              handler[q].key \in Incidents /\ handler[q].key # k
      BY <2>1, KeyTyped DEF CreatorInv, Serving
    <2>5. CASE Close(p, FALSE) /\ NewJob(k, handler[p].resolved)
      BY <2>1, <2>3, <2>4, <2>5, CloseCreator
    <2>6. CASE /\ NewJob(k, handler[p].resolved)
               /\ handler' = [handler EXCEPT ![p].at = "owner",
                                             ![p].job = uid[k] + 1]
      <3>1. /\ \A q \in Pods : q # p => handler'[q] = handler[q]
            /\ handler'[p].at = "owner"
            /\ handler'[p].key = k
            /\ handler'[p].job = uid[k] + 1
        BY <2>6 DEF TypeOK, Handlers
      <3>2. \A q \in Pods : q # p /\ handler[q].at \in {"job", "owner"} =>
                /\ handler[q].key # k
                /\ job'[handler[q].key] = job[handler[q].key]
                /\ uid'[handler[q].key] = uid[handler[q].key]
        BY <2>3, <2>4, <2>6
      <3>3. uid'[k] = uid[k] + 1
        BY <2>3, <2>6
      <3>4. CreatorInv'
        BY <2>1, <3>1, <3>2, <3>3 DEF CreatorInv
      <3> QED
        BY <2>3, <2>6, <3>4
    <2> QED
      BY <1>7, <2>2, <2>5, <2>6 DEF CreateJob
  <1>8. ASSUME NEW p \in Pods, PatchOwner(p) PROVE OwnerInv' /\ CreatorInv'
    <2> DEFINE k == handler[p].key
               patched == [configmap EXCEPT ![k].owner = handler[p].job]
    <2>1. /\ handler[p].at = "owner" /\ k \in Incidents /\ UNCHANGED <<job, uid>>
          /\ configmap[k].exists /\ configmap[k].owner = 0
          /\ handler[p].job = uid[k]
      BY <1>8, KeyTyped DEF PatchOwner, Serving, CreatorInv
    <2>2. \A q \in Pods : handler'[q].at \notin {"job", "owner"}
                          \/ (handler'[q] = handler[q] /\ q # p)
      <3>1. \A q \in Pods : q # p => handler'[q] = handler[q]
        BY <1>8 DEF PatchOwner, Goto, Close, TypeOK
      <3>2. CASE Goto(p, "respond")
        <4>1. handler'[p].at = "respond"
          BY <2>1, <3>2, GotoTyped DEF Steps, Serving
        <4> QED
          BY <3>1, <4>1
      <3>3. CASE Close(p, FALSE)
        <4>1. handler'[p].at = "idle"
          BY <3>3 DEF Close, TypeOK, Idle
        <4> QED
          BY <3>1, <4>1
      <3> QED
        BY <1>8, <3>2, <3>3 DEF PatchOwner
    <2>3. CASE configmap' = configmap
      BY <2>1, <2>2, <2>3, BystanderStep DEF clusterVars
    <2>4. CASE configmap' = patched
      <3>1. configmap'[k].exists /\ configmap'[k].owner = uid[k]
        BY <2>1, <2>4 DEF TypeOK
      <3>2. \A j \in Incidents : j # k => configmap'[j] = configmap[j]
        BY <2>1, <2>4 DEF TypeOK
      <3>3. OwnerInv'
        BY <2>1, <3>1, <3>2 DEF OwnerInv
      <3>4. \A q \in Pods : q # p /\ handler[q].at \in {"job", "owner"} =>
                handler[q].key \in Incidents /\ handler[q].key # k
        BY <2>1, KeyTyped DEF CreatorInv, Serving
      <3>5. CreatorInv'
        BY <2>1, <2>2, <3>2, <3>4 DEF CreatorInv
      <3> QED
        BY <3>3, <3>5
    <2> QED
      BY <1>8, <2>3, <2>4 DEF PatchOwner
  <1>9. ASSUME NEW p \in Pods, Respond(p) \/ Crash(p)
        PROVE  OwnerInv' /\ CreatorInv'
    <2>1. \A q \in Pods : handler'[q].at \notin {"job", "owner"}
                          \/ handler'[q] = handler[q]
      BY <1>9 DEF Respond, Crash, Close, TypeOK, Idle
    <2> QED
      BY <1>9, <2>1, BystanderStep DEF Respond, Crash
  <1>10. ASSUME NEW k \in Incidents, Expire(k) PROVE OwnerInv' /\ CreatorInv'
    BY <1>10, BystanderStep DEF Expire
  <1>11. ASSUME NEW k \in Incidents, FinishJob(k) \/ ReapJob(k) \/ RemoveJob(k)
         PROVE  OwnerInv' /\ CreatorInv'
    <2>1. /\ \A j \in Incidents : job'[j] \in Kept => job[j] \in Kept
          /\ UNCHANGED <<configmap, uid, handler>>
      BY <1>11 DEF FinishJob, ReapJob, RemoveJob, TypeOK, Kept
    <2>2. OwnerInv'
      BY <2>1 DEF OwnerInv
    <2>3. CreatorInv'
      BY <2>1, KeyTyped DEF CreatorInv, Serving
    <2> QED
      BY <2>2, <2>3
  <1>12. ASSUME NEW k \in Incidents, Collect(k) PROVE OwnerInv' /\ CreatorInv'
    <2>1. /\ \A j \in Incidents : j # k => configmap'[j] = configmap[j]
          /\ UNCHANGED <<job, uid, handler>>
      BY <1>12 DEF Collect, TypeOK
    <2>2. job[k] \notin Kept
      BY <1>12 DEF Collect, OwnerInv, Kept
    <2>3. OwnerInv'
      BY <2>1, <2>2 DEF OwnerInv
    <2>4. \A q \in Pods : handler[q].at \in {"job", "owner"} =>
              handler[q].key \in Incidents /\ handler[q].key # k
      BY <1>12, KeyTyped DEF Collect, CreatorInv, Serving
    <2>5. CreatorInv'
      BY <2>1, <2>4 DEF CreatorInv
    <2> QED
      BY <2>3, <2>5
  <1>13. CASE UNCHANGED vars
    BY <1>13, BystanderStep DEF vars
  <1> QED
    BY <1>1, <1>2, <1>3, <1>4, <1>5, <1>6, <1>7, <1>8, <1>9, <1>10, <1>11,
       <1>12, <1>13 DEF Next, Serve, Cluster

----------------------------------------------------------------------------

\* The inductive invariant holds in every reachable state.
LEMMA InvInvariant == Spec => []Inv
  <1>1. Inv /\ [Next]_vars => Inv'
    BY TypeStep, ObjectStep DEF Inv
  <1> QED
    BY InitInv, <1>1, PTL DEF Spec

\* The receiver's state is well typed; a serving handler names its incident
\* after an alert of its notification that has resolved.
THEOREM TypeCorrect == Spec => []TypeOK
  <1>1. Inv => TypeOK
    BY DEF Inv
  <1> QED
    BY InvInvariant, <1>1, PTL

\* A Job never starts without the ConfigMap it mounts, whatever fails, and
\* however late Kubernetes' garbage collector is (jobs.py, create).
THEOREM JobsFindTheirIncident == Spec => []JobFindsIncident
  <1>1. Inv => JobFindsIncident
    BY DEF Inv, TypeOK, OwnerInv, Kept, JobFindsIncident
  <1> QED
    BY InvInvariant, <1>1, PTL

\* A Job that is waiting, running or kept has no rival of its name: only one
\* that is being deleted can be in the way of the next (jobs.py, create).
THEOREM JobsHaveNoRival == Spec => []NoRivalJob
  <1>1. Inv => NoRivalJob
    <2> SUFFICES ASSUME Inv, NEW p \in Pods, handler[p].at = "job"
                 PROVE  job[handler[p].key] \in {"none", "terminating"}
      BY DEF NoRivalJob
    <2>1. handler[p].key \in Incidents
      BY KeyTyped DEF Inv, Serving
    <2> QED
      BY <2>1 DEF Inv, CreatorInv, TypeOK, Kept
  <1> QED
    BY InvInvariant, <1>1, PTL

----------------------------------------------------------------------------
(* One Job a claim.                                                        *)

\* The handlers whose claim of the key has not made its Job yet.
Pending(k) ==
    {p \in Pods : handler[p].at \in {"configmap", "job"} /\ handler[p].key = k}

\* How often the key can have been claimed.
Granted(k) == expiries[k] + (IF k \in claimed THEN 1 ELSE 0)

\* Claims are paid for: by a Job, by a handler that may still make one, or by
\* nothing, when a fault got in between.
ClaimInv ==
    \A k \in Incidents :
        /\ IsFiniteSet(Pending(k))
        /\ uid[k] + Cardinality(Pending(k)) <= Granted(k)

\* What is granted is a number.
LEMMA GrantedTyped ==
  ASSUME TypeOK, NEW k \in Incidents PROVE Granted(k) \in Nat
  BY DEF TypeOK, Granted

\* A step that makes no Job and lets nobody into the pending ones.
LEMMA NothingClaimed ==
  ASSUME TypeOK, TypeOK', ClaimInv, NEW k \in Incidents,
         Pending(k)' \subseteq Pending(k), uid'[k] = uid[k],
         Granted(k)' >= Granted(k)
  PROVE  /\ IsFiniteSet(Pending(k)')
         /\ uid'[k] + Cardinality(Pending(k)') <= Granted(k)'
  <1>1. IsFiniteSet(Pending(k)) /\ uid[k] + Cardinality(Pending(k)) <= Granted(k)
    BY DEF ClaimInv
  <1>2. IsFiniteSet(Pending(k)') /\ Cardinality(Pending(k)') <= Cardinality(Pending(k))
    BY <1>1, FS_Subset
  <1>3. Cardinality(Pending(k)) \in Nat /\ Cardinality(Pending(k)') \in Nat
    BY <1>1, <1>2, FS_CardinalityType
  <1>4. Granted(k) \in Nat /\ Granted(k)' \in Nat /\ uid[k] \in Nat
    BY GrantedTyped DEF TypeOK, Granted
  <1> QED
    BY <1>1, <1>2, <1>3, <1>4

\* A claim lets one handler in, and the key was free.
LEMMA OneMorePending ==
  ASSUME TypeOK, TypeOK', ClaimInv, NEW k \in Incidents, NEW p \in Pods,
         Pending(k)' = Pending(k) \union {p}, uid'[k] = uid[k],
         Granted(k)' = Granted(k) + 1
  PROVE  /\ IsFiniteSet(Pending(k)')
         /\ uid'[k] + Cardinality(Pending(k)') <= Granted(k)'
  <1>1. IsFiniteSet(Pending(k)) /\ uid[k] + Cardinality(Pending(k)) <= Granted(k)
    BY DEF ClaimInv
  <1>2. /\ IsFiniteSet(Pending(k) \union {p})
        /\ Cardinality(Pending(k) \union {p}) <= Cardinality(Pending(k)) + 1
    <2>1. Cardinality(Pending(k)) \in Nat
      BY <1>1, FS_CardinalityType
    <2>2. /\ IsFiniteSet(Pending(k) \union {p})
          /\ Cardinality(Pending(k) \union {p}) =
                IF p \in Pending(k) THEN Cardinality(Pending(k))
                ELSE Cardinality(Pending(k)) + 1
      BY <1>1, FS_AddElement
    <2> QED
      BY <2>1, <2>2
  <1>3. Cardinality(Pending(k)) \in Nat /\ Cardinality(Pending(k) \union {p}) \in Nat
    BY <1>1, <1>2, FS_CardinalityType
  <1>4. Granted(k) \in Nat /\ uid[k] \in Nat
    BY GrantedTyped DEF TypeOK
  <1> QED
    BY <1>1, <1>2, <1>3, <1>4

\* A Job is made by one of the pending handlers, which is none from then on.
LEMMA OneMoreJob ==
  ASSUME TypeOK, TypeOK', ClaimInv, NEW k \in Incidents, NEW p \in Pending(k),
         Pending(k)' = Pending(k) \ {p}, uid'[k] = uid[k] + 1,
         Granted(k)' = Granted(k)
  PROVE  /\ IsFiniteSet(Pending(k)')
         /\ uid'[k] + Cardinality(Pending(k)') <= Granted(k)'
  <1>1. IsFiniteSet(Pending(k)) /\ uid[k] + Cardinality(Pending(k)) <= Granted(k)
    BY DEF ClaimInv
  <1>2. /\ IsFiniteSet(Pending(k) \ {p})
        /\ Cardinality(Pending(k) \ {p}) = Cardinality(Pending(k)) - 1
    BY <1>1, FS_RemoveElement
  <1>3. Cardinality(Pending(k)) \in Nat /\ Granted(k) \in Nat /\ uid[k] \in Nat
    BY <1>1, FS_CardinalityType, GrantedTyped DEF TypeOK
  <1> QED
    BY <1>1, <1>2, <1>3

\* A handler that closes is pending no more, and nobody else becomes so.
LEMMA ClosePending ==
  ASSUME TypeOK, NEW p \in Pods, NEW ok \in BOOLEAN, Close(p, ok), NEW k \in Incidents
  PROVE  Pending(k)' = Pending(k) \ {p}
  <1>1. \A q \in Pods : handler'[q] = IF q = p THEN Idle ELSE handler[q]
    BY DEF Close, TypeOK
  <1> QED
    BY <1>1 DEF Pending, Idle

\* Nor when it moves on to a place where it is not.
LEMMA GotoPending ==
  ASSUME TypeOK, NEW p \in Pods, NEW s \in Steps, Goto(p, s),
         handler[p].at \in Serving, NEW k \in Incidents
  PROVE  /\ s \in {"owner", "respond"} => Pending(k)' = Pending(k) \ {p}
         /\ s = "job" /\ handler[p].at = "configmap" => Pending(k)' = Pending(k)
         /\ s = "configmap" =>
               /\ k = handler[p].key => Pending(k)' = Pending(k) \union {p}
               /\ k # handler[p].key => Pending(k)' = Pending(k) \ {p}
  BY GotoTyped DEF Pending

\* Every step keeps the claims paid.
LEMMA ClaimStep == ASSUME TypeOK, TypeOK', ClaimInv, [Next]_vars PROVE ClaimInv'
  <1> USE DEF amVars, clusterVars, history
  <1> SUFFICES ASSUME NEW k \in Incidents
               PROVE  /\ IsFiniteSet(Pending(k)')
                      /\ uid'[k] + Cardinality(Pending(k)') <= Granted(k)'
    BY DEF ClaimInv
  <1> DEFINE Paid == /\ IsFiniteSet(Pending(k)')
                     /\ uid'[k] + Cardinality(Pending(k)') <= Granted(k)'
  <1>0. Granted(k) \in Nat
    BY GrantedTyped
  <1>1. ASSUME Pending(k)' \subseteq Pending(k),
               UNCHANGED <<uid, expiries>>, claimed \subseteq claimed'
        PROVE  Paid
    <2>1. Granted(k)' >= Granted(k)
      BY <1>1 DEF Granted, TypeOK
    <2> QED
      BY <1>1, <2>1, NothingClaimed
  <1>2. ASSUME UNCHANGED <<handler, uid, expiries, claimed>> PROVE Paid
    BY <1>1, <1>2 DEF Pending
  <1>3. ASSUME NEW p \in Pods, Notify(p) PROVE Paid
    <2>1. Pending(k)' \subseteq Pending(k)
      BY <1>3 DEF Notify, Pending, TypeOK, Idle
    <2> QED
      BY <1>1, <1>3, <2>1 DEF Notify
  <1>4. ASSUME NEW p \in Pods, Derive(p) PROVE Paid
    <2>1. Pending(k)' \subseteq Pending(k)
      <3>1. CASE Close(p, TRUE)
        BY <3>1, ClosePending
      <3>2. ASSUME NEW key,
                   handler' = [handler EXCEPT ![p].at = "claim", ![p].key = key]
            PROVE  Pending(k)' \subseteq Pending(k)
        BY <3>2 DEF Pending, TypeOK, Handlers
      <3> QED
        BY <1>4, <3>1, <3>2 DEF Derive
    <2> QED
      BY <1>1, <1>4, <2>1 DEF Derive
  <1>5. ASSUME NEW p \in Pods, Claim(p) PROVE Paid
    <2>1. CASE /\ DedupKey(handler[p].key) \notin claimed
               /\ claimed' = claimed \union {DedupKey(handler[p].key)}
               /\ Goto(p, "configmap")
      <3>1. handler[p].at \in Serving /\ UNCHANGED <<uid, expiries>>
        BY <1>5 DEF Claim, Serving
      <3>2. "configmap" \in Steps
        BY DEF Steps
      <3>3. CASE k = handler[p].key
        <4>1. Granted(k)' = Granted(k) + 1
          BY <2>1, <3>1, <3>3 DEF Granted, DedupKey, TypeOK
        <4>2. Pending(k)' = Pending(k) \union {p}
          BY <2>1, <3>1, <3>2, <3>3, GotoPending
        <4> QED
          BY <3>1, <4>1, <4>2, OneMorePending
      <3>4. CASE k # handler[p].key
        <4>1. Pending(k)' \subseteq Pending(k)
          BY <2>1, <3>1, <3>2, <3>4, GotoPending
        <4> QED
          BY <1>1, <2>1, <3>1, <4>1
      <3> QED
        BY <3>3, <3>4
    <2>2. CASE Goto(p, "respond") /\ UNCHANGED claimed
      <3>1. Pending(k)' \subseteq Pending(k)
        BY <1>5, <2>2, GotoPending DEF Claim, Steps, Serving
      <3> QED
        BY <1>1, <1>5, <2>2, <3>1 DEF Claim
    <2>3. CASE /\ claimed' \in {claimed, claimed \union {DedupKey(handler[p].key)}}
               /\ Close(p, FALSE)
      <3>1. Pending(k)' \subseteq Pending(k)
        BY <2>3, ClosePending
      <3> QED
        BY <1>1, <1>5, <2>3, <3>1 DEF Claim
    <2> QED
      BY <1>5, <2>1, <2>2, <2>3 DEF Claim
  <1>6. ASSUME NEW p \in Pods, CreateConfigMap(p) PROVE Paid
    <2>1. CASE Goto(p, "job")
      <3>1. Pending(k)' \subseteq Pending(k)
        BY <1>6, <2>1, GotoPending DEF CreateConfigMap, Steps, Serving
      <3> QED
        BY <1>1, <1>6, <3>1 DEF CreateConfigMap
    <2>2. CASE Close(p, FALSE)
      <3>1. Pending(k)' \subseteq Pending(k)
        BY <2>2, ClosePending
      <3> QED
        BY <1>1, <1>6, <3>1 DEF CreateConfigMap
    <2> QED
      BY <1>6, <2>1, <2>2 DEF CreateConfigMap
  <1>7. ASSUME NEW p \in Pods, CreateJob(p) PROVE Paid
    <2>1. UNCHANGED <<claimed, expiries>> /\ handler[p].at = "job"
      BY <1>7 DEF CreateJob
    <2>2. Granted(k)' = Granted(k)
      BY <2>1 DEF Granted
    <2>3. Pending(k)' = Pending(k) \ {p}
      <3>1. CASE handler' = [handler EXCEPT ![p].at = "owner",
                                            ![p].job = uid[handler[p].key] + 1]
        BY <3>1 DEF Pending, TypeOK, Handlers
      <3>2. CASE Close(p, FALSE)
        BY <3>2, ClosePending
      <3> QED
        BY <1>7, <3>1, <3>2 DEF CreateJob
    <2>4. CASE NewJob(handler[p].key, handler[p].resolved)
      <3>1. handler[p].key \in Incidents
        BY <2>1, KeyTyped DEF Serving
      <3>2. CASE k = handler[p].key
        <4>1. p \in Pending(k) /\ uid'[k] = uid[k] + 1
          BY <2>1, <2>4, <3>2 DEF Pending, NewJob, TypeOK
        <4> QED
          BY <2>2, <2>3, <4>1, OneMoreJob
      <3>3. CASE k # handler[p].key
        <4>1. uid'[k] = uid[k]
          BY <2>4, <3>3 DEF NewJob, TypeOK
        <4>2. Pending(k)' \subseteq Pending(k) /\ Granted(k)' >= Granted(k)
          BY <1>0, <2>2, <2>3
        <4> QED
          BY <4>1, <4>2, NothingClaimed
      <3> QED
        BY <3>2, <3>3
    <2>5. CASE UNCHANGED uid
      BY <1>1, <2>1, <2>3, <2>5
    <2> QED
      BY <1>7, <2>4, <2>5 DEF CreateJob
  <1>8. ASSUME NEW p \in Pods, PatchOwner(p) PROVE Paid
    <2>1. Pending(k)' \subseteq Pending(k)
      <3>1. CASE Goto(p, "respond")
        BY <1>8, <3>1, GotoPending DEF PatchOwner, Steps, Serving
      <3>2. CASE Close(p, FALSE)
        BY <3>2, ClosePending
      <3> QED
        BY <1>8, <3>1, <3>2 DEF PatchOwner
    <2> QED
      BY <1>1, <1>8, <2>1 DEF PatchOwner
  <1>9. ASSUME NEW p \in Pods, Respond(p) \/ Crash(p) PROVE Paid
    <2>1. Pending(k)' \subseteq Pending(k)
      BY <1>9, ClosePending DEF Respond, Crash
    <2> QED
      BY <1>1, <1>9, <2>1 DEF Respond, Crash
  <1>10. ASSUME NEW j \in Incidents, Expire(j) PROVE Paid
    <2>1. Pending(k)' = Pending(k) /\ uid'[k] = uid[k]
      BY <1>10 DEF Expire, Pending
    <2>2. Granted(k)' = Granted(k)
      BY <1>10 DEF Expire, Granted, TypeOK
    <2> QED
      BY <1>0, <2>1, <2>2, NothingClaimed
  <1>11. ASSUME NEW a \in Alerts,
                Fire(a) \/ Resolve(a)
         PROVE  Paid
    BY <1>2, <1>11 DEF Fire, Resolve
  <1>12. ASSUME NEW j \in Incidents, Cluster(j) PROVE Paid
    BY <1>2, <1>12 DEF Cluster, FinishJob, ReapJob, Collect, RemoveJob
  <1>13. ASSUME Timeout \/ UNCHANGED vars PROVE Paid
    BY <1>2, <1>13 DEF Timeout, vars
  <1> QED
    BY <1>3, <1>4, <1>5, <1>6, <1>7, <1>8, <1>9, <1>10, <1>11, <1>12, <1>13
    DEF Next, Serve, Cluster

\* However often a notification is sent, and whichever pods serve it, one
\* claim of the dedup key creates at most one Job (dedup.py, claim).
THEOREM ClaimsMakeOneJob == Spec => []OneJobPerClaim
  <1>1. Init => ClaimInv
    <2> SUFFICES ASSUME Init, NEW k \in Incidents
                 PROVE  /\ IsFiniteSet(Pending(k))
                        /\ uid[k] + Cardinality(Pending(k)) <= Granted(k)
      BY DEF ClaimInv
    <2>1. Pending(k) = {}
      BY DEF Init, Pending, Idle
    <2> QED
      BY <2>1, FS_EmptySet DEF Init, Granted
  <1>2. TypeOK /\ TypeOK' /\ ClaimInv /\ [Next]_vars => ClaimInv'
    BY ClaimStep
  <1>3. TypeOK /\ ClaimInv => OneJobPerClaim
    <2> SUFFICES ASSUME TypeOK, ClaimInv, NEW k \in Incidents
                 PROVE  uid[k] <= 1 + expiries[k]
      BY DEF OneJobPerClaim
    <2>1. Cardinality(Pending(k)) \in Nat
      BY FS_CardinalityType DEF ClaimInv
    <2>2. uid[k] + Cardinality(Pending(k)) <= Granted(k)
      BY DEF ClaimInv
    <2>3. Granted(k) <= 1 + expiries[k] /\ Granted(k) \in Nat
      BY DEF Granted, TypeOK
    <2>4. uid[k] \in Nat /\ expiries[k] \in Nat
      BY DEF TypeOK
    <2> QED
      BY <2>1, <2>2, <2>3, <2>4
  <1> QED
    BY <1>1, <1>2, <1>3, TypeCorrect, PTL DEF Spec
=============================================================================
