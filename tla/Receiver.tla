------------------------------ MODULE Receiver ------------------------------
(***************************************************************************)
(* The webhook receiver (receiver/) between Alertmanager, Valkey and the   *)
(* Kubernetes API: how a notification about resolved alerts becomes one    *)
(* ConfigMap and one Job, or nothing.                                      *)
(*                                                                         *)
(* The alerts are those of one Alertmanager group; two groups never share  *)
(* a key or an object.  An incident is known by the earliest startsAt of   *)
(* its alerts, which is what the dedup key and the object names are        *)
(* derived from; several alerts may start at one time.  The handler does   *)
(* not yield between its blocking calls, so a pod serves one notification  *)
(* at a time; a rolling update runs two pods.                              *)
(***************************************************************************)
EXTENDS Naturals

CONSTANTS
    Alerts,       \* every alert of the group, flaps included
    Start,        \* the startsAt of each: those of one evaluation share it
    Series,       \* the label set each of them belongs to
    Pods,         \* receiver pods that may run at the same time
    NoPod,        \* Alertmanager awaits no answer
    MaxFaults,    \* bound: failed calls, crashes and timeouts
    MaxExpiries   \* bound: expiries of one dedup key

ASSUME StartAssumption ==
    /\ Start \in [Alerts -> Nat \ {0}]
    /\ \A a, b \in Alerts : Series[a] = Series[b] /\ Start[a] = Start[b] => a = b
ASSUME NoPodAssumption == NoPod \notin Pods
ASSUME BoundsAssumption == MaxFaults \in Nat /\ MaxExpiries \in Nat

VARIABLES
    alert,       \* Alertmanager's view of each alert
    waiting,     \* the pod Alertmanager awaits an answer from
    handler,     \* what each pod is doing
    claimed,     \* the dedup keys Valkey holds
    configmap,   \* per incident, the ConfigMap of its name
    job,         \* per incident, the Job of its name
    uid,         \* per incident, the uid of its latest Job: 0 before any
    covered,     \* alerts some Job was created for
    clashed,     \* incidents whose Job's name was taken when it was to be made
    expiries,    \* per incident, how often its key expired
    faults       \* failed calls, crashes and timeouts so far

amVars == <<alert, waiting>>
clusterVars == <<configmap, job, uid>>
history == <<covered, clashed>>
vars == <<amVars, handler, claimed, clusterVars, history, expiries, faults>>

\* An incident is named by the earliest start of its alerts.
Incidents == {Start[a] : a \in Alerts}

Steps == {"idle", "derive", "claim", "configmap", "job", "owner", "respond"}
Serving == {"claim", "configmap", "job", "owner"}

Handlers == [at : Steps, resolved : SUBSET Alerts, key : Incidents \union {0},
             job : Nat]

Idle == [at |-> "idle", resolved |-> {}, key |-> 0, job |-> 0]

\* A handler's incident is named after an alert of its window.
KeyFrom(h) == \E a \in h.resolved : h.key = Start[a]

TypeOK ==
    /\ alert \in [Alerts -> {"quiet", "firing", "resolved", "notified"}]
    /\ waiting \in Pods \union {NoPod}
    /\ handler \in [Pods -> Handlers]
    /\ \A p \in Pods : handler[p].at \in Serving => KeyFrom(handler[p])
    /\ claimed \subseteq Incidents
    /\ configmap \in [Incidents -> [exists : BOOLEAN, owner : Nat]]
    /\ job \in [Incidents -> {"none", "active", "finished", "terminating"}]
    /\ uid \in [Incidents -> Nat]
    /\ covered \subseteq Alerts
    /\ clashed \subseteq Incidents
    /\ expiries \in [Incidents -> 0..MaxExpiries]
    /\ faults \in 0..MaxFaults

----------------------------------------------------------------------------
(* Alertmanager, as far as the receiver depends on it.                     *)

\* Starts come in order. An alert that fires again has a new start; one that
\* does so before its resolution is acknowledged is left out.
Fire(a) ==
    /\ alert[a] = "quiet"
    /\ \A b \in Alerts : Start[b] < Start[a] => alert[b] # "quiet"
    /\ \A b \in Alerts :
        Series[a] = Series[b] => alert[b] \notin {"firing", "resolved"}
    /\ alert' = [alert EXCEPT ![a] = "firing"]
    /\ UNCHANGED <<waiting, handler, claimed, clusterVars, history, expiries,
                   faults>>

Resolve(a) ==
    /\ alert[a] = "firing"
    /\ alert' = [alert EXCEPT ![a] = "resolved"]
    /\ UNCHANGED <<waiting, handler, claimed, clusterVars, history, expiries,
                   faults>>

\* The alerts of a payload that carry an end: the others are still firing.
Resolved == {a \in Alerts : alert[a] = "resolved"}

\* One notification at a time, about every alert that is firing or whose
\* resolution no receiver has acknowledged yet.
Notify(p) ==
    /\ waiting = NoPod
    /\ handler[p].at = "idle"
    /\ \E a \in Alerts : alert[a] \in {"firing", "resolved"}
    /\ handler' = [handler EXCEPT ![p] =
           [Idle EXCEPT !.at = "derive", !.resolved = Resolved]]
    /\ waiting' = p
    /\ UNCHANGED <<alert, claimed, clusterVars, history, expiries, faults>>

\* A fault the bound still allows.
Fault == faults < MaxFaults /\ faults' = faults + 1

\* Alertmanager gives up on an answer; the handler runs on.
Timeout ==
    /\ waiting # NoPod
    /\ Fault
    /\ waiting' = NoPod
    /\ UNCHANGED <<alert, handler, claimed, clusterVars, history, expiries>>

----------------------------------------------------------------------------
(* The handler, hooks_alertmanager.                                        *)

\* The pod moves on to the next of its calls.
Goto(p, s) == handler' = [handler EXCEPT ![p].at = s]

\* The pod is done with its notification, whose sender sees success (2xx)
\* and forgets what it acknowledges, or an error and keeps everything.
Close(p, acknowledged) ==
    /\ handler' = [handler EXCEPT ![p] = Idle]
    /\ waiting' = IF waiting = p THEN NoPod ELSE waiting
    /\ alert' = IF acknowledged /\ waiting = p
                THEN [a \in Alerts |-> IF a \in handler[p].resolved
                                       THEN "notified" ELSE alert[a]]
                ELSE alert

\* Fault: the earliest alert of the payload, firing ones included.
Derive_AnyAlert(p) ==
    /\ handler[p].at = "derive"
    /\ \E e \in Alerts :
        /\ alert[e] \in {"firing", "resolved"}
        /\ \A a \in Alerts :
            alert[a] \in {"firing", "resolved"} => Start[e] <= Start[a]
        /\ handler' = [handler EXCEPT ![p].at = "claim", ![p].key = Start[e]]
    /\ UNCHANGED <<amVars, claimed, clusterVars, history, expiries, faults>>

\* A payload with nothing resolved is accepted and ignored; otherwise the
\* earliest start names the incident.
Derive(p) ==
    /\ handler[p].at = "derive"
    /\ \/ /\ handler[p].resolved = {}
          /\ Close(p, TRUE)
       \/ \E e \in handler[p].resolved :
          /\ \A a \in handler[p].resolved : Start[e] <= Start[a]
          /\ handler' = [handler EXCEPT ![p].at = "claim", ![p].key = Start[e]]
          /\ UNCHANGED amVars
    /\ UNCHANGED <<claimed, clusterVars, history, expiries, faults>>

\* Fault: the key leaves out the start of the window.
DedupKey_GroupOnly(k) == CHOOSE i \in Incidents : \A j \in Incidents : i <= j

\* The key: the group and the start of the window. Two alerts with one start
\* have one key, whenever they resolve.
DedupKey(k) == k

\* Fault: SET without NX always succeeds.
Claim_WithoutNX(p) ==
    /\ handler[p].at = "claim"
    /\ claimed' = claimed \union {DedupKey(handler[p].key)}
    /\ Goto(p, "configmap")
    /\ UNCHANGED <<amVars, clusterVars, history, expiries, faults>>

\* Fault: a duplicate is answered with an error.
Claim_DuplicateIsError(p) ==
    /\ handler[p].at = "claim"
    /\ \/ /\ DedupKey(handler[p].key) \notin claimed
          /\ claimed' = claimed \union {DedupKey(handler[p].key)}
          /\ Goto(p, "configmap")
          /\ UNCHANGED amVars
       \/ /\ DedupKey(handler[p].key) \in claimed
          /\ Close(p, FALSE)
          /\ UNCHANGED claimed
    /\ UNCHANGED <<clusterVars, history, expiries, faults>>

\* SET NX EX: the first caller goes on to create, any other is answered at
\* once. A failed call may have set the key or not.
Claim(p) ==
    /\ handler[p].at = "claim"
    /\ \/ /\ DedupKey(handler[p].key) \notin claimed
          /\ claimed' = claimed \union {DedupKey(handler[p].key)}
          /\ Goto(p, "configmap")
          /\ UNCHANGED <<amVars, faults>>
       \/ /\ DedupKey(handler[p].key) \in claimed
          /\ Goto(p, "respond")
          /\ UNCHANGED <<amVars, claimed, faults>>
       \/ /\ Fault
          /\ claimed' \in {claimed, claimed \union {DedupKey(handler[p].key)}}
          /\ Close(p, FALSE)
    /\ UNCHANGED <<clusterVars, history, expiries>>

\* Fault: AlreadyExists is taken for success.
CreateConfigMap_ToleratesConflict(p) ==
    /\ handler[p].at = "configmap"
    /\ LET k == handler[p].key IN
       configmap' = IF configmap[k].exists THEN configmap
                    ELSE [configmap EXCEPT ![k] = [exists |-> TRUE, owner |-> 0]]
    /\ Goto(p, "job")
    /\ UNCHANGED <<amVars, claimed, job, uid, history, expiries, faults>>

\* What build_configmap makes: a name and the incident's files, no owner.
BareConfigMap == [exists |-> TRUE, owner |-> 0]

\* The first object, without an owner yet. A conflict with an object of that
\* name, or any other failed call, raises through the handler: a 500.
CreateConfigMap(p) ==
    LET k == handler[p].key
        made == [configmap EXCEPT ![k] = BareConfigMap]
    IN
    /\ handler[p].at = "configmap"
    /\ \/ /\ ~configmap[k].exists
          /\ configmap' = made
          /\ Goto(p, "job")
          /\ UNCHANGED <<amVars, faults>>
       \/ /\ configmap[k].exists
          /\ Close(p, FALSE)
          /\ UNCHANGED <<configmap, faults>>
       \/ /\ Fault
          /\ ~configmap[k].exists
          /\ configmap' \in {configmap, made}
          /\ Close(p, FALSE)
    /\ UNCHANGED <<claimed, job, uid, history, expiries>>

\* The API server accepts the Job of incident k, with a uid of its own.
NewJob(k, window) ==
    /\ job' = [job EXCEPT ![k] = "active"]
    /\ uid' = [uid EXCEPT ![k] = @ + 1]
    /\ covered' = covered \union window

\* The second object. Its name may be taken by a Job that is being deleted: a
\* conflict is an exception like any failed call, which in its turn may have
\* created the Job or not.
CreateJob(p) ==
    LET k == handler[p].key IN
    /\ handler[p].at = "job"
    /\ \/ /\ job[k] = "none"
          /\ NewJob(k, handler[p].resolved)
          /\ handler' = [handler EXCEPT ![p].at = "owner", ![p].job = uid[k] + 1]
          /\ UNCHANGED <<amVars, clashed, faults>>
       \/ /\ job[k] # "none"
          /\ clashed' = clashed \union {k}
          /\ Close(p, FALSE)
          /\ UNCHANGED <<job, uid, covered, faults>>
       \/ /\ job[k] = "none"
          /\ Fault
          /\ \/ NewJob(k, handler[p].resolved)
             \/ UNCHANGED <<job, uid, covered>>
          /\ Close(p, FALSE)
          /\ UNCHANGED clashed
    /\ UNCHANGED <<claimed, configmap, expiries>>

\* Fault: the owner reference is never set.
PatchOwner_Skipped(p) ==
    /\ handler[p].at = "owner"
    /\ Goto(p, "respond")
    /\ UNCHANGED <<amVars, claimed, clusterVars, history, expiries, faults>>

\* The owner reference that hands the ConfigMap to the garbage collector.
PatchOwner(p) ==
    LET patched == [configmap EXCEPT ![handler[p].key].owner = handler[p].job]
    IN
    /\ handler[p].at = "owner"
    /\ \/ /\ configmap' = patched
          /\ Goto(p, "respond")
          /\ UNCHANGED <<amVars, faults>>
       \/ /\ Fault
          /\ configmap' \in {configmap, patched}
          /\ Close(p, FALSE)
    /\ UNCHANGED <<claimed, job, uid, history, expiries>>

\* 202, "created" or "deduped".
Respond(p) ==
    /\ handler[p].at = "respond"
    /\ Close(p, TRUE)
    /\ UNCHANGED <<claimed, clusterVars, history, expiries, faults>>

\* The pod dies between two calls; nothing undoes what it did.
Crash(p) ==
    /\ handler[p].at # "idle"
    /\ Fault
    /\ Close(p, FALSE)
    /\ UNCHANGED <<claimed, clusterVars, history, expiries>>

----------------------------------------------------------------------------
(* Valkey and the cluster.                                                 *)

\* EX ttl.
Expire(k) ==
    /\ k \in claimed
    /\ expiries[k] < MaxExpiries
    /\ claimed' = claimed \ {k}
    /\ expiries' = [expiries EXCEPT ![k] = @ + 1]
    /\ UNCHANGED <<amVars, handler, clusterVars, history, faults>>

\* A Job's pod mounts the ConfigMap of its name, or never starts.
FinishJob(k) ==
    /\ job[k] = "active"
    /\ configmap[k].exists
    /\ job' = [job EXCEPT ![k] = "finished"]
    /\ UNCHANGED <<amVars, handler, claimed, configmap, uid, history, expiries,
                   faults>>

\* ttlSecondsAfterFinished: a deletion in the foreground, so the Job stays, and
\* keeps its name, while what it owns is deleted.
ReapJob(k) ==
    /\ job[k] = "finished"
    /\ job' = [job EXCEPT ![k] = "terminating"]
    /\ UNCHANGED <<amVars, handler, claimed, configmap, uid, history, expiries,
                   faults>>

\* The garbage collector deletes an object whose owner is being deleted or is
\* gone, some time after it saw that.
Collect(k) ==
    /\ configmap[k].exists
    /\ configmap[k].owner # 0
    /\ job[k] \in {"none", "terminating"} \/ uid[k] # configmap[k].owner
    /\ configmap' = [configmap EXCEPT ![k] = [exists |-> FALSE, owner |-> 0]]
    /\ UNCHANGED <<amVars, handler, claimed, job, uid, history, expiries,
                   faults>>

\* The Job goes once the collector sees no object that blocks its deletion. It
\* sees the cluster through a cache, so a ConfigMap whose owner reference came
\* late does not hold it back.
RemoveJob(k) ==
    /\ job[k] = "terminating"
    /\ job' = [job EXCEPT ![k] = "none"]
    /\ UNCHANGED <<amVars, handler, claimed, configmap, uid, history, expiries,
                   faults>>

----------------------------------------------------------------------------
Init ==
    /\ alert = [a \in Alerts |-> "quiet"]
    /\ waiting = NoPod
    /\ handler = [p \in Pods |-> Idle]
    /\ claimed = {}
    /\ configmap = [k \in Incidents |-> [exists |-> FALSE, owner |-> 0]]
    /\ job = [k \in Incidents |-> "none"]
    /\ uid = [k \in Incidents |-> 0]
    /\ covered = {}
    /\ clashed = {}
    /\ expiries = [k \in Incidents |-> 0]
    /\ faults = 0

Serve(p) ==
    \/ Derive(p)
    \/ Claim(p)
    \/ CreateConfigMap(p)
    \/ CreateJob(p)
    \/ PatchOwner(p)
    \/ Respond(p)

Cluster(k) == FinishJob(k) \/ ReapJob(k) \/ Collect(k) \/ RemoveJob(k)

Next ==
    \/ \E a \in Alerts : Fire(a) \/ Resolve(a)
    \/ \E p \in Pods : Notify(p) \/ Serve(p) \/ Crash(p)
    \/ Timeout
    \/ \E k \in Incidents : Expire(k) \/ Cluster(k)

\* Alertmanager notifies again until it is answered, a pod's handler runs to
\* its end, and Kubernetes' controllers do their work. Nothing makes an
\* alert resolve, a key expire or a fault happen.
Fairness ==
    /\ WF_vars(\E p \in Pods : Notify(p))
    /\ \A p \in Pods : WF_vars(Serve(p))
    /\ \A k \in Incidents : WF_vars(Cluster(k))

Spec == Init /\ [][Next]_vars

FairSpec == Spec /\ Fairness

----------------------------------------------------------------------------
(* Properties.                                                             *)

\* A Job never waits for files that are not there: the ConfigMap is created
\* before the Job of its name, and the garbage collector, which may be late,
\* never deletes the one a later Job of that name was created with.
JobFindsIncident ==
    \A k \in Incidents : job[k] = "active" => configmap[k].exists

\* No second Job of a name is tried while the first waits, runs or is kept for
\* its TTL: its ConfigMap is there as long as it is, and shuts the attempt out
\* before it made anything. Only a Job that is being deleted, whose ConfigMap may
\* go before it, can be in the way of the next.
NoRivalJob ==
    \A p \in Pods :
        handler[p].at = "job" => job[handler[p].key] \in {"none", "terminating"}

\* Whatever is retried, duplicated, timed out or lost, and whichever pods
\* serve it, one claim of the dedup key creates at most one Job.
OneJobPerClaim ==
    \A k \in Incidents : uid[k] <= 1 + expiries[k]

\* Alertmanager is never left retrying: with finitely many faults, every
\* resolved alert is eventually acknowledged.
Acknowledged ==
    \A a \in Alerts : alert[a] = "resolved" ~> alert[a] = "notified"

\* Alert a came with an alert whose twin, of the same start and so of the same
\* key, already had its Job: the notification was deduped, or lost to a clash.
Overshadowed(a) ==
    \E b, c \in Alerts :
        /\ Start[b] = Start[c] /\ Start[c] <= Start[a]
        /\ b \in covered
        /\ c \notin covered /\ alert[c] = "notified"

\* As long as no call fails, no pod dies and no answer is late, a resolved alert
\* ends up in the window of some Job, unless a twin had the Job of its key.
CoveredUnlessFaulted ==
    \A a \in Alerts :
        alert[a] = "resolved" ~> (a \in covered \/ faults > 0 \/ Overshadowed(a))

\* The ConfigMap goes when its Job has gone, as long as nothing fails and no
\* later attempt ran into the Job while it was being deleted.
NoLeakUnlessFaulted ==
    \A k \in Incidents :
        (uid[k] > 0 /\ job[k] = "none")
            ~> (~configmap[k].exists \/ faults > 0 \/ k \in clashed)

----------------------------------------------------------------------------
(* What the source says of itself and the code does not keep.              *)

\* Answering a notification it took for a duplicate: it has no Job of its own.
Deduped(p) == handler[p].at = "respond" /\ handler[p].job = 0

\* dedup.py: a duplicate may be answered without creating anything, "since
\* the first call already will (or did)".
DedupedIsHandled ==
    \A p \in Pods : Deduped(p) =>
        \/ uid[handler[p].key] > 0
        \/ \E q \in Pods : /\ handler[q].key = handler[p].key
                           /\ handler[q].at \in {"configmap", "job"}

\* jobs.py: when the Job is reaped, "Kubernetes' garbage collector reaps the
\* ConfigMap with it, for free, no separate cleanup".
ConfigMapGoesWithJob ==
    \A k \in Incidents :
        (uid[k] > 0 /\ job[k] = "none") ~> ~configmap[k].exists

\* dedup.py: "An alert that flaps five times inside the TTL window produces
\* one Job, not five". A flap has the labels of the alert and a new start.
FlapsShareOneJob ==
    (\A k \in Incidents : expiries[k] = 0) =>
        \A a, b \in Alerts :
            Series[a] = Series[b] /\ uid[Start[a]] > 0 /\ uid[Start[b]] > 0 => a = b
=============================================================================
