------------------------ MODULE EvidenceGraph_proofs ------------------------
(***************************************************************************)
(* Proofs about EvidenceGraph for any incidents, collections and answers,  *)
(* and any number of passes, of which any number may work at a time or     *)
(* die.                                                                    *)
(*                                                                         *)
(* A statement of one pass never takes away what another relies on: nodes  *)
(* keep their ids, memberships and evidence edges are only added.  So what *)
(* a pass has in memory is backed by the graph step by step, whatever the  *)
(* others write in between: that is Inv.  On it rest the others: what      *)
(* attributes nodes have, that recurrence is justified, where edges and    *)
(* verdicts end, that chains are timelines, and, for passes that had their *)
(* incident to themselves, that fingerprints are current.                  *)
(***************************************************************************)
EXTENDS EvidenceGraph, FiniteSetTheorems, TLAPS

OneEach(S) == \A a, b \in S : a.id = b.id => a = b

Parts == {Component(e[1], e[2]) : e \in Observed \X Observed}

ReplyType == [supporting : SUBSET EventIds, contradicting : SUBSET EventIds]

PassType ==
    [at : Working \union {"idle", "done"}, view : SUBSET Observed,
     rows : SUBSET Observed, links : SUBSET (EventIds \X EventIds),
     carried : SUBSET Parts, reply : ReplyType, died : BOOLEAN]

Sound(r) == r.supporting \intersect r.contradicting = {}

\* What the graph holds.
GraphInv ==
    /\ known \subseteq Incidents
    /\ events \subseteq Observed /\ OneEach(events)
    /\ partOf \subseteq EventIds \X Incidents
    /\ precedes \subseteq EventIds \X EventIds
    /\ caused \subseteq Ids(events) \X Ids(events)
    /\ fingerprint \in [Incidents -> SUBSET Parts]
    /\ similar \subseteq Incidents \X Incidents
    /\ hypotheses \subseteq Incidents
    /\ torn \subseteq Incidents

\* Every edge of evidence comes from a reply that was stored.
VerdictInv ==
    /\ supports \union contradicts \subseteq EventIds \X Incidents
    /\ judged \in [Incidents -> SUBSET ReplyType]
    /\ \A i \in Incidents :
        /\ IsFiniteSet(judged[i])
        /\ \A r \in judged[i] : Sound(r)
        /\ \A e \in EventIds :
            /\ <<e, i>> \in supports => \E r \in judged[i] : e \in r.supporting
            /\ <<e, i>> \in contradicts =>
                    \E r \in judged[i] : e \in r.contradicting

Written == Working \ {"timeline", "incident", "events"}

\* What a pass has in memory, by where it is.
Coherent(r) ==
    /\ r.rows \subseteq r.view
    /\ OneEach(r.view)
    /\ r.at \notin Working => r.view = {}
    /\ r.at = "incident" => r.rows = r.view
    /\ r.at \notin {"incident", "events"} => r.rows = {}
    /\ r.at = "link" => \A l \in r.links :
          /\ l[1] \in Ids(r.view) /\ l[2] \in Ids(r.view)
          /\ l[1] # l[2]
    /\ Sound(r.reply)
    /\ r.at \in {"hypotheses", "supports", "contradicts"} =>
          r.reply.supporting \union r.reply.contradicting \subseteq Ids(r.view)
    /\ r.at \notin {"hypotheses", "supports", "contradicts", "similar", "done"} =>
          r.reply = NoReply

Held(i) == PartOf(i) \intersect Ids(events)

\* What of it the graph has as well.
Backed(r, i) ==
    /\ r.at = "events" => Ids(r.view \ r.rows) \subseteq Held(i)
    /\ r.at \in Written => Ids(r.view) \subseteq Held(i)
    /\ r.at \in {"supports", "contradicts"} => r.reply \in judged[i]
    /\ r.at \in {"contradicts", "similar", "done"} =>
          r.reply.supporting \X {i} \subseteq supports
    /\ r.at \in {"similar", "done"} =>
          r.reply.contradicting \X {i} \subseteq contradicts

PassInv ==
    /\ pass \in [Passes -> PassType]
    /\ \A q \in Passes : Coherent(pass[q]) /\ Backed(pass[q], Target[q])

Inv == GraphInv /\ VerdictInv /\ PassInv

\* No statement takes away what a pass is backed by.
Grows ==
    /\ Ids(events) \subseteq Ids(events')
    /\ partOf \subseteq partOf'
    /\ supports \subseteq supports' /\ contradicts \subseteq contradicts'
    /\ \A i \in Incidents : judged[i] \subseteq judged'[i]

----------------------------------------------------------------------------
\* The incident of a pass is one.
LEMMA TargetIn == ASSUME NEW p \in Passes PROVE Target[p] \in Incidents
  BY TargetAssumption

\* What is observed has an id among those of events.
LEMMA IdsIn == ASSUME NEW S \in SUBSET Observed PROVE Ids(S) \subseteq EventIds
  BY DEF Ids, EventIds

\* What a pass relies on survives whatever only adds.
LEMMA BackedStays ==
    ASSUME Grows, NEW r \in PassType, NEW i \in Incidents, Backed(r, i)
    PROVE  Backed(r, i)'
  <1>1. Held(i) \subseteq Held(i)'
    BY DEF Grows, Held, PartOf
  <1>2. judged[i] \subseteq judged'[i]
    BY DEF Grows
  <1> QED
    BY <1>1, <1>2 DEF Grows, Backed

\* A step of one pass is all right if it only adds to the graph and leaves
\* that pass coherent and backed.
LEMMA StepOfPass ==
    ASSUME Inv, NEW p \in Passes, NEW r \in PassType,
           pass' = [pass EXCEPT ![p] = r],
           Grows, Coherent(r), Backed(r, Target[p])'
    PROVE  PassInv'
  <1>1. pass' \in [Passes -> PassType]
    BY DEF Inv, PassInv
  <1>2. ASSUME NEW q \in Passes, NEW s \in PassType, s = pass'[q]
        PROVE  Coherent(s) /\ Backed(s, Target[q])'
    <2>1. CASE q = p
      BY <1>2, <2>1 DEF Inv, PassInv
    <2>2. CASE q # p
      <3>1. s = pass[q]
        BY <1>2, <2>2 DEF Inv, PassInv
      <3>2. Coherent(s) /\ Backed(s, Target[q])
        BY <3>1 DEF Inv, PassInv
      <3> QED
        BY <3>2, TargetIn, BackedStays
    <2> QED
      BY <2>1, <2>2
  <1>3. ASSUME NEW q \in Passes
        PROVE  Coherent(pass[q])' /\ Backed(pass[q], Target[q])'
    <2>1. PICK s \in PassType : s = pass'[q]
      BY <1>1
    <2>2. Coherent(s) /\ Backed(s, Target[q])'
      BY <1>2, <2>1
    <2> QED
      BY <2>1, <2>2 DEF Coherent, Backed
  <1> QED
    BY <1>1, <1>3 DEF PassInv

----------------------------------------------------------------------------
\* What a pass has in memory.
LEMMA InMemory ==
    ASSUME Inv, NEW p \in Passes
    PROVE  pass[p] \in PassType /\ Coherent(pass[p]) /\ Backed(pass[p], Target[p])
  BY DEF Inv, PassInv

\* A step that writes nothing to the graph.
LEMMA NothingWritten ==
    ASSUME Inv, UNCHANGED <<nodes, edges, fingerprint, verdicts>>,
           torn' \subseteq Incidents
    PROVE  GraphInv' /\ VerdictInv' /\ Grows
  <1>1. GraphInv'
    <2>1. /\ UNCHANGED <<known, events, partOf, precedes, caused, similar>>
          /\ UNCHANGED <<fingerprint, hypotheses>>
      BY DEF nodes, edges, verdicts
    <2> QED
      BY <2>1 DEF Inv, GraphInv, OneEach, Ids
  <1>2. VerdictInv'
    BY DEF Inv, VerdictInv, verdicts
  <1>3. Grows
    BY DEF Grows, Ids, nodes, verdicts
  <1> QED
    BY <1>1, <1>2, <1>3

\* A step that writes about events and leaves the judgements alone.
LEMMA VerdictsUnchanged ==
    ASSUME Inv, UNCHANGED verdicts
    PROVE  VerdictInv'
  BY DEF Inv, VerdictInv, verdicts

\* A step that writes judgements and leaves the evidence alone.
LEMMA GraphUnchanged ==
    ASSUME Inv, UNCHANGED <<nodes, edges, fingerprint, torn>>,
           hypotheses' \subseteq Incidents
    PROVE  GraphInv'
  BY DEF Inv, GraphInv, OneEach, Ids, nodes, edges

\* Nothing but the place in the statements changes.
LEMMA JustGoes ==
    ASSUME NEW p, NEW s \in Working \union {"idle", "done"},
           pass \in [Passes -> PassType], p \in Passes, Goto(p, s)
    PROVE  /\ pass' = [pass EXCEPT ![p] = [pass[p] EXCEPT !.at = s]]
           /\ [pass[p] EXCEPT !.at = s] \in PassType
  <1>1. pass[p] \in PassType
    OBVIOUS
  <1> QED
    BY <1>1 DEF Goto, PassType

\* A pass starts, with what it collected or with what the graph holds.
LEMMA StartStep == ASSUME Inv, NEW p \in Passes, Start(p) PROVE Inv'
  <1>1. GraphInv' /\ VerdictInv' /\ Grows
    <2>1. torn' \subseteq Incidents
      BY DEF Start, Inv, GraphInv
    <2> QED
      BY <2>1, NothingWritten DEF Start
  <1>2. pass[p].died \in BOOLEAN
    BY InMemory DEF PassType
  <1>3. ASSUME NEW v \in Observable[Target[p]],
               pass' = [pass EXCEPT ![p] =
                   [Fresh EXCEPT !.at = "incident", !.view = v, !.rows = v,
                                 !.died = pass[p].died]]
        PROVE  Inv'
    <2>1. v \subseteq Observed /\ OneEach(v)
      BY TargetIn, ObservableAssumption DEF Observed, OneEach
    <2>2. PICK r \in PassType :
            r = [Fresh EXCEPT !.at = "incident", !.view = v, !.rows = v,
                              !.died = pass[p].died]
      BY <1>2, <2>1 DEF PassType, Fresh, Working, NoReply, ReplyType
    <2>3. Coherent(r) /\ Backed(r, Target[p])'
      BY <2>1, <2>2 DEF Coherent, Backed, Fresh, Working, Written, Sound, NoReply
    <2> QED
      BY <1>1, <1>3, <2>2, <2>3, StepOfPass DEF Inv
  <1>4. CASE pass' = [pass EXCEPT ![p] =
                [Fresh EXCEPT !.at = "timeline",
                              !.carried = fingerprint[Target[p]],
                              !.died = pass[p].died]]
    <2>1. fingerprint[Target[p]] \subseteq Parts
      BY TargetIn DEF Inv, GraphInv
    <2>2. PICK r \in PassType :
            r = [Fresh EXCEPT !.at = "timeline",
                              !.carried = fingerprint[Target[p]],
                              !.died = pass[p].died]
      BY <1>2, <2>1 DEF PassType, Fresh, Working, NoReply, ReplyType
    <2>3. Coherent(r) /\ Backed(r, Target[p])'
      BY <2>2 DEF Coherent, Backed, Fresh, Working, Written, Sound, NoReply, OneEach
    <2> QED
      BY <1>1, <1>4, <2>2, <2>3, StepOfPass DEF Inv
  <1> QED
    BY <1>3, <1>4 DEF Start

\* A pass dies and forgets.
LEMMA CrashStep == ASSUME Inv, NEW p \in Passes, Crash(p) PROVE Inv'
  <1>1. GraphInv' /\ VerdictInv' /\ Grows
    <2>1. torn' \subseteq Incidents
      BY TargetIn DEF Crash, Inv, GraphInv
    <2> QED
      BY <2>1, NothingWritten DEF Crash
  <1>2. PICK r \in PassType : r = [Fresh EXCEPT !.died = TRUE]
    BY DEF PassType, Fresh, Working, NoReply, ReplyType
  <1>3. Coherent(r) /\ Backed(r, Target[p])'
    BY <1>2 DEF Coherent, Backed, Fresh, Working, Written, Sound, NoReply, OneEach
  <1> QED
    BY <1>1, <1>2, <1>3, StepOfPass DEF Inv, Crash

\* A sweep goes by what the graph holds.
LEMMA ReadTimelineStep == ASSUME Inv, NEW p \in Passes, ReadTimeline(p) PROVE Inv'
  <1>1. GraphInv' /\ VerdictInv' /\ Grows
    <2>1. torn' \subseteq Incidents
      BY DEF ReadTimeline, Inv, GraphInv
    <2> QED
      BY <2>1, NothingWritten DEF ReadTimeline
  <1>2. PICK v \in SUBSET Observed : v = Timeline(Target[p]) /\ OneEach(v)
    BY DEF Timeline, Inv, GraphInv, OneEach
  <1>3. pass[p] \in PassType /\ pass[p].at = "timeline" /\ pass[p].reply = NoReply
    BY InMemory DEF ReadTimeline, Coherent
  <1>4. PICK r \in PassType :
          r = [pass[p] EXCEPT !.at = IF v = {} THEN "done" ELSE "incident",
                              !.view = v, !.rows = v]
    BY <1>3 DEF PassType, Working
  <1>5. pass' = [pass EXCEPT ![p] = r]
    BY <1>2, <1>3, <1>4 DEF ReadTimeline, PassType, Inv, PassInv
  <1>6. Coherent(r) /\ Backed(r, Target[p])'
    <2>1. /\ r.view = v /\ r.rows = v /\ r.reply = NoReply
          /\ r.at = IF v = {} THEN "done" ELSE "incident"
      BY <1>3, <1>4 DEF PassType
    <2>2. CASE v = {}
      BY <1>2, <2>1, <2>2 DEF Coherent, Backed, Working, Written, Sound, NoReply
    <2>3. CASE v # {}
      BY <1>2, <2>1, <2>3 DEF Coherent, Backed, Working, Written, Sound, NoReply
    <2> QED
      BY <2>2, <2>3
  <1> QED
    BY <1>1, <1>5, <1>6, StepOfPass DEF Inv

\* What a pass had in memory is backed by the graph before and after a step
\* that only adds.
LEMMA StillBacked ==
    ASSUME Inv, NEW p \in Passes, Grows
    PROVE  \E o \in PassType :
            /\ o = pass[p] /\ Coherent(o)
            /\ Backed(o, Target[p]) /\ Backed(o, Target[p])'
  <1>1. PICK o \in PassType : o = pass[p]
    BY InMemory
  <1>2. Coherent(o) /\ Backed(o, Target[p])
    BY <1>1, InMemory
  <1>3. Backed(o, Target[p])'
    BY <1>2, TargetIn, BackedStays
  <1> QED
    BY <1>1, <1>2, <1>3

\* A pass moves on to another statement, with the same in memory.
LEMMA MovesOn ==
    ASSUME Inv, NEW p \in Passes, NEW s \in Working, Goto(p, s), Grows
    PROVE  \E o, r \in PassType :
            /\ o = pass[p] /\ Coherent(o)
            /\ Backed(o, Target[p]) /\ Backed(o, Target[p])'
            /\ pass' = [pass EXCEPT ![p] = r]
            /\ r.at = s /\ r.view = o.view /\ r.rows = o.rows /\ r.reply = o.reply
  <1>1. PICK o \in PassType :
            /\ o = pass[p] /\ Coherent(o)
            /\ Backed(o, Target[p]) /\ Backed(o, Target[p])'
    BY StillBacked
  <1>2. [o EXCEPT !.at = s] \in PassType
    BY DEF PassType
  <1>3. PICK r \in PassType : r = [o EXCEPT !.at = s]
    BY <1>2
  <1>4. pass' = [pass EXCEPT ![p] = r]
    BY <1>1, <1>3 DEF Goto, Inv, PassInv
  <1>5. /\ r.at = s /\ r.view = o.view /\ r.rows = o.rows /\ r.reply = o.reply
    BY <1>3 DEF PassType
  <1> QED
    BY <1>1, <1>4, <1>5

\* The incident's node, and its fingerprint if a sweep brought one.
LEMMA UpsertIncidentStep ==
    ASSUME Inv, NEW p \in Passes, UpsertIncident(p) PROVE Inv'
  <1>1. GraphInv'
    <2>1. known' \subseteq Incidents
      BY TargetIn DEF UpsertIncident, Inv, GraphInv
    <2>2. fingerprint' \in [Incidents -> SUBSET Parts]
      BY TargetIn, InMemory DEF UpsertIncident, Inv, GraphInv, PassType
    <2>3. UNCHANGED <<events, partOf, precedes, caused, similar, hypotheses, torn>>
      BY DEF UpsertIncident, edges, verdicts
    <2> QED
      BY <2>1, <2>2, <2>3 DEF Inv, GraphInv, OneEach, Ids
  <1>2. VerdictInv'
    BY VerdictsUnchanged DEF UpsertIncident
  <1>3. Grows
    BY DEF UpsertIncident, Grows, Ids, verdicts
  <1>4. PICK o, r \in PassType :
            /\ o = pass[p] /\ Coherent(o)
            /\ pass' = [pass EXCEPT ![p] = r]
            /\ r.at = "events" /\ r.view = o.view /\ r.rows = o.rows
            /\ r.reply = o.reply
    <2>1. "events" \in Working
      BY DEF Working
    <2> QED
      BY <1>3, <2>1, MovesOn DEF UpsertIncident
  <1>5. Coherent(r)
    BY <1>4 DEF UpsertIncident, Coherent, Working
  <1>6. Backed(r, Target[p])'
    <2>1. Ids(r.view \ r.rows) = {}
      BY <1>4 DEF UpsertIncident, Coherent, Ids
    <2> QED
      BY <1>4, <2>1 DEF Backed, Written
  <1> QED
    BY <1>1, <1>2, <1>3, <1>4, <1>5, <1>6, StepOfPass DEF Inv

\* link_temporal, first statement.
LEMMA DropChainStep ==
    ASSUME Inv, NEW p \in Passes, DropChain(p) PROVE Inv'
  <1>1. GraphInv'
    <2>1. precedes' \subseteq precedes /\ torn' \subseteq torn
      BY DEF DropChain
    <2>2. UNCHANGED <<known, events, partOf, caused, similar, fingerprint, hypotheses>>
      BY DEF DropChain, nodes, verdicts
    <2> QED
      BY <2>1, <2>2 DEF Inv, GraphInv, OneEach, Ids
  <1>2. VerdictInv'
    BY VerdictsUnchanged DEF DropChain
  <1>3. Grows
    BY DEF DropChain, Grows, Ids, nodes, verdicts
  <1>4. PICK o, r \in PassType :
            /\ o = pass[p] /\ Coherent(o) /\ Backed(o, Target[p])'
            /\ pass' = [pass EXCEPT ![p] = r]
            /\ r.at = "build" /\ r.view = o.view /\ r.rows = o.rows
            /\ r.reply = o.reply
    <2>1. "build" \in Working
      BY DEF Working
    <2> QED
      BY <1>3, <2>1, MovesOn DEF DropChain
  <1>5. Coherent(r) /\ Backed(r, Target[p])'
    BY <1>4 DEF DropChain, Coherent, Backed, Working, Written
  <1> QED
    BY <1>1, <1>2, <1>3, <1>4, <1>5, StepOfPass DEF Inv

\* link_temporal, second statement.
LEMMA BuildChainStep ==
    ASSUME Inv, NEW p \in Passes, BuildChain(p) PROVE Inv'
  <1>1. GraphInv'
    <2>1. Timeline(Target[p]) \subseteq Observed
      BY DEF Timeline, Inv, GraphInv
    <2>2. {<<l[1].id, l[2].id>> : l \in Consecutive(Timeline(Target[p]))}
              \subseteq EventIds \X EventIds
      BY <2>1 DEF Consecutive, EventIds, Ids
    <2>3. precedes' \subseteq EventIds \X EventIds
      BY <2>2 DEF BuildChain, Inv, GraphInv
    <2>4. UNCHANGED <<known, events, partOf, caused, similar, fingerprint,
                      hypotheses, torn>>
      BY DEF BuildChain, nodes, verdicts
    <2> QED
      BY <2>3, <2>4 DEF Inv, GraphInv, OneEach, Ids
  <1>2. VerdictInv'
    BY VerdictsUnchanged DEF BuildChain
  <1>3. Grows
    BY DEF BuildChain, Grows, Ids, nodes, verdicts
  <1>4. PICK o \in PassType :
            /\ o = pass[p] /\ Coherent(o)
            /\ Backed(o, Target[p]) /\ Backed(o, Target[p])'
    BY <1>3, StillBacked
  <1>5. Candidates(o.view) \subseteq EventIds \X EventIds
    BY <1>4 DEF Candidates, PassType, EventIds, Ids
  <1>6. PICK r \in PassType :
            r = [o EXCEPT !.at = "link", !.links = Candidates(o.view)]
    BY <1>5 DEF PassType, Working
  <1>7. pass' = [pass EXCEPT ![p] = r]
    BY <1>4, <1>6 DEF BuildChain, Inv, PassInv
  <1>8. Coherent(r) /\ Backed(r, Target[p])'
    <2>1. /\ r.at = "link" /\ r.view = o.view /\ r.rows = o.rows
          /\ r.reply = o.reply /\ r.links = Candidates(o.view)
      BY <1>6 DEF PassType
    <2>2. \A l \in Candidates(o.view) :
            /\ l[1] \in Ids(o.view) /\ l[2] \in Ids(o.view)
            /\ l[1] # l[2]
      BY DEF Candidates, Ids, MayCause
    <2> QED
      BY <1>4, <2>1, <2>2 DEF BuildChain, Coherent, Backed, Working, Written
  <1> QED
    BY <1>1, <1>2, <1>3, <1>7, <1>8, StepOfPass DEF Inv

\* One candidate of the linker, or none left.
LEMMA LinkCandidateStep ==
    ASSUME Inv, NEW p \in Passes, LinkCandidate(p) PROVE Inv'
  <1>1. caused' \subseteq Ids(events) \X Ids(events)
    <2>1. PICK l : /\ l \in pass[p].links \/ pass[p].links = {}
                   /\ \/ UNCHANGED caused
                      \/ /\ pass[p].links # {}
                         /\ {l[1], l[2]} \subseteq Ids(events)
                         /\ caused' = caused \union {l}
      <3> DEFINE l == CHOOSE l \in pass[p].links : TRUE
      <3>1. l \in pass[p].links \/ pass[p].links = {}
        OBVIOUS
      <3> QED
        BY <3>1 DEF LinkCandidate
    <2>2. pass[p].links \subseteq EventIds \X EventIds
      BY InMemory DEF PassType
    <2> QED
      BY <2>1, <2>2 DEF Inv, GraphInv
  <1>2. GraphInv'
    <2>1. UNCHANGED <<known, events, partOf, precedes, similar, fingerprint,
                      hypotheses, torn>>
      BY DEF LinkCandidate, nodes, verdicts
    <2> QED
      BY <1>1, <2>1 DEF Inv, GraphInv, OneEach, Ids
  <1>3. VerdictInv'
    BY VerdictsUnchanged DEF LinkCandidate
  <1>4. Grows
    BY DEF LinkCandidate, Grows, Ids, nodes, verdicts
  <1>5. CASE Goto(p, "read")
    <2>1. "read" \in Working
      BY DEF Working
    <2>2. PICK o, r \in PassType :
            /\ o = pass[p] /\ Coherent(o) /\ Backed(o, Target[p])'
            /\ pass' = [pass EXCEPT ![p] = r]
            /\ r.at = "read" /\ r.view = o.view /\ r.rows = o.rows
            /\ r.reply = o.reply
      BY <1>4, <1>5, <2>1, MovesOn
    <2>3. Coherent(r) /\ Backed(r, Target[p])'
      BY <2>2 DEF LinkCandidate, Coherent, Backed, Working, Written
    <2> QED
      BY <1>2, <1>3, <1>4, <2>2, <2>3, StepOfPass DEF Inv
  <1>6. ASSUME NEW l, pass' = [pass EXCEPT ![p].links = @ \ {l}]
        PROVE  Inv'
    <2>1. PICK o \in PassType :
            /\ o = pass[p] /\ Coherent(o)
            /\ Backed(o, Target[p]) /\ Backed(o, Target[p])'
      BY <1>4, StillBacked
    <2>2. PICK r \in PassType : r = [o EXCEPT !.links = @ \ {l}]
      BY DEF PassType
    <2>3. pass' = [pass EXCEPT ![p] = r]
      BY <1>6, <2>1, <2>2 DEF Inv, PassInv
    <2>4. /\ r.at = o.at /\ r.view = o.view /\ r.rows = o.rows
          /\ r.reply = o.reply /\ r.links \subseteq o.links
      BY <2>2 DEF PassType
    <2>5. Coherent(r) /\ Backed(r, Target[p])'
      BY <2>1, <2>4 DEF Coherent, Backed
    <2> QED
      BY <1>2, <1>3, <1>4, <2>3, <2>5, StepOfPass DEF Inv
  <1> QED
    BY <1>5, <1>6 DEF LinkCandidate

\* compute_fingerprint, first statement.
LEMMA ReadComponentsStep ==
    ASSUME Inv, NEW p \in Passes, ReadComponents(p) PROVE Inv'
  <1>1. GraphInv' /\ VerdictInv' /\ Grows
    <2>1. torn' \subseteq Incidents
      BY DEF ReadComponents, Inv, GraphInv
    <2> QED
      BY <2>1, NothingWritten DEF ReadComponents
  <1>2. Components(Target[p]) \subseteq Parts
    <2>1. ASSUME NEW id \in Ids(events) PROVE Node(id) \in Observed
      BY DEF Ids, Node, Inv, GraphInv
    <2>2. ASSUME NEW l \in caused
          PROVE  Component(Node(l[1]), Node(l[2])) \in Parts
      <3>1. l[1] \in Ids(events) /\ l[2] \in Ids(events)
        BY DEF Inv, GraphInv
      <3>2. PICK e \in Observed \X Observed : e = <<Node(l[1]), Node(l[2])>>
        BY <2>1, <3>1
      <3> QED
        BY <3>2 DEF Parts
    <2> QED
      BY <2>2 DEF Components
  <1>3. PICK o \in PassType :
            /\ o = pass[p] /\ Coherent(o)
            /\ Backed(o, Target[p]) /\ Backed(o, Target[p])'
    BY <1>1, StillBacked
  <1>4. PICK c \in SUBSET Parts : c = Components(Target[p])
    BY <1>2
  <1>5. PICK r \in PassType : r = [o EXCEPT !.at = "set", !.carried = c]
    BY DEF PassType, Working
  <1>6. pass' = [pass EXCEPT ![p] = r]
    BY <1>3, <1>4, <1>5 DEF ReadComponents, Inv, PassInv
  <1>7. /\ r.at = "set" /\ r.view = o.view /\ r.rows = o.rows
        /\ r.reply = o.reply
    BY <1>5 DEF PassType
  <1>8. Coherent(r) /\ Backed(r, Target[p])'
    BY <1>3, <1>7 DEF ReadComponents, Coherent, Backed, Working, Written
  <1> QED
    BY <1>1, <1>6, <1>8, StepOfPass DEF Inv

\* compute_fingerprint, second statement.
LEMMA SetFingerprintStep ==
    ASSUME Inv, NEW p \in Passes, SetFingerprint(p) PROVE Inv'
  <1>1. GraphInv'
    <2>1. fingerprint' \in [Incidents -> SUBSET Parts]
      BY TargetIn, InMemory DEF SetFingerprint, Inv, GraphInv, PassType
    <2>2. UNCHANGED <<known, events, partOf, precedes, caused, similar,
                      hypotheses, torn>>
      BY DEF SetFingerprint, nodes, edges, verdicts
    <2> QED
      BY <2>1, <2>2 DEF Inv, GraphInv, OneEach, Ids
  <1>2. VerdictInv'
    BY VerdictsUnchanged DEF SetFingerprint
  <1>3. Grows
    BY DEF SetFingerprint, Grows, Ids, nodes, verdicts
  <1>4. PICK o \in PassType :
            /\ o = pass[p] /\ Coherent(o)
            /\ Backed(o, Target[p]) /\ Backed(o, Target[p])'
    BY <1>3, StillBacked
  <1>5. PICK r \in PassType : r = [o EXCEPT !.at = "model", !.carried = {}]
    BY DEF PassType, Working
  <1>6. pass' = [pass EXCEPT ![p] = r]
    BY <1>4, <1>5 DEF SetFingerprint, Inv, PassInv
  <1>7. /\ r.at = "model" /\ r.view = o.view /\ r.rows = o.rows
        /\ r.reply = o.reply
    BY <1>5 DEF PassType
  <1>8. Coherent(r) /\ Backed(r, Target[p])'
    BY <1>4, <1>7 DEF SetFingerprint, Coherent, Backed, Working, Written
  <1> QED
    BY <1>1, <1>2, <1>3, <1>6, <1>8, StepOfPass DEF Inv

\* One statement of write_events, for the events of one type.
LEMMA WriteEventsStep ==
    ASSUME Inv, NEW p \in Passes, WriteEvents(p) PROVE Inv'
  <1>1. PICK o \in PassType :
            /\ o = pass[p] /\ Coherent(o) /\ Backed(o, Target[p])
            /\ o.at = "events"
    <2>1. PICK o \in PassType : o = pass[p]
      BY InMemory
    <2> QED
      BY <2>1, InMemory DEF WriteEvents
  <1>2. PICK batch \in SUBSET o.rows :
            /\ events' = Merge(batch)
            /\ partOf' = partOf \union (Ids(batch) \X {Target[p]})
            /\ pass' = [pass EXCEPT
                    ![p].rows = o.rows \ batch,
                    ![p].at = IF o.rows \ batch = {} THEN "drop" ELSE @]
    BY <1>1 DEF WriteEvents
  <1>3. batch \subseteq Observed /\ OneEach(batch)
    BY <1>1 DEF PassType, Coherent, OneEach
  <1>4. events' \subseteq Observed /\ OneEach(events)'
    BY <1>2, <1>3 DEF Inv, GraphInv, OneEach, Merge, Ids
  <1>5. Ids(events)' = Ids(events) \union Ids(batch)
    BY <1>2 DEF Merge, Ids
  <1>6. GraphInv'
    <2>1. Ids(batch) \subseteq EventIds
      BY <1>3, IdsIn
    <2>2. partOf' \subseteq EventIds \X Incidents
      BY <1>2, <2>1, TargetIn DEF Inv, GraphInv
    <2>3. torn' \subseteq Incidents
      BY TargetIn DEF WriteEvents, Inv, GraphInv
    <2>4. UNCHANGED <<known, precedes, caused, similar, fingerprint, hypotheses>>
      BY DEF WriteEvents, edges, verdicts
    <2> QED
      BY <1>4, <1>5, <2>2, <2>3, <2>4 DEF Inv, GraphInv
  <1>7. VerdictInv'
    BY VerdictsUnchanged DEF WriteEvents
  <1>8. Grows
    BY <1>2, <1>5 DEF WriteEvents, Grows, verdicts
  <1>9. PICK r \in PassType :
            r = [o EXCEPT !.rows = o.rows \ batch,
                          !.at = IF o.rows \ batch = {} THEN "drop" ELSE @]
    BY DEF PassType, Working
  <1>10. pass' = [pass EXCEPT ![p] = r]
    BY <1>1, <1>2, <1>9 DEF Inv, PassInv
  <1>11. /\ r.at = IF o.rows \ batch = {} THEN "drop" ELSE "events"
         /\ r.view = o.view /\ r.rows = o.rows \ batch /\ r.reply = o.reply
    BY <1>1, <1>9 DEF PassType
  <1>12. Coherent(r)
    BY <1>1, <1>11 DEF Coherent, Working
  <1>13. Backed(r, Target[p])'
    <2>1. Ids(o.view \ o.rows) \subseteq Held(Target[p])'
      BY <1>1, <1>8 DEF Backed, Held, PartOf, Grows
    <2>2. Ids(batch) \subseteq Held(Target[p])'
      <3>1. Ids(batch) \subseteq PartOf(Target[p])'
        BY <1>2, <1>3, IdsIn DEF PartOf
      <3> QED
        BY <1>5, <3>1 DEF Held
    <2>3. Ids(o.view \ (o.rows \ batch)) \subseteq Held(Target[p])'
      BY <2>1, <2>2 DEF Ids
    <2>4. o.rows \ batch = {} => Ids(o.view) \subseteq Held(Target[p])'
      BY <2>3
    <2> QED
      BY <1>11, <2>3, <2>4 DEF Backed, Written
  <1> QED
    BY <1>6, <1>7, <1>8, <1>10, <1>12, <1>13, StepOfPass DEF Inv

\* The model's answer, checked against the events it was given, or none.
LEMMA JudgeStep == ASSUME Inv, NEW p \in Passes, Judge(p) PROVE Inv'
  <1>1. GraphInv' /\ VerdictInv' /\ Grows
    <2>1. torn' \subseteq Incidents
      BY DEF Judge, Inv, GraphInv
    <2> QED
      BY <2>1, NothingWritten DEF Judge
  <1>2. PICK o \in PassType :
            /\ o = pass[p] /\ Coherent(o)
            /\ Backed(o, Target[p]) /\ Backed(o, Target[p])'
    BY <1>1, StillBacked
  <1>3. o.at = "model" /\ o.rows = {} /\ o.reply = NoReply
    BY <1>2 DEF Judge, Coherent
  <1>4. CASE Exit(p)
    <2>1. PICK r \in PassType : r = [o EXCEPT !.at = "done", !.view = {}]
      BY DEF PassType
    <2>2. pass' = [pass EXCEPT ![p] = r]
      BY <1>2, <1>4, <2>1 DEF Exit, Inv, PassInv
    <2>3. r.at = "done" /\ r.view = {} /\ r.rows = {} /\ r.reply = NoReply
      BY <1>3, <2>1 DEF PassType
    <2>4. Coherent(r) /\ Backed(r, Target[p])'
      BY <2>3 DEF Coherent, Backed, Working, Written, Sound, NoReply, OneEach
    <2> QED
      BY <1>1, <2>2, <2>4, StepOfPass DEF Inv
  <1>5. ASSUME NEW reply \in ReplyType, Sound(reply),
               reply.supporting \union reply.contradicting \subseteq Ids(o.view),
               NEW s \in {"similar", "hypotheses"}, s = "similar" => reply = NoReply,
               pass' = [pass EXCEPT ![p].at = s, ![p].reply = reply]
        PROVE  Inv'
    <2>1. PICK r \in PassType : r = [o EXCEPT !.at = s, !.reply = reply]
      BY DEF PassType, Working
    <2>2. pass' = [pass EXCEPT ![p] = r]
      BY <1>2, <1>5, <2>1 DEF Inv, PassInv
    <2>3. r.at = s /\ r.view = o.view /\ r.rows = o.rows /\ r.reply = reply
      BY <2>1 DEF PassType
    <2>4. Coherent(r)
      BY <1>2, <1>3, <1>5, <2>3 DEF Coherent, Working
    <2>5. Backed(r, Target[p])'
      BY <1>2, <1>3, <1>5, <2>3 DEF Backed, Written, Working, NoReply
    <2> QED
      BY <1>1, <2>2, <2>4, <2>5, StepOfPass DEF Inv
  <1>6. CASE \E a \in Answers : LET r == Reply(a, pass[p].view) IN
            pass' = [pass EXCEPT
                ![p].at = IF r.supporting = {} THEN "similar" ELSE "hypotheses",
                ![p].reply = IF r.supporting = {} THEN NoReply ELSE r]
    <2>1. PICK a \in Answers : LET r == Reply(a, o.view) IN
            pass' = [pass EXCEPT
                ![p].at = IF r.supporting = {} THEN "similar" ELSE "hypotheses",
                ![p].reply = IF r.supporting = {} THEN NoReply ELSE r]
      BY <1>2, <1>6
    <2>2. Ids(o.view) \subseteq EventIds
      BY IdsIn DEF PassType
    <2>3. PICK r \in ReplyType :
            /\ r = Reply(a, o.view)
            /\ Sound(r)
            /\ r.supporting \union r.contradicting \subseteq Ids(o.view)
      <3>1. Reply(a, o.view) \in ReplyType
        BY <2>2 DEF Reply, ReplyType
      <3>2. PICK r \in ReplyType : r = Reply(a, o.view)
        BY <3>1
      <3>3. /\ r.supporting =
                  (a.supporting \ a.contradicting) \intersect Ids(o.view)
            /\ r.contradicting = a.contradicting \intersect Ids(o.view)
        BY <3>2 DEF Reply
      <3> QED
        BY <3>2, <3>3 DEF Sound
    <2>4. /\ NoReply \in ReplyType /\ Sound(NoReply)
          /\ NoReply.supporting \union NoReply.contradicting = {}
      BY DEF NoReply, ReplyType, Sound
    <2>5. CASE r.supporting = {}
      <3>1. pass' = [pass EXCEPT ![p].at = "similar", ![p].reply = NoReply]
        BY <2>1, <2>3, <2>5
      <3> QED
        BY <1>5, <2>4, <3>1
    <2>6. CASE r.supporting # {}
      <3>1. pass' = [pass EXCEPT ![p].at = "hypotheses", ![p].reply = r]
        BY <2>1, <2>3, <2>6
      <3> QED
        BY <1>5, <2>3, <3>1
    <2> QED
      BY <2>5, <2>6
  <1> QED
    BY <1>4, <1>6 DEF Judge

\* A reply that knows only events the pass was given is about events of the
\* incident.
LEMMA ReplyIsHeld ==
    ASSUME NEW r \in PassType, NEW i \in Incidents, Coherent(r), Backed(r, i),
           r.at \in {"hypotheses", "supports", "contradicts"}
    PROVE  r.reply.supporting \union r.reply.contradicting \subseteq PartOf(i)
  BY DEF Coherent, Backed, Written, Working, Held

\* persist_hypotheses, first statement.
LEMMA MergeHypothesesStep ==
    ASSUME Inv, NEW p \in Passes, MergeHypotheses(p) PROVE Inv'
  <1> DEFINE i == Target[p]
  <1>1. GraphInv'
    <2>1. hypotheses' \subseteq Incidents
      BY TargetIn DEF MergeHypotheses, Inv, GraphInv
    <2> QED
      BY <2>1, GraphUnchanged DEF MergeHypotheses
  <1>2. PICK o \in PassType :
            /\ o = pass[p] /\ Coherent(o) /\ Backed(o, i)
            /\ o.at = "hypotheses"
    <2>1. PICK o \in PassType : o = pass[p]
      BY InMemory
    <2> QED
      BY <2>1, InMemory DEF MergeHypotheses
  <1>3. judged' = [judged EXCEPT ![i] = judged[i] \union {o.reply}]
    BY <1>2 DEF MergeHypotheses
  <1>4. o.reply \in ReplyType /\ Sound(o.reply)
    BY <1>2 DEF PassType, Coherent
  <1>5. judged' \in [Incidents -> SUBSET ReplyType]
    BY <1>3, <1>4, TargetIn DEF Inv, VerdictInv
  <1>6. \A j \in Incidents : judged[j] \subseteq judged'[j]
    BY <1>3, TargetIn DEF Inv, VerdictInv
  <1>7. VerdictInv'
    <2>1. \A j \in Incidents :
            IsFiniteSet(judged'[j]) /\ \A r \in judged'[j] : Sound(r)
      <3>1. IsFiniteSet(judged[i] \union {o.reply})
        BY TargetIn, FS_AddElement DEF Inv, VerdictInv
      <3> QED
        BY <1>3, <1>4, <3>1, TargetIn DEF Inv, VerdictInv
    <2>2. UNCHANGED <<supports, contradicts>>
      BY DEF MergeHypotheses
    <2> QED
      BY <1>5, <1>6, <2>1, <2>2 DEF Inv, VerdictInv, Sound
  <1>8. Grows
    BY <1>6 DEF MergeHypotheses, Grows, Ids, nodes
  <1>9. PICK r \in PassType :
            /\ Backed(o, i)'
            /\ pass' = [pass EXCEPT ![p] = r]
            /\ r.at = "supports" /\ r.view = o.view /\ r.rows = o.rows
            /\ r.reply = o.reply
    <2>1. "supports" \in Working
      BY DEF Working
    <2> QED
      BY <1>2, <1>8, <2>1, MovesOn DEF MergeHypotheses
  <1>10. Coherent(r)
    BY <1>2, <1>9 DEF Coherent, Working
  <1>11. Backed(r, i)'
    <2>1. o.reply \in judged'[i]
      BY <1>3, TargetIn DEF Inv, VerdictInv
    <2> QED
      BY <1>2, <1>9, <2>1 DEF Backed, Written, Working
  <1> QED
    BY <1>1, <1>7, <1>8, <1>9, <1>10, <1>11, StepOfPass DEF Inv

\* persist_hypotheses, second statement.
LEMMA MergeSupportsStep ==
    ASSUME Inv, NEW p \in Passes, MergeSupports(p) PROVE Inv'
  <1> DEFINE i == Target[p]
  <1>1. GraphInv'
    <2>1. hypotheses' \subseteq Incidents
      BY DEF MergeSupports, Inv, GraphInv
    <2> QED
      BY <2>1, GraphUnchanged DEF MergeSupports
  <1>2. PICK o \in PassType :
            /\ o = pass[p] /\ Coherent(o) /\ Backed(o, i)
            /\ o.at = "supports"
    <2>1. PICK o \in PassType : o = pass[p]
      BY InMemory
    <2> QED
      BY <2>1, InMemory DEF MergeSupports
  <1>3. o.reply \in judged[i]
    BY <1>2 DEF Backed
  <1>4. o.reply.supporting \union o.reply.contradicting \subseteq PartOf(i)
    BY <1>2, TargetIn, ReplyIsHeld
  <1>5. supports' = supports \union (o.reply.supporting \X {i})
    BY <1>2, <1>4 DEF MergeSupports, Matched
  <1>6. UNCHANGED <<contradicts, judged>>
    BY DEF MergeSupports
  <1>7. o.reply.supporting \subseteq EventIds
    BY DEF PassType, ReplyType
  <1>8. VerdictInv'
    <2>1. supports' \union contradicts' \subseteq EventIds \X Incidents
      BY <1>5, <1>6, <1>7, TargetIn DEF Inv, VerdictInv
    <2>2. ASSUME NEW j \in Incidents, NEW e \in EventIds, <<e, j>> \in supports'
          PROVE  \E r \in judged[j] : e \in r.supporting
      BY <1>3, <1>5, <2>2 DEF Inv, VerdictInv
    <2> QED
      BY <1>6, <2>1, <2>2 DEF Inv, VerdictInv
  <1>9. Grows
    BY <1>5, <1>6 DEF MergeSupports, Grows, Ids, nodes
  <1>10. PICK r \in PassType :
            /\ Backed(o, i)'
            /\ pass' = [pass EXCEPT ![p] = r]
            /\ r.at = "contradicts" /\ r.view = o.view /\ r.rows = o.rows
            /\ r.reply = o.reply
    <2>1. "contradicts" \in Working
      BY DEF Working
    <2> QED
      BY <1>2, <1>9, <2>1, MovesOn DEF MergeSupports
  <1>11. Coherent(r)
    BY <1>2, <1>10 DEF Coherent, Working
  <1>12. Backed(r, i)'
    BY <1>2, <1>5, <1>10 DEF Backed, Written, Working
  <1> QED
    BY <1>1, <1>8, <1>9, <1>10, <1>11, <1>12, StepOfPass DEF Inv

\* persist_hypotheses, third statement.
LEMMA MergeContradictsStep ==
    ASSUME Inv, NEW p \in Passes, MergeContradicts(p) PROVE Inv'
  <1> DEFINE i == Target[p]
  <1>1. GraphInv'
    <2>1. hypotheses' \subseteq Incidents
      BY DEF MergeContradicts, Inv, GraphInv
    <2> QED
      BY <2>1, GraphUnchanged DEF MergeContradicts
  <1>2. PICK o \in PassType :
            /\ o = pass[p] /\ Coherent(o) /\ Backed(o, i)
            /\ o.at = "contradicts"
    <2>1. PICK o \in PassType : o = pass[p]
      BY InMemory
    <2> QED
      BY <2>1, InMemory DEF MergeContradicts
  <1>3. o.reply \in judged[i]
    BY <1>2 DEF Backed
  <1>4. o.reply.supporting \union o.reply.contradicting \subseteq PartOf(i)
    BY <1>2, TargetIn, ReplyIsHeld
  <1>5. contradicts' = contradicts \union (o.reply.contradicting \X {i})
    BY <1>2, <1>4 DEF MergeContradicts, Matched
  <1>6. UNCHANGED <<supports, judged>>
    BY DEF MergeContradicts
  <1>7. o.reply.contradicting \subseteq EventIds
    BY DEF PassType, ReplyType
  <1>8. VerdictInv'
    <2>1. supports' \union contradicts' \subseteq EventIds \X Incidents
      BY <1>5, <1>6, <1>7, TargetIn DEF Inv, VerdictInv
    <2>2. ASSUME NEW j \in Incidents, NEW e \in EventIds, <<e, j>> \in contradicts'
          PROVE  \E r \in judged[j] : e \in r.contradicting
      BY <1>3, <1>5, <2>2 DEF Inv, VerdictInv
    <2> QED
      BY <1>6, <2>1, <2>2 DEF Inv, VerdictInv
  <1>9. Grows
    BY <1>5, <1>6 DEF MergeContradicts, Grows, Ids, nodes
  <1>10. PICK r \in PassType :
            /\ Backed(o, i)'
            /\ pass' = [pass EXCEPT ![p] = r]
            /\ r.at = "similar" /\ r.view = o.view /\ r.rows = o.rows
            /\ r.reply = o.reply
    <2>1. "similar" \in Working
      BY DEF Working
    <2> QED
      BY <1>2, <1>9, <2>1, MovesOn DEF MergeContradicts
  <1>11. Coherent(r)
    BY <1>2, <1>10 DEF Coherent, Working
  <1>12. Backed(r, i)'
    BY <1>2, <1>5, <1>10 DEF Backed, Written, Working
  <1> QED
    BY <1>1, <1>8, <1>9, <1>10, <1>11, <1>12, StepOfPass DEF Inv

\* Recurrence, and the end of the pass.
LEMMA LinkSimilarStep ==
    ASSUME Inv, NEW p \in Passes, LinkSimilar(p) PROVE Inv'
  <1>1. GraphInv'
    <2>1. SimilarPast(Target[p]) \subseteq Incidents
      BY DEF SimilarPast, Inv, GraphInv
    <2>2. similar' \subseteq Incidents \X Incidents
      BY <2>1, TargetIn DEF LinkSimilar, Inv, GraphInv
    <2>3. UNCHANGED <<known, events, partOf, precedes, caused, fingerprint,
                      hypotheses, torn>>
      BY DEF LinkSimilar, nodes, verdicts
    <2> QED
      BY <2>2, <2>3 DEF Inv, GraphInv, OneEach, Ids
  <1>2. VerdictInv'
    BY VerdictsUnchanged DEF LinkSimilar
  <1>3. Grows
    BY DEF LinkSimilar, Grows, Ids, nodes, verdicts
  <1>4. PICK o \in PassType :
            /\ o = pass[p] /\ Coherent(o)
            /\ Backed(o, Target[p]) /\ Backed(o, Target[p])'
            /\ o.at = "similar"
    <2>1. PICK o \in PassType :
            /\ o = pass[p] /\ Coherent(o)
            /\ Backed(o, Target[p]) /\ Backed(o, Target[p])'
      BY <1>3, StillBacked
    <2> QED
      BY <2>1 DEF LinkSimilar
  <1>5. PICK r \in PassType : r = [o EXCEPT !.at = "done", !.view = {}]
    BY DEF PassType
  <1>6. pass' = [pass EXCEPT ![p] = r]
    BY <1>4, <1>5 DEF LinkSimilar, Exit, Inv, PassInv
  <1>7. r.at = "done" /\ r.view = {} /\ r.rows = o.rows /\ r.reply = o.reply
    BY <1>5 DEF PassType
  <1>8. Coherent(r)
    BY <1>4, <1>7 DEF Coherent, Working, OneEach
  <1>9. Backed(r, Target[p])'
    BY <1>4, <1>7 DEF Backed, Written, Working
  <1> QED
    BY <1>1, <1>2, <1>3, <1>6, <1>8, <1>9, StepOfPass DEF Inv

----------------------------------------------------------------------------
\* In the beginning the graph is empty and nobody is at work.
LEMMA InitInv == Init => Inv
  <1> SUFFICES ASSUME Init PROVE Inv
    OBVIOUS
  <1>1. GraphInv
    BY DEF Init, GraphInv, OneEach
  <1>2. VerdictInv
    BY FS_EmptySet DEF Init, VerdictInv
  <1>3. Fresh \in PassType
    BY DEF Fresh, PassType, Working, NoReply, ReplyType
  <1>4. \A i \in Incidents : Coherent(Fresh) /\ Backed(Fresh, i)
    BY DEF Fresh, Coherent, Backed, Working, Written, Sound, NoReply, OneEach
  <1>5. PassInv
    BY <1>3, <1>4, TargetIn DEF Init, PassInv
  <1> QED
    BY <1>1, <1>2, <1>5 DEF Inv

\* Inv is inductive.
LEMMA NextInv == Inv /\ [Next]_vars => Inv'
  <1>1. ASSUME Inv, NEW p \in Passes, Start(p) PROVE Inv'
    BY <1>1, StartStep
  <1>2. ASSUME Inv, NEW p \in Passes, ReadTimeline(p) PROVE Inv'
    BY <1>2, ReadTimelineStep
  <1>3. ASSUME Inv, NEW p \in Passes, WriteEvidence(p) PROVE Inv'
    BY <1>3, UpsertIncidentStep, WriteEventsStep, DropChainStep, BuildChainStep,
       LinkCandidateStep, ReadComponentsStep, SetFingerprintStep DEF WriteEvidence
  <1>4. ASSUME Inv, NEW p \in Passes, Judge(p) PROVE Inv'
    BY <1>4, JudgeStep
  <1>5. ASSUME Inv, NEW p \in Passes, WriteReasoning(p) PROVE Inv'
    BY <1>5, MergeHypothesesStep, MergeSupportsStep, MergeContradictsStep,
       LinkSimilarStep DEF WriteReasoning
  <1>6. ASSUME Inv, NEW p \in Passes, Crash(p) PROVE Inv'
    BY <1>6, CrashStep
  <1>7. ASSUME Inv, UNCHANGED vars PROVE Inv'
    <2>1. UNCHANGED <<nodes, edges, fingerprint, verdicts, pass, torn>>
      BY <1>7 DEF vars
    <2>2. GraphInv' /\ VerdictInv' /\ Grows
      <3>1. torn' \subseteq Incidents
        BY <1>7, <2>1 DEF Inv, GraphInv
      <3> QED
        BY <1>7, <2>1, <3>1, NothingWritten
    <2>3. PassInv'
      <3>1. ASSUME NEW q \in Passes
            PROVE  Coherent(pass[q])' /\ Backed(pass[q], Target[q])'
        <4>1. PICK o \in PassType :
                /\ o = pass[q] /\ Coherent(o)
                /\ Backed(o, Target[q]) /\ Backed(o, Target[q])'
          BY <1>7, <2>2, StillBacked
        <4> QED
          BY <2>1, <4>1 DEF Coherent, Backed
      <3> QED
        BY <1>7, <2>1, <3>1 DEF Inv, PassInv
    <2> QED
      BY <2>2, <2>3 DEF Inv
  <1> QED
    BY <1>1, <1>2, <1>3, <1>4, <1>5, <1>6, <1>7 DEF Next

\* It holds throughout.
LEMMA Invariance == Spec => []Inv
  BY InitInv, NextInv, PTL DEF Spec

\* No evidence for or against a hypothesis is dropped on its way to the graph.
THEOREM NoVerdictIsDropped == Spec => []VerdictsAreStored
  <1>1. Inv => VerdictsAreStored
    BY InMemory DEF VerdictsAreStored, Backed
  <1> QED
    BY <1>1, Invariance, PTL

\* An event on both sides of a hypothesis tells of more than one judgement.
THEOREM BothSidesNeedTwoJudgements == Spec => []BothSidesOnlyAfterRerun
  <1>1. Inv => BothSidesOnlyAfterRerun
    <2> SUFFICES ASSUME Inv, NEW i \in Incidents, Cardinality(judged[i]) <= 1,
                        NEW e \in EventIds,
                        <<e, i>> \in supports, <<e, i>> \in contradicts
                 PROVE  FALSE
      BY DEF BothSidesOnlyAfterRerun
    <2>1. PICK r \in judged[i] : e \in r.supporting
      BY DEF Inv, VerdictInv
    <2>2. PICK s \in judged[i] : e \in s.contradicting
      BY DEF Inv, VerdictInv
    <2>3. r = s
      <3>1. {r, s} \subseteq judged[i] /\ IsFiniteSet(judged[i])
        BY DEF Inv, VerdictInv
      <3>2. IsFiniteSet({r, s}) /\ Cardinality({r, s}) <= Cardinality(judged[i])
        BY <3>1, FS_Subset
      <3>3. Cardinality({r, s}) \in Nat /\ Cardinality(judged[i]) \in Nat
        BY <3>1, <3>2, FS_CardinalityType
      <3>4. Cardinality({r, s}) <= 1
        BY <3>2, <3>3
      <3>5. ASSUME r # s PROVE FALSE
        <4>1. IsFiniteSet({s}) /\ Cardinality({s}) = 1
          BY FS_Singleton
        <4>2. Cardinality({s} \union {r}) = Cardinality({s}) + 1
          BY <3>5, <4>1, FS_AddElement
        <4>3. {s} \union {r} = {r, s}
          OBVIOUS
        <4> QED
          BY <3>4, <4>1, <4>2, <4>3
      <3> QED
        BY <3>5
    <2>4. Sound(r)
      BY DEF Inv, VerdictInv
    <2> QED
      BY <2>1, <2>2, <2>3, <2>4 DEF Sound
  <1> QED
    BY <1>1, Invariance, PTL

----------------------------------------------------------------------------
(* Attributes, which only add up.                                          *)

AttributesInv ==
    /\ DOMAIN attributes = EventIds
    /\ \A e \in events : e.attrs \subseteq attributes[e.id]
    /\ \A id \in EventIds : \A n \in attributes[id] :
        \E o \in Observed : o.id = id /\ n \in o.attrs

\* Only write_events touches nodes.
LEMMA NodesStay ==
    ASSUME Inv, [Next]_vars, \A p \in Passes : ~WriteEvents(p)
    PROVE  UNCHANGED <<events, attributes, partOf>>
  <1>1. ASSUME NEW p \in Passes, WriteEvidence(p)
        PROVE  UNCHANGED <<events, attributes, partOf>>
    BY <1>1 DEF WriteEvidence, UpsertIncident, DropChain, BuildChain, LinkCandidate,
        ReadComponents, SetFingerprint, nodes
  <1>2. ASSUME NEW p \in Passes,
               \/ Start(p) \/ ReadTimeline(p) \/ Judge(p) \/ Crash(p)
               \/ WriteReasoning(p)
        PROVE  UNCHANGED <<events, attributes, partOf>>
    BY <1>2 DEF Start, ReadTimeline, Judge, Crash, WriteReasoning, MergeHypotheses,
        MergeSupports, MergeContradicts, LinkSimilar, nodes
  <1>3. CASE UNCHANGED vars
    BY <1>3 DEF vars, nodes
  <1> QED
    BY <1>1, <1>2, <1>3 DEF Next

\* A rewrite keeps the attributes a node has and adds those of the row.
LEMMA AttributesStep ==
    ASSUME Inv, AttributesInv, [Next]_vars PROVE AttributesInv'
  <1>1. ASSUME NEW p \in Passes, WriteEvents(p) PROVE AttributesInv'
    <2>1. PICK batch \in SUBSET pass[p].rows :
            events' = Merge(batch) /\ attributes' = AddAttributes(batch)
      BY <1>1 DEF WriteEvents
    <2>2. batch \subseteq Observed /\ Ids(batch) \subseteq EventIds
      <3>1. batch \subseteq Observed
        BY InMemory DEF PassType
      <3> QED
        BY <3>1, IdsIn
    <2>3. /\ DOMAIN attributes' = EventIds
          /\ \A id \in EventIds : attributes'[id] =
                attributes[id] \union UNION {r.attrs : r \in {r \in batch : r.id = id}}
      BY <2>1 DEF AddAttributes
    <2>4. ASSUME NEW e \in events' PROVE e.attrs \subseteq attributes'[e.id]
      <3>1. CASE e \in batch
        <4>1. e.id \in EventIds
          BY <2>2, <3>1 DEF Ids
        <4> QED
          BY <2>3, <3>1, <4>1
      <3>2. CASE e \in events
        <4>1. e.id \in EventIds
          BY <3>2, IdsIn DEF Ids, Inv, GraphInv
        <4> QED
          BY <2>3, <3>2, <4>1 DEF AttributesInv
      <3> QED
        BY <2>1, <3>1, <3>2 DEF Merge
    <2>5. ASSUME NEW id \in EventIds, NEW n \in attributes'[id]
          PROVE  \E o \in Observed : o.id = id /\ n \in o.attrs
      <3>1. CASE n \in attributes[id]
        BY <3>1 DEF AttributesInv
      <3>2. CASE \E o \in batch : o.id = id /\ n \in o.attrs
        BY <2>2, <3>2
      <3> QED
        BY <2>3, <3>1, <3>2
    <2> QED
      BY <2>3, <2>4, <2>5 DEF AttributesInv
  <1>2. CASE \A p \in Passes : ~WriteEvents(p)
    BY <1>2, NodesStay DEF AttributesInv
  <1> QED
    BY <1>1, <1>2

\* Attributes are as they should be throughout.
LEMMA AttributesInvariance == Spec => []AttributesInv
  <1>1. Init => AttributesInv
    BY DEF Init, AttributesInv
  <1>2. Inv /\ AttributesInv /\ [Next]_vars => AttributesInv'
    BY AttributesStep
  <1> QED
    BY <1>1, <1>2, Invariance, PTL DEF Spec

\* Whatever is rewritten, an id has one node, as one collection saw it, with
\* the attributes of that collection and none that nobody saw.
THEOREM NodesAreObservations == Spec => []StoredAsObserved
  <1>1. Inv /\ AttributesInv => StoredAsObserved
    <2> SUFFICES ASSUME Inv, AttributesInv PROVE StoredAsObserved
      OBVIOUS
    <2>1. Ids(events) \subseteq EventIds
      BY IdsIn DEF Inv, GraphInv
    <2>2. \A e \in events : e.id \in EventIds
      BY <2>1 DEF Ids
    <2> QED
      BY <2>2 DEF Inv, GraphInv, OneEach, AttributesInv, StoredAsObserved
  <1> QED
    BY <1>1, Invariance, AttributesInvariance, PTL

----------------------------------------------------------------------------
(* Recurrence: what two incidents share by their fingerprints, they share  *)
(* by their evidence, and go on sharing.                                   *)

\* What the components of an incident come from is never taken away.
Accumulates ==
    /\ Ids(events) \subseteq Ids(events')
    /\ partOf \subseteq partOf'
    /\ caused \subseteq caused'

\* Fingerprints, in the graph or in a pod, never claim too much.
Justified ==
    /\ \A i \in Incidents : fingerprint[i] \subseteq Components(i)
    /\ \A p \in Passes : pass[p].carried \subseteq Components(Target[p])
    /\ SimilarIsJustified

\* Every step accumulates.
LEMMA NextAccumulates == ASSUME Inv, [Next]_vars PROVE Accumulates
  <1>1. ASSUME NEW p \in Passes, WriteEvents(p) PROVE Accumulates
    <2>1. PICK batch :
            /\ events' = Merge(batch)
            /\ partOf' = partOf \union (Ids(batch) \X {Target[p]})
      BY <1>1 DEF WriteEvents
    <2>2. UNCHANGED caused
      BY <1>1 DEF WriteEvents, edges
    <2> QED
      BY <2>1, <2>2 DEF Accumulates, Merge, Ids
  <1>2. ASSUME NEW p \in Passes, WriteEvidence(p) PROVE Accumulates
    <2>1. CASE UpsertIncident(p)
      BY <2>1 DEF UpsertIncident, Accumulates, Ids, edges
    <2>2. CASE DropChain(p) \/ BuildChain(p) \/ LinkCandidate(p)
      BY <2>2 DEF DropChain, BuildChain, LinkCandidate, Accumulates, Ids, nodes
    <2>3. CASE ReadComponents(p) \/ SetFingerprint(p)
      BY <2>3 DEF ReadComponents, SetFingerprint, Accumulates, Ids, nodes, edges
    <2> QED
      BY <1>1, <1>2, <2>1, <2>2, <2>3 DEF WriteEvidence
  <1>3. ASSUME NEW p \in Passes,
               Start(p) \/ ReadTimeline(p) \/ Judge(p) \/ Crash(p)
        PROVE  Accumulates
    BY <1>3 DEF Start, ReadTimeline, Judge, Crash, Accumulates, Ids, nodes, edges
  <1>4. ASSUME NEW p \in Passes, WriteReasoning(p) PROVE Accumulates
    BY <1>4 DEF WriteReasoning, MergeHypotheses, MergeSupports, MergeContradicts,
        LinkSimilar, Accumulates, Ids, nodes, edges
  <1>5. CASE UNCHANGED vars
    BY <1>5 DEF vars, nodes, edges, Accumulates, Ids
  <1> QED
    BY <1>2, <1>3, <1>4, <1>5 DEF Next

\* A fingerprint is set to one that a pass of the incident carries.
LEMMA NextFingerprint ==
    ASSUME Inv, [Next]_vars, NEW i \in Incidents
    PROVE  \/ fingerprint'[i] = fingerprint[i]
           \/ \E p \in Passes : Target[p] = i /\ fingerprint'[i] = pass[p].carried
  <1>1. ASSUME NEW p \in Passes, UpsertIncident(p) \/ SetFingerprint(p)
        PROVE  \/ fingerprint'[i] = fingerprint[i]
               \/ Target[p] = i /\ fingerprint'[i] = pass[p].carried
    BY <1>1, TargetIn DEF UpsertIncident, SetFingerprint, Inv, GraphInv
  <1>2. ASSUME NEW p \in Passes, WriteEvidence(p) PROVE
            \/ UpsertIncident(p) \/ SetFingerprint(p)
            \/ fingerprint' = fingerprint
    BY <1>2 DEF WriteEvidence, WriteEvents, DropChain, BuildChain, LinkCandidate,
        ReadComponents
  <1>3. ASSUME NEW p \in Passes,
               \/ Start(p) \/ ReadTimeline(p) \/ Judge(p) \/ Crash(p)
               \/ WriteReasoning(p)
        PROVE  fingerprint' = fingerprint
    BY <1>3 DEF Start, ReadTimeline, Judge, Crash, WriteReasoning, MergeHypotheses,
        MergeSupports, MergeContradicts, LinkSimilar
  <1>4. CASE UNCHANGED vars
    BY <1>4 DEF vars
  <1> QED
    BY <1>1, <1>2, <1>3, <1>4 DEF Next

\* What a pass carries it took from the graph.
LEMMA NextCarried ==
    ASSUME Inv, [Next]_vars, NEW q \in Passes
    PROVE  pass'[q].carried \in
              {pass[q].carried, {}, fingerprint[Target[q]], Components(Target[q])}
  <1> DEFINE may == {pass[q].carried, {}, fingerprint[Target[q]], Components(Target[q])}
  <1>1. pass \in [Passes -> PassType] /\ pass[q] \in PassType
    BY DEF Inv, PassInv
  <1>2. ASSUME NEW p \in Passes, Start(p) PROVE pass'[q].carried \in may
    <2>1. ASSUME NEW r, r.carried \in {{}, fingerprint[Target[p]]},
                 pass' = [pass EXCEPT ![p] = r]
          PROVE  pass'[q].carried \in may
      BY <1>1, <2>1
    <2>2. ASSUME NEW v, NEW died,
                 pass' = [pass EXCEPT ![p] =
                    [Fresh EXCEPT !.at = "incident", !.view = v, !.rows = v,
                                  !.died = died]]
          PROVE  pass'[q].carried \in may
      <3>1. [Fresh EXCEPT !.at = "incident", !.view = v, !.rows = v,
                          !.died = died].carried = {}
        BY DEF Fresh
      <3> QED
        BY <2>1, <2>2, <3>1
    <2>3. ASSUME NEW c, c = fingerprint[Target[p]], NEW died,
                 pass' = [pass EXCEPT ![p] =
                    [Fresh EXCEPT !.at = "timeline", !.carried = c, !.died = died]]
          PROVE  pass'[q].carried \in may
      <3>1. [Fresh EXCEPT !.at = "timeline", !.carried = c, !.died = died].carried = c
        BY DEF Fresh
      <3> QED
        BY <2>1, <2>3, <3>1
    <2> QED
      BY <1>2, <2>2, <2>3 DEF Start
  <1>3. ASSUME NEW p \in Passes, Crash(p) PROVE pass'[q].carried \in may
    BY <1>1, <1>3 DEF Crash, Fresh, PassType
  <1>4. ASSUME NEW p \in Passes, ReadTimeline(p) \/ Judge(p)
        PROVE  pass'[q].carried = pass[q].carried
    <2>1. CASE ReadTimeline(p)
      <3>1. PICK at, v :
              pass' = [pass EXCEPT ![p].at = at, ![p].view = v, ![p].rows = v]
        BY <2>1 DEF ReadTimeline
      <3> QED
        BY <1>1, <3>1 DEF PassType
    <2>2. CASE Judge(p)
      <3>1. CASE Exit(p)
        BY <1>1, <3>1 DEF Exit, PassType
      <3>2. ASSUME NEW at, NEW reply,
                   pass' = [pass EXCEPT ![p].at = at, ![p].reply = reply]
            PROVE  pass'[q].carried = pass[q].carried
        BY <1>1, <3>2 DEF PassType
      <3> QED
        BY <2>2, <3>1, <3>2 DEF Judge
    <2> QED
      BY <1>4, <2>1, <2>2
  <1>5. ASSUME NEW p \in Passes, ReadComponents(p) \/ SetFingerprint(p)
        PROVE  pass'[q].carried \in may
    <2>1. CASE ReadComponents(p)
      <3>1. PICK c : /\ c = Components(Target[p])
                     /\ pass' = [pass EXCEPT ![p].at = "set", ![p].carried = c]
        BY <2>1 DEF ReadComponents
      <3> QED
        BY <1>1, <3>1 DEF PassType
    <2>2. CASE SetFingerprint(p)
      BY <1>1, <2>2 DEF SetFingerprint, PassType
    <2> QED
      BY <1>5, <2>1, <2>2
  <1>6. ASSUME NEW p \in Passes, UpsertIncident(p) \/ WriteEvents(p) \/ DropChain(p)
                                \/ BuildChain(p) \/ LinkCandidate(p)
        PROVE  pass'[q].carried = pass[q].carried
    <2>1. CASE UpsertIncident(p) \/ DropChain(p)
      BY <1>1, <2>1 DEF UpsertIncident, DropChain, Goto, PassType
    <2>2. CASE WriteEvents(p)
      <3>1. PICK rows, at : pass' = [pass EXCEPT ![p].rows = rows, ![p].at = at]
        BY <2>2 DEF WriteEvents
      <3> QED
        BY <1>1, <3>1 DEF PassType
    <2>3. CASE BuildChain(p)
      <3>1. PICK links : pass' = [pass EXCEPT ![p].at = "link", ![p].links = links]
        BY <2>3 DEF BuildChain
      <3> QED
        BY <1>1, <3>1 DEF PassType
    <2>4. CASE LinkCandidate(p)
      <3>1. CASE Goto(p, "read")
        BY <1>1, <3>1 DEF Goto, PassType
      <3>2. ASSUME NEW l, pass' = [pass EXCEPT ![p].links = @ \ {l}]
            PROVE  pass'[q].carried = pass[q].carried
        BY <1>1, <3>2 DEF PassType
      <3> QED
        BY <2>4, <3>1, <3>2 DEF LinkCandidate
    <2> QED
      BY <1>6, <2>1, <2>2, <2>3, <2>4
  <1>7. ASSUME NEW p \in Passes, WriteReasoning(p)
        PROVE  pass'[q].carried = pass[q].carried
    BY <1>1, <1>7 DEF WriteReasoning, MergeHypotheses, MergeSupports,
        MergeContradicts, LinkSimilar, Goto, Exit, PassType
  <1>8. CASE UNCHANGED vars
    BY <1>8 DEF vars
  <1> QED
    BY <1>2, <1>3, <1>4, <1>5, <1>6, <1>7, <1>8 DEF Next, WriteEvidence

\* Recurrence is claimed only by comparing fingerprints.
LEMMA NextSimilar ==
    ASSUME Inv, [Next]_vars, NEW i \in Incidents, NEW past \in Incidents,
           <<i, past>> \in similar', <<i, past>> \notin similar
    PROVE  past \in SimilarPast(i)
  <1>1. ASSUME NEW p \in Passes, LinkSimilar(p) PROVE past \in SimilarPast(i)
    <2>1. <<i, past>> \in {Target[p]} \X SimilarPast(Target[p])
      BY <1>1 DEF LinkSimilar
    <2> QED
      BY <2>1
  <1>2. ASSUME NEW p \in Passes, WriteEvidence(p) PROVE similar' = similar
    BY <1>2 DEF WriteEvidence, UpsertIncident, WriteEvents, DropChain, BuildChain,
        LinkCandidate, ReadComponents, SetFingerprint, edges
  <1>3. ASSUME NEW p \in Passes,
               Start(p) \/ ReadTimeline(p) \/ Judge(p) \/ Crash(p)
        PROVE  similar' = similar
    BY <1>3 DEF Start, ReadTimeline, Judge, Crash, edges
  <1>4. ASSUME NEW p \in Passes, WriteReasoning(p)
        PROVE  LinkSimilar(p) \/ similar' = similar
    BY <1>4 DEF WriteReasoning, MergeHypotheses, MergeSupports, MergeContradicts,
        edges
  <1>5. ~UNCHANGED vars
    BY DEF vars, edges
  <1> QED
    BY <1>1, <1>2, <1>3, <1>4, <1>5 DEF Next

\* A rewrite keeps the type and the symptom of a node.
LEMMA SameNode ==
    ASSUME Inv, Inv', Accumulates, NEW id \in Ids(events)
    PROVE  Node(id).type = Node(id)'.type /\ Node(id).symptom = Node(id)'.symptom
  <1>1. Node(id) \in Observed /\ Node(id).id = id
    BY DEF Inv, GraphInv, Node, Ids
  <1>2. id \in Ids(events)'
    BY DEF Accumulates, Ids
  <1>3. Node(id)' \in Observed /\ Node(id)'.id = id
    BY <1>2 DEF Inv, GraphInv, Node, Ids
  <1> QED
    BY <1>1, <1>3, ObservedAssumption

\* Whatever is added, the components of an incident stay.
LEMMA ComponentsStay ==
    ASSUME Inv, Inv', Accumulates, NEW i \in Incidents
    PROVE  Components(i) \subseteq Components(i)'
  <1>1. ASSUME NEW l \in caused, l[1] \in PartOf(i), l[2] \in PartOf(i)
        PROVE  Component(Node(l[1]), Node(l[2])) \in Components(i)'
    <2>1. l[1] \in Ids(events) /\ l[2] \in Ids(events)
      BY DEF Inv, GraphInv
    <2>2. Component(Node(l[1]), Node(l[2])) = Component(Node(l[1]), Node(l[2]))'
      BY <2>1, SameNode DEF Component
    <2>3. l \in caused' /\ l[1] \in PartOf(i)' /\ l[2] \in PartOf(i)'
      BY <1>1 DEF Accumulates, PartOf
    <2> QED
      BY <2>2, <2>3 DEF Components
  <1> QED
    BY <1>1 DEF Components

\* There are finitely many components.
LEMMA PartsFinite == IsFiniteSet(Parts)
  <1>1. IsFiniteSet(Observed \X Observed)
    BY ObservedAssumption, FS_Product
  <1> DEFINE f == [e \in Observed \X Observed |-> Component(e[1], e[2])]
  <1>2. f \in Surjection(Observed \X Observed, Parts)
    BY DEF Surjection, Parts
  <1> QED
    BY <1>1, <1>2, FS_Surjection

\* Sharing more is sharing enough.
LEMMA MoreShared ==
    ASSUME NEW A \in SUBSET Parts, NEW B \in SUBSET A, Cardinality(B) >= MinShared
    PROVE  Cardinality(A) >= MinShared
  <1>1. IsFiniteSet(A)
    BY PartsFinite, FS_Subset
  <1>2. IsFiniteSet(B) /\ Cardinality(B) <= Cardinality(A)
    BY <1>1, FS_Subset
  <1>3. Cardinality(A) \in Nat /\ Cardinality(B) \in Nat /\ MinShared \in Nat
    BY <1>1, <1>2, FS_CardinalityType, BoundsAssumption
  <1> QED
    BY <1>2, <1>3

\* The components of an incident are some.
LEMMA ComponentsIn == ASSUME Inv, NEW i \in Incidents PROVE Components(i) \subseteq Parts
  <1>1. ASSUME NEW l \in caused
        PROVE  Component(Node(l[1]), Node(l[2])) \in Parts
    <2>1. l[1] \in Ids(events) /\ l[2] \in Ids(events)
      BY DEF Inv, GraphInv
    <2>2. Node(l[1]) \in Observed /\ Node(l[2]) \in Observed
      BY <2>1 DEF Inv, GraphInv, Node, Ids
    <2>3. PICK e \in Observed \X Observed : e = <<Node(l[1]), Node(l[2])>>
      BY <2>2
    <2> QED
      BY <2>3 DEF Parts
  <1> QED
    BY <1>1 DEF Components

\* Fingerprints stay justified.
LEMMA JustifiedStep ==
    ASSUME Inv, Inv', Justified, [Next]_vars PROVE Justified'
  <1>1. ASSUME NEW i \in Incidents PROVE Components(i) \subseteq Components(i)'
    BY <1>1, NextAccumulates, ComponentsStay
  <1>2. ASSUME NEW i \in Incidents PROVE fingerprint'[i] \subseteq Components(i)'
    <2>1. fingerprint'[i] \subseteq Components(i)
      BY NextFingerprint DEF Justified
    <2> QED
      BY <1>1, <2>1
  <1>3. ASSUME NEW p \in Passes PROVE pass'[p].carried \subseteq Components(Target[p])'
    <2>1. pass'[p].carried \subseteq Components(Target[p])
      BY NextCarried, TargetIn DEF Justified
    <2> QED
      BY <1>1, <2>1, TargetIn
  <1>4. ASSUME NEW i \in Incidents, NEW past \in Incidents, <<i, past>> \in similar'
        PROVE  /\ Span[past].end < Span[i].start
               /\ Cardinality(Components(i)' \intersect Components(past)') >= MinShared
    <2>1. /\ Span[past].end < Span[i].start
          /\ Cardinality(Components(i) \intersect Components(past)) >= MinShared
      <3>1. CASE <<i, past>> \in similar
        BY <3>1 DEF Justified, SimilarIsJustified
      <3>2. CASE <<i, past>> \notin similar
        <4>1. past \in SimilarPast(i)
          BY <1>4, <3>2, NextSimilar
        <4>2. Cardinality(fingerprint[i] \intersect fingerprint[past]) >= MinShared
          BY <4>1 DEF SimilarPast, Shared
        <4>3. fingerprint[i] \intersect fingerprint[past]
                  \subseteq Components(i) \intersect Components(past)
          BY DEF Justified
        <4>4. Components(i) \intersect Components(past) \subseteq Parts
          BY ComponentsIn
        <4> QED
          BY <4>1, <4>2, <4>3, <4>4, MoreShared DEF SimilarPast
      <3> QED
        BY <3>1, <3>2
    <2>2. Components(i) \intersect Components(past)
              \subseteq Components(i)' \intersect Components(past)'
      BY <1>1
    <2>3. Components(i)' \intersect Components(past)' \subseteq Parts
      <3>1. Components(i)' \subseteq Parts
        <4>1. ASSUME NEW l \in caused'
              PROVE  Component(Node(l[1]), Node(l[2]))' \in Parts
          <5>1. l[1] \in Ids(events)' /\ l[2] \in Ids(events)'
            BY DEF Inv, GraphInv
          <5>2. Node(l[1])' \in Observed /\ Node(l[2])' \in Observed
            BY <5>1 DEF Inv, GraphInv, Node, Ids
          <5>3. PICK e \in Observed \X Observed : e = <<Node(l[1])', Node(l[2])'>>
            BY <5>2
          <5> QED
            BY <5>3 DEF Parts, Component
        <4> QED
          BY <4>1 DEF Components
      <3> QED
        BY <3>1
    <2> QED
      BY <2>1, <2>2, <2>3, MoreShared
  <1> QED
    BY <1>2, <1>3, <1>4 DEF Justified, SimilarIsJustified

\* Recurrence is never claimed of incidents whose evidence does not show it.
THEOREM RecurrenceIsJustified == Spec => []SimilarIsJustified
  <1>1. Init => Justified
    BY TargetIn DEF Init, Justified, SimilarIsJustified, Fresh
  <1>2. Inv /\ Inv' /\ Justified /\ [Next]_vars => Justified'
    BY JustifiedStep
  <1>3. Justified => SimilarIsJustified
    BY DEF Justified
  <1> QED
    BY <1>1, <1>2, <1>3, Invariance, PTL DEF Spec

----------------------------------------------------------------------------
(* What the model is given and what becomes of it.                         *)

\* Every edge of a candidate lies within an incident, every verdict is about
\* an event of its incident.
GivenInv ==
    /\ \A l \in caused : WithinOne(l)
    /\ supports \union contradicts \subseteq partOf

\* A new edge joins two events the pass has in memory.
LEMMA NewEdge ==
    ASSUME NEW p \in Passes, LinkCandidate(p), NEW l \in caused', l \notin caused
    PROVE  l \in pass[p].links
  <1>1. PICK c : /\ c \in pass[p].links \/ pass[p].links = {}
                 /\ \/ UNCHANGED caused
                    \/ pass[p].links # {} /\ caused' = caused \union {c}
    <2> DEFINE c == CHOOSE c \in pass[p].links : TRUE
    <2>1. c \in pass[p].links \/ pass[p].links = {}
      OBVIOUS
    <2> QED
      BY <2>1 DEF LinkCandidate
  <1> QED
    BY <1>1

\* An edge is new by such a statement only.
LEMMA NextCaused ==
    ASSUME Inv, [Next]_vars, NEW l \in caused', l \notin caused
    PROVE  \E p \in Passes : LinkCandidate(p) /\ l \in pass[p].links
  <1>1. ASSUME NEW p \in Passes, LinkCandidate(p) PROVE l \in pass[p].links
    BY <1>1, NewEdge
  <1>2. ASSUME NEW p \in Passes, WriteEvidence(p), ~LinkCandidate(p)
        PROVE  caused' = caused
    BY <1>2 DEF WriteEvidence, UpsertIncident, WriteEvents, DropChain, BuildChain,
        ReadComponents, SetFingerprint, edges
  <1>3. ASSUME NEW p \in Passes,
               \/ Start(p) \/ ReadTimeline(p) \/ Judge(p) \/ Crash(p)
               \/ WriteReasoning(p)
        PROVE  caused' = caused
    BY <1>3 DEF Start, ReadTimeline, Judge, Crash, WriteReasoning, MergeHypotheses,
        MergeSupports, MergeContradicts, LinkSimilar, edges
  <1>4. ~UNCHANGED vars
    BY DEF vars, edges
  <1> QED
    BY <1>1, <1>2, <1>3, <1>4 DEF Next

\* A new verdict is about an event MATCH found in the incident.
LEMMA NextVerdict ==
    ASSUME Inv, [Next]_vars, NEW v \in supports' \union contradicts',
           v \notin supports \union contradicts
    PROVE  v \in partOf
  <1>1. ASSUME NEW p \in Passes, NEW ids PROVE Matched(p, ids) \subseteq partOf
    BY DEF Matched, PartOf
  <1>2. ASSUME NEW p \in Passes, WriteReasoning(p) PROVE v \in partOf
    <2>1. CASE MergeSupports(p) \/ MergeContradicts(p)
      BY <1>1, <2>1 DEF MergeSupports, MergeContradicts
    <2>2. CASE MergeHypotheses(p) \/ LinkSimilar(p)
      BY <2>2 DEF MergeHypotheses, LinkSimilar, verdicts
    <2> QED
      BY <1>2, <2>1, <2>2 DEF WriteReasoning
  <1>3. ASSUME NEW p \in Passes,
               \/ Start(p) \/ ReadTimeline(p) \/ Judge(p) \/ Crash(p)
               \/ WriteEvidence(p)
        PROVE  UNCHANGED <<supports, contradicts>>
    BY <1>3 DEF Start, ReadTimeline, Judge, Crash, WriteEvidence, UpsertIncident,
        WriteEvents, DropChain, BuildChain, LinkCandidate, ReadComponents,
        SetFingerprint, verdicts
  <1>4. ~UNCHANGED vars
    BY DEF vars, verdicts
  <1> QED
    BY <1>2, <1>3, <1>4 DEF Next

\* Every step keeps edges and verdicts within their incidents.
LEMMA GivenStep == ASSUME Inv, GivenInv, [Next]_vars PROVE GivenInv'
  <1>1. partOf \subseteq partOf'
    BY NextAccumulates DEF Accumulates
  <1>2. ASSUME NEW l, WithinOne(l) PROVE WithinOne(l)'
    BY <1>1, <1>2 DEF WithinOne, PartOf
  <1>3. ASSUME NEW l \in caused' PROVE WithinOne(l)'
    <2>1. CASE l \in caused
      BY <1>2, <2>1 DEF GivenInv
    <2>2. CASE l \notin caused
      <3>1. PICK p \in Passes : LinkCandidate(p) /\ l \in pass[p].links
        BY <2>2, NextCaused
      <3>2. pass[p].at = "link"
        BY <3>1 DEF LinkCandidate
      <3>3. l[1] \in Ids(pass[p].view) /\ l[2] \in Ids(pass[p].view)
        BY <3>1, <3>2, InMemory DEF Coherent
      <3>4. Ids(pass[p].view) \subseteq PartOf(Target[p])
        BY <3>2, InMemory DEF Backed, Held, Written, Working
      <3>5. WithinOne(l)
        BY <3>3, <3>4, TargetIn DEF WithinOne
      <3> QED
        BY <1>2, <3>5
    <2> QED
      BY <2>1, <2>2
  <1>4. supports' \union contradicts' \subseteq partOf'
    BY <1>1, NextVerdict DEF GivenInv
  <1> QED
    BY <1>3, <1>4 DEF GivenInv

\* What the model is given can be cited: events in memory are the incident's,
\* chains are whole and within an incident, though not always this one; and
\* no foreign event gets into a verdict.
THEOREM EvidenceResolves == Spec => []GivenEvidenceResolves
  <1>1. Init => GivenInv
    BY DEF Init, GivenInv
  <1>2. Inv /\ GivenInv /\ [Next]_vars => GivenInv'
    BY GivenStep
  <1>3. Inv /\ GivenInv => GivenEvidenceResolves
    <2> SUFFICES ASSUME Inv, GivenInv PROVE GivenEvidenceResolves
      OBVIOUS
    <2>1. ASSUME NEW p \in Passes,
                 pass[p].at \in Working \ {"timeline", "incident", "events"}
          PROVE  Ids(pass[p].view) \subseteq PartOf(Target[p]) \intersect Ids(events)
      BY <2>1, InMemory DEF Backed, Held, Written
    <2>2. ASSUME NEW p \in Passes, NEW l \in Chains(Target[p])
          PROVE  {l[1], l[2]} \subseteq Ids(events) /\ WithinOne(l)
      BY DEF Chains, Inv, GraphInv, GivenInv
    <2> QED
      BY <2>1, <2>2 DEF GivenEvidenceResolves, GivenInv
  <1> QED
    BY <1>1, <1>2, <1>3, Invariance, PTL DEF Spec

----------------------------------------------------------------------------
(* The chain of an incident that shares no event.                          *)

Edges(i) == {l \in precedes : l[1] \in PartOf(i) /\ l[2] \in PartOf(i)}

Chain(i) == {<<l[1].id, l[2].id>> : l \in Consecutive(Timeline(i))}

Building(i) == \E p \in Passes : Target[p] = i /\ pass[p].at = "build"

\* Once dropped, a chain has no edge that is not in the timeline; and unless
\* it is being built, it has them all.
ChainInv ==
    \A i \in Incidents : Unshared(i) /\ i \notin torn =>
        /\ Edges(i) \subseteq Chain(i)
        /\ ~Building(i) => Chain(i) \subseteq Edges(i)

\* Only BuildChain and a crash leave the statement that builds the chain.
LEMMA OnlyBuildLeavesBuild ==
    ASSUME Inv, NEW p \in Passes, NEW q \in Passes,
           pass[q].at = "build", pass'[q].at # "build",
           \/ Start(p) \/ ReadTimeline(p) \/ WriteEvidence(p) \/ Judge(p)
           \/ WriteReasoning(p) \/ Crash(p)
    PROVE  p = q /\ (BuildChain(p) \/ Crash(p))
  <1>1. pass \in [Passes -> PassType]
    BY DEF Inv, PassInv
  <1>2. CASE Start(p)
    BY <1>1, <1>2 DEF Start
  <1>3. CASE Crash(p)
    BY <1>1, <1>3 DEF Crash
  <1>4. CASE ReadTimeline(p) \/ Judge(p)
    BY <1>1, <1>4 DEF ReadTimeline, Judge, Exit
  <1>5. CASE WriteEvidence(p)
    BY <1>1, <1>5 DEF WriteEvidence, UpsertIncident, WriteEvents, DropChain,
        BuildChain, LinkCandidate, ReadComponents, SetFingerprint, Goto
  <1>6. CASE WriteReasoning(p)
    BY <1>1, <1>6 DEF WriteReasoning, MergeHypotheses, MergeSupports,
        MergeContradicts, LinkSimilar, Goto, Exit
  <1> QED
    BY <1>2, <1>3, <1>4, <1>5, <1>6

\* One incident's chain is as it was if its timeline and edges are.
LEMMA ChainStays ==
    ASSUME Inv, ChainInv, NEW i \in Incidents,
           PartOf(i)' = PartOf(i), Timeline(i)' = Timeline(i), Edges(i)' = Edges(i),
           Unshared(i), i \notin torn, Building(i) => Building(i)'
    PROVE  Edges(i)' \subseteq Chain(i)' /\ (~Building(i)' => Chain(i)' \subseteq Edges(i)')
  <1>1. Chain(i)' = Chain(i)
    BY DEF Chain
  <1> QED
    BY <1>1 DEF ChainInv

\* Every step keeps the chains.
LEMMA ChainStep == ASSUME Inv, Inv', ChainInv, [Next]_vars PROVE ChainInv'
  <1> DEFINE Right(i) ==
        Edges(i)' \subseteq Chain(i)' /\ (~Building(i)' => Chain(i)' \subseteq Edges(i)')
  <1>1. SUFFICES ASSUME NEW i \in Incidents, Unshared(i)', i \notin torn'
                 PROVE  Right(i)
    BY DEF ChainInv
  <1>2. ASSUME UNCHANGED <<events, partOf>>
        PROVE  /\ PartOf(i)' = PartOf(i) /\ Timeline(i)' = Timeline(i) /\ Unshared(i)
               /\ precedes' = precedes => Edges(i)' = Edges(i)
    BY <1>1, <1>2 DEF PartOf, Timeline, Unshared, Edges
  <1>3. ASSUME UNCHANGED <<events, partOf, precedes>>, i \notin torn,
               Building(i) => Building(i)'
        PROVE  Right(i)
    BY <1>2, <1>3, ChainStays
  <1>4. ASSUME NEW p \in Passes,
               \/ Start(p) \/ ReadTimeline(p) \/ WriteEvidence(p) \/ Judge(p)
               \/ WriteReasoning(p) \/ Crash(p),
               ~BuildChain(p), ~Crash(p)
        PROVE  Building(i) => Building(i)'
    BY <1>4, OnlyBuildLeavesBuild DEF Building
  <1>5. ASSUME NEW p \in Passes, WriteEvents(p) PROVE Right(i)
    <2>1. PICK batch :
            /\ events' = Merge(batch)
            /\ partOf' = partOf \union (Ids(batch) \X {Target[p]})
            /\ batch \subseteq pass[p].rows
      BY <1>5 DEF WriteEvents
    <2>2. Target[p] # i /\ i \notin torn
      BY <1>1, <1>5 DEF WriteEvents
    <2>3. batch \subseteq Observed
      BY <2>1, InMemory DEF PassType
    <2>4. Ids(batch) \subseteq EventIds
      BY <2>3, IdsIn
    <2>5. PartOf(i)' = PartOf(i)
      BY <2>1, <2>2 DEF PartOf
    <2>6. Unshared(i)
      BY <1>1, <2>1, <2>5 DEF Unshared
    <2>7. Ids(batch) \intersect PartOf(i) = {}
      BY <1>1, <2>1, <2>2, <2>5, TargetIn DEF Unshared
    <2>8. Timeline(i)' = Timeline(i)
      BY <2>1, <2>5, <2>7 DEF Timeline, Merge, Ids
    <2>9. Edges(i)' = Edges(i)
      BY <1>5, <2>5 DEF WriteEvents, edges, Edges
    <2>10. Building(i) => Building(i)'
      BY <1>5, <2>2 DEF WriteEvents, Building, Inv, PassInv
    <2> QED
      BY <2>2, <2>5, <2>6, <2>8, <2>9, <2>10, ChainStays
  <1>6. ASSUME NEW p \in Passes, DropChain(p) PROVE Right(i)
    <2>1. /\ precedes' = precedes \ (PartOf(Target[p]) \X PartOf(Target[p]))
          /\ UNCHANGED <<events, partOf>> /\ torn' = torn \ {Target[p]}
      BY <1>6 DEF DropChain, nodes
    <2>2. CASE Target[p] = i
      <3>1. Edges(i)' = {}
        BY <1>2, <2>1, <2>2 DEF Edges, Inv, GraphInv
      <3>2. Building(i)'
        BY <1>6, <2>2 DEF DropChain, Goto, Building, Inv, PassInv, PassType
      <3> QED
        BY <3>1, <3>2
    <2>3. CASE Target[p] # i
      <3>1. PartOf(Target[p]) \intersect PartOf(i) = {}
        BY <1>2, <2>1, <2>3, TargetIn DEF Unshared, PartOf
      <3>2. Edges(i)' = Edges(i)
        BY <1>2, <2>1, <3>1 DEF Edges
      <3>3. Building(i) => Building(i)'
        BY <1>6, <2>3 DEF DropChain, Goto, Building, Inv, PassInv, PassType
      <3> QED
        BY <1>1, <1>2, <2>1, <2>3, <3>2, <3>3, ChainStays
    <2> QED
      BY <2>2, <2>3
  <1>7. ASSUME NEW p \in Passes, BuildChain(p) PROVE Right(i)
    <2>1. /\ precedes' = precedes \union Chain(Target[p])
          /\ UNCHANGED <<events, partOf, torn>>
      BY <1>7 DEF BuildChain, nodes, Chain
    <2>2. \A l \in Chain(Target[p]) : l[1] \in PartOf(Target[p]) /\ l[2] \in PartOf(Target[p])
      BY DEF Chain, Consecutive, Timeline
    <2>3. CASE Target[p] = i
      <3>1. Edges(i)' = Edges(i) \union Chain(i)
        BY <1>2, <2>1, <2>2, <2>3 DEF Edges
      <3>2. Edges(i) \subseteq Chain(i)
        BY <1>1, <1>2, <2>1 DEF ChainInv
      <3>3. Chain(i)' = Chain(i)
        BY <1>2, <2>1 DEF Chain
      <3> QED
        BY <3>1, <3>2, <3>3
    <2>4. CASE Target[p] # i
      <3>1. PartOf(Target[p]) \intersect PartOf(i) = {}
        BY <1>2, <2>1, <2>4, TargetIn DEF Unshared, PartOf
      <3>2. Edges(i)' = Edges(i)
        BY <1>2, <2>1, <2>2, <3>1 DEF Edges
      <3>3. Building(i) => Building(i)'
        BY <1>7, <2>4 DEF BuildChain, Building, Inv, PassInv, PassType
      <3> QED
        BY <1>1, <1>2, <2>1, <3>2, <3>3, ChainStays
    <2> QED
      BY <2>3, <2>4
  <1>8. ASSUME NEW p \in Passes, Crash(p) PROVE Right(i)
    <2>1. UNCHANGED <<events, partOf, precedes>> /\ i \notin torn
      BY <1>1, <1>8 DEF Crash, nodes, edges
    <2>2. Building(i) => Building(i)'
      BY <1>1, <1>8 DEF Crash, Building, Inv, PassInv
    <2> QED
      BY <1>3, <2>1, <2>2
  <1>9. ASSUME NEW p \in Passes,
               \/ Start(p) \/ ReadTimeline(p) \/ UpsertIncident(p)
               \/ LinkCandidate(p) \/ ReadComponents(p) \/ SetFingerprint(p)
               \/ Judge(p) \/ WriteReasoning(p),
               ~BuildChain(p), ~Crash(p)
        PROVE  Right(i)
    <2>1. UNCHANGED <<events, partOf, precedes, torn>>
      BY <1>9 DEF Start, ReadTimeline, UpsertIncident, LinkCandidate,
          ReadComponents, SetFingerprint, Judge, WriteReasoning, MergeHypotheses,
          MergeSupports, MergeContradicts, LinkSimilar, nodes, edges
    <2>2. Building(i) => Building(i)'
      BY <1>4, <1>9 DEF WriteEvidence
    <2> QED
      BY <1>1, <1>3, <2>1, <2>2
  <1>10. CASE UNCHANGED vars
    <2>1. UNCHANGED <<events, partOf, precedes, torn, pass>>
      BY <1>10 DEF vars, nodes, edges
    <2> QED
      BY <1>1, <1>3, <2>1 DEF Building
  <1> QED
    BY <1>5, <1>6, <1>7, <1>8, <1>9, <1>10 DEF Next, WriteEvidence

\* The chain of an incident that shares no event is its timeline, whoever
\* else rebuilds it at the same time, once a rebuild went through.
THEOREM ChainsAreTimelines == Spec => []ChainIsTimeline
  <1>1. Init => ChainInv
    BY DEF Init, ChainInv, Edges, Chain, Consecutive, Timeline
  <1>2. Inv /\ Inv' /\ ChainInv /\ [Next]_vars => ChainInv'
    BY ChainStep
  <1>3. ChainInv => ChainIsTimeline
    BY DEF ChainInv, ChainIsTimeline, Edges, Chain, Building
  <1> QED
    BY <1>1, <1>2, <1>3, Invariance, PTL DEF Spec

----------------------------------------------------------------------------
(* The fingerprint a pass with the incident to itself goes by.             *)

Step(p) ==
    \/ Start(p) \/ ReadTimeline(p) \/ WriteEvidence(p)
    \/ Judge(p) \/ WriteReasoning(p) \/ Crash(p)

Reasoned == {"model", "hypotheses", "supports", "contradicts", "similar"}

\* Passes that work on one incident at a time know it from `contended`; the
\* others have read, then set, what the graph still shows.
CurrentInv ==
    /\ contended \subseteq Passes
    /\ \A p \in Passes : \A q \in Passes :
        /\ p # q /\ Target[p] = Target[q]
        /\ pass[p].at \in Working /\ pass[q].at \in Working
        => p \in contended
    /\ \A p \in Passes : p \notin contended /\ Apart(Target[p]) =>
        /\ pass[p].at = "set" => pass[p].carried = Components(Target[p])
        /\ pass[p].at \in Reasoned =>
              fingerprint[Target[p]] = Components(Target[p])

\* The step of one pass leaves the others where they are.
LEMMA OthersStay ==
    ASSUME Inv, NEW q \in Passes, Step(q), NEW p \in Passes, p # q
    PROVE  pass'[p] = pass[p]
  <1>1. pass \in [Passes -> PassType]
    BY DEF Inv, PassInv
  <1>2. CASE Start(q) \/ Crash(q)
    BY <1>1, <1>2 DEF Start, Crash
  <1>3. CASE ReadTimeline(q) \/ Judge(q)
    BY <1>1, <1>3 DEF ReadTimeline, Judge, Exit
  <1>4. CASE WriteEvidence(q)
    BY <1>1, <1>4 DEF WriteEvidence, UpsertIncident, WriteEvents, DropChain,
        BuildChain, LinkCandidate, ReadComponents, SetFingerprint, Goto
  <1>5. CASE WriteReasoning(q)
    BY <1>1, <1>5 DEF WriteReasoning, MergeHypotheses, MergeSupports,
        MergeContradicts, LinkSimilar, Goto, Exit
  <1> QED
    BY <1>2, <1>3, <1>4, <1>5 DEF Step

\* Who does anything but start is at work.
LEMMA MustWork ==
    ASSUME NEW q \in Passes, Step(q), ~Start(q)
    PROVE  pass[q].at \in Working
  <1>1. CASE ReadTimeline(q) \/ Judge(q) \/ Crash(q)
    BY <1>1 DEF ReadTimeline, Judge, Crash, Working
  <1>2. CASE WriteEvidence(q)
    BY <1>2 DEF WriteEvidence, UpsertIncident, WriteEvents, DropChain,
        BuildChain, LinkCandidate, ReadComponents, SetFingerprint, Working
  <1>3. CASE WriteReasoning(q)
    BY <1>3 DEF WriteReasoning, MergeHypotheses, MergeSupports,
        MergeContradicts, LinkSimilar, Working
  <1> QED
    BY <1>1, <1>2, <1>3 DEF Step

\* Only a pass that starts changes who had an incident to itself.
LEMMA ContendedStays ==
    ASSUME NEW p \in Passes, Step(p), ~Start(p)
    PROVE  contended' = contended
  <1>1. CASE WriteEvidence(p)
    BY <1>1 DEF WriteEvidence, UpsertIncident, WriteEvents, DropChain, BuildChain,
        LinkCandidate, ReadComponents, SetFingerprint
  <1>2. CASE ReadTimeline(p) \/ Judge(p) \/ Crash(p) \/ WriteReasoning(p)
    BY <1>2 DEF ReadTimeline, Judge, Crash, WriteReasoning, MergeHypotheses,
        MergeSupports, MergeContradicts, LinkSimilar
  <1> QED
    BY <1>1, <1>2 DEF Step

\* Two passes at work on one incident are both contended.
LEMMA RivalsAreContended ==
    ASSUME Inv, CurrentInv, NEW s \in Passes, Step(s),
           NEW p \in Passes, NEW q \in Passes, p # q, Target[p] = Target[q],
           pass'[p].at \in Working, pass'[q].at \in Working
    PROVE  p \in contended'
  <1>1. CASE Start(s)
    <2>1. contended' = IF Rivals(s) = {} THEN contended \ {s}
                       ELSE contended \union Rivals(s) \union {s}
      BY <1>1 DEF Start
    <2>2. CASE p = s
      <3>1. pass[q].at \in Working
        BY <2>2, OthersStay
      <3>2. q \in Rivals(s)
        BY <2>2, <3>1 DEF Rivals
      <3> QED
        BY <2>1, <2>2, <3>2
    <2>3. CASE q = s
      <3>1. pass[p].at \in Working
        BY <2>3, OthersStay
      <3>2. p \in Rivals(s)
        BY <2>3, <3>1 DEF Rivals
      <3> QED
        BY <2>1, <3>2
    <2>4. CASE p # s /\ q # s
      <3>1. pass[p].at \in Working /\ pass[q].at \in Working
        BY <2>4, OthersStay
      <3>2. p \in contended
        BY <3>1 DEF CurrentInv
      <3> QED
        BY <2>1, <2>4, <3>2
    <2> QED
      BY <2>2, <2>3, <2>4
  <1>2. CASE ~Start(s)
    <2>1. pass[p].at \in Working /\ pass[q].at \in Working
      BY <1>2, OthersStay, MustWork
    <2>2. p \in contended
      BY <2>1 DEF CurrentInv
    <2> QED
      BY <1>2, <2>2, ContendedStays
  <1> QED
    BY <1>1, <1>2

\* Who is not contended was not before, or has just started.
LEMMA UncontendedBefore ==
    ASSUME NEW s \in Passes, Step(s), NEW p \in Passes, p \notin contended'
    PROVE  p \notin contended \/ (s = p /\ Start(s))
  <1>1. CASE Start(s)
    BY <1>1 DEF Start
  <1>2. CASE ~Start(s)
    BY <1>2, ContendedStays
  <1> QED
    BY <1>1, <1>2

\* Two statements only change what the components of an incident come from.
LEMMA SourcesStay ==
    ASSUME NEW p \in Passes, Step(p), ~WriteEvents(p), ~LinkCandidate(p)
    PROVE  UNCHANGED <<partOf, caused>>
  <1>1. CASE WriteEvidence(p)
    BY <1>1 DEF WriteEvidence, UpsertIncident, DropChain, BuildChain,
        ReadComponents, SetFingerprint, nodes, edges
  <1>2. CASE Start(p) \/ ReadTimeline(p) \/ Judge(p) \/ Crash(p)
    BY <1>2 DEF Start, ReadTimeline, Judge, Crash, nodes, edges
  <1>3. CASE WriteReasoning(p)
    BY <1>3 DEF WriteReasoning, MergeHypotheses, MergeSupports, MergeContradicts,
        LinkSimilar, nodes, edges
  <1> QED
    BY <1>1, <1>2, <1>3 DEF Step

\* Two statements only set a fingerprint, and that of their incident.
LEMMA FingerprintsStay ==
    ASSUME Inv, NEW p \in Passes, Step(p), NEW i \in Incidents,
           Target[p] = i => ~UpsertIncident(p) /\ ~SetFingerprint(p)
    PROVE  fingerprint'[i] = fingerprint[i]
  <1>1. CASE WriteEvidence(p)
    <2>1. CASE UpsertIncident(p) \/ SetFingerprint(p)
      BY <2>1 DEF UpsertIncident, SetFingerprint, Inv, GraphInv
    <2>2. CASE ~UpsertIncident(p) /\ ~SetFingerprint(p)
      BY <1>1, <2>2 DEF WriteEvidence, WriteEvents, DropChain, BuildChain,
          LinkCandidate, ReadComponents
    <2> QED
      BY <2>1, <2>2
  <1>2. CASE Start(p) \/ ReadTimeline(p) \/ Judge(p) \/ Crash(p)
    BY <1>2 DEF Start, ReadTimeline, Judge, Crash
  <1>3. CASE WriteReasoning(p)
    BY <1>3 DEF WriteReasoning, MergeHypotheses, MergeSupports, MergeContradicts,
        LinkSimilar
  <1> QED
    BY <1>1, <1>2, <1>3 DEF Step

\* The components of an incident are the same if it has the same events and no
\* new edge between two of them.
LEMMA ComponentsSame ==
    ASSUME Inv, Inv', Accumulates, NEW i \in Incidents, PartOf(i)' = PartOf(i),
           \A l \in caused' \ caused : ~(l[1] \in PartOf(i) /\ l[2] \in PartOf(i))
    PROVE  Components(i)' = Components(i)
  <1>1. Components(i) \subseteq Components(i)'
    BY ComponentsStay
  <1>2. ASSUME NEW l \in caused', l[1] \in PartOf(i)', l[2] \in PartOf(i)'
        PROVE  Component(Node(l[1]), Node(l[2]))' \in Components(i)
    <2>1. l \in caused /\ l[1] \in PartOf(i) /\ l[2] \in PartOf(i)
      BY <1>2
    <2>2. l[1] \in Ids(events) /\ l[2] \in Ids(events)
      BY <2>1 DEF Inv, GraphInv
    <2>3. Component(Node(l[1]), Node(l[2])) = Component(Node(l[1]), Node(l[2]))'
      BY <2>2, SameNode DEF Component
    <2> QED
      BY <2>1, <2>3 DEF Components
  <1>3. Components(i)' \subseteq Components(i)
    BY <1>2 DEF Components
  <1> QED
    BY <1>1, <1>3

\* Another pass does nothing to the components or the fingerprint of an incident
\* it is not at work on, as long as the two do not share two events.
LEMMA OtherPass ==
    ASSUME Inv, Inv', Accumulates, NEW q \in Passes, Step(q), NEW i \in Incidents,
           Apart(i), Target[q] # i \/ Start(q)
    PROVE  Components(i)' = Components(i) /\ fingerprint'[i] = fingerprint[i]
  <1>1. CASE Start(q)
    <2>1. UNCHANGED <<partOf, caused, fingerprint>>
      BY <1>1 DEF Start, nodes, edges
    <2> QED
      BY <2>1, ComponentsSame DEF PartOf
  <1>2. CASE Target[q] # i
    <2>1. fingerprint'[i] = fingerprint[i]
      BY <1>2, FingerprintsStay
    <2>2. CASE WriteEvents(q)
      <3>1. /\ \E batch : partOf' = partOf \union (Ids(batch) \X {Target[q]})
            /\ caused' = caused
        BY <2>2 DEF WriteEvents, edges
      <3>2. PartOf(i)' = PartOf(i)
        BY <1>2, <3>1 DEF PartOf
      <3> QED
        BY <2>1, <3>1, <3>2, ComponentsSame
    <2>3. CASE LinkCandidate(q)
      <3>1. PartOf(i)' = PartOf(i)
        BY <2>3 DEF LinkCandidate, nodes, PartOf
      <3>2. ASSUME NEW l \in caused' \ caused, l[1] \in PartOf(i), l[2] \in PartOf(i)
            PROVE  FALSE
        <4>1. l \in pass[q].links /\ pass[q].at = "link"
          BY <2>3, <3>2, NewEdge DEF LinkCandidate
        <4>2. /\ l[1] \in Ids(pass[q].view) /\ l[2] \in Ids(pass[q].view)
              /\ l[1] # l[2]
          BY <4>1, InMemory DEF Coherent
        <4>3. Ids(pass[q].view) \subseteq PartOf(Target[q])
          BY <4>1, InMemory DEF Backed, Held, Written, Working
        <4> QED
          BY <1>2, <3>2, <4>2, <4>3, TargetIn DEF Apart
      <3> QED
        BY <2>1, <3>1, <3>2, ComponentsSame
    <2>4. CASE ~WriteEvents(q) /\ ~LinkCandidate(q)
      <3>1. UNCHANGED <<partOf, caused>>
        BY <2>4, SourcesStay
      <3> QED
        BY <2>1, <3>1, ComponentsSame DEF PartOf
    <2> QED
      BY <2>2, <2>3, <2>4
  <1> QED
    BY <1>1, <1>2

\* How a pass comes to where its fingerprint is read, set or gone by.
LEMMA OwnStep ==
    ASSUME Inv, NEW p \in Passes, Step(p), pass'[p].at \in Reasoned \union {"set"}
    PROVE  /\ ~WriteEvents(p) /\ ~LinkCandidate(p) /\ ~Start(p) /\ ~UpsertIncident(p)
           /\ \/ /\ ReadComponents(p) /\ pass'[p].at = "set"
                 /\ pass'[p].carried = Components(Target[p])
              \/ /\ SetFingerprint(p) /\ pass'[p].at = "model"
                 /\ pass[p].at = "set"
                 /\ fingerprint'[Target[p]] = pass[p].carried
              \/ /\ pass[p].at \in Reasoned /\ pass'[p].at \in Reasoned
                 /\ ~SetFingerprint(p)
  <1>1. pass \in [Passes -> PassType] /\ pass[p] \in PassType
    BY DEF Inv, PassInv
  <1>2. ~Start(p) /\ ~Crash(p) /\ ~ReadTimeline(p)
    <2>1. ASSUME Start(p) PROVE pass'[p].at \in {"incident", "timeline"}
      <3>1. ASSUME NEW v, NEW died,
                   pass' = [pass EXCEPT ![p] =
                      [Fresh EXCEPT !.at = "incident", !.view = v, !.rows = v,
                                    !.died = died]]
            PROVE  pass'[p].at = "incident"
        BY <1>1, <3>1 DEF Fresh
      <3>2. ASSUME NEW c, NEW died,
                   pass' = [pass EXCEPT ![p] =
                      [Fresh EXCEPT !.at = "timeline", !.carried = c, !.died = died]]
            PROVE  pass'[p].at = "timeline"
        BY <1>1, <3>2 DEF Fresh
      <3> QED
        BY <2>1, <3>1, <3>2 DEF Start
    <2>2. ASSUME Crash(p) PROVE pass'[p].at = "idle"
      BY <1>1, <2>2 DEF Crash, Fresh
    <2>3. ASSUME ReadTimeline(p) PROVE pass'[p].at \in {"done", "incident"}
      <3>1. PICK v :
              pass' = [pass EXCEPT ![p].at = IF v = {} THEN "done" ELSE "incident",
                                   ![p].view = v, ![p].rows = v]
        BY <2>3 DEF ReadTimeline
      <3> QED
        BY <1>1, <3>1 DEF PassType
    <2> QED
      BY <2>1, <2>2, <2>3 DEF Reasoned
  <1>3. ~UpsertIncident(p) /\ ~DropChain(p) /\ ~BuildChain(p)
    BY <1>1 DEF UpsertIncident, DropChain, BuildChain, Goto, Reasoned, PassType
  <1>4. ~WriteEvents(p)
    <2>1. ASSUME WriteEvents(p) PROVE pass'[p].at \in {"events", "drop"}
      BY <1>1, <2>1 DEF WriteEvents, PassType
    <2> QED
      BY <2>1 DEF Reasoned
  <1>5. ~LinkCandidate(p)
    <2>1. ASSUME LinkCandidate(p) PROVE pass'[p].at \in {"link", "read"}
      BY <1>1, <2>1 DEF LinkCandidate, Goto, PassType
    <2> QED
      BY <2>1 DEF Reasoned
  <1>6. CASE ReadComponents(p)
    <2>1. PICK c : /\ c = Components(Target[p])
                   /\ pass' = [pass EXCEPT ![p].at = "set", ![p].carried = c]
      BY <1>6 DEF ReadComponents
    <2>2. pass'[p].at = "set" /\ pass'[p].carried = c
      BY <1>1, <2>1 DEF PassType
    <2> QED
      BY <1>2, <1>3, <1>4, <1>5, <1>6, <2>1, <2>2
  <1>7. CASE SetFingerprint(p)
    <2>1. pass'[p].at = "model" /\ pass[p].at = "set"
      BY <1>1, <1>7 DEF SetFingerprint, PassType
    <2>2. fingerprint'[Target[p]] = pass[p].carried
      BY <1>7, TargetIn DEF SetFingerprint, Inv, GraphInv
    <2> QED
      BY <1>2, <1>3, <1>4, <1>5, <1>7, <2>1, <2>2
  <1>8. CASE Judge(p)
    <2>1. pass[p].at \in Reasoned /\ ~SetFingerprint(p)
      BY <1>8 DEF Judge, SetFingerprint, Reasoned
    <2>2. pass'[p].at \in {"done", "similar", "hypotheses"}
      <3>1. CASE Exit(p)
        BY <1>1, <3>1 DEF Exit, PassType
      <3>2. ASSUME NEW at \in {"similar", "hypotheses"}, NEW reply,
                   pass' = [pass EXCEPT ![p].at = at, ![p].reply = reply]
            PROVE  pass'[p].at = at
        BY <1>1, <3>2 DEF PassType
      <3> QED
        BY <1>8, <3>1, <3>2 DEF Judge
    <2>3. pass'[p].at \in Reasoned
      BY <2>2 DEF Reasoned
    <2> QED
      BY <1>2, <1>3, <1>4, <1>5, <2>1, <2>3
  <1>9. CASE WriteReasoning(p)
    <2>1. pass[p].at \in Reasoned /\ ~SetFingerprint(p)
      BY <1>9 DEF WriteReasoning, MergeHypotheses, MergeSupports, MergeContradicts,
          LinkSimilar, SetFingerprint, Reasoned
    <2>2. pass'[p].at \in Reasoned
      BY <1>1, <1>9 DEF WriteReasoning, MergeHypotheses, MergeSupports,
          MergeContradicts, LinkSimilar, Goto, Exit, Reasoned, PassType
    <2> QED
      BY <1>2, <1>3, <1>4, <1>5, <2>1, <2>2
  <1> QED
    BY <1>2, <1>3, <1>4, <1>5, <1>6, <1>7, <1>8, <1>9 DEF Step, WriteEvidence

\* What a pass read or set is what the graph shows, step by step.
LEMMA CurrentOfPass ==
    ASSUME Inv, Inv', CurrentInv, NEW s \in Passes, Step(s), Accumulates,
           NEW p \in Passes, p \notin contended', Apart(Target[p])'
    PROVE  /\ pass'[p].at = "set" => pass'[p].carried = Components(Target[p])'
           /\ pass'[p].at \in Reasoned =>
                 fingerprint'[Target[p]] = Components(Target[p])'
  <1> SUFFICES ASSUME pass'[p].at \in Reasoned \union {"set"}
               PROVE  /\ pass'[p].at = "set" =>
                            pass'[p].carried = Components(Target[p])'
                      /\ pass'[p].at \in Reasoned =>
                            fingerprint'[Target[p]] = Components(Target[p])'
    OBVIOUS
  <1> DEFINE i == Target[p]
  <1>1. i \in Incidents
    BY TargetIn
  <1>2. Apart(i)
    BY DEF Apart, Accumulates, PartOf
  <1>3. ~(s = p /\ Start(s))
    BY OwnStep
  <1>4. p \notin contended
    BY <1>3, UncontendedBefore
  <1>5. "set" \notin Reasoned
    BY DEF Reasoned
  <1>6. CASE s = p
    <2>1. UNCHANGED <<partOf, caused>>
      BY <1>6, OwnStep, SourcesStay
    <2>2. Components(i)' = Components(i)
      BY <1>1, <2>1, ComponentsSame DEF PartOf
    <2>3. CASE ReadComponents(p) /\ pass'[p].at = "set" /\ pass'[p].carried = Components(i)
      BY <1>5, <2>2, <2>3
    <2>4. CASE /\ SetFingerprint(p) /\ pass'[p].at = "model"
               /\ pass[p].at = "set" /\ fingerprint'[i] = pass[p].carried
      BY <1>2, <1>4, <1>5, <2>2, <2>4 DEF CurrentInv
    <2>5. CASE /\ pass[p].at \in Reasoned /\ pass'[p].at \in Reasoned
               /\ ~SetFingerprint(p)
      <3>1. fingerprint'[i] = fingerprint[i]
        BY <1>1, <1>6, <2>5, OwnStep, FingerprintsStay
      <3> QED
        BY <1>2, <1>4, <1>5, <2>2, <2>5, <3>1 DEF CurrentInv
    <2> QED
      BY <1>6, <2>3, <2>4, <2>5, OwnStep
  <1>7. CASE s # p
    <2>1. pass'[p] = pass[p]
      BY <1>7, OthersStay
    <2>2. Target[s] # i \/ Start(s)
      <3>1. ASSUME Target[s] = i, ~Start(s) PROVE FALSE
        <4>1. pass[s].at \in Working
          BY <3>1, MustWork
        <4>2. pass[p].at \in Working
          BY <2>1 DEF Reasoned, Working
        <4> QED
          BY <1>4, <1>7, <3>1, <4>1, <4>2 DEF CurrentInv
      <3> QED
        BY <3>1
    <2>3. Components(i)' = Components(i) /\ fingerprint'[i] = fingerprint[i]
      BY <1>1, <1>2, <2>2, OtherPass
    <2> QED
      BY <1>2, <1>4, <2>1, <2>3 DEF CurrentInv
  <1> QED
    BY <1>6, <1>7

\* Every step keeps the fingerprints current.
LEMMA CurrentStep ==
    ASSUME Inv, Inv', CurrentInv, [Next]_vars PROVE CurrentInv'
  <1>1. Accumulates
    BY NextAccumulates
  <1>2. ASSUME NEW s \in Passes, Step(s) PROVE CurrentInv'
    <2>1. contended' \subseteq Passes
      <3>1. CASE Start(s)
        BY <3>1 DEF Start, Rivals, CurrentInv
      <3>2. CASE ~Start(s)
        BY <1>2, <3>2, ContendedStays DEF CurrentInv
      <3> QED
        BY <3>1, <3>2
    <2>2. ASSUME NEW p \in Passes, NEW q \in Passes, p # q, Target[p] = Target[q],
                 pass'[p].at \in Working, pass'[q].at \in Working
          PROVE  p \in contended'
      BY <1>2, <2>2, RivalsAreContended
    <2>3. ASSUME NEW p \in Passes, p \notin contended', Apart(Target[p])'
          PROVE  /\ pass'[p].at = "set" => pass'[p].carried = Components(Target[p])'
                 /\ pass'[p].at \in Reasoned =>
                       fingerprint'[Target[p]] = Components(Target[p])'
      BY <1>1, <1>2, <2>3, CurrentOfPass
    <2> QED
      BY <2>1, <2>2, <2>3 DEF CurrentInv
  <1>3. CASE UNCHANGED vars
    <2>1. UNCHANGED <<events, partOf, caused, fingerprint, pass, contended>>
      BY <1>3 DEF vars, nodes, edges
    <2>2. ASSUME NEW j PROVE Components(j)' = Components(j) /\ Apart(j)' = Apart(j)
      BY <2>1 DEF Components, Component, Node, PartOf, Apart
    <2> QED
      BY <2>1, <2>2 DEF CurrentInv
  <1> QED
    BY <1>2, <1>3 DEF Next, Step

\* Who is contended is told right, and fingerprints are current, throughout.
LEMMA CurrentInvariance == Spec => []CurrentInv
  <1>1. Init => CurrentInv
    BY DEF Init, CurrentInv, Fresh, Working, Reasoned
  <1>2. Inv /\ Inv' /\ CurrentInv /\ [Next]_vars => CurrentInv'
    BY CurrentStep
  <1> QED
    BY <1>1, <1>2, Invariance, PTL DEF Spec

\* A pass that has had its incident to itself reasons with the fingerprint the
\* graph shows, although it reads and sets it in two statements.
THEOREM FingerprintsAreCurrent == Spec => []FingerprintIsCurrent
  <1>1. CurrentInv => FingerprintIsCurrent
    BY DEF CurrentInv, FingerprintIsCurrent, Reasoned
  <1> QED
    BY <1>1, CurrentInvariance, PTL

\* What is stored and in memory is well typed, for any incidents, any
\* collections of their evidence and any number of passes and crashes.
THEOREM TypeCorrect == Spec => []TypeOK
  <1>1. Inv /\ AttributesInv /\ CurrentInv => TypeOK
    <2> SUFFICES ASSUME Inv, AttributesInv, CurrentInv PROVE TypeOK
      OBVIOUS
    <2>1. ASSUME NEW p \in Passes
          PROVE  /\ pass[p].at \in Working \union {"idle", "done"}
                 /\ pass[p].died \in BOOLEAN
                 /\ pass[p].rows \subseteq pass[p].view
                 /\ pass[p].at \notin Working => pass[p].view = {}
      BY InMemory DEF PassType, Coherent
    <2>2. Ids(events) \subseteq EventIds
      BY IdsIn DEF Inv, GraphInv
    <2> QED
      BY <2>1, <2>2 DEF TypeOK, Inv, GraphInv, VerdictInv, PassInv,
          AttributesInv, CurrentInv
  <1> QED
    BY <1>1, Invariance, AttributesInvariance, CurrentInvariance, PTL
=============================================================================
