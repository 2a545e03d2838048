------------------------------- MODULE Linker -------------------------------
(***************************************************************************)
(* The candidate links between events and the chains the graph makes of    *)
(* them for the model.                                                     *)
(***************************************************************************)
EXTENDS Collection

CONSTANTS
    CausalWindow,   \* CAUSAL_WINDOW_MINUTES
    MaxCandidates,  \* of the linker
    MaxChains,      \* LIMIT of get_candidate_chains
    Distinctive,    \* file stems that are long and special enough
    Words           \* per text and signature, its words

ASSUME LinkerAssumption ==
    /\ CausalWindow \in Nat \ {0}
    /\ MaxCandidates \in Nat \ {0} /\ MaxChains \in Nat \ {0}

\* Any directory of a changed file may name a service.
ServicesTouched(cause) ==
    {Canonical(d) : d \in UNION {{f.dirs[n] : n \in DOMAIN f.dirs} : f \in cause.files}}

ModuleTokens(cause) == {f.stem : f \in cause.files} \intersect Distinctive

TokensOf(effect) ==
    UNION {Words[t] : t \in {effect.text, effect.signature} \ {None}}

ServiceOverlap(cause, effect) ==
    cause.service # None /\ cause.service = effect.service

\* A changed file is named in the failure, which always counts, or a
\* directory is, unless the service as a whole already does.
ChangePathOverlaps(cause, effect) ==
    \/ ModuleTokens(cause) \intersect TokensOf(effect) # {}
    \/ /\ ~ServiceOverlap(cause, effect)
       /\ effect.service # None
       /\ effect.service \in ServicesTouched(cause)

Heuristics(cause, effect) ==
    {"temporal_proximity"}
    \union (IF ServiceOverlap(cause, effect) THEN {"service_overlap"} ELSE {})
    \union (IF ChangePathOverlaps(cause, effect) THEN {"change_path_overlap"} ELSE {})

\* In tenths.
RankingWeight ==
    [change_path_overlap |-> 5, service_overlap |-> 3, temporal_proximity |-> 2]

RankingScore(heuristics) ==
    LET w(h) == IF h \in heuristics THEN RankingWeight[h] ELSE 0
    IN w("change_path_overlap") + w("service_overlap") + w("temporal_proximity")

LinkOf(cause, effect) ==
    [cause |-> cause.id, effect |-> effect.id,
     heuristics |-> Heuristics(cause, effect), delta |-> effect.ts - cause.ts]

\* The strongest first, then the closest.
Stronger(k, l) ==
    LET a == RankingScore(k.heuristics)
        b == RankingScore(l.heuristics)
    IN \/ a > b
       \/ a = b /\ k.delta < l.delta
       \/ a = b /\ k.delta = l.delta /\ k.cause < l.cause

\* The first n of S, where the order leaves a choice any of them.
FirstOf(S, n, ahead) ==
    {T \in SUBSET S :
        /\ Cardinality(T) = IF Cardinality(S) < n THEN Cardinality(S) ELSE n
        /\ (S \ T) \X T \intersect ahead = {}}

Strongest(links) ==
    FirstOf(links, MaxCandidates, {p \in links \X links : Stronger(p[1], p[2])})

\* Fault: something that happens at the same time is an effect.
Link_Simultaneous(E) ==
    Strongest({LinkOf(p[1], p[2]) : p \in
        {p \in E \X E : /\ p[2].type \in EffectTypes
                        /\ p[1].id # p[2].id
                        /\ p[2].ts - p[1].ts \in 0..CausalWindow}})

Link(E) ==
    Strongest({LinkOf(p[1], p[2]) : p \in
        {p \in E \X E : MayCause(p[1], p[2], CausalWindow)}})

----------------------------------------------------------------------------
(* The chains of an incident with the events of `ids`, over the links that *)
(* are stored.                                                             *)

\* How many other effects the cause of a link has.
Breadth(l, links, ids) ==
    Cardinality({k \in links : /\ k.cause = l.cause /\ k.effect # l.effect
                               /\ k.effect \in ids})

MoreCorroborated(k, l, links, ids) ==
    LET a == Cardinality(k.heuristics)
        b == Cardinality(l.heuristics)
        p == Breadth(k, links, ids)
        q == Breadth(l, links, ids)
    IN \/ a > b
       \/ a = b /\ p > q
       \/ a = b /\ p = q /\ k.delta < l.delta

CandidateChains(links, ids) ==
    LET chains == {l \in links : l.effect \in ids} IN
    FirstOf(chains, MaxChains,
            {p \in chains \X chains : MoreCorroborated(p[1], p[2], links, ids)})
=============================================================================
