------------------------------- MODULE Events -------------------------------
(***************************************************************************)
(* The vocabulary of evidence that collection, the linker and the graph    *)
(* share.  An event is a record with at least an id, a type and a time;    *)
(* ids are hashes, so their order means nothing, but it breaks ties.       *)
(***************************************************************************)
EXTENDS Integers

EventTypes == {"log_error", "alert_fired", "deploy", "commit", "chat_message"}

\* What may be explained. Changes explain, and are not explained.
EffectTypes == {"log_error", "alert_fired"}

\* Timeline order, by timestamp and then by id.
Before(a, b) == a.ts < b.ts \/ (a.ts = b.ts /\ a.id < b.id)

\* The events of S that directly follow one another.
Consecutive(S) ==
    {l \in S \X S :
        /\ Before(l[1], l[2])
        /\ ~ \E c \in S : Before(l[1], c) /\ Before(c, l[2])}

First(S) == CHOOSE a \in S : \A b \in S \ {a} : Before(a, b)

\* An effect comes strictly after its cause, and within the causal window.
MayCause(cause, effect, window) ==
    /\ effect.type \in EffectTypes
    /\ effect.id # cause.id
    /\ effect.ts - cause.ts > 0
    /\ effect.ts - cause.ts <= window

Ids(S) == {e.id : e \in S}
=============================================================================
