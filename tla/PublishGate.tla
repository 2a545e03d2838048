---------------------------- MODULE PublishGate ----------------------------
(***************************************************************************)
(* What one pipeline run promises its reader, with everything that makes   *)
(* the run complicated left out: drafts are written and judged in turn,    *)
(* only a draft that passed is published, a draft is rejected only after   *)
(* the whole repair budget went into it, and the number of drafts is       *)
(* bounded whatever the model answers.  Pipeline implements it.            *)
(***************************************************************************)
EXTENDS Naturals

CONSTANTS
    MaxRetries,   \* repairs a draft is entitled to before it is rejected
    MaxDrafts     \* drafts a run may ever write

VARIABLES
    drafts,       \* drafts written so far
    verdict,      \* what the validator said of the latest draft
    outcome       \* how the run ended, or "open"

vars == <<drafts, verdict, outcome>>

Verdicts == {"unjudged", "failed", "passed"}
Outcomes == {"open", "published", "rejected", "aborted"}

Init ==
    /\ drafts = 0
    /\ verdict = "unjudged"
    /\ outcome = "open"

\* The first draft, or a new one in place of a draft that failed.
Draft ==
    /\ outcome = "open"
    /\ drafts < MaxDrafts
    /\ drafts = 0 \/ verdict = "failed"
    /\ drafts' = drafts + 1
    /\ verdict' = "unjudged"
    /\ UNCHANGED outcome

\* The validator's verdict on the latest draft. A failed one may close the
\* run, but not before the repair budget is spent.
Judge ==
    /\ outcome = "open"
    /\ drafts > 0
    /\ verdict = "unjudged"
    /\ verdict' \in {"failed", "passed"}
    /\ outcome' \in {"open", "rejected"}
    /\ outcome' = "rejected" => verdict' = "failed" /\ drafts > MaxRetries
    /\ UNCHANGED drafts

Publish ==
    /\ outcome = "open"
    /\ verdict = "passed"
    /\ outcome' = "published"
    /\ UNCHANGED <<drafts, verdict>>

\* An exception out of a node, or the step limit.
Abort ==
    /\ outcome = "open"
    /\ outcome' = "aborted"
    /\ UNCHANGED <<drafts, verdict>>

Next == Draft \/ Judge \/ Publish \/ Abort

Spec == Init /\ [][Next]_vars
=============================================================================
