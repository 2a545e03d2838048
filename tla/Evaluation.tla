----------------------------- MODULE Evaluation -----------------------------
(***************************************************************************)
(* The evaluation of the pipeline over its golden incidents: one process   *)
(* that runs case after case, scores them, appends the suite to the        *)
(* history and exits with a verdict, and another that copies the latest    *)
(* verdict of the history to the README.                                   *)
(*                                                                         *)
(* Of the pipeline there is what Pipeline leaves out: what a model call is *)
(* made of, what a document says and what its validation finds.            *)
(***************************************************************************)
EXTENDS Config, ModelProvider, Metrics, SequencesExt

CONSTANTS
    Cases,        \* in the order in which they run
    Title,        \* per case, of its incident
    Evidence,     \* per case, what a run may collect: [timestamps, recurs]
    Analyses,     \* what the analyst may make of a reply
    Drafts,       \* per case, what the model may write
    Environments,
    Rounds,       \* of --sweep-weights, two a signal
    Past          \* what the history may hold already

\* A model that writes nothing at all, and a run that collects nothing, are
\* matters of Pipeline's.
ASSUME DraftsAssumption ==
    \A n \in DOMAIN Cases : \A d \in Drafts[Cases[n]] : d \in Seq(Lines) /\ d # <<>>
ASSUME EvidenceAssumption ==
    \A n \in DOMAIN Cases : \A e \in Evidence[Cases[n]] :
        LET ids == DOMAIN e.timestamps IN
        /\ ids \subseteq Nat /\ IsFiniteSet(ids) /\ ids # {}
        /\ \A id \in ids : e.timestamps[id] \in Int
ASSUME TitleAssumption == \A n \in DOMAIN Cases : Title[Cases[n]] \in Titles

ASSUME RoundsAssumption == Rounds \in Nat \ {0}

\* A case is a directory, so no two are the same; the history is a file of
\* lines.
ASSUME CasesAssumption ==
    /\ Cases \in Seq(ToSet(Cases))
    /\ \A m, n \in DOMAIN Cases : Cases[m] = Cases[n] => m = n
ASSUME PastAssumption == \A p \in Past : p \in Seq(ToSet(p))

VARIABLES
    stage,        \* of the process
    config,
    selected,     \* the cases to run
    rounds,       \* of the sweep, still to come
    todo,
    case,
    evidence,
    call,         \* the model call that is being made
    hypotheses,
    draft, document, report, retries,
    results,
    code,         \* how the process ended
    history,
    readme,       \* the entry it is about, and whether it says passed
    \* Not in the code, for the properties:
    gated,        \* --gate was asked for
    lost          \* the call that made it give up

run == <<config, selected, rounds>>
work == <<case, evidence, hypotheses, retries>>
text == <<draft, document, report>>
files == <<history, readme>>
ending == <<code, gated, lost>>
vars == <<stage, run, todo, work, call, text, results, ending, files>>

NoEvidence == [timestamps |-> <<>>, recurs |-> FALSE]
NoConfig == [provider |-> "mock", threshold |-> 0, max_retries |-> 0]

Stages == {"start", "select", "next", "analyze", "write", "validate", "score",
           "report", "verdict", "done"}

TypeOK ==
    /\ stage \in Stages
    /\ config.threshold \in 0..100
    /\ case \in ToSet(selected) \union {None}
    /\ ToSet(todo) \subseteq ToSet(selected) /\ ToSet(selected) \subseteq ToSet(Cases)
    /\ rounds \in 0..Rounds
    /\ retries \in 0..config.max_retries
    /\ call.request \in 1..Attempts
    /\ report # None => report.cited <= report.factual
                        /\ report.hallucinated + report.mismatches <= report.total
    /\ \A n \in DOMAIN results : results[n].case \in ToSet(selected) \ ToSet(todo)
    /\ code \in {"none", "ok", "failed", "usage", "exception"}
    /\ readme.of \in 0..Len(history)

----------------------------------------------------------------------------
Exit(how) == stage' = "done" /\ code' = how

\* Between two cases nothing of the last one is left but its result.
Forget ==
    /\ case' = None /\ evidence' = NoEvidence /\ hypotheses' = <<>> /\ retries' = 0
    /\ draft' = <<>> /\ document' = None /\ report' = None

\* Nothing catches it, and what has been done by then is gone.
Raise ==
    /\ Exit("exception")
    /\ Forget
    /\ results' = <<>> /\ todo' = <<>>
    /\ UNCHANGED <<run, call, gated, files>>

\* --mock comes before anything else is read.
Configure ==
    /\ stage = "start"
    /\ \E env \in Environments, mock \in BOOLEAN :
        LET e == IF mock THEN [env EXCEPT !.provider = "mock"] ELSE env IN
        \/ /\ Accepted(e)
           /\ config' = Load(e)
           /\ stage' = "select"
           /\ UNCHANGED <<selected, rounds, todo, work, call, text, results,
                          ending, files>>
        \/ ~Accepted(e) /\ Raise /\ UNCHANGED lost

\* --all or --case; an unknown case, or none at all, is a usage error. An
\* option is chosen where it is first read: --sweep-weights here, --no-write
\* in Report, --gate in Verdict.
SelectCases ==
    /\ stage = "select"
    /\ \E cases \in {Cases, <<>>} \union {<<c>> : c \in ToSet(Cases)} :
        IF cases = <<>> THEN Exit("usage") /\ UNCHANGED <<selected, rounds, todo>>
        ELSE /\ selected' = cases /\ todo' = cases
             /\ rounds' \in {0, Rounds}
             /\ stage' = "next"
             /\ UNCHANGED code
    /\ UNCHANGED <<config, work, call, text, results, gated, lost, files>>

----------------------------------------------------------------------------
(* One case.                                                               *)

StartCase ==
    /\ stage = "next" /\ todo # <<>>
    /\ case' = Head(todo)
    /\ todo' = Tail(todo)
    /\ evidence' \in Evidence[case']
    /\ stage' = "analyze"
    /\ call' = Call
    /\ retries' = 0
    /\ UNCHANGED <<run, hypotheses, text, results, ending, files>>

\* The mock finds its events in the prompt, the earliest first.
Before(a, b) ==
    \/ evidence.timestamps[a] < evidence.timestamps[b]
    \/ evidence.timestamps[a] = evidence.timestamps[b] /\ a < b

MockIds ==
    LET ids == DOMAIN evidence.timestamps IN
    [n \in 1..Cardinality(ids) |->
        CHOOSE id \in ids : Cardinality({e \in ids : Before(e, id)}) = n - 1]

FirstIds(ids, n) == {ids[k] : k \in {k \in DOMAIN ids : k <= n}}

\* Two statements of one line each; the scores decide which one leads.
MockAnalyses ==
    LET by(ids) == [supporting |-> ids, tentative |-> TRUE, two_lines |-> FALSE]
        first == by(FirstIds(MockIds, 3))
        second == by(FirstIds(Tail(MockIds), 2))
    IN IF Len(MockIds) = 1 THEN {<<first>>}
       ELSE {<<first, second>>, <<second, first>>}

MockDraft ==
    LET claim(id) == TextLine(<<Sentence("claim", <<[id |-> id, at |-> None]>>)>>)
        second == MockIds[IF Len(MockIds) > 1 THEN 2 ELSE 1]
    IN <<Heading(2, "summary"), claim(MockIds[1]), Heading(2, "impact"),
         claim(second), Heading(2, "contributing factors"), claim(MockIds[1]),
         Heading(2, "corrective actions"), TextLine(<<Sentence("claim", <<>>)>>),
         Heading(2, "open questions"), TextLine(<<Sentence("question", <<>>)>>)>>

\* Of a reply that is not JSON nothing can be made: Stop.
Analyze ==
    /\ stage = "analyze"
    /\ hypotheses' \in IF config.provider = "mock" THEN MockAnalyses
                       ELSE {h \in Analyses : \A n \in DOMAIN h :
                                h[n].supporting \subseteq DOMAIN evidence.timestamps}
    /\ stage' = "write"
    /\ call' = Call
    /\ UNCHANGED <<run, todo, case, evidence, retries, text, results, ending, files>>

\* Fault: a draft counts when it is the model's first.
Write_Uncounted ==
    /\ stage = "write"
    /\ draft' \in IF config.provider = "mock" THEN {MockDraft} ELSE Drafts[case]
    /\ document' = None /\ report' = None
    /\ stage' = "validate"
    /\ UNCHANGED <<run, todo, work, call, results, ending, files>>

\* A draft in place of one that failed counts as a retry. Nothing reads the
\* old report after that.
Write ==
    /\ stage = "write"
    /\ draft' \in IF config.provider = "mock" THEN {MockDraft} ELSE Drafts[case]
    /\ retries' = IF report = None THEN retries ELSE retries + 1
    /\ document' = None /\ report' = None
    /\ stage' = "validate"
    /\ UNCHANGED <<run, todo, case, evidence, hypotheses, call, results, ending, files>>

\* A request fails: another one, or the call does.
RequestFails ==
    /\ stage \in {"analyze", "write"}
    /\ \E f \in Failures(config.provider) :
        LET again == Again(call, config.provider, f) IN
        \/ /\ again # call
           /\ call' = again
           /\ UNCHANGED <<stage, run, todo, work, text, results, ending, files>>
        \/ /\ again = call
           /\ Raise
           /\ lost' = [call |-> call, provider |-> config.provider, failure |-> f]

\* Fault: one repair too many.
MayRetry_OffByOne == retries <= config.max_retries

MayRetry == retries < config.max_retries

\* It is the assembled document that is checked. Accepted or not, the run
\* ends with it once there is nothing left to repair it with. Of one that goes
\* back the model may make anything, so only the report is kept.
ValidateDraft ==
    /\ stage = "validate"
    /\ \E doc \in {Render(Title[case], hypotheses, draft, evidence.recurs)} :
       \E judged \in {Validate(doc, evidence.timestamps, config.threshold)} :
        /\ report' = judged
        /\ \/ /\ ~Passed(judged) /\ MayRetry
              /\ stage' = "write"
              /\ draft' = <<>> /\ document' = None
           \/ /\ Passed(judged) \/ ~MayRetry
              /\ stage' = "score"
              /\ document' = doc
              /\ UNCHANGED draft
    /\ call' = Call
    /\ UNCHANGED <<run, todo, work, results, ending, files>>

\* A sweep's scores are for the screen.
Score ==
    /\ stage = "score"
    /\ results' = IF rounds > 0 THEN results
                  ELSE Append(results,
                    ScoreCase(case, DOMAIN evidence.timestamps, hypotheses, report))
    /\ stage' = "next"
    /\ Forget
    /\ UNCHANGED <<run, todo, call, ending, files>>

\* Fault: a case that raises is skipped.
Stop_SkipsCase ==
    /\ stage \in {"analyze", "write", "validate", "report"}
    /\ stage' = "next"
    /\ Forget
    /\ UNCHANGED <<run, todo, call, results, ending, files>>

\* Whatever else may raise, in a node or on the way to the disk.
Stop ==
    /\ stage \in {"analyze", "write", "validate", "report"}
    /\ Raise
    /\ UNCHANGED lost

----------------------------------------------------------------------------
(* The suite.                                                              *)

\* Of a sweep nothing is kept.
EndRound ==
    /\ stage = "next" /\ todo = <<>>
    /\ IF rounds > 1 THEN /\ todo' = selected /\ rounds' = rounds - 1
                          /\ UNCHANGED <<stage, code>>
       ELSE IF rounds = 1 THEN Exit("ok") /\ UNCHANGED <<todo, rounds>>
       ELSE stage' = "report" /\ UNCHANGED <<todo, rounds, code>>
    /\ UNCHANGED <<config, selected, work, call, text, results, gated, lost, files>>

\* The history is written last, and before the verdict; not with --no-write.
Report ==
    /\ stage = "report"
    /\ history' \in {history, Append(history, Aggregate(results))}
    /\ stage' = "verdict"
    /\ UNCHANGED <<run, todo, work, call, text, results, ending, readme>>

\* Fault: a label that does not resolve is only printed.
CasesFail_Lenient == \E n \in DOMAIN results : results[n].hallucinated > 0

CasesFail == \E n \in DOMAIN results :
    results[n].unresolved # {} \/ results[n].hallucinated > 0

\* --gate asks for more.
Verdict ==
    /\ stage = "verdict"
    /\ gated' \in BOOLEAN
    /\ Exit(IF CasesFail \/ (gated' /\ GateFailures(Aggregate(results)) # {})
            THEN "failed" ELSE "ok")
    /\ UNCHANGED <<run, todo, work, call, text, results, lost, files>>

----------------------------------------------------------------------------
(* update_readme, at any time.                                             *)

\* Fault: it looks at averages of quality only.
Breached_Quality(entry) ==
    entry.coverage < CoverageMin \/ entry.precision < PrecisionMin

Breached(entry) ==
    \/ entry.hallucinated # 0
    \/ entry.coverage < CoverageMin
    \/ entry.precision < PrecisionMin

\* Without a history, or without its place in the README, it changes nothing.
UpdateReadme ==
    /\ history # <<>>
    /\ readme' = [of |-> Len(history), passed |-> ~Breached(Last(history))]
    /\ UNCHANGED <<stage, run, todo, work, call, text, results, ending, history>>

Init ==
    /\ stage = "start" /\ config = NoConfig
    /\ selected = <<>> /\ rounds = 0 /\ todo = <<>>
    /\ case = None /\ evidence = NoEvidence /\ call = Call
    /\ hypotheses = <<>> /\ draft = <<>> /\ document = None
    /\ report = None /\ retries = 0
    /\ results = <<>> /\ code = "none" /\ gated = FALSE /\ lost = None
    /\ history \in Past
    /\ readme = [of |-> 0, passed |-> FALSE]

RunCase ==
    \/ StartCase
    \/ Analyze
    \/ Write
    \/ RequestFails
    \/ ValidateDraft
    \/ Score

Process ==
    \/ Configure
    \/ SelectCases
    \/ RunCase
    \/ Stop
    \/ EndRound
    \/ Report
    \/ Verdict

Next == Process \/ UpdateReadme

Spec == Init /\ [][Next]_vars

\* What every step of the process changes, and no step of update_readme does.
progress == <<stage, call, rounds>>

Runs ==
    /\ stage # "done"
    /\ stage' \in Stages
    /\ call' \in Calls
    /\ rounds' \in 0..Rounds

\* The process is not stopped from outside, and every request is answered or
\* times out: WF_vars(Process), said of what can be told without taking the
\* step again.
FairSpec == Spec /\ WF_progress(Runs)
----------------------------------------------------------------------------
(* Properties.                                                             *)

\* What a reader takes a document apart by, said of all of it at once.
InCode(doc, n) ==
    Cardinality({m \in 1..n - 1 : doc[m].kind = "fence"}) % 2 = 1

ExemptAt(doc, n) == \E m \in 2..n - 1 :
    /\ doc[m].kind = "heading" /\ ~InCode(doc, m)
    /\ doc[m].title \in ExemptSections
    /\ \A k \in m + 1 .. n - 1 :
        doc[k].kind = "heading" /\ ~InCode(doc, k) => doc[k].level > doc[m].level

\* Nothing is cited that is not in the incident, or at a wrong time, and claims
\* are cited to the share asked for. For the claims the title of the incident
\* must not name an exempt section: it is the heading that everything else is
\* under.
SoundlyCited(doc, real, title, threshold) ==
    LET sentences == UNION {{<<n, k>> : k \in DOMAIN doc[n].sentences} :
                                n \in {n \in DOMAIN doc : ~InCode(doc, n)}}
        At(p) == doc[p[1]].sentences[p[2]]
        Cites(p) == {At(p).cites[j] : j \in DOMAIN At(p).cites}
        claims == {p \in sentences : At(p).form = "claim" /\ ~ExemptAt(doc, p[1])}
        cited == {p \in claims : Cites(p) # {}}
    IN /\ \A p \in sentences : \A c \in Cites(p) :
            /\ c.id \in DOMAIN real
            /\ c.at \notin {None, Unparseable} =>
                c.at - real[c.id] \in -Second + 1 .. Second - 1
            /\ c.at # Unparseable
       /\ title \notin ExemptSections =>
            100 * Cardinality(cited) >= threshold * Cardinality(claims)

\* An accepted document is soundly cited, in every sentence outside of code.
PassedIsCited ==
    report # None /\ Passed(report) =>
        SoundlyCited(document, evidence.timestamps, Title[case], config.threshold)

\* What the code says may pass: a rate limit, an error of the server's, a
\* timeout or a dropped connection.
WorthRetrying(f) ==
    \/ f.kind \in {"status", "upstream"} /\ f.status \in {429, 500, 503}
    \/ f.kind \in {"timeout", "network"}

\* A failure that another request cannot mend is never followed by one, and
\* one that may pass ends no call before its last request, but for the timeouts
\* and dropped connections of Anthropic, which are not told from other errors.
\* The delays double, and there is none after the last request.
GivenUpInTime ==
    /\ call.last # NoFailure => WorthRetrying(call.last)
    /\ lost # None =>
        LET untold == /\ lost.provider = "anthropic"
                      /\ lost.failure.kind \in {"timeout", "network"}
        IN /\ WorthRetrying(lost.failure) /\ ~untold => lost.call.request = Attempts
           /\ lost.call.waited = BaseDelay * (PowerOfTwo[lost.call.request - 1] - 1)

\* The history never has half a suite: a case that raises takes the numbers
\* of the others with it.
OnlyWholeSuites ==
    \A n \in DOMAIN history :
        \/ \E p \in Past : n <= Len(p) /\ history[n] = p[n]
        \/ /\ [k \in DOMAIN results |-> results[k].case] = selected
           /\ history[n].cases = Len(selected)

\* Two places decide the gates. What the README says of a gated run is how it
\* ended, unless a label did not resolve: the history knows nothing of labels.
ReadmeTellsTheVerdict ==
    /\ gated /\ code \in {"ok", "failed"}
    /\ readme.of = Len(history) /\ \A p \in Past : readme.of > Len(p)
    => (code = "ok" <=> readme.passed
                      /\ \A n \in DOMAIN results : results[n].unresolved = {})

\* Every suite comes to an end, whatever the model writes.
EverySuiteEnds == <>(stage = "done")
=============================================================================
