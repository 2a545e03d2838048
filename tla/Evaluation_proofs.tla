------------------------- MODULE Evaluation_proofs --------------------------
(***************************************************************************)
(* What the evaluation keeps to, for any cases, environments, drafts and   *)
(* ways to fail: how long a call is tried, what is in the history and in   *)
(* the README, and what an accepted document cites.                        *)
(***************************************************************************)
EXTENDS Evaluation, Ranks

----------------------------------------------------------------------------
(* The call of a model.                                                    *)

\* What has been waited for is the sum of the delays before the requests, and
\* what was asked again had failed in a way that may pass.
CallInv ==
    /\ config.provider \in {"anthropic", "openrouter", "mock"}
    /\ call.last # NoFailure => WorthRetrying(call.last)
    /\ call.request \in 1..Attempts
    /\ call.waited = BaseDelay * (PowerOfTwo[call.request - 1] - 1)

\* The recursion of PowerOfTwo is the power of two.
LEMMA PowersDouble ==
    /\ PowerOfTwo[0] = 1
    /\ \A n \in 1..Attempts : PowerOfTwo[n] = 2 * PowerOfTwo[n - 1]
    /\ \A n \in 0..Attempts : PowerOfTwo[n] \in Nat
  <1> DEFINE step == [p \in (1..Attempts) \X Nat |-> 2 * p[2]]
  <1>1. Attempts \in Nat
    BY AttemptsAssumption
  <1>2. \A n \in 1..Attempts, s \in Nat : step[<<n, s>>] \in Nat
    OBVIOUS
  <1>3. PICK f \in [0..Attempts -> Nat] : Iterates(f, Attempts, 1, step)
    <2> HIDE DEF step
    <2> QED BY <1>1, <1>2, Recursion, Zenon
  <1>4. f = [n \in 0..Attempts |-> IF n = 0 THEN 1 ELSE 2 * f[n - 1]]
    <2>1. ASSUME NEW n \in 1..Attempts PROVE f[n] = 2 * f[n - 1]
      <3>1. f[n - 1] \in Nat
        BY <1>1
      <3> QED BY <1>3, <3>1 DEF Iterates
    <2> HIDE DEF step
    <2> QED BY <1>1, <1>3, <2>1 DEF Iterates
  <1>5. PowerOfTwo = [n \in 0..Attempts |->
                        IF n = 0 THEN 1 ELSE 2 * PowerOfTwo[n - 1]]
    BY <1>4, Zenon DEF PowerOfTwo
  <1>6. /\ PowerOfTwo[0] = 1
        /\ \A n \in 1..Attempts : PowerOfTwo[n] = 2 * PowerOfTwo[n - 1]
    BY <1>1, <1>5
  <1> DEFINE T == {n \in 0..Attempts : PowerOfTwo[n] \in Nat}
  <1>7. 0 \in T /\ \A n \in 1..Attempts : n - 1 \in T => n \in T
    BY <1>1, <1>6
  <1>8. \A n \in 0..Attempts : n \in T
    <2> HIDE DEF T
    <2> QED BY <1>1, <1>7, Induction
  <1> QED
    BY <1>6, <1>8

\* No call has been made.
LEMMA CallInit == Init => CallInv /\ GivenUpInTime
  <1> SUFFICES ASSUME Init PROVE CallInv /\ GivenUpInTime
    OBVIOUS
  <1>1. /\ call.request = 1 /\ call.waited = 0 /\ call.last = NoFailure
        /\ lost = None /\ config.provider = "mock"
    BY DEF Init, Call, NoConfig
  <1> QED
    BY <1>1, PowersDouble, AttemptsAssumption, BaseDelayAssumption
    DEF CallInv, GivenUpInTime

\* What is retried may pass.
LEMMA OnlyPassingIsRetried ==
    ASSUME NEW provider, NEW f \in Failures(provider), Transient(provider, f)
    PROVE  WorthRetrying(f)
  <1>1. CASE f.kind \in {"timeout", "network"}
    BY <1>1 DEF WorthRetrying
  <1>2. CASE f.kind \in {"status", "upstream"} /\ IsTransient(f.status)
    <2>1. f.status \in Statuses
      BY <1>2 DEF Failures, Failure, Statuses
    <2>2. f.status \in {429, 500, 503}
      BY <1>2, <2>1 DEF Statuses, IsTransient
    <2> QED BY <1>2, <2>2 DEF WorthRetrying
  <1> QED
    BY <1>1, <1>2 DEF Transient

\* Another request waits for as long as all of the delays before, and one base
\* delay.
LEMMA AgainKept ==
    ASSUME CallInv, NEW provider, NEW f \in Failures(provider),
           call' = Again(call, provider, f), UNCHANGED config
    PROVE  CallInv'
  <1>0. Transient(provider, f) => WorthRetrying(f)
    BY OnlyPassingIsRetried
  <1>1. CASE call' = call
    BY <1>1 DEF CallInv
  <1>2. CASE /\ Transient(provider, f) /\ call.request < Attempts
             /\ call' = [request |-> call.request + 1,
                         waited |-> call.waited + Delay(call.request),
                         last |-> f]
    <2> DEFINE n == call.request
               p == PowerOfTwo[n - 1]
    <2>1. n \in 1..Attempts /\ call'.request = n + 1 /\ call'.request \in 1..Attempts
      <3>1. n \in 1..Attempts /\ n < Attempts
        BY <1>2 DEF CallInv
      <3>2. call'.request = n + 1
        BY <1>2
      <3> HIDE DEF n
      <3> QED BY <3>1, <3>2, AttemptsAssumption
    <2>2. PowerOfTwo[n] = 2 * p /\ p \in Nat /\ BaseDelay \in Nat
      <3>1. n - 1 \in 0..Attempts
        BY <2>1, AttemptsAssumption
      <3> QED BY <2>1, <3>1, PowersDouble, BaseDelayAssumption
    <2>3. call'.waited = BaseDelay * (p - 1) + BaseDelay * p
      BY <1>2 DEF CallInv, Delay
    <2>4. BaseDelay * (p - 1) + BaseDelay * p = BaseDelay * (2 * p - 1)
      <3> HIDE DEF p
      <3> QED BY <2>2
    <2>5. call'.request - 1 = n
      BY <2>1
    <2>6. WorthRetrying(call'.last)
      BY <1>0, <1>2
    <2>7. CallInv' <=> /\ config'.provider \in {"anthropic", "openrouter", "mock"}
                       /\ call'.last # NoFailure => WorthRetrying(call'.last)
                       /\ call'.request \in 1..Attempts
                       /\ call'.waited = BaseDelay * (PowerOfTwo[call'.request - 1] - 1)
      BY DEF CallInv
    <2>8. config'.provider \in {"anthropic", "openrouter", "mock"}
      BY DEF CallInv
    <2> HIDE DEF n, p
    <2> QED
      BY <2>1, <2>2, <2>3, <2>4, <2>5, <2>6, <2>7, <2>8
  <1> QED
    BY <1>1, <1>2 DEF Again

\* Only a failed request ends a call before it has an answer, and a failure
\* that may pass ends it only after the last request.
LEMMA CallStep == CallInv /\ GivenUpInTime /\ [Next]_vars => CallInv' /\ GivenUpInTime'
  <1> SUFFICES ASSUME CallInv, GivenUpInTime, [Next]_vars
               PROVE  CallInv' /\ GivenUpInTime'
    OBVIOUS
  <1>1. ASSUME CallInv', UNCHANGED lost PROVE GivenUpInTime'
    BY <1>1 DEF GivenUpInTime, CallInv
  <1>2. ASSUME /\ call' = call \/ call' = Call
               /\ UNCHANGED config \/ Configure
        PROVE  CallInv'
    <2>1. config'.provider \in {"anthropic", "openrouter", "mock"}
      <3>1. CASE UNCHANGED config
        BY <3>1 DEF CallInv
      <3>2. CASE Configure
        <4>1. CASE UNCHANGED config
          BY <4>1 DEF CallInv
        <4>2. CASE \E e : Accepted(e) /\ config' = Load(e)
          BY <4>2 DEF Accepted, AcceptedProvider, Load
        <4> QED BY <3>2, <4>1, <4>2 DEF Configure, Raise, run
      <3> QED BY <1>2, <3>1, <3>2
    <2> QED
      BY <1>2, <2>1, PowersDouble, AttemptsAssumption, BaseDelayAssumption
      DEF CallInv, Call, WorthRetrying
  <1>3. CASE /\ UNCHANGED lost
             /\ call' = call \/ call' = Call
             /\ UNCHANGED config \/ Configure
    BY <1>1, <1>2, <1>3
  <1>4. CASE RequestFails
    <2>0. UNCHANGED config
      BY <1>4 DEF RequestFails, Raise, run
    <2>1. PICK f \in Failures(config.provider) :
            LET again == Again(call, config.provider, f) IN
            \/ /\ call' = again /\ UNCHANGED ending
            \/ /\ again = call /\ UNCHANGED call
               /\ lost' = [call |-> call, provider |-> config.provider, failure |-> f]
      BY <1>4 DEF RequestFails, Raise
    <2>2. CASE call' = Again(call, config.provider, f) /\ UNCHANGED ending
      <3>1. CallInv'
        BY <2>0, <2>2, AgainKept
      <3> QED BY <1>1, <2>2, <3>1 DEF ending
    <2>3. CASE /\ Again(call, config.provider, f) = call /\ UNCHANGED call
               /\ lost' = [call |-> call, provider |-> config.provider, failure |-> f]
      <3>1. Transient(config.provider, f) => ~ (call.request < Attempts)
        <4>1. ASSUME Transient(config.provider, f), call.request < Attempts
              PROVE  FALSE
          <5>1. call.request = call.request + 1
            BY <2>3, <4>1 DEF Again
          <5> QED BY <5>1 DEF CallInv
        <4> QED BY <4>1
      <3>2. Transient(config.provider, f) => call.request = Attempts
        BY <3>1, AttemptsAssumption DEF CallInv
      <3>3. WorthRetrying(f) => \/ Transient(config.provider, f)
                                \/ /\ f.kind \in {"timeout", "network"}
                                   /\ config.provider = "anthropic"
        <4>1. f.kind \in {"status", "upstream"} /\ f.status \in {429, 500, 503}
                => Transient(config.provider, f)
          BY DEF Transient, IsTransient
        <4>2. config.provider \in {"openrouter", "anthropic"}
          BY DEF CallInv, Failures
        <4> QED BY <4>1, <4>2 DEF WorthRetrying, Transient
      <3>4. CallInv'
        BY <1>2, <2>0, <2>3
      <3>5. /\ lost'.call = call /\ lost'.failure = f
            /\ lost'.provider = config.provider
        BY <2>3
      <3>6. GivenUpInTime'
        BY <3>2, <3>3, <3>4, <3>5 DEF GivenUpInTime, CallInv
      <3> QED BY <3>4, <3>6
    <2> QED BY <2>1, <2>2, <2>3
  <1>5. CASE Configure \/ SelectCases \/ EndRound \/ Report \/ Verdict
    BY <1>3, <1>5
    DEF SelectCases, EndRound, Report, Verdict, Configure, Raise, ending, run
  <1>6. CASE StartCase \/ Analyze \/ Write \/ ValidateDraft \/ Score \/ Stop
    BY <1>3, <1>6
    DEF StartCase, Analyze, Write, ValidateDraft, Score, Stop, Raise, ending, run
  <1>7. CASE UpdateReadme \/ UNCHANGED vars
    BY <1>3, <1>7 DEF UpdateReadme, vars, ending, run
  <1> QED
    BY <1>4, <1>5, <1>6, <1>7 DEF Next, Process, RunCase

\* No failure that another request cannot mend is followed by one, and none
\* that may pass ends a call before its last request, but for the timeouts and
\* dropped connections of Anthropic; the waits are those between the requests.
\* (agent/llm.py: RetryingProvider.complete.)
THEOREM GivesUpInTime == Spec => []GivenUpInTime
  BY CallInit, CallStep, PTL DEF Spec

----------------------------------------------------------------------------
(* What is to be done, what is done, and what of it is in the history.     *)

Names == ToSet(Cases)

Distinct(s) == \A m, n \in DOMAIN s : s[m] = s[n] => m = n

\* How many of the selected cases have been started.
Started == Len(selected) - Len(todo)

Running == {"analyze", "write", "validate", "score"}

\* What is still to do is the end of what was selected.
QueueInv ==
    /\ stage \in Stages
    /\ selected \in Seq(Names) /\ Distinct(selected)
    /\ todo \in Seq(Names) /\ Len(todo) <= Len(selected)
    /\ \A j \in 1..Len(todo) : todo[j] = selected[Started + j]
    /\ rounds \in 0..Rounds
    /\ stage \notin {"next"} \union Running => todo = <<>>
    /\ stage \in {"report", "verdict"} => rounds = 0

\* The results are those of the first cases that were selected, in that order,
\* and of a sweep there are none.
ResultsInv ==
    /\ \E S : results \in Seq(S)
    /\ Len(results) + Len(todo) <= Len(selected)
    /\ \A j \in 1..Len(results) : results[j].case = selected[j]
    /\ stage \in {"start", "select"} => results = <<>>
    /\ stage \in Running => Started # 0 /\ case = selected[Started]
    /\ rounds # 0 => results = <<>>
    /\ rounds = 0 =>
        /\ stage = "next" => Len(results) = Started
        /\ stage \in Running => Len(results) = Started - 1
        /\ stage \in {"report", "verdict"} => Len(results) = Len(selected)

Old(n) == \E p \in Past : n <= Len(p) /\ history[n] = p[n]

\* The one entry that is new is made of all of the results.
New(n) ==
    /\ stage \in {"verdict", "done"}
    /\ Len(results) = Len(selected)
    /\ history[n] = Aggregate(results)

HistoryInv ==
    /\ \E S : history \in Seq(S)
    /\ \A n \in DOMAIN history : Old(n) \/ New(n)

Inv == QueueInv /\ ResultsInv /\ HistoryInv

\* Nothing has been selected, and the history is one of the past.
LEMMA InitInv == Init => Inv
  <1> SUFFICES ASSUME Init PROVE Inv
    OBVIOUS
  <1>1. QueueInv
    BY RoundsAssumption DEF Init, QueueInv, Stages, Distinct, Running, Started
  <1>2. ResultsInv
    <2>1. results \in Seq({})
      BY DEF Init
    <2> QED
      BY <2>1 DEF Init, ResultsInv, Running
  <1>3. \A n \in DOMAIN history : Old(n)
    BY PastAssumption DEF Init, Old
  <1>4. \E S : history \in Seq(S)
    BY PastAssumption DEF Init
  <1> QED
    BY <1>1, <1>2, <1>3, <1>4 DEF Inv, HistoryInv

\* A step that leaves the file alone before the verdict keeps what is known of
\* it, which is old.
LEMMA HistoryKept ==
    ASSUME HistoryInv, UNCHANGED history, stage \notin {"verdict", "done"}
    PROVE  HistoryInv'
  <1>1. \A n \in DOMAIN history : Old(n)
    BY DEF HistoryInv, New
  <1>2. \A n \in DOMAIN history' : Old(n)'
    BY <1>1 DEF Old
  <1> QED
    BY <1>2 DEF HistoryInv

\* The process gives up: no results are left, and nothing to do.
LEMMA Raised ==
    ASSUME Inv, Raise, stage \notin {"verdict", "done"}
    PROVE  Inv'
  <1>1. /\ stage' = "done" /\ results' = <<>> /\ todo' = <<>>
        /\ UNCHANGED <<selected, rounds, history>>
    BY DEF Raise, Exit, run, files
  <1>2. selected \in Seq(Names)
    BY DEF Inv, QueueInv
  <1>3. QueueInv'
    BY <1>1, <1>2 DEF Inv, QueueInv, Stages, Distinct, Running
  <1>4. ResultsInv'
    <2>1. results' \in Seq({})
      BY <1>1
    <2> QED
      BY <1>1, <1>2, <2>1 DEF ResultsInv, Running
  <1> QED
    BY <1>1, <1>3, <1>4, HistoryKept DEF Inv

\* A step within a case, which keeps what is done and what is to be done.
LEMMA WithinCase ==
    ASSUME Inv, stage \in Running, stage' \in Running,
           UNCHANGED <<selected, rounds, todo, case, results, history>>
    PROVE  Inv'
  <1>1. QueueInv'
    BY DEF Inv, QueueInv, Running, Stages, Started, Distinct
  <1>2. ResultsInv'
    BY DEF Inv, ResultsInv, Running, Started
  <1> QED
    BY <1>1, <1>2, HistoryKept DEF Inv, Running

\* The settings are read before there is anything to lose.
LEMMA ConfigureStep == Inv /\ Configure => Inv'
  <1> SUFFICES ASSUME Inv, Configure PROVE Inv'
    OBVIOUS
  <1>1. CASE Raise
    BY <1>1, Raised DEF Configure
  <1>2. CASE /\ stage' = "select"
             /\ UNCHANGED <<selected, rounds, todo, work, call, text, results,
                            ending, files>>
    <2>1. UNCHANGED <<selected, rounds, todo, case, results, history>>
      BY <1>2 DEF work, files
    <2>2. stage = "start"
      BY DEF Configure
    <2>3. QueueInv'
      BY <1>2, <2>1, <2>2
      DEF Inv, QueueInv, Stages, Distinct, Running, Started
    <2>4. ResultsInv'
      BY <1>2, <2>1, <2>2 DEF Inv, ResultsInv, Running
    <2> QED
      BY <2>1, <2>2, <2>3, <2>4, HistoryKept DEF Inv
  <1> QED
    BY <1>1, <1>2 DEF Configure

\* What is selected is all of the cases or one, none of them twice.
LEMMA SelectCasesStep == Inv /\ SelectCases => Inv'
  <1> SUFFICES ASSUME Inv, SelectCases PROVE Inv'
    OBVIOUS
  <1>1. /\ stage = "select" /\ results = <<>>
        /\ UNCHANGED <<case, results, history>>
    BY DEF Inv, ResultsInv, SelectCases, work, files
  <1>2. CASE Exit("usage") /\ UNCHANGED <<selected, rounds, todo>>
    <2>1. stage' = "done"
      BY <1>2 DEF Exit
    <2>2. QueueInv'
      BY <1>1, <1>2, <2>1
      DEF Inv, QueueInv, Stages, Distinct, Running, Started
    <2>3. ResultsInv'
      BY <1>1, <1>2, <2>1 DEF Inv, ResultsInv, Running
    <2> QED
      BY <1>1, <2>2, <2>3, HistoryKept DEF Inv
  <1>3. ASSUME NEW cases \in {Cases} \union {<<c>> : c \in ToSet(Cases)},
               selected' = cases, todo' = cases, rounds' \in {0, Rounds},
               stage' = "next"
        PROVE  Inv'
    <2>1. cases \in Seq(Names) /\ Distinct(cases)
      <3>1. CASE cases = Cases
        BY <3>1, CasesAssumption DEF Names, Distinct
      <3>2. ASSUME NEW c \in Names, cases = <<c>>
            PROVE  cases \in Seq(Names) /\ Distinct(cases)
        <4>1. cases \in Seq(Names)
          BY <3>2
        <4>2. \A m \in DOMAIN cases : m = 1
          BY <3>2
        <4> QED
          BY <4>1, <4>2 DEF Distinct
      <3> QED
        BY <1>3, <3>1, <3>2 DEF Names
    <2>2. rounds' \in 0..Rounds
      BY <1>3, RoundsAssumption
    <2>3. Started' = 0 /\ Len(cases) \in Nat
      BY <1>3, <2>1 DEF Started
    <2>4. QueueInv'
      BY <1>3, <2>1, <2>2, <2>3 DEF QueueInv, Stages, Running, Distinct
    <2>5. ResultsInv'
      <3>1. results' \in Seq({}) /\ Len(results') = 0
        BY <1>1
      <3>2. Len(todo') = Len(selected')
        BY <1>3
      <3> QED
        BY <1>1, <1>3, <2>3, <3>1, <3>2 DEF ResultsInv, Running
    <2> QED
      BY <1>1, <2>4, <2>5, HistoryKept DEF Inv
  <1> QED
    BY <1>2, <1>3 DEF SelectCases

\* The next case is the first of those still to do.
LEMMA StartCaseStep == Inv /\ StartCase => Inv'
  <1> SUFFICES ASSUME Inv, StartCase PROVE Inv'
    OBVIOUS
  <1>1. /\ stage = "next" /\ todo # <<>> /\ stage' = "analyze"
        /\ case' = Head(todo) /\ todo' = Tail(todo)
        /\ UNCHANGED <<selected, rounds, results, history>>
    BY DEF StartCase, run, files
  <1>2. /\ todo \in Seq(Names) /\ selected \in Seq(Names)
        /\ Len(todo) \in 1..Len(selected)
        /\ \A j \in 1..Len(todo) : todo[j] = selected[Started + j]
    BY <1>1 DEF Inv, QueueInv
  <1>3. /\ Len(todo') = Len(todo) - 1 /\ todo' \in Seq(Names)
        /\ \A j \in 1..Len(todo') : todo'[j] = todo[j + 1]
    BY <1>1, <1>2
  <1>4. Started \in Nat /\ Started' = Started + 1 /\ Started' <= Len(selected)
    BY <1>1, <1>2, <1>3 DEF Started
  <1>5. \A j \in 1..Len(todo') : todo'[j] = selected[Started' + j]
    <2>1. ASSUME NEW j \in 1..Len(todo') PROVE todo'[j] = selected[Started' + j]
      <3>1. j + 1 \in 1..Len(todo)
        BY <1>2, <1>3
      <3>2. todo[j + 1] = selected[Started + (j + 1)]
        BY <1>2, <3>1
      <3>3. Started + (j + 1) = Started' + j
        BY <1>4
      <3> QED
        BY <1>3, <3>2, <3>3
    <2> QED
      BY <2>1
  <1>6. case' = selected[Started']
    <2>1. case' = todo[1]
      BY <1>1, <1>2
    <2> QED
      BY <1>2, <1>4, <2>1
  <1>7. QueueInv'
    BY <1>1, <1>2, <1>3, <1>5 DEF Inv, QueueInv, Stages, Distinct, Running
  <1>8. ResultsInv'
    <2>1. /\ \E S : results \in Seq(S)
          /\ Len(results) + Len(todo) <= Len(selected)
          /\ rounds = 0 => Len(results) = Started
      BY <1>1 DEF Inv, ResultsInv
    <2>2. rounds = 0 => Len(results) = Started' - 1
      BY <1>4, <2>1
    <2>3. Len(results) + Len(todo') <= Len(selected)
      BY <1>2, <1>3, <2>1
    <2> QED
      BY <1>1, <1>4, <1>6, <2>1, <2>2, <2>3 DEF Inv, ResultsInv, Running
  <1> QED
    BY <1>1, <1>7, <1>8, HistoryKept DEF Inv

\* The hypotheses are nothing the history is about.
LEMMA AnalyzeStep == Inv /\ Analyze => Inv'
  <1> SUFFICES ASSUME Inv, Analyze PROVE Inv'
    OBVIOUS
  <1>1. /\ stage = "analyze" /\ stage' = "write"
        /\ UNCHANGED <<selected, rounds, todo, case, results, history>>
    BY DEF Analyze, run, files
  <1> QED
    BY <1>1, WithinCase DEF Running

\* Nor is a draft.
LEMMA WriteStep == Inv /\ Write => Inv'
  <1> SUFFICES ASSUME Inv, Write PROVE Inv'
    OBVIOUS
  <1>1. /\ stage = "write" /\ stage' = "validate"
        /\ UNCHANGED <<selected, rounds, todo, case, results, history>>
    BY DEF Write, run, files
  <1> QED
    BY <1>1, WithinCase DEF Running

\* A request that fails is made again, or the process ends.
LEMMA RequestFailsStep == Inv /\ RequestFails => Inv'
  <1> SUFFICES ASSUME Inv, RequestFails PROVE Inv'
    OBVIOUS
  <1>1. stage \in {"analyze", "write"}
    BY DEF RequestFails
  <1>2. \/ UNCHANGED <<stage, run, todo, work, text, results, ending, files>>
        \/ Raise
    BY DEF RequestFails
  <1>3. CASE Raise
    BY <1>1, <1>3, Raised
  <1>4. CASE UNCHANGED <<stage, run, todo, work, text, results, ending, files>>
    <2>1. UNCHANGED <<stage, selected, rounds, todo, case, results, history>>
      BY <1>4 DEF run, work, files
    <2> QED
      BY <1>1, <2>1, WithinCase DEF Running
  <1> QED
    BY <1>2, <1>3, <1>4

\* Nor is a report, accepted or not.
LEMMA ValidateDraftStep == Inv /\ ValidateDraft => Inv'
  <1> SUFFICES ASSUME Inv, ValidateDraft PROVE Inv'
    OBVIOUS
  <1>1. /\ stage = "validate" /\ stage' \in {"write", "score"}
        /\ UNCHANGED <<run, todo, work, results, files>>
    BY DEF ValidateDraft
  <1>2. UNCHANGED <<selected, rounds, todo, case, results, history>>
    BY <1>1 DEF run, work, files
  <1> QED
    BY <1>1, <1>2, WithinCase DEF Running

\* The case that was started last gets the one result it did not have.
LEMMA ScoreStep == Inv /\ Score => Inv'
  <1> SUFFICES ASSUME Inv, Score PROVE Inv'
    OBVIOUS
  <1> DEFINE x == ScoreCase(case, DOMAIN evidence.timestamps, hypotheses, report)
  <1>1. /\ stage = "score" /\ stage' = "next"
        /\ results' = IF rounds > 0 THEN results ELSE Append(results, x)
        /\ UNCHANGED <<selected, rounds, todo, history>>
    BY DEF Score, run, files
  <1>2. QueueInv'
    BY <1>1 DEF Inv, QueueInv, Stages, Distinct, Running, Started
  <1>3. PICK S : results \in Seq(S)
    BY DEF Inv, ResultsInv
  <1>4. /\ case = selected[Started] /\ Started' = Started
        /\ Len(todo) \in Nat /\ Len(selected) \in Nat /\ rounds \in Nat
        /\ Len(results) + Len(todo) <= Len(selected)
    BY <1>1, RoundsAssumption DEF Inv, QueueInv, ResultsInv, Running, Started
  <1>5. x.case = selected[Started]
    BY <1>4 DEF ScoreCase
  <1> HIDE DEF x
  <1>6. CASE rounds # 0
    <2>1. results' = results
      BY <1>1, <1>4, <1>6
    <2> QED
      BY <1>1, <1>2, <1>6, <2>1, HistoryKept DEF Inv, ResultsInv, Running
  <1>7. CASE rounds = 0
    <2>1. results' = Append(results, x) /\ Len(results) = Started - 1
      BY <1>1, <1>7 DEF Inv, ResultsInv, Running
    <2>2. results' \in Seq(S \union {x}) /\ Len(results') = Len(results) + 1
      BY <1>3, <2>1
    <2>3. Len(results') = Started /\ Len(results') + Len(todo) <= Len(selected)
      BY <1>3, <1>4, <2>1, <2>2 DEF Started
    <2>4. ASSUME NEW j \in 1..Len(results') PROVE results'[j].case = selected[j]
      <3>1. CASE j = Started
        <4>1. results'[j] = x
          BY <1>3, <2>1, <2>2, <2>3, <3>1
        <4> QED
          BY <1>5, <3>1, <4>1
      <3>2. CASE j # Started
        <4>1. j \in 1..Len(results) /\ results'[j] = results[j]
          BY <1>3, <2>1, <2>2, <2>3, <3>2
        <4> QED
          BY <4>1 DEF Inv, ResultsInv
      <3> QED
        BY <3>1, <3>2
    <2>5. ResultsInv'
      BY <1>1, <1>4, <1>7, <2>2, <2>3, <2>4 DEF ResultsInv, Running
    <2> QED
      BY <1>1, <1>2, <2>5, HistoryKept DEF Inv
  <1> QED
    BY <1>6, <1>7

\* Any other exception ends the process.
LEMMA StopStep == Inv /\ Stop => Inv'
  BY Raised DEF Stop

\* After the last case there is a result for each, but not in a sweep, which
\* never comes to a report.
LEMMA EndRoundStep == Inv /\ EndRound => Inv'
  <1> SUFFICES ASSUME Inv, EndRound PROVE Inv'
    OBVIOUS
  <1>1. /\ stage = "next" /\ todo = <<>>
        /\ UNCHANGED <<selected, case, results, history>>
    BY DEF EndRound, work, files
  <1>2. /\ selected \in Seq(Names) /\ Distinct(selected) /\ rounds \in 0..Rounds
        /\ Started = Len(selected) /\ Rounds \in Nat
    BY <1>1, RoundsAssumption DEF Inv, QueueInv, Started
  <1>3. CASE rounds > 1
    <2>1. todo' = selected /\ rounds' = rounds - 1 /\ stage' = "next"
      BY <1>1, <1>3 DEF EndRound
    <2>2. Started' = 0
      BY <1>1, <1>2, <2>1 DEF Started
    <2>3. rounds' \in 0..Rounds /\ rounds' # 0
      BY <1>2, <1>3, <2>1
    <2>4. QueueInv'
      BY <1>1, <1>2, <2>1, <2>2, <2>3 DEF QueueInv, Stages, Running, Distinct
    <2>5. results = <<>>
      BY <1>3 DEF Inv, ResultsInv
    <2>6. results' \in Seq({}) /\ Len(results') = 0
      BY <1>1, <2>5
    <2>7. ResultsInv'
      BY <1>1, <1>2, <2>1, <2>3, <2>5, <2>6 DEF ResultsInv, Running
    <2> QED
      BY <1>1, <2>4, <2>7, HistoryKept DEF Inv
  <1>4. CASE rounds = 1
    <2>1. stage' = "done" /\ UNCHANGED <<todo, rounds>>
      BY <1>4 DEF EndRound, Exit
    <2>2. QueueInv'
      BY <1>1, <2>1 DEF Inv, QueueInv, Stages, Running, Distinct, Started
    <2>3. ResultsInv'
      BY <1>1, <1>4, <2>1 DEF Inv, ResultsInv, Running
    <2> QED
      BY <1>1, <2>2, <2>3, HistoryKept DEF Inv
  <1>5. CASE rounds = 0
    <2>1. stage' = "report" /\ UNCHANGED <<todo, rounds>>
      BY <1>5 DEF EndRound
    <2>2. QueueInv'
      BY <1>1, <1>5, <2>1 DEF Inv, QueueInv, Stages, Running, Distinct, Started
    <2>3. Len(results) = Len(selected)
      BY <1>1, <1>2, <1>5 DEF Inv, ResultsInv
    <2>4. ResultsInv'
      BY <1>1, <1>5, <2>1, <2>3 DEF Inv, ResultsInv, Running
    <2> QED
      BY <1>1, <2>2, <2>4, HistoryKept DEF Inv
  <1> QED
    BY <1>2, <1>3, <1>4, <1>5

\* The entry that is appended is about all the cases, each of them once.
LEMMA ReportStep == Inv /\ Report => Inv'
  <1> SUFFICES ASSUME Inv, Report PROVE Inv'
    OBVIOUS
  <1> DEFINE entry == Aggregate(results)
  <1>1. /\ stage = "report" /\ stage' = "verdict"
        /\ history' \in {history, Append(history, entry)}
        /\ UNCHANGED <<selected, rounds, todo, case, results>>
    BY DEF Report, run, work
  <1>2. rounds = 0 /\ selected \in Seq(Names) /\ todo = <<>>
    BY <1>1 DEF Inv, QueueInv, Running
  <1>3. Len(results) = Len(selected)
    BY <1>1, <1>2 DEF Inv, ResultsInv
  <1>4. QueueInv'
    BY <1>1, <1>2 DEF Inv, QueueInv, Stages, Running, Distinct
  <1>5. ResultsInv'
    BY <1>1, <1>2, <1>3 DEF Inv, ResultsInv, Running
  <1>6. PICK S : history \in Seq(S)
    BY DEF Inv, HistoryInv
  <1>7. \A n \in DOMAIN history : Old(n)
    BY <1>1 DEF Inv, HistoryInv, New
  <1> HIDE DEF entry
  <1>8. history' \in Seq(S \union {entry})
    BY <1>1, <1>6
  <1>9. \A n \in DOMAIN history' :
            \/ n \in DOMAIN history /\ history'[n] = history[n]
            \/ history'[n] = entry
    BY <1>1, <1>6
  <1>10. entry = Aggregate(results')
    BY <1>1 DEF entry
  <1>11. ASSUME NEW n \in DOMAIN history' PROVE Old(n)' \/ New(n)'
    BY <1>1, <1>3, <1>7, <1>9, <1>10 DEF Old, New
  <1>12. HistoryInv'
    BY <1>8, <1>11 DEF HistoryInv
  <1> QED
    BY <1>4, <1>5, <1>12 DEF Inv

\* The verdict changes neither results nor history.
LEMMA VerdictStep == Inv /\ Verdict => Inv'
  <1> SUFFICES ASSUME Inv, Verdict PROVE Inv'
    OBVIOUS
  <1>1. /\ stage = "verdict" /\ stage' = "done"
        /\ UNCHANGED <<selected, rounds, todo, results, history>>
    BY DEF Verdict, Exit, run, files
  <1>2. QueueInv'
    BY <1>1 DEF Inv, QueueInv, Stages, Running, Distinct, Started
  <1>3. ResultsInv'
    BY <1>1 DEF Inv, ResultsInv, Running
  <1>4. HistoryInv'
    BY <1>1 DEF Inv, HistoryInv, Old, New
  <1> QED
    BY <1>2, <1>3, <1>4 DEF Inv

\* update_readme, and doing nothing.
LEMMA ElsewhereStep ==
    ASSUME Inv, UNCHANGED <<stage, selected, rounds, todo, case, results, history>>
    PROVE  Inv'
  <1>1. QueueInv'
    BY DEF Inv, QueueInv, Started, Distinct
  <1>2. ResultsInv'
    BY DEF Inv, ResultsInv, Started
  <1>3. HistoryInv'
    BY DEF Inv, HistoryInv, Old, New
  <1> QED
    BY <1>1, <1>2, <1>3 DEF Inv

\* Every step keeps the invariant.
LEMMA NextInv == Inv /\ [Next]_vars => Inv'
  <1>1. ASSUME Inv, RunCase PROVE Inv'
    BY <1>1, StartCaseStep, AnalyzeStep, WriteStep, RequestFailsStep,
       ValidateDraftStep, ScoreStep DEF RunCase
  <1>2. ASSUME Inv, Process PROVE Inv'
    BY <1>1, <1>2, ConfigureStep, SelectCasesStep, StopStep, EndRoundStep,
       ReportStep, VerdictStep DEF Process
  <1>3. ASSUME Inv, UpdateReadme \/ UNCHANGED vars PROVE Inv'
    <2>1. UNCHANGED <<stage, selected, rounds, todo, case, results, history>>
      BY <1>3 DEF UpdateReadme, vars, run, work, files
    <2> QED
      BY <1>3, <2>1, ElsewhereStep
  <1> QED
    BY <1>2, <1>3 DEF Next

\* What is new in the history is made of as many results as there were cases
\* selected, in their order.
LEMMA WholeSuites == Inv => OnlyWholeSuites
  <1> SUFFICES ASSUME Inv PROVE OnlyWholeSuites
    OBVIOUS
  <1>1. ASSUME NEW n \in DOMAIN history, New(n)
        PROVE  /\ [k \in DOMAIN results |-> results[k].case] = selected
               /\ history[n].cases = Len(selected)
    <2> DEFINE cases == [k \in DOMAIN results |-> results[k].case]
    <2>1. /\ Len(results) = Len(selected) /\ history[n] = Aggregate(results)
          /\ \E S : results \in Seq(S)
          /\ selected \in Seq(Names)
          /\ \A j \in 1..Len(results) : results[j].case = selected[j]
      BY <1>1 DEF New, Inv, ResultsInv, QueueInv
    <2>2. DOMAIN results = 1..Len(selected) /\ DOMAIN selected = 1..Len(selected)
      BY <2>1
    <2>3. selected = [k \in 1..Len(selected) |-> selected[k]]
      BY <2>1
    <2>4. cases = selected
      BY <2>1, <2>2, <2>3
    <2>5. history[n].cases = Len(selected)
      BY <2>1 DEF Aggregate
    <2> QED
      BY <2>4, <2>5
  <1> QED
    BY <1>1 DEF Inv, HistoryInv, OnlyWholeSuites, Old

\* The history never holds half a suite: its entries are those of before, or
\* the one of a suite with a result for every case that was selected, whatever
\* fails. (evals/runner.py: main, write_results.)
THEOREM SuitesAreWhole == Spec => []OnlyWholeSuites
  BY InitInv, NextInv, WholeSuites, PTL DEF Spec

----------------------------------------------------------------------------
(* Documents: putting one together makes lines of lines.                   *)

\* The lines the program makes are lines.
LEMMA LinesMade ==
    /\ \A level \in Nat \ {0}, title \in Titles : Heading(level, title) \in Lines
    /\ \A kind \in {"fence", "quote", "table", "metadata"} : Line(kind) \in Lines
    /\ \A s \in Seq(Sentences) : TextLine(s) \in Lines
  <1>1. "" \in Titles
    BY TitlesAssumption
  <1>5. <<>> \in Seq(Sentences)
    OBVIOUS
  <1>2. ASSUME NEW level \in Nat \ {0}, NEW title \in Titles
        PROVE  Heading(level, title) \in Lines
    <2>1. Heading(level, title)
            = [kind |-> "heading", level |-> level, title |-> title, sentences |-> <<>>]
      BY DEF Heading
    <2>2. level # 0 /\ level \in Nat
      OBVIOUS
    <2>3. [kind |-> "heading", level |-> level, title |-> title, sentences |-> <<>>]
            \in Lines
      BY <1>5, <2>2 DEF Lines
    <2> QED
      BY <2>1, <2>3
  <1>3. ASSUME NEW kind \in {"fence", "quote", "table", "metadata"}
        PROVE  Line(kind) \in Lines
    BY <1>1, <1>5 DEF Line, Lines
  <1>4. ASSUME NEW s \in Seq(Sentences) PROVE TextLine(s) \in Lines
    BY <1>1, <1>5 DEF TextLine, Line, Lines
  <1> QED
    BY <1>2, <1>3, <1>4

\* A search finds what it looks for, or the end.
LEMMA FirstFound ==
    ASSUME NEW doc \in Seq(Lines), NEW S \in SUBSET (1..Len(doc))
    PROVE  /\ FirstIn(S, doc) \in 1..(Len(doc) + 1)
           /\ FirstIn(S, doc) <= Len(doc) => FirstIn(S, doc) \in S
  <1>1. CASE S = {}
    BY <1>1 DEF FirstIn
  <1>2. CASE S # {}
    <2>1. \E n \in S : \A m \in S : n <= m
      BY <1>2, Least
    <2>2. FirstIn(S, doc) = CHOOSE n \in S : \A m \in S : n <= m
      BY <1>2 DEF FirstIn
    <2>3. (CHOOSE n \in S : \A m \in S : n <= m) \in S
      BY <2>1, Zenon
    <2>4. FirstIn(S, doc) \in S
      BY <2>2, <2>3, Zenon
    <2>5. FirstIn(S, doc) \in 1..Len(doc)
      BY <2>4
    <2> QED
      BY <2>4, <2>5
  <1> QED
    BY <1>1, <1>2

\* The beginning and the end of a document are documents.
LEMMA Parts ==
    ASSUME NEW doc \in Seq(Lines), NEW n \in 1..(Len(doc) + 1)
    PROVE  /\ SubSeq(doc, 1, n - 1) \in Seq(Lines)
           /\ SubSeq(doc, n, Len(doc)) \in Seq(Lines)
           /\ n <= Len(doc) => SubSeq(doc, n + 1, Len(doc)) \in Seq(Lines)
  <1>1. Len(doc) \in Nat /\ \A i \in 1..Len(doc) : doc[i] \in Lines
    OBVIOUS
  <1>2. SubSeq(doc, 1, n - 1) \in Seq(Lines)
    BY <1>1
  <1>3. SubSeq(doc, n, Len(doc)) \in Seq(Lines)
    BY <1>1
  <1>4. n <= Len(doc) => SubSeq(doc, n + 1, Len(doc)) \in Seq(Lines)
    BY <1>1
  <1> QED
    BY <1>2, <1>3, <1>4

\* Nothing but hashes is put in front of what follows the model's timeline.
LEMMA GluedLines ==
    ASSUME NEW hashes \in Nat, NEW rest \in Seq(Lines)
    PROVE  Glued(hashes, rest) \in Seq(Lines)
  <1>1. CASE rest = <<>>
    BY <1>1 DEF Glued
  <1>2. CASE rest # <<>>
    <2> DEFINE first == [rest[1] EXCEPT !.level = @ + hashes]
    <2>1. rest[1] \in Lines
      BY <1>2
    <2>2. first \in Lines
      <3> DEFINE l == rest[1]
      <3>1. l \in Lines
        BY <2>1
      <3> HIDE DEF l
      <3>2. [l EXCEPT !.level = @ + hashes] \in Lines
        BY <3>1 DEF Lines
      <3> QED
        BY <3>2 DEF l
    <2>3. Glued(hashes, rest) = <<first>> \o Tail(rest)
      BY <1>2 DEF Glued
    <2>4. Tail(rest) \in Seq(Lines)
      BY <1>2
    <2> HIDE DEF first
    <2>5. <<first>> \in Seq(Lines)
      BY <2>2
    <2> QED
      BY <2>3, <2>4, <2>5
  <1> QED
    BY <1>1, <1>2

\* A draft without the model's timeline is one.
LEMMA StrippedLines ==
    ASSUME NEW draft_ \in Seq(Lines)
    PROVE  StripModelTimeline(draft_) \in Seq(Lines)
  <1> DEFINE start == FirstIn(Headed(draft_, "timeline"), draft_)
             sections == {n \in start + 1 .. Len(draft_) :
                            draft_[n].kind = "heading" /\ draft_[n].level = 2}
             end == FirstIn(sections, draft_)
             rest == SubSeq(draft_, end, Len(draft_))
  <1>1. /\ start \in 1..(Len(draft_) + 1)
        /\ start <= Len(draft_) => start \in Headed(draft_, "timeline")
    <2>1. Headed(draft_, "timeline") \in SUBSET (1..Len(draft_))
      BY DEF Headed
    <2> QED
      BY <2>1, FirstFound
  <1>2. CASE start > Len(draft_)
    BY <1>2 DEF StripModelTimeline
  <1>3. CASE ~ (start > Len(draft_))
    <2>1. start \in 1..Len(draft_) /\ draft_[start] \in Lines
      BY <1>1, <1>3
    <2>2. draft_[start].level - 2 \in Nat
      BY <1>1, <2>1 DEF Headed, Lines
    <2>3. sections \in SUBSET (1..Len(draft_))
      BY <1>1
    <2>4. end \in 1..(Len(draft_) + 1)
      <3> HIDE DEF sections
      <3> QED
        BY <2>3, FirstFound
    <2>5. rest \in Seq(Lines) /\ SubSeq(draft_, 1, start - 1) \in Seq(Lines)
      <3> HIDE DEF start, end
      <3> QED
        BY <1>1, <2>4, Parts
    <2>6. StripModelTimeline(draft_)
            = SubSeq(draft_, 1, start - 1) \o Glued(draft_[start].level - 2, rest)
      BY <1>3 DEF StripModelTimeline
    <2>7. Glued(draft_[start].level - 2, rest) \in Seq(Lines)
      <3> HIDE DEF start, rest
      <3> QED
        BY <2>2, <2>5, GluedLines
    <2> HIDE DEF start, rest
    <2> QED
      BY <2>5, <2>6, <2>7
  <1> QED
    BY <1>2, <1>3

\* What is generated goes in between two parts of it.
LEMMA SectionsGenerated ==
    ASSUME NEW draft_ \in Seq(Lines), NEW recurs
    PROVE  WithGeneratedSections(draft_, recurs) \in Seq(Lines)
  <1> DEFINE stripped == StripModelTimeline(draft_)
             at == FirstIn(Headed(stripped, "hypotheses"), stripped)
             rest == IF at > Len(stripped) THEN <<>>
                     ELSE <<[stripped[at] EXCEPT !.level = 2]>>
                          \o SubSeq(stripped, at + 1, Len(stripped))
  <1>1. stripped \in Seq(Lines)
    BY StrippedLines
  <1>2. Generated(recurs) \in Seq(Lines)
    <2>1. /\ Heading(2, "timeline") \in Lines /\ Line("table") \in Lines
          /\ Heading(2, "similar past incidents") \in Lines /\ Line("quote") \in Lines
      <3>1. "timeline" \in Titles /\ "similar past incidents" \in Titles
        BY TitlesAssumption
      <3>2. 2 \in Nat \ {0}
        OBVIOUS
      <3> QED
        BY <3>1, <3>2, LinesMade
    <2>2. Timeline \in Seq(Lines) /\ SimilarIncidents \in Seq(Lines)
      <3> DEFINE a == Heading(2, "timeline")
                 b == Heading(2, "similar past incidents")
                 c == Line("table")
                 d == Line("quote")
      <3> HIDE DEF a, b, c, d
      <3>1. a \in Lines /\ b \in Lines /\ c \in Lines /\ d \in Lines
        BY <2>1 DEF a, b, c, d
      <3>2. <<a, c>> \in Seq(Lines)
        BY <3>1
      <3>3. <<b, d, c>> \in Seq(Lines)
        BY <3>1
      <3> QED
        BY <3>2, <3>3 DEF Timeline, SimilarIncidents, a, b, c, d
    <2>3. Timeline \o SimilarIncidents \in Seq(Lines) /\ Timeline \o <<>> \in Seq(Lines)
      BY <2>2
    <2> QED
      BY <2>3 DEF Generated
  <1>3. WithGeneratedSections(draft_, recurs)
          = SubSeq(stripped, 1, at - 1) \o Generated(recurs) \o rest
    BY DEF WithGeneratedSections
  <1> HIDE DEF stripped
  <1>4. at \in 1..(Len(stripped) + 1)
    <2>1. Headed(stripped, "hypotheses") \in SUBSET (1..Len(stripped))
      BY <1>1 DEF Headed
    <2> QED
      BY <1>1, <2>1, FirstFound
  <1> HIDE DEF at
  <1>5. /\ SubSeq(stripped, 1, at - 1) \in Seq(Lines)
        /\ at <= Len(stripped) => SubSeq(stripped, at + 1, Len(stripped)) \in Seq(Lines)
    BY <1>1, <1>4, Parts
  <1>6. rest \in Seq(Lines)
    <2>1. CASE at > Len(stripped)
      BY <2>1
    <2>2. CASE ~ (at > Len(stripped))
      <3> DEFINE first == [stripped[at] EXCEPT !.level = 2]
      <3>1. stripped[at] \in Lines
        BY <1>1, <1>4, <2>2
      <3>2. first \in Lines
        <4> DEFINE l == stripped[at]
        <4> HIDE DEF l
        <4>1. l \in Lines
          BY <3>1 DEF l
        <4>2. [l EXCEPT !.level = 2] \in Lines
          <5>1. 2 \in Nat /\ 2 # 0
            OBVIOUS
          <5> QED
            BY <4>1, <5>1 DEF Lines
        <4> QED
          BY <4>2 DEF l
      <3>3. SubSeq(stripped, at + 1, Len(stripped)) \in Seq(Lines)
        BY <1>1, <1>4, <1>5, <2>2
      <3>4. rest = <<first>> \o SubSeq(stripped, at + 1, Len(stripped))
        BY <2>2
      <3> HIDE DEF first, rest
      <3>5. <<first>> \in Seq(Lines)
        BY <3>2
      <3> QED
        BY <3>3, <3>4, <3>5
    <2> QED
      BY <2>1, <2>2
  <1> HIDE DEF rest
  <1>7. SubSeq(stripped, 1, at - 1) \o Generated(recurs) \in Seq(Lines)
    BY <1>2, <1>5
  <1> QED
    BY <1>3, <1>6, <1>7

\* A document is lines, and the first one is the title of the incident.
LEMMA Rendered ==
    ASSUME NEW draft_ \in Seq(Lines), NEW title \in Titles,
           NEW hypotheses_, NEW recurs
    PROVE  /\ Render(title, hypotheses_, draft_, recurs) \in Seq(Lines)
           /\ Len(Render(title, hypotheses_, draft_, recurs)) # 0
           /\ Render(title, hypotheses_, draft_, recurs)[1] = Heading(1, title)
  <1> DEFINE body == WithGeneratedSections(draft_, recurs)
             top == <<Heading(1, title), Line("metadata")>>
             lead == Leading(hypotheses_)
  <1>1. body \in Seq(Lines)
    BY SectionsGenerated
  <1>2. /\ Heading(1, title) \in Lines /\ Line("metadata") \in Lines
        /\ Line("quote") \in Lines
    BY LinesMade
  <1>3. lead \in Seq(Lines)
    <2>1. TextLine(<<Sentence("claim", <<>>)>>) \in Lines
      <3>1. Sentence("claim", <<>>) \in Sentences
        BY DEF Sentence, Sentences
      <3>2. <<Sentence("claim", <<>>)>> \in Seq(Sentences)
        BY <3>1
      <3> QED
        BY <3>2, LinesMade
    <2>2. /\ <<Line("quote")>> \in Seq(Lines) /\ <<Line("metadata")>> \in Seq(Lines)
          /\ <<TextLine(<<Sentence("claim", <<>>)>>)>> \in Seq(Lines)
          /\ <<>> \in Seq(Lines)
      BY <1>2, <2>1
    <2> QED
      BY <2>2 DEF Leading
  <1>4. top \in Seq(Lines) /\ Len(top) = 2 /\ top[1] = Heading(1, title)
    BY <1>2
  <1>5. Render(title, hypotheses_, draft_, recurs) = (top \o lead) \o body
    BY DEF Render, Header
  <1> HIDE DEF body, top, lead
  <1> DEFINE header == top \o lead
  <1>6. header \in Seq(Lines)
    BY <1>3, <1>4
  <1>7. Len(header) = 2 + Len(lead) /\ Len(lead) \in Nat
    <2>1. Len(header) = Len(top) + Len(lead)
      <3>1. top \in Seq(Lines) /\ lead \in Seq(Lines)
        BY <1>3, <1>4
      <3> QED
        BY <3>1
    <2>2. Len(lead) \in Nat
      BY <1>3
    <2> QED
      BY <1>4, <2>1, <2>2
  <1>8. header[1] = top[1]
    BY <1>3, <1>4, <1>7
  <1> HIDE DEF header
  <1>9. header \o body \in Seq(Lines) /\ Len(header \o body) = Len(header) + Len(body)
    BY <1>1, <1>6
  <1>10. (header \o body)[1] = header[1] /\ Len(header \o body) # 0
    BY <1>1, <1>6, <1>7, <1>9
  <1> QED
    BY <1>4, <1>5, <1>8, <1>9, <1>10 DEF header

----------------------------------------------------------------------------
(* Documents: what the validator reads, line after line, is what a reader  *)
(* takes them apart by.                                                    *)

Fences(doc, n) == {m \in 1..n : doc[m].kind = "fence"}

\* The fences up to a line are those before it, and itself if it is one.
LEMMA FencesGrow ==
    ASSUME NEW doc \in Seq(Lines), NEW n \in 1..Len(doc)
    PROVE  /\ IsFiniteSet(Fences(doc, n)) /\ IsFiniteSet(Fences(doc, n - 1))
           /\ Cardinality(Fences(doc, n - 1)) \in Nat
           /\ Cardinality(Fences(doc, n)) = Cardinality(Fences(doc, n - 1))
                + (IF doc[n].kind = "fence" THEN 1 ELSE 0)
  <1> DEFINE S == Fences(doc, n - 1)
             T == Fences(doc, n)
  <1>1. IsFiniteSet(S) /\ IsFiniteSet(T)
    <2>1. IsFiniteSet(1..n) /\ IsFiniteSet(1..(n - 1))
      BY FS_Interval
    <2>2. S \in SUBSET (1..(n - 1)) /\ T \in SUBSET (1..n)
      BY DEF Fences
    <2> HIDE DEF S, T
    <2> QED
      BY <2>1, <2>2, FS_Subset
  <1>2. n \notin S
    BY DEF Fences
  <1>3. T = IF doc[n].kind = "fence" THEN S \union {n} ELSE S
    BY DEF Fences
  <1> HIDE DEF S, T
  <1>4. Cardinality(S) \in Nat
    BY <1>1, FS_CardinalityType
  <1>5. Cardinality(S \union {n}) = Cardinality(S) + 1
    BY <1>1, <1>2, FS_AddElement
  <1> QED
    BY <1>1, <1>3, <1>4, <1>5 DEF S, T

\* Code is what is behind an odd number of fences.
LEMMA CodeIsParity ==
    ASSUME NEW doc \in Seq(Lines)
    PROVE  \A n \in 0..Len(doc) :
              CodeAfter(doc)[n] <=> Cardinality(Fences(doc, n)) % 2 = 1
  <1> DEFINE L == Len(doc)
             step == [p \in (1..L) \X BOOLEAN |-> p[2] # (doc[p[1]].kind = "fence")]
             T == {n \in 0..L : CodeAfter(doc)[n] <=> Cardinality(Fences(doc, n)) % 2 = 1}
  <1>1. L \in Nat
    OBVIOUS
  <1>2. \A n \in 1..L, s \in BOOLEAN : step[<<n, s>>] \in BOOLEAN
    OBVIOUS
  <1>3. FALSE \in BOOLEAN
    OBVIOUS
  <1>4. PICK f \in [0..L -> BOOLEAN] : Iterates(f, L, FALSE, step)
    <2> HIDE DEF step, L
    <2> QED
      BY <1>1, <1>2, <1>3, Recursion, Zenon
  <1>5. \A n \in 1..L : f[n] = (f[n - 1] # (doc[n].kind = "fence"))
    <2>1. ASSUME NEW n \in 1..L PROVE f[n] = (f[n - 1] # (doc[n].kind = "fence"))
      <3>1. f[n - 1] \in BOOLEAN /\ <<n, f[n - 1]>> \in (1..L) \X BOOLEAN
        OBVIOUS
      <3>2. f[n] = step[<<n, f[n - 1]>>]
        BY <1>4 DEF Iterates
      <3> QED
        BY <3>1, <3>2
    <2> QED
      BY <2>1
  <1>6. f[0] = FALSE
    BY <1>4 DEF Iterates
  <1>7. f = [n \in 0..L |-> IF n = 0 THEN FALSE
                            ELSE f[n - 1] # (doc[n].kind = "fence")]
    <2> DEFINE g == [n \in 0..L |-> IF n = 0 THEN FALSE
                                    ELSE f[n - 1] # (doc[n].kind = "fence")]
    <2>1. g[0] = FALSE /\ \A n \in 1..L : g[n] = (f[n - 1] # (doc[n].kind = "fence"))
      BY <1>1
    <2>2. \A n \in 0..L : n = 0 \/ n \in 1..L
      BY <1>1
    <2>3. g \in [0..L -> BOOLEAN]
      OBVIOUS
    <2> HIDE DEF g, L
    <2>4. \A n \in 0..L : g[n] = f[n]
      BY <1>5, <1>6, <2>1, <2>2
    <2> QED
      BY <2>3, <2>4 DEF g
  <1> DEFINE c == CHOOSE g : g = [n \in 0..L |-> IF n = 0 THEN FALSE
                                     ELSE g[n - 1] # (doc[n].kind = "fence")]
  <1>8. c = [n \in 0..L |-> IF n = 0 THEN FALSE ELSE c[n - 1] # (doc[n].kind = "fence")]
    BY <1>7, Zenon
  <1>9. CodeAfter(doc) = c
    BY DEF CodeAfter
  <1> HIDE DEF c
  <1>10. /\ c[0] = FALSE
         /\ \A n \in 1..L : c[n] = (c[n - 1] # (doc[n].kind = "fence"))
    BY <1>1, <1>8
  <1>11. 0 \in T
    <2>1. Fences(doc, 0) = {}
      BY DEF Fences
    <2>2. Cardinality(Fences(doc, 0)) = 0 /\ 0 % 2 # 1
      BY <2>1, FS_EmptySet
    <2>3. CodeAfter(doc)[0] = FALSE
      BY <1>9, <1>10
    <2> QED
      BY <1>1, <2>2, <2>3
  <1>12. ASSUME NEW n \in 1..L, n - 1 \in T PROVE n \in T
    <2> DEFINE a == Cardinality(Fences(doc, n - 1))
               b == Cardinality(Fences(doc, n))
    <2>1. c[n - 1] <=> a % 2 = 1
      BY <1>9, <1>12
    <2>2. a \in Nat /\ b = a + (IF doc[n].kind = "fence" THEN 1 ELSE 0)
      BY FencesGrow
    <2>3. c[n] = (c[n - 1] # (doc[n].kind = "fence"))
      BY <1>10
    <2> HIDE DEF a, b
    <2>4. c[n] <=> b % 2 = 1
      <3>1. CASE doc[n].kind = "fence"
        <4>1. b % 2 = 1 <=> ~ (a % 2 = 1)
          BY <2>2, <3>1
        <4> QED
          BY <2>1, <2>3, <3>1, <4>1
      <3>2. CASE doc[n].kind # "fence"
        <4>1. b = a
          BY <2>2, <3>2
        <4> QED
          BY <2>1, <2>3, <3>2, <4>1
      <3> QED
        BY <3>1, <3>2
    <2> QED
      BY <1>9, <2>4 DEF b
  <1>13. \A n \in 0..L : n \in T
    <2> HIDE DEF T, L
    <2> QED
      BY <1>1, <1>11, <1>12, Induction
  <1> QED
    BY <1>13

\* So a line that is no fence is in code for the one if it is for the other.
LEMMA CodeAsRead ==
    ASSUME NEW doc \in Seq(Lines), NEW n \in 1..Len(doc), doc[n].kind # "fence"
    PROVE  CodeAfter(doc)[n] <=> InCode(doc, n)
  <1>1. Fences(doc, n) = {m \in 1..n - 1 : doc[m].kind = "fence"}
    BY DEF Fences
  <1>2. CodeAfter(doc)[n] <=> Cardinality(Fences(doc, n)) % 2 = 1
    BY CodeIsParity
  <1> QED
    BY <1>1, <1>2 DEF InCode

\* The heading in line n moves on the section.
Moves(doc, n) == doc[n].kind = "heading" /\ ~InCode(doc, n)

\* The section after a heading is its own, under what was there above it.
LEMMA Entered ==
    ASSUME NEW path \in Seq(Titles), NEW h \in Lines, h.kind = "heading"
    PROVE  /\ Enter(path, h) \in Seq(Titles)
           /\ Len(Enter(path, h)) = h.level /\ h.level \in Nat \ {0}
           /\ \A i \in 1..h.level : Enter(path, h)[i] =
                IF i = h.level THEN h.title ELSE IF i <= Len(path) THEN path[i] ELSE ""
  <1> DEFINE new == Enter(path, h)
  <1>1. h.level \in Nat \ {0} /\ h.title \in Titles
    BY DEF Lines
  <1>2. "" \in Titles
    BY TitlesAssumption
  <1>3. \A i \in 1..h.level : i \in DOMAIN path <=> i <= Len(path)
    BY <1>1
  <1>4. new = [i \in 1..h.level |-> IF i = h.level THEN h.title
                  ELSE IF i <= Len(path) THEN path[i] ELSE ""]
    BY <1>3 DEF Enter
  <1> HIDE DEF new
  <1>5. \A i \in 1..h.level : new[i] \in Titles
    <2>1. ASSUME NEW i \in 1..h.level, i # h.level, i <= Len(path) PROVE path[i] \in Titles
      BY <1>1, <2>1
    <2> QED
      BY <1>1, <1>2, <1>4, <2>1
  <1>6. new \in [1..h.level -> Titles]
    BY <1>4, <1>5
  <1>7. new \in Seq(Titles) /\ Len(new) = h.level
    BY <1>1, <1>6
  <1> QED
    BY <1>1, <1>4, <1>7 DEF new

Sections(doc) == SectionAfter(doc, CodeAfter(doc))

\* The sections, line after line.
LEMMA SectionsMove ==
    ASSUME NEW doc \in Seq(Lines)
    PROVE  /\ Sections(doc)[0] = <<>>
           /\ \A n \in 0..Len(doc) : Sections(doc)[n] \in Seq(Titles)
           /\ \A n \in 1..Len(doc) : Sections(doc)[n] =
                IF Moves(doc, n) THEN Enter(Sections(doc)[n - 1], doc[n])
                ELSE Sections(doc)[n - 1]
  <1> DEFINE L == Len(doc)
             inCode == CodeAfter(doc)
             next(n, p) == IF doc[n].kind = "heading" /\ ~inCode[n]
                           THEN Enter(p, doc[n]) ELSE p
             step == [p \in (1..L) \X Seq(Titles) |-> next(p[1], p[2])]
  <1>1. L \in Nat /\ \A n \in 1..L : doc[n] \in Lines
    OBVIOUS
  <1>2. ASSUME NEW n \in 1..L, NEW p \in Seq(Titles) PROVE next(n, p) \in Seq(Titles)
    BY <1>1, Entered
  <1>3. \A n \in 1..L, p \in Seq(Titles) :
            step[<<n, p>>] \in Seq(Titles) /\ step[<<n, p>>] = next(n, p)
    <2> HIDE DEF next
    <2> QED
      BY <1>2
  <1>4. <<>> \in Seq(Titles)
    OBVIOUS
  <1>5. PICK f \in [0..L -> Seq(Titles)] : Iterates(f, L, <<>>, step)
    <2> HIDE DEF step, L
    <2> QED
      BY <1>1, <1>3, <1>4, Recursion, Zenon
  <1>6. \A n \in 1..L : f[n] = next(n, f[n - 1])
    <2>1. ASSUME NEW n \in 1..L PROVE f[n] = next(n, f[n - 1])
      <3>1. f[n - 1] \in Seq(Titles)
        OBVIOUS
      <3>2. f[n] = step[<<n, f[n - 1]>>]
        BY <1>5 DEF Iterates
      <3> HIDE DEF step, next
      <3> QED
        BY <1>3, <3>1, <3>2
    <2> QED
      BY <2>1
  <1>7. f[0] = <<>>
    BY <1>5 DEF Iterates
  <1>8. f = [n \in 0..L |-> IF n = 0 THEN <<>> ELSE next(n, f[n - 1])]
    <2> HIDE DEF next
    <2> QED
      BY <1>1, <1>6, <1>7
  <1> DEFINE path == CHOOSE g : g = [n \in 0..L |-> IF n = 0 THEN <<>>
                         ELSE IF doc[n].kind = "heading" /\ ~inCode[n]
                              THEN Enter(g[n - 1], doc[n]) ELSE g[n - 1]]
  <1>9. path = [n \in 0..L |-> IF n = 0 THEN <<>> ELSE next(n, path[n - 1])]
    BY <1>8, Zenon
  <1>10. Sections(doc) = path
    BY DEF Sections, SectionAfter
  <1> HIDE DEF path
  <1>11. path[0] = <<>> /\ \A n \in 1..L : path[n] = next(n, path[n - 1])
    <2> HIDE DEF next
    <2> QED
      BY <1>1, <1>9
  <1>12. \A n \in 0..L : path[n] \in Seq(Titles)
    <2> DEFINE T == {n \in 0..L : path[n] \in Seq(Titles)}
    <2>1. 0 \in T
      <3>1. path[0] \in Seq(Titles)
        BY <1>4, <1>11
      <3> QED
        BY <1>1, <3>1
    <2>2. \A n \in 1..L : n - 1 \in T => n \in T
      <3> HIDE DEF next
      <3> QED
        BY <1>2, <1>11
    <2>3. \A n \in 0..L : n \in T
      <3> HIDE DEF T, L
      <3> QED
        BY <1>1, <2>1, <2>2, Induction
    <2> QED
      BY <2>3
  <1>13. ASSUME NEW n \in 1..L
         PROVE  path[n] = IF Moves(doc, n) THEN Enter(path[n - 1], doc[n])
                          ELSE path[n - 1]
    <2>1. doc[n].kind = "heading" /\ ~inCode[n] <=> Moves(doc, n)
      BY CodeAsRead DEF Moves
    <2>2. path[n] = next(n, path[n - 1])
      BY <1>11
    <2> QED
      BY <2>1, <2>2
  <1> QED
    BY <1>10, <1>11, <1>12, <1>13

\* Line m is a heading that is still open after line n.
Open(doc, m, n) ==
    /\ Moves(doc, m)
    /\ \A k \in m + 1 .. n : Moves(doc, k) => doc[k].level > doc[m].level

\* The section has every open heading at its level, and nothing else but empty
\* titles.
SectionIsOpen(doc, n) ==
    /\ \A m \in 1..n : Open(doc, m, n) =>
            /\ doc[m].level \in 1..Len(Sections(doc)[n])
            /\ Sections(doc)[n][doc[m].level] = doc[m].title
    /\ \A i \in 1..Len(Sections(doc)[n]) :
            \/ Sections(doc)[n][i] = ""
            \/ \E m \in 1..n : /\ Open(doc, m, n) /\ doc[m].level = i
                               /\ Sections(doc)[n][i] = doc[m].title

\* A heading closes those of its level and below.
LEMMA HeadingOpens ==
    ASSUME NEW doc \in Seq(Lines), NEW n \in 1..Len(doc), Moves(doc, n),
           SectionIsOpen(doc, n - 1)
    PROVE  SectionIsOpen(doc, n)
  <1> DEFINE old == Sections(doc)[n - 1]
             new == Sections(doc)[n]
             level == doc[n].level
  <1>1. doc[n] \in Lines /\ doc[n].kind = "heading"
    BY DEF Moves
  <1>2. old \in Seq(Titles) /\ new = Enter(old, doc[n])
    BY SectionsMove
  <1>3. /\ Len(new) = level /\ level \in Nat \ {0}
        /\ \A i \in 1..level : new[i] =
             IF i = level THEN doc[n].title ELSE IF i <= Len(old) THEN old[i] ELSE ""
    <2> HIDE DEF old, new
    <2> QED
      BY <1>1, <1>2, Entered
  <1>4. \A m \in 1..(n - 1) : Moves(doc, m) => doc[m].level \in Nat
    BY DEF Moves, Lines
  <1>5. \A m \in 1..(n - 1) :
          Open(doc, m, n) <=> Open(doc, m, n - 1) /\ level > doc[m].level
    <2>1. ASSUME NEW m \in 1..(n - 1)
          PROVE  Open(doc, m, n) <=> Open(doc, m, n - 1) /\ level > doc[m].level
      <3>1. n \in m + 1 .. n /\ \A k \in m + 1 .. n : k = n \/ k \in m + 1 .. n - 1
        OBVIOUS
      <3>2. \A k \in m + 1 .. n - 1 : k \in m + 1 .. n
        OBVIOUS
      <3> QED
        BY <3>1, <3>2 DEF Open
    <2> QED
      BY <2>1
  <1>6. Open(doc, n, n)
    BY DEF Open
  <1>7. ASSUME NEW m \in 1..(n - 1), Open(doc, m, n - 1)
        PROVE  doc[m].level \in 1..Len(old) /\ old[doc[m].level] = doc[m].title
    BY <1>7 DEF SectionIsOpen
  <1>8. ASSUME NEW i \in 1..Len(old), old[i] # ""
        PROVE  \E m \in 1..(n - 1) : /\ Open(doc, m, n - 1) /\ doc[m].level = i
                                     /\ old[i] = doc[m].title
    BY <1>8 DEF SectionIsOpen
  <1>9. level = doc[n].level /\ new = Sections(doc)[n] /\ Len(old) \in Nat
    BY <1>2
  <1>12. Len(new) = level /\ level \in Nat \ {0}
    BY <1>3
  <1> HIDE DEF old, new, level
  <1>10. ASSUME NEW m \in 1..n, Open(doc, m, n)
         PROVE  doc[m].level \in 1..Len(new) /\ new[doc[m].level] = doc[m].title
    <2>1. CASE m = n
      <3>3. level \in 1..level
        BY <1>12
      <3>1. level \in 1..level /\ new[level] = doc[n].title
        BY <1>3, <3>3
      <3>2. doc[m].level = level /\ doc[m].title = doc[n].title
        BY <1>9, <2>1
      <3> QED
        BY <1>12, <3>1, <3>2
    <2>2. CASE m # n
      <3> DEFINE i == doc[m].level
      <3>1. m \in 1..(n - 1) /\ Open(doc, m, n - 1) /\ level > i
        BY <1>5, <1>10, <2>2
      <3>2. i \in 1..Len(old) /\ old[i] = doc[m].title
        BY <1>7, <3>1
      <3> HIDE DEF i
      <3>3. i \in 1..level /\ i # level /\ i <= Len(old)
        BY <1>9, <1>12, <3>1, <3>2
      <3>4. i \in 1..Len(new) /\ new[i] = doc[m].title
        BY <1>3, <1>12, <3>2, <3>3
      <3> QED
        BY <3>4 DEF i
    <2> QED
      BY <2>1, <2>2
  <1>11. ASSUME NEW i \in 1..Len(new), new[i] # ""
         PROVE  \E m \in 1..n : Open(doc, m, n) /\ doc[m].level = i /\ new[i] = doc[m].title
    <2>1. CASE i = level
      <3>3. i \in 1..level /\ n \in 1..n
        BY <1>12
      <3>1. new[i] = doc[n].title
        BY <1>3, <2>1, <3>3
      <3>2. doc[n].level = i
        BY <1>9, <2>1
      <3> QED
        BY <1>6, <3>1, <3>2
    <2>2. CASE i # level
      <3>1. i \in 1..level
        BY <1>3
      <3>2. new[i] = IF i <= Len(old) THEN old[i] ELSE ""
        BY <1>3, <2>2, <3>1
      <3>3. i <= Len(old) /\ new[i] = old[i]
        BY <1>11, <3>2
      <3>4. i \in 1..Len(old) /\ level > i
        BY <1>9, <1>12, <2>2, <3>1, <3>3
      <3>5. old[i] # ""
        BY <1>11, <3>3
      <3>6. PICK m \in 1..(n - 1) : /\ Open(doc, m, n - 1) /\ doc[m].level = i
                                    /\ old[i] = doc[m].title
        BY <1>8, <3>4, <3>5
      <3>7. Open(doc, m, n) /\ m \in 1..n
        BY <1>5, <3>4, <3>6
      <3> QED
        BY <3>3, <3>6, <3>7
    <2> QED
      BY <2>1, <2>2
  <1> QED
    BY <1>9, <1>10, <1>11 DEF SectionIsOpen

\* Other lines leave the section as it is.
LEMMA OthersKeepOpen ==
    ASSUME NEW doc \in Seq(Lines), NEW n \in 1..Len(doc), ~Moves(doc, n),
           SectionIsOpen(doc, n - 1)
    PROVE  SectionIsOpen(doc, n)
  <1>1. Sections(doc)[n] = Sections(doc)[n - 1]
    BY SectionsMove
  <1>2. \A m \in 1..(n - 1) : Open(doc, m, n) <=> Open(doc, m, n - 1)
    <2>1. ASSUME NEW m \in 1..(n - 1)
          PROVE  Open(doc, m, n) <=> Open(doc, m, n - 1)
      <3>1. \A k \in m + 1 .. n : k = n \/ k \in m + 1 .. n - 1
        OBVIOUS
      <3>2. \A k \in m + 1 .. n - 1 : k \in m + 1 .. n
        OBVIOUS
      <3> QED
        BY <3>1, <3>2 DEF Open
    <2> QED
      BY <2>1
  <1>3. \A m \in 1..n : Open(doc, m, n) => m \in 1..(n - 1)
    BY DEF Open
  <1>4. \A m \in 1..(n - 1) : m \in 1..n
    OBVIOUS
  <1> DEFINE path == Sections(doc)[n - 1]
  <1>5. ASSUME NEW m \in 1..n, Open(doc, m, n)
        PROVE  doc[m].level \in 1..Len(path) /\ path[doc[m].level] = doc[m].title
    BY <1>2, <1>3, <1>5 DEF SectionIsOpen
  <1>6. ASSUME NEW i \in 1..Len(path), path[i] # ""
        PROVE  \E m \in 1..n : Open(doc, m, n) /\ doc[m].level = i /\ path[i] = doc[m].title
    <2>1. PICK m \in 1..(n - 1) : /\ Open(doc, m, n - 1) /\ doc[m].level = i
                                  /\ path[i] = doc[m].title
      BY <1>6 DEF SectionIsOpen
    <2> HIDE DEF path
    <2> QED
      BY <1>2, <1>4, <2>1
  <1> HIDE DEF path
  <1>7. Sections(doc)[n] = path
    BY <1>1 DEF path
  <1> QED
    BY <1>5, <1>6, <1>7 DEF SectionIsOpen

\* The section of a line has the headings that are open there.
LEMMA SectionsAreOpen ==
    ASSUME NEW doc \in Seq(Lines)
    PROVE  \A n \in 0..Len(doc) : SectionIsOpen(doc, n)
  <1> DEFINE T == {n \in 0..Len(doc) : SectionIsOpen(doc, n)}
  <1>1. 0 \in T
    <2>1. Len(Sections(doc)[0]) = 0
      BY SectionsMove
    <2>2. 1..0 = {} /\ 1..Len(Sections(doc)[0]) = {}
      BY <2>1
    <2>3. SectionIsOpen(doc, 0)
      BY <2>2 DEF SectionIsOpen
    <2>4. 0 \in 0..Len(doc)
      OBVIOUS
    <2> QED
      BY <2>3, <2>4
  <1>2. \A n \in 1..Len(doc) : n - 1 \in T => n \in T
    BY HeadingOpens, OthersKeepOpen
  <1>3. Len(doc) \in Nat
    OBVIOUS
  <1>4. \A n \in 0..Len(doc) : n \in T
    <2> HIDE DEF T
    <2> QED
      BY <1>1, <1>2, <1>3, Induction
  <1> QED
    BY <1>4

\* A text is exempt for the validator if it is under an exempt heading, the
\* title of the document aside.
LEMMA ExemptAsRead ==
    ASSUME NEW doc \in Seq(Lines), NEW n \in 1..Len(doc), doc[n].kind = "text",
           doc[1].kind = "heading", doc[1].title \notin ExemptSections
    PROVE  Exempt(Sections(doc)[n]) <=> ExemptAt(doc, n)
  <1> DEFINE path == Sections(doc)[n]
  <1>1. SectionIsOpen(doc, n) /\ path \in Seq(Titles)
    BY SectionsAreOpen, SectionsMove
  <1>2. \A i \in DOMAIN path : i \in 1..Len(path)
    BY <1>1
  <1>3. \A k \in Nat : k <= n /\ Moves(doc, k) => k # n
    BY DEF Moves
  <1>4. ASSUME NEW i \in DOMAIN path, path[i] \in ExemptSections PROVE ExemptAt(doc, n)
    <2>1. path[i] # ""
      BY <1>4, TitlesAssumption
    <2>2. PICK m \in 1..n : Open(doc, m, n) /\ path[i] = doc[m].title
      BY <1>1, <1>2, <2>1 DEF SectionIsOpen
    <2>3. m \in 2..n - 1
      <3>1. m # n
        BY <1>3, <2>2 DEF Open
      <3>2. m # 1
        BY <1>4, <2>2
      <3> QED
        BY <3>1, <3>2
    <2>4. \A k \in m + 1 .. n - 1 : k \in m + 1 .. n
      OBVIOUS
    <2> QED
      BY <1>4, <2>2, <2>3, <2>4 DEF ExemptAt, Open, Moves
  <1>5. ASSUME ExemptAt(doc, n) PROVE Exempt(path)
    <2>1. PICK m \in 2..n - 1 :
            /\ Moves(doc, m) /\ doc[m].title \in ExemptSections
            /\ \A k \in m + 1 .. n - 1 : Moves(doc, k) => doc[k].level > doc[m].level
      BY <1>5 DEF ExemptAt, Moves
    <2>2. \A k \in m + 1 .. n : k = n \/ k \in m + 1 .. n - 1
      OBVIOUS
    <2>3. Open(doc, m, n)
      BY <2>1, <2>2 DEF Open, Moves
    <2>4. m \in 1..n
      OBVIOUS
    <2>5. doc[m].level \in 1..Len(path) /\ path[doc[m].level] = doc[m].title
      BY <1>1, <2>3, <2>4 DEF SectionIsOpen
    <2>6. doc[m].level \in DOMAIN path
      BY <1>1, <2>5
    <2> HIDE DEF path
    <2> QED
      BY <2>1, <2>5, <2>6 DEF Exempt
  <1> QED
    BY <1>4, <1>5 DEF Exempt

----------------------------------------------------------------------------
(* Documents: one that passes is soundly cited.                            *)

\* Places in lines, and in sentences, are finitely many.
LEMMA PlacesFinite ==
    ASSUME NEW S, IsFiniteSet(S), NEW f, \A x \in S : IsFiniteSet(f[x])
    PROVE  IsFiniteSet(UNION {{x} \X f[x] : x \in S})
  <1> DEFINE g == [x \in S |-> {x} \X f[x]]
             F == {g[x] : x \in S}
  <1>1. \A x \in S : IsFiniteSet({x} \X f[x])
    BY FS_Singleton, FS_Product
  <1>2. \A T \in F : IsFiniteSet(T)
    BY <1>1
  <1>3. IsFiniteSet(F)
    <2> HIDE DEF g
    <2> QED
      BY ImageFinite
  <1>4. IsFiniteSet(UNION F)
    <2> HIDE DEF F
    <2> QED
      BY <1>2, <1>3, FS_UNION
  <1>5. F = {{x} \X f[x] : x \in S}
    OBVIOUS
  <1> HIDE DEF F
  <1> QED
    BY <1>4, <1>5

SentenceAt(doc, p) == doc[p[1]].sentences[p[2]]
CitationAt(doc, c) == SentenceAt(doc, c[1]).cites[c[2]]

\* The sentences that are there for a reader, and the citations in them.
Said(doc) ==
    UNION {{<<n, k>> : k \in DOMAIN doc[n].sentences} :
            n \in {n \in DOMAIN doc : ~InCode(doc, n)}}

Citing(doc) == CitationsOf(doc, Said(doc))

\* They are in texts outside of code.
LEMMA SaidInTexts ==
    ASSUME NEW doc \in Seq(Lines), NEW p, p \in Said(doc)
    PROVE  /\ p[1] \in 1..Len(doc) /\ doc[p[1]].kind = "text"
           /\ p[2] \in DOMAIN doc[p[1]].sentences /\ p = <<p[1], p[2]>>
           /\ SentenceAt(doc, p) \in Sentences
  <1>1. PICK n \in 1..Len(doc) : \E k \in DOMAIN doc[n].sentences : p = <<n, k>>
    BY DEF Said
  <1>7. PICK k \in DOMAIN doc[n].sentences : p = <<n, k>>
    BY <1>1
  <1>2. doc[n] \in Lines
    OBVIOUS
  <1> DEFINE s == doc[n].sentences
  <1>3. s \in Seq(Sentences) /\ (s # <<>> => doc[n].kind = "text")
    BY <1>2 DEF Lines
  <1>4. k \in DOMAIN s
    OBVIOUS
  <1>5. p[1] = n /\ p[2] = k
    BY <1>7
  <1> HIDE DEF s
  <1>6. s # <<>> /\ s[k] \in Sentences
    BY <1>3, <1>4
  <1> QED
    BY <1>7, <1>3, <1>4, <1>5, <1>6 DEF s, SentenceAt

\* The validator reads the same sentences.
LEMMA SaidAsRead ==
    ASSUME NEW doc \in Seq(Lines)
    PROVE  SentencesOf(doc, CodeAfter(doc)) = Said(doc)
  <1>1. \A n \in 1..Len(doc) :
          doc[n].sentences # <<>> => (CodeAfter(doc)[n] <=> InCode(doc, n))
    <2>1. ASSUME NEW n \in 1..Len(doc), doc[n].sentences # <<>>
          PROVE  CodeAfter(doc)[n] <=> InCode(doc, n)
      <3>1. doc[n].kind # "fence"
        <4>1. doc[n] \in Lines
          OBVIOUS
        <4> QED
          BY <2>1, <4>1 DEF Lines
      <3> QED
        BY <3>1, CodeAsRead
    <2> QED
      BY <2>1
  <1>2. \A n \in 1..Len(doc) : \A k : k \in DOMAIN doc[n].sentences => doc[n].sentences # <<>>
    OBVIOUS
  <1>3. DOMAIN doc = 1..Len(doc)
    OBVIOUS
  <1>4. \A n \in 1..Len(doc) : \A k \in DOMAIN doc[n].sentences :
            CodeAfter(doc)[n] <=> InCode(doc, n)
    BY <1>1, <1>2
  <1>5. \A p : p \in SentencesOf(doc, CodeAfter(doc))
            <=> \E n \in 1..Len(doc) : \E k \in DOMAIN doc[n].sentences :
                    ~CodeAfter(doc)[n] /\ p = <<n, k>>
    BY <1>3 DEF SentencesOf
  <1>6. \A p : p \in Said(doc)
            <=> \E n \in 1..Len(doc) : \E k \in DOMAIN doc[n].sentences :
                    ~InCode(doc, n) /\ p = <<n, k>>
    BY <1>3 DEF Said
  <1> QED
    BY <1>4, <1>5, <1>6

\* There are finitely many sentences.
LEMMA SaidFinite ==
    ASSUME NEW doc \in Seq(Lines)
    PROVE  IsFiniteSet(Said(doc))
  <1> DEFINE S == {n \in DOMAIN doc : ~InCode(doc, n)}
             f == [n \in S |-> DOMAIN doc[n].sentences]
  <1>1. IsFiniteSet(S)
    <2>1. IsFiniteSet(1..Len(doc)) /\ S \in SUBSET (1..Len(doc))
      BY FS_Interval
    <2> HIDE DEF S
    <2> QED
      BY <2>1, FS_Subset
  <1>2. \A n \in S : IsFiniteSet(f[n])
    <2>1. ASSUME NEW n \in S PROVE IsFiniteSet(f[n])
      <3> DEFINE s == doc[n].sentences
      <3>1. s \in Seq(Sentences)
        <4>1. doc[n] \in Lines
          OBVIOUS
        <4> QED
          BY <4>1 DEF Lines
      <3>2. f[n] = DOMAIN s
        OBVIOUS
      <3> HIDE DEF s
      <3>3. DOMAIN s = 1..Len(s) /\ Len(s) \in Nat
        BY <3>1
      <3> QED
        BY <3>2, <3>3, FS_Interval
    <2> QED
      BY <2>1
  <1>3. IsFiniteSet(UNION {{n} \X f[n] : n \in S})
    <2> HIDE DEF S, f
    <2> QED
      BY <1>1, <1>2, PlacesFinite
  <1>4. Said(doc) = UNION {{n} \X f[n] : n \in S}
    BY DEF Said
  <1> QED
    BY <1>3, <1>4

\* And citations.
LEMMA CitingFinite ==
    ASSUME NEW doc \in Seq(Lines)
    PROVE  IsFiniteSet(Citing(doc))
  <1> DEFINE S == Said(doc)
             f == [p \in S |-> DOMAIN SentenceAt(doc, p).cites]
  <1>1. \A p \in S : IsFiniteSet(f[p])
    <2>1. ASSUME NEW p \in S PROVE IsFiniteSet(f[p])
      <3> DEFINE s == SentenceAt(doc, p).cites
      <3>1. s \in Seq(Citations)
        BY SaidInTexts DEF Sentences
      <3>2. f[p] = DOMAIN s
        OBVIOUS
      <3> HIDE DEF s
      <3>3. DOMAIN s = 1..Len(s) /\ Len(s) \in Nat
        BY <3>1
      <3> QED
        BY <3>2, <3>3, FS_Interval
    <2> QED
      BY <2>1
  <1>2. IsFiniteSet(S)
    BY SaidFinite
  <1>3. IsFiniteSet(UNION {{p} \X f[p] : p \in S})
    <2> HIDE DEF S, f
    <2> QED
      BY <1>1, <1>2, PlacesFinite
  <1>4. Citing(doc) = UNION {{p} \X f[p] : p \in S}
    BY DEF Citing, CitationsOf, SentenceAt
  <1> QED
    BY <1>3, <1>4

Factual(doc) ==
    {p \in Said(doc) : IsFactual(SentenceAt(doc, p), Sections(doc)[p[1]])}
Backed(doc, real) == {p \in Factual(doc) : Cited(SentenceAt(doc, p), real)}
Known(doc, real) == {c \in Citing(doc) : Valid(CitationAt(doc, c), real)}
Misdated(doc, real) ==
    {c \in Known(doc, real) : TimestampMismatch(CitationAt(doc, c), real)}

Judgement(doc, real, threshold) ==
    [factual |-> Cardinality(Factual(doc)),
     cited |-> Cardinality(Backed(doc, real)),
     total |-> Cardinality(Citing(doc)),
     hallucinated |-> Cardinality(Citing(doc) \ Known(doc, real)),
     mismatches |-> Cardinality(Misdated(doc, real)),
     threshold |-> threshold]

\* What a validation counts.
LEMMA Validated ==
    ASSUME NEW doc \in Seq(Lines), NEW real, NEW threshold
    PROVE  Validate(doc, real, threshold) = Judgement(doc, real, threshold)
  <1>1. SentencesOf(doc, CodeAfter(doc)) = Said(doc)
    BY SaidAsRead
  <1> QED
    BY <1>1, Zenon DEF Validate, Judgement, Factual, Backed, Known, Misdated, Citing,
        Sections, SentenceAt, CitationAt

Counts(judged) ==
    /\ judged.factual \in Nat /\ judged.cited \in Nat /\ judged.total \in Nat
    /\ judged.hallucinated \in Nat /\ judged.mismatches \in Nat
    /\ judged.cited <= judged.factual
    /\ judged.hallucinated + judged.mismatches <= judged.total

\* No citation is counted twice.
LEMMA ValidatedCounts ==
    ASSUME NEW doc \in Seq(Lines), NEW real, NEW threshold
    PROVE  Counts(Validate(doc, real, threshold))
  <1> DEFINE A == Factual(doc)
             B == Backed(doc, real)
             C == Citing(doc)
             D == Known(doc, real)
             E == Misdated(doc, real)
             judged == Validate(doc, real, threshold)
  <1>1. IsFiniteSet(A) /\ IsFiniteSet(C)
    <2>1. A \in SUBSET Said(doc)
      BY DEF Factual
    <2> QED
      BY <2>1, SaidFinite, CitingFinite, FS_Subset
  <1>2. B \in SUBSET A /\ D \in SUBSET C /\ E \in SUBSET D
    BY DEF Backed, Known, Misdated
  <1>11. judged = Judgement(doc, real, threshold)
    BY Validated
  <1> HIDE DEF A, B, C, D, E, judged
  <1>3. /\ judged.factual = Cardinality(A) /\ judged.cited = Cardinality(B)
        /\ judged.total = Cardinality(C) /\ judged.hallucinated = Cardinality(C \ D)
        /\ judged.mismatches = Cardinality(E)
    BY <1>11 DEF Judgement, A, B, C, D, E
  <1>4. IsFiniteSet(B) /\ Cardinality(B) <= Cardinality(A)
    BY <1>1, <1>2, FS_Subset
  <1>5. IsFiniteSet(D)
    BY <1>1, <1>2, FS_Subset
  <1>6. IsFiniteSet(E) /\ Cardinality(E) <= Cardinality(D)
    BY <1>2, <1>5, FS_Subset
  <1>7. C \cap D = D
    BY <1>2
  <1>8. IsFiniteSet(C \ D) /\ Cardinality(C \ D) = Cardinality(C) - Cardinality(D)
    BY <1>1, <1>7, FS_Difference
  <1>9. /\ Cardinality(A) \in Nat /\ Cardinality(B) \in Nat /\ Cardinality(C) \in Nat
        /\ Cardinality(D) \in Nat /\ Cardinality(E) \in Nat /\ Cardinality(C \ D) \in Nat
    BY <1>1, <1>4, <1>5, <1>6, <1>8, FS_CardinalityType
  <1>10. Cardinality(C \ D) + Cardinality(E) <= Cardinality(C)
    BY <1>6, <1>8, <1>9
  <1> QED
    BY <1>3, <1>4, <1>9, <1>10 DEF Counts, judged

\* Who passes has cited nothing that is not there, nor at another time.
LEMMA PassedCitations ==
    ASSUME NEW doc \in Seq(Lines), NEW real, NEW threshold,
           \A id \in DOMAIN real : real[id] \in Int,
           Passed(Validate(doc, real, threshold)),
           NEW p, p \in Said(doc),
           NEW j, j \in DOMAIN SentenceAt(doc, p).cites
    PROVE  LET c == SentenceAt(doc, p).cites[j] IN
           /\ c.id \in DOMAIN real
           /\ c.at \notin {None, Unparseable} =>
                c.at - real[c.id] \in -Second + 1 .. Second - 1
           /\ c.at # Unparseable
  <1> DEFINE c == SentenceAt(doc, p).cites[j]
  <1>1. /\ Cardinality(Citing(doc) \ Known(doc, real)) = 0
        /\ Cardinality(Misdated(doc, real)) = 0
    <2> DEFINE judged == Validate(doc, real, threshold)
    <2>2. judged.hallucinated = 0 /\ judged.mismatches = 0
      BY DEF Passed
    <2>3. judged = Judgement(doc, real, threshold)
      BY Validated
    <2> HIDE DEF judged
    <2>1. /\ judged.hallucinated = Cardinality(Citing(doc) \ Known(doc, real))
          /\ judged.mismatches = Cardinality(Misdated(doc, real))
      BY <2>3 DEF Judgement
    <2> QED
      BY <2>1, <2>2
  <1>2. Citing(doc) \subseteq Known(doc, real) /\ Misdated(doc, real) = {}
    <2>1. /\ Citing(doc) \ Known(doc, real) \in SUBSET Citing(doc)
          /\ Misdated(doc, real) \in SUBSET Citing(doc)
      BY DEF Known, Misdated
    <2>2. IsFiniteSet(Citing(doc) \ Known(doc, real)) /\ IsFiniteSet(Misdated(doc, real))
      BY <2>1, CitingFinite, FS_Subset
    <2>3. Citing(doc) \ Known(doc, real) = {} /\ Misdated(doc, real) = {}
      BY <1>1, <2>2, FS_EmptySet
    <2> QED
      BY <2>3
  <1>3. <<p, j>> \in Citing(doc) /\ CitationAt(doc, <<p, j>>) = c
    BY DEF Citing, CitationsOf, CitationAt, SentenceAt
  <1>4. Valid(c, real) /\ ~TimestampMismatch(c, real)
    BY <1>2, <1>3 DEF Known, Misdated
  <1>5. c \in Citations
    <2> DEFINE s == SentenceAt(doc, p).cites
    <2>1. s \in Seq(Citations)
      BY SaidInTexts DEF Sentences
    <2>2. j \in DOMAIN s /\ c = s[j]
      OBVIOUS
    <2> HIDE DEF s, c
    <2> QED
      BY <2>1, <2>2
  <1> HIDE DEF c
  <1>6. c.id \in DOMAIN real
    BY <1>4 DEF Valid
  <1>7. c.at = None \/ (c.at # Unparseable /\ ~ (Apart(c.at, real[c.id]) >= Second))
    BY <1>4 DEF TimestampMismatch
  <1>8. ASSUME c.at \notin {None, Unparseable}
        PROVE  c.at - real[c.id] \in -Second + 1 .. Second - 1
    <2>1. c.at \in Int /\ real[c.id] \in Int
      BY <1>5, <1>6, <1>8 DEF Citations
    <2>2. ~ (Apart(c.at, real[c.id]) >= Second)
      BY <1>7, <1>8
    <2> DEFINE a == c.at
               b == real[c.id]
    <2>3. a \in Int /\ b \in Int /\ ~ ((IF a < b THEN b - a ELSE a - b) >= Second)
      BY <2>1, <2>2 DEF Apart
    <2> HIDE DEF a, b
    <2>4. a - b \in -Second + 1 .. Second - 1
      BY <2>3, SecondAssumption
    <2> QED
      BY <2>4 DEF a, b
  <1>9. c.at # Unparseable
    BY <1>7, TimesAssumption
  <1> QED
    BY <1>6, <1>8, <1>9 DEF c

\* And the claims that are factual for the validator are those of a reader.
LEMMA ClaimsAsRead ==
    ASSUME NEW doc \in Seq(Lines), NEW title, doc # <<>>, doc[1] = Heading(1, title),
           title \notin ExemptSections
    PROVE  Factual(doc) =
            {p \in Said(doc) : SentenceAt(doc, p).form = "claim" /\ ~ExemptAt(doc, p[1])}
  <1>1. doc[1].kind = "heading" /\ doc[1].title \notin ExemptSections
    BY DEF Heading
  <1>2. ASSUME NEW p \in Said(doc)
        PROVE  Exempt(Sections(doc)[p[1]]) <=> ExemptAt(doc, p[1])
    BY <1>1, SaidInTexts, ExemptAsRead
  <1> QED
    BY <1>2 DEF Factual, IsFactual

\* A document that passes is soundly cited.
LEMMA PassedIsSound ==
    ASSUME NEW doc \in Seq(Lines), NEW real, NEW title, NEW threshold \in Nat,
           \A id \in DOMAIN real : real[id] \in Int,
           doc # <<>>, doc[1] = Heading(1, title),
           Passed(Validate(doc, real, threshold))
    PROVE  SoundlyCited(doc, real, title, threshold)
  <1> DEFINE Cites(p) == {SentenceAt(doc, p).cites[j] : j \in DOMAIN SentenceAt(doc, p).cites}
             claims == {p \in Said(doc) :
                          SentenceAt(doc, p).form = "claim" /\ ~ExemptAt(doc, p[1])}
             cited == {p \in claims : Cites(p) # {}}
  <1>1. \A p \in Said(doc) : \A c \in Cites(p) :
            /\ c.id \in DOMAIN real
            /\ c.at \notin {None, Unparseable} =>
                c.at - real[c.id] \in -Second + 1 .. Second - 1
            /\ c.at # Unparseable
    BY PassedCitations
  <1>2. ASSUME title \notin ExemptSections
        PROVE  100 * Cardinality(cited) >= threshold * Cardinality(claims)
    <2>1. Factual(doc) = claims
      BY <1>2, ClaimsAsRead
    <2>2. \A p \in claims : Cited(SentenceAt(doc, p), real) <=> Cites(p) # {}
      <3>1. ASSUME NEW p \in claims
            PROVE  Cited(SentenceAt(doc, p), real) <=> Cites(p) # {}
        <4>1. \A j \in DOMAIN SentenceAt(doc, p).cites :
                Valid(SentenceAt(doc, p).cites[j], real)
          BY <1>1 DEF Valid
        <4> QED
          BY <4>1 DEF Cited
      <3> QED
        BY <3>1
    <2>3. Backed(doc, real) = cited
      BY <2>1, <2>2 DEF Backed
    <2> DEFINE judged == Validate(doc, real, threshold)
    <2>4. /\ judged.factual = Cardinality(claims) /\ judged.cited = Cardinality(cited)
          /\ judged.threshold = threshold
      <3>2. judged = Judgement(doc, real, threshold)
        BY Validated
      <3> HIDE DEF claims, cited, judged
      <3>1. /\ judged.factual = Cardinality(Factual(doc))
            /\ judged.cited = Cardinality(Backed(doc, real))
            /\ judged.threshold = threshold
        BY <3>2 DEF Judgement
      <3> QED
        BY <2>1, <2>3, <3>1
    <2>5. Counts(judged)
      BY ValidatedCounts
    <2>6. judged.factual = 0 \/ 100 * judged.cited >= judged.threshold * judged.factual
      BY DEF Passed, Covered
    <2> HIDE DEF judged
    <2>7. judged.factual \in Nat /\ judged.cited \in Nat /\ judged.cited <= judged.factual
      BY <2>5 DEF Counts
    <2>8. CASE judged.factual = 0
      <3>1. judged.cited = 0
        BY <2>7, <2>8
      <3> HIDE DEF claims, cited
      <3>2. Cardinality(cited) = 0 /\ Cardinality(claims) = 0
        BY <2>4, <2>8, <3>1
      <3> QED
        BY <3>2
    <2>9. CASE judged.factual # 0
      <3> HIDE DEF claims, cited
      <3> QED
        BY <2>4, <2>6, <2>9
    <2> QED
      BY <2>8, <2>9
  <1> QED
    BY <1>1, <1>2 DEF SoundlyCited, Said, SentenceAt
----------------------------------------------------------------------------
(* A case: from its events to a document and what is found in it.          *)

\* What a run collects are events with numbers and times, and some.
LEMMA EventsCollected ==
    ASSUME NEW c \in Names, NEW e \in Evidence[c]
    PROVE  /\ DOMAIN e.timestamps \in SUBSET Nat /\ IsFiniteSet(DOMAIN e.timestamps)
           /\ DOMAIN e.timestamps # {}
           /\ \A id \in DOMAIN e.timestamps : e.timestamps[id] \in Int
  <1>1. PICK n \in DOMAIN Cases : c = Cases[n]
    BY DEF Names, ToSet
  <1> QED
    BY <1>1, EvidenceAssumption

\* The mock finds every event that was collected, one after another.
LEMMA MockFinds ==
    ASSUME NEW c \in Names, evidence \in Evidence[c]
    PROVE  /\ Len(MockIds) \in Nat \ {0}
           /\ \A n \in 1..Len(MockIds) : MockIds[n] \in DOMAIN evidence.timestamps
  <1> DEFINE ids == DOMAIN evidence.timestamps
             R == {p \in ids \X ids : Before(p[1], p[2])}
             size == Cardinality(ids)
  <1>1. /\ ids \in SUBSET Nat /\ IsFiniteSet(ids) /\ ids # {}
        /\ \A id \in ids : evidence.timestamps[id] \in Int
    BY EventsCollected
  <1>2. size \in Nat \ {0}
    BY <1>1, FS_CardinalityType, FS_EmptySet
  <1>3. StrictOrder(R, ids)
    <2>1. \A a, b \in ids : <<a, b>> \in R <=> Before(a, b)
      OBVIOUS
    <2>2. \A a, b \in ids : Before(a, b) <=>
            \/ evidence.timestamps[a] < evidence.timestamps[b]
            \/ evidence.timestamps[a] = evidence.timestamps[b] /\ a < b
      BY DEF Before
    <2> HIDE DEF R
    <2>3. \A a \in ids : ~Before(a, a)
      BY <1>1, <2>2
    <2>4. \A a, b, d \in ids : Before(a, b) /\ Before(b, d) => Before(a, d)
      BY <1>1, <2>2
    <2>5. \A a, b \in ids : a = b \/ Before(a, b) \/ Before(b, a)
      BY <1>1, <2>2
    <2> HIDE DEF ids
    <2> QED
      BY <2>1, <2>3, <2>4, <2>5 DEF StrictOrder
  <1>4. \A x \in ids : Rank(x, ids, R) = Cardinality({e \in ids : Before(e, x)})
    <2>1. ASSUME NEW x \in ids
          PROVE  InFront(x, ids, R) = {e \in ids : Before(e, x)}
      BY DEF InFront
    <2> QED
      BY <2>1 DEF Rank
  <1>5. MockIds = [n \in 1..size |->
            CHOOSE id \in ids : Cardinality({e \in ids : Before(e, id)}) = n - 1]
    BY DEF MockIds
  <1>6. ASSUME NEW n \in 1..size PROVE MockIds[n] \in ids
    <2>1. \E id \in ids : Cardinality({e \in ids : Before(e, id)}) = n - 1
      <3>1. n - 1 \in 0..(size - 1)
        BY <1>2
      <3> HIDE DEF R
      <3>2. \E id \in ids : Rank(id, ids, R) = n - 1
        BY <1>1, <1>3, <3>1, RankUnique
      <3> QED
        BY <1>4, <3>2
    <2>2. (CHOOSE id \in ids : Cardinality({e \in ids : Before(e, id)}) = n - 1) \in ids
      BY <2>1, Zenon
    <2> HIDE DEF ids, size
    <2> QED
      BY <1>5, <2>2
  <1>7. MockIds \in Seq(ids) /\ Len(MockIds) = size
    <2> DEFINE m == MockIds
    <2>1. m \in [1..size -> ids]
      <3> HIDE DEF ids, size
      <3> QED
        BY <1>5, <1>6
    <2> HIDE DEF ids, size, m
    <2>2. m \in Seq(ids) /\ Len(m) = size
      BY <1>2, <2>1
    <2> QED
      BY <2>2 DEF m
  <1> HIDE DEF size
  <1> QED
    BY <1>2, <1>6, <1>7

\* What the mock writes are lines.
LEMMA MockWrites ==
    ASSUME NEW c \in Names, evidence \in Evidence[c]
    PROVE  MockDraft \in Seq(Lines)
  <1> DEFINE claim(id) == TextLine(<<Sentence("claim", <<[id |-> id, at |-> None]>>)>>)
             second == MockIds[IF Len(MockIds) > 1 THEN 2 ELSE 1]
  <1>1. /\ MockIds[1] \in Nat
        /\ second \in Nat
    <2> DEFINE k == IF Len(MockIds) > 1 THEN 2 ELSE 1
    <2>1. /\ Len(MockIds) \in Nat \ {0}
          /\ \A n \in 1..Len(MockIds) : MockIds[n] \in DOMAIN evidence.timestamps
      BY MockFinds
    <2>2. DOMAIN evidence.timestamps \in SUBSET Nat
      BY EventsCollected
    <2>3. 1 \in 1..Len(MockIds) /\ k \in 1..Len(MockIds)
      BY <2>1
    <2> HIDE DEF k
    <2>4. MockIds[1] \in Nat /\ MockIds[k] \in Nat
      BY <2>1, <2>2, <2>3
    <2> QED
      BY <2>4 DEF k
  <1>2. ASSUME NEW id \in Nat PROVE claim(id) \in Lines
    <2> DEFINE cite == [id |-> id, at |-> None]
    <2>1. cite \in Citations
      BY DEF Citations
    <2> HIDE DEF cite
    <2>2. <<cite>> \in Seq(Citations)
      BY <2>1
    <2>3. Sentence("claim", <<cite>>) \in Sentences
      BY <2>2 DEF Sentence, Sentences
    <2>4. <<Sentence("claim", <<cite>>)>> \in Seq(Sentences)
      BY <2>3
    <2>5. TextLine(<<Sentence("claim", <<cite>>)>>) \in Lines
      BY <2>4, LinesMade
    <2> QED
      BY <2>5 DEF cite
  <1>3. \A title \in Titles : Heading(2, title) \in Lines
    BY LinesMade
  <1>4. ASSUME NEW form \in {"claim", "question"}
        PROVE  TextLine(<<Sentence(form, <<>>)>>) \in Lines
    <2>1. <<>> \in Seq(Citations)
      OBVIOUS
    <2>2. Sentence(form, <<>>) \in Sentences
      BY <2>1 DEF Sentence, Sentences
    <2>3. <<Sentence(form, <<>>)>> \in Seq(Sentences)
      BY <2>2
    <2> QED
      BY <2>3, LinesMade
  <1> DEFINE a == Heading(2, "summary")
             b == Heading(2, "impact")
             d == Heading(2, "contributing factors")
             f == Heading(2, "corrective actions")
             g == Heading(2, "open questions")
             h == claim(MockIds[1])
             i == claim(second)
             j == TextLine(<<Sentence("claim", <<>>)>>)
             k == TextLine(<<Sentence("question", <<>>)>>)
  <1>5. /\ a \in Lines /\ b \in Lines /\ d \in Lines /\ f \in Lines /\ g \in Lines
    BY <1>3, TitlesAssumption
  <1>6. h \in Lines /\ i \in Lines
    <2> HIDE DEF claim, second
    <2> QED
      BY <1>1, <1>2
  <1>7. j \in Lines /\ k \in Lines
    BY <1>4
  <1>8. MockDraft = <<a, h, b, i, d, h, f, j, g, k>>
    BY DEF MockDraft
  <1> HIDE DEF a, b, d, f, g, h, i, j, k
  <1>9. <<a, h, b, i, d, h, f, j, g, k>> \in Seq(Lines)
    BY <1>5, <1>6, <1>7
  <1> QED
    BY <1>8, <1>9

\* The settings are in range; between two cases nothing is left of the last
\* one; while one runs it is one of the cases with what was collected for it,
\* and a repair is made only if one is left.
CaseInv ==
    /\ config.threshold \in 0..100 /\ config.max_retries \in Nat
    /\ stage \notin Running => case = None /\ report = None /\ retries = 0
    /\ stage \in Running => /\ case \in Names /\ evidence \in Evidence[case]
                            /\ retries \in 0..config.max_retries
    /\ stage \in {"analyze", "validate"} => report = None
    /\ stage = "write" /\ report # None => retries < config.max_retries
    /\ stage = "validate" => draft \in Seq(Lines)

\* A report is that of the document, if the document is what it accepts.
ReportInv ==
    report # None =>
        /\ Counts(report)
        /\ Passed(report) =>
            /\ document \in Seq(Lines) /\ document # <<>>
            /\ document[1] = Heading(1, Title[case])
            /\ report = Validate(document, evidence.timestamps, config.threshold)

\* There is no case yet.
LEMMA CaseInit == Init => CaseInv /\ ReportInv
  BY DEF Init, CaseInv, ReportInv, NoConfig, Running

\* Whatever ends a case, nothing is left of it.
LEMMA Forgotten ==
    ASSUME CaseInv, Forget, UNCHANGED config, stage' \notin Running
    PROVE  CaseInv' /\ ReportInv'
  BY DEF CaseInv, ReportInv, Forget, Running

\* A step that has nothing to do with a case.
LEMMA NoCase ==
    ASSUME CaseInv, ReportInv, stage \notin Running, stage' \notin Running,
           UNCHANGED <<config, work, text>>
    PROVE  CaseInv' /\ ReportInv'
  BY DEF CaseInv, ReportInv, Running, work, text

\* The process gives up.
LEMMA RaisedCase ==
    ASSUME CaseInv, Raise
    PROVE  CaseInv' /\ ReportInv'
  <1>1. Forget /\ UNCHANGED config /\ stage' = "done"
    BY DEF Raise, Exit, run
  <1> QED
    BY <1>1, Forgotten DEF Running

\* Settings that are accepted are in range.
LEMMA ConfigureCase ==
    ASSUME CaseInv, ReportInv, Configure
    PROVE  CaseInv' /\ ReportInv'
  <1>1. CASE Raise
    BY <1>1, RaisedCase
  <1>2. CASE ~Raise
    <2>1. PICK e : /\ Accepted(e) /\ config' = Load(e)
                   /\ stage' = "select" /\ UNCHANGED <<work, text>>
      BY <1>2 DEF Configure
    <2>2. Threshold(e) \in 1..100 /\ MaxRetries(e) \in Nat
      BY <2>1 DEF Accepted, AcceptedPipeline
    <2>3. config'.threshold \in 0..100 /\ config'.max_retries \in Nat
      <3>1. config'.threshold = Threshold(e) /\ config'.max_retries = MaxRetries(e)
        BY <2>1 DEF Load
      <3> QED
        BY <2>2, <3>1
    <2>4. stage = "start"
      BY DEF Configure
    <2>5. case = None /\ report = None /\ retries = 0
      BY <2>4 DEF CaseInv, Running
    <2>6. case' = None /\ report' = None /\ retries' = 0
      BY <2>1, <2>5 DEF work, text
    <2> QED
      BY <2>1, <2>3, <2>6 DEF CaseInv, ReportInv, Running
  <1> QED
    BY <1>1, <1>2

\* A case is started with what is collected for it.
LEMMA StartCaseCase ==
    ASSUME Inv, CaseInv, ReportInv, StartCase
    PROVE  CaseInv' /\ ReportInv'
  <1>1. /\ stage = "next" /\ todo # <<>> /\ case' = Head(todo)
        /\ evidence' \in Evidence[case'] /\ stage' = "analyze" /\ retries' = 0
        /\ UNCHANGED <<config, report>>
    BY DEF StartCase, run, text
  <1>2. case' \in Names
    <2>1. todo \in Seq(Names)
      BY DEF Inv, QueueInv
    <2> QED
      BY <1>1, <2>1
  <1>3. report' = None
    BY <1>1 DEF CaseInv, Running
  <1> QED
    BY <1>1, <1>2, <1>3 DEF CaseInv, ReportInv, Running

\* What the analyst makes of a case is not asked about.
LEMMA AnalyzeCase ==
    ASSUME CaseInv, Analyze
    PROVE  CaseInv' /\ ReportInv'
  <1>1. /\ stage = "analyze" /\ stage' = "write"
        /\ UNCHANGED <<config, case, evidence, retries, report>>
    BY DEF Analyze, run, text
  <1> QED
    BY <1>1 DEF CaseInv, ReportInv, Running

\* A repair is counted, and a draft is lines.
LEMMA WriteCase ==
    ASSUME CaseInv, Write
    PROVE  CaseInv' /\ ReportInv'
  <1>1. /\ stage = "write" /\ stage' = "validate" /\ report' = None
        /\ retries' = IF report = None THEN retries ELSE retries + 1
        /\ UNCHANGED <<config, case, evidence>>
    BY DEF Write, run
  <1>2. /\ case \in Names /\ evidence \in Evidence[case]
        /\ retries \in 0..config.max_retries /\ config.max_retries \in Nat
        /\ report # None => retries < config.max_retries
    BY <1>1 DEF CaseInv, Running
  <1>3. retries' \in 0..config.max_retries
    BY <1>1, <1>2
  <1>4. draft' \in Seq(Lines)
    <2>1. CASE config.provider = "mock"
      <3>1. draft' = MockDraft
        BY <2>1 DEF Write
      <3> QED
        BY <1>2, <3>1, MockWrites
    <2>2. CASE config.provider # "mock"
      <3>1. draft' \in Drafts[case]
        BY <2>2 DEF Write
      <3>2. PICK n \in DOMAIN Cases : case = Cases[n]
        BY <1>2 DEF Names, ToSet
      <3> QED
        BY <3>1, <3>2, DraftsAssumption
    <2> QED
      BY <2>1, <2>2
  <1> QED
    BY <1>1, <1>2, <1>3, <1>4 DEF CaseInv, ReportInv, Running

\* A request that fails changes nothing of the case, or ends the process.
LEMMA RequestFailsCase ==
    ASSUME CaseInv, ReportInv, RequestFails
    PROVE  CaseInv' /\ ReportInv'
  <1>1. Raise \/ UNCHANGED <<stage, run, work, text>>
    BY DEF RequestFails
  <1>2. CASE UNCHANGED <<stage, run, work, text>>
    BY <1>2 DEF CaseInv, ReportInv, run, work, text
  <1> QED
    BY <1>1, <1>2, RaisedCase

\* The report is about the document that is kept, or sends back a draft of
\* which none is.
LEMMA ValidateDraftCase ==
    ASSUME CaseInv, ValidateDraft
    PROVE  CaseInv' /\ ReportInv'
  <1> DEFINE doc == Render(Title[case], hypotheses, draft, evidence.recurs)
             judged == Validate(doc, evidence.timestamps, config.threshold)
  <1>1. /\ stage = "validate" /\ report' = judged
        /\ UNCHANGED <<config, case, evidence, retries>>
        /\ \/ ~Passed(judged) /\ MayRetry /\ stage' = "write"
           \/ stage' = "score" /\ document' = doc
    BY DEF ValidateDraft, run, work
  <1>2. /\ case \in Names /\ evidence \in Evidence[case]
        /\ retries \in 0..config.max_retries /\ draft \in Seq(Lines)
        /\ config.threshold \in 0..100 /\ config.max_retries \in Nat
    BY <1>1 DEF CaseInv, Running
  <1>3. doc \in Seq(Lines) /\ doc # <<>> /\ doc[1] = Heading(1, Title[case])
    <2>1. PICK n \in DOMAIN Cases : case = Cases[n]
      BY <1>2 DEF Names, ToSet
    <2>2. Title[case] \in Titles
      BY <2>1, TitleAssumption
    <2>3. /\ doc \in Seq(Lines) /\ Len(doc) # 0
          /\ doc[1] = Heading(1, Title[case])
      BY <1>2, <2>2, Rendered
    <2> HIDE DEF doc
    <2> QED
      BY <2>3
  <1>4. Counts(judged)
    <2> HIDE DEF doc
    <2> QED
      BY <1>3, ValidatedCounts
  <1> HIDE DEF doc
  <1>5. ReportInv'
    <2>1. CASE ~Passed(judged)
      BY <1>1, <1>4, <2>1 DEF ReportInv
    <2>2. CASE Passed(judged)
      <3>1. document' = doc
        BY <1>1, <2>2
      <3>2. report' = Validate(document', evidence'.timestamps, config'.threshold)
        BY <1>1, <3>1
      <3> HIDE DEF judged
      <3> QED
        BY <1>1, <1>3, <1>4, <3>1, <3>2 DEF ReportInv
    <2> QED
      BY <2>1, <2>2
  <1> HIDE DEF judged
  <1> QED
    BY <1>1, <1>2, <1>5 DEF CaseInv, Running, MayRetry

\* Every step keeps what is known of the case.
LEMMA CaseNext ==
    ASSUME Inv, CaseInv, ReportInv, [Next]_vars
    PROVE  CaseInv' /\ ReportInv'
  <1>1. CASE Configure
    BY <1>1, ConfigureCase
  <1>2. CASE SelectCases
    <2>1. stage = "select" /\ stage' \in {"done", "next"} /\ UNCHANGED <<config, work, text>>
      BY <1>2 DEF SelectCases, Exit
    <2> QED
      BY <2>1, NoCase DEF Running
  <1>3. CASE RunCase
    <2>1. ASSUME Score PROVE CaseInv' /\ ReportInv'
      <3>1. Forget /\ UNCHANGED config /\ stage' = "next"
        BY <2>1 DEF Score, run
      <3> QED
        BY <3>1, Forgotten DEF Running
    <2> QED
      BY <1>3, <2>1, StartCaseCase, AnalyzeCase, WriteCase, RequestFailsCase,
         ValidateDraftCase DEF RunCase
  <1>4. CASE Stop
    BY <1>4, RaisedCase DEF Stop
  <1>5. CASE EndRound
    <2>1. stage = "next" /\ stage' \in {"next", "done", "report"} /\ UNCHANGED <<config, work, text>>
      BY <1>5 DEF EndRound, Exit
    <2> QED
      BY <2>1, NoCase DEF Running
  <1>6. CASE Report
    <2>1. stage = "report" /\ stage' = "verdict" /\ UNCHANGED <<config, work, text>>
      BY <1>6 DEF Report, run
    <2> QED
      BY <2>1, NoCase DEF Running
  <1>7. CASE Verdict
    <2>1. stage = "verdict" /\ stage' = "done" /\ UNCHANGED <<config, work, text>>
      BY <1>7 DEF Verdict, Exit, run
    <2> QED
      BY <2>1, NoCase DEF Running
  <1>8. CASE UpdateReadme \/ UNCHANGED vars
    <2>1. UNCHANGED <<stage, config, work, text>>
      BY <1>8 DEF UpdateReadme, vars, run
    <2> QED
      BY <2>1 DEF CaseInv, ReportInv, work, text
  <1> QED
    BY <1>1, <1>2, <1>3, <1>4, <1>5, <1>6, <1>7, <1>8 DEF Next, Process

\* What is accepted is soundly cited.
LEMMA AcceptedIsCited == CaseInv /\ ReportInv => PassedIsCited
  <1> SUFFICES ASSUME CaseInv, ReportInv, report # None, Passed(report)
               PROVE  SoundlyCited(document, evidence.timestamps, Title[case],
                                   config.threshold)
    BY DEF PassedIsCited
  <1>1. stage \in Running
    BY DEF CaseInv
  <1>2. case \in Names /\ evidence \in Evidence[case]
    BY <1>1 DEF CaseInv
  <1>5. config.threshold \in Nat
    <2>1. config.threshold \in 0..100
      BY DEF CaseInv
    <2> QED
      BY <2>1
  <1>3. \A id \in DOMAIN evidence.timestamps : evidence.timestamps[id] \in Int
    BY <1>2, EventsCollected
  <1>4. /\ document \in Seq(Lines) /\ document # <<>>
        /\ document[1] = Heading(1, Title[case])
        /\ Passed(Validate(document, evidence.timestamps, config.threshold))
    BY DEF ReportInv
  <1> QED
    BY <1>3, <1>4, <1>5, PassedIsSound

\* Whatever the model writes, a document that is accepted cites nothing that
\* was not collected and nothing at a wrong time, in any sentence outside of
\* code, and enough of its claims cite something. (agent/nodes/validator.py:
\* validate_document.)
THEOREM AcceptedAreCited == Spec => []PassedIsCited
  <1>1. Init => Inv /\ CaseInv /\ ReportInv
    BY InitInv, CaseInit
  <1>2. Inv /\ CaseInv /\ ReportInv /\ [Next]_vars => Inv' /\ CaseInv' /\ ReportInv'
    BY NextInv, CaseNext
  <1>3. Inv /\ CaseInv /\ ReportInv => PassedIsCited
    BY AcceptedIsCited
  <1> QED
    BY <1>1, <1>2, <1>3, PTL DEF Spec

----------------------------------------------------------------------------
(* The suite: a fabricated citation in any case is one in the aggregate.   *)

\* What is rounded up is zero only if it was before.
LEMMA RoundingUp ==
    ASSUME NEW n \in Nat, NEW d \in Nat \ {0}
    PROVE  RoundedUp(n, d) \in Nat /\ (RoundedUp(n, d) = 0 => n = 0)
  <1> DEFINE a == n + d - 1
             q == a \div d
             r == a % d
  <1>1. a \in Nat /\ d \in Nat \ {0}
    OBVIOUS
  <1>2. q \in Int /\ r \in 0..(d - 1) /\ a = d * q + r
    <2> HIDE DEF a
    <2> QED
      BY <1>1
  <1>3. ASSUME n # 0 PROVE a >= d
    BY <1>3
  <1>4. q = 0 => a < d
    <2>1. ASSUME q = 0 PROVE a < d
      <3>1. d * q = 0
        BY <2>1
      <3> HIDE DEF a, q, r
      <3> QED
        BY <1>1, <1>2, <3>1
    <2> QED
      BY <2>1
  <1>5. q >= 0
    <2>1. ASSUME q < 0 PROVE FALSE
      <3> HIDE DEF a, q, r
      <3>1. d * q <= -d
        BY <1>1, <1>2, <2>1
      <3> QED
        BY <1>1, <1>2, <3>1
    <2> HIDE DEF q
    <2> QED
      BY <1>2, <2>1
  <1>6. RoundedUp(n, d) = q
    BY DEF RoundedUp
  <1> HIDE DEF a, q, r
  <1> QED
    BY <1>1, <1>2, <1>3, <1>4, <1>5, <1>6

\* A sum of numbers is zero only if each of them is.
LEMMA TotalZero ==
    ASSUME NEW values \in Seq(Nat)
    PROVE  /\ Total(values) \in Nat
           /\ Total(values) = 0 => \A n \in 1..Len(values) : values[n] = 0
  <1> DEFINE L == Len(values)
             step == [p \in (1..L) \X Nat |-> p[2] + values[p[1]]]
  <1>1. L \in Nat /\ \A n \in 1..L : values[n] \in Nat
    OBVIOUS
  <1>2. \A n \in 1..L, s \in Nat : step[<<n, s>>] \in Nat /\ step[<<n, s>>] = s + values[n]
    BY <1>1
  <1>3. PICK f \in [0..L -> Nat] : Iterates(f, L, 0, step)
    <2>1. 0 \in Nat
      OBVIOUS
    <2> HIDE DEF step, L
    <2> QED
      BY <1>1, <1>2, <2>1, Recursion, Zenon
  <1>4. f[0] = 0 /\ \A n \in 1..L : f[n] = f[n - 1] + values[n]
    <2>1. ASSUME NEW n \in 1..L PROVE f[n] = f[n - 1] + values[n]
      <3>1. f[n - 1] \in Nat
        BY <1>1
      <3> HIDE DEF step, L
      <3> QED
        BY <1>2, <1>3, <3>1 DEF Iterates
    <2> QED
      BY <1>3, <2>1 DEF Iterates
  <1>5. f = [n \in 0..L |-> IF n = 0 THEN 0 ELSE f[n - 1] + values[n]]
    BY <1>1, <1>4
  <1> DEFINE sum == CHOOSE g : g = [n \in 0..L |-> IF n = 0 THEN 0 ELSE g[n - 1] + values[n]]
  <1>6. sum = [n \in 0..L |-> IF n = 0 THEN 0 ELSE sum[n - 1] + values[n]]
    BY <1>5, Zenon
  <1>7. Total(values) = sum[L]
    BY DEF Total
  <1> HIDE DEF sum
  <1>8. sum[0] = 0 /\ \A n \in 1..L : sum[n] = sum[n - 1] + values[n]
    BY <1>1, <1>6
  <1> DEFINE T == {n \in 0..L : /\ sum[n] \in Nat
                                /\ sum[n] = 0 => \A m \in 1..n : values[m] = 0}
  <1>9. 0 \in T
    BY <1>1, <1>8
  <1>10. ASSUME NEW n \in 1..L, n - 1 \in T PROVE n \in T
    <2> DEFINE a == sum[n - 1]
               b == values[n]
    <2>1. a \in Nat /\ b \in Nat /\ sum[n] = a + b
      BY <1>1, <1>8, <1>10
    <2>2. a = 0 => \A m \in 1..(n - 1) : values[m] = 0
      BY <1>10
    <2>3. ASSUME sum[n] = 0, NEW m \in 1..n PROVE values[m] = 0
      <3>1. a = 0 /\ b = 0
        <4> HIDE DEF a, b
        <4> QED
          BY <2>1, <2>3
      <3>2. m = n \/ m \in 1..(n - 1)
        OBVIOUS
      <3> QED
        BY <2>2, <3>1, <3>2
    <2>4. sum[n] \in Nat
      <3> HIDE DEF a, b
      <3> QED
        BY <2>1
    <2>5. n \in 0..L
      OBVIOUS
    <2> QED
      BY <2>3, <2>4, <2>5
  <1>11. \A n \in 0..L : n \in T
    <2> HIDE DEF T, L
    <2> QED
      BY <1>1, <1>9, <1>10, Induction
  <1>12. L \in T
    BY <1>1, <1>11
  <1> QED
    BY <1>7, <1>12

\* So of a suite without fabricated citations no case has one.
LEMMA CleanSuite ==
    ASSUME NEW S, results \in Seq(S),
           \A j \in 1..Len(results) : results[j].hallucinated \in Nat,
           Aggregate(results).hallucinated = 0,
           NEW n \in 1..Len(results)
    PROVE  results[n].hallucinated = 0
  <1> DEFINE values == Each(results, "hallucinated")
  <1>1. values = [j \in 1..Len(results) |-> results[j].hallucinated]
    BY DEF Each
  <1>2. Len(results) \in Nat \ {0}
    OBVIOUS
  <1>3. values \in Seq(Nat) /\ Len(values) = Len(results)
    <2>1. values \in [1..Len(results) -> Nat]
      BY <1>1
    <2> HIDE DEF values
    <2> QED
      BY <1>2, <2>1
  <1>4. Aggregate(results).hallucinated = RoundedUp(Total(values), Len(results))
    BY <1>2 DEF Aggregate
  <1> HIDE DEF values
  <1>5. Total(values) = 0
    BY <1>2, <1>3, <1>4, TotalZero, RoundingUp
  <1>6. values[n] = 0
    BY <1>3, <1>5, TotalZero
  <1> QED
    BY <1>1, <1>6

\* What the process and update_readme have said: how a gated run ended is told
\* by its results, and the README by the entry it is about.
VerdictInv ==
    /\ code \in {"none", "ok", "failed", "usage", "exception"}
    /\ \A j \in 1..Len(results) : results[j].hallucinated \in Nat
    /\ gated \in BOOLEAN
    /\ gated => /\ stage = "done"
                /\ code = IF CasesFail \/ GateFailures(Aggregate(results)) # {}
                          THEN "failed" ELSE "ok"
    /\ readme.of \in 0..Len(history)
    /\ readme.of # 0 => readme.passed = ~Breached(history[readme.of])
    /\ Past # {}

\* Nothing has been said.
LEMMA VerdictInit == Init => VerdictInv
  <1> SUFFICES ASSUME Init PROVE VerdictInv
    OBVIOUS
  <1>1. history \in Seq(ToSet(history))
    BY PastAssumption DEF Init
  <1>2. Len(history) \in Nat
    BY <1>1
  <1>3. /\ readme.of = 0 /\ results = <<>> /\ code = "none" /\ gated = FALSE
        /\ Past # {}
    BY DEF Init
  <1>4. 1..Len(results) = {} /\ 0 \in 0..Len(history)
    BY <1>2, <1>3
  <1> QED
    BY <1>3, <1>4 DEF VerdictInv

\* Steps before the verdict: they may end the process, or change the results.
LEMMA BeforeVerdict ==
    ASSUME VerdictInv, stage # "done", UNCHANGED <<gated, files>>,
           code' \in {"none", "ok", "failed", "usage", "exception"},
           \A j \in 1..Len(results') : results'[j].hallucinated \in Nat
    PROVE  VerdictInv'
  BY DEF VerdictInv, files

\* The share of a report is a number.
LEMMA RateTyped ==
    ASSUME ReportInv
    PROVE  HallucinationRate(report) \in Nat
  <1>1. CASE report = None
    BY <1>1 DEF HallucinationRate, Whole
  <1>2. CASE report # None
    <2>1. report.hallucinated \in Nat /\ report.total \in Nat
      BY <1>2 DEF ReportInv, Counts
    <2>2. CASE report.total = 0
      BY <1>2, <2>2 DEF HallucinationRate
    <2>3. CASE report.total # 0
      <3>1. Whole * report.hallucinated \in Nat
        BY <2>1 DEF Whole
      <3>2. report.total \in Nat \ {0}
        BY <2>1, <2>3
      <3>3. RoundedUp(Whole * report.hallucinated, report.total) \in Nat
        BY <3>1, <3>2, RoundingUp
      <3> QED
        BY <1>2, <2>3, <3>3 DEF HallucinationRate
    <2> QED
      BY <2>2, <2>3
  <1> QED
    BY <1>1, <1>2

\* Scores are typed.
LEMMA ScoreVerdict ==
    ASSUME Inv, ReportInv, VerdictInv, Score
    PROVE  VerdictInv'
  <1> DEFINE x == ScoreCase(case, DOMAIN evidence.timestamps, hypotheses, report)
  <1>1. /\ stage = "score" /\ UNCHANGED <<ending, files>>
        /\ results' = IF rounds > 0 THEN results ELSE Append(results, x)
    BY DEF Score
  <1>2. x.hallucinated \in Nat
    BY RateTyped DEF ScoreCase
  <1> HIDE DEF x
  <1>3. PICK S : results \in Seq(S)
    BY DEF Inv, ResultsInv
  <1>4. \A j \in 1..Len(results) : results[j].hallucinated \in Nat
    BY DEF VerdictInv
  <1>5. \A j \in 1..Len(results') : results'[j].hallucinated \in Nat
    <2>1. CASE results' = results
      BY <1>4, <2>1
    <2>2. CASE results' = Append(results, x)
      <3>1. Len(results') = Len(results) + 1
        BY <1>3, <2>2
      <3>2. ASSUME NEW j \in 1..Len(results') PROVE results'[j].hallucinated \in Nat
        <4>1. CASE j = Len(results) + 1
          <5>1. results'[j] = x
            BY <1>3, <2>2, <3>1, <4>1
          <5> QED
            BY <1>2, <5>1
        <4>2. CASE j # Len(results) + 1
          <5>1. j \in 1..Len(results)
            BY <1>3, <3>1, <4>2
          <5>2. results'[j] = results[j]
            BY <1>3, <2>2, <5>1
          <5> QED
            BY <1>4, <5>1, <5>2
        <4> QED
          BY <4>1, <4>2
      <3> QED
        BY <3>2
    <2> QED
      BY <1>1, <2>1, <2>2
  <1>6. code' \in {"none", "ok", "failed", "usage", "exception"} /\ UNCHANGED gated
    BY <1>1 DEF ending, VerdictInv
  <1> QED
    BY <1>1, <1>5, <1>6, BeforeVerdict

\* An entry that is appended is not the one the README is about.
LEMMA ReportVerdict ==
    ASSUME Inv, VerdictInv, Report
    PROVE  VerdictInv'
  <1> DEFINE entry == Aggregate(results)
  <1>1. /\ stage = "report" /\ UNCHANGED <<results, code, gated, readme>>
        /\ history' \in {history, Append(history, entry)}
    BY DEF Report, ending
  <1>2. PICK S : history \in Seq(S)
    BY DEF Inv, HistoryInv
  <1> HIDE DEF entry
  <1>3. readme.of \in 0..Len(history) /\ gated = FALSE
    BY <1>1 DEF VerdictInv
  <1>4. readme.of \in 0..Len(history')
    <2>1. CASE history' = history
      BY <1>3, <2>1
    <2>2. CASE history' = Append(history, entry)
      <3>1. Len(history') = Len(history) + 1 /\ Len(history) \in Nat
        BY <1>2, <2>2
      <3> QED
        BY <1>3, <3>1
    <2> QED
      BY <1>1, <2>1, <2>2
  <1>5. readme.of # 0 => history'[readme.of] = history[readme.of]
    <2>1. CASE history' = history
      BY <2>1
    <2>2. CASE history' = Append(history, entry)
      <3> DEFINE n == readme.of
      <3>1. n \in 0..Len(history)
        BY <1>3
      <3> HIDE DEF n
      <3>2. n # 0 => history'[n] = history[n]
        BY <1>2, <2>2, <3>1
      <3> QED
        BY <3>2 DEF n
    <2> QED
      BY <1>1, <2>1, <2>2
  <1> QED
    BY <1>1, <1>3, <1>4, <1>5 DEF VerdictInv

\* The verdict asks for all that the gates do.
LEMMA VerdictVerdict ==
    ASSUME VerdictInv, Verdict
    PROVE  VerdictInv'
  <1>1. /\ stage = "verdict" /\ stage' = "done" /\ gated' \in BOOLEAN
        /\ code' = IF CasesFail \/ (gated' /\ GateFailures(Aggregate(results)) # {})
                   THEN "failed" ELSE "ok"
        /\ UNCHANGED <<results, history, readme>>
    BY DEF Verdict, Exit, files
  <1>2. CasesFail' <=> CasesFail
    BY <1>1 DEF CasesFail
  <1>3. code' \in {"ok", "failed"}
    BY <1>1
  <1>4. gated' => code' = IF CasesFail' \/ GateFailures(Aggregate(results')) # {}
                          THEN "failed" ELSE "ok"
    BY <1>1, <1>2
  <1> QED
    BY <1>1, <1>3, <1>4 DEF VerdictInv

\* The README is about the latest entry.
LEMMA ReadmeVerdict ==
    ASSUME Inv, VerdictInv, UpdateReadme
    PROVE  VerdictInv'
  <1>1. /\ history # <<>>
        /\ readme' = [of |-> Len(history), passed |-> ~Breached(Last(history))]
        /\ UNCHANGED <<stage, results, code, gated, history>>
    BY DEF UpdateReadme, ending
  <1>2. PICK S : history \in Seq(S)
    BY DEF Inv, HistoryInv
  <1>3. readme'.of \in 0..Len(history) /\ Last(history) = history[readme'.of]
    BY <1>1, <1>2 DEF Last
  <1>4. readme'.passed = ~Breached(history[readme'.of])
    BY <1>1, <1>3
  <1>5. CasesFail' <=> CasesFail
    BY <1>1 DEF CasesFail
  <1> QED
    BY <1>1, <1>3, <1>4, <1>5 DEF VerdictInv

\* A step that ends the process before the verdict, or leaves it all as it is.
LEMMA QuietVerdict ==
    ASSUME VerdictInv, stage # "done", UNCHANGED <<gated, files>>,
           results' = results \/ results' = <<>>,
           code' = code \/ code' \in {"ok", "usage", "exception"}
    PROVE  VerdictInv'
  <1>1. \A j \in 1..Len(results') : results'[j].hallucinated \in Nat
    <2>1. CASE results' = results
      BY <2>1 DEF VerdictInv
    <2>2. CASE results' = <<>>
      BY <2>2
    <2> QED
      BY <2>1, <2>2
  <1>2. code' \in {"none", "ok", "failed", "usage", "exception"}
    BY DEF VerdictInv
  <1> QED
    BY <1>1, <1>2, BeforeVerdict

\* Every step keeps it.
LEMMA VerdictNext ==
    ASSUME Inv, ReportInv, VerdictInv, [Next]_vars
    PROVE  VerdictInv'
  <1>1. ASSUME Raise, stage # "done" PROVE VerdictInv'
    BY <1>1, QuietVerdict DEF Raise, Exit
  <1>2. CASE Configure
    <2>1. stage # "done"
      BY <1>2 DEF Configure
    <2>2. Raise \/ UNCHANGED <<results, ending, files>>
      BY <1>2 DEF Configure
    <2> QED
      BY <1>1, <2>1, <2>2, QuietVerdict DEF ending
  <1>3. CASE SelectCases
    <2>1. /\ stage # "done" /\ UNCHANGED <<results, gated, files>>
          /\ code' = code \/ code' = "usage"
      BY <1>3 DEF SelectCases, Exit
    <2> QED
      BY <2>1, QuietVerdict
  <1>4. CASE StartCase \/ Analyze \/ Write \/ ValidateDraft
    <2>1. stage # "done" /\ UNCHANGED <<results, ending, files>>
      BY <1>4 DEF StartCase, Analyze, Write, ValidateDraft
    <2> QED
      BY <2>1, QuietVerdict DEF ending
  <1>5. CASE RequestFails
    <2>1. stage # "done"
      BY <1>5 DEF RequestFails
    <2>2. Raise \/ UNCHANGED <<results, ending, files>>
      BY <1>5 DEF RequestFails
    <2> QED
      BY <1>1, <2>1, <2>2, QuietVerdict DEF ending
  <1>6. CASE Stop
    BY <1>1, <1>6 DEF Stop
  <1>7. CASE EndRound
    <2>1. /\ stage # "done" /\ UNCHANGED <<results, gated, files>>
          /\ code' = code \/ code' = "ok"
      BY <1>7 DEF EndRound, Exit
    <2> QED
      BY <2>1, QuietVerdict
  <1>8. CASE UNCHANGED vars
    BY <1>8 DEF VerdictInv, vars, ending, files, CasesFail
  <1> QED
    BY <1>2, <1>3, <1>4, <1>5, <1>6, <1>7, <1>8, ScoreVerdict, ReportVerdict,
       VerdictVerdict, ReadmeVerdict DEF Next, Process, RunCase

\* The latest entry is the one that the gated process has just written.
LEMMA ReadmeIsRight == Inv /\ VerdictInv => ReadmeTellsTheVerdict
  <1> SUFFICES ASSUME Inv, VerdictInv, gated, code \in {"ok", "failed"},
                      readme.of = Len(history), \A p \in Past : readme.of > Len(p)
               PROVE  code = "ok" <=> readme.passed
                        /\ \A n \in DOMAIN results : results[n].unresolved = {}
    BY DEF ReadmeTellsTheVerdict
  <1> DEFINE n == readme.of
             entry == Aggregate(results)
  <1>1. PICK p \in Past : TRUE
    BY DEF VerdictInv
  <1>2. Len(p) \in Nat /\ n > Len(p)
    BY PastAssumption
  <1>3. n \in 0..Len(history) /\ n # 0
    BY <1>2 DEF VerdictInv
  <1>4. n \in DOMAIN history
    <2>1. PICK S : history \in Seq(S)
      BY DEF Inv, HistoryInv
    <2> HIDE DEF n
    <2> QED
      BY <1>3, <2>1
  <1>5. ~Old(n)
    <2>1. ASSUME NEW q \in Past PROVE ~ (n <= Len(q))
      <3>1. Len(q) \in Nat /\ n > Len(q)
        BY PastAssumption
      <3> QED
        BY <1>3, <3>1
    <2> QED
      BY <2>1 DEF Old
  <1>6. history[n] = entry
    BY <1>4, <1>5 DEF Inv, HistoryInv, New
  <1>7. readme.passed = ~Breached(entry)
    BY <1>3, <1>6 DEF VerdictInv
  <1>8. Breached(entry) <=> GateFailures(entry) # {}
    BY DEF Breached, GateFailures
  <1>9. code = "ok" <=> ~CasesFail /\ GateFailures(entry) = {}
    BY DEF VerdictInv
  <1>10. PICK S : results \in Seq(S)
    BY DEF Inv, ResultsInv
  <1>11. ~Breached(entry) => \A j \in DOMAIN results : ~ (results[j].hallucinated > 0)
    <2>1. ASSUME ~Breached(entry), NEW j \in DOMAIN results
          PROVE  ~ (results[j].hallucinated > 0)
      <3>1. entry.hallucinated = 0
        BY <2>1 DEF Breached
      <3>2. j \in 1..Len(results)
        BY <1>10
      <3>3. \A k \in 1..Len(results) : results[k].hallucinated \in Nat
        BY DEF VerdictInv
      <3>4. results[j].hallucinated = 0
        BY <1>10, <3>1, <3>2, <3>3, CleanSuite
      <3> QED
        BY <3>4
    <2> QED
      BY <2>1
  <1> HIDE DEF n, entry
  <1>12. code = "ok" <=> readme.passed
                        /\ \A j \in DOMAIN results : results[j].unresolved = {}
    BY <1>7, <1>8, <1>9, <1>11 DEF CasesFail
  <1> QED
    BY <1>12

\* The two places that decide the gates agree: after a gated run the README
\* says passed if and only if the run ended well, or only a label kept it from
\* that. (evals/runner.py: main; scripts/update_readme.py: passed.)
THEOREM ReadmeAgrees == Spec => []ReadmeTellsTheVerdict
  <1> DEFINE All == Inv /\ CaseInv /\ ReportInv /\ VerdictInv
  <1>1. Init => All
    BY InitInv, CaseInit, VerdictInit
  <1>2. All /\ [Next]_vars => All'
    BY NextInv, CaseNext, VerdictNext
  <1>3. All => ReadmeTellsTheVerdict
    BY ReadmeIsRight
  <1> QED
    BY <1>1, <1>2, <1>3, PTL DEF Spec

\* A result is about a case that is no longer to be done.
LEMMA Typed == CallInv /\ Inv /\ CaseInv /\ ReportInv /\ VerdictInv => TypeOK
  <1> SUFFICES ASSUME CallInv, Inv, CaseInv, ReportInv, VerdictInv PROVE TypeOK
    OBVIOUS
  <1>1. /\ stage \in Stages /\ selected \in Seq(Names) /\ todo \in Seq(Names)
        /\ Distinct(selected) /\ rounds \in 0..Rounds
        /\ Len(todo) <= Len(selected)
        /\ \A j \in 1..Len(todo) : todo[j] = selected[Started + j]
    BY DEF Inv, QueueInv
  <1>2. Len(selected) \in Nat /\ Len(todo) \in Nat /\ Started \in 0..Len(selected)
    BY <1>1 DEF Started
  <1>3. /\ DOMAIN selected = 1..Len(selected) /\ DOMAIN todo = 1..Len(todo)
        /\ Started + Len(todo) = Len(selected)
    BY <1>1, <1>2 DEF Started
  <1>4. case \in ToSet(selected) \union {None}
    <2>1. CASE stage \notin Running
      BY <2>1 DEF CaseInv
    <2>2. CASE stage \in Running
      <3>1. Started # 0 /\ case = selected[Started]
        BY <2>2 DEF Inv, ResultsInv
      <3>2. Started \in DOMAIN selected
        BY <1>2, <1>3, <3>1
      <3> QED
        BY <3>1, <3>2 DEF ToSet
    <2> QED
      BY <2>1, <2>2
  <1>5. ToSet(todo) \subseteq ToSet(selected)
    <2>1. ASSUME NEW j \in 1..Len(todo) PROVE todo[j] \in ToSet(selected)
      <3>1. Started + j \in DOMAIN selected
        BY <1>2, <1>3
      <3> QED
        BY <1>1, <3>1 DEF ToSet
    <2> QED
      BY <1>3, <2>1 DEF ToSet
  <1>6. ToSet(selected) \subseteq ToSet(Cases)
    <2>1. \A j \in 1..Len(selected) : selected[j] \in Names
      BY <1>1
    <2> QED
      BY <1>3, <2>1 DEF Names, ToSet
  <1>7. retries \in 0..config.max_retries /\ config.threshold \in 0..100
    BY DEF CaseInv
  <1>8. ASSUME NEW n \in DOMAIN results
        PROVE  results[n].case \in ToSet(selected) \ ToSet(todo)
    <2>1. /\ \E S : results \in Seq(S)
          /\ Len(results) + Len(todo) <= Len(selected)
          /\ \A j \in 1..Len(results) : results[j].case = selected[j]
      BY DEF Inv, ResultsInv
    <2>2. n \in 1..Len(results) /\ Len(results) \in Nat
      BY <2>1
    <2>3. n \in 1..Started /\ n \in DOMAIN selected
      BY <1>2, <1>3, <2>1, <2>2
    <2>4. results[n].case = selected[n]
      BY <2>1, <2>2
    <2>5. ASSUME NEW j \in 1..Len(todo) PROVE todo[j] # selected[n]
      <3>1. Started + j \in DOMAIN selected /\ Started + j # n
        BY <1>2, <1>3, <2>3
      <3> QED
        BY <1>1, <2>3, <3>1 DEF Distinct
    <2> QED
      BY <1>3, <2>3, <2>4, <2>5 DEF ToSet
  <1>9. call.request \in 1..Attempts
    BY DEF CallInv
  <1>10. report # None => report.cited <= report.factual
                          /\ report.hallucinated + report.mismatches <= report.total
    BY DEF ReportInv, Counts
  <1>11. /\ code \in {"none", "ok", "failed", "usage", "exception"}
         /\ readme.of \in 0..Len(history)
    BY DEF VerdictInv
  <1> QED
    BY <1>1, <1>4, <1>5, <1>6, <1>7, <1>8, <1>9, <1>10, <1>11 DEF TypeOK

\* Everything has its type, a report counts no citation twice, and a result is
\* about a case that was selected and is done. (evals/runner.py: run_suite.)
THEOREM TypeCorrect == Spec => []TypeOK
  <1> DEFINE All == CallInv /\ Inv /\ CaseInv /\ ReportInv /\ VerdictInv
  <1>1. Init => All
    BY CallInit, InitInv, CaseInit, VerdictInit
  <1>2. Spec => [](CallInv /\ GivenUpInTime)
    BY CallInit, CallStep, PTL DEF Spec
  <1>3. Spec => [](Inv /\ CaseInv /\ ReportInv /\ VerdictInv)
    <2>1. Init => Inv /\ CaseInv /\ ReportInv /\ VerdictInv
      BY <1>1
    <2>2. /\ Inv /\ CaseInv /\ ReportInv /\ VerdictInv
          /\ [Next]_vars
          => Inv' /\ CaseInv' /\ ReportInv' /\ VerdictInv'
      BY NextInv, CaseNext, VerdictNext
    <2> QED
      BY <2>1, <2>2, PTL DEF Spec
  <1> QED
    BY <1>2, <1>3, Typed, PTL
=============================================================================
