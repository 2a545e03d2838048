---------------------------- MODULE MCEvaluation ----------------------------
EXTENDS Evaluation

MCCases == <<"pool", "ranker">>

\* The title of the second incident names a section that is exempt.
MCTitle == [c \in {"pool", "ranker"} |->
    IF c = "pool" THEN "checkout down" ELSE "recommendations"]

MCTitles == STRING

MCSections == {"recommendations", "corrective actions"}

\* Event 2 may not have been collected. 9 is an event of another incident.
MCEvidence == [c \in {"pool", "ranker"} |->
    IF c = "pool"
    THEN {[timestamps |-> (1 :> 4 @@ 2 :> 9), recurs |-> TRUE],
          [timestamps |-> (1 :> 4), recurs |-> FALSE]}
    ELSE {[timestamps |-> (1 :> 4 @@ 2 :> 9), recurs |-> FALSE]}]

Explains(ids) == [supporting |-> ids, tentative |-> FALSE, two_lines |-> FALSE]
MCAnalyses == {<<>>, <<Explains({1})>>,
               <<[Explains({2}) EXCEPT !.two_lines = TRUE], Explains({1})>>,
               <<[Explains({1}) EXCEPT !.tentative = TRUE]>>}

Cite(id, at) == [id |-> id, at |-> at]
Claim(cites) == TextLine(<<Sentence("claim", cites)>>)

Right == Claim(<<Cite(1, 4)>>)
Untimed == Claim(<<Cite(1, None)>>)
HalfSecond == Claim(<<Cite(1, 5)>>)
SecondOff == Claim(<<Cite(1, 6)>>)
Early == Claim(<<Cite(1, 3), Cite(2, 6)>>)
NoTime == Claim(<<Cite(1, Unparseable)>>)
Foreign == Claim(<<Cite(1, 4), Cite(9, None)>>)
Bare == Claim(<<>>)
Asks == TextLine(<<Sentence("question", <<Cite(9, None)>>), Sentence("claim", <<>>)>>)
About == TextLine(<<Sentence("meta", <<Cite(2, 9)>>), Sentence("short", <<>>)>>)

Summary == Heading(2, "summary")
Actions == Heading(2, "corrective actions")
Immediate == Heading(3, "immediate")
Deep == Heading(3, "recommendations")
Hypotheses == Heading(2, "hypotheses")

MCLines == {Right, Untimed, HalfSecond, SecondOff, Foreign, Bare, Asks, About,
          Summary, Actions, Deep, Line("fence"), Heading(3, "timeline")}

Longer ==
    {<<Summary, Right, Actions, Immediate, Bare, Hypotheses, Right>>,
     <<Summary, Deep, Bare, Hypotheses, Untimed, Bare>>,
     <<Deep, Bare, Heading(3, "impact"), Bare, Right>>,
     <<Summary, Right, Heading(3, "timeline"), Bare, Actions, Bare>>,
     <<Summary, Heading(2, "timeline"), SecondOff, Hypotheses, Right, About>>,
     <<Line("fence"), Bare, Line("fence"), Right, Bare>>,
     <<Actions, Line("fence"), Summary, Line("fence"), Bare, Foreign>>,
     <<Right, Right, Bare>>, <<Right, Right, Foreign>>, <<Early>>, <<NoTime>>}

MCDrafts ==
    "pool" :> Longer \union {<<a, b>> : a \in MCLines, b \in MCLines}
    @@ "ranker" :> {<<Bare>>, <<Right>>, <<Foreign>>, <<Asks, SecondOff>>}

Sound == [provider |-> "openrouter", key |-> "key", base_url |-> Unset,
          model |-> Unset, password |-> "secret", causal_window |-> Unset,
          threshold |-> Unset, retries |-> 1, max_events |-> 5000,
          weights |-> "sound", services |-> "absent"]

MCEnvironments ==
    {Sound,
     [Sound EXCEPT !.provider = "anthropic", !.threshold = 60, !.retries = 0],
     [Sound EXCEPT !.provider = Unset, !.key = Empty, !.services = "sound"],
     [Sound EXCEPT !.key = Empty], [Sound EXCEPT !.base_url = Empty],
     [Sound EXCEPT !.password = Unset], [Sound EXCEPT !.threshold = 0],
     [Sound EXCEPT !.retries = Malformed], [Sound EXCEPT !.weights = "missing"]}

MCRoot == [c \in {"pool", "ranker"} |->
    IF c = "pool" THEN "commit:shrink pool" ELSE "alert:errors"]
MCAlternates == [c \in {"pool", "ranker"} |-> {}]
MCMustCite == [c \in {"pool", "ranker"} |->
    IF c = "pool" THEN {"log:sig:pool exhausted"} ELSE {}]
MCMatches ==
    "commit:shrink pool" :> {1} @@ "log:sig:pool exhausted" :> {2}
    @@ "alert:errors" :> {1, 2}

MCPast == {<<[cases |-> 2, precision |-> 10000, coverage |-> 10000,
              hallucinated |-> 0]>>}
=============================================================================
