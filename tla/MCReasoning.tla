---------------------------- MODULE MCReasoning ----------------------------
EXTENDS Reasoning

MCCollectors == <<"logs", "git", "alerts">>

Checkout == <<"checkout">>
Payments == <<"payments">>
MCAliases == [c \in {Checkout, Payments} |->
                 IF c = Payments THEN {<<"billing">>} ELSE {}]
MCSuffixes == {<<"svc">>, <<"api", "svc">>}

File(dirs, stem) == [dirs |-> dirs, stem |-> stem]

Line(file, n, form, level, ts, hint, text) ==
    [file |-> file, n |-> n, form |-> form, level |-> level, ts |-> ts,
     hint |-> hint, text |-> text]

\* One failure under two names of the service, and under another service; a
\* line that is only found later; a plain line without a text; and noise.
Lines == {Line("app.log", 1, "json", "error", 5, <<"checkout", "svc">>, "pool exhausted 17"),
          Line("app.log", 2, "plain", "fatal", 7, Checkout, "pool exhausted 99"),
          Line("billing.log", 1, "plain", "error", 6, <<"billing">>, "pool exhausted 99"),
          Line("app.log", 3, "plain", "info", 6, Checkout, "pool exhausted 99"),
          Line("app.log", 4, "json", "error", None, Checkout, "pool exhausted 99"),
          Line("app.log", 5, "json", "error", 6, Checkout, None)}
Late == Line("app.log", 6, "json", "error", 2, Checkout, "pool exhausted 17")
Bare == Line("billing.log", 2, "plain", "error", 6, Checkout, None)

Commit(sha, committed, authored, files) ==
    [sha |-> sha, committed |-> committed, authored |-> authored,
     text |-> "a change", files |-> files]

\* The cause, a decoy under the same directory, and a change of two services
\* that was written before the incident and rebased.
Commits == {Commit("a", 4, 4, {File(<<Checkout, <<"db">> >>, "pool")}),
            Commit("b", 3, 3, {File(<<Checkout>>, "readme")}),
            Commit("c", 5, 1, {File(<<Payments>>, "tax"), File(<<Checkout>>, "cart")})}

Alert(rule, started, service) ==
    [rule |-> rule, started |-> started, service |-> service, text |-> "errors"]

Alerts == {Alert("HighErrorRate", 6, Checkout), Alert("Untimed", None, Checkout)}

MCHolds == [c \in {"logs", "git", "alerts"} |->
    CASE c = "logs" -> {Lines, Lines \union {Late},
                        {l \in Lines : l.file = "app.log" /\ l.n < 2} \union {Bare}}
      [] c = "git" -> {Commits}
      [] c = "alerts" -> {Alerts}]

Texts == {"pool exhausted 17", "pool exhausted 99", "a change", "errors"}
MCSignature == [t \in Texts |->
    IF t \in {"pool exhausted 17", "pool exhausted 99"} THEN "pool exhausted #" ELSE t]
MCWords == [t \in Texts \union {"pool exhausted #"} |->
    IF t \in {"a change", "errors"} THEN {t} ELSE {"pool", "exhausted"}]

LogSig(service) == <<"logs", <<"sig", service, "pool exhausted #">> >>
AlertId == <<"alertmanager", <<"alert", "HighErrorRate", 6>> >>
CommitId(sha) == <<"git", <<"commit", sha>> >>

Keys == <<CommitId("a"), CommitId("b"), CommitId("c"), LogSig(Checkout),
          LogSig(Payments), AlertId>>
MCHash(k) == IF k[2][1] = "line"
             THEN k[2][3] + IF k[2][2] = "app.log" THEN 10 ELSE 20
             ELSE CHOOSE n \in DOMAIN Keys : Keys[n] = k

Item(statement, supporting, contradicting) ==
    [statement |-> statement, supporting |-> supporting, contradicting |-> contradicting]

\* 0 is an id the model made up.
MCReplies ==
    {<<>>,
     <<Item("pool", <<1, 4, 6>>, <<>>)>>,
     <<Item("readme", <<2, 4>>, <<1, 3, 5, 6>>), Item("", <<1>>, <<>>),
       Item("tax", <<3, 5, 0>>, <<5>>), Item("pool", <<4, 1, 6>>, <<>>)>>,
     <<Item("made up", <<0>>, <<>>), Item("pool", <<1, 4, 5, 6>>, <<2, 3, 0>>),
       Item("log", <<4, 5>>, <<4, 3>>)>>}

MCWeight == [change_path_overlap |-> 30, log_signature_match |-> 25,
             metric_correlation |-> 20, temporal_proximity |-> 15,
             human_confirmation |-> 10]
=============================================================================
