----------------------------- MODULE Validator ------------------------------
(***************************************************************************)
(* The checks on a document before it may be published: which of its       *)
(* sentences claim something, whether what they cite exists in the         *)
(* incident, and at the time they say.                                     *)
(***************************************************************************)
EXTENDS Document, FiniteSets

CONSTANTS
    None,             \* no time, no report
    Unparseable,      \* a time that is none
    Second,           \* of the clock events are stamped with
    ExemptSections,   \* whose sentences propose or ask
    Titles            \* of incidents and sections

\* What stands for a level that was skipped is the title of no section.
ASSUME TitlesAssumption ==
    /\ {"", "timeline", "similar past incidents", "summary", "impact",
        "contributing factors", "corrective actions", "open questions"} \subseteq Titles
    /\ "" \notin ExemptSections
ASSUME TimesAssumption == None # Unparseable
ASSUME SecondAssumption == Second \in Nat \ {0}

\* A citation names an event, and maybe a time. Only texts have sentences, and
\* a heading has as many hashes as its level.
Citations == [id : Nat, at : {None, Unparseable} \union Int]

Sentences == [form : {"claim", "question", "meta", "short"}, cites : Seq(Citations)]

Lines ==
    {l \in [kind : {"heading", "text", "fence", "quote", "table", "metadata"},
            level : Nat, title : Titles, sentences : Seq(Sentences)] :
        /\ l.kind = "heading" => l.level # 0
        /\ l.kind # "text" => l.sentences = <<>>}

\* Fault: the path keeps what is deeper than the heading.
Enter_KeepsDeeper(path, h) ==
    [n \in 1..(IF Len(path) > h.level THEN Len(path) ELSE h.level) |->
        IF n = h.level THEN h.title
        ELSE IF n \in DOMAIN path THEN path[n] ELSE ""]

\* The headings a heading is under, by level, and itself. A level that the
\* document skips has the empty title.
Enter(path, h) ==
    [n \in 1..h.level |-> IF n = h.level THEN h.title
                          ELSE IF n \in DOMAIN path THEN path[n] ELSE ""]

Exempt(path) == \E n \in DOMAIN path : path[n] \in ExemptSections

\* A question, a fragment or a sentence about the analysis claims nothing.
IsFactual(s, path) == ~Exempt(path) /\ s.form = "claim"

\* Line after line: a fence begins code or ends it, and a heading outside of
\* code moves on the section.
CodeAfter(document) ==
    LET inCode[n \in 0..Len(document)] ==
            IF n = 0 THEN FALSE ELSE inCode[n - 1] # (document[n].kind = "fence")
    IN inCode

SectionAfter(document, inCode) ==
    LET path[n \in 0..Len(document)] ==
            IF n = 0 THEN <<>>
            ELSE IF document[n].kind = "heading" /\ ~inCode[n]
                 THEN Enter(path[n - 1], document[n]) ELSE path[n - 1]
    IN path

\* A sentence is known by its line and its place there, a citation by its
\* sentence and its place in that. Tables, quotes and metadata have none.
SentencesOf(document, inCode) ==
    UNION {{n} \X DOMAIN document[n].sentences :
            n \in {n \in DOMAIN document : ~inCode[n]}}

CitationsOf(document, sentences) ==
    UNION {{p} \X DOMAIN document[p[1]].sentences[p[2]].cites : p \in sentences}

----------------------------------------------------------------------------
\* `timestamps` has the incident's events and no others.
Valid(c, timestamps) == c.id \in DOMAIN timestamps

Apart(a, b) == IF a < b THEN b - a ELSE a - b

TimestampMismatch(c, timestamps) ==
    /\ c.at # None
    /\ c.at = Unparseable \/ Apart(c.at, timestamps[c.id]) >= Second

Cited(s, timestamps) ==
    \E n \in DOMAIN s.cites : Valid(s.cites[n], timestamps)

\* All citations are looked at, those of sentences that claim nothing, too.
Validate(document, timestamps, threshold) ==
    LET inCode == CodeAfter(document)
        path == SectionAfter(document, inCode)
        sentences == SentencesOf(document, inCode)
        citations == CitationsOf(document, sentences)
        SentenceAt(p) == document[p[1]].sentences[p[2]]
        CitationAt(c) == SentenceAt(c[1]).cites[c[2]]
        factual == {p \in sentences : IsFactual(SentenceAt(p), path[p[1]])}
        valid == {c \in citations : Valid(CitationAt(c), timestamps)}
    IN [factual |-> Cardinality(factual),
        cited |-> Cardinality({p \in factual : Cited(SentenceAt(p), timestamps)}),
        total |-> Cardinality(citations),
        hallucinated |-> Cardinality(citations \ valid),
        mismatches |-> Cardinality({c \in valid :
            TimestampMismatch(CitationAt(c), timestamps)}),
        threshold |-> threshold]

\* In percent. A document that claims nothing is covered.
Covered(report) ==
    report.factual = 0 \/ 100 * report.cited >= report.threshold * report.factual

\* One citation of nothing, or of the wrong time, outweighs any coverage.
Passed(report) ==
    /\ report.hallucinated = 0
    /\ report.mismatches = 0
    /\ Covered(report)
=============================================================================
