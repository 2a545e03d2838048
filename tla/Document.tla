------------------------------ MODULE Document ------------------------------
(***************************************************************************)
(* A document as a sequence of lines, and how one is put together around   *)
(* what the model wrote.  A line has a kind; a heading has a level and a   *)
(* title, a text has sentences.  Of a sentence there is its form and the   *)
(* events it cites, each maybe with a time.                                *)
(***************************************************************************)
EXTENDS Integers, Sequences

Line(kind) == [kind |-> kind, level |-> 0, title |-> "", sentences |-> <<>>]

Heading(level, title) ==
    [kind |-> "heading", level |-> level, title |-> title, sentences |-> <<>>]

TextLine(sentences) == [Line("text") EXCEPT !.sentences = sentences]

Sentence(form, cites) == [form |-> form, cites |-> cites]

\* The first line of S, or the one after the last of the document.
FirstIn(S, doc) ==
    IF S = {} THEN Len(doc) + 1 ELSE CHOOSE n \in S : \A m \in S : n <= m

\* A search for "## ..." finds it in a deeper heading as well.
Headed(doc, title) ==
    {n \in DOMAIN doc : /\ doc[n].kind = "heading" /\ doc[n].level >= 2
                        /\ doc[n].title = title}

\* What is in front of the "## " found is left at the place, and makes a
\* heading that follows it right away a deeper one.
Glued(hashes, rest) ==
    IF rest = <<>> THEN <<>> ELSE <<[rest[1] EXCEPT !.level = @ + hashes]>> \o Tail(rest)

\* The model's timeline, the first one, goes up to the next section.
StripModelTimeline(draft) ==
    LET start == FirstIn(Headed(draft, "timeline"), draft)
        end == FirstIn({n \in start + 1 .. Len(draft) :
                            draft[n].kind = "heading" /\ draft[n].level = 2}, draft)
    IN IF start > Len(draft) THEN draft
       ELSE SubSeq(draft, 1, start - 1)
            \o Glued(draft[start].level - 2, SubSeq(draft, end, Len(draft)))

\* Tables, so that nothing in them is read as a claim of the model's.
Timeline == <<Heading(2, "timeline"), Line("table")>>
SimilarIncidents ==
    <<Heading(2, "similar past incidents"), Line("quote"), Line("table")>>

Generated(recurs) == Timeline \o (IF recurs THEN SimilarIncidents ELSE <<>>)

\* In front of the hypotheses, or at the end.
WithGeneratedSections(draft, recurs) ==
    LET stripped == StripModelTimeline(draft)
        at == FirstIn(Headed(stripped, "hypotheses"), stripped)
    IN SubSeq(stripped, 1, at - 1) \o Generated(recurs)
       \o (IF at > Len(stripped) THEN <<>>
           ELSE <<[stripped[at] EXCEPT !.level = 2]>>
                \o SubSeq(stripped, at + 1, Len(stripped)))

\* A banner, or the statement of the leading hypothesis. Only its first line
\* is metadata.
Leading(hypotheses) ==
    IF hypotheses = <<>> \/ hypotheses[1].tentative THEN <<Line("quote")>>
    ELSE <<Line("metadata")>> \o
         (IF hypotheses[1].two_lines
          THEN <<TextLine(<<Sentence("claim", <<>>)>>)>> ELSE <<>>)

Header(title, hypotheses) ==
    <<Heading(1, title), Line("metadata")>> \o Leading(hypotheses)

Render(title, hypotheses, draft, recurs) ==
    Header(title, hypotheses) \o WithGeneratedSections(draft, recurs)
=============================================================================
