----------------------------- MODULE Collection -----------------------------
(***************************************************************************)
(* From what the sources hold to events: parsing, the incident's window,   *)
(* canonical service names, and one event for every failure mode.  Texts   *)
(* are model values; what a text is reduced to is a constant function.     *)
(***************************************************************************)
EXTENDS Events, Sequences, FiniteSets

CONSTANTS
    None,         \* no value: a timestamp that does not parse, no service
    From, Until,  \* the window
    Signature,    \* of a text; None if nothing of it is left
    Aliases,      \* per canonical service name, its other names
    Suffixes,     \* suffixes of names without meaning
    Hash(_),      \* of a source and its native id: the id of an event
    MaxEvents     \* MAX_EVENTS_PER_RUN

\* A name is a sequence of words; case and separators are gone.
ASSUME AliasAssumption == \A c, d \in DOMAIN Aliases :
    /\ c \notin Aliases[d]
    /\ c # d => Aliases[c] \intersect Aliases[d] = {}
ASSUME MaxEventsAssumption == MaxEvents \in Nat \ {0}

InWindow(ts) == From <= ts /\ ts <= Until

----------------------------------------------------------------------------
(* Services.                                                               *)

\* Known under its own name or another's.
Table(name) ==
    {c \in DOMAIN Aliases : name = c \/ name \in Aliases[c]}

EndsWith(name, suffix) ==
    /\ Len(name) > Len(suffix)
    /\ SubSeq(name, Len(name) - Len(suffix) + 1, Len(name)) = suffix

\* The longest suffix, once, and never the whole name.
Stripped(name) ==
    LET found == {s \in Suffixes : EndsWith(name, s)} IN
    IF found = {} THEN name
    ELSE LET s == CHOOSE s \in found : \A t \in found : Len(t) <= Len(s)
         IN SubSeq(name, 1, Len(name) - Len(s))

\* An unknown name stands for itself.
Resolve(name) ==
    IF Table(name) = {} THEN name ELSE CHOOSE c \in Table(name) : TRUE

\* An alias wins before a suffix is taken off.
Canonical(name) ==
    IF name \in {None, <<>>} THEN None
    ELSE IF Table(name) # {} THEN Resolve(name)
    ELSE Resolve(Stripped(name))

----------------------------------------------------------------------------
(* What a collector makes of one item of its source: nothing, or a record. *)

Record(source, native, type, ts, text, hint, files) ==
    [source |-> source, native |-> native, type |-> type, ts |-> ts,
     text |-> text, hint |-> hint, files |-> files]

ErrorLevels == {"error", "fatal"}

\* Line n of a log file, by the name the file has in its directory. A line of
\* JSON says nothing without a message; a plain one may be empty after its level.
ParseLine(l) ==
    {r \in {Record("logs", <<"line", l.file, l.n>>, "log_error", l.ts, l.text,
                   l.hint, {})} :
        /\ l.form \in {"json", "plain"}
        /\ l.level \in ErrorLevels
        /\ l.ts # None
        /\ l.form = "json" => l.text # None}

LogRecords(items) == {r \in UNION {ParseLine(l) : l \in items} : InWindow(r.ts)}

\* The directory at the top, if there is but one.
InferService(files) ==
    LET tops == {f.dirs[1] : f \in {f \in files : f.dirs # <<>>}} IN
    IF Cardinality(tops) = 1 THEN CHOOSE t \in tops : TRUE ELSE None

\* git log selects by the time of the commit; the record has the author's.
ParseCommit(c) ==
    {r \in {Record("git", <<"commit", c.sha>>, "commit", c.authored, c.text,
                   InferService(c.files), c.files)} :
        c.authored # None}

GitRecords(items) ==
    UNION {ParseCommit(c) : c \in {c \in items : InWindow(c.committed)}}

\* An alert that resolved is evidence, too, if one knows when it began.
ParseAlert(a) ==
    {r \in {Record("alertmanager", <<"alert", a.rule, a.started>>, "alert_fired",
                   a.started, a.text, a.service, {})} :
        a.started # None /\ a.rule # None}

AlertRecords(items) == {r \in UNION {ParseAlert(a) : a \in items} : InWindow(r.ts)}

Parse(collector, items) ==
    IF collector = "logs" THEN LogRecords(items)
    ELSE IF collector = "git" THEN GitRecords(items)
    ELSE AlertRecords(items)

----------------------------------------------------------------------------
(* From records to events.                                                 *)

SignatureBearing == {"log_error", "alert_fired"}

ToEvent(r) ==
    [id |-> Hash(<<r.source, r.native>>), type |-> r.type, ts |-> r.ts,
     source |-> r.source, text |-> r.text, service |-> Canonical(r.hint),
     signature |-> IF r.type \in SignatureBearing /\ r.text # None
                   THEN Signature[r.text] ELSE None,
     files |-> r.files, count |-> 1]

Rekey(e, occurrences) ==
    [e EXCEPT !.id = Hash(<<e.source, <<"sig", e.service, e.signature>> >>),
              !.count = occurrences]

\* Of several at the same time, one.
Earliest(E) == CHOOSE e \in E : \A f \in E : e.ts <= f.ts

Collapsible(e) == e.type = "log_error" /\ e.signature # None

\* The events of the same failure mode.
Group(e, E) ==
    {f \in E : Collapsible(f) /\ f.service = e.service /\ f.signature = e.signature}

\* Fault: a group of one keeps the id of its line.
Collapse_KeepsSingle(group) ==
    IF Cardinality(group) = 1 THEN Earliest(group)
    ELSE Rekey(Earliest(group), Cardinality(group))

\* The earliest, for all of them.
Collapse(group) == Rekey(Earliest(group), Cardinality(group))

\* Fault: it counts the lines of another service, too.
Normalize_AnyService(records) ==
    LET E == {ToEvent(r) : r \in records} IN
    {e \in E : ~Collapsible(e)} \union
    {Rekey(Earliest(Group(e, E)), Cardinality({f \in E : f.signature = e.signature})) :
        e \in {e \in E : Collapsible(e)}}

Normalize(records) ==
    LET E == {ToEvent(r) : r \in records} IN
    {e \in E : ~Collapsible(e)} \union
    {Collapse(Group(e, E)) : e \in {e \in E : Collapsible(e)}}

\* The oldest ones.
Cut(E) == {e \in E : Cardinality({f \in E : Before(f, e)}) < MaxEvents}
=============================================================================
