-------------------------- MODULE Reasoning_proofs --------------------------
(***************************************************************************)
(* Proofs about Reasoning, for any sources, views of them and replies, any *)
(* weights and bounds that the configuration accepts, and any number of    *)
(* passes.                                                                 *)
(*                                                                         *)
(* Ids are what holds it together: a record has one of its own, a failure  *)
(* mode too, so events that are stored again meet the node they met        *)
(* before.  The rest is counting: an event stands for as many records as   *)
(* it says because ids tell records apart, and what is cut off is later    *)
(* than what stays because ranks are numbers without a gap.                *)
(***************************************************************************)
EXTENDS Reasoning, Ranks, Confidence_proofs

OneEach(S) == \A a, b \in S : a.id = b.id => a = b

\* The source that the records of a collector name.
Origin(c) == IF c = "alerts" THEN "alertmanager" ELSE c

Origins == Sources \union {"alertmanager"}

\* What records of one collection are like.
WellFormed(R) ==
    /\ IsFiniteSet(R)
    /\ R \subseteq Findable
    /\ \A r, q \in R : r.source = q.source /\ r.native = q.native => r = q

\* What an event is like, wherever it is kept.
Proper(e) ==
    /\ e.type \in EventTypes
    /\ e.count \in Nat /\ e.count > 0
    /\ e.id \in Nat
    /\ e.ts \in Int
    /\ e.source \in Origins
    /\ Collapsible(e) => e.id = Hash(<<"logs", <<"sig", e.service, e.signature>> >>)

----------------------------------------------------------------------------
(* Records.                                                                *)

\* There are collectors of three kinds.
LEMMA SourceNames == Sources \subseteq {"logs", "git", "alerts"}
  BY CollectorAssumption DEF Sources

\* The lines of a log that are evidence: finitely many, and told apart.
LEMMA LinesParsed ==
    ASSUME NEW items \in Holds["logs"], "logs" \in Sources
    PROVE  /\ IsFiniteSet(LogRecords(items))
           /\ \A r \in LogRecords(items) :
                /\ r.source = "logs" /\ r.type = "log_error" /\ r.ts \in Int
                /\ \E file, n : r.native = <<"line", file, n>>
           /\ \A r, q \in LogRecords(items) : r.native = q.native => r = q
<1> DEFINE f == [l \in items |-> Record("logs", <<"line", l.file, l.n>>, "log_error",
                                        l.ts, l.text, l.hint, {})]
<1>1. \A r \in LogRecords(items) : \E l \in items : r = f[l] /\ l.ts # None
    BY DEF LogRecords, ParseLine
<1>2. IsFiniteSet(items)
    BY ItemAssumption
<1>3. IsFiniteSet({f[l] : l \in items})
    <2> HIDE DEF f
    <2> QED BY <1>2, ImageFinite
<1>4. LogRecords(items) \in SUBSET {f[l] : l \in items}
    <2> HIDE DEF f
    <2> QED BY <1>1
<1>5. \A l \in items : /\ f[l].source = "logs" /\ f[l].type = "log_error"
                       /\ f[l].ts = l.ts /\ f[l].native = <<"line", l.file, l.n>>
    BY DEF Record
<1>6. \A l \in items : l.ts \in Int \union {None}
    BY ItemAssumption
<1>7. \A l, m \in items : f[l].native = f[m].native => l = m
    <2>1. \A l, m \in items : f[l].native = f[m].native =>
                l.file = m.file /\ l.n = m.n
        BY <1>5
    <2> QED BY <2>1, ItemAssumption
<1> HIDE DEF f
<1>8. \A r \in LogRecords(items) : r.ts \in Int
    BY <1>1, <1>5, <1>6
<1>9. \A r \in LogRecords(items) : \E file, n : r.native = <<"line", file, n>>
    BY <1>1, <1>5
<1>10. \A r, q \in LogRecords(items) : r.native = q.native => r = q
    BY <1>1, <1>7
<1> QED BY <1>1, <1>3, <1>4, <1>5, <1>8, <1>9, <1>10, FS_Subset

\* The same of commits.
LEMMA CommitsParsed ==
    ASSUME NEW items \in Holds["git"], "git" \in Sources
    PROVE  /\ IsFiniteSet(GitRecords(items))
           /\ \A r \in GitRecords(items) :
                r.source = "git" /\ r.type = "commit" /\ r.ts \in Int
           /\ \A r, q \in GitRecords(items) : r.native = q.native => r = q
<1> DEFINE f == [c \in items |-> Record("git", <<"commit", c.sha>>, "commit", c.authored,
                                        c.text, InferService(c.files), c.files)]
<1>1. \A r \in GitRecords(items) : \E c \in items : r = f[c] /\ c.authored # None
    BY DEF GitRecords, ParseCommit
<1>2. IsFiniteSet(items)
    BY ItemAssumption
<1>3. IsFiniteSet({f[c] : c \in items})
    <2> HIDE DEF f
    <2> QED BY <1>2, ImageFinite
<1>4. GitRecords(items) \in SUBSET {f[c] : c \in items}
    <2> HIDE DEF f
    <2> QED BY <1>1
<1>5. \A c \in items : /\ f[c].source = "git" /\ f[c].type = "commit"
                       /\ f[c].ts = c.authored /\ f[c].native = <<"commit", c.sha>>
    BY DEF Record
<1>6. \A c \in items : c.authored \in Int \union {None}
    BY ItemAssumption
<1>7. \A c, d \in items : f[c].native = f[d].native => c = d
    <2>1. \A c, d \in items : f[c].native = f[d].native => c.sha = d.sha
        BY <1>5
    <2> QED BY <2>1, ItemAssumption
<1> HIDE DEF f
<1>8. \A r \in GitRecords(items) : r.ts \in Int
    BY <1>1, <1>5, <1>6
<1>9. \A r, q \in GitRecords(items) : r.native = q.native => r = q
    BY <1>1, <1>7
<1> QED BY <1>1, <1>3, <1>4, <1>5, <1>8, <1>9, FS_Subset

\* And of alerts.
LEMMA AlertsParsed ==
    ASSUME NEW items \in Holds["alerts"], "alerts" \in Sources
    PROVE  /\ IsFiniteSet(AlertRecords(items))
           /\ \A r \in AlertRecords(items) :
                r.source = "alertmanager" /\ r.type = "alert_fired" /\ r.ts \in Int
           /\ \A r, q \in AlertRecords(items) : r.native = q.native => r = q
<1> DEFINE f == [a \in items |-> Record("alertmanager", <<"alert", a.rule, a.started>>,
                                        "alert_fired", a.started, a.text, a.service, {})]
<1>1. \A r \in AlertRecords(items) : \E a \in items : r = f[a] /\ a.started # None
    BY DEF AlertRecords, ParseAlert
<1>2. IsFiniteSet(items)
    BY ItemAssumption
<1>3. IsFiniteSet({f[a] : a \in items})
    <2> HIDE DEF f
    <2> QED BY <1>2, ImageFinite
<1>4. AlertRecords(items) \in SUBSET {f[a] : a \in items}
    <2> HIDE DEF f
    <2> QED BY <1>1
<1>5. \A a \in items : /\ f[a].source = "alertmanager" /\ f[a].type = "alert_fired"
                       /\ f[a].ts = a.started
                       /\ f[a].native = <<"alert", a.rule, a.started>>
    BY DEF Record
<1>6. \A a \in items : a.started \in Int \union {None}
    BY ItemAssumption
<1>7. \A a, b \in items : f[a].native = f[b].native => a = b
    <2>1. \A a, b \in items : f[a].native = f[b].native =>
                a.rule = b.rule /\ a.started = b.started
        BY <1>5
    <2> QED BY <2>1, ItemAssumption
<1> HIDE DEF f
<1>8. \A r \in AlertRecords(items) : r.ts \in Int
    BY <1>1, <1>5, <1>6
<1>9. \A r, q \in AlertRecords(items) : r.native = q.native => r = q
    BY <1>1, <1>7
<1> QED BY <1>1, <1>3, <1>4, <1>5, <1>8, <1>9, FS_Subset

\* What one collector yields.
LEMMA Parsed ==
    ASSUME NEW c \in Sources, NEW items \in Holds[c]
    PROVE  /\ IsFiniteSet(Parse(c, items))
           /\ Parse(c, items) \subseteq Found(c)
           /\ \A r, q \in Parse(c, items) : r.native = q.native => r = q
<1>1. CASE c = "logs"
    BY <1>1, LinesParsed DEF Parse, Found
<1>2. CASE c = "git"
    BY <1>2, CommitsParsed DEF Parse, Found
<1>3. CASE c = "alerts"
    BY <1>3, AlertsParsed DEF Parse, Found
<1> QED BY <1>1, <1>2, <1>3, SourceNames

\* Whatever is found names its source, has a time, and is a log error just if
\* it is from the logs, where it is known by its line.
LEMMA FoundForm ==
    ASSUME NEW c \in Sources, NEW r \in Found(c)
    PROVE  /\ r \in Findable
           /\ r.source = Origin(c) /\ r.source \in Origins
           /\ r.type \in EventTypes /\ r.ts \in Int
           /\ r.type = "log_error" <=> r.source = "logs"
           /\ r.source = "logs" => \E file, n : r.native = <<"line", file, n>>
<1>1. PICK items \in Holds[c] : r \in Parse(c, items)
    BY DEF Found
<1>2. r \in Findable
    BY DEF Findable
<1>3. CASE c = "logs"
    <2>1. r \in LogRecords(items)
        BY <1>1, <1>3 DEF Parse
    <2> QED BY <1>2, <1>3, <2>1, LinesParsed DEF Origin, Origins, EventTypes
<1>4. CASE c = "git"
    <2>1. r \in GitRecords(items)
        BY <1>1, <1>4 DEF Parse
    <2> QED BY <1>2, <1>4, <2>1, CommitsParsed DEF Origin, Origins, EventTypes
<1>5. CASE c = "alerts"
    <2>1. r \in AlertRecords(items)
        BY <1>1, <1>5 DEF Parse
    <2> QED BY <1>2, <1>5, <2>1, AlertsParsed DEF Origin, Origins, EventTypes
<1> QED BY <1>3, <1>4, <1>5, SourceNames

\* Whatever a source may yield, its kind and its id tell where it is from.
LEMMA FindableForm ==
    ASSUME NEW r \in Findable
    PROVE  /\ r.source \in Origins
           /\ r.type \in EventTypes /\ r.ts \in Int
           /\ r.type = "log_error" <=> r.source = "logs"
           /\ r.source = "logs" => \E file, n : r.native = <<"line", file, n>>
<1>1. PICK c \in Sources : r \in Found(c)
    BY DEF Findable
<1> QED BY <1>1, FoundForm
----------------------------------------------------------------------------
(* Events.                                                                 *)

\* What an event keeps of its record.
LEMMA EventOf ==
    ASSUME NEW r
    PROVE  /\ ToEvent(r).id = Hash(<<r.source, r.native>>)
           /\ ToEvent(r).type = r.type /\ ToEvent(r).ts = r.ts
           /\ ToEvent(r).source = r.source /\ ToEvent(r).count = 1
           /\ ToEvent(r).service = Canonical(r.hint)
           /\ ToEvent(r).signature = IF r.type \in SignatureBearing /\ r.text # None
                                     THEN Signature[r.text] ELSE None
  BY DEF ToEvent

\* What it has when it stands for its failure mode.
LEMMA Rekeyed ==
    ASSUME NEW r, NEW n
    PROVE  /\ Rekey(ToEvent(r), n).id =
                Hash(<<ToEvent(r).source,
                       <<"sig", ToEvent(r).service, ToEvent(r).signature>> >>)
           /\ Rekey(ToEvent(r), n).type = ToEvent(r).type
           /\ Rekey(ToEvent(r), n).ts = ToEvent(r).ts
           /\ Rekey(ToEvent(r), n).source = ToEvent(r).source
           /\ Rekey(ToEvent(r), n).service = ToEvent(r).service
           /\ Rekey(ToEvent(r), n).signature = ToEvent(r).signature
           /\ Rekey(ToEvent(r), n).count = n
  BY DEF Rekey, ToEvent

\* Ids tell the records of a collection apart.
LEMMA IdsDiffer ==
    ASSUME NEW R, WellFormed(R), NEW r \in R, NEW q \in R,
           Hash(<<r.source, r.native>>) = Hash(<<q.source, q.native>>)
    PROVE  r = q
<1>1. <<r.source, r.native>> \in IdKeys /\ <<q.source, q.native>> \in IdKeys
    BY DEF WellFormed, IdKeys
<1>2. <<r.source, r.native>> = <<q.source, q.native>>
    BY <1>1, HashAssumption
<1>3. r.source = q.source /\ r.native = q.native
    BY <1>2
<1> QED BY <1>3 DEF WellFormed

\* Events of a collection, before any two become one.
LEMMA EventsOf ==
    ASSUME NEW R, WellFormed(R)
    PROVE  LET E == {ToEvent(r) : r \in R}
           IN /\ IsFiniteSet(E)
              /\ \A r, q \in R : ToEvent(r).id = ToEvent(q).id => r = q
              /\ \A e \in E : /\ e.id \in Nat /\ e.ts \in Int /\ e.count = 1
                              /\ e.type \in EventTypes /\ e.source \in Origins
                              /\ e.type = "log_error" => e.source = "logs"
<1> DEFINE E == {ToEvent(r) : r \in R}
           f == [r \in R |-> ToEvent(r)]
<1>1. IsFiniteSet(E)
    <2>1. IsFiniteSet({f[r] : r \in R})
        <3> HIDE DEF f
        <3> QED BY ImageFinite DEF WellFormed
    <2>2. E = {f[r] : r \in R}
        OBVIOUS
    <2> QED BY <2>1, <2>2
<1>2. ASSUME NEW r \in R, NEW q \in R, ToEvent(r).id = ToEvent(q).id
      PROVE  r = q
    <2>1. ToEvent(r).id = Hash(<<r.source, r.native>>)
        BY EventOf
    <2>2. ToEvent(q).id = Hash(<<q.source, q.native>>)
        BY EventOf
    <2> QED BY <1>2, <2>1, <2>2, IdsDiffer
<1>3. ASSUME NEW r \in R
      PROVE  /\ ToEvent(r).id \in Nat /\ ToEvent(r).ts \in Int /\ ToEvent(r).count = 1
             /\ ToEvent(r).type \in EventTypes /\ ToEvent(r).source \in Origins
             /\ ToEvent(r).type = "log_error" => ToEvent(r).source = "logs"
    <2>1. <<r.source, r.native>> \in IdKeys
        BY DEF WellFormed, IdKeys
    <2>2. r \in Findable
        BY DEF WellFormed
    <2> QED BY <2>1, <2>2, HashAssumption, FindableForm, EventOf
<1> QED BY <1>1, <1>2, <1>3

\* Time, and the id where it does not decide, puts events in order.
LEMMA TimeOrders ==
    ASSUME NEW S, OneEach(S), \A e \in S : e.id \in Nat /\ e.ts \in Int
    PROVE  StrictOrder({p \in S \X S : Before(p[1], p[2])}, S)
<1> DEFINE R == {p \in S \X S : Before(p[1], p[2])}
<1>1. \A a, b \in S : <<a, b>> \in R <=> Before(a, b)
    OBVIOUS
<1>2. \A a, b \in S : a = b \/ Before(a, b) \/ Before(b, a)
    BY DEF OneEach, Before
<1>3. \A a, b, c \in S : Before(a, b) /\ Before(b, c) => Before(a, c)
    BY DEF Before
<1>4. \A a \in S : ~ Before(a, a)
    BY DEF Before
<1> HIDE DEF R
<1> QED BY <1>1, <1>2, <1>3, <1>4 DEF StrictOrder

\* So there is an earliest of finitely many.
LEMMA EarliestIs ==
    ASSUME NEW S, IsFiniteSet(S), S # {}, OneEach(S),
           \A e \in S : e.id \in Nat /\ e.ts \in Int
    PROVE  Earliest(S) \in S /\ \A f \in S : Earliest(S).ts <= f.ts
<1> DEFINE R == {p \in S \X S : Before(p[1], p[2])}
<1>1. PICK e \in S : \A f \in S : e = f \/ <<e, f>> \in R
    <2>1. StrictOrder(R, S) BY TimeOrders
    <2> HIDE DEF R
    <2> QED BY <2>1, FrontExists
<1>2. \A f \in S : e.ts <= f.ts
    <2>1. \A f \in S : e = f \/ Before(e, f)
        BY <1>1
    <2>2. e.ts \in Int /\ \A f \in S : f.ts \in Int
        OBVIOUS
    <2> QED BY <2>1, <2>2 DEF Before
<1>3. \E a \in S : \A f \in S : a.ts <= f.ts
    BY <1>2
<1> QED BY <1>3, Zenon DEF Earliest

\* The event of a failure mode is as early as the first of its records, has
\* the id of the mode, and counts the records it stands for.
LEMMA Collapsed ==
    ASSUME NEW R, WellFormed(R), NEW q \in R, Collapsible(ToEvent(q))
    PROVE  LET E == {ToEvent(r) : r \in R}
               c == Collapse(Group(ToEvent(q), E))
           IN /\ c.type = "log_error" /\ c.source = "logs"
              /\ c.service = ToEvent(q).service
              /\ c.signature = ToEvent(q).signature
              /\ c.id = Hash(<<"logs", <<"sig", c.service, c.signature>> >>)
              /\ c.id \in Nat /\ <<"logs", <<"sig", c.service, c.signature>> >> \in IdKeys
              /\ c.count \in Nat /\ c.count > 0
              /\ c.count = Cardinality({r \in R : Stands(c, r)})
              /\ \E r \in R : Stands(c, r) /\ r.ts = c.ts
              /\ \A r \in R : Stands(c, r) => c.ts <= r.ts
              /\ Stands(c, q)
<1> DEFINE E == {ToEvent(r) : r \in R}
           G == Group(ToEvent(q), E)
           c == Collapse(G)
           f == [r \in R |-> ToEvent(r)]
           D == {r \in R : Stands(c, r)}
<1>1. /\ IsFiniteSet(E)
      /\ \A r, p \in R : ToEvent(r).id = ToEvent(p).id => r = p
      /\ \A e \in E : /\ e.id \in Nat /\ e.ts \in Int
                      /\ e.type = "log_error" => e.source = "logs"
    BY EventsOf
<1>2. G \in SUBSET E /\ ToEvent(q) \in G
    BY DEF Group
<1>3. IsFiniteSet(G) /\ OneEach(G)
    BY <1>1, <1>2, FS_Subset DEF OneEach
<1>4. Earliest(G) \in G /\ \A e \in G : Earliest(G).ts <= e.ts
    <2> HIDE DEF G
    <2> QED BY <1>1, <1>2, <1>3, EarliestIs
<1>5. PICK r \in R : Earliest(G) = ToEvent(r)
    BY <1>2, <1>4
<1>6. ToEvent(r) \in G
    BY <1>4, <1>5
<1>7. c = Rekey(ToEvent(r), Cardinality(G))
    BY <1>5 DEF Collapse
<1>8. /\ Collapsible(ToEvent(r))
      /\ ToEvent(r).service = ToEvent(q).service
      /\ ToEvent(r).signature = ToEvent(q).signature
    BY <1>6 DEF Group
<1>9. ToEvent(r).type = "log_error" /\ ToEvent(r).source = "logs"
    BY <1>1, <1>2, <1>6, <1>8 DEF Collapsible
<1>10. /\ c.type = "log_error" /\ c.source = "logs" /\ c.ts = ToEvent(r).ts
       /\ c.service = ToEvent(q).service /\ c.signature = ToEvent(q).signature
       /\ c.count = Cardinality(G)
       /\ c.id = Hash(<<"logs", <<"sig", c.service, c.signature>> >>)
    <2> DEFINE n == Cardinality(G)
    <2>1. /\ c.type = ToEvent(r).type /\ c.source = ToEvent(r).source
          /\ c.ts = ToEvent(r).ts /\ c.service = ToEvent(r).service
          /\ c.signature = ToEvent(r).signature /\ c.count = n
          /\ c.id = Hash(<<ToEvent(r).source,
                           <<"sig", ToEvent(r).service, ToEvent(r).signature>> >>)
        <3> HIDE DEF n, c
        <3>1. c = Rekey(ToEvent(r), n) BY <1>7 DEF n
        <3> QED BY <3>1, Rekeyed
    <2> HIDE DEF G, c
    <2> QED BY <2>1, <1>8, <1>9
<1>11. Collapsible(c)
    BY <1>8, <1>10 DEF Collapsible
<1>12. \A p \in R : Stands(c, p) <=> ToEvent(p) \in G
    <2> SUFFICES ASSUME NEW p \in R
                 PROVE  Stands(c, p) <=> ToEvent(p) \in G
        OBVIOUS
    <2>1. ToEvent(p) \in G <=>
            /\ Collapsible(ToEvent(p))
            /\ ToEvent(p).service = c.service
            /\ ToEvent(p).signature = c.signature
        <3>1. c.service = ToEvent(q).service /\ c.signature = ToEvent(q).signature
            BY <1>10
        <3> HIDE DEF c
        <3> QED BY <3>1 DEF Group
    <2>2. Stands(c, p) <=>
            /\ p.type = "log_error" /\ p.text # None
            /\ Signature[p.text] = c.signature
            /\ Canonical(p.hint) = c.service
        BY <1>11 DEF Stands
    <2>3. c.signature # None
        BY <1>11 DEF Collapsible
    <2> HIDE DEF c, G
    <2> QED BY <2>1, <2>2, <2>3, EventOf DEF Collapsible, SignatureBearing
<1>13. G = {f[p] : p \in D}
    <2> HIDE DEF c
    <2> QED BY <1>2, <1>12
<1>14. Cardinality(G) = Cardinality(D)
    <2>1. IsFiniteSet(D)
        BY FS_Subset DEF WellFormed
    <2>2. \A p, s \in D : f[p] = f[s] => p = s
        BY <1>1
    <2> HIDE DEF f, D, G
    <2> QED BY <1>13, <2>1, <2>2, ImageCardinality
<1>15. Cardinality(G) \in Nat /\ Cardinality(G) > 0
    BY <1>2, <1>3, FS_CardinalityType, FS_EmptySet
<1>16. <<"logs", <<"sig", c.service, c.signature>> >> \in IdKeys
    <2>1. /\ c.service = ToEvent(q).service /\ c.signature = ToEvent(q).signature
          /\ ToEvent(q).source = "logs"
        BY <1>1, <1>10 DEF Collapsible
    <2>2. q \in Findable
        BY DEF WellFormed
    <2>3. <<ToEvent(q).source, <<"sig", ToEvent(q).service, ToEvent(q).signature>> >>
            \in IdKeys
        BY <2>2 DEF IdKeys
    <2> HIDE DEF c
    <2> QED BY <2>1, <2>3
<1>17. c.id \in Nat
    BY <1>10, <1>16, HashAssumption
<1>18. Stands(c, r) /\ r.ts = c.ts /\ Stands(c, q)
    BY <1>2, <1>6, <1>10, <1>12, EventOf
<1>19. \A p \in R : Stands(c, p) => c.ts <= p.ts
    <2> SUFFICES ASSUME NEW p \in R, Stands(c, p)
                 PROVE  c.ts <= p.ts
        OBVIOUS
    <2>1. ToEvent(p) \in G
        BY <1>12
    <2>2. ToEvent(r).ts <= ToEvent(p).ts
        BY <2>1, <1>4, <1>5
    <2> QED BY <2>2, <1>10, EventOf
<1> HIDE DEF c, G, D, f
<1> QED BY <1>10, <1>14, <1>15, <1>16, <1>17, <1>18, <1>19 DEF c, D, G
\* What the events of a collection say of its records.
Tells(S, R) ==
    \A e \in S :
        /\ e.count = Cardinality({r \in R : Stands(e, r)})
        /\ \E r \in R : Stands(e, r) /\ r.ts = e.ts
        /\ \A r \in R : Stands(e, r) => e.ts <= r.ts

\* An event that is nobody's failure mode stands for its own record only.
LEMMA Single ==
    ASSUME NEW R, WellFormed(R), NEW q \in R, ~ Collapsible(ToEvent(q))
    PROVE  /\ Proper(ToEvent(q))
           /\ Tells({ToEvent(q)}, R)
           /\ Stands(ToEvent(q), q)
<1> DEFINE e == ToEvent(q)
           D == {r \in R : Stands(e, r)}
<1>1. ASSUME NEW r \in R
      PROVE  Stands(e, r) <=> r = q
    <2>1. Stands(e, r) <=> Hash(<<q.source, q.native>>) = Hash(<<r.source, r.native>>)
        BY EventOf DEF Stands
    <2> HIDE DEF e
    <2>2. Hash(<<q.source, q.native>>) = Hash(<<r.source, r.native>>) => q = r
        BY IdsDiffer
    <2> QED BY <2>1, <2>2
<1>2. D = {q}
    <2> HIDE DEF e
    <2> QED BY <1>1
<1>3. Cardinality(D) = 1
    <2> HIDE DEF D
    <2> QED BY <1>2, FS_Singleton
<1>4. /\ e.id \in Nat /\ e.ts \in Int /\ e.count = 1
      /\ e.type \in EventTypes /\ e.source \in Origins
    BY EventsOf
<1>5. e.ts = q.ts
    BY EventOf
<1>6. Proper(e)
    <2> HIDE DEF e
    <2> QED BY <1>4 DEF Proper, e
<1>7. Tells({e}, R)
    <2>1. e.count = Cardinality(D)
        BY <1>3, <1>4
    <2> HIDE DEF e
    <2> QED BY <1>1, <1>4, <1>5, <2>1 DEF Tells
<1> QED BY <1>1, <1>6, <1>7

\* Of one collection every event has an id of its own and says what it should,
\* and every record is stood for.
LEMMA Normalized ==
    ASSUME NEW R, WellFormed(R)
    PROVE  /\ IsFiniteSet(Normalize(R))
           /\ \A e \in Normalize(R) : Proper(e)
           /\ OneEach(Normalize(R))
           /\ Tells(Normalize(R), R)
           /\ \A r \in R : \E e \in Normalize(R) : Stands(e, r)
<1> DEFINE E == {ToEvent(r) : r \in R}
           N == Normalize(R)
           alone(q) == ToEvent(q)
           mode(q) == Collapse(Group(ToEvent(q), E))
<1>1. \A e : e \in N <=>
        \E q \in R : \/ ~ Collapsible(ToEvent(q)) /\ e = ToEvent(q)
                     \/ Collapsible(ToEvent(q)) /\ e = mode(q)
    <2>1. N = {e \in E : ~ Collapsible(e)} \union
              {Collapse(Group(e, E)) : e \in {e \in E : Collapsible(e)}}
        BY DEF Normalize
    <2> QED BY <2>1
<1>2. IsFiniteSet(N)
    <2> DEFINE g == [r \in R |-> IF Collapsible(ToEvent(r)) THEN mode(r) ELSE ToEvent(r)]
    <2>1. N = {g[r] : r \in R}
        <3>1. \A r \in R : g[r] = IF Collapsible(ToEvent(r)) THEN mode(r) ELSE ToEvent(r)
            OBVIOUS
        <3> HIDE DEF g, N, mode
        <3> QED BY <1>1, <3>1
    <2>2. IsFiniteSet({g[r] : r \in R})
        <3> HIDE DEF g
        <3> QED BY ImageFinite DEF WellFormed
    <2> QED BY <2>1, <2>2
<1>3. ASSUME NEW q \in R, Collapsible(ToEvent(q))
      PROVE  /\ Proper(mode(q)) /\ Tells({mode(q)}, R) /\ Stands(mode(q), q)
             /\ mode(q).service = ToEvent(q).service
             /\ mode(q).signature = ToEvent(q).signature
             /\ mode(q).id = Hash(<<"logs", <<"sig", ToEvent(q).service,
                                              ToEvent(q).signature>> >>)
             /\ <<"logs", <<"sig", ToEvent(q).service, ToEvent(q).signature>> >>
                    \in IdKeys
    <2> DEFINE c == mode(q)
    <2>1. /\ c.type = "log_error" /\ c.source = "logs"
          /\ c.service = ToEvent(q).service
          /\ c.signature = ToEvent(q).signature
          /\ c.id = Hash(<<"logs", <<"sig", c.service, c.signature>> >>)
          /\ c.id \in Nat /\ <<"logs", <<"sig", c.service, c.signature>> >> \in IdKeys
          /\ c.count \in Nat /\ c.count > 0
          /\ c.count = Cardinality({r \in R : Stands(c, r)})
          /\ \E r \in R : Stands(c, r) /\ r.ts = c.ts
          /\ \A r \in R : Stands(c, r) => c.ts <= r.ts
          /\ Stands(c, q)
        BY <1>3, Collapsed
    <2>2. c.ts \in Int
        <3> HIDE DEF c
        <3> QED BY <2>1, FindableForm DEF WellFormed
    <2>3. "logs" \in Origins
        <3>1. q \in Findable
            BY DEF WellFormed
        <3>2. q.source \in Origins /\ (q.type = "log_error" => q.source = "logs")
            BY <3>1, FindableForm
        <3>3. q.type = "log_error"
            BY <1>3, EventOf DEF Collapsible
        <3> QED BY <3>2, <3>3
    <2>4. Proper(c)
        <3> HIDE DEF c
        <3> QED BY <2>1, <2>2, <2>3 DEF Proper, EventTypes
    <2>5. Tells({c}, R)
        <3> HIDE DEF c
        <3> QED BY <2>1 DEF Tells
    <2> HIDE DEF mode
    <2> QED BY <2>1, <2>4, <2>5
<1>4. \A e \in N : Proper(e)
    <2> HIDE DEF N, mode
    <2> QED BY <1>1, <1>3, Single
<1>5. Tells(N, R)
    <2>1. \A e \in N : Tells({e}, R)
        <3> HIDE DEF N, mode
        <3> QED BY <1>1, <1>3, Single
    <2> HIDE DEF N
    <2> QED BY <2>1 DEF Tells
<1>6. \A r \in R : \E e \in N : Stands(e, r)
    <2> SUFFICES ASSUME NEW r \in R
                 PROVE  \E e \in N : Stands(e, r)
        OBVIOUS
    <2> HIDE DEF N, mode
    <2>1. CASE Collapsible(ToEvent(r))
        BY <2>1, <1>1, <1>3
    <2>2. CASE ~ Collapsible(ToEvent(r))
        BY <2>2, <1>1, Single
    <2> QED BY <2>1, <2>2
<1>7. ASSUME NEW p \in R, NEW q \in R, ~ Collapsible(ToEvent(p)),
             Collapsible(ToEvent(q)), ToEvent(p).id = mode(q).id
      PROVE  FALSE
    <2> DEFINE k == <<p.source, p.native>>
               m == <<"sig", ToEvent(q).service, ToEvent(q).signature>>
    <2>1. k \in IdKeys /\ ToEvent(p).id = Hash(k)
        BY EventOf DEF WellFormed, IdKeys
    <2>2. <<"logs", m>> \in IdKeys /\ mode(q).id = Hash(<<"logs", m>>)
        BY <1>3, <1>7
    <2>3. k = <<"logs", m>>
        <3> HIDE DEF k, m, mode
        <3> QED BY <1>7, <2>1, <2>2, HashAssumption
    <2>4. p.source = "logs" /\ p.native = m
        BY <2>3
    <2>5. PICK f, n : p.native = <<"line", f, n>>
        BY <2>4, FindableForm DEF WellFormed
    <2>6. p.native[1] = "line" /\ p.native[1] = "sig"
        BY <2>4, <2>5
    <2> QED BY <2>6
<1>8. ASSUME NEW p \in R, NEW q \in R, Collapsible(ToEvent(p)),
             Collapsible(ToEvent(q)), mode(p).id = mode(q).id
      PROVE  mode(p) = mode(q)
    <2> DEFINE k == <<"logs", <<"sig", ToEvent(p).service, ToEvent(p).signature>> >>
               m == <<"logs", <<"sig", ToEvent(q).service, ToEvent(q).signature>> >>
    <2>1. k \in IdKeys /\ mode(p).id = Hash(k)
        BY <1>3, <1>8
    <2>2. m \in IdKeys /\ mode(q).id = Hash(m)
        BY <1>3, <1>8
    <2>3. k = m
        <3> HIDE DEF k, m, mode
        <3> QED BY <1>8, <2>1, <2>2, HashAssumption
    <2>4. k[2] = m[2]
        BY <2>3
    <2>5. ToEvent(p).service = ToEvent(q).service
        BY <2>4
    <2>6. ToEvent(p).signature = ToEvent(q).signature
        BY <2>4
    <2>7. Group(ToEvent(p), E) = Group(ToEvent(q), E)
        BY <2>5, <2>6 DEF Group
    <2> QED BY <2>7
<1>9. ASSUME NEW p \in R, NEW q \in R, ToEvent(p).id = ToEvent(q).id
      PROVE  ToEvent(p) = ToEvent(q)
    BY <1>9, EventsOf
<1>10. OneEach(N)
    <2> SUFFICES ASSUME NEW a \in N, NEW b \in N, a.id = b.id
                 PROVE  a = b
        BY DEF OneEach
    <2> HIDE DEF N, mode
    <2> QED BY <1>1, <1>7, <1>8, <1>9
<1> QED BY <1>2, <1>4, <1>5, <1>6, <1>10

\* What is left out is beyond the limit, and no older than what is kept.
LEMMA CutOff ==
    ASSUME NEW S, IsFiniteSet(S), OneEach(S), \A e \in S : Proper(e)
    PROVE  /\ Cut(S) \subseteq S
           /\ \A z \in S \ Cut(S) : /\ Cardinality(Cut(S)) = MaxEvents
                                    /\ \A e \in Cut(S) : e.ts <= z.ts
<1> DEFINE R == {p \in S \X S : Before(p[1], p[2])}
<1>1. StrictOrder(R, S)
    BY TimeOrders DEF Proper
<1>2. ASSUME NEW e \in S
      PROVE  {f \in S : Before(f, e)} = InFront(e, S, R)
    BY DEF InFront
<1>3. Cut(S) = {e \in S : Rank(e, S, R) < MaxEvents}
    <2> HIDE DEF R
    <2> QED BY <1>2 DEF Cut, Rank
<1>4. ASSUME NEW z \in S \ Cut(S)
      PROVE  /\ Cardinality(Cut(S)) = MaxEvents
             /\ \A e \in Cut(S) : e.ts <= z.ts
    <2>1. Rank(z, S, R) >= MaxEvents
        <3>1. Rank(z, S, R) \in 0..(Cardinality(S) - 1) /\ Cardinality(S) \in Nat
            <4> HIDE DEF R
            <4> QED BY <1>1, RankBound, FS_CardinalityType
        <3>2. ~ (Rank(z, S, R) < MaxEvents)
            BY <1>3
        <3> HIDE DEF R
        <3> QED BY <3>1, <3>2, MaxEventsAssumption
    <2>2. /\ Cardinality({e \in S : Rank(e, S, R) < MaxEvents}) = MaxEvents
          /\ \A e \in S : Rank(e, S, R) < MaxEvents => <<e, z>> \in R
        <3>1. MaxEvents \in Nat
            BY MaxEventsAssumption
        <3> HIDE DEF R
        <3> QED BY <1>1, <2>1, <3>1, FirstFew
    <2>3. \A e \in S : <<e, z>> \in R => e.ts <= z.ts
        <3>1. \A e \in S : e.ts \in Int
            BY DEF Proper
        <3>2. \A e \in S : <<e, z>> \in R => Before(e, z)
            OBVIOUS
        <3> HIDE DEF R
        <3> QED BY <3>1, <3>2 DEF Before
    <2> HIDE DEF R
    <2> QED BY <1>3, <2>2, <2>3
<1> QED BY <1>4 DEF Cut
----------------------------------------------------------------------------
(* Hypotheses.                                                             *)

ItemType == [statement : STRING, supporting : Seq(Nat), contradicting : Seq(Nat)]

\* What a hypothesis is like that goes by the events of E.
Sane(h, E) ==
    /\ h.confidence \in 0..One
    /\ h.confidence = Score(h.fired, h.available, Cardinality(h.contradicting))
    /\ h.band = Band(h.confidence)
    /\ h.fired \subseteq Signals /\ h.available \subseteq Signals
    /\ IsFiniteSet(h.contradicting)
    /\ h.supporting # {} /\ h.supporting \intersect h.contradicting = {}
    /\ h.supporting \union h.contradicting \subseteq Ids(E)

\* A list names finitely many things.
LEMMA NamedFinite ==
    ASSUME NEW list \in Seq(Nat)
    PROVE  IsFiniteSet(Named(list))
<1>1. IsFiniteSet(1..Len(list))
    BY FS_Interval
<1>2. IsFiniteSet({list[n] : n \in 1..Len(list)})
    BY <1>1, ImageFinite
<1>3. DOMAIN list = 1..Len(list)
    OBVIOUS
<1> QED BY <1>2, <1>3 DEF Named

\* Whatever is proposed, a usable item becomes a hypothesis with evidence that
\* exists, on one side, and the score of what it is based on.
LEMMA HypothesisSane ==
    ASSUME NEW item \in ItemType, NEW E, NEW shown, NEW sources,
           Usable(item, Ids(E))
    PROVE  Sane(Hypothesis(item, E, shown, sources), E)
<1> DEFINE supporting == Supporting(item, Ids(E))
           contradicting == Contradicting(item, Ids(E))
           cause == Cause(item, E)
           symptoms == {e \in E : e.id \in supporting \ {cause.id}}
           fired == SignalsFor(cause, symptoms, E, HeuristicsFor(cause, shown))
           available == Available(sources)
           score == Score(fired, available, Cardinality(contradicting))
           h == Hypothesis(item, E, shown, sources)
<1>1. h = [statement |-> item.statement, supporting |-> supporting,
           contradicting |-> contradicting, fired |-> fired,
           available |-> available, confidence |-> score, band |-> Band(score)]
    BY DEF Hypothesis
<1>2. fired \in SUBSET Signals /\ available \in SUBSET Signals
    BY DEF SignalsFor, Available
<1>3. IsFiniteSet(contradicting)
    <2>1. item.contradicting \in Seq(Nat)
        BY DEF ItemType
    <2>2. IsFiniteSet(Named(item.contradicting))
        BY <2>1, NamedFinite
    <2>3. contradicting \in SUBSET Named(item.contradicting)
        BY DEF Contradicting
    <2> HIDE DEF contradicting
    <2> QED BY <2>2, <2>3, FS_Subset
<1>4. Cardinality(contradicting) \in Nat
    <2> HIDE DEF contradicting
    <2> QED BY <1>3, FS_CardinalityType
<1>5. score \in 0..One
    <2> HIDE DEF fired, available, contradicting
    <2> QED BY <1>2, <1>4, ScoreInRange
<1>6. /\ supporting # {} /\ supporting \intersect contradicting = {}
      /\ supporting \union contradicting \subseteq Ids(E)
    BY DEF Usable, Supporting, Contradicting
<1> HIDE DEF supporting, contradicting, fired, available, score, h
<1>7. /\ h.supporting = supporting /\ h.contradicting = contradicting
      /\ h.fired = fired /\ h.available = available
      /\ h.confidence = score /\ h.band = Band(score)
    BY <1>1
<1>8. score = Score(fired, available, Cardinality(contradicting))
    BY DEF score
<1>9. Sane(h, E)
    BY <1>2, <1>3, <1>5, <1>6, <1>7, <1>8 DEF Sane
<1> QED BY <1>9 DEF h

\* The members of F at U have scores to go by.
Comparable(F, U) ==
    /\ DOMAIN F = U /\ U \subseteq Nat
    /\ \A n \in U : F[n].confidence \in Int

\* Ranking leaves nothing out, invents nothing, and goes by the number.
LEMMA Reranked ==
    ASSUME NEW U, IsFiniteSet(U), NEW F, Comparable(F, U)
    PROVE  /\ DOMAIN Rerank(F) = 1..Cardinality(U)
           /\ \A k \in DOMAIN Rerank(F) : \E n \in U : Rerank(F)[k] = F[n]
           /\ \A j, k \in DOMAIN Rerank(F) : j < k =>
                Rerank(F)[j].confidence >= Rerank(F)[k].confidence
<1> DEFINE R == {p \in U \X U : Ahead(p[1], p[2], F)}
           at(k) == CHOOSE n \in U : 1 + Cardinality({m \in U : Ahead(m, n, F)}) = k
<1>1. \A m, n \in U : <<m, n>> \in R <=> Ahead(m, n, F)
    OBVIOUS
<1>2. StrictOrder(R, U)
    <2>1. \A n \in U : ~ Ahead(n, n, F)
        BY DEF Ahead, Comparable
    <2>2. \A l, m, n \in U : Ahead(l, m, F) /\ Ahead(m, n, F) => Ahead(l, n, F)
        BY DEF Ahead, Comparable
    <2>3. \A m, n \in U : m = n \/ Ahead(m, n, F) \/ Ahead(n, m, F)
        BY DEF Ahead, Comparable
    <2> HIDE DEF R
    <2> QED BY <1>1, <2>1, <2>2, <2>3 DEF StrictOrder
<1>3. ASSUME NEW n \in U
      PROVE  Cardinality({m \in U : Ahead(m, n, F)}) = Rank(n, U, R)
    <2>1. {m \in U : Ahead(m, n, F)} = InFront(n, U, R)
        <3> HIDE DEF R
        <3> QED BY <1>1 DEF InFront
    <2> QED BY <2>1 DEF Rank
<1>4. Rerank(F) = [k \in 1..Cardinality(U) |-> F[at(k)]]
    BY DEF Rerank, Comparable
<1>5. ASSUME NEW k \in 1..Cardinality(U)
      PROVE  at(k) \in U /\ Rank(at(k), U, R) = k - 1
    <2>1. Cardinality(U) \in Nat
        BY FS_CardinalityType
    <2>2. k - 1 \in 0..(Cardinality(U) - 1)
        BY <2>1
    <2>3. \E n \in U : Rank(n, U, R) = k - 1
        <3> HIDE DEF R, at
        <3>1. \A i \in 0..(Cardinality(U) - 1) : \E n \in U : Rank(n, U, R) = i
            BY <1>2, RankUnique
        <3> QED BY <2>2, <3>1
    <2>4. \E n \in U : 1 + Cardinality({m \in U : Ahead(m, n, F)}) = k
        <3> HIDE DEF R
        <3> QED BY <1>3, <2>3
    <2>5. /\ at(k) \in U
          /\ 1 + Cardinality({m \in U : Ahead(m, at(k), F)}) = k
        <3> DEFINE P(n) == 1 + Cardinality({m \in U : Ahead(m, n, F)}) = k
        <3>1. \E n \in U : P(n)
            BY <2>4
        <3>2. at(k) = CHOOSE n \in U : P(n)
            OBVIOUS
        <3> HIDE DEF P, at
        <3>3. at(k) \in U /\ P(at(k))
            BY <3>1, <3>2
        <3> QED BY <3>3 DEF P
    <2>6. Rank(at(k), U, R) \in Int
        <3>1. Rank(at(k), U, R) \in 0..(Cardinality(U) - 1)
            <4> HIDE DEF R, at
            <4> QED BY <1>2, <2>5, RankBound
        <3> QED BY <2>1, <3>1
    <2>7. 1 + Rank(at(k), U, R) = k
        <3> HIDE DEF R, at
        <3> QED BY <1>3, <2>5
    <2> HIDE DEF R, at
    <2> QED BY <2>5, <2>6, <2>7
<1>6. ASSUME NEW j \in 1..Cardinality(U), NEW k \in 1..Cardinality(U), j < k
      PROVE  F[at(j)].confidence >= F[at(k)].confidence
    <2>1. at(j) \in U /\ at(k) \in U /\ Rank(at(j), U, R) < Rank(at(k), U, R)
        <3>1. Cardinality(U) \in Nat BY FS_CardinalityType
        <3> HIDE DEF R, at
        <3> QED BY <1>5, <1>6, <3>1
    <2>2. <<at(j), at(k)>> \in R
        <3> HIDE DEF R, at
        <3> QED BY <1>2, <2>1, RankGrows
    <2>3. Ahead(at(j), at(k), F)
        <3> HIDE DEF R, at
        <3> QED BY <1>1, <2>1, <2>2
    <2>4. F[at(j)].confidence \in Int /\ F[at(k)].confidence \in Int
        BY <2>1 DEF Comparable
    <2> HIDE DEF at
    <2> QED BY <2>3, <2>4 DEF Ahead
<1> HIDE DEF R, at
<1>7. DOMAIN Rerank(F) = 1..Cardinality(U)
    BY <1>4
<1>8. \A k \in 1..Cardinality(U) : Rerank(F)[k] = F[at(k)]
    BY <1>4
<1> QED BY <1>5, <1>6, <1>7, <1>8

\* So the hypotheses of any reply are sane, and the number ranks them.
LEMMA Analyzed ==
    ASSUME NEW items \in Replies, NEW E, NEW shown, NEW sources
    PROVE  LET H == Analyze(items, E, shown, sources)
           IN /\ \A n \in DOMAIN H : Sane(H[n], E)
              /\ \A m, n \in DOMAIN H : m < n => H[m].confidence >= H[n].confidence
<1> DEFINE U == {n \in DOMAIN items : Usable(items[n], Ids(E))}
           F == [n \in U |-> Hypothesis(items[n], E, shown, sources)]
           H == Analyze(items, E, shown, sources)
<1>1. items \in Seq(ItemType)
    BY ReplyAssumption DEF ItemType
<1>2. U \in SUBSET (1..Len(items)) /\ Len(items) \in Nat
    BY <1>1
<1>3. IsFiniteSet(U)
    <2>1. IsFiniteSet(1..Len(items))
        BY <1>2, FS_Interval
    <2> HIDE DEF U
    <2> QED BY <1>2, <2>1, FS_Subset
<1>4. \A n \in U : Sane(F[n], E)
    <2> SUFFICES ASSUME NEW n \in U
                 PROVE  Sane(F[n], E)
        OBVIOUS
    <2>1. items[n] \in ItemType
        BY <1>1, <1>2
    <2>2. Usable(items[n], Ids(E))
        OBVIOUS
    <2>3. Sane(Hypothesis(items[n], E, shown, sources), E)
        BY <2>1, <2>2, HypothesisSane
    <2>4. F[n] = Hypothesis(items[n], E, shown, sources)
        OBVIOUS
    <2> HIDE DEF F
    <2> QED BY <2>3, <2>4
<1>5. H = Rerank(F)
    BY DEF Analyze
<1>6. \A n \in U : F[n].confidence \in Int
    <2> HIDE DEF F, U
    <2>1. \A n \in U : F[n].confidence \in 0..One
        BY <1>4 DEF Sane
    <2>2. \A i \in 0..One : i \in Int
        BY DEF One
    <2> QED BY <2>1, <2>2, Zenon
<1>7. Comparable(F, U)
    BY <1>2, <1>6 DEF Comparable
<1>8. /\ \A k \in DOMAIN Rerank(F) : \E n \in U : Rerank(F)[k] = F[n]
      /\ \A j, k \in DOMAIN Rerank(F) : j < k =>
                Rerank(F)[j].confidence >= Rerank(F)[k].confidence
    <2> HIDE DEF F, U
    <2> QED BY <1>3, <1>7, Reranked
<1> HIDE DEF F, U, H
<1> QED BY <1>4, <1>5, <1>8 DEF H
----------------------------------------------------------------------------
(* The inductive invariant.                                                *)

\* Where a pass is.
ControlInv ==
    /\ way \in {"run", "sweep"}
    /\ step \in {"collect", "build_graph", "link_candidates", "analyze",
                 "done", "aborted"}
    /\ passes \in 0..MaxPasses

\* No collector is asked twice, so none is used and a gap.
AskingInv ==
    /\ todo \in Seq(Sources)
    /\ \A m, n \in DOMAIN todo : m # n => todo[m] # todo[n]
    /\ \A n \in DOMAIN todo : todo[n] \notin used \union failed
    /\ used \subseteq Origins /\ failed \subseteq Sources
    /\ used \intersect failed = {}

\* Records are those of collectors that were asked.
RecordInv ==
    /\ WellFormed(records)
    /\ \A r \in records : \E c \in Sources :
        r \in Found(c) /\ \A n \in DOMAIN todo : todo[n] # c

\* Nodes are told apart by their ids, and hold what was seen last.
NodeInv ==
    /\ \A e \in events \union stored : Proper(e)
    /\ OneEach(events) /\ OneEach(stored)
    /\ step \in {"link_candidates", "analyze", "done"} => events \subseteq stored
    /\ step = "collect" => events = {}

\* An edge is between nodes, and as long as the time between them unless one
\* of them was moved.
Straight(l) ==
    LET gap == Event(l.effect, stored).ts - Event(l.cause, stored).ts
    IN gap = l.delta /\ gap > 0 /\ gap <= CausalWindow

LinkInv ==
    /\ \A l \in links :
        /\ l.cause \in Ids(stored) /\ l.effect \in Ids(stored)
        /\ {l.cause, l.effect} \intersect moved = {} => Straight(l)
    /\ chains \subseteq links
    /\ step # "done" => chains = {}

HypothesisInv ==
    /\ \A n \in DOMAIN hypotheses : Sane(hypotheses[n], events)
    /\ step # "done" => hypotheses = <<>>
    /\ RanksFollowScores

Inv == ControlInv /\ AskingInv /\ RecordInv /\ NodeInv /\ LinkInv
       /\ HypothesisInv /\ RecordsAreAccountedFor

\* Before the first pass there is nothing.
LEMMA Initially == Init => Inv
<1> SUFFICES ASSUME Init PROVE Inv
    OBVIOUS
<1> USE DEF Init
<1>1. ControlInv
    BY CollectorAssumption DEF ControlInv
<1>2. AskingInv
    BY DEF AskingInv
<1>3. RecordInv
    BY FS_EmptySet DEF RecordInv, WellFormed
<1>4. NodeInv
    BY DEF NodeInv, OneEach
<1>5. LinkInv
    BY DEF LinkInv
<1>6. HypothesisInv
    BY DEF HypothesisInv, RanksFollowScores
<1>7. RecordsAreAccountedFor
    BY DEF RecordsAreAccountedFor
<1> QED BY <1>1, <1>2, <1>3, <1>4, <1>5, <1>6, <1>7 DEF Inv

\* Events that are looked up by their ids are found.
LEMMA Lookup ==
    ASSUME NEW S, OneEach(S), NEW e \in S
    PROVE  Event(e.id, S) = e
<1>1. \A f \in S : f.id = e.id => f = e
    BY DEF OneEach
<1>2. \E f \in S : f.id = e.id
    OBVIOUS
<1>3. Event(e.id, S) \in S /\ Event(e.id, S).id = e.id
    BY <1>2, Zenon DEF Event
<1> QED BY <1>1, <1>3

\* A pass starts over with a run's collectors, or resumes with what is stored.
LEMMA StartStep == Inv /\ Start => Inv'
<1> SUFFICES ASSUME Inv, Start PROVE Inv'
    OBVIOUS
<1> USE DEF Inv
<1>1. ControlInv'
    BY CollectorAssumption DEF Start, Forget, ControlInv
<1>2. AskingInv'
    <2>1. CASE way' = "run"
        <3>1. todo' = Collectors /\ used' = {} /\ failed' = {}
            BY <2>1 DEF Start, Forget
        <3>2. Collectors \in Seq(Sources)
            BY CollectorAssumption DEF Sources
        <3> QED BY <3>1, <3>2, CollectorAssumption DEF AskingInv
    <2>2. CASE way' = "sweep"
        <3>1. todo' = <<>> /\ used' = {e.source : e \in stored} /\ failed' = {}
            BY <2>2 DEF Start, Forget
        <3>2. used' \subseteq Origins
            BY <3>1 DEF NodeInv, Proper
        <3> QED BY <3>1, <3>2 DEF AskingInv
    <2> QED BY <2>1, <2>2 DEF Start
<1>3. RecordInv'
    BY FS_EmptySet DEF Start, Forget, RecordInv, WellFormed
<1>4. NodeInv'
    BY DEF Start, graph, NodeInv, OneEach
<1>5. LinkInv'
    BY DEF Start, Forget, graph, LinkInv, Straight
<1>6. HypothesisInv'
    BY DEF Start, Forget, HypothesisInv, RanksFollowScores
<1>7. RecordsAreAccountedFor'
    BY DEF Start, RecordsAreAccountedFor
<1> QED BY <1>1, <1>2, <1>3, <1>4, <1>5, <1>6, <1>7

\* A source yields its records, which are told apart from those of the sources
\* before, or it is a gap.
LEMMA CollectFromStep == Inv /\ CollectFrom => Inv'
<1> SUFFICES ASSUME Inv, CollectFrom PROVE Inv'
    OBVIOUS
<1> USE DEF Inv
<1> DEFINE c == Head(todo)
<1>1. ControlInv'
    BY DEF CollectFrom, ControlInv
<1>2. /\ c \in Sources /\ todo' \in Seq(Sources)
      /\ \A n \in DOMAIN todo' : n + 1 \in DOMAIN todo /\ todo'[n] = todo[n + 1]
      /\ \A n \in DOMAIN todo' : todo'[n] # c
      /\ \A m, n \in DOMAIN todo' : m # n => todo'[m] # todo'[n]
      /\ c \notin used \union failed
    <2>1. todo \in Seq(Sources) /\ todo # <<>> /\ todo' = Tail(todo)
        BY DEF CollectFrom, AskingInv
    <2>2. 1 \in DOMAIN todo /\ c = todo[1] /\ c \in Sources
        BY <2>1
    <2>3. todo' \in Seq(Sources) /\ Len(todo') = Len(todo) - 1
        BY <2>1
    <2>4. \A n \in DOMAIN todo' : n + 1 \in DOMAIN todo /\ todo'[n] = todo[n + 1] /\ n + 1 # 1
        BY <2>1, <2>3
    <2>5. \A n \in DOMAIN todo' : todo'[n] # c
        BY <2>2, <2>4 DEF AskingInv
    <2>6. \A m, n \in DOMAIN todo' : m # n => m + 1 # n + 1
        BY <2>3
    <2>7. \A m, n \in DOMAIN todo' : m # n => todo'[m] # todo'[n]
        BY <2>4, <2>6 DEF AskingInv
    <2> QED BY <2>2, <2>3, <2>4, <2>5, <2>7 DEF AskingInv
<1>3. AskingInv'
    <2>1. used' \subseteq used \union {c} /\ failed' \subseteq failed \union {c}
        BY DEF CollectFrom
    <2>2. used' = used \/ failed' = failed
        BY DEF CollectFrom
    <2>3. used' \intersect failed' = {}
        BY <1>2, <2>1, <2>2 DEF AskingInv
    <2>4. \A n \in DOMAIN todo' : todo'[n] \notin used \union failed \union {c}
        BY <1>2 DEF AskingInv
    <2>5. used' \subseteq Origins /\ failed' \subseteq Sources
        BY <1>2, <2>1 DEF AskingInv, Origins
    <2> QED BY <1>2, <2>1, <2>3, <2>4, <2>5 DEF AskingInv
<1>4. RecordInv'
    <2>1. CASE records' = records
        <3>1. \A r \in records : \E d \in Sources :
                r \in Found(d) /\ \A n \in DOMAIN todo' : todo'[n] # d
            BY <1>2 DEF RecordInv
        <3> QED BY <2>1, <3>1 DEF RecordInv
    <2>2. CASE \E items \in Holds[c] : records' = records \union Parse(c, items)
        <3>1. PICK items \in Holds[c] : records' = records \union Parse(c, items)
            BY <2>2
        <3> DEFINE new == Parse(c, items)
        <3>2. /\ IsFiniteSet(new) /\ new \subseteq Found(c)
              /\ \A r, q \in new : r.native = q.native => r = q
            BY <1>2, Parsed
        <3>3. IsFiniteSet(records')
            BY <3>1, <3>2, FS_Union DEF RecordInv, WellFormed
        <3>4. \A r \in records' : \E d \in Sources :
                r \in Found(d) /\ \A n \in DOMAIN todo' : todo'[n] # d
            BY <1>2, <3>1, <3>2 DEF RecordInv
        <3>5. records' \subseteq Findable
            BY <3>4, FoundForm
        <3>6. ASSUME NEW r \in records, NEW q \in new
              PROVE  r.source # q.source
            <4>1. PICK d \in Sources : r \in Found(d) /\ \A n \in DOMAIN todo : todo[n] # d
                BY DEF RecordInv
            <4>2. d # c
                <5>1. 1 \in DOMAIN todo /\ c = todo[1]
                    BY DEF CollectFrom, AskingInv
                <5> QED BY <4>1, <5>1
            <4>3. q \in Found(c)
                BY <3>2
            <4>4. r.source = Origin(d)
                BY <4>1, FoundForm
            <4>5. q.source = Origin(c)
                BY <1>2, <4>3, FoundForm
            <4>6. Origin(c) # Origin(d)
                BY <1>2, <4>2, SourceNames DEF Origin
            <4> QED BY <4>4, <4>5, <4>6
        <3>7. \A r, q \in records' :
                r.source = q.source /\ r.native = q.native => r = q
            <4> HIDE DEF new
            <4>1. records' = records \union new
                BY <3>1 DEF new
            <4> QED BY <4>1, <3>2, <3>6 DEF RecordInv, WellFormed
        <3> QED BY <3>3, <3>4, <3>5, <3>7 DEF RecordInv, WellFormed
    <2> QED BY <2>1, <2>2 DEF CollectFrom
<1>5. NodeInv'
    BY DEF CollectFrom, graph, NodeInv, OneEach
<1>6. LinkInv'
    BY DEF CollectFrom, graph, LinkInv, Straight
<1>7. HypothesisInv'
    BY DEF CollectFrom, HypothesisInv, RanksFollowScores
<1>8. RecordsAreAccountedFor'
    BY DEF CollectFrom, RecordsAreAccountedFor
<1> QED BY <1>1, <1>3, <1>4, <1>5, <1>6, <1>7, <1>8

\* Records become events that account for them, and the cut leaves the oldest.
LEMMA CollectedStep == Inv /\ Collected => Inv'
<1> SUFFICES ASSUME Inv, Collected PROVE Inv'
    OBVIOUS
<1> USE DEF Inv
<1> DEFINE N == Normalize(records)
<1>1. ControlInv'
    BY DEF Collected, ControlInv
<1>2. AskingInv'
    BY DEF Collected, gathered, AskingInv
<1>3. RecordInv'
    BY DEF Collected, gathered, RecordInv, WellFormed
<1>4. /\ IsFiniteSet(N) /\ \A e \in N : Proper(e)
      /\ OneEach(N) /\ Tells(N, records)
      /\ \A r \in records : \E e \in N : Stands(e, r)
    BY Normalized DEF RecordInv
<1>5. /\ Cut(N) \subseteq N
      /\ \A z \in N \ Cut(N) : /\ Cardinality(Cut(N)) = MaxEvents
                               /\ \A e \in Cut(N) : e.ts <= z.ts
    <2> HIDE DEF N
    <2> QED BY <1>4, CutOff
<1>6. events' = Cut(N) /\ stored' = stored /\ records' = records
    BY DEF Collected, gathered, graph
<1> HIDE DEF N
<1>7. NodeInv'
    <2>1. step' = "build_graph"
        BY DEF Collected
    <2> QED BY <1>4, <1>5, <1>6, <2>1 DEF NodeInv, OneEach
<1>8. LinkInv'
    BY DEF Collected, graph, LinkInv, Straight
<1>9. HypothesisInv'
    BY DEF Collected, HypothesisInv, RanksFollowScores
<1>10. RecordsAreAccountedFor'
    <2>1. Tells(Cut(N), records)
        BY <1>4, <1>5 DEF Tells
    <2>2. ASSUME NEW r \in records
          PROVE  \/ \E e \in Cut(N) : Stands(e, r)
                 \/ /\ Cardinality(Cut(N)) = MaxEvents
                    /\ \A e \in Cut(N) : e.ts <= r.ts
        <3>1. PICK z \in N : Stands(z, r)
            BY <1>4
        <3>2. z.ts <= r.ts
            BY <1>4, <3>1 DEF Tells
        <3>3. CASE z \in Cut(N)
            BY <3>1, <3>3
        <3>4. CASE z \notin Cut(N)
            <4>1. \A e \in Cut(N) : e.ts <= z.ts
                BY <1>5, <3>4
            <4>2. z.ts \in Int /\ \A e \in Cut(N) : e.ts \in Int
                BY <1>4, <1>5 DEF Proper
            <4>3. r.ts \in Int
                BY FindableForm DEF RecordInv, WellFormed
            <4>4. \A e \in Cut(N) : e.ts <= r.ts
                BY <3>2, <4>1, <4>2, <4>3
            <4> QED BY <1>5, <3>4, <4>4
        <3> QED BY <3>3, <3>4
    <2> QED BY <1>6, <2>1, <2>2 DEF RecordsAreAccountedFor, Tells
<1> QED BY <1>1, <1>2, <1>3, <1>7, <1>8, <1>9, <1>10
\* Nodes that are seen again replace those of before; an edge between nodes of
\* which none was moved still has its length.
LEMMA BuildGraphStep == Inv /\ BuildGraph => Inv'
<1> SUFFICES ASSUME Inv, BuildGraph PROVE Inv'
    OBVIOUS
<1> USE DEF Inv
<1>1. ControlInv'
    BY DEF BuildGraph, ControlInv
<1>2. AskingInv'
    BY DEF BuildGraph, gathered, AskingInv
<1>3. RecordInv'
    BY DEF BuildGraph, gathered, RecordInv, WellFormed
<1>4. HypothesisInv'
    BY DEF BuildGraph, HypothesisInv, RanksFollowScores
<1>5. RecordsAreAccountedFor'
    BY DEF BuildGraph, gathered, RecordsAreAccountedFor
<1>6. CASE step' = "aborted"
    <2>1. UNCHANGED <<events, stored, links, moved, chains>>
        BY <1>6 DEF BuildGraph, graph
    <2>2. NodeInv'
        BY <1>6, <2>1 DEF NodeInv, OneEach
    <2>3. LinkInv'
        BY <1>6, <2>1 DEF BuildGraph, LinkInv, Straight
    <2> QED BY <1>1, <1>2, <1>3, <1>4, <1>5, <2>2, <2>3
<1>7. CASE step' = "link_candidates"
    <2> DEFINE old == {e \in stored : e.id \notin Ids(events)}
    <2>1. /\ stored' = old \union events
          /\ moved' = moved \union
                {e.id : e \in {e \in stored : \E f \in events :
                                    f.id = e.id /\ f.ts # e.ts}}
          /\ UNCHANGED <<events, links, chains>>
        BY <1>7 DEF BuildGraph
    <2>2. OneEach(stored')
        <3> SUFFICES ASSUME NEW a \in stored', NEW b \in stored', a.id = b.id
                     PROVE  a = b
            BY DEF OneEach
        <3>1. \A e \in events : e.id \in Ids(events)
            BY DEF Ids
        <3> QED BY <2>1, <3>1 DEF NodeInv, OneEach
    <2>3. NodeInv'
        <3>1. \A e \in events' \union stored' : Proper(e)
            BY <2>1 DEF NodeInv
        <3>2. OneEach(events')
            BY <2>1 DEF NodeInv
        <3>3. events' \subseteq stored'
            BY <2>1
        <3> QED BY <1>7, <2>2, <3>1, <3>2, <3>3 DEF NodeInv
    <2>4. Ids(stored) \subseteq Ids(stored')
        BY <2>1 DEF Ids
    <2>5. ASSUME NEW x \in Ids(stored), x \notin moved'
          PROVE  Event(x, stored').ts = Event(x, stored).ts
        <3>1. PICK e \in stored : e.id = x
            BY DEF Ids
        <3>2. Event(x, stored) = e
            BY <3>1, Lookup DEF NodeInv
        <3>3. CASE x \in Ids(events)
            <4>1. PICK f \in events : f.id = x
                BY <3>3 DEF Ids
            <4>2. f.ts = e.ts
                BY <2>1, <2>5, <3>1, <4>1
            <4>3. Event(x, stored') = f
                BY <2>1, <2>2, <4>1, Lookup
            <4> QED BY <3>2, <4>2, <4>3
        <3>4. CASE x \notin Ids(events)
            <4>1. e \in stored'
                BY <2>1, <3>1, <3>4
            <4>2. Event(x, stored') = e
                BY <2>2, <3>1, <4>1, Lookup
            <4> QED BY <3>2, <4>2
        <3> QED BY <3>3, <3>4
    <2>6. LinkInv'
        <3>1. ASSUME NEW l \in links
              PROVE  /\ l.cause \in Ids(stored') /\ l.effect \in Ids(stored')
                     /\ {l.cause, l.effect} \intersect moved' = {} => Straight(l)'
            <4>1. l.cause \in Ids(stored) /\ l.effect \in Ids(stored)
                BY DEF LinkInv
            <4>2. ASSUME {l.cause, l.effect} \intersect moved' = {}
                  PROVE  Straight(l)'
                <5>1. Straight(l)
                    BY <2>1, <4>2 DEF LinkInv
                <5>2. /\ Event(l.cause, stored').ts = Event(l.cause, stored).ts
                      /\ Event(l.effect, stored').ts = Event(l.effect, stored).ts
                    BY <2>5, <4>1, <4>2
                <5> QED BY <5>1, <5>2 DEF Straight
            <4> QED BY <2>4, <4>1, <4>2
        <3>2. chains' = {}
            BY <2>1 DEF BuildGraph, LinkInv
        <3> QED BY <2>1, <3>1, <3>2 DEF LinkInv
    <2> QED BY <1>1, <1>2, <1>3, <1>4, <1>5, <2>3, <2>6
<1> QED BY <1>6, <1>7 DEF BuildGraph

\* A link is as long as the time from its cause to its effect.
LEMMA LinksAreStraight ==
    ASSUME NEW E, NEW new \in Link(E), NEW l \in new
    PROVE  \E c, e \in E : l.cause = c.id /\ l.effect = e.id
                            /\ l.delta = e.ts - c.ts /\ MayCause(c, e, CausalWindow)
<1> DEFINE P == {p \in E \X E : MayCause(p[1], p[2], CausalWindow)}
           S == {LinkOf(p[1], p[2]) : p \in P}
<1>1. new \in Strongest(S)
    BY DEF Link
<1>2. new \in SUBSET S
    <2> HIDE DEF S
    <2> QED BY <1>1 DEF Strongest, FirstOf
<1>3. PICK p \in P : l = LinkOf(p[1], p[2])
    BY <1>2
<1>4. p[1] \in E /\ p[2] \in E /\ MayCause(p[1], p[2], CausalWindow)
    OBVIOUS
<1>5. l.cause = p[1].id /\ l.effect = p[2].id /\ l.delta = p[2].ts - p[1].ts
    BY <1>3 DEF LinkOf
<1> QED BY <1>4, <1>5

\* A new link takes the place of the one between the same events.
LEMMA LinkCandidatesStep == Inv /\ LinkCandidates => Inv'
<1> SUFFICES ASSUME Inv, LinkCandidates PROVE Inv'
    OBVIOUS
<1> USE DEF Inv
<1>1. ControlInv'
    BY DEF LinkCandidates, ControlInv
<1>2. AskingInv'
    BY DEF LinkCandidates, gathered, AskingInv
<1>3. RecordInv'
    BY DEF LinkCandidates, gathered, RecordInv, WellFormed
<1>4. NodeInv'
    BY DEF LinkCandidates, NodeInv, OneEach
<1>5. HypothesisInv'
    BY DEF LinkCandidates, HypothesisInv, RanksFollowScores
<1>6. RecordsAreAccountedFor'
    BY DEF LinkCandidates, gathered, RecordsAreAccountedFor
<1>7. PICK new \in Link(events) :
        links' = new \union
            {l \in links : \A k \in new : <<k.cause, k.effect>> # <<l.cause, l.effect>>}
    BY DEF LinkCandidates
<1>8. stored' = stored /\ moved' = moved /\ chains' = {}
    BY DEF LinkCandidates, LinkInv
<1>9. ASSUME NEW l \in new
      PROVE  l.cause \in Ids(stored) /\ l.effect \in Ids(stored) /\ Straight(l)
    <2>1. PICK c \in events, e \in events :
            /\ l.cause = c.id /\ l.effect = e.id
            /\ l.delta = e.ts - c.ts /\ MayCause(c, e, CausalWindow)
        BY LinksAreStraight
    <2>2. c \in stored /\ e \in stored
        BY DEF LinkCandidates, NodeInv
    <2>3. Event(l.cause, stored) = c /\ Event(l.effect, stored) = e
        BY <2>1, <2>2, Lookup DEF NodeInv
    <2>4. Straight(l)
        BY <2>1, <2>3 DEF Straight, MayCause
    <2> QED BY <2>1, <2>2, <2>4 DEF Ids
<1>10. \A l \in links' : l \in new \/ l \in links
    BY <1>7
<1>11. \A l : Straight(l)' <=> Straight(l)
    BY <1>8 DEF Straight
<1>12. LinkInv'
    BY <1>8, <1>9, <1>10, <1>11 DEF LinkInv
<1> QED BY <1>1, <1>2, <1>3, <1>4, <1>5, <1>6, <1>12

\* Of any reply only what stands up to the events is kept, and it is ranked.
LEMMA AnalyzeEventsStep == Inv /\ AnalyzeEvents => Inv'
<1> SUFFICES ASSUME Inv, AnalyzeEvents PROVE Inv'
    OBVIOUS
<1> USE DEF Inv
<1>1. ControlInv'
    BY DEF AnalyzeEvents, ControlInv
<1>2. AskingInv'
    BY DEF AnalyzeEvents, gathered, AskingInv
<1>3. RecordInv'
    BY DEF AnalyzeEvents, gathered, RecordInv, WellFormed
<1>4. NodeInv'
    BY DEF AnalyzeEvents, graph, NodeInv, OneEach
<1>5. RecordsAreAccountedFor'
    BY DEF AnalyzeEvents, gathered, RecordsAreAccountedFor
<1>6. PICK shown \in CandidateChains(links, Ids(stored)), items \in Replies :
        chains' = shown /\ hypotheses' = Analyze(items, events, shown, used)
    BY DEF AnalyzeEvents
<1>7. chains' \subseteq links
    BY <1>6 DEF CandidateChains, FirstOf
<1>8. LinkInv'
    BY <1>7 DEF AnalyzeEvents, graph, LinkInv, Straight
<1>9. HypothesisInv'
    <2>1. /\ \A n \in DOMAIN hypotheses' : Sane(hypotheses'[n], events)
          /\ \A m, n \in DOMAIN hypotheses' : m < n =>
                hypotheses'[m].confidence >= hypotheses'[n].confidence
        BY <1>6, Analyzed
    <2>2. events' = events /\ step' = "done"
        BY DEF AnalyzeEvents
    <2> QED BY <2>1, <2>2 DEF HypothesisInv, RanksFollowScores
<1> QED BY <1>1, <1>2, <1>3, <1>4, <1>5, <1>8, <1>9

\* A pass that ends early keeps what is stored.
LEMMA AbortStep == Inv /\ Abort => Inv'
<1> SUFFICES ASSUME Inv, Abort PROVE Inv'
    OBVIOUS
<1> USE DEF Inv
<1>1. ControlInv'
    BY DEF Abort, ControlInv
<1>2. AskingInv'
    BY DEF Abort, gathered, AskingInv
<1>3. RecordInv'
    BY DEF Abort, gathered, RecordInv, WellFormed
<1>4. NodeInv'
    BY DEF Abort, graph, NodeInv, OneEach
<1>5. LinkInv'
    BY DEF Abort, graph, LinkInv, Straight
<1>6. HypothesisInv'
    BY DEF Abort, HypothesisInv, RanksFollowScores
<1>7. RecordsAreAccountedFor'
    BY DEF Abort, RecordsAreAccountedFor
<1> QED BY <1>1, <1>2, <1>3, <1>4, <1>5, <1>6, <1>7

\* Doing nothing.
LEMMA IdleStep == Inv /\ UNCHANGED vars => Inv'
<1> SUFFICES ASSUME Inv, UNCHANGED vars PROVE Inv'
    OBVIOUS
<1> USE DEF Inv, vars, gathered, graph
<1>1. ControlInv' /\ AskingInv' /\ RecordInv'
    BY DEF ControlInv, AskingInv, RecordInv, WellFormed
<1>2. NodeInv' /\ LinkInv'
    BY DEF NodeInv, OneEach, LinkInv, Straight
<1>3. HypothesisInv'
    BY DEF HypothesisInv, RanksFollowScores
<1>4. RecordsAreAccountedFor'
    BY DEF RecordsAreAccountedFor
<1> QED BY <1>1, <1>2, <1>3, <1>4

\* The invariant holds of every state that a pass, or several, can reach.
LEMMA Invariance == Spec => []Inv
<1>1. Inv /\ [Next]_vars => Inv'
    BY StartStep, CollectFromStep, CollectedStep, BuildGraphStep,
       LinkCandidatesStep, AnalyzeEventsStep, AbortStep, IdleStep DEF Next
<1> QED BY <1>1, Initially, PTL DEF Spec

----------------------------------------------------------------------------
\* State is what it is meant to be: a source is used or a gap and never both,
\* chains are stored links, scores lie within their bounds. (agent/graph.py:
\* collect to analyze; agent/state.py: IncidentState.)
THEOREM TypeCorrect == Spec => []TypeOK
<1>1. Inv => TypeOK
    <2> SUFFICES ASSUME Inv PROVE TypeOK
        OBVIOUS
    <2> USE DEF Inv
    <2>1. used \subseteq Sources \union {"alertmanager"}
        BY DEF AskingInv, Origins
    <2>2. \A e \in events \union stored :
            e.type \in EventTypes /\ e.count > 0 /\ e.id \in Nat
        BY DEF NodeInv, Proper
    <2>3. \A n \in DOMAIN hypotheses :
            /\ hypotheses[n].confidence \in 0..One
            /\ hypotheses[n].band \in {"likely", "plausible", "tentative"}
        BY DEF HypothesisInv, Sane, Band
    <2>4. Ids(events) \subseteq Ids(stored) \/ step \in {"build_graph", "aborted"}
        <3>1. CASE step = "collect"
            BY <3>1 DEF NodeInv, Ids
        <3>2. CASE step \in {"link_candidates", "analyze", "done"}
            BY <3>2 DEF NodeInv, Ids
        <3> QED BY <3>1, <3>2 DEF ControlInv
    <2> QED BY <2>1, <2>2, <2>3, <2>4 DEF TypeOK, ControlInv, AskingInv, LinkInv
<1> QED BY <1>1, Invariance, PTL

\* Nothing a source yields is lost or counted twice on its way to an event, and
\* only the latest is cut off. (agent/normalize/events.py: normalize_records;
\* agent/graph.py: max_events_per_run.)
THEOREM RecordsAccounted == Spec => []RecordsAreAccountedFor
<1>1. Inv => RecordsAreAccountedFor
    BY DEF Inv
<1> QED BY <1>1, Invariance, PTL

\* However often it is collected, a failure mode is one node.
\* (agent/normalize/events.py: _collapse and its id; agent/memory.py: MERGE.)
THEOREM OneNodeEach == Spec => []OneNodePerFailureMode
<1>1. Inv => OneNodePerFailureMode
    <2> SUFFICES ASSUME Inv, NEW a \in stored, NEW b \in stored,
                        Collapsible(a), Collapsible(b),
                        a.service = b.service, a.signature = b.signature
                 PROVE  a = b
        BY DEF OneNodePerFailureMode
    <2>1. a.id = Hash(<<"logs", <<"sig", a.service, a.signature>> >>)
        BY DEF Inv, NodeInv, Proper
    <2>2. b.id = Hash(<<"logs", <<"sig", b.service, b.signature>> >>)
        BY DEF Inv, NodeInv, Proper
    <2>3. a.id = b.id
        BY <2>1, <2>2
    <2> QED BY <2>3 DEF Inv, NodeInv, OneEach
<1> QED BY <1>1, Invariance, PTL

\* The model is shown causes before effects, within the window.
\* (agent/linker.py: link; agent/memory.py: get_candidate_chains.)
THEOREM CausesComeFirst == Spec => []ChainsPointForward
<1>1. Inv => ChainsPointForward
    BY DEF Inv, LinkInv, Straight, ChainsPointForward
<1> QED BY <1>1, Invariance, PTL

\* No reply of the model puts evidence into a hypothesis that the graph does
\* not have, or the same on both sides. (agent/nodes/analyst.py: analyze.)
THEOREM EvidenceResolves == Spec => []EvidenceIsReal
<1>1. Inv => EvidenceIsReal
    <2> SUFFICES ASSUME Inv, NEW n \in DOMAIN hypotheses
                 PROVE  LET h == hypotheses[n] IN
                        /\ h.supporting # {} /\ h.supporting \intersect h.contradicting = {}
                        /\ h.supporting \union h.contradicting \subseteq Ids(stored)
        BY DEF EvidenceIsReal
    <2>1. step = "done"
        BY DEF Inv, HypothesisInv
    <2>2. Ids(events) \subseteq Ids(stored)
        BY <2>1 DEF Inv, NodeInv, Ids
    <2>3. Sane(hypotheses[n], events)
        BY DEF Inv, HypothesisInv
    <2> QED BY <2>2, <2>3 DEF Sane
<1> QED BY <1>1, Invariance, PTL

\* The number ranks the hypotheses, and not the model.
\* (agent/nodes/analyst.py: _rerank.)
THEOREM NumberRanks == Spec => []RanksFollowScores
<1>1. Inv => RanksFollowScores
    BY DEF Inv, HypothesisInv
<1> QED BY <1>1, Invariance, PTL

\* A source that fails gives a hypothesis it speaks for back no more than its
\* own objections cost, and one that is silent never lowers a score.
\* (agent/confidence.py: available_signals, compute_confidence.)
THEOREM LosingASource == Spec => []LossOfSource
<1>1. Inv => LossOfSource
    <2> SUFFICES ASSUME Inv, NEW n \in DOMAIN hypotheses,
                        NEW s \in hypotheses[n].available \intersect DOMAIN SourceOf
                 PROVE  IF s \in hypotheses[n].fired
                        THEN ScoreWithout(hypotheses[n], s) <=
                                hypotheses[n].confidence
                                + Penalty(Cardinality(hypotheses[n].contradicting))
                                - Penalty(Cardinality(ObjectionsWithout(hypotheses[n], s)))
                        ELSE ScoreWithout(hypotheses[n], s) >= hypotheses[n].confidence
        BY DEF LossOfSource
    <2> DEFINE F == hypotheses[n].fired
               A == hypotheses[n].available
               m == Cardinality(hypotheses[n].contradicting)
               l == Cardinality(ObjectionsWithout(hypotheses[n], s))
    <2>1. Sane(hypotheses[n], events)
        BY DEF Inv, HypothesisInv
    <2>2. F \in SUBSET Signals /\ A \in SUBSET Signals /\ s \in A
        BY <2>1 DEF Sane
    <2>3. m \in Nat /\ l \in Nat /\ l <= m
        <3>1. IsFiniteSet(hypotheses[n].contradicting)
            BY <2>1 DEF Sane
        <3>2. ObjectionsWithout(hypotheses[n], s) \in SUBSET hypotheses[n].contradicting
            BY DEF ObjectionsWithout
        <3> QED BY <3>1, <3>2, FS_Subset, FS_CardinalityType
    <2>4. PICK k \in Nat : m = l + k
        <3> HIDE DEF l, m
        <3>1. m - l \in Nat /\ m = l + (m - l)
            BY <2>3
        <3> QED BY <3>1
    <2>5. hypotheses[n].confidence = Score(F, A, m)
        BY <2>1 DEF Sane
    <2>6. ScoreWithout(hypotheses[n], s) = Score(F, A \ {s}, l)
        BY DEF ScoreWithout
    <2>7. CASE s \in F
        <3>1. Score(F, A \ {s}, l) <= Score(F, A, l + k) + Penalty(l + k) - Penalty(l)
            <4> HIDE DEF F, A, m, l
            <4> QED BY <2>2, <2>3, <2>7, LostSupportNeverHelps
        <3>2. Score(F, A \ {s}, l) <= Score(F, A, m) + Penalty(m) - Penalty(l)
            <4> HIDE DEF F, A, m, l
            <4> QED BY <2>4, <3>1
        <3> QED BY <2>5, <2>6, <2>7, <3>2
    <2>8. CASE s \notin F
        <3>1. Score(F, A \ {s}, l) >= Score(F, A, l + k)
            <4> HIDE DEF F, A, m, l
            <4> QED BY <2>2, <2>3, <2>8, LostSilenceNeverHurts
        <3>2. Score(F, A \ {s}, l) >= Score(F, A, m)
            <4> HIDE DEF F, A, m, l
            <4> QED BY <2>4, <3>1
        <3> QED BY <2>5, <2>6, <2>8, <3>2
    <2> QED BY <2>7, <2>8
<1> QED BY <1>1, Invariance, PTL

\* Where two objections cost more than what lies between certainty and the band,
\* as they do with the numbers that are shipped, nothing that two events
\* contradict is called likely, and only what has no more support than the cap
\* is zeroed by objections. (agent/confidence.py:
\* contradiction_penalty, band_for.)
THEOREM ContestedIsNotLikely ==
    ASSUME Lower(Cap, 2 * PerEvent) > One - Likely
    PROVE  Spec => []ObjectionsDemote
<1>1. ASSUME Inv, NEW n \in DOMAIN hypotheses
      PROVE  /\ hypotheses[n].band = "likely" =>
                    Cardinality(hypotheses[n].contradicting) <= 1
             /\ hypotheses[n].confidence = 0 =>
                    RawSupport(hypotheses[n].fired, hypotheses[n].available) <= Cap
    <2> DEFINE F == hypotheses[n].fired
               A == hypotheses[n].available
               m == Cardinality(hypotheses[n].contradicting)
    <2>1. Sane(hypotheses[n], events)
        BY <1>1 DEF Inv, HypothesisInv
    <2>2. F \in SUBSET Signals /\ A \in SUBSET Signals
        BY <2>1 DEF Sane
    <2>3. m \in Nat
        BY <2>1, FS_CardinalityType DEF Sane
    <2>4. hypotheses[n].confidence = Score(F, A, m)
        BY <2>1 DEF Sane
    <2>5. ASSUME hypotheses[n].band = "likely", ~ (m <= 1) PROVE FALSE
        <3>1. Score(F, A, m) >= Likely
            BY <2>1, <2>5 DEF Sane, Band
        <3> HIDE DEF F, A, m
        <3>2. m >= 2
            BY <2>3, <2>5
        <3>3. Score(F, A, m) < Likely
            BY <2>2, <2>3, <3>2, Contested
        <3>4. Score(F, A, m) \in 0..One
            BY <2>2, <2>3, ScoreInRange
        <3>5. Likely \in Int /\ Score(F, A, m) \in Int
            <4>1. \A i \in 0..One : i \in Int
                BY DEF One
            <4>2. \A i \in 1..One : i \in Int
                BY DEF One
            <4> QED BY <3>4, <4>1, <4>2, ModelAssumption DEF AcceptedModel
        <3> QED BY <3>1, <3>3, <3>5
    <2>6. ASSUME hypotheses[n].confidence = 0 PROVE RawSupport(F, A) <= Cap
        <3>1. Score(F, A, m) = 0
            BY <2>4, <2>6
        <3> HIDE DEF F, A, m
        <3> QED BY <2>2, <2>3, <3>1, OnlyTheWeakAreZeroed
    <2> QED BY <2>5, <2>6
<1>2. Inv => ObjectionsDemote
    BY <1>1 DEF ObjectionsDemote
<1> QED BY <1>2, Invariance, PTL
=============================================================================
