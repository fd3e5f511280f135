--------------------------- MODULE DbLookupProofs ---------------------------
(***************************************************************************)
(* What is looked up by OID alone, for all databases, tables, options and  *)
(* schema changes: the first row of an OID has the parent, or definition,  *)
(* that the last database to speak of that OID gave, and no other row has  *)
(* any.                                                                    *)
(***************************************************************************)
EXTENDS DbCollectProofs

-----------------------------------------------------------------------------
(***************************************************************************)
(* Parents are asked for after the tables, definitions after the indexes.  *)
(***************************************************************************)
AskParents == {"getPartitionInfo", "getParentInfo"}

Behind(s) == /\ NotAfter(s, AskParents, GetTables)
             /\ NotAfter(s, {"getIndexDef"}, GetIndexes)

BehindInv == pc = "query" => Behind(todo)

LEMMA BehindMore ==
  ASSUME NEW s \in Seq(Functions), Behind(s), NEW t \in Without(Late)
  PROVE  s \o t \in Seq(Functions) /\ Behind(s \o t)
<1>1. t \in Seq(Functions) /\ t \in Without(GetTables) /\ t \in Without(GetIndexes)
  BY SeqMonotonic DEF Without, Late
<1> QED BY <1>1, OrderVoid, OrderJoin DEF Behind

LEMMA BehindFirst ==
  LET s == When("tables" \notin o.omit,
                <<"getTables">> \o When(o.v10, <<"getPartitionInfo">>) \o <<"getParentInfo">>)
  IN  /\ s \in Without(GetIndexes) /\ s \in Without({"getIndexDef"})
      /\ s \in Seq(Functions) /\ NotAfter(s, AskParents, GetTables)
<1> DEFINE N == GetIndexes \cup {"getIndexDef"}
           a == <<"getTables">>
           b == When(o.v10, <<"getPartitionInfo">>)
           c == <<"getParentInfo">>
<1>a. /\ {"getTables", "getPartitionInfo", "getParentInfo"} \subseteq Functions \ N
      /\ {"getPartitionInfo", "getParentInfo"} \subseteq Functions \ GetTables
  BY DEF GetTables, GetIndexes, Functions
<1>1. /\ a \in Without(N) /\ b \in Without(N) /\ c \in Without(N) /\ <<>> \in Without(N)
      /\ a \in Seq(Functions) /\ b \in Without(GetTables) /\ c \in Without(GetTables)
  BY <1>a, Singles, Maybes
<1>2. NotAfter(a, AskParents, GetTables) /\ NotAfter(<<>>, AskParents, GetTables)
  BY DEF NotAfter
<1> DEFINE Fine(s) == s \in Without(N) /\ NotAfter(s, AskParents, GetTables)
<1>3. Fine(a) /\ Fine(b) /\ Fine(c) /\ Fine(<<>>)
  BY <1>1, <1>2, OrderVoid
<1> HIDE DEF a, b, c
<1>4. ASSUME NEW s, Fine(s), NEW t, Fine(t), t \in Without(GetTables) PROVE Fine(s \o t)
  <2>1. s \in Seq(Functions) /\ t \in Seq(Functions)
    BY <1>4, SeqMonotonic DEF Without
  <2> QED BY <1>4, <2>1, JoinWithout, OrderJoin
<1> HIDE DEF Fine
<1>5. Fine(a \o b \o c)
  BY <1>1, <1>3, <1>4
<1>6. Fine(When("tables" \notin o.omit, a \o b \o c))
  BY <1>3, <1>5 DEF When
<1>7. \A s \in Without(N) : /\ s \in Without(GetIndexes) /\ s \in Without({"getIndexDef"})
                            /\ s \in Seq(Functions)
  BY SeqMonotonic DEF Without
<1> QED BY <1>6, <1>7 DEF Fine, a, b, c

LEMMA BehindSecond ==
  LET s == When({"tables", "indexes"} \cap o.omit = {},
                <<"getIndexes">> \o When("indexdefs" \notin o.omit, <<"getIndexDef">>))
  IN  /\ s \in Without(GetTables) /\ s \in Seq(Functions)
      /\ NotAfter(s, {"getIndexDef"}, GetIndexes)
<1> DEFINE a == <<"getIndexes">>
           b == When("indexdefs" \notin o.omit, <<"getIndexDef">>)
<1>a. /\ {"getIndexes", "getIndexDef"} \subseteq Functions \ GetTables
      /\ "getIndexDef" \in Functions \ GetIndexes
  BY DEF GetTables, GetIndexes, Functions
<1>1. /\ a \in Without(GetTables) /\ b \in Without(GetTables) /\ <<>> \in Without(GetTables)
      /\ a \in Seq(Functions) /\ b \in Without(GetIndexes) /\ <<>> \in Seq(Functions)
  BY <1>a, Singles, Maybes
<1>2. NotAfter(a, {"getIndexDef"}, GetIndexes) /\ NotAfter(<<>>, {"getIndexDef"}, GetIndexes)
  BY DEF NotAfter
<1> HIDE DEF a, b
<1>3. b \in Seq(Functions) /\ NotAfter(b, {"getIndexDef"}, GetIndexes)
  BY <1>1, SeqMonotonic, OrderVoid DEF Without
<1>4. a \o b \in Without(GetTables) /\ a \o b \in Seq(Functions)
      /\ NotAfter(a \o b, {"getIndexDef"}, GetIndexes)
  BY <1>1, <1>2, <1>3, JoinWithout, OrderJoin
<1> QED BY <1>1, <1>2, <1>4 DEF When, a, b

LEMMA PlanBehind == Behind(Plan)
<1> DEFINE p1 == When("tables" \notin o.omit,
                      <<"getTables">> \o When(o.v10, <<"getPartitionInfo">>) \o <<"getParentInfo">>)
           p2 == When({"tables", "indexes"} \cap o.omit = {},
                      <<"getIndexes">> \o When("indexdefs" \notin o.omit, <<"getIndexDef">>))
           p3 == When("extensions" \notin o.omit, <<"getExtensions">>)
           p4 == When({"tables", "triggers"} \cap o.omit = {}, <<"getDisabledTriggers">>)
           p5 == When("statements" \notin o.omit, <<"getStatements">>)
           p6 == When("bloat" \notin o.omit, <<"getBloat">>)
           p7 == When("citus" \notin o.omit, <<"getCitus">>)
<1>a. {"getExtensions", "getDisabledTriggers", "getStatements", "getBloat", "getCitus"}
        \subseteq Functions \ Late
  BY DEF Late, GetTables, GetIndexes, Functions
<1>1. /\ p3 \in Without(Late) /\ p4 \in Without(Late) /\ p5 \in Without(Late)
      /\ p6 \in Without(Late) /\ p7 \in Without(Late)
  BY <1>a, Maybes
<1>2. /\ p1 \in Without(GetIndexes) /\ p1 \in Without({"getIndexDef"})
      /\ p1 \in Seq(Functions) /\ NotAfter(p1, AskParents, GetTables)
      /\ p2 \in Without(GetTables) /\ p2 \in Seq(Functions)
      /\ NotAfter(p2, {"getIndexDef"}, GetIndexes)
  BY BehindFirst, BehindSecond
<1> HIDE DEF p1, p2, p3, p4, p5, p6, p7
<1> DEFINE Fine(s) == s \in Seq(Functions) /\ Behind(s)
<1>3. Fine(p1 \o p2)
  BY <1>2, OrderVoid, OrderJoin DEF Behind
<1>4. ASSUME NEW s, Fine(s), NEW t \in Without(Late) PROVE Fine(s \o t)
  BY <1>4, BehindMore
<1> HIDE DEF Fine
<1>5. Fine(p1 \o p2 \o p3 \o p4 \o p5 \o p6 \o p7)
  BY <1>1, <1>3, <1>4
<1> QED BY <1>5 DEF Fine, Plan, p1, p2, p3, p4, p5, p6, p7

LEMMA BehindNext == Legal /\ BehindInv /\ [Next]_vars => BehindInv'
<1> SUFFICES ASSUME Legal, BehindInv, [Next]_vars, pc' = "query" PROVE Behind(todo')
  BY DEF BehindInv, Behind
<1>0. todo \in Seq(Functions)
  BY DEF Legal, TypeOK, PlaceType
<1>1. CASE CollectDatabase
  <2>1. pc = "next"
    BY <1>1 DEF CollectDatabase
  <2>2. todo' = Plan
    BY <1>1, <2>1 DEF CollectDatabase
  <2> QED BY <2>2, PlanBehind
<1>2. CASE EndDatabase \/ Report \/ Dies
  BY <1>2 DEF EndDatabase, LeaveDatabase, Report, Dies
<1>3. CASE Stays
  BY <1>3 DEF Stays, BehindInv
<1>4. CASE Advances
  BY <1>0, <1>4, OrderTail DEF Advances, BehindInv, Behind
<1>5. CASE TablesLockTimeout \/ IndexesLockTimeout
  <2>1. PICK first \in {"getTables", "getIndexes"}, again \in {"getTablesAgain", "getIndexesAgain"} :
          /\ pc = "query" /\ todo # <<>> /\ Head(todo) = first /\ todo' = <<again>> \o Tail(todo)
    <3>1. TablesLockTimeout => /\ pc = "query" /\ todo # <<>> /\ Head(todo) = "getTables"
                               /\ todo' = <<"getTablesAgain">> \o Tail(todo)
      BY DEF TablesLockTimeout, Doing
    <3>2. IndexesLockTimeout => /\ pc = "query" /\ todo # <<>> /\ Head(todo) = "getIndexes"
                                /\ todo' = <<"getIndexesAgain">> \o Tail(todo)
      BY DEF IndexesLockTimeout, Doing
    <3> QED BY <1>5, <3>1, <3>2
  <2>2. again \in Functions /\ again \notin AskParents /\ again # "getIndexDef"
    BY DEF Functions, AskParents
  <2> QED BY <1>0, <2>1, <2>2, OrderAgain DEF BehindInv, Behind
<1> QED BY <1>1, <1>2, <1>3, <1>4, <1>5, Moves

-----------------------------------------------------------------------------
(***************************************************************************)
(* OidLookupsHitFirst, of one list: f is what the rows were given.         *)
(***************************************************************************)
Givers(dbs, said, kind, t, d) ==
  {i \in DOMAIN dbs : <<kind, dbs[i], t>> \in said /\ ~BeforeIn(dbs, dbs[i], d)}

LastOf(dbs, G) == IF G = {} THEN NoDB ELSE dbs[CHOOSE i \in G : \A j \in G : j <= i]

Hits(rows, f, kind, said, dbs) ==
  \A i \in DOMAIN rows :
    f[i] = IF First(rows, i)
           THEN LastOf(dbs, Givers(dbs, said, kind, rows[i].oid, rows[i].db)) ELSE NoDB

\* A set of places has a last one.
LEMMA Greatest ==
  ASSUME NEW n \in Nat, NEW T, T \subseteq 1 .. n, T # {}
  PROVE  \E m \in T : \A k \in T : k <= m
<1> DEFINE R == {n - k : k \in T}
<1>1. R \subseteq Nat /\ R # {}
  <2>1. \A k \in T : k \in 1 .. n /\ n - k \in Nat
    OBVIOUS
  <2>2. PICK k \in T : TRUE
    OBVIOUS
  <2>3. n - k \in R
    OBVIOUS
  <2>4. R \subseteq Nat
    BY <2>1
  <2> QED BY <2>3, <2>4
<1>2. PICK r \in R : \A q \in R : r <= q
  BY <1>1, Least
<1>3. PICK m \in T : r = n - m
  BY <1>2
<1>4. ASSUME NEW k \in T PROVE k <= m
  <2>1. n - k \in R
    OBVIOUS
  <2>2. n - m <= n - k /\ k \in Nat /\ m \in Nat
    BY <1>2, <1>3, <2>1
  <2> QED BY <2>2
<1> QED BY <1>4

LEMMA LastSame ==
  ASSUME NEW S, NEW dbs \in Seq(S), NEW dbs2, NEW G, G \subseteq DOMAIN dbs,
         \A i \in DOMAIN dbs : dbs2[i] = dbs[i]
  PROVE  LastOf(dbs2, G) = LastOf(dbs, G)
<1>1. Len(dbs) \in Nat /\ DOMAIN dbs = 1 .. Len(dbs)
  BY LenProperties
<1>2. CASE G = {}
  BY <1>2 DEF LastOf
<1>3. CASE G # {}
  <2> DEFINE c == CHOOSE i \in G : \A j \in G : j <= i
  <2>1. c \in G
    BY <1>1, <1>3, Greatest
  <2>2. dbs2[c] = dbs[c]
    BY <2>1
  <2> QED BY <1>3, <2>2 DEF LastOf
<1> QED BY <1>2, <1>3

LEMMA HitsSame ==
  ASSUME NEW rows, NEW new, NEW f, NEW f2, NEW kind, NEW said, NEW said2, NEW dbs,
         Hits(rows, f, kind, said, dbs), Same(rows, new),
         \A i \in DOMAIN rows : f2[i] = f[i],
         \A e, t : <<kind, e, t>> \in said2 <=> <<kind, e, t>> \in said
  PROVE  Hits(new, f2, kind, said2, dbs)
<1>1. DOMAIN new = DOMAIN rows /\ \A i \in DOMAIN rows : new[i].db = rows[i].db /\ new[i].oid = rows[i].oid
  BY DEF Same
<1>2. \A i \in DOMAIN rows : First(new, i) <=> First(rows, i)
  BY <1>1 DEF First
<1>3. \A t, d : Givers(dbs, said2, kind, t, d) = Givers(dbs, said, kind, t, d)
  BY DEF Givers
<1> QED BY <1>1, <1>2, <1>3 DEF Hits

\* A new database follows, which said nothing yet.
LEMMA HitsMore ==
  ASSUME NEW rows, NEW f, NEW kind, NEW said, NEW S, NEW dbs \in Seq(S), NEW d \in S,
         Hits(rows, f, kind, said, dbs), ~Has(dbs, d), \A t : <<kind, d, t>> \notin said,
         \A i \in DOMAIN rows : Has(dbs, rows[i].db)
  PROVE  Hits(rows, f, kind, said, Append(dbs, d))
<1>1. /\ Len(dbs) \in Nat /\ DOMAIN dbs = 1 .. Len(dbs)
      /\ DOMAIN Append(dbs, d) = 1 .. Len(dbs) + 1
      /\ \A i \in DOMAIN dbs : Append(dbs, d)[i] = dbs[i]
      /\ Append(dbs, d)[Len(dbs) + 1] = d
  BY AppendProperties, LenProperties
<1> DEFINE dbs2 == Append(dbs, d)
<1>2. ASSUME NEW t, NEW e, Has(dbs, e)
      PROVE  Givers(dbs2, said, kind, t, e) = Givers(dbs, said, kind, t, e)
  <2>1. \A x : BeforeIn(dbs2, x, e) <=> BeforeIn(dbs, x, e)
    BY <1>2, BeforeMore
  <2> HIDE DEF dbs2
  <2>2. ASSUME NEW i \in DOMAIN dbs PROVE i \in DOMAIN dbs2 /\ dbs2[i] = dbs[i]
    BY <1>1 DEF dbs2
  <2>3. ASSUME NEW i \in DOMAIN dbs2, i \notin DOMAIN dbs PROVE dbs2[i] = d
    <3>1. i = Len(dbs) + 1
      BY <1>1, <2>3 DEF dbs2
    <3> QED BY <1>1, <3>1 DEF dbs2
  <2> QED BY <2>1, <2>2, <2>3 DEF Givers
<1>3. \A t, e : LastOf(dbs2, Givers(dbs, said, kind, t, e)) = LastOf(dbs, Givers(dbs, said, kind, t, e))
  <2>1. \A t, e : Givers(dbs, said, kind, t, e) \subseteq DOMAIN dbs
    BY DEF Givers
  <2>2. \A i \in DOMAIN dbs : dbs2[i] = dbs[i]
    BY <1>1
  <2> HIDE DEF dbs2
  <2> QED BY <2>1, <2>2, LastSame
<1> HIDE DEF dbs2
<1>4. Hits(rows, f, kind, said, dbs2)
  BY <1>2, <1>3 DEF Hits
<1> QED BY <1>4 DEF dbs2

\* Rows of the last database, which said nothing yet.
LEMMA HitsAdd ==
  ASSUME NEW rows, NEW new, NEW f, NEW f2, NEW kind, NEW said, NEW said2, NEW S, NEW dbs \in Seq(S),
         NEW d, Hits(rows, f, kind, said, dbs), Extends(rows, new, d), Latest(dbs, d),
         \A i \in DOMAIN rows : f2[i] = f[i],
         \A i \in DOMAIN new : i > Len(rows) => f2[i] = NoDB,
         \A e, t : <<kind, e, t>> \in said2 <=> <<kind, e, t>> \in said,
         \A t : <<kind, d, t>> \notin said
  PROVE  Hits(new, f2, kind, said2, dbs)
<1>1. /\ DOMAIN rows \subseteq DOMAIN new /\ Len(rows) \in Nat
      /\ DOMAIN rows = 1 .. Len(rows) /\ DOMAIN new = 1 .. Len(new)
      /\ \A i \in DOMAIN rows : new[i].db = rows[i].db /\ new[i].oid = rows[i].oid
      /\ \A i \in DOMAIN new : i > Len(rows) => new[i].db = d
  BY DEF Extends
<1>2. \A t, e : Givers(dbs, said2, kind, t, e) = Givers(dbs, said, kind, t, e)
  BY DEF Givers
<1>3. ASSUME NEW i \in DOMAIN rows PROVE First(new, i) <=> First(rows, i)
  <2>1. \A j \in DOMAIN new : j < i => j \in DOMAIN rows
    BY <1>1
  <2> QED BY <1>1, <2>1 DEF First
<1>4. \A t : Givers(dbs, said, kind, t, d) = {}
  <2> SUFFICES ASSUME NEW t, NEW i \in DOMAIN dbs, <<kind, dbs[i], t>> \in said,
                      ~BeforeIn(dbs, dbs[i], d)
               PROVE  FALSE
    BY DEF Givers
  <2>1. Has(dbs, dbs[i])
    BY DEF Has
  <2> QED BY <2>1, LatestOrder
<1>5. LastOf(dbs, {}) = NoDB
  BY DEF LastOf
<1>6. ASSUME NEW i \in DOMAIN new
      PROVE  f2[i] = IF First(new, i)
                     THEN LastOf(dbs, Givers(dbs, said2, kind, new[i].oid, new[i].db)) ELSE NoDB
  <2>1. CASE i \in DOMAIN rows
    BY <1>1, <1>2, <1>3, <2>1 DEF Hits
  <2>2. CASE i \notin DOMAIN rows
    <3>1. i > Len(rows)
      BY <1>1, <2>2
    <3>2. new[i].db = d /\ f2[i] = NoDB
      BY <1>1, <3>1
    <3> QED BY <1>2, <1>4, <1>5, <3>2
  <2> QED BY <2>1, <2>2
<1> QED BY <1>6 DEF Hits

\* The last database speaks of the tables S.
LEMMA HitsSet ==
  ASSUME NEW rows, NEW new, NEW f, NEW f2, NEW kind, NEW said, NEW said2, NEW T, NEW dbs \in Seq(T),
         NEW d, NEW S, Hits(rows, f, kind, said, dbs), Same(rows, new), Latest(dbs, d),
         \A i \in DOMAIN rows : f2[i] = IF First(rows, i) /\ rows[i].oid \in S THEN d ELSE f[i],
         SaysOf(kind, said, said2, d, S)
  PROVE  Hits(new, f2, kind, said2, dbs)
<1>1. DOMAIN new = DOMAIN rows /\ \A i \in DOMAIN rows : new[i].db = rows[i].db /\ new[i].oid = rows[i].oid
  BY DEF Same
<1>2. \A i \in DOMAIN rows : First(new, i) <=> First(rows, i)
  BY <1>1 DEF First
<1>3. ASSUME NEW t, t \notin S, NEW e
      PROVE  Givers(dbs, said2, kind, t, e) = Givers(dbs, said, kind, t, e)
  BY <1>3 DEF Givers, SaysOf
<1>4. ASSUME NEW t \in S, NEW e
      PROVE  LastOf(dbs, Givers(dbs, said2, kind, t, e)) = d
  <2> DEFINE G == Givers(dbs, said2, kind, t, e)
             n == Len(dbs)
  <2>1. n \in DOMAIN dbs /\ DOMAIN dbs = 1 .. n /\ n \in Nat /\ dbs[n] = d
    BY LenProperties, EmptySeq DEF Latest
  <2>2. ~BeforeIn(dbs, d, e)
    BY LatestOrder
  <2>3. n \in G /\ G \subseteq 1 .. n
    BY <2>1, <2>2 DEF Givers, SaysOf
  <2> HIDE DEF G, n
  <2>4. \A j \in G : j <= n
    BY <2>1, <2>3
  <2> DEFINE c == CHOOSE i \in G : \A j \in G : j <= i
  <2>5. c \in G /\ \A j \in G : j <= c
    BY <2>3, <2>4
  <2>6. c = n
    <3> HIDE DEF c
    <3> QED BY <2>1, <2>3, <2>4, <2>5
  <2>7. LastOf(dbs, G) = dbs[c]
    BY <2>3 DEF LastOf
  <2> QED BY <2>1, <2>6, <2>7 DEF G
<1>5. ASSUME NEW i \in DOMAIN rows
      PROVE  f2[i] = IF First(rows, i)
                     THEN LastOf(dbs, Givers(dbs, said2, kind, rows[i].oid, rows[i].db)) ELSE NoDB
  <2>1. CASE rows[i].oid \in S
    BY <1>4, <2>1 DEF Hits
  <2>2. CASE rows[i].oid \notin S
    BY <1>3, <2>2 DEF Hits
  <2> QED BY <2>1, <2>2
<1> QED BY <1>1, <1>2, <1>5 DEF Hits

-----------------------------------------------------------------------------
(***************************************************************************)
(* What every step says, and does to what the rows were given.             *)
(***************************************************************************)
Parents     == [i \in DOMAIN tables |-> tables[i].parent]
Definitions == [i \in DOMAIN indexes |-> indexes[i].defn]

Unsaid(kind) == \A e, t : <<kind, e, t>> \in gave' <=> <<kind, e, t>> \in gave

\* Who may say what, and when that is certain.
LEMMA Speakers ==
  ASSUME [Next]_vars
  PROVE  /\ Unsaid("parent") \/ AnswerPartitionInfo \/ AnswerParentInfo
         /\ Unsaid("defn") \/ AnswerIndexDef
<1>1. UNCHANGED gave => Unsaid("parent") /\ Unsaid("defn")
  BY DEF Unsaid
<1>2. CollectDatabase \/ EndDatabase \/ Report \/ Dies => UNCHANGED gave
  BY DEF CollectDatabase, EndDatabase, LeaveDatabase, Report, Dies
<1>3. AnswerTables \/ AnswerIndexes \/ TablesLockTimeout \/ IndexesLockTimeout => UNCHANGED gave
  BY DEF AnswerTables, AnswerIndexes, TablesLockTimeout, IndexesLockTimeout
<1>4. AnswerExtensions \/ GetStatements \/ Create \/ Drop \/ UNCHANGED vars => UNCHANGED gave
  BY DEF AnswerExtensions, GetStatements, Create, Drop, Alter, vars
<1>5. ASSUME NEW k, NEW S, NEW kind, k # kind, Gave(k, S) PROVE Unsaid(kind)
  <2>1. gave' = gave \cup {<<k, db, t>> : t \in S}
    BY <1>5 DEF Gave
  <2> QED BY <1>5, <2>1 DEF Unsaid
<1>6. AnswerPartitionInfo \/ AnswerParentInfo => Unsaid("defn")
  <2>1. AnswerPartitionInfo \/ AnswerParentInfo => \E S : Gave("parent", S)
    BY DEF AnswerPartitionInfo, AnswerParentInfo, SetParent
  <2> QED BY <1>5, <2>1
<1>7. AnswerIndexDef => Unsaid("parent")
  <2>1. AnswerIndexDef => \E S : Gave("defn", S)
    BY DEF AnswerIndexDef
  <2> QED BY <1>5, <2>1
<1>8. AnswerDisabledTriggers => Unsaid("parent") /\ Unsaid("defn")
  <2>1. AnswerDisabledTriggers => \E S : Gave("trigger", S)
    BY DEF AnswerDisabledTriggers, AddTriggers
  <2> QED BY <1>5, <2>1
<1>9. AnswerBloat => Unsaid("parent") /\ Unsaid("defn")
  <2> SUFFICES ASSUME AnswerBloat PROVE Unsaid("parent") /\ Unsaid("defn")
    OBVIOUS
  <2>1. PICK S, R : gave' = gave \cup {<<"bloat", db, t>> : t \in S}
                                 \cup {<<"index bloat", db, t>> : t \in R}
    BY DEF AnswerBloat, SetBloat
  <2> QED BY <2>1 DEF Unsaid
<1>10. GetCitus => Unsaid("parent") /\ Unsaid("defn")
  <2>1. GetCitus => UNCHANGED gave \/ \E S : Gave("size", S)
    BY DEF GetCitus
  <2> QED BY <1>1, <1>5, <2>1
<1> QED BY <1>1, <1>2, <1>3, <1>4, <1>6, <1>7, <1>8, <1>9, <1>10, NextSplit DEF Quiet, Editing

\* Of the steps that edit rows, all but those leave what they were given.
LEMMA FieldsKept ==
  ASSUME Legal, Quiet \/ Editing
  PROVE  /\ Same(tables, tables') /\ Same(indexes, indexes')
         /\ AnswerPartitionInfo \/ AnswerParentInfo
              \/ \A i \in DOMAIN tables : Parents'[i] = Parents[i]
         /\ AnswerIndexDef \/ \A i \in DOMAIN indexes : Definitions'[i] = Definitions[i]
<1>0. /\ tables \in Seq(TableRow) /\ indexes \in Seq(IndexRow)
      /\ Same(tables, tables) /\ Same(indexes, indexes)
      /\ \A i \in DOMAIN tables : tables[i] \in TableRow
      /\ \A i \in DOMAIN indexes : indexes[i] \in IndexRow
  BY SameItself, ElementOfSeq, LenProperties DEF Legal, TypeOK, ListsType
<1>1. UNCHANGED tables => Same(tables, tables') /\ \A i \in DOMAIN tables : Parents'[i] = Parents[i]
  BY <1>0 DEF Parents
<1>2. UNCHANGED indexes => /\ Same(indexes, indexes')
                           /\ \A i \in DOMAIN indexes : Definitions'[i] = Definitions[i]
  BY <1>0 DEF Definitions
<1>3. CASE Quiet
  BY <1>1, <1>2, <1>3, QuietLists
<1>4. CASE AnswerPartitionInfo \/ AnswerParentInfo
  <2>1. pc = "query" /\ UNCHANGED indexes /\ \E S : SetParent(S)
    BY <1>4 DEF AnswerPartitionInfo, AnswerParentInfo, SetParent, Doing
  <2> QED BY <1>2, <1>4, <2>1, ParentsSet
<1>5. CASE AnswerIndexDef
  <2>1. pc = "query" /\ UNCHANGED tables
    BY <1>5 DEF AnswerIndexDef, Doing
  <2> QED BY <1>1, <1>5, <2>1, DefinitionsSet
<1>6. CASE AnswerBloat
  <2>1. pc = "query"
    BY <1>6 DEF AnswerBloat, SetBloat, Doing
  <2>2. Same(tables, tables') /\ Same(indexes, indexes')
    BY <1>6, <2>1, BloatSet
  <2>3. PICK S, R :
          /\ tables' = [i \in DOMAIN tables |->
                      IF FoundByName(tables, i) /\ tables[i].oid \in S
                      THEN [tables[i] EXCEPT !.bloat = TRUE] ELSE tables[i]]
          /\ indexes' = [i \in DOMAIN indexes |->
                      IF FoundByName(indexes, i) /\ indexes[i].oid \in R
                      THEN [indexes[i] EXCEPT !.bloat = TRUE] ELSE indexes[i]]
    BY <1>6 DEF AnswerBloat, SetBloat
  <2>4. ASSUME NEW i \in DOMAIN tables PROVE tables'[i].parent = tables[i].parent
    <3>1. tables'[i] = tables[i] \/ tables'[i] = [tables[i] EXCEPT !.bloat = TRUE]
      BY <2>3
    <3>2. [tables[i] EXCEPT !.bloat = TRUE].parent = tables[i].parent
      BY <1>0 DEF TableRow
    <3> QED BY <3>1, <3>2
  <2>5. ASSUME NEW i \in DOMAIN indexes PROVE indexes'[i].defn = indexes[i].defn
    <3>1. indexes'[i] = indexes[i] \/ indexes'[i] = [indexes[i] EXCEPT !.bloat = TRUE]
      BY <2>3
    <3>2. [indexes[i] EXCEPT !.bloat = TRUE].defn = indexes[i].defn
      BY <1>0 DEF IndexRow
    <3> QED BY <3>1, <3>2
  <2>6. DOMAIN tables' = DOMAIN tables /\ DOMAIN indexes' = DOMAIN indexes
    BY <2>3
  <2> QED BY <2>2, <2>4, <2>5, <2>6 DEF Parents, Definitions
<1>7. CASE GetCitus
  <2>1. pc = "query" /\ UNCHANGED indexes
    BY <1>7 DEF GetCitus, Doing
  <2>2. Same(tables, tables')
    BY <1>7, <2>1, SizesSet
  <2>3. CASE UNCHANGED tables
    BY <1>1, <1>2, <2>1, <2>3
  <2>4. ASSUME NEW S, tables' = [i \in DOMAIN tables |->
                                   IF FoundByName(tables, i) /\ tables[i].oid \in S
                                   THEN [tables[i] EXCEPT !.size = "citus"] ELSE tables[i]]
        PROVE  \A i \in DOMAIN tables : Parents'[i] = Parents[i]
    <3> TAKE i \in DOMAIN tables
    <3>1. tables'[i] = tables[i] \/ tables'[i] = [tables[i] EXCEPT !.size = "citus"]
      BY <2>4
    <3>2. [tables[i] EXCEPT !.size = "citus"].parent = tables[i].parent
      BY <1>0 DEF TableRow
    <3>3. DOMAIN tables' = DOMAIN tables
      BY <2>4
    <3> QED BY <3>1, <3>2, <3>3 DEF Parents
  <2>5. UNCHANGED tables \/ \E S : tables' = [i \in DOMAIN tables |->
                                   IF FoundByName(tables, i) /\ tables[i].oid \in S
                                   THEN [tables[i] EXCEPT !.size = "citus"] ELSE tables[i]]
    BY <1>7 DEF GetCitus
  <2> QED BY <1>2, <2>1, <2>2, <2>3, <2>4, <2>5
<1> QED BY <1>3, <1>4, <1>5, <1>6, <1>7 DEF Editing

\* The query of a parent, or of a definition.
LEMMA ParentsGiven ==
  ASSUME Legal, AnswerPartitionInfo \/ AnswerParentInfo
  PROVE  /\ pc = "query" /\ UNCHANGED <<pc, turn, collectedDBs>>
         /\ Head(todo) \in AskParents /\ todo # <<>> /\ todo' = Tail(todo)
         /\ Same(tables, tables')
         /\ \E S : /\ SaysOf("parent", gave, gave', db, S)
                   /\ \A i \in DOMAIN tables :
                        Parents'[i] = IF First(tables, i) /\ tables[i].oid \in S
                                      THEN db ELSE Parents[i]
<1>1. PICK S : SetParent(S) /\ pc = "query" /\ todo # <<>> /\ Head(todo) \in AskParents
  BY DEF AnswerPartitionInfo, AnswerParentInfo, Doing, AskParents
<1>2. UNCHANGED <<pc, turn, collectedDBs>> /\ todo' = Tail(todo) /\ Same(tables, tables')
  BY <1>1, ParentsSet DEF SetParent, Goes
<1>3. SaysOf("parent", gave, gave', db, S)
  <2>1. gave' = gave \cup {<<"parent", db, t>> : t \in S}
    BY <1>1 DEF SetParent, Gave
  <2> QED BY <2>1 DEF SaysOf
<1>4. ASSUME NEW i \in DOMAIN tables
      PROVE  Parents'[i] = IF First(tables, i) /\ tables[i].oid \in S THEN db ELSE Parents[i]
  <2>1. tables' = [j \in DOMAIN tables |->
                     IF FoundByOID(tables, j) /\ tables[j].oid \in S
                     THEN [tables[j] EXCEPT !.parent = db] ELSE tables[j]]
    BY <1>1 DEF SetParent
  <2>2. FoundByOID(tables, i) <=> First(tables, i)
    BY DEF FoundByOID, First
  <2>3. tables[i] \in TableRow
    BY ElementOfSeq, LenProperties DEF Legal, TypeOK, ListsType
  <2>4. [tables[i] EXCEPT !.parent = db].parent = db
    BY <2>3 DEF TableRow
  <2>5. DOMAIN tables' = DOMAIN tables /\ Parents'[i] = tables'[i].parent
    BY <2>1 DEF Parents
  <2>6. tables'[i] = IF First(tables, i) /\ tables[i].oid \in S
                     THEN [tables[i] EXCEPT !.parent = db] ELSE tables[i]
    BY <2>1, <2>2
  <2> QED BY <2>4, <2>5, <2>6 DEF Parents
<1> QED BY <1>1, <1>2, <1>3, <1>4

LEMMA DefinitionsGiven ==
  ASSUME Legal, AnswerIndexDef
  PROVE  /\ pc = "query" /\ UNCHANGED <<pc, turn, collectedDBs>>
         /\ Head(todo) = "getIndexDef" /\ todo # <<>> /\ todo' = Tail(todo)
         /\ Same(indexes, indexes')
         /\ \E S : /\ SaysOf("defn", gave, gave', db, S)
                   /\ \A i \in DOMAIN indexes :
                        Definitions'[i] = IF First(indexes, i) /\ indexes[i].oid \in S
                                          THEN db ELSE Definitions[i]
<1>1. /\ pc = "query" /\ todo # <<>> /\ Head(todo) = "getIndexDef"
      /\ UNCHANGED <<pc, turn, collectedDBs>> /\ todo' = Tail(todo)
  BY DEF AnswerIndexDef, Doing, Goes
<1>2. Same(indexes, indexes')
  BY <1>1, DefinitionsSet
<1>3. PICK S : /\ indexes' = [i \in DOMAIN indexes |->
                                IF FoundByOID(indexes, i) /\ indexes[i].oid \in S
                                THEN [indexes[i] EXCEPT !.defn = db] ELSE indexes[i]]
               /\ Gave("defn", S)
  BY DEF AnswerIndexDef
<1>4. SaysOf("defn", gave, gave', db, S)
  <2>1. gave' = gave \cup {<<"defn", db, t>> : t \in S}
    BY <1>3 DEF Gave
  <2> QED BY <2>1 DEF SaysOf
<1>5. ASSUME NEW i \in DOMAIN indexes
      PROVE  Definitions'[i] = IF First(indexes, i) /\ indexes[i].oid \in S THEN db ELSE Definitions[i]
  <2>1. FoundByOID(indexes, i) <=> First(indexes, i)
    BY DEF FoundByOID, First
  <2>2. indexes[i] \in IndexRow
    BY ElementOfSeq, LenProperties DEF Legal, TypeOK, ListsType
  <2>3. [indexes[i] EXCEPT !.defn = db].defn = db
    BY <2>2 DEF IndexRow
  <2>4. DOMAIN indexes' = DOMAIN indexes /\ Definitions'[i] = indexes'[i].defn
    BY <1>3 DEF Definitions
  <2>5. indexes'[i] = IF First(indexes, i) /\ indexes[i].oid \in S
                      THEN [indexes[i] EXCEPT !.defn = db] ELSE indexes[i]
    BY <1>3, <2>1
  <2> QED BY <2>3, <2>4, <2>5 DEF Definitions
<1> QED BY <1>1, <1>2, <1>4, <1>5

\* The steps that add rows: they were given nothing.
LEMMA TablesBare ==
  ASSUME Legal, AnswerTables \/ TablesLockTimeout
  PROVE  /\ pc = "query" /\ todo # <<>> /\ Head(todo) \in GetTables /\ UNCHANGED collectedDBs
         /\ Extends(tables, tables', db)
         /\ \A i \in DOMAIN tables : Parents'[i] = Parents[i]
         /\ \A i \in DOMAIN tables' : i > Len(tables) => Parents'[i] = NoDB
<1>1. pc = "query" /\ todo # <<>> /\ Head(todo) \in GetTables /\ UNCHANGED collectedDBs
  BY DEF AnswerTables, TablesLockTimeout, Doing, Goes, GetTables
<1>2. \E size \in {"none", "table"} : \E S \in SUBSET exists[db] : AddTables(S, size)
  <2>1. AnswerTables => \E size \in {"none", "table"} : AddTables(exists[db], size)
    BY DEF AnswerTables
  <2>2. TablesLockTimeout => \E t \in exists[db] : AddTables({u \in exists[db] : u < t}, "table")
    BY DEF TablesLockTimeout
  <2>3. \A t : {u \in exists[db] : u < t} \in SUBSET exists[db]
    OBVIOUS
  <2>4. exists[db] \in SUBSET exists[db]
    OBVIOUS
  <2> QED BY <2>1, <2>2, <2>3, <2>4
<1>3. /\ Extends(tables, tables', db)
      /\ \A i \in DOMAIN tables : tables'[i] = tables[i]
      /\ \A i \in DOMAIN tables' : i > Len(tables) => tables'[i].parent = NoDB
  BY <1>1, <1>2, TablesAdded
<1>4. DOMAIN tables \subseteq DOMAIN tables'
  BY <1>3 DEF Extends
<1> QED BY <1>1, <1>3, <1>4 DEF Parents

LEMMA IndexesBare ==
  ASSUME Legal, AnswerIndexes \/ IndexesLockTimeout
  PROVE  /\ pc = "query" /\ todo # <<>> /\ Head(todo) \in GetIndexes /\ UNCHANGED collectedDBs
         /\ Extends(indexes, indexes', db)
         /\ \A i \in DOMAIN indexes : Definitions'[i] = Definitions[i]
         /\ \A i \in DOMAIN indexes' : i > Len(indexes) => Definitions'[i] = NoDB
<1>1. pc = "query" /\ todo # <<>> /\ Head(todo) \in GetIndexes /\ UNCHANGED collectedDBs
  BY DEF AnswerIndexes, IndexesLockTimeout, Doing, Goes, GetIndexes
<1>2. \E sized \in BOOLEAN : \E S \in SUBSET exists[db] : AddIndexes(S, sized)
  <2>0. o.sizes \in BOOLEAN /\ FALSE \in BOOLEAN /\ TRUE \in BOOLEAN
    BY WorldsAreWorlds DEF Legal, TypeOK, ServerType, World
  <2>1. AnswerIndexes => \E sized \in BOOLEAN : AddIndexes(exists[db], sized)
    BY <2>0 DEF AnswerIndexes
  <2>2. IndexesLockTimeout => \E t \in Those(o.indexed) : AddIndexes({u \in exists[db] : u < t}, TRUE)
    BY DEF IndexesLockTimeout
  <2>3. \A t : {u \in exists[db] : u < t} \in SUBSET exists[db]
    OBVIOUS
  <2>4. exists[db] \in SUBSET exists[db]
    OBVIOUS
  <2> QED BY <2>0, <2>1, <2>2, <2>3, <2>4
<1>3. /\ Extends(indexes, indexes', db)
      /\ \A i \in DOMAIN indexes : indexes'[i] = indexes[i]
      /\ \A i \in DOMAIN indexes' : i > Len(indexes) => indexes'[i].defn = NoDB
  BY <1>1, <1>2, IndexesAdded
<1>4. DOMAIN indexes \subseteq DOMAIN indexes'
  BY <1>3 DEF Extends
<1> QED BY <1>1, <1>3, <1>4 DEF Definitions

-----------------------------------------------------------------------------
(***************************************************************************)
(* Who spoke was collected, and is not to be asked for rows any more.      *)
(***************************************************************************)
Spoken(kind, said, dbs, left, d, ask) ==
  \A e, t : <<kind, e, t>> \in said => /\ Has(dbs, e)
                                       /\ (\E f \in ask : Has(left, f)) => e # d

SpokenInv ==
  /\ Spoken("parent", gave, collectedDBs, Left, db, GetTables)
  /\ Spoken("defn", gave, collectedDBs, Left, db, GetIndexes)

\* A step begins a database, leaves one, or asks for no more rows than before.
LEMMA Turns ==
  ASSUME Legal, [Next]_vars
  PROVE  \/ /\ CollectDatabase /\ ~Has(collectedDBs, db) /\ db \in DBs /\ db' = db
            /\ collectedDBs' = Append(collectedDBs, db)
         \/ pc' # "query" /\ UNCHANGED collectedDBs
         \/ /\ db' = db /\ UNCHANGED collectedDBs
            /\ \A A \in {GetTables, GetIndexes} :
                 (\E f \in A : Has(Left', f)) => \E f \in A : Has(Left, f)
<1> SUFFICES ASSUME pc = "query", pc' = "query", db' = db, UNCHANGED collectedDBs,
                    NEW A \in {GetTables, GetIndexes}, NEW f \in A, Has(Left', f)
             PROVE  \E g \in A : Has(Left, g)
  BY Continues
<1>0. Left = todo /\ Left' = todo' /\ todo \in Seq(Functions)
  BY DEF Left, Legal, TypeOK, PlaceType
<1>1. CASE CollectDatabase \/ EndDatabase \/ Report \/ Dies
  BY <1>1 DEF CollectDatabase, EndDatabase, LeaveDatabase, Report, Dies
<1>2. CASE Advances
  BY <1>0, <1>2, Advancing
<1>3. CASE Stays
  BY <1>0, <1>3 DEF Stays
<1>4. CASE TablesLockTimeout
  <2>1. /\ todo # <<>> /\ Head(todo) = "getTables"
        /\ (f = "getTablesAgain" \/ Has(Tail(todo), f))
    BY <1>0, <1>4, Retrying
  <2>2. Has(todo, "getTables") /\ (Has(Tail(todo), f) => Has(todo, f))
    BY <1>0, <2>1, HasTail
  <2> QED BY <1>0, <2>1, <2>2 DEF GetTables, GetIndexes
<1>5. CASE IndexesLockTimeout
  <2>1. /\ todo # <<>> /\ Head(todo) = "getIndexes"
        /\ (f = "getIndexesAgain" \/ Has(Tail(todo), f))
    BY <1>0, <1>5, Retrying
  <2>2. Has(todo, "getIndexes") /\ (Has(Tail(todo), f) => Has(todo, f))
    BY <1>0, <2>1, HasTail
  <2> QED BY <1>0, <2>1, <2>2 DEF GetTables, GetIndexes
<1> QED BY <1>1, <1>2, <1>3, <1>4, <1>5, Moves

\* Nothing is said, or it is said by the database being asked, which has
\* given all its rows.
LEMMA SpokenStep ==
  ASSUME NEW kind, NEW said, NEW said2, NEW dbs, NEW dbs2, NEW left, NEW left2,
         NEW d, NEW d2, NEW ask, Spoken(kind, said, dbs, left, d, ask),
         \A e : Has(dbs, e) => Has(dbs2, e),
         \/ /\ \A e, t : <<kind, e, t>> \in said2 <=> <<kind, e, t>> \in said
            /\ \/ ~Has(dbs, d2)
               \/ ~ \E f \in ask : Has(left2, f)
               \/ d2 = d /\ ((\E f \in ask : Has(left2, f)) => \E f \in ask : Has(left, f))
         \/ /\ \A e, t : <<kind, e, t>> \in said2 => <<kind, e, t>> \in said \/ e = d
            /\ Has(dbs, d) /\ ~ \E f \in ask : Has(left2, f)
  PROVE  Spoken(kind, said2, dbs2, left2, d2, ask)
BY DEF Spoken

LEMMA SpokenNext == Legal /\ BehindInv /\ SpokenInv /\ [Next]_vars => SpokenInv'
<1> SUFFICES ASSUME Legal, BehindInv, SpokenInv, [Next]_vars
             PROVE  /\ Spoken("parent", gave', collectedDBs', Left', db', GetTables)
                    /\ Spoken("defn", gave', collectedDBs', Left', db', GetIndexes)
  BY DEF SpokenInv
<1>0. /\ Spoken("parent", gave, collectedDBs, Left, db, GetTables)
      /\ Spoken("defn", gave, collectedDBs, Left, db, GetIndexes)
      /\ collectedDBs \in Seq(DBs) /\ \A f : ~Has(<<>>, f)
  BY DEF SpokenInv, Legal, TypeOK, PlaceType, Has
<1>1. \A e : Has(collectedDBs, e) => Has(collectedDBs', e)
  BY <1>0, Turns, AppendHas
<1>2. \/ ~Has(collectedDBs, db')
      \/ \A f : ~Has(Left', f)
      \/ db' = db /\ \A A \in {GetTables, GetIndexes} :
           (\E f \in A : Has(Left', f)) => \E f \in A : Has(Left, f)
  BY <1>0, Turns DEF Left
<1>3. Spoken("parent", gave', collectedDBs', Left', db', GetTables)
  <2>1. CASE Unsaid("parent")
    BY <1>0, <1>1, <1>2, <2>1, SpokenStep DEF Unsaid
  <2>2. CASE AnswerPartitionInfo \/ AnswerParentInfo
    <3>1. /\ pc = "query" /\ pc' = pc /\ Head(todo) \in AskParents /\ todo # <<>> /\ todo' = Tail(todo)
          /\ \E S : SaysOf("parent", gave, gave', db, S)
      BY <2>2, ParentsGiven
    <3>2. todo \in Seq(Functions) /\ Behind(todo) /\ Has(collectedDBs, db)
      BY <3>1 DEF BehindInv, Legal, TypeOK, PlaceType
    <3>3. Tail(todo) \in Without(GetTables)
      BY <3>1, <3>2, OrderTail DEF Behind
    <3>4. Left' = Tail(todo) /\ \A f \in GetTables : ~Has(Tail(todo), f)
      BY <3>1, <3>3, HasNot DEF Left
    <3>5. \A e, t : <<"parent", e, t>> \in gave' => <<"parent", e, t>> \in gave \/ e = db
      BY <3>1 DEF SaysOf
    <3> QED BY <1>0, <1>1, <3>2, <3>4, <3>5, SpokenStep
  <2> QED BY <2>1, <2>2, Speakers
<1>4. Spoken("defn", gave', collectedDBs', Left', db', GetIndexes)
  <2>1. CASE Unsaid("defn")
    BY <1>0, <1>1, <1>2, <2>1, SpokenStep DEF Unsaid
  <2>2. CASE AnswerIndexDef
    <3>1. /\ pc = "query" /\ pc' = pc /\ Head(todo) = "getIndexDef" /\ todo # <<>> /\ todo' = Tail(todo)
          /\ \E S : SaysOf("defn", gave, gave', db, S)
      BY <2>2, DefinitionsGiven
    <3>2. todo \in Seq(Functions) /\ Behind(todo) /\ Has(collectedDBs, db)
      BY <3>1 DEF BehindInv, Legal, TypeOK, PlaceType
    <3>3. Tail(todo) \in Without(GetIndexes)
      BY <3>1, <3>2, OrderTail DEF Behind
    <3>4. Left' = Tail(todo) /\ \A f \in GetIndexes : ~Has(Tail(todo), f)
      BY <3>1, <3>3, HasNot DEF Left
    <3>5. \A e, t : <<"defn", e, t>> \in gave' => <<"defn", e, t>> \in gave \/ e = db
      BY <3>1 DEF SaysOf
    <3> QED BY <1>0, <1>1, <3>2, <3>4, <3>5, SpokenStep
  <2> QED BY <2>1, <2>2, Speakers
<1> QED BY <1>3, <1>4

-----------------------------------------------------------------------------
(***************************************************************************)
(* The rows.                                                               *)
(***************************************************************************)
LookupInv == /\ Hits(tables, Parents, "parent", gave, collectedDBs)
             /\ Hits(indexes, Definitions, "defn", gave, collectedDBs)

LEMMA LookupNext ==
  Legal /\ RowsInv /\ LastInv /\ SpokenInv /\ LookupInv /\ [Next]_vars => LookupInv'
<1> SUFFICES ASSUME Legal, RowsInv, LastInv, SpokenInv, LookupInv, [Next]_vars
             PROVE  /\ Hits(tables', Parents', "parent", gave', collectedDBs')
                    /\ Hits(indexes', Definitions', "defn", gave', collectedDBs')
  BY DEF LookupInv
<1>0. /\ Hits(tables, Parents, "parent", gave, collectedDBs)
      /\ Hits(indexes, Definitions, "defn", gave, collectedDBs)
      /\ Spoken("parent", gave, collectedDBs, Left, db, GetTables)
      /\ Spoken("defn", gave, collectedDBs, Left, db, GetIndexes)
      /\ \A i \in DOMAIN tables : Has(collectedDBs, tables[i].db)
      /\ \A i \in DOMAIN indexes : Has(collectedDBs, indexes[i].db)
      /\ collectedDBs \in Seq(DBs) /\ todo \in Seq(Functions)
      /\ tables \in Seq(TableRow) /\ indexes \in Seq(IndexRow)
  BY DEF LookupInv, SpokenInv, RowsInv, ListInv, Legal, TypeOK, PlaceType, ListsType
<1>l. pc = "query" => Latest(collectedDBs, db)
  BY DEF LastInv
<1>1. Hits(tables', Parents', "parent", gave', collectedDBs')
  <2>1. CASE AnswerPartitionInfo \/ AnswerParentInfo
    <3>1. /\ pc = "query" /\ UNCHANGED collectedDBs /\ Same(tables, tables')
          /\ \E S : /\ SaysOf("parent", gave, gave', db, S)
                    /\ \A i \in DOMAIN tables :
                         Parents'[i] = IF First(tables, i) /\ tables[i].oid \in S
                                       THEN db ELSE Parents[i]
      BY <2>1, ParentsGiven
    <3> QED BY <1>0, <1>l, <3>1, HitsSet
  <2>2. CASE AnswerTables \/ TablesLockTimeout
    <3>1. /\ pc = "query" /\ todo # <<>> /\ Head(todo) \in GetTables /\ UNCHANGED collectedDBs
          /\ Extends(tables, tables', db)
          /\ \A i \in DOMAIN tables : Parents'[i] = Parents[i]
          /\ \A i \in DOMAIN tables' : i > Len(tables) => Parents'[i] = NoDB
      BY <2>2, TablesBare
    <3>2. Unsaid("parent")
      BY <2>2 DEF Unsaid, AnswerTables, TablesLockTimeout
    <3>3. \E f \in GetTables : Has(Left, f)
      BY <1>0, <3>1, HasTail DEF Left
    <3>4. \A t : <<"parent", db, t>> \notin gave
      BY <1>0, <3>3 DEF Spoken
    <3> QED BY <1>0, <1>l, <3>1, <3>2, <3>4, HitsAdd DEF Unsaid
  <2>3. CASE /\ Same(tables, tables') /\ Unsaid("parent")
             /\ \A i \in DOMAIN tables : Parents'[i] = Parents[i]
    <3>1. Hits(tables', Parents', "parent", gave', collectedDBs)
      BY <1>0, <2>3, HitsSame DEF Unsaid
    <3>2. CASE UNCHANGED collectedDBs
      BY <3>1, <3>2
    <3>3. CASE /\ ~Has(collectedDBs, db) /\ db \in DBs
               /\ collectedDBs' = Append(collectedDBs, db)
      <4>1. \A t : <<"parent", db, t>> \notin gave'
        BY <1>0, <2>3, <3>3 DEF Spoken, Unsaid
      <4>2. \A i \in DOMAIN tables' : Has(collectedDBs, tables'[i].db)
        BY <1>0, <2>3 DEF Same
      <4> QED BY <1>0, <3>1, <3>3, <4>1, <4>2, HitsMore
    <3> QED BY <3>2, <3>3, Turns
  <2>4. CASE (AnswerIndexes \/ IndexesLockTimeout) /\ UNCHANGED <<tables, gave>>
    <3>1. Same(tables, tables') /\ Unsaid("parent") /\ \A i \in DOMAIN tables : Parents'[i] = Parents[i]
      BY <1>0, <2>4, SameItself DEF Unsaid, Parents
    <3> QED BY <2>3, <3>1
  <2>5. AnswerIndexes \/ IndexesLockTimeout => UNCHANGED <<tables, gave>>
    BY DEF AnswerIndexes, IndexesLockTimeout
  <2> QED BY <2>1, <2>2, <2>3, <2>4, <2>5, NextSplit, Speakers, FieldsKept
<1>2. Hits(indexes', Definitions', "defn", gave', collectedDBs')
  <2>1. CASE AnswerIndexDef
    <3>1. /\ pc = "query" /\ UNCHANGED collectedDBs /\ Same(indexes, indexes')
          /\ \E S : /\ SaysOf("defn", gave, gave', db, S)
                    /\ \A i \in DOMAIN indexes :
                         Definitions'[i] = IF First(indexes, i) /\ indexes[i].oid \in S
                                           THEN db ELSE Definitions[i]
      BY <2>1, DefinitionsGiven
    <3> QED BY <1>0, <1>l, <3>1, HitsSet
  <2>2. CASE AnswerIndexes \/ IndexesLockTimeout
    <3>1. /\ pc = "query" /\ todo # <<>> /\ Head(todo) \in GetIndexes /\ UNCHANGED collectedDBs
          /\ Extends(indexes, indexes', db)
          /\ \A i \in DOMAIN indexes : Definitions'[i] = Definitions[i]
          /\ \A i \in DOMAIN indexes' : i > Len(indexes) => Definitions'[i] = NoDB
      BY <2>2, IndexesBare
    <3>2. Unsaid("defn")
      BY <2>2 DEF Unsaid, AnswerIndexes, IndexesLockTimeout
    <3>3. \E f \in GetIndexes : Has(Left, f)
      BY <1>0, <3>1, HasTail DEF Left
    <3>4. \A t : <<"defn", db, t>> \notin gave
      BY <1>0, <3>3 DEF Spoken
    <3> QED BY <1>0, <1>l, <3>1, <3>2, <3>4, HitsAdd DEF Unsaid
  <2>3. CASE /\ Same(indexes, indexes') /\ Unsaid("defn")
             /\ \A i \in DOMAIN indexes : Definitions'[i] = Definitions[i]
    <3>1. Hits(indexes', Definitions', "defn", gave', collectedDBs)
      BY <1>0, <2>3, HitsSame DEF Unsaid
    <3>2. CASE UNCHANGED collectedDBs
      BY <3>1, <3>2
    <3>3. CASE /\ ~Has(collectedDBs, db) /\ db \in DBs
               /\ collectedDBs' = Append(collectedDBs, db)
      <4>1. \A t : <<"defn", db, t>> \notin gave'
        BY <1>0, <2>3, <3>3 DEF Spoken, Unsaid
      <4>2. \A i \in DOMAIN indexes' : Has(collectedDBs, indexes'[i].db)
        BY <1>0, <2>3 DEF Same
      <4> QED BY <1>0, <3>1, <3>3, <4>1, <4>2, HitsMore
    <3> QED BY <3>2, <3>3, Turns
  <2>4. CASE (AnswerTables \/ TablesLockTimeout) /\ UNCHANGED <<indexes, gave>>
    <3>1. /\ Same(indexes, indexes') /\ Unsaid("defn")
          /\ \A i \in DOMAIN indexes : Definitions'[i] = Definitions[i]
      BY <1>0, <2>4, SameItself DEF Unsaid, Definitions
    <3> QED BY <2>3, <3>1
  <2>5. AnswerTables \/ TablesLockTimeout => UNCHANGED <<indexes, gave>>
    BY DEF AnswerTables, TablesLockTimeout
  <2> QED BY <2>1, <2>2, <2>3, <2>4, <2>5, NextSplit, Speakers, FieldsKept
<1> QED BY <1>1, <1>2

LEMMA LookupIs == LookupInv => OidLookupsHitFirst
<1>1. \A kind, t, d : LastGiver(kind, t, d) = LastOf(collectedDBs, Givers(collectedDBs, gave, kind, t, d))
  BY DEF LastGiver, LastOf, Givers, Before, BeforeIn
<1>2. /\ \A i \in DOMAIN tables : Parents[i] = tables[i].parent
      /\ \A i \in DOMAIN indexes : Definitions[i] = indexes[i].defn
  BY DEF Parents, Definitions
<1> QED BY <1>1, <1>2 DEF LookupInv, Hits, OidLookupsHitFirst

\* The first row of an OID has the parent, or the definition, that the last of the
\* databases to speak of that OID gave, and no other row has any.
THEOREM OidsHitFirst == Spec => []OidLookupsHitFirst
<1>1. Init => BehindInv /\ SpokenInv /\ LookupInv /\ LastInv
  BY DEF Init, BehindInv, SpokenInv, Spoken, LookupInv, Hits, LastInv
<1> QED BY <1>1, LookupIs, BehindNext, SpokenNext, LookupNext, LastNext, RowsInit, RowsNext,
           LegalAlways, PTL DEF Spec
=============================================================================
