------------------------------ MODULE DbCollect ------------------------------
(***************************************************************************)
(* What the databases' own rows become in the report: collectDatabase and  *)
(* the functions it calls fill one list of tables, one of indexes, one of  *)
(* disabled triggers for all databases together, and what a later query    *)
(* says of a table finds its row in that list again: by OID alone          *)
(* (TableByOID, getIndexDef), or by database and name (getBloat, Citus).   *)
(*                                                                         *)
(* A table is a database and an OID.  Databases made from one template     *)
(* have tables with the same OIDs.  An index, a trigger and a name go by   *)
(* the OID of their table.                                                 *)
(*                                                                         *)
(* Tables come and go while they are asked about.                          *)
(***************************************************************************)
EXTENDS Integers, Sequences, FiniteSets

CONSTANTS
  DBs,       \* the databases
  NoDB,      \* nothing was found, or nothing said
  Oids,      \* of tables
  Worlds     \* the servers and options to collect with

Items == {"tables", "indexes", "sequences", "functions", "extensions", "triggers",
          "statements", "log", "citus", "indexdefs", "bloat"}

World ==
  [turns    : Seq(DBs),             \* what current_database() answers, name by name
   exists   : [DBs -> SUBSET Oids], \* the tables there are at first
   kept     : SUBSET (DBs \X Oids), \* those for which tableOK holds
   unnamed  : BOOLEAN,              \* schemaOK("")
   indexed  : SUBSET (DBs \X Oids), \* the tables that have an index
   disabled : SUBSET (DBs \X Oids), \* a disabled trigger
   child    : SUBSET (DBs \X Oids), \* a parent
   parts    : SUBSET (DBs \X Oids), \* and are partitions of it
   bloated  : SUBSET (DBs \X Oids), \* enough bloat to be listed
   spread   : SUBSET (DBs \X Oids), \* are distributed by Citus
   pss      : [DBs -> {"none", "old", "new"}],  \* pg_stat_statements; old: before 1.8
   citus    : SUBSET DBs,
   omit     : SUBSET Items,
   sizes    : BOOLEAN,
   v10      : BOOLEAN,
   changes  : Nat]                  \* bound: tables created or dropped meanwhile

ASSUME NoDBIsNone == NoDB \notin DBs
ASSUME OidsAreNumbers == Oids \subseteq Nat /\ IsFiniteSet(Oids)
ASSUME WorldsAreWorlds == Worlds \subseteq World

TableRow == [db : DBs, oid : Oids,
             size   : {"none", "table", "citus"},
             parent : DBs \cup {NoDB},   \* the database whose answer set ParentName
             bloat  : BOOLEAN]
IndexRow == [db : DBs, oid : Oids, sized : BOOLEAN,
             defn   : DBs \cup {NoDB},   \* the database whose answer set Definition
             bloat  : BOOLEAN]
TriggerRow == [from  : DBs, oid : Oids,
               table : DBs \cup {NoDB}]  \* whose table it was given

VARIABLES
  o,             \* the world; never changes
  exists,        \* the tables there are
  ddl,           \* how many of them came or went
  pc,            \* "next", "query", "done"
  turn,          \* the name whose turn it is
  todo,          \* the functions still to be called for its database
  collectedDBs,  \* c.result.Metadata.CollectedDBs
  tables,        \* c.result.Tables
  indexes,       \* c.result.Indexes
  triggers,      \* c.result.DisabledTriggers
  extensions,    \* c.result.Extensions, a set of database and name
  statements,    \* c.result.Statements, by the database that was asked
  citusOf,       \* the keys of c.result.Citus
  exit,          \* "none", "fatal" or "report"
  retried,       \* history: the databases and lists with an abandoned attempt
  gave           \* history: what was answered: kind, database, table

server == <<o, exists, ddl>>
place  == <<pc, turn, todo>>
lists  == <<tables, indexes, triggers>>
others == <<extensions, statements, citusOf>>
vars   == <<server, place, collectedDBs, lists, others, exit, retried, gave>>

Functions == {"getTables", "getTablesAgain", "getPartitionInfo", "getParentInfo",
              "getIndexes", "getIndexesAgain", "getIndexDef", "getExtensions",
              "getDisabledTriggers", "getStatements", "getBloat", "getCitus"}
Given     == {"parent", "defn", "trigger", "bloat", "index bloat", "size"} \X DBs \X Oids

ServerType == /\ o \in Worlds /\ exists \in [DBs -> SUBSET Oids]
              /\ ddl \in 0..o.changes
PlaceType  == /\ pc \in {"next", "query", "done"} /\ turn \in 1..Len(o.turns) + 1
              /\ todo \in Seq(Functions) /\ exit \in {"none", "fatal", "report"}
              /\ collectedDBs \in Seq(DBs)
ListsType  == /\ tables \in Seq(TableRow) /\ indexes \in Seq(IndexRow)
              /\ triggers \in Seq(TriggerRow)
OthersType == /\ extensions \subseteq DBs \X {"pg_stat_statements", "citus"}
              /\ statements \in DBs \cup {NoDB} /\ citusOf \subseteq DBs
              /\ retried \subseteq DBs \X {"tables", "indexes"}
              /\ gave \subseteq Given

\* The types of the variables.
TypeOK == ServerType /\ PlaceType /\ ListsType /\ OthersType

Init ==
  /\ o \in Worlds
  /\ exists = o.exists /\ ddl = 0
  /\ pc = "next" /\ turn = 1 /\ todo = <<>>
  /\ collectedDBs = <<>>
  /\ tables = <<>> /\ indexes = <<>> /\ triggers = <<>>
  /\ extensions = {} /\ statements = NoDB /\ citusOf = {}
  /\ exit = "none" /\ retried = {} /\ gave = {}

-----------------------------------------------------------------------------
(***************************************************************************)
(* The databases, in turn.                                                 *)
(***************************************************************************)
db == o.turns[turn]

When(c, s) == IF c THEN s ELSE <<>>

\* Mutant: statements are asked for before the extensions.
PlanStatementsFirst == <<"getStatements", "getTables", "getExtensions", "getDisabledTriggers">>

\* What collectDatabase calls, as far as it fills these lists.
Plan ==
  When("tables" \notin o.omit,
       <<"getTables">> \o When(o.v10, <<"getPartitionInfo">>) \o <<"getParentInfo">>)
    \o When({"tables", "indexes"} \cap o.omit = {},
            <<"getIndexes">> \o When("indexdefs" \notin o.omit, <<"getIndexDef">>))
    \o When("extensions" \notin o.omit, <<"getExtensions">>)
    \o When({"tables", "triggers"} \cap o.omit = {}, <<"getDisabledTriggers">>)
    \o When("statements" \notin o.omit, <<"getStatements">>)
    \o When("bloat" \notin o.omit, <<"getBloat">>)
    \o When("citus" \notin o.omit, <<"getCitus">>)

\* Mutant: only the last database is compared with.
CollectedLast == collectedDBs # <<>> /\ collectedDBs[Len(collectedDBs)] = db
Collected == \E i \in DOMAIN collectedDBs : collectedDBs[i] = db

\* collectDatabase: nothing is done for a database that was collected before.
CollectDatabase ==
  /\ pc = "next" /\ turn <= Len(o.turns)
  /\ IF Collected
     THEN turn' = turn + 1 /\ UNCHANGED <<pc, todo, collectedDBs>>
     ELSE /\ pc' = "query" /\ todo' = Plan
          /\ collectedDBs' = Append(collectedDBs, db)
          /\ UNCHANGED turn
  /\ UNCHANGED <<server, lists, others, exit, retried, gave>>

LeaveDatabase(next) ==
  /\ pc = "query" /\ todo = <<>>
  /\ pc' = "next" /\ turn' = next
  /\ UNCHANGED <<server, todo, collectedDBs, lists, others, exit, retried, gave>>

EndDatabase == LeaveDatabase(turn + 1)

\* Everything was collected: the report is written.
Report ==
  /\ pc = "next" /\ turn > Len(o.turns)
  /\ pc' = "done" /\ exit' = "report"
  /\ UNCHANGED <<server, turn, todo, collectedDBs, lists, others, retried, gave>>

Doing(f) == pc = "query" /\ todo # <<>> /\ Head(todo) = f
Goes == todo' = Tail(todo) /\ UNCHANGED <<server, pc, turn, collectedDBs, exit>>

\* log.Fatalf: any failure of one of these functions, at whatever row.
Dies ==
  /\ \E f \in {"getTables", "getTablesAgain", "getPartitionInfo", "getParentInfo",
               "getIndexes", "getIndexesAgain", "getExtensions",
               "getDisabledTriggers", "getStatements", "getBloat"} : Doing(f)
  /\ pc' = "done" /\ exit' = "fatal"
  /\ UNCHANGED <<server, turn, todo, collectedDBs, lists, others, retried, gave>>

\* External: somebody creates a table, or drops one, in the database that is being
\* read; elsewhere it makes no difference, or that of another start.
Alter(tablesThen) ==
  /\ ddl < o.changes
  /\ exists' = [exists EXCEPT ![db] = tablesThen]
  /\ ddl' = ddl + 1
  /\ UNCHANGED <<o, place, collectedDBs, lists, others, exit, retried, gave>>

Create == pc = "query" /\ \E t \in Oids \ exists[db] : Alter(exists[db] \cup {t})
Drop   == pc = "query" /\ \E t \in exists[db] : Alter(exists[db] \ {t})

-----------------------------------------------------------------------------
(***************************************************************************)
(* Rows, and how they are found again.                                     *)
(***************************************************************************)
\* S in the order of ORDER BY relid.
Ascending(S) ==
  {s \in [1..Cardinality(S) -> S] : \A i, j \in DOMAIN s : i < j => s[i] < s[j]}

\* tableOK: the tables of S that the options and pg_temp_ leave.
TableOK(S) == {t \in S : <<db, t>> \in o.kept}

\* The tables of this database with a property.
Those(pairs) == {t \in exists[db] : <<db, t>> \in pairs}

\* TableByOID and the loop of getIndexDef stop at the first row with the OID,
\* of whatever database. Mutant: they do not stop.
EveryRow(rows, i) == TRUE
FoundByOID(rows, i) == \A j \in DOMAIN rows : j < i => rows[j].oid # rows[i].oid

\* TableByName, IndexByName and getCitusTableSizes compare the database, too.
FoundByName(rows, i) ==
  /\ rows[i].db = db
  /\ \A j \in DOMAIN rows : j < i /\ rows[j].db = db => rows[j].oid # rows[i].oid

Gave(kind, S) == gave' = gave \cup {<<kind, db, t>> : t \in S}

AddTables(S, size) ==
  \E s \in Ascending(TableOK(S)) :
    tables' = tables \o [i \in DOMAIN s |-> [db |-> db, oid |-> s[i], size |-> size,
                                             parent |-> NoDB, bloat |-> FALSE]]

AddIndexes(S, sized) ==
  \E s \in Ascending(TableOK(S) \cap Those(o.indexed)) :
    indexes' = indexes \o [i \in DOMAIN s |-> [db |-> db, oid |-> s[i], sized |-> sized,
                                               defn |-> NoDB, bloat |-> FALSE]]

\* getTablesNoRetry, to the last row.
AnswerTables ==
  /\ \/ Doing("getTables")      /\ AddTables(exists[db], IF o.sizes THEN "table" ELSE "none")
     \/ Doing("getTablesAgain") /\ AddTables(exists[db], "none")
  /\ Goes /\ UNCHANGED <<indexes, triggers, others, retried, gave>>

\* Mutant: the list is emptied before the second attempt.
TablesLockTimeoutEmptying ==
  /\ Doing("getTables") /\ o.sizes
  /\ exists[db] # {} /\ tables' = <<>>
  /\ todo' = <<"getTablesAgain">> \o Tail(todo)
  /\ retried' = retried \cup {<<db, "tables">>}
  /\ UNCHANGED <<server, pc, turn, collectedDBs, exit, indexes, triggers, others, gave>>

\* The size of table t waits for a lock for too long, after the rows of the
\* tables before it were taken.
TablesLockTimeout ==
  /\ Doing("getTables") /\ o.sizes
  /\ \E t \in exists[db] : AddTables({u \in exists[db] : u < t}, "table")
  /\ todo' = <<"getTablesAgain">> \o Tail(todo)
  /\ retried' = retried \cup {<<db, "tables">>}
  /\ UNCHANGED <<server, pc, turn, collectedDBs, exit, indexes, triggers, others, gave>>

AnswerIndexes ==
  /\ \/ Doing("getIndexes")      /\ AddIndexes(exists[db], o.sizes)
     \/ Doing("getIndexesAgain") /\ AddIndexes(exists[db], FALSE)
  /\ Goes /\ UNCHANGED <<tables, triggers, others, retried, gave>>

\* Mutant: after another lock timeout, once more with the sizes.
IndexesLockTimeoutForever ==
  /\ o.sizes
  /\ \/ Doing("getIndexes")      /\ todo' = <<"getIndexesAgain">> \o Tail(todo)
     \/ Doing("getIndexesAgain") /\ todo' = <<"getIndexes">> \o Tail(todo)
  /\ UNCHANGED <<server, pc, turn, collectedDBs, exit, lists, others, retried, gave>>

IndexesLockTimeout ==
  /\ Doing("getIndexes") /\ o.sizes
  /\ \E t \in Those(o.indexed) : AddIndexes({u \in exists[db] : u < t}, TRUE)
  /\ todo' = <<"getIndexesAgain">> \o Tail(todo)
  /\ retried' = retried \cup {<<db, "indexes">>}
  /\ UNCHANGED <<server, pc, turn, collectedDBs, exit, tables, triggers, others, gave>>

-----------------------------------------------------------------------------
(***************************************************************************)
(* What later queries say of them.                                         *)
(***************************************************************************)
SetParent(S) ==
  /\ tables' = [i \in DOMAIN tables |->
                  IF FoundByOID(tables, i) /\ tables[i].oid \in S
                  THEN [tables[i] EXCEPT !.parent = db] ELSE tables[i]]
  /\ Gave("parent", S)
  /\ Goes /\ UNCHANGED <<indexes, triggers, others, retried>>

\* getPartitionInfo answers for partitions. It is not asked before 10, and
\* getParentInfo answers for all children then.
AnswerPartitionInfo == Doing("getPartitionInfo") /\ SetParent(Those(o.child \cap o.parts))
AnswerParentInfo    == /\ Doing("getParentInfo")
                       /\ SetParent(Those(IF o.v10 THEN o.child \ o.parts ELSE o.child))

\* An error, which may come after some of the rows, is not heard of.
AnswerIndexDef ==
  /\ Doing("getIndexDef")
  /\ \E S \in SUBSET Those(o.indexed) :
       /\ indexes' = [i \in DOMAIN indexes |->
                        IF FoundByOID(indexes, i) /\ indexes[i].oid \in S
                        THEN [indexes[i] EXCEPT !.defn = db] ELSE indexes[i]]
       /\ Gave("defn", S)
  /\ Goes /\ UNCHANGED <<tables, triggers, others, retried>>

AnswerExtensions ==
  /\ Doing("getExtensions")
  /\ extensions' = extensions
       \cup (IF o.pss[db] # "none" THEN {<<db, "pg_stat_statements">>} ELSE {})
       \cup (IF db \in o.citus THEN {<<db, "citus">>} ELSE {})
  /\ Goes /\ UNCHANGED <<lists, statements, citusOf, retried, gave>>

\* The database of the row that TableByOID finds.
TableOf(t) ==
  IF \E i \in DOMAIN tables : tables[i].oid = t
  THEN tables[CHOOSE i \in DOMAIN tables : FoundByOID(tables, i) /\ tables[i].oid = t].db
  ELSE NoDB

AddTriggers(table(_)) ==
  /\ Doing("getDisabledTriggers")
  /\ \E s \in Ascending({t \in Those(o.disabled) : table(t) # NoDB \/ o.unnamed}) :
       triggers' = triggers \o [i \in DOMAIN s |-> [from |-> db, oid |-> s[i], table |-> table(s[i])]]
  /\ Gave("trigger", Those(o.disabled))
  /\ Goes /\ UNCHANGED <<tables, indexes, others, retried>>

\* Mutant: an unknown table leaves the names of the row before in place.
AnswerDisabledTriggersStale ==
  AddTriggers(LAMBDA t : IF TableOf(t) = NoDB THEN db ELSE TableOf(t))

\* A trigger has the schema, table and database of the row that its table's OID
\* is found at; with no such row it has none of them, and the filters see "".
AnswerDisabledTriggers == AddTriggers(TableOf)

\* pg_stat_statements speaks for all databases: one answer with rows is enough.
\* A version before 1.8 gets a query that no server accepts, and a warning.
GetStatements ==
  /\ Doing("getStatements")
  /\ \/ UNCHANGED statements
     \/ /\ statements = NoDB
        /\ <<db, "pg_stat_statements">> \in extensions /\ o.pss[db] = "new"
        /\ statements' = db
  /\ Goes /\ UNCHANGED <<lists, extensions, citusOf, retried, gave>>

SetBloat(found(_, _)) ==
  /\ Doing("getBloat")
  /\ tables' = [i \in DOMAIN tables |->
                  IF found(tables, i) /\ tables[i].oid \in Those(o.bloated)
                  THEN [tables[i] EXCEPT !.bloat = TRUE] ELSE tables[i]]
  /\ indexes' = [i \in DOMAIN indexes |->
                  IF found(indexes, i) /\ indexes[i].oid \in Those(o.bloated \cap o.indexed)
                  THEN [indexes[i] EXCEPT !.bloat = TRUE] ELSE indexes[i]]
  /\ gave' = gave \cup {<<"bloat", db, t>> : t \in Those(o.bloated)}
                  \cup {<<"index bloat", db, t>> : t \in Those(o.bloated \cap o.indexed)}
  /\ Goes /\ UNCHANGED <<triggers, others, retried>>

\* Mutant: the row is looked for by its OID alone.
AnswerBloatByOID == SetBloat(FoundByOID)
AnswerBloat == SetBloat(FoundByName)

\* Sizes of distributed tables, unless they are not asked for; an error, which
\* may come after some of the rows, is a warning.
GetCitus ==
  /\ Doing("getCitus")
  /\ IF <<db, "citus">> \in extensions
     THEN /\ citusOf' = citusOf \cup {db}
          /\ \E S \in SUBSET (IF o.sizes THEN Those(o.spread) ELSE {}) :
               /\ tables' = [i \in DOMAIN tables |->
                               IF FoundByName(tables, i) /\ tables[i].oid \in S
                               THEN [tables[i] EXCEPT !.size = "citus"] ELSE tables[i]]
               /\ Gave("size", S)
     ELSE UNCHANGED <<citusOf, tables, gave>>
  /\ Goes /\ UNCHANGED <<indexes, triggers, extensions, statements, retried>>

-----------------------------------------------------------------------------
Program == \/ CollectDatabase \/ EndDatabase \/ Report \/ Dies
           \/ AnswerTables \/ TablesLockTimeout \/ AnswerIndexes \/ IndexesLockTimeout
           \/ AnswerPartitionInfo \/ AnswerParentInfo \/ AnswerIndexDef
           \/ AnswerExtensions \/ AnswerDisabledTriggers \/ GetStatements
           \/ AnswerBloat \/ GetCitus

Next == Program \/ Create \/ Drop

Spec == Init /\ [][Next]_vars

\* Every query has a timeout: the next step is taken, whatever the server does.
FairSpec == Spec /\ WF_vars(Program)

-----------------------------------------------------------------------------
(***************************************************************************)
(* Properties.                                                             *)
(***************************************************************************)
First(rows, i) == \A j \in DOMAIN rows : j < i => rows[j].oid # rows[i].oid
FirstNamed(rows, i) ==
  \A j \in DOMAIN rows : j < i => <<rows[j].db, rows[j].oid>> # <<rows[i].db, rows[i].oid>>

Before(d, e) ==
  \E i, j \in DOMAIN collectedDBs : i < j /\ collectedDBs[i] = d /\ collectedDBs[j] = e

Twice(rows, list) ==
  \A i, j \in DOMAIN rows :
    i < j /\ rows[i].db = rows[j].db /\ rows[i].oid = rows[j].oid =>
      /\ <<rows[i].db, list>> \in retried
      /\ \A k \in DOMAIN rows : k \notin {i, j} =>
           rows[k].db # rows[i].db \/ rows[k].oid # rows[i].oid

\* A table or an index is in the report once, whatever names lead to its
\* database; twice only where a lock timeout in the middle of the rows had
\* getTables or getIndexes ask again, and then not more often than that.
NoRowTwice == Twice(tables, "tables") /\ Twice(indexes, "indexes")

\* The last of the databases collected since d that said something of an OID.
LastGiver(kind, t, d) ==
  LET Givers == {i \in DOMAIN collectedDBs : /\ <<kind, collectedDBs[i], t>> \in gave
                                             /\ ~Before(collectedDBs[i], d)}
  IN  IF Givers = {} THEN NoDB
      ELSE collectedDBs[CHOOSE i \in Givers : \A j \in Givers : j <= i]

\* What TableByOID and getIndexDef come to with several databases: the first row
\* of an OID has the parent and the definition that the last database gave for
\* it, and no other row has any.  With OIDs that differ, and no abandoned
\* attempt, each row has those of its own database.
OidLookupsHitFirst ==
  /\ \A i \in DOMAIN tables :
       LET r == tables[i] IN
       r.parent = IF First(tables, i) THEN LastGiver("parent", r.oid, r.db) ELSE NoDB
  /\ \A i \in DOMAIN indexes :
       LET r == indexes[i] IN
       r.defn = IF First(indexes, i) THEN LastGiver("defn", r.oid, r.db) ELSE NoDB

\* Bloat and the sizes of distributed tables are never those of another
\* database; of a table that is there twice, the row of the abandoned attempt
\* has them.
NamesHitTheirDatabase ==
  /\ \A i \in DOMAIN tables :
       LET r == tables[i] IN
       /\ r.bloat <=> FirstNamed(tables, i) /\ <<"bloat", r.db, r.oid>> \in gave
       /\ r.size = "citus" <=> FirstNamed(tables, i) /\ <<"size", r.db, r.oid>> \in gave
  /\ \A i \in DOMAIN indexes :
       LET r == indexes[i] IN
       r.bloat <=> FirstNamed(indexes, i) /\ <<"index bloat", r.db, r.oid>> \in gave

\* A disabled trigger is reported under a table that was collected no later than
\* the trigger; without one only if no such table has its OID, be it that
\* the filters exclude it or that it was created too late.
TriggersPlaced ==
  \A k \in DOMAIN triggers :
    LET g == triggers[k] IN
    IF g.table = NoDB
    THEN /\ o.unnamed
         /\ \A i \in DOMAIN tables : tables[i].oid = g.oid => Before(g.from, tables[i].db)
    ELSE /\ ~Before(g.from, g.table)
         /\ \E i \in DOMAIN tables : /\ First(tables, i) /\ tables[i].oid = g.oid
                                     /\ tables[i].db = g.table

\* When statements or Citus are asked for, the extensions of the database are
\* known, and when triggers, its tables: unless these are left out on demand.
KnownInTime ==
  pc = "query" /\ todo # <<>> =>
    /\ Head(todo) \in {"getStatements", "getCitus"} /\ "extensions" \notin o.omit =>
         /\ o.pss[db] # "none" => <<db, "pg_stat_statements">> \in extensions
         /\ db \in o.citus => <<db, "citus">> \in extensions
    /\ Head(todo) = "getDisabledTriggers" =>
         \A i \in DOMAIN todo : todo[i] \notin {"getTables", "getTablesAgain"}

Keeps(old, new) ==
  /\ Len(old) <= Len(new)
  /\ \A i \in DOMAIN old : new[i].db = old[i].db /\ new[i].oid = old[i].oid

\* Nothing that was collected is lost to what is collected later, to the retries
\* least of all: rows stay, in their places, and so do the statements.
RowsStay ==
  [][/\ Keeps(tables, tables') /\ Keeps(indexes, indexes')
     /\ statements # NoDB => statements' = statements]_vars

\* The collection ends, whatever fails and whoever changes the schema.
CollectionEnds == <>(pc = "done")
=============================================================================
