----------------------------- MODULE PoolerProofs -----------------------------
(***************************************************************************)
(* For all backends, versions of Pgpool and changes while it is asked: the *)
(* health and the traffic of a backend in the report are its own, and no   *)
(* backend that is there all the time lacks them.  For all connections and *)
(* versions of PgBouncer: a field has the column it is named after, and    *)
(* the totals of the three tables agree if nothing changed in between.     *)
(*                                                                         *)
(* A row is matched by node ID with the nodes that there are when the      *)
(* table is shown; steady is a part of these at any time.  What the final  *)
(* state says of steady nodes holds from the table on, since steady only   *)
(* shrinks; which tables are past is read off the plan.                    *)
(*                                                                         *)
(* Columns are enumerated, version by version.  Sums over a finite set are *)
(* what the recursion of MapThenSumSet says; that the recursion has a      *)
(* solution, and what the solution is, is shown by a smallest subset for   *)
(* which it would fail.                                                    *)
(***************************************************************************)
EXTENDS Pooler, FiniteSetTheorems, WellFoundedInduction, TLAPS

\* What is left of either plan.
P2 == <<"getPPNodes", "getPPHCStats", "getPPBEStats", "getPPCache", "getTestQuery">>
P3 == <<"getPPHCStats", "getPPBEStats", "getPPCache", "getTestQuery">>
P4 == <<"getPPBEStats", "getPPCache", "getTestQuery">>
P5 == <<"getPPCache", "getTestQuery">>
B2 == <<"getPBServers", "getPBClients", "getPBStats", "getPBDatabases", "getTestQuery">>
B3 == <<"getPBClients", "getPBStats", "getPBDatabases", "getTestQuery">>
B4 == <<"getPBStats", "getPBDatabases", "getTestQuery">>
B5 == <<"getPBDatabases", "getTestQuery">>
Last6 == <<"getTestQuery">>

AsksPgpool  == todo = CollectPgpool \/ todo = P2 \/ todo = P3 \/ todo = P4 \/ todo = P5
AsksBouncer == todo = CollectPgBouncer \/ todo = B2 \/ todo = B3 \/ todo = B4 \/ todo = B5
AtTheEnd    == todo = Last6 \/ todo = <<>>

PastHealth  == todo = P4 \/ todo = P5 \/ AtTheEnd
PastTraffic == todo = P5 \/ AtTheEnd

\* The first of what is left, and the rest.
LEMMA PlanSteps ==
  /\ Head(CollectPgpool) = "getPPVersion" /\ Tail(CollectPgpool) = P2
  /\ Head(P2) = "getPPNodes" /\ Tail(P2) = P3
  /\ Head(P3) = "getPPHCStats" /\ Tail(P3) = P4
  /\ Head(P4) = "getPPBEStats" /\ Tail(P4) = P5
  /\ Head(P5) = "getPPCache" /\ Tail(P5) = Last6
  /\ Head(CollectPgBouncer) = "getPBPools" /\ Tail(CollectPgBouncer) = B2
  /\ Head(B2) = "getPBServers" /\ Tail(B2) = B3
  /\ Head(B3) = "getPBClients" /\ Tail(B3) = B4
  /\ Head(B4) = "getPBStats" /\ Tail(B4) = B5
  /\ Head(B5) = "getPBDatabases" /\ Tail(B5) = Last6
  /\ Head(Last6) = "getTestQuery" /\ Tail(Last6) = <<>>
BY DEF CollectPgpool, CollectPgBouncer, P2, P3, P4, P5, B2, B3, B4, B5, Last6

\* The plans differ in their first function.
LEMMA PlansDiffer ==
  /\ CollectPgpool \notin {P4, P5, Last6, <<>>} /\ CollectPgBouncer \notin {P4, P5, Last6, <<>>}
  /\ P2 \notin {P4, P5, Last6, <<>>} /\ P3 \notin {P4, P5, Last6, <<>>}
  /\ P4 \notin {P5, Last6, <<>>}
BY DEF CollectPgpool, CollectPgBouncer, P2, P3, P4, P5, Last6

Own(b) == /\ b = [id |-> b.id, health |-> b.health, traffic |-> b.traffic]
          /\ {b.health, b.traffic} \subseteq {b.id, NoNode}

OwnInv ==
  /\ o \in World
  /\ steady \subseteq nodes
  /\ AsksPgpool \/ AtTheEnd \/ (AsksBouncer /\ backends = <<>>)
  /\ \A i \in DOMAIN backends :
       /\ Own(backends[i])
       /\ o.version >= 42 /\ backends[i].id \in steady =>
            /\ PastHealth => backends[i].health = backends[i].id
            /\ PastTraffic => backends[i].traffic = backends[i].id
  /\ exit = "report" => todo = <<>>

\* A function of PgBouncer's plan leaves the backends alone.
LEMMA BouncerStep ==
  ASSUME OwnInv, GetPBPools \/ GetPBServers \/ GetPBClients \/ GetPBStats \/ GetPBDatabases
  PROVE  OwnInv'
<1>1. /\ backends' = backends /\ steady' = steady /\ o' = o /\ nodes' = nodes /\ exit' = exit
      /\ exit = "none" /\ todo' = Tail(todo) /\ todo # <<>>
      /\ Head(todo) \in {"getPBPools", "getPBServers", "getPBClients", "getPBStats",
                         "getPBDatabases"}
  BY DEF GetPBPools, GetPBServers, GetPBClients, SetCC, GetPBStats, GetPBDatabases, Doing, Goes,
     pooler
<1>2. AsksBouncer /\ backends = <<>>
  BY <1>1, PlanSteps DEF OwnInv, AsksPgpool, AtTheEnd
<1>3. (AsksBouncer \/ AtTheEnd)'
  BY <1>1, <1>2, PlanSteps DEF AsksBouncer, AtTheEnd
<1>4. \A i \in DOMAIN backends' : FALSE
  BY <1>1, <1>2
<1> QED BY <1>1, <1>2, <1>3, <1>4 DEF OwnInv

\* Where the functions of Pgpool's plan are.
LEMMA PgpoolPlace ==
  ASSUME OwnInv, exit = "none", todo # <<>>
  PROVE  /\ Head(todo) = "getPPVersion" => todo = CollectPgpool
         /\ Head(todo) = "getPPNodes" => todo = P2
         /\ Head(todo) = "getPPHCStats" => todo = P3
         /\ Head(todo) = "getPPBEStats" => todo = P4
         /\ Head(todo) = "getPPCache" => todo = P5
BY PlanSteps DEF OwnInv, AsksPgpool, AsksBouncer, AtTheEnd

LEMMA PgpoolStep ==
  ASSUME OwnInv, GetPPVersion \/ GetPPNodes \/ GetPPHCStats \/ GetPPBEStats \/ GetPPCache
  PROVE  OwnInv'
<1>0. /\ exit = "none" /\ exit' = exit /\ todo # <<>> /\ todo' = Tail(todo)
      /\ o' = o /\ nodes' = nodes /\ o.version \in Nat /\ steady \subseteq nodes
      /\ o \in World
  BY DEF GetPPVersion, GetPPNodes, GetPPHCStats, GetPPBEStats, GetPPCache, Doing, Goes, pooler,
     OwnInv, World
<1>1. CASE GetPPVersion
  <2>1. todo = CollectPgpool /\ todo' = P2 /\ UNCHANGED <<backends, steady>>
    BY <1>0, <1>1, PgpoolPlace, PlanSteps DEF GetPPVersion, Doing
  <2>2. AsksPgpool' /\ ~PastHealth' /\ ~PastTraffic'
    BY <2>1, PlansDiffer DEF AsksPgpool, PastHealth, PastTraffic, AtTheEnd
  <2> QED BY <1>0, <2>1, <2>2 DEF OwnInv, Own
<1>2. CASE GetPPNodes
  <2>1. todo = P2 /\ todo' = P3 /\ steady' = nodes
    BY <1>0, <1>2, PgpoolPlace, PlanSteps DEF GetPPNodes, Doing
  <2>2. AsksPgpool' /\ ~PastHealth' /\ ~PastTraffic'
    BY <2>1, PlansDiffer DEF AsksPgpool, PastHealth, PastTraffic, AtTheEnd
  <2>3. backends' = [i \in 1..Cardinality(nodes) |->
                       [id |-> SetToSeq(nodes)[i], health |-> NoNode, traffic |-> NoNode]]
    BY <1>2 DEF GetPPNodes
  <2>4. \A i \in DOMAIN backends' : Own(backends'[i])
    BY <2>3 DEF Own
  <2>5. \A i \in DOMAIN backends' : Own(backends[i])'
    BY <2>4 DEF Own
  <2> QED BY <1>0, <2>1, <2>2, <2>5 DEF OwnInv
<1>3. CASE GetPPHCStats
  <2>1. todo = P3 /\ todo' = P4 /\ steady' = steady
    BY <1>0, <1>3, PgpoolPlace, PlanSteps DEF GetPPHCStats, Doing
  <2>2. AsksPgpool' /\ ~PastTraffic'
    BY <2>1, PlansDiffer DEF AsksPgpool, PastTraffic, AtTheEnd
  <2>3. CASE o.version < 42
    <3>1. backends' = backends
      BY <1>3, <2>3 DEF GetPPHCStats
    <3> QED BY <1>0, <2>1, <2>2, <2>3, <3>1 DEF OwnInv, Own
  <2>4. CASE ~(o.version < 42)
    <3>1. backends' = [i \in DOMAIN backends |-> [backends[i] EXCEPT !.health = Found(i)]]
      BY <1>3, <2>4 DEF GetPPHCStats
    <3>2. ASSUME NEW i \in DOMAIN backends'
          PROVE  /\ Own(backends'[i])
                 /\ Own(backends[i])'
                 /\ backends'[i].id \in steady => backends'[i].health = backends'[i].id
      <4>1. i \in DOMAIN backends /\ Own(backends[i])
        BY <3>1 DEF OwnInv
      <4>2. backends'[i] = [backends[i] EXCEPT !.health = Found(i)]
        BY <3>1, <4>1
      <4>3. /\ backends'[i].id = backends[i].id /\ backends'[i].health = Found(i)
            /\ backends'[i].traffic = backends[i].traffic
            /\ backends'[i] = [id |-> backends[i].id, health |-> Found(i),
                               traffic |-> backends[i].traffic]
        BY <4>1, <4>2 DEF Own
      <4>4. Found(i) \in {backends[i].id, NoNode}
            /\ (backends[i].id \in nodes => Found(i) = backends[i].id)
        BY DEF Found
      <4>5. Own(backends'[i])
        BY <4>1, <4>3, <4>4 DEF Own
      <4>6. Own(backends[i])'
        BY <4>5 DEF Own
      <4> QED BY <1>0, <4>1, <4>3, <4>4, <4>5, <4>6
    <3> QED BY <1>0, <2>1, <2>2, <3>2 DEF OwnInv
  <2> QED BY <2>3, <2>4
<1>4. CASE GetPPBEStats
  <2>1. todo = P4 /\ todo' = P5 /\ steady' = steady
    BY <1>0, <1>4, PgpoolPlace, PlanSteps DEF GetPPBEStats, Doing
  <2>2. AsksPgpool' /\ PastHealth
    BY <2>1 DEF AsksPgpool, PastHealth
  <2>3. CASE o.version < 42
    <3>1. backends' = backends
      BY <1>4, <2>3 DEF GetPPBEStats
    <3> QED BY <1>0, <2>1, <2>2, <2>3, <3>1 DEF OwnInv, Own
  <2>4. CASE ~(o.version < 42)
    <3>1. backends' = [i \in DOMAIN backends |-> [backends[i] EXCEPT !.traffic = Found(i)]]
      BY <1>4, <2>4 DEF GetPPBEStats
    <3>2. ASSUME NEW i \in DOMAIN backends'
          PROVE  /\ Own(backends'[i])
                 /\ Own(backends[i])'
                 /\ backends'[i].id \in steady =>
                      /\ backends'[i].health = backends'[i].id
                      /\ backends'[i].traffic = backends'[i].id
      <4>1. /\ i \in DOMAIN backends /\ Own(backends[i])
            /\ backends[i].id \in steady => backends[i].health = backends[i].id
        BY <1>0, <2>2, <2>4, <3>1 DEF OwnInv
      <4>2. backends'[i] = [backends[i] EXCEPT !.traffic = Found(i)]
        BY <3>1, <4>1
      <4>3. /\ backends'[i].id = backends[i].id /\ backends'[i].traffic = Found(i)
            /\ backends'[i].health = backends[i].health
            /\ backends'[i] = [id |-> backends[i].id, health |-> backends[i].health,
                               traffic |-> Found(i)]
        BY <4>1, <4>2 DEF Own
      <4>4. Found(i) \in {backends[i].id, NoNode}
            /\ (backends[i].id \in nodes => Found(i) = backends[i].id)
        BY DEF Found
      <4>5. Own(backends'[i])
        BY <4>1, <4>3, <4>4 DEF Own
      <4>6. Own(backends[i])'
        BY <4>5 DEF Own
      <4> QED BY <1>0, <4>1, <4>3, <4>4, <4>5, <4>6
    <3> QED BY <1>0, <2>1, <2>2, <3>2 DEF OwnInv
  <2> QED BY <2>3, <2>4
<1>5. CASE GetPPCache
  <2>1. todo = P5 /\ todo' = Last6 /\ UNCHANGED <<backends, steady>>
    BY <1>0, <1>5, PgpoolPlace, PlanSteps DEF GetPPCache, Doing
  <2>2. AtTheEnd' /\ PastHealth /\ PastTraffic
    BY <2>1 DEF AtTheEnd, PastHealth, PastTraffic
  <2> QED BY <1>0, <2>1, <2>2 DEF OwnInv, Own
<1> QED BY <1>1, <1>2, <1>3, <1>4, <1>5

LEMMA OwnInit == Init => OwnInv
<1> SUFFICES ASSUME Init PROVE OwnInv
  OBVIOUS
<1>1. o \in World /\ backends = <<>> /\ steady = nodes /\ exit = "none"
  BY WorldsAreWorlds DEF Init
<1>2. todo = CollectPgBouncer \/ todo = CollectPgpool
  BY DEF Init
<1>3. \A i \in DOMAIN backends : FALSE
  BY <1>1
<1> QED BY <1>1, <1>2, <1>3 DEF OwnInv, AsksPgpool, AsksBouncer

LEMMA OwnStep == OwnInv /\ [Next]_vars => OwnInv'
<1> SUFFICES ASSUME OwnInv, [Next]_vars PROVE OwnInv'
  OBVIOUS
<1>1. CASE Dies
  BY <1>1 DEF Dies, pooler, OwnInv, Own, AsksPgpool, AsksBouncer, AtTheEnd, PastHealth, PastTraffic
<1>2. CASE Report
  <2>1. /\ UNCHANGED <<o, nodes, backends, steady>> /\ todo' = <<>>
        /\ exit = "none" /\ todo # <<>> /\ Head(todo) = "getTestQuery"
    BY <1>2 DEF Report, Doing, pooler
  <2>2. todo = Last6
    BY <2>1, PlanSteps DEF OwnInv, AsksPgpool, AsksBouncer, AtTheEnd
  <2>3. AtTheEnd' /\ PastHealth /\ PastTraffic
    BY <2>1, <2>2 DEF AtTheEnd, PastHealth, PastTraffic
  <2> QED BY <2>1, <2>3 DEF OwnInv, Own
<1>3. CASE ConnChanges
  BY <1>3 DEF ConnChanges, Alter, OwnInv, Own, AsksPgpool, AsksBouncer, AtTheEnd, PastHealth,
     PastTraffic
<1>4. CASE NodeChanges
  <2>1. /\ UNCHANGED <<o, todo, backends, exit>> /\ steady' = steady \cap nodes'
    BY <1>4 DEF NodeChanges, Alter
  <2> QED BY <2>1 DEF OwnInv, Own, AsksPgpool, AsksBouncer, AtTheEnd, PastHealth, PastTraffic
<1>5. CASE UNCHANGED vars
  BY <1>5 DEF vars, pooler, OwnInv, Own, AsksPgpool, AsksBouncer, AtTheEnd, PastHealth, PastTraffic
<1> QED BY <1>1, <1>2, <1>3, <1>4, <1>5, BouncerStep, PgpoolStep DEF Next

LEMMA OwnCorrect == Spec => []OwnInv
BY OwnInit, OwnStep, PTL DEF Spec

\* However the set of backends changes while Pgpool is asked: health and traffic
\* are those of the node itself, and from 4.2 on a node that stays has both.
THEOREM StatsAreOwn == Spec => []BackendsOwnStats
<1>1. OwnInv => BackendsOwnStats
  <2> SUFFICES ASSUME OwnInv PROVE BackendsOwnStats
    OBVIOUS
  <2>1. exit = "report" => PastHealth /\ PastTraffic
    BY DEF OwnInv, PastHealth, PastTraffic, AtTheEnd
  <2> QED BY <2>1 DEF OwnInv, Own, BackendsOwnStats
<1> QED BY OwnCorrect, <1>1, PTL

-----------------------------------------------------------------------------
(***************************************************************************)
(* The fields and their columns.                                           *)
(***************************************************************************)

\* Each version of SHOW POOLS has its fields, or none.
LEMMA PoolFieldsAreColumns ==
  ASSUME o.version \in Nat
  PROVE  PoolFields(Len(PoolColumns)) \in {PoolColumns, <<>>}
<1> USE DEF When, Unknown
<1>1. CASE o.version < 16
  BY <1>1 DEF PoolColumns, PoolFields
<1>2. CASE o.version \in {16, 17}
  BY <1>2 DEF PoolColumns, PoolFields
<1>3. CASE o.version >= 18 /\ ~(o.version > 23 /\ o.mode = "pgbouncer")
  BY <1>3 DEF PoolColumns, PoolFields
<1>4. CASE o.version > 23 /\ o.mode = "pgbouncer"
  <2>1. Len(PoolColumns) = 17
    BY <1>4 DEF PoolColumns
  <2> QED BY <2>1 DEF PoolFields
<1> QED BY <1>1, <1>2, <1>3, <1>4


\* What Skip is.
LEMMA Skips ==
  /\ Skip(3) = <<"-", "-", "-">> /\ Skip(4) = <<"-", "-", "-", "-">>
  /\ Skip(5) = <<"-", "-", "-", "-", "-">> /\ Skip(6) = <<"-", "-", "-", "-", "-", "-">>
  /\ Skip(7) = <<"-", "-", "-", "-", "-", "-", "-">>
BY DEF Skip

\* Nothing is taken for no fields.
LEMMA NothingTaken == ASSUME NEW c PROVE Scan(c, <<>>) = <<>>
BY DEF Scan, ToSet

\* Where each field has its column.
LEMMA TakenAt ==
  ASSUME NEW columns, NEW fields, NEW f, f # "-", f \in ToSet(fields)
  PROVE  /\ f \in DOMAIN Scan(columns, fields)
         /\ \E i \in DOMAIN fields : fields[i] = f /\ Scan(columns, fields)[f] = columns[i]
BY DEF Scan, ToSet

\* The fields of getPBServers and getPBClients have their own columns.
LEMMA ConnAt ==
  ASSUME o.version \in Nat, Supported, NEW f \in {"state", "wait", "wait_us"}
  PROVE  Scan(ConnColumns, ConnFields(Len(ConnColumns)))[f] = f
<1> DEFINE n == Len(ConnColumns)
           fields == ConnFields(n)
<1>1. n \in 17 .. 21
  BY DEF ConnColumns, When, Unknown
<1>2. CASE n = 17
  <2>1. /\ ConnColumns[4] = "state" /\ ConnColumns[11] = "wait" /\ ConnColumns[12] = "wait_us"
    BY <1>2 DEF ConnColumns, When, Unknown
  <2> HIDE DEF n
  <2>2. fields = Skip(3) \o <<"state">> \o Skip(6) \o <<"wait", "wait_us">> \o Skip(5)
    BY <1>2 DEF ConnFields
  <2>3. fields = <<"-", "-", "-">> \o <<"state">> \o <<"-", "-", "-", "-", "-", "-">>
                   \o <<"wait", "wait_us">> \o <<"-", "-", "-", "-", "-">>
    BY <2>2, Skips
  <2> HIDE DEF fields
  <2>4. \A i \in DOMAIN fields : /\ fields[i] = "state" => i = 4
                                 /\ fields[i] = "wait" => i = 11
                                 /\ fields[i] = "wait_us" => i = 12
    BY <2>3
  <2>5. /\ fields[4] = "state" /\ fields[11] = "wait" /\ fields[12] = "wait_us"
        /\ {4, 11, 12} \subseteq DOMAIN fields
    BY <2>3
  <2> QED BY <2>1, <2>4, <2>5, TakenAt DEF ToSet, n, fields
<1>3. CASE n = 18
  <2>1. /\ ConnColumns[4] = "state" /\ ConnColumns[11] = "wait" /\ ConnColumns[12] = "wait_us"
    BY <1>3 DEF ConnColumns, When, Unknown
  <2> HIDE DEF n
  <2>2. fields = Skip(3) \o <<"state">> \o Skip(6) \o <<"wait", "wait_us">> \o Skip(6)
    BY <1>3 DEF ConnFields
  <2>3. fields = <<"-", "-", "-">> \o <<"state">> \o <<"-", "-", "-", "-", "-", "-">>
                   \o <<"wait", "wait_us">> \o <<"-", "-", "-", "-", "-", "-">>
    BY <2>2, Skips
  <2> HIDE DEF fields
  <2>4. \A i \in DOMAIN fields : /\ fields[i] = "state" => i = 4
                                 /\ fields[i] = "wait" => i = 11
                                 /\ fields[i] = "wait_us" => i = 12
    BY <2>3
  <2>5. /\ fields[4] = "state" /\ fields[11] = "wait" /\ fields[12] = "wait_us"
        /\ {4, 11, 12} \subseteq DOMAIN fields
    BY <2>3
  <2> QED BY <2>1, <2>4, <2>5, TakenAt DEF ToSet, n, fields
<1>4. CASE n = 19
  <2>1. /\ ConnColumns[4] = "state" /\ ConnColumns[11] = "wait" /\ ConnColumns[12] = "wait_us"
    BY <1>4 DEF ConnColumns, When, Unknown
  <2> HIDE DEF n
  <2>2. fields = Skip(3) \o <<"state">> \o Skip(6) \o <<"wait", "wait_us">> \o Skip(7)
    BY <1>4 DEF ConnFields
  <2>3. fields = <<"-", "-", "-">> \o <<"state">> \o <<"-", "-", "-", "-", "-", "-">>
                   \o <<"wait", "wait_us">> \o <<"-", "-", "-", "-", "-", "-", "-">>
    BY <2>2, Skips
  <2> HIDE DEF fields
  <2>4. \A i \in DOMAIN fields : /\ fields[i] = "state" => i = 4
                                 /\ fields[i] = "wait" => i = 11
                                 /\ fields[i] = "wait_us" => i = 12
    BY <2>3
  <2>5. /\ fields[4] = "state" /\ fields[11] = "wait" /\ fields[12] = "wait_us"
        /\ {4, 11, 12} \subseteq DOMAIN fields
    BY <2>3
  <2> QED BY <2>1, <2>4, <2>5, TakenAt DEF ToSet, n, fields
<1>5. CASE n = 20
  <2>1. /\ ConnColumns[5] = "state" /\ ConnColumns[12] = "wait" /\ ConnColumns[13] = "wait_us"
    BY <1>5 DEF ConnColumns, When, Unknown
  <2> HIDE DEF n
  <2>2. fields = Skip(4) \o <<"state">> \o Skip(6) \o <<"wait", "wait_us">> \o Skip(7)
    BY <1>5 DEF ConnFields
  <2>3. fields = <<"-", "-", "-", "-">> \o <<"state">> \o <<"-", "-", "-", "-", "-", "-">>
                   \o <<"wait", "wait_us">> \o <<"-", "-", "-", "-", "-", "-", "-">>
    BY <2>2, Skips
  <2> HIDE DEF fields
  <2>4. \A i \in DOMAIN fields : /\ fields[i] = "state" => i = 5
                                 /\ fields[i] = "wait" => i = 12
                                 /\ fields[i] = "wait_us" => i = 13
    BY <2>3
  <2>5. /\ fields[5] = "state" /\ fields[12] = "wait" /\ fields[13] = "wait_us"
        /\ {5, 12, 13} \subseteq DOMAIN fields
    BY <2>3
  <2> QED BY <2>1, <2>4, <2>5, TakenAt DEF ToSet, n, fields
<1>6. CASE n = 21
  BY <1>6 DEF Supported, ConnFields
<1> QED BY <1>1, <1>2, <1>3, <1>4, <1>5, <1>6

\* s reads t.
Reads(s, t) == DOMAIN s = DOMAIN t /\ \A i \in DOMAIN t : s[i] = t[i]

\* Which field of the statistics has its own column.
LEMMA StatAt ==
  ASSUME o.version \in Nat, NEW f \in DOMAIN Scan(StatColumns, StatFields(Len(StatColumns)))
  PROVE  Scan(StatColumns, StatFields(Len(StatColumns)))[f] = f
           <=> o.version < 23 \/ f \notin Shifted
<1> DEFINE n == Len(StatColumns)
           at == Scan(StatColumns, StatFields(n))
<1>1. f # "-" /\ f \in ToSet(StatFields(n))
  BY DEF Scan
<1>2. PICK i \in DOMAIN StatFields(n) : StatFields(n)[i] = f /\ at[f] = StatColumns[i]
  BY <1>1, TakenAt
<1>3. CASE o.version < 23
  <2>1. n = 15 /\ StatFields(15) = StatColumns
    BY <1>3 DEF StatColumns, StatFields, When, Unknown, Totals, Averages
  <2> QED BY <1>2, <1>3, <2>1
<1>4. CASE o.version >= 23
  <2>1. \/ n = 17 /\ Unknown(23) = <<>>
        \/ StatFields(n) = <<>>
    BY <1>4 DEF StatColumns, StatFields, When, Unknown, Totals, Averages
  <2>2. n = 17 /\ Unknown(23) = <<>>
    BY <1>2, <2>1
  <2>3. Reads(StatColumns,
          <<"database", "total_server_assignment_count", 
            "total_xact_count", "total_query_count", "total_received", "total_sent",
            "total_xact_time", "total_query_time", "total_wait_time", "avg_server_assignment_count",
            "avg_xact_count", "avg_query_count", "avg_received", "avg_sent",
            "avg_xact_time", "avg_query_time", "avg_wait_time">>)
    BY <1>4, <2>2 DEF StatColumns, When, Totals, Averages, Reads
  <2>4. Reads(StatFields(n),
          <<"database", "total_server_assignment_count", 
            "total_xact_count", "total_query_count", "total_received", "total_sent",
            "total_xact_time", "total_query_time", "total_wait_time",
            "avg_xact_count", "avg_query_count", "avg_received", "avg_sent",
            "avg_xact_time", "avg_query_time", "avg_wait_time", "avg_server_assignment_count">>)
    BY <2>2 DEF StatFields, When, Totals, Averages, Reads
  <2>5. Shifted = {"avg_xact_count", "avg_query_count", "avg_received", "avg_sent",
            "avg_xact_time", "avg_query_time", "avg_wait_time", "avg_server_assignment_count"}
    BY DEF Shifted, ToSet, Averages
  <2> HIDE DEF n, at
  <2>6. i \in 1 .. 17
    BY <2>4 DEF Reads
  <2>7. at[f] = f <=> f \notin Shifted
    BY <1>2, <2>3, <2>4, <2>5, <2>6 DEF Reads
  <2> QED BY <1>4, <2>7 DEF n, at
<1> QED BY <1>3, <1>4

\* A field of the databases has its own column.
LEMMA DatabaseAt ==
  ASSUME o.version \in Nat,
         NEW f \in DOMAIN Scan(DatabaseColumns, DatabaseFields(Len(DatabaseColumns)))
  PROVE  Scan(DatabaseColumns, DatabaseFields(Len(DatabaseColumns)))[f] = f
<1> DEFINE n == Len(DatabaseColumns)
           fields == DatabaseFields(n)
           at == Scan(DatabaseColumns, fields)
<1>1. f # "-" /\ f \in ToSet(fields)
  BY DEF Scan
<1>2. PICK i \in DOMAIN fields : fields[i] = f /\ at[f] = DatabaseColumns[i]
  BY <1>1, TakenAt
<1>3. n \in 12 .. 14
  BY <1>2 DEF DatabaseFields
<1>4. fields = <<"name", "host", "port", "database", "force_user">> \o Skip(n - 9)
         \o <<"max_connections", "current_connections", "paused", "disabled">>
  BY <1>3 DEF DatabaseFields
<1>5. CASE n = 12
  <2>0. fields = <<"name", "host", "port", "database", "force_user">> \o <<"-", "-", "-">>
                   \o <<"max_connections", "current_connections", "paused", "disabled">>
    <3>1. Skip(n - 9) = Skip(3)
      BY <1>5
    <3> HIDE DEF n, fields
    <3> QED BY <1>4, <3>1, Skips
  <2>1. o.version < 16
    BY <1>5 DEF DatabaseColumns, When, Unknown
  <2>2. \A k \in 1 .. 5 \cup 9 .. 12 : fields[k] = DatabaseColumns[k]
    BY <2>0, <2>1 DEF DatabaseColumns, When, Unknown
  <2>3. DOMAIN fields = 1 .. 12 /\ \A k \in 6 .. 8 : fields[k] = "-"
    BY <2>0
  <2> HIDE DEF n, at, fields
  <2>4. i \in 1 .. 5 \cup 9 .. 12
    BY <1>1, <1>2, <2>3
  <2> QED BY <1>2, <2>2, <2>4 DEF n, at, fields
<1>6. CASE n = 13
  <2>0. fields = <<"name", "host", "port", "database", "force_user">> \o <<"-", "-", "-", "-">>
                   \o <<"max_connections", "current_connections", "paused", "disabled">>
    <3>1. Skip(n - 9) = Skip(4)
      BY <1>6
    <3> HIDE DEF n, fields
    <3> QED BY <1>4, <3>1, Skips
  <2>1. o.version >= 16 /\ ~(o.version >= 23) /\ Unknown(23) = <<>>
    BY <1>6 DEF DatabaseColumns, When, Unknown
  <2>2. \A k \in 1 .. 5 \cup 10 .. 13 : fields[k] = DatabaseColumns[k]
    BY <2>0, <2>1 DEF DatabaseColumns, When
  <2>3. DOMAIN fields = 1 .. 13 /\ \A k \in 6 .. 9 : fields[k] = "-"
    BY <2>0
  <2> HIDE DEF n, at, fields
  <2>4. i \in 1 .. 5 \cup 10 .. 13
    BY <1>1, <1>2, <2>3
  <2> QED BY <1>2, <2>2, <2>4 DEF n, at, fields
<1>7. CASE n = 14
  <2>0. fields = <<"name", "host", "port", "database", "force_user">> \o <<"-", "-", "-", "-", "-">>
                   \o <<"max_connections", "current_connections", "paused", "disabled">>
    <3>1. Skip(n - 9) = Skip(5)
      BY <1>7
    <3> HIDE DEF n, fields
    <3> QED BY <1>4, <3>1, Skips
  <2>1. o.version >= 23 /\ Unknown(23) = <<>>
    BY <1>7 DEF DatabaseColumns, When, Unknown
  <2>2. \A k \in 1 .. 5 \cup 11 .. 14 : fields[k] = DatabaseColumns[k]
    BY <2>0, <2>1 DEF DatabaseColumns, When
  <2>3. DOMAIN fields = 1 .. 14 /\ \A k \in 6 .. 10 : fields[k] = "-"
    BY <2>0
  <2> HIDE DEF n, at, fields
  <2>4. i \in 1 .. 5 \cup 11 .. 14
    BY <1>1, <1>2, <2>3
  <2> QED BY <1>2, <2>2, <2>4 DEF n, at, fields
<1> QED BY <1>3, <1>5, <1>6, <1>7

\* These are columns of SHOW POOLS in all versions.
LEMMA PoolColumnsHave ==
  ASSUME o.version \in Nat,
         NEW f \in {"sv_active", "sv_idle", "sv_used", "cl_active", "cl_waiting", "maxwait",
                    "maxwait_us"}
  PROVE  f \in ToSet(PoolColumns)
<1>1. CASE o.version < 16
  <2>1. /\ PoolColumns[3] = "cl_active"
        /\ PoolColumns[4] = "cl_waiting"
        /\ PoolColumns[5] = "sv_active"
        /\ PoolColumns[6] = "sv_idle"
        /\ PoolColumns[7] = "sv_used"
        /\ PoolColumns[10] = "maxwait"
        /\ PoolColumns[11] = "maxwait_us"
    BY <1>1 DEF PoolColumns, When, Unknown
  <2>2. {3, 4, 5, 6, 7, 10, 11} \subseteq DOMAIN PoolColumns
    BY <1>1 DEF PoolColumns, When, Unknown
  <2> QED BY <2>1, <2>2 DEF ToSet
<1>2. CASE o.version \in {16, 17}
  <2>1. /\ PoolColumns[3] = "cl_active"
        /\ PoolColumns[4] = "cl_waiting"
        /\ PoolColumns[6] = "sv_active"
        /\ PoolColumns[7] = "sv_idle"
        /\ PoolColumns[8] = "sv_used"
        /\ PoolColumns[11] = "maxwait"
        /\ PoolColumns[12] = "maxwait_us"
    BY <1>2 DEF PoolColumns, When, Unknown
  <2>2. {3, 4, 6, 7, 8, 11, 12} \subseteq DOMAIN PoolColumns
    BY <1>2 DEF PoolColumns, When, Unknown
  <2> QED BY <2>1, <2>2 DEF ToSet
<1>3. CASE o.version >= 18
  <2>1. /\ PoolColumns[3] = "cl_active"
        /\ PoolColumns[4] = "cl_waiting"
        /\ PoolColumns[7] = "sv_active"
        /\ PoolColumns[10] = "sv_idle"
        /\ PoolColumns[11] = "sv_used"
        /\ PoolColumns[14] = "maxwait"
        /\ PoolColumns[15] = "maxwait_us"
    BY <1>3 DEF PoolColumns, When, Unknown
  <2>2. {3, 4, 7, 10, 11, 14, 15} \subseteq DOMAIN PoolColumns
    BY <1>3 DEF PoolColumns, When, Unknown
  <2> QED BY <2>1, <2>2 DEF ToSet
<1> QED BY <1>1, <1>2, <1>3

NamedInv == o \in World /\ FieldsAsNamed

\* getPBStats and getPBDatabases, of any version.
LEMMA NamedStep == NamedInv /\ [Next]_vars => NamedInv'
<1> SUFFICES ASSUME NamedInv, [Next]_vars PROVE NamedInv'
  OBVIOUS
<1>1. o' = o /\ o.version \in Nat
  BY DEF Next, vars, pooler, GetPBPools, GetPBServers, GetPBClients, SetCC, GetPBStats,
         GetPBDatabases, GetPPVersion, GetPPNodes, GetPPHCStats, GetPPBEStats, GetPPCache, Dies,
         Report, ConnChanges, NodeChanges, Alter, Goes, NamedInv, World
<1>2. CASE GetPBStats
  <2> DEFINE n == Len(StatColumns)
             at == Scan(StatColumns, StatFields(n))
  <2>1. /\ at # <<>> /\ UNCHANGED databases
        /\ stats' = [f \in DOMAIN at |-> [column |-> at[f], seconds |-> f \in Times]]
    BY <1>2 DEF GetPBStats
  <2>2. \A f \in DOMAIN at : at[f] = f <=> o.version < 23 \/ f \notin Shifted
    BY <1>1, StatAt
  <2>3. ~(o.mode = "pgbouncer" /\ o.version > 23)
    <3>1. ASSUME o.mode = "pgbouncer", o.version > 23 PROVE n = 18
      BY <1>1, <3>1 DEF StatColumns, When, Unknown, Totals, Averages
    <3>2. n = 18 => StatFields(n) = <<>>
      BY DEF StatFields
    <3>3. StatFields(n) = <<>> => at = <<>>
      BY NothingTaken
    <3> QED BY <2>1, <3>1, <3>2, <3>3
  <2> HIDE DEF at
  <2>4. ASSUME NEW f \in DOMAIN stats' PROVE Right(stats', f) <=> o.version < 23 \/ f \notin Shifted
    <3>1. f \in DOMAIN at /\ stats'[f] = [column |-> at[f], seconds |-> f \in Times]
      BY <2>1
    <3>2. stats'[f].column = at[f] /\ stats'[f].seconds = (f \in Times)
      <4> DEFINE b == f \in Times
      <4>1. stats'[f] = [column |-> at[f], seconds |-> b]
        BY <3>1, Zenon
      <4> HIDE DEF b
      <4>2. stats'[f].column = at[f] /\ stats'[f].seconds = b
        BY <4>1
      <4> QED BY <4>2, Zenon DEF b
    <3>3. Right(stats', f) <=> at[f] = f
      BY <3>2, Zenon DEF Right
    <3> QED BY <2>2, <3>1, <3>3
  <2>5. \A f : Right(stats, f)' <=> Right(stats', f)
    BY DEF Right
  <2>6. \A f \in DOMAIN databases' : databases'[f] = f
    BY <2>1 DEF NamedInv, FieldsAsNamed
  <2> QED BY <1>1, <2>3, <2>4, <2>5, <2>6 DEF NamedInv, FieldsAsNamed
<1>3. CASE GetPBDatabases
  <2> DEFINE n == Len(DatabaseColumns)
             at == Scan(DatabaseColumns, DatabaseFields(n))
  <2>1. databases' = at /\ databases' # <<>> /\ UNCHANGED stats
    BY <1>3 DEF GetPBDatabases
  <2>2. \A f \in DOMAIN at : at[f] = f
    BY <1>1, DatabaseAt
  <2>3. ~(o.mode = "pgbouncer" /\ o.version > 23)
    <3>1. ASSUME o.mode = "pgbouncer", o.version > 23 PROVE n = 15
      BY <1>1, <3>1 DEF DatabaseColumns, When, Unknown
    <3>2. n = 15 => DatabaseFields(n) = <<>>
      BY DEF DatabaseFields
    <3>3. DatabaseFields(n) = <<>> => at = <<>>
      BY NothingTaken
    <3> QED BY <2>1, <3>1, <3>2, <3>3
  <2> HIDE DEF at
  <2> QED BY <1>1, <2>1, <2>2, <2>3 DEF NamedInv, FieldsAsNamed, Right
<1>4. CASE UNCHANGED <<stats, databases>>
  BY <1>1, <1>4 DEF NamedInv, FieldsAsNamed, Right
<1> QED
  BY <1>2, <1>3, <1>4
     DEF Next, vars, bouncer, GetPBPools, GetPBServers, GetPBClients, SetCC, GetPPVersion,
         GetPPNodes, GetPPHCStats, GetPPBEStats, GetPPCache, Dies, Report, ConnChanges,
         NodeChanges, Alter

\* Every field of the databases has its own column, and so have the statistics but
\* for the averages of 1.23; a table of an unknown version is not guessed at.
THEOREM FieldsHaveTheirColumns == Spec => []FieldsAsNamed
<1>1. Init => NamedInv
  BY WorldsAreWorlds DEF Init, NamedInv, FieldsAsNamed
<1>2. NamedInv => FieldsAsNamed
  BY DEF NamedInv
<1> QED BY <1>1, <1>2, NamedStep, PTL DEF Spec

-----------------------------------------------------------------------------
(***************************************************************************)
(* Sums and largest numbers.                                               *)
(***************************************************************************)
\* Numbers in a set that is not empty have a least one.
LEMMA Least ==
  ASSUME NEW T, T \subseteq Nat, T # {}
  PROVE  \E m \in T : \A n \in T : m <= n
<1>1. OpToRel(<, Nat) = {p \in Nat \X Nat : p[1] < p[2]}
  BY DEF OpToRel
<1>2. PICK m \in T : \A n \in T : <<n, m>> \notin OpToRel(<, Nat)
  BY NatLessThanWellFounded, WFMin
<1>3. \A n \in T : ~(n < m)
  BY <1>1, <1>2
<1> QED BY <1>3

\* Of finite sets in a family, one has no smaller one in it.
LEMMA LeastSet ==
  ASSUME NEW P, IsFiniteSet(P), NEW B, B \subseteq SUBSET P, B # {}
  PROVE  \E s \in B : /\ IsFiniteSet(s)
                      /\ \A x \in s : s \ {x} \in SUBSET P /\ s \ {x} \notin B
<1> DEFINE Size == {Cardinality(s) : s \in B}
<1>1. \A s \in B : IsFiniteSet(s) /\ Cardinality(s) \in Nat
  BY FS_Subset, FS_CardinalityType
<1>2. PICK m \in Size : \A n \in Size : m <= n
  <2>1. Size \subseteq Nat /\ Size # {}
    BY <1>1
  <2> HIDE DEF Size
  <2> QED BY <2>1, Least
<1>3. PICK s \in B : m = Cardinality(s)
  OBVIOUS
<1>4. ASSUME NEW x \in s, s \ {x} \in B PROVE FALSE
  <2>1. Cardinality(s \ {x}) = Cardinality(s) - 1
    BY <1>1, <1>4, FS_RemoveElement
  <2>2. Cardinality(s) <= Cardinality(s \ {x})
    BY <1>2, <1>3, <1>4
  <2> QED BY <1>1, <1>4, <2>1, <2>2
<1> QED BY <1>1, <1>4


\* Seconds and microseconds make the time again.
LEMMA DivMod == ASSUME NEW a \in Nat, NEW b \in Nat \ {0} PROVE b * (a \div b) + (a % b) = a
  OBVIOUS

\* A member of s.
Pick(s) == CHOOSE x \in s : TRUE

\* g sums h over the subsets of P.
IsSum(g, h, P) ==
  g = [s \in SUBSET P |-> IF s = {} THEN 0 ELSE h[Pick(s)] + g[s \ {Pick(s)}]]

\* There is such a sum.
LEMMA SumExists ==
  ASSUME NEW P, IsFiniteSet(P), NEW h \in [P -> Nat]
  PROVE  \E g : IsSum(g, h, P)
<1> DEFINE Upto(n) == {s \in SUBSET P : Cardinality(s) <= n}
           x(s) == CHOOSE y \in s : TRUE
           Sums(n, g) == g = [s \in Upto(n) |-> IF s = {} THEN 0 ELSE h[x(s)] + g[s \ {x(s)}]]
           None == {n \in Nat : \A g : ~Sums(n, g)}
<1>0. \A s \in SUBSET P : /\ IsFiniteSet(s) /\ Cardinality(s) \in Nat
                           /\ Cardinality(s) <= Cardinality(P)
  BY FS_Subset, FS_CardinalityType
<1>1. ASSUME NEW s \in SUBSET P, s # {} 
      PROVE s \ {x(s)} \in SUBSET P /\ Cardinality(s \ {x(s)}) = Cardinality(s) - 1
  <2>1. x(s) \in s
    BY <1>1
  <2> QED BY <1>0, <2>1, FS_RemoveElement
<1>2. CASE None # {}
  <2>0. None \subseteq Nat
    OBVIOUS
  <2>1. PICK n \in None : \A k \in None : n <= k
    <3> HIDE DEF None
    <3> QED BY <1>2, <2>0, Least
  <2>2. CASE n = 0
    <3> DEFINE g == [s \in Upto(0) |-> 0]
    <3>1. \A s \in Upto(0) : s = {}
      BY <1>0, FS_EmptySet
    <3>2. Sums(0, g)
      BY <3>1
    <3> QED BY <2>1, <2>2, <3>2
  <2>3. CASE n # 0
    <3>1. n - 1 \in Nat /\ n - 1 \notin None
      <4> HIDE DEF None
      <4> QED BY <2>0, <2>1, <2>3
    <3>2. PICK g : Sums(n - 1, g)
      BY <3>1
    <3> DEFINE k == [s \in Upto(n) |-> IF s = {} THEN 0 ELSE h[x(s)] + g[s \ {x(s)}]]
    <3>3. ASSUME NEW s \in Upto(n), s # {} PROVE k[s \ {x(s)}] = g[s \ {x(s)}]
      <4> DEFINE t == s \ {x(s)}
      <4>1. t \in Upto(n - 1) /\ t \in Upto(n)
        BY <1>0, <1>1, <2>1, <3>1, <3>3
      <4> HIDE DEF t, x
      <4>2. g[t] = IF t = {} THEN 0 ELSE h[x(t)] + g[t \ {x(t)}]
        BY <3>2, <4>1
      <4>3. k[t] = IF t = {} THEN 0 ELSE h[x(t)] + g[t \ {x(t)}]
        BY <4>1
      <4> QED BY <4>2, <4>3 DEF t
    <3>4. \A s \in Upto(n) : (IF s = {} THEN 0 ELSE h[x(s)] + g[s \ {x(s)}])
                           = (IF s = {} THEN 0 ELSE h[x(s)] + k[s \ {x(s)}])
      <4> HIDE DEF k, x
      <4> QED BY <3>3
    <3>5. k = [s \in Upto(n) |-> IF s = {} THEN 0 ELSE h[x(s)] + k[s \ {x(s)}]]
      <4>1. k = [s \in Upto(n) |-> IF s = {} THEN 0 ELSE h[x(s)] + g[s \ {x(s)}]]
        OBVIOUS
      <4> HIDE DEF k, x
      <4> QED BY <3>4, <4>1
    <3> QED BY <2>1, <3>5
  <2> QED BY <2>2, <2>3
<1>3. CASE None = {}
  <2>1. Cardinality(P) \in Nat /\ Upto(Cardinality(P)) = SUBSET P
    BY <1>0, FS_CardinalityType
  <2>3. Cardinality(P) \notin None
    BY <1>3
  <2>2. PICK g : Sums(Cardinality(P), g)
    BY <2>1, <2>3
  <2>4. g = [s \in SUBSET P |-> IF s = {} THEN 0 ELSE h[Pick(s)] + g[s \ {Pick(s)}]]
    BY <2>1, <2>2 DEF Pick
  <2> QED BY <2>4 DEF IsSum
<1> QED BY <1>2, <1>3

\* A sum of numbers is no less than any of them, and no more than so many times the
\* largest.
LEMMA SumFacts ==
  ASSUME NEW P, IsFiniteSet(P), NEW h \in [P -> Nat], NEW g, IsSum(g, h, P)
  PROVE  /\ g[P] \in Nat
         /\ \A x \in P : h[x] <= g[P]
         /\ \A m \in Nat : (\A x \in P : h[x] <= m) => g[P] <= m * Cardinality(P)
<1> SUFFICES ASSUME NEW m \in Nat
             PROVE  /\ g[P] \in Nat
                    /\ \A x \in P : h[x] <= g[P]
                    /\ (\A x \in P : h[x] <= m) => g[P] <= m * Cardinality(P)
  BY 0 \in Nat
<1> DEFINE Good(s) == /\ g[s] \in Nat
                      /\ \A x \in s : h[x] <= g[s]
                      /\ (\A x \in P : h[x] <= m) => g[s] <= m * Cardinality(s)
           Bad == {s \in SUBSET P : ~Good(s)}
<1>1. CASE Bad # {}
  <2>1. PICK s \in Bad : IsFiniteSet(s) /\ \A x \in s : s \ {x} \in SUBSET P /\ s \ {x} \notin Bad
    <3>1. Bad \subseteq SUBSET P
      OBVIOUS
    <3> HIDE DEF Bad
    <3> QED BY <1>1, <3>1, LeastSet
  <2>2. CASE s = {}
    <3>1. g[s] = 0 /\ Cardinality(s) = 0
      BY <2>2, FS_EmptySet DEF IsSum
    <3> QED BY <2>1, <2>2, <3>1
  <2>3. CASE s # {}
    <3> DEFINE x == Pick(s)
               t == s \ {x}
    <3>1. x \in s /\ x \in P /\ s \in SUBSET P
      BY <2>3 DEF Pick
    <3>2. Good(t) /\ Cardinality(t) = Cardinality(s) - 1 /\ Cardinality(s) \in Nat
      BY <2>1, <3>1, FS_RemoveElement, FS_CardinalityType
    <3>3. g[s] = h[x] + g[t] /\ h[x] \in Nat
      BY <2>3, <3>1 DEF IsSum
    <3> HIDE DEF x
    <3>4. g[s] \in Nat
      BY <3>2, <3>3
    <3>5. \A y \in s : h[y] <= g[s]
      <4> SUFFICES ASSUME NEW y \in s PROVE h[y] <= g[s]
        OBVIOUS
      <4>1. CASE y = x
        BY <3>2, <3>3, <4>1
      <4>2. CASE y # x
        <5>1. h[y] <= g[t] /\ h[y] \in Nat
          BY <3>1, <3>2, <4>2
        <5> QED BY <3>2, <3>3, <5>1
      <4> QED BY <4>1, <4>2
    <3>6. (\A y \in P : h[y] <= m) => g[s] <= m * Cardinality(s)
      <4> SUFFICES ASSUME \A y \in P : h[y] <= m PROVE g[s] <= m * Cardinality(s)
        OBVIOUS
      <4>1. h[x] <= m /\ g[t] <= m * Cardinality(t)
        BY <3>1, <3>2
      <4>2. m * Cardinality(s) = m + m * (Cardinality(s) - 1)
        BY <3>2
      <4> DEFINE mt == m * Cardinality(t)
      <4>3. mt \in Nat /\ m * Cardinality(s) = m + mt /\ g[t] <= mt
        BY <3>2, <4>1, <4>2
      <4> HIDE DEF mt
      <4> QED BY <3>2, <3>3, <4>1, <4>3
    <3> QED BY <2>1, <3>4, <3>5, <3>6
  <2> QED BY <2>2, <2>3
<1>2. CASE Bad = {}
  <2>1. Good(P)
    BY <1>2
  <2> QED BY <2>1
<1> QED BY <1>1, <1>2

\* The sizes of two parts add up.
LEMMA TwoParts ==
  ASSUME NEW A, NEW B, IsFiniteSet(A), IsFiniteSet(B), A \cap B = {}
  PROVE  Cardinality(A \cup B) = Cardinality(A) + Cardinality(B)
<1>1. Cardinality(A \cap B) = 0 /\ Cardinality(A) \in Nat /\ Cardinality(B) \in Nat
  BY FS_CardinalityType, FS_EmptySet
<1>2. Cardinality(A \cup B) = Cardinality(A) + Cardinality(B) - Cardinality(A \cap B)
  BY FS_Union
<1> QED BY <1>1, <1>2

\* The elements of S, counted by what part of P they are of.
LEMMA SumOfParts ==
  ASSUME NEW P, IsFiniteSet(P), NEW S, IsFiniteSet(S), NEW part \in [S -> P],
         NEW h \in [P -> Nat], \A p \in P : h[p] = Cardinality({c \in S : part[c] = p}),
         NEW g, IsSum(g, h, P)
  PROVE  g[P] = Cardinality(S)
<1> DEFINE Of(s) == {c \in S : part[c] \in s}
           Bad == {s \in SUBSET P : g[s] # Cardinality(Of(s))}
<1>1. CASE Bad # {}
  <2>1. PICK s \in Bad : IsFiniteSet(s) /\ \A x \in s : s \ {x} \in SUBSET P /\ s \ {x} \notin Bad
    <3>1. Bad \subseteq SUBSET P
      OBVIOUS
    <3> HIDE DEF Bad
    <3> QED BY <1>1, <3>1, LeastSet
  <2>2. CASE s = {}
    <3>1. g[s] = 0 /\ Of(s) = {}
      BY <2>2 DEF IsSum
    <3> QED BY <2>1, <3>1, FS_EmptySet
  <2>3. CASE s # {}
    <3> DEFINE x == Pick(s)
               t == s \ {x}
               one == {c \in S : part[c] = x}
    <3>1. x \in s /\ x \in P /\ s \in SUBSET P
      BY <2>3 DEF Pick
    <3>2. g[t] = Cardinality(Of(t))
      BY <2>1, <3>1
    <3>3. g[s] = h[x] + g[t]
      BY <2>3, <3>1 DEF IsSum
    <3>4. h[x] = Cardinality(one)
      BY <3>1
    <3> HIDE DEF x
    <3>5. IsFiniteSet(one) /\ IsFiniteSet(Of(t)) /\ one \cap Of(t) = {} /\ one \cup Of(t) = Of(s)
      <4>1. one \subseteq S /\ Of(t) \subseteq S
        OBVIOUS
      <4>2. one \cap Of(t) = {} /\ one \cup Of(t) = Of(s)
        BY <3>1
      <4> QED BY <4>1, <4>2, FS_Subset
    <3>6. Cardinality(Of(s)) = Cardinality(one) + Cardinality(Of(t))
      <4> HIDE DEF one, Of
      <4>1. Cardinality(one \cup Of(t)) = Cardinality(one) + Cardinality(Of(t))
        BY <3>5, TwoParts
      <4> QED BY <3>5, <4>1
    <3> QED BY <2>1, <3>2, <3>3, <3>4, <3>6
  <2> QED BY <2>2, <2>3
<1>2. CASE Bad = {}
  <2>1. g[P] = Cardinality(Of(P)) /\ Of(P) = S
    BY <1>2
  <2> QED BY <2>1
<1> QED BY <1>1, <1>2

\* SumSet is the sum.
LEMMA TotalIs ==
  ASSUME NEW f, NEW h \in [Pools -> Nat], \A p \in Pools : pools[p][f] = h[p]
  PROVE  \E g : IsSum(g, h, Pools) /\ Total(f) = g[Pools]
<1> DEFINE Eq(g) == g = [s \in SUBSET Pools |-> IF s = {} THEN 0
                           ELSE pools[CHOOSE x \in s : TRUE][f] + g[s \ {CHOOSE x \in s : TRUE}]]
           T == CHOOSE g : Eq(g)
<1>1. Total(f) = T[Pools]
  BY DEF Total, MapThenSumSet, MapThenFoldSet
<1>2. ASSUME NEW g PROVE Eq(g) <=> IsSum(g, h, Pools)
  <2>1. \A s \in SUBSET Pools : s # {} => pools[Pick(s)][f] = h[Pick(s)]
    BY DEF Pick
  <2> QED BY <2>1 DEF IsSum, Pick
<1>3. \E g : IsSum(g, h, Pools)
  BY SumExists, FinitelyMany
<1>4. Eq(T)
  <2> HIDE DEF Eq
  <2> QED BY <1>2, <1>3
<1> HIDE DEF T
<1> QED BY <1>1, <1>2, <1>4

\* And so is the sum of the waits: \div and % undo what the pooler did.
LEMMA TotalWaits ==
  ASSUME NEW S, NEW C, IsFiniteSet(C), NEW h \in [C -> Nat], o.version \in Nat, Supported,
         \A c \in C : conns[c].wait = h[c]
  PROVE  \E g : IsSum(g, h, C) /\ Survey(S, C).total = g[C]
<1> DEFINE at == Scan(ConnColumns, ConnFields(Len(ConnColumns)))
           wait(c) == Sec * ConnCell(c, at["wait"]) + ConnCell(c, at["wait_us"])
           Eq(g) == g = [s \in SUBSET C |-> IF s = {} THEN 0
                           ELSE wait(CHOOSE x \in s : TRUE) + g[s \ {CHOOSE x \in s : TRUE}]]
           T == CHOOSE g : Eq(g)
<1>1. Survey(S, C).total = T[C]
  <2> HIDE DEF at
  <2> QED BY DEF Survey, MapThenSumSet, MapThenFoldSet, at
<1>2. \A c \in C : wait(c) = h[c]
  <2>1. at["wait"] = "wait" /\ at["wait_us"] = "wait_us"
    BY ConnAt
  <2> HIDE DEF at
  <2> SUFFICES ASSUME NEW c \in C PROVE wait(c) = h[c]
    OBVIOUS
  <2>2. wait(c) = Sec * (h[c] \div Sec) + (h[c] % Sec)
    BY <2>1 DEF ConnCell
  <2>3. h[c] \in Nat
    OBVIOUS
  <2> QED BY <2>2, <2>3, DivMod, TimesAreTimes
<1> HIDE DEF wait
<1>3. ASSUME NEW g PROVE Eq(g) <=> IsSum(g, h, C)
  <2>1. ASSUME NEW s \in SUBSET C
        PROVE  (IF s = {} THEN 0
                ELSE wait(CHOOSE x \in s : TRUE) + g[s \ {CHOOSE x \in s : TRUE}])
                 = (IF s = {} THEN 0 ELSE h[Pick(s)] + g[s \ {Pick(s)}])
    <3>1. s # {} => wait(Pick(s)) = h[Pick(s)]
      BY <1>2 DEF Pick
    <3> QED BY <3>1 DEF Pick
  <2> QED BY <2>1 DEF IsSum
<1>4. \E g : IsSum(g, h, C)
  BY SumExists
<1>5. Eq(T)
  <2> HIDE DEF Eq
  <2> QED BY <1>3, <1>4
<1> HIDE DEF T
<1> QED BY <1>1, <1>3, <1>5

\* The largest of a finite set of numbers.
LEMMA MaxIs ==
  ASSUME NEW S, IsFiniteSet(S), S \subseteq Nat, S # {}
  PROVE  MaxOf(S) \in S /\ \A y \in S : y <= MaxOf(S)
<1> DEFINE Bad == {s \in SUBSET S : s # {} /\ ~\E m \in s : \A y \in s : y <= m}
<1>1. CASE Bad # {}
  <2>1. PICK s \in Bad : IsFiniteSet(s) /\ \A x \in s : s \ {x} \in SUBSET S /\ s \ {x} \notin Bad
    <3>1. Bad \subseteq SUBSET S
      OBVIOUS
    <3> HIDE DEF Bad
    <3> QED BY <1>1, <3>1, LeastSet
  <2>2. PICK x \in s : x \in Nat
    OBVIOUS
  <2>3. CASE s \ {x} = {}
    BY <2>1, <2>2, <2>3
  <2>4. CASE s \ {x} # {}
    <3>1. PICK m \in s \ {x} : \A y \in s \ {x} : y <= m
      BY <2>1, <2>4
    <3>2. m \in Nat /\ \A y \in s : y \in Nat
      OBVIOUS
    <3> QED BY <2>1, <2>2, <3>1, <3>2
  <2> QED BY <2>3, <2>4
<1>2. CASE Bad = {}
  <2>1. \E m \in S : \A y \in S : m >= y
    BY <1>2
  <2>2. Max(S) \in S /\ \A y \in S : Max(S) >= y
    BY <2>1 DEF Max
  <2> QED BY <2>2 DEF MaxOf
<1> QED BY <1>1, <1>2

\* What a finite set is mapped to is finite.
LEMMA ImageIsFinite ==
  ASSUME NEW S, IsFiniteSet(S), NEW h, DOMAIN h = S, h = [x \in S |-> h[x]]
  PROVE  IsFiniteSet({h[x] : x \in S})
<1>1. h \in Surjection(S, {h[x] : x \in S})
  BY DEF Surjection
<1> QED BY <1>1, FS_Surjection DEF ExistsSurjection

-----------------------------------------------------------------------------
(***************************************************************************)
(* The figures of the pools, the servers and the clients.                  *)
(***************************************************************************)
Connections == /\ DOMAIN conns \subseteq Conns
               /\ \A c \in DOMAIN conns : conns[c] \in Conn

OfPool(S, p) == {c \in S : conns[c].pool = p}

\* A state that SHOW POOLS counts under a column of its own.
Counted == {<<"sv_active", Servers, "active">>, <<"sv_idle", Servers, "idle">>,
            <<"sv_used", Servers, "used">>, <<"cl_active", Clients, "active">>,
            <<"cl_waiting", Clients, "waiting">>}

PoolFigures ==
  \A p \in Pools :
    /\ \A k \in Counted : pools[p][k[1]] = Cardinality(OfPool(InState(k[2], k[3]), p))
    /\ pools[p]["maxwait"] = MaxOf(WaitsOf(OfPool(InState(Clients, "waiting"), p)))

ServerFigures ==
  \A s \in {"active", "idle", "used"} : sc.count[s] = Cardinality(InState(Servers, s))

ClientFigures ==
  /\ \A s \in {"active", "waiting"} : cc.count[s] = Cardinality(InState(Clients, s))
  /\ cc.max = MaxOf(WaitsOf(InState(Clients, "waiting")))

WaitsBalance == cc.max <= cc.total /\ cc.total <= cc.max * cc.count["waiting"]

\* As long as nothing changes, what was taken is what there is.
BookInv ==
  /\ o \in World /\ Connections /\ WaitsBalance
  /\ quiet /\ pools # <<>> => PoolFigures
  /\ quiet /\ Took("getPBServers") => ServerFigures
  /\ quiet /\ Took("getPBClients") => ClientFigures

\* The connections are finitely many, and their waits are numbers.
LEMMA Finite ==
  ASSUME Connections, NEW S, S \in {Servers, Clients}
  PROVE  /\ IsFiniteSet(There(S)) /\ There(S) \subseteq DOMAIN conns
         /\ \A C \in SUBSET There(S) : /\ IsFiniteSet(C) /\ Cardinality(C) \in Nat
                                       /\ IsFiniteSet(WaitsOf(C)) /\ WaitsOf(C) \subseteq Nat
<1>1. IsFiniteSet(There(S)) /\ There(S) \subseteq DOMAIN conns
  BY FinitelyMany, FS_Subset DEF There
<1>2. ASSUME NEW C \in SUBSET There(S)
      PROVE  /\ IsFiniteSet(C) /\ Cardinality(C) \in Nat
             /\ IsFiniteSet(WaitsOf(C)) /\ WaitsOf(C) \subseteq Nat
  <2>1. IsFiniteSet(C) /\ Cardinality(C) \in Nat
    BY <1>1, FS_Subset, FS_CardinalityType
  <2>2. \A c \in C : conns[c].wait \in Nat
    BY <1>1, TimesAreTimes DEF Connections, Conn
  <2>3. IsFiniteSet(WaitsOf(C))
    <3> DEFINE h == [c \in C |-> conns[c].wait]
    <3>1. {h[c] : c \in C} = WaitsOf(C)
      BY DEF WaitsOf
    <3>2. DOMAIN h = C /\ h = [c \in C |-> h[c]]
      OBVIOUS
    <3> HIDE DEF h
    <3> QED BY <2>1, <3>1, <3>2, ImageIsFinite
  <2> QED BY <2>1, <2>2, <2>3 DEF WaitsOf
<1> QED BY <1>1, <1>2

\* What getPBServers and getPBClients make of the rows.
LEMMA SurveyIs ==
  ASSUME Connections, o.version \in Nat, Supported, NEW K, K \in {Servers, Clients},
         NEW C \in SUBSET There(K)
  PROVE  LET v == Survey(There(K), C) IN
         /\ \A s \in States : v.count[s] = Cardinality(InState(K, s))
         /\ v.max = MaxOf(WaitsOf(C))
         /\ v.max <= v.total /\ v.total <= v.max * Cardinality(C)
<1> DEFINE at == Scan(ConnColumns, ConnFields(Len(ConnColumns)))
           v == Survey(There(K), C)
           h == [c \in C |-> conns[c].wait]
<1>1. at["state"] = "state" /\ at["wait"] = "wait" /\ at["wait_us"] = "wait_us"
  BY ConnAt
<1>2. /\ IsFiniteSet(C) /\ Cardinality(C) \in Nat
      /\ IsFiniteSet(WaitsOf(C)) /\ WaitsOf(C) \subseteq Nat
  BY Finite
<1>3. h \in [C -> Nat] /\ \A c \in C : h[c] = conns[c].wait
  BY <1>2 DEF WaitsOf
<1> HIDE DEF h, at
<1>4. \A s \in States : v.count[s] = Cardinality(InState(K, s))
  <2>1. v.count = [s \in States |-> Cardinality({c \in There(K) : ConnCell(c, at["state"]) = s})]
    BY DEF Survey, at
  <2>2. \A s : {c \in There(K) : ConnCell(c, at["state"]) = s} = InState(K, s)
    BY <1>1 DEF ConnCell, InState
  <2> QED BY <2>1, <2>2
<1>5. v.max = MaxOf(WaitsOf(C))
  <2>1. v.max = MaxOf({Sec * ConnCell(c, at["wait"]) + ConnCell(c, at["wait_us"]) : c \in C})
    BY DEF Survey, at
  <2>2. ASSUME NEW c \in C
        PROVE  Sec * ConnCell(c, at["wait"]) + ConnCell(c, at["wait_us"]) = conns[c].wait
    <3>1. Sec * ConnCell(c, at["wait"]) + ConnCell(c, at["wait_us"])
            = Sec * (h[c] \div Sec) + (h[c] % Sec)
      BY <1>1, <1>3 DEF ConnCell
    <3>2. h[c] \in Nat
      BY <1>3
    <3> QED BY <1>3, <3>1, <3>2, DivMod, TimesAreTimes
  <2>3. {Sec * ConnCell(c, at["wait"]) + ConnCell(c, at["wait_us"]) : c \in C} = WaitsOf(C)
    BY <2>2 DEF WaitsOf
  <2> QED BY <2>1, <2>3
<1>6. PICK g : IsSum(g, h, C) /\ v.total = g[C]
  BY <1>2, <1>3, TotalWaits
<1>7. v.max <= v.total /\ v.total <= v.max * Cardinality(C)
  <2> HIDE DEF v
  <2>1. /\ g[C] \in Nat /\ \A c \in C : h[c] <= g[C]
        /\ \A m \in Nat : (\A c \in C : h[c] <= m) => g[C] <= m * Cardinality(C)
    BY <1>2, <1>3, <1>6, SumFacts
  <2>2. CASE C = {}
    <3>1. v.max = 0 /\ WaitsOf(C) = {} /\ Cardinality(C) = 0
      BY <1>5, <2>2, FS_EmptySet DEF MaxOf, WaitsOf
    <3>2. g[C] <= 0 * Cardinality(C)
      BY <2>1, <2>2
    <3> QED BY <1>6, <2>1, <3>1, <3>2
  <2>3. CASE C # {}
    <3>1. WaitsOf(C) # {}
      BY <2>3 DEF WaitsOf
    <3>2. v.max \in WaitsOf(C) /\ \A y \in WaitsOf(C) : y <= v.max
      BY <1>2, <1>5, <3>1, MaxIs
    <3>3. PICK c \in C : v.max = h[c]
      BY <1>3, <3>2 DEF WaitsOf
    <3>4. v.max \in Nat /\ \A d \in C : h[d] <= v.max
      BY <1>2, <1>3, <3>2 DEF WaitsOf
    <3> QED BY <1>6, <2>1, <3>3, <3>4
  <2> QED BY <2>2, <2>3
<1> QED BY <1>4, <1>5, <1>7

\* What getPBPools makes of the rows, whatever their columns.
LEMMA PoolsTaken ==
  ASSUME Connections, o.version \in Nat, GetPBPools
  PROVE  /\ \A p \in Pools :
              /\ \A k \in Counted : pools'[p][k[1]] = Cardinality(OfPool(InState(k[2], k[3]), p))
              /\ pools'[p]["maxwait"] = MaxOf(WaitsOf(OfPool(InState(Clients, "waiting"), p)))
<1> DEFINE at == Scan(PoolColumns, PoolFields(Len(PoolColumns)))
           row(p) == [f \in DOMAIN at |-> PoolCell(p, at[f])]
           Named == {"sv_active", "sv_idle", "sv_used", "cl_active", "cl_waiting", "maxwait",
                     "maxwait_us"}
<1>1. /\ at # <<>>
      /\ pools' = [p \in Pools |-> [row(p) EXCEPT !["maxwait"] = MaxWait(row(p))]]
  BY DEF GetPBPools
<1>2. PoolFields(Len(PoolColumns)) = PoolColumns
  BY <1>1, PoolFieldsAreColumns, NothingTaken
<1>3. ASSUME NEW f \in Named PROVE f \in DOMAIN at /\ at[f] = f
  <2>1. f \in ToSet(PoolColumns)
    BY PoolColumnsHave
  <2> QED BY <1>2, <2>1, TakenAt
<1> HIDE DEF at
<1>4. ASSUME NEW p \in Pools, NEW f \in Named PROVE row(p)[f] = PoolCell(p, f)
  BY <1>3
<1> SUFFICES ASSUME NEW p \in Pools
             PROVE  /\ \A k \in Counted :
                         pools'[p][k[1]] = Cardinality(OfPool(InState(k[2], k[3]), p))
                    /\ pools'[p]["maxwait"] = MaxOf(WaitsOf(OfPool(InState(Clients, "waiting"), p)))
  OBVIOUS
<1>5. /\ \A f \in Named \ {"maxwait"} : pools'[p][f] = row(p)[f]
      /\ pools'[p]["maxwait"] = MaxWait(row(p))
  <2>1. DOMAIN row(p) = DOMAIN at /\ \A f \in Named : f \in DOMAIN at
    BY <1>3
  <2> HIDE DEF row
  <2> QED BY <1>1, <2>1
<1> HIDE DEF row
<1>6. \A k \in Counted : pools'[p][k[1]] = Cardinality(OfPool(InState(k[2], k[3]), p))
  <2>1. ASSUME NEW f, NEW S, NEW s, <<f, S, s>> \in Counted
        PROVE  PoolCell(p, f) = Cardinality(OfPool(InState(S, s), p))
    BY <2>1 DEF Counted, PoolCell, OfPool
  <2>2. ASSUME NEW f, NEW S, NEW s, <<f, S, s>> \in Counted PROVE f \in Named \ {"maxwait"}
    BY <2>2 DEF Counted
  <2>3. \A k \in Counted : k = <<k[1], k[2], k[3]>>
    BY DEF Counted
  <2> SUFFICES ASSUME NEW k \in Counted
               PROVE  pools'[p][k[1]] = Cardinality(OfPool(InState(k[2], k[3]), p))
    OBVIOUS
  <2>4. /\ k[1] \in Named \ {"maxwait"}
        /\ PoolCell(p, k[1]) = Cardinality(OfPool(InState(k[2], k[3]), p))
    BY <2>1, <2>2, <2>3
  <2> QED BY <1>4, <1>5, <2>4
<1>7. pools'[p]["maxwait"] = MaxOf(WaitsOf(OfPool(InState(Clients, "waiting"), p)))
  <2> DEFINE C == OfPool(InState(Clients, "waiting"), p)
             longest == MaxOf(WaitsOf(C))
  <2>1. row(p)["maxwait"] = longest \div Sec /\ row(p)["maxwait_us"] = longest % Sec
    BY <1>4 DEF PoolCell, OfPool
  <2>2. longest \in Nat
    <3>1. C \subseteq There(Clients)
      BY DEF OfPool, InState
    <3>2. IsFiniteSet(WaitsOf(C)) /\ WaitsOf(C) \subseteq Nat
      BY <3>1, Finite
    <3> HIDE DEF C
    <3> QED BY <3>2, MaxIs DEF MaxOf
  <2> HIDE DEF longest
  <2>3. pools'[p]["maxwait"] = Sec * (longest \div Sec) + (longest % Sec)
    BY <1>5, <2>1 DEF MaxWait
  <2> QED BY <2>2, <2>3, DivMod, TimesAreTimes DEF longest
<1> QED BY <1>6, <1>7

\* What the figures are of: the connections, and what was taken of them.
LEMMA SameFigures ==
  ASSUME UNCHANGED conns
  PROVE  /\ UNCHANGED pools => (PoolFigures' <=> PoolFigures)
         /\ UNCHANGED sc => (ServerFigures' <=> ServerFigures)
         /\ UNCHANGED cc => (ClientFigures' <=> ClientFigures) /\ (WaitsBalance' <=> WaitsBalance)
         /\ Connections' <=> Connections
<1>1. /\ \A S, s : InState(S, s)' = InState(S, s)
      /\ \A S : WaitsOf(S)' = WaitsOf(S)
      /\ \A S, p : OfPool(S, p)' = OfPool(S, p)
  BY DEF InState, There, WaitsOf, OfPool
<1>2. UNCHANGED pools => (PoolFigures' <=> PoolFigures)
  BY <1>1 DEF PoolFigures
<1>3. UNCHANGED sc => (ServerFigures' <=> ServerFigures)
  BY <1>1 DEF ServerFigures
<1>4. UNCHANGED cc => (ClientFigures' <=> ClientFigures) /\ (WaitsBalance' <=> WaitsBalance)
  BY <1>1 DEF ClientFigures, WaitsBalance
<1> QED BY <1>2, <1>3, <1>4 DEF Connections

\* Which of what is left asks for servers and clients.
LEMMA StillToCome ==
  /\ \E i \in DOMAIN B2 : B2[i] = "getPBServers"
  /\ \E i \in DOMAIN B2 : B2[i] = "getPBClients"
  /\ \E i \in DOMAIN B3 : B3[i] = "getPBClients"
  /\ \A i \in DOMAIN B3 : B3[i] # "getPBServers"
  /\ \A l \in {CollectPgpool, P2, P3, P4, P5, B4, B5, Last6, <<>>} :
       \A i \in DOMAIN l : l[i] \notin {"getPBServers", "getPBClients"}
<1>1. /\ B2[1] = "getPBServers" /\ B2[2] = "getPBClients" /\ B3[1] = "getPBClients"
      /\ {1, 2} \subseteq DOMAIN B2 /\ 1 \in DOMAIN B3
  BY DEF B2, B3
<1>2. \A i \in DOMAIN B3 : B3[i] # "getPBServers"
  BY DEF B3
<1>3. \A l \in {CollectPgpool, P2, P3, P4, P5, B4, B5, Last6, <<>>} :
       \A i \in DOMAIN l : l[i] \notin {"getPBServers", "getPBClients"}
  BY DEF CollectPgpool, P2, P3, P4, P5, B4, B5, Last6
<1> QED BY <1>1, <1>2, <1>3

\* A step that takes nothing of the pools, the servers and the clients.
LEMMA NothingNew ==
  ASSUME BookInv, UNCHANGED <<o, conns, pools, sc, cc>>, quiet' => quiet,
         Took("getPBServers")' => Took("getPBServers"),
         Took("getPBClients")' => Took("getPBClients")
  PROVE  BookInv'
BY SameFigures DEF BookInv

LEMMA PoolsStep ==
  ASSUME OwnInv, BookInv, GetPBPools
  PROVE  BookInv'
<1>1. /\ UNCHANGED <<o, conns, sc, cc>> /\ todo' = Tail(todo)
      /\ exit = "none" /\ todo # <<>> /\ Head(todo) = "getPBPools"
  BY DEF GetPBPools, Goes, Doing, pooler
<1>2. todo' = B2
  BY <1>1, PlanSteps DEF OwnInv, AsksPgpool, AsksBouncer, AtTheEnd
<1>3. ~Took("getPBServers")' /\ ~Took("getPBClients")'
  BY <1>2, StillToCome DEF Took
<1>4. PoolFigures'
  <2>1. \A S, s, p : OfPool(InState(S, s), p)' = OfPool(InState(S, s), p)
    BY <1>1 DEF OfPool, InState, There
  <2>2. \A S : WaitsOf(S)' = WaitsOf(S)
    BY <1>1 DEF WaitsOf
  <2>3. o.version \in Nat
    BY DEF OwnInv, World
  <2> QED BY <2>1, <2>2, <2>3, PoolsTaken DEF BookInv, PoolFigures
<1> QED BY <1>1, <1>3, <1>4, SameFigures DEF BookInv

\* No connections, or no clients that wait.
LEMMA OfNone ==
  ASSUME NEW S, There(S) = {}
  PROVE  \A s : /\ InState(S, s) = {} /\ Cardinality(InState(S, s)) = 0
                /\ MaxOf(WaitsOf(InState(S, s))) = 0
<1> SUFFICES ASSUME NEW s
             PROVE  /\ InState(S, s) = {} /\ Cardinality(InState(S, s)) = 0
                    /\ MaxOf(WaitsOf(InState(S, s))) = 0
  OBVIOUS
<1>1. InState(S, s) = {}
  BY DEF InState
<1>2. WaitsOf({}) = {} /\ Cardinality({}) = 0 /\ MaxOf({}) = 0
  BY FS_EmptySet DEF WaitsOf, MaxOf
<1> QED BY <1>1, <1>2

LEMMA ServersStep ==
  ASSUME OwnInv, BookInv, GetPBServers
  PROVE  BookInv'
<1>1. /\ UNCHANGED <<o, conns, pools, cc, quiet>> /\ todo' = Tail(todo)
      /\ exit = "none" /\ todo # <<>> /\ Head(todo) = "getPBServers"
  BY DEF GetPBServers, Goes, Doing, pooler
<1>2. todo' = B3
  BY <1>1, PlanSteps DEF OwnInv, AsksPgpool, AsksBouncer, AtTheEnd
<1>3. ~Took("getPBClients")'
  BY <1>2, StillToCome DEF Took
<1>4. ServerFigures'
  <2>1. ASSUME NEW s \in {"active", "idle", "used"}
        PROVE  sc'.count[s] = Cardinality(InState(Servers, s))
    <3>1. CASE There(Servers) = {}
      BY <3>1, OfNone DEF GetPBServers, NoWaits, NoCount, States
    <3>2. CASE There(Servers) # {}
      <4> DEFINE v == Survey(There(Servers), There(Servers))
      <4>1. Supported /\ sc' = [v EXCEPT !.count["waiting"] = 0]
        BY <3>2 DEF GetPBServers
      <4>2. o.version \in Nat /\ Connections
        BY DEF OwnInv, World, BookInv
      <4>3. \A t \in States : v.count[t] = Cardinality(InState(Servers, t))
        BY <4>1, <4>2, SurveyIs
      <4>4. DOMAIN v.count = States /\ "count" \in DOMAIN v
        BY DEF Survey
      <4> HIDE DEF v
      <4>5. sc'.count[s] = v.count[s]
        BY <4>1, <4>4 DEF States
      <4> QED BY <4>3, <4>5 DEF States
    <3> QED BY <3>1, <3>2
  <2>2. \A s : InState(Servers, s)' = InState(Servers, s)
    BY <1>1 DEF InState, There
  <2> QED BY <2>1, <2>2 DEF ServerFigures
<1> QED BY <1>1, <1>3, <1>4, SameFigures DEF BookInv, Took

LEMMA ClientsStep ==
  ASSUME OwnInv, BookInv, GetPBClients
  PROVE  BookInv'
<1> DEFINE C == InState(Clients, "waiting")
<1>1. /\ UNCHANGED <<o, conns, pools, sc, quiet>> /\ todo' = Tail(todo)
      /\ exit = "none" /\ todo # <<>> /\ Head(todo) = "getPBClients"
  BY DEF GetPBClients, SetCC, Goes, Doing, pooler
<1>2. todo = B3 /\ todo' = B4
  BY <1>1, PlanSteps DEF OwnInv, AsksPgpool, AsksBouncer, AtTheEnd
<1>3. Took("getPBServers")' => Took("getPBServers")
  BY <1>1, <1>2, StillToCome DEF Took
<1>4. /\ \A s \in {"active", "waiting"} : cc'.count[s] = Cardinality(InState(Clients, s))
      /\ cc'.max = MaxOf(WaitsOf(C))
      /\ cc'.max <= cc'.total /\ cc'.total <= cc'.max * cc'.count["waiting"]
  <2>1. CASE There(Clients) = {}
    <3>1. cc' = NoWaits
      BY <2>1 DEF GetPBClients, SetCC
    <3> QED BY <2>1, <3>1, OfNone DEF NoWaits, NoCount, States
  <2>2. CASE There(Clients) # {}
    <3>1. Supported /\ cc' = Survey(There(Clients), C)
      BY <2>2 DEF GetPBClients, SetCC
    <3>2. o.version \in Nat /\ Connections /\ C \in SUBSET There(Clients)
      BY DEF OwnInv, World, BookInv, InState
    <3>3. /\ \A s \in States : cc'.count[s] = Cardinality(InState(Clients, s))
          /\ cc'.max = MaxOf(WaitsOf(C))
          /\ cc'.max <= cc'.total /\ cc'.total <= cc'.max * Cardinality(C)
      BY <3>1, <3>2, SurveyIs
    <3>4. cc'.count["waiting"] = Cardinality(C) /\ {"active", "waiting"} \subseteq States
      BY <3>3 DEF States
    <3> HIDE DEF C
    <3> QED BY <3>3, <3>4
  <2> QED BY <2>1, <2>2
<1>5. ClientFigures' /\ WaitsBalance'
  <2>1. \A s : InState(Clients, s)' = InState(Clients, s)
    BY <1>1 DEF InState, There
  <2>2. \A S : WaitsOf(S)' = WaitsOf(S)
    BY <1>1 DEF WaitsOf
  <2> HIDE DEF C
  <2>3. ClientFigures'
    BY <1>4, <2>1, <2>2 DEF ClientFigures, C
  <2>4. WaitsBalance'
    BY <1>4 DEF WaitsBalance
  <2> QED BY <2>3, <2>4
<1> QED BY <1>1, <1>3, <1>5, SameFigures DEF BookInv

LEMMA BookStep == OwnInv /\ BookInv /\ [Next]_vars => BookInv'
<1> SUFFICES ASSUME OwnInv, BookInv, [Next]_vars PROVE BookInv'
  OBVIOUS
<1>1. CASE GetPBPools
  BY <1>1, PoolsStep
<1>2. CASE GetPBServers
  BY <1>2, ServersStep
<1>3. CASE GetPBClients
  BY <1>3, ClientsStep
<1>4. CASE UNCHANGED vars \/ Dies
  <2>1. UNCHANGED <<o, conns, pools, sc, cc, quiet, todo>>
    BY <1>4 DEF vars, pooler, bouncer, Dies
  <2> QED BY <2>1, NothingNew DEF Took
<1>5. CASE \/ GetPBStats \/ GetPBDatabases \/ GetPPVersion \/ GetPPNodes \/ GetPPHCStats
           \/ GetPPBEStats \/ GetPPCache \/ Report
  <2>1. /\ UNCHANGED <<o, conns, pools, sc, cc, quiet>> /\ exit = "none" /\ todo # <<>>
        /\ todo' = <<>> \/ todo' = Tail(todo)
        /\ Head(todo) \in {"getPBStats", "getPBDatabases", "getPPVersion", "getPPNodes",
                           "getPPHCStats", "getPPBEStats", "getPPCache", "getTestQuery"}
    BY <1>5 DEF GetPBStats, GetPBDatabases, GetPPVersion, GetPPNodes, GetPPHCStats, GetPPBEStats,
                GetPPCache, Report, Doing, Goes, pooler, bouncer
  <2>2. todo \in {CollectPgpool, P2, P3, P4, P5, B4, B5, Last6, <<>>}
    BY <2>1, PlanSteps DEF OwnInv, AsksPgpool, AsksBouncer, AtTheEnd
  <2>3. \A i \in DOMAIN todo : todo[i] \notin {"getPBServers", "getPBClients"}
    BY <2>2, StillToCome
  <2>4. \A f \in {"getPBServers", "getPBClients"} : Took(f)' => Took(f)
    BY <2>1, <2>3 DEF Took
  <2> QED BY <2>1, <2>4, NothingNew
<1>6. CASE ConnChanges
  <2>1. /\ UNCHANGED <<o, pools, sc, cc>> /\ quiet' = FALSE
        /\ \E c \in Conns :
             \/ \E r \in Conn : conns' = [d \in DOMAIN conns \cup {c} |->
                                            IF d = c THEN r ELSE conns[d]]
             \/ conns' = [d \in DOMAIN conns \ {c} |-> conns[d]]
    BY <1>6 DEF ConnChanges, Alter, bouncer
  <2>2. Connections'
    <3>1. Connections
      BY DEF BookInv
    <3> PICK c \in Conns :
             \/ \E r \in Conn : conns' = [d \in DOMAIN conns \cup {c} |->
                                            IF d = c THEN r ELSE conns[d]]
             \/ conns' = [d \in DOMAIN conns \ {c} |-> conns[d]]
      BY <2>1
    <3>2. CASE conns' = [d \in DOMAIN conns \ {c} |-> conns[d]]
      BY <3>1, <3>2 DEF Connections
    <3>3. CASE \E r \in Conn : conns' = [d \in DOMAIN conns \cup {c} |->
                                           IF d = c THEN r ELSE conns[d]]
      BY <3>1, <3>3 DEF Connections
    <3> QED BY <3>2, <3>3
  <2> QED BY <2>1, <2>2 DEF BookInv, WaitsBalance
<1>7. CASE NodeChanges
  <2>1. UNCHANGED <<o, conns, pools, sc, cc>> /\ quiet' = FALSE
    BY <1>7 DEF NodeChanges, Alter, bouncer
  <2> QED BY <2>1 DEF BookInv, WaitsBalance, Connections
<1> QED BY <1>1, <1>2, <1>3, <1>4, <1>5, <1>6, <1>7 DEF Next

LEMMA BookInit == Init => BookInv
<1> SUFFICES ASSUME Init PROVE BookInv
  OBVIOUS
<1>1. o \in World /\ pools = <<>> /\ cc = NoWaits
  BY WorldsAreWorlds DEF Init
<1>2. Connections
  <2>1. conns \in UNION {[S -> Conn] : S \in SUBSET Conns} \/ conns = <<>>
    BY DEF Init
  <2>2. \A c \in DOMAIN <<>> : FALSE
    OBVIOUS
  <2> QED BY <2>1, <2>2 DEF Connections
<1>3. WaitsBalance
  BY <1>1 DEF NoWaits, NoCount, States, WaitsBalance
<1> QED BY <1>1, <1>2, <1>3 DEF BookInv, Took

\* A column of SHOW POOLS, over the pools.
LEMMA TotalOf ==
  ASSUME Connections, PoolFigures, NEW f, NEW S, NEW s, <<f, S, s>> \in Counted
  PROVE  Total(f) = Cardinality(InState(S, s))
<1> DEFINE C == InState(S, s)
           h == [p \in Pools |-> Cardinality(OfPool(C, p))]
           part == [c \in C |-> conns[c].pool]
<1>1. S \in {Servers, Clients} /\ C \subseteq There(S)
  BY DEF Counted, InState
<1>2. IsFiniteSet(C) /\ \A p : IsFiniteSet(OfPool(C, p)) /\ Cardinality(OfPool(C, p)) \in Nat
  <2>1. \A p : OfPool(C, p) \subseteq C
    BY DEF OfPool
  <2> HIDE DEF C
  <2>2. \A p : OfPool(C, p) \in SUBSET There(S)
    BY <1>1, <2>1
  <2> QED BY <1>1, <2>2, Finite
<1>3. \A c \in C : conns[c].pool \in Pools
  BY <1>1, Finite DEF Connections, Conn
<1>4. part \in [C -> Pools] /\ h \in [Pools -> Nat]
  BY <1>2, <1>3
<1>5. \A p \in Pools : pools[p][f] = h[p]
  <2>1. \A p \in Pools : pools[p][<<f, S, s>>[1]] =
                           Cardinality(OfPool(InState(<<f, S, s>>[2], <<f, S, s>>[3]), p))
    BY DEF PoolFigures
  <2> QED BY <2>1
<1>6. \A p \in Pools : h[p] = Cardinality({c \in C : part[c] = p})
  <2>1. \A p \in Pools : {c \in C : part[c] = p} = OfPool(C, p)
    BY DEF OfPool
  <2> QED BY <2>1
<1> HIDE DEF C, h, part
<1>7. PICK g : IsSum(g, h, Pools) /\ Total(f) = g[Pools]
  BY <1>4, <1>5, TotalIs
<1>8. g[Pools] = Cardinality(C)
  BY <1>2, <1>4, <1>6, <1>7, SumOfParts, FinitelyMany
<1> QED BY <1>7, <1>8 DEF C

\* The longest of the longest waits of the pools.
LEMMA LongestOf ==
  ASSUME Connections, PoolFigures
  PROVE  MaxOf({pools[p]["maxwait"] : p \in Pools}) = MaxOf(WaitsOf(InState(Clients, "waiting")))
<1> DEFINE C == InState(Clients, "waiting")
           L == {pools[p]["maxwait"] : p \in Pools}
           of(p) == WaitsOf(OfPool(C, p))
<1>1. C \in SUBSET There(Clients) /\ \A p : OfPool(C, p) \in SUBSET There(Clients)
  BY DEF InState, OfPool
<1>2. \A p \in Pools : pools[p]["maxwait"] = MaxOf(of(p))
  BY DEF PoolFigures
<1>3. /\ IsFiniteSet(WaitsOf(C)) /\ WaitsOf(C) \subseteq Nat
      /\ \A p : IsFiniteSet(of(p)) /\ of(p) \subseteq Nat
  <2> HIDE DEF C
  <2> QED BY <1>1, Finite
<1>4. \A p : of(p) \subseteq WaitsOf(C)
  BY DEF WaitsOf, OfPool
<1>5. \A w \in WaitsOf(C) : \E p \in Pools : w \in of(p)
  <2> SUFFICES ASSUME NEW c \in C PROVE \E p \in Pools : conns[c].wait \in of(p)
    BY DEF WaitsOf
  <2>1. conns[c].pool \in Pools
    BY <1>1, Finite DEF Connections, Conn
  <2>2. conns[c].wait \in of(conns[c].pool)
    BY DEF WaitsOf, OfPool
  <2> HIDE DEF of
  <2> QED BY <2>1, <2>2
<1> HIDE DEF C, of
<1>6. \A p \in Pools : /\ MaxOf(of(p)) \in Nat /\ \A w \in of(p) : w <= MaxOf(of(p))
                       /\ MaxOf(of(p)) \in WaitsOf(C) \/ MaxOf(of(p)) = 0
  <2> SUFFICES ASSUME NEW p \in Pools
               PROVE  /\ MaxOf(of(p)) \in Nat /\ \A w \in of(p) : w <= MaxOf(of(p))
                      /\ MaxOf(of(p)) \in WaitsOf(C) \/ MaxOf(of(p)) = 0
    OBVIOUS
  <2>1. CASE of(p) = {}
    BY <2>1 DEF MaxOf
  <2>2. CASE of(p) # {}
    <3>1. MaxOf(of(p)) \in of(p) /\ \A y \in of(p) : y <= MaxOf(of(p))
      BY <1>3, <2>2, MaxIs
    <3> QED BY <1>3, <1>4, <3>1
  <2> QED BY <2>1, <2>2
<1>7. IsFiniteSet(L) /\ L \subseteq Nat
  <2> DEFINE h == [p \in Pools |-> pools[p]["maxwait"]]
  <2>1. {h[p] : p \in Pools} = L /\ DOMAIN h = Pools /\ h = [p \in Pools |-> h[p]]
    OBVIOUS
  <2>2. L \subseteq Nat
    BY <1>2, <1>6
  <2> HIDE DEF h
  <2> QED BY <2>1, <2>2, ImageIsFinite, FinitelyMany
<1>8. CASE L = {}
  <2>1. Pools = {} /\ WaitsOf(C) = {}
    BY <1>5, <1>8
  <2> QED BY <1>8, <2>1 DEF C
<1>9. CASE L # {}
  <2>1. MaxOf(L) \in L /\ \A y \in L : y <= MaxOf(L)
    BY <1>7, <1>9, MaxIs
  <2>2. PICK p \in Pools : MaxOf(L) = MaxOf(of(p))
    BY <1>2, <2>1
  <2> HIDE DEF L
  <2>3. \A w \in WaitsOf(C) : w <= MaxOf(L)
    <3> SUFFICES ASSUME NEW w \in WaitsOf(C) PROVE w <= MaxOf(L)
      OBVIOUS
    <3>1. PICK q \in Pools : w \in of(q)
      BY <1>5
    <3>2. w <= MaxOf(of(q)) /\ MaxOf(of(q)) \in L
      BY <1>2, <1>6, <3>1 DEF L
    <3>3. w \in Nat /\ MaxOf(of(q)) \in Nat /\ MaxOf(L) \in Nat /\ MaxOf(of(q)) <= MaxOf(L)
      BY <1>3, <1>7, <2>1, <3>2
    <3> QED BY <3>2, <3>3
  <2>4. CASE WaitsOf(C) = {}
    <3>1. MaxOf(L) = 0 /\ MaxOf(WaitsOf(C)) = 0
      BY <1>6, <2>2, <2>4 DEF MaxOf
    <3> QED BY <3>1 DEF C, L
  <2>5. CASE WaitsOf(C) # {}
    <3>1. MaxOf(WaitsOf(C)) \in WaitsOf(C) /\ \A y \in WaitsOf(C) : y <= MaxOf(WaitsOf(C))
      BY <1>3, <2>5, MaxIs
    <3>2. MaxOf(L) <= MaxOf(WaitsOf(C))
      BY <1>3, <1>6, <2>2, <3>1
    <3>3. MaxOf(WaitsOf(C)) <= MaxOf(L)
      BY <2>3, <3>1
    <3>4. MaxOf(L) \in Nat /\ MaxOf(WaitsOf(C)) \in Nat
      BY <1>3, <1>7, <2>1, <3>1
    <3>5. MaxOf(L) = MaxOf(WaitsOf(C))
      BY <3>2, <3>3, <3>4
    <3> QED BY <3>5 DEF C, L
  <2> QED BY <2>4, <2>5
<1> QED BY <1>8, <1>9

\* If nothing changed since SHOW POOLS, the totals over the pools are the numbers of
\* servers and of clients, and the longest wait is that of the clients; and however
\* they change, the longest wait of the clients, their sum and their number agree.
THEOREM TheBooksBalance == Spec => []BooksBalance
<1>1. BookInv => BooksBalance
  <2> SUFFICES ASSUME BookInv PROVE BooksBalance
    OBVIOUS
  <2>1. ASSUME quiet, Took("getPBServers")
        PROVE  /\ Total("sv_active") = sc.count["active"]
               /\ Total("sv_idle") = sc.count["idle"]
               /\ Total("sv_used") = sc.count["used"]
    <3>1. Connections /\ PoolFigures /\ ServerFigures
      BY <2>1 DEF BookInv, Took
    <3>2. /\ Total("sv_active") = Cardinality(InState(Servers, "active"))
          /\ Total("sv_idle") = Cardinality(InState(Servers, "idle"))
          /\ Total("sv_used") = Cardinality(InState(Servers, "used"))
      BY <3>1, TotalOf DEF Counted
    <3> QED BY <3>1, <3>2 DEF ServerFigures
  <2>2. ASSUME quiet, Took("getPBClients")
        PROVE  /\ Total("cl_active") = cc.count["active"]
               /\ Total("cl_waiting") = cc.count["waiting"]
               /\ MaxOf({pools[p]["maxwait"] : p \in Pools}) = cc.max
    <3>1. Connections /\ PoolFigures /\ ClientFigures
      BY <2>2 DEF BookInv, Took
    <3>2. /\ Total("cl_active") = Cardinality(InState(Clients, "active"))
          /\ Total("cl_waiting") = Cardinality(InState(Clients, "waiting"))
      BY <3>1, TotalOf DEF Counted
    <3> QED BY <3>1, <3>2, LongestOf DEF ClientFigures
  <2> QED BY <2>1, <2>2 DEF BooksBalance, BookInv, WaitsBalance
<1> QED BY <1>1, BookInit, BookStep, OwnCorrect, PTL DEF Spec
=============================================================================
