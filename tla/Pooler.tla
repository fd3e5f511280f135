-------------------------------- MODULE Pooler --------------------------------
(***************************************************************************)
(* What collectPgBouncer and collectPgpool make of the tables that the     *)
(* poolers show.  The tables come one after the other, and the poolers     *)
(* work on in between.  Their columns are told apart by their number       *)
(* alone, and are taken by position.                                       *)
(*                                                                         *)
(* A field of the report goes by the name of the column it is for: that is *)
(* its JSON tag, but for db_name, and avg_recv is called avg_received.         *)
(***************************************************************************)
EXTENDS Integers, Sequences, FiniteSets, FiniteSetsExt, SequencesExt

CONSTANTS
  Clients, Servers, \* PgBouncer's connections
  Pools,            \* and its pools
  Nodes,            \* Pgpool's backends
  NoNode,
  Sec,              \* microseconds in a second
  Waits,            \* for how many microseconds a connection can have waited
  Worlds            \* the poolers to collect from

\* Versions 1.15 to 1.23 are 15 to 23, later ones have columns that this program
\* does not know; 4.0 to 4.5 are 40 to 45. changes is a bound: how often a
\* connection or a backend changes, comes or goes during a run.
World == [mode : {"pgbouncer", "pgpool"}, version : Nat, changes : Nat]

ASSUME TimesAreTimes == Sec \in Nat \ {0} /\ Waits \subseteq Nat
ASSUME WorldsAreWorlds == Worlds \subseteq World
ASSUME NoNodeIsNone == NoNode \notin Nodes
ASSUME FinitelyMany == IsFiniteSet(Clients) /\ IsFiniteSet(Servers) /\ IsFiniteSet(Pools)

States == {"active", "waiting", "idle", "used"}
Conn   == [pool : Pools, state : States, wait : Waits]
Conns  == Clients \cup Servers

VARIABLES
  o,          \* the pooler; never changes
  conns,      \* the connections there are, of PgBouncer
  nodes,      \* the backends there are, of Pgpool
  changed,    \* how often one of these changed
  todo,       \* the functions still to be called
  pools,      \* c.result.PgBouncer.Pools: per pool, the values of its fields
  stats,      \* ... .Stats: of each row's fields, the columns they were taken from
  databases,  \* ... .Databases, likewise
  sc, cc,     \* ... .SC*, .CC*: how many connections, and their waits
  backends,   \* c.result.Pgpool.Backends
  exit,       \* "none", "fatal" or "report"
  quiet,      \* history: nothing changed since SHOW POOLS
  steady      \* history: the backends that are there all the time

pooler  == <<o, conns, nodes, changed>>
bouncer == <<pools, stats, databases, sc, cc>>
vars    == <<pooler, todo, bouncer, backends, exit, quiet, steady>>

NoCount == [s \in States |-> 0]

NoWaits == [count |-> NoCount, max |-> 0, total |-> 0]

CollectPgBouncer ==
  <<"getPBPools", "getPBServers", "getPBClients", "getPBStats", "getPBDatabases", "getTestQuery">>
CollectPgpool ==
  <<"getPPVersion", "getPPNodes", "getPPHCStats", "getPPBEStats", "getPPCache", "getTestQuery">>

\* What the poolers show at first is any state they can be in.
Init ==
  /\ o \in Worlds
  /\ conns \in IF o.mode = "pgbouncer" THEN UNION {[S -> Conn] : S \in SUBSET Conns}
               ELSE {<<>>}
  /\ nodes \in IF o.mode = "pgpool" THEN SUBSET Nodes ELSE {{}}
  /\ changed = 0
  /\ todo = IF o.mode = "pgbouncer" THEN CollectPgBouncer ELSE CollectPgpool
  /\ pools = <<>> /\ stats = <<>> /\ databases = <<>>
  /\ sc = NoWaits /\ cc = NoWaits /\ backends = <<>>
  /\ exit = "none" /\ quiet = TRUE /\ steady = nodes

-----------------------------------------------------------------------------
(***************************************************************************)
(* The tables: columns, and the fields that Scan puts them into.           *)
(***************************************************************************)
When(c, s) == IF c THEN s ELSE <<>>
Unknown(known) == When(o.version > known /\ o.mode = "pgbouncer", <<"unknown">>)

\* External: the columns of SHOW POOLS, SHOW SERVERS and SHOW CLIENTS up to the
\* last one of interest, SHOW STATS and SHOW DATABASES.
PoolColumns ==
  <<"database", "user", "cl_active", "cl_waiting">>
    \o When(o.version \in {16, 17}, <<"cl_cancel_req">>)
    \o When(o.version >= 18, <<"cl_active_cancel_req", "cl_waiting_cancel_req">>)
    \o <<"sv_active">>
    \o When(o.version >= 18, <<"sv_active_cancel", "sv_being_canceled">>)
    \o <<"sv_idle", "sv_used", "sv_tested", "sv_login", "maxwait", "maxwait_us", "pool_mode">>
    \o Unknown(23)

ConnColumns ==
  <<"type", "user", "database">> \o When(o.version >= 23, <<"replication">>)
    \o <<"state", "addr", "port", "local_addr", "local_port", "connect_time",
         "request_time", "wait", "wait_us", "close_needed", "ptr", "link",
         "remote_pid", "tls">>
    \o When(o.version >= 18, <<"application_name">>)
    \o When(o.version >= 21, <<"prepared_statements">>) \o Unknown(23)

Totals   == <<"total_xact_count", "total_query_count", "total_received", "total_sent",
              "total_xact_time", "total_query_time", "total_wait_time">>
Averages == <<"avg_xact_count", "avg_query_count", "avg_received", "avg_sent",
              "avg_xact_time", "avg_query_time", "avg_wait_time">>

StatColumns ==
  <<"database">> \o When(o.version >= 23, <<"total_server_assignment_count">>) \o Totals
    \o When(o.version >= 23, <<"avg_server_assignment_count">>) \o Averages \o Unknown(23)

DatabaseColumns ==
  <<"name", "host", "port", "database", "force_user", "pool_size">>
    \o When(o.version >= 16, <<"min_pool_size">>) \o <<"reserve_pool">>
    \o When(o.version >= 23, <<"server_lifetime">>)
    \o <<"pool_mode", "max_connections", "current_connections", "paused", "disabled">>
    \o Unknown(23)

Skip(k) == [i \in 1..k |-> "-"]

\* The fields by number of columns; no field for any other number.
PoolFields(n) ==
  IF n \notin {12, 13, 16} THEN <<>> ELSE
  <<"database", "user", "cl_active", "cl_waiting">>
    \o When(n = 13, <<"cl_cancel_req">>)
    \o When(n = 16, <<"cl_active_cancel_req", "cl_waiting_cancel_req">>)
    \o <<"sv_active">> \o When(n = 16, <<"sv_active_cancel", "sv_being_canceled">>)
    \o <<"sv_idle", "sv_used", "sv_tested", "sv_login", "maxwait", "maxwait_us", "pool_mode">>

ConnFields(n) ==
  IF n \notin 16..20 THEN <<>> ELSE
  LET before == IF n = 20 THEN 4 ELSE 3
  IN  Skip(before) \o <<"state">> \o Skip(6) \o <<"wait", "wait_us">> \o Skip(n - before - 9)

\* Mutant: the columns of 1.23 are looked for at the end.
StatFieldsAppended(n) ==
  IF n \notin {15, 17} THEN <<>> ELSE
  <<"database">> \o Totals \o Averages
    \o When(n = 17, <<"total_server_assignment_count", "avg_server_assignment_count">>)

StatFields(n) ==
  IF n \notin {15, 17} THEN <<>> ELSE
  <<"database">> \o When(n = 17, <<"total_server_assignment_count">>) \o Totals \o Averages
    \o When(n = 17, <<"avg_server_assignment_count">>)

DatabaseFields(n) ==
  IF n \notin 12..14 THEN <<>> ELSE
  <<"name", "host", "port", "database", "force_user">> \o Skip(n - 9)
    \o <<"max_connections", "current_connections", "paused", "disabled">>

\* rows.Scan: for each field, the column at its position.
Scan(columns, fields) ==
  [f \in ToSet(fields) \ {"-"} |-> columns[CHOOSE i \in DOMAIN fields : fields[i] = f]]

Doing(f) == exit = "none" /\ todo # <<>> /\ Head(todo) = f
Goes == todo' = Tail(todo) /\ UNCHANGED <<pooler, exit>>

-----------------------------------------------------------------------------
(***************************************************************************)
(* PgBouncer.                                                              *)
(***************************************************************************)
There(S) == S \cap DOMAIN conns
InState(S, s) == {c \in There(S) : conns[c].state = s}

MaxOf(S) == IF S = {} THEN 0 ELSE Max(S)
WaitsOf(S) == {conns[c].wait : c \in S}

\* External: the cells of SHOW POOLS that are looked at here.
PoolCell(p, column) ==
  LET ofPool(S) == {c \in S : conns[c].pool = p}
      n(S, s)   == Cardinality(ofPool(InState(S, s)))
      longest   == MaxOf(WaitsOf(ofPool(InState(Clients, "waiting"))))
  IN  CASE column = "cl_active"  -> n(Clients, "active")
        [] column = "cl_waiting" -> n(Clients, "waiting")
        [] column = "sv_active"  -> n(Servers, "active")
        [] column = "sv_idle"    -> n(Servers, "idle")
        [] column = "sv_used"    -> n(Servers, "used")
        [] column = "maxwait"    -> longest \div Sec
        [] column = "maxwait_us" -> longest % Sec
        [] OTHER                 -> 0

\* External: those of SHOW SERVERS and SHOW CLIENTS.
ConnCell(c, column) == CASE column = "state"   -> conns[c].state
                         [] column = "wait"    -> conns[c].wait \div Sec
                         [] column = "wait_us" -> conns[c].wait % Sec

\* pool.MaxWait += maxWaitUs / 1e6, in microseconds. Mutant: without these.
MaxWaitInSeconds(row) == Sec * row["maxwait"]
MaxWait(row) == Sec * row["maxwait"] + row["maxwait_us"]

GetPBPools ==
  /\ Doing("getPBPools")
  /\ LET at  == Scan(PoolColumns, PoolFields(Len(PoolColumns)))
         row == [p \in Pools |-> [f \in DOMAIN at |-> PoolCell(p, at[f])]]
     IN  /\ at # <<>>
         /\ pools' = [p \in Pools |-> [row[p] EXCEPT !["maxwait"] = MaxWait(row[p])]]
  /\ quiet' = TRUE
  /\ Goes /\ UNCHANGED <<stats, databases, sc, cc, backends, steady>>

\* How many of S are in each state, and the waits of counted: the longest, the sum.
Survey(S, counted) ==
  LET at == Scan(ConnColumns, ConnFields(Len(ConnColumns)))
      wait(c) == Sec * ConnCell(c, at["wait"]) + ConnCell(c, at["wait_us"])
  IN  [count |-> [s \in States |-> Cardinality({c \in S : ConnCell(c, at["state"]) = s})],
       max   |-> MaxOf({wait(c) : c \in counted}),
       total |-> MapThenSumSet(wait, counted)]

Supported == ConnFields(Len(ConnColumns)) # <<>>

\* The states of servers are counted but for "waiting"; all wait.
GetPBServers ==
  /\ Doing("getPBServers")
  /\ There(Servers) # {} => Supported
  /\ sc' = IF There(Servers) = {} THEN NoWaits
           ELSE [Survey(There(Servers), There(Servers)) EXCEPT !.count["waiting"] = 0]
  /\ Goes /\ UNCHANGED <<pools, stats, databases, cc, backends, quiet, steady>>

SetCC(counted) ==
  /\ Doing("getPBClients")
  /\ There(Clients) # {} => Supported
  /\ cc' = IF There(Clients) = {} THEN NoWaits ELSE Survey(There(Clients), counted)
  /\ Goes /\ UNCHANGED <<pools, stats, databases, sc, backends, quiet, steady>>

\* Mutant: the waits of all clients are taken, as those of all servers are.
GetPBClientsAll == SetCC(There(Clients))

\* Of clients, only those that wait have a wait. CCAvgWait is total over the
\* number of these, and 0 if there is none.
GetPBClients == SetCC(InState(Clients, "waiting"))

Times == {"total_xact_time", "total_query_time", "total_wait_time",
          "avg_xact_time", "avg_query_time", "avg_wait_time"}

\* All rows of the table alike; the six times are converted to seconds.
GetPBStats ==
  /\ Doing("getPBStats")
  /\ LET at == Scan(StatColumns, StatFields(Len(StatColumns)))
     IN  /\ at # <<>>
         /\ stats' = [f \in DOMAIN at |-> [column |-> at[f], seconds |-> f \in Times]]
  /\ Goes /\ UNCHANGED <<pools, databases, sc, cc, backends, quiet, steady>>

GetPBDatabases ==
  /\ Doing("getPBDatabases")
  /\ databases' = Scan(DatabaseColumns, DatabaseFields(Len(DatabaseColumns)))
  /\ databases' # <<>>
  /\ Goes /\ UNCHANGED <<pools, stats, sc, cc, backends, quiet, steady>>

-----------------------------------------------------------------------------
(***************************************************************************)
(* Pgpool.                                                                 *)
(***************************************************************************)
\* External: SHOW POOL_NODES, _HEALTH_CHECK_STATS, _BACKEND_STATS and _CACHE.
NodeColumns == CASE o.version <= 40 -> 10 [] o.version \in {41, 42} -> 12
                 [] o.version \in 43..45 -> 14 [] OTHER -> 15
HCColumns   == IF o.version <= 45 THEN 20 ELSE 21
BEColumns   == IF o.version <= 45 THEN 14 ELSE 15

\* A version that is semantic; it is kept for the report, too.
GetPPVersion ==
  /\ Doing("getPPVersion")
  /\ Goes /\ UNCHANGED <<bouncer, backends, quiet, steady>>

\* One backend per row; health and traffic are still those of no node.
GetPPNodes ==
  /\ Doing("getPPNodes")
  /\ nodes # {} => NodeColumns \in {10, 12, 14}
  /\ backends' = [i \in 1..Cardinality(nodes) |->
                    [id |-> SetToSeq(nodes)[i], health |-> NoNode, traffic |-> NoNode]]
  /\ steady' = nodes
  /\ Goes /\ UNCHANGED <<bouncer, quiet>>

\* Mutant: the rows belong to the backends in the order of both.
FoundAt(i) == IF i <= Cardinality(nodes) THEN SetToSeq(nodes)[i] ELSE NoNode

\* The row with the node ID of a backend.
Found(i) == IF backends[i].id \in nodes THEN backends[i].id ELSE NoNode

\* Neither table is asked for before 4.2; their columns are counted even if there
\* are no rows.
GetPPHCStats ==
  /\ Doing("getPPHCStats")
  /\ IF o.version < 42 THEN UNCHANGED backends
     ELSE /\ HCColumns = 20
          /\ backends' = [i \in DOMAIN backends |-> [backends[i] EXCEPT !.health = Found(i)]]
  /\ Goes /\ UNCHANGED <<bouncer, quiet, steady>>

GetPPBEStats ==
  /\ Doing("getPPBEStats")
  /\ IF o.version < 42 THEN UNCHANGED backends
     ELSE /\ BEColumns = 14
          /\ backends' = [i \in DOMAIN backends |-> [backends[i] EXCEPT !.traffic = Found(i)]]
  /\ Goes /\ UNCHANGED <<bouncer, quiet, steady>>

GetPPCache ==
  /\ Doing("getPPCache")
  /\ Goes /\ UNCHANGED <<bouncer, backends, quiet, steady>>

-----------------------------------------------------------------------------
\* log.Fatalf: an error of any of these, a value that cannot be scanned, a number
\* of columns that is not known.
Dies ==
  /\ exit = "none" /\ todo # <<>> /\ Head(todo) # "getTestQuery"
  /\ exit' = "fatal"
  /\ UNCHANGED <<pooler, todo, bouncer, backends, quiet, steady>>

\* getTestQuery tolerates all failures, and reports nothing of the pooler.
Report ==
  /\ Doing("getTestQuery")
  /\ exit' = "report" /\ todo' = <<>>
  /\ UNCHANGED <<pooler, bouncer, backends, quiet, steady>>

\* External: connections and backends change, come and go between the queries.
Alter == /\ exit = "none" /\ changed < o.changes
         /\ changed' = changed + 1 /\ quiet' = FALSE
         /\ UNCHANGED <<o, todo, bouncer, backends, exit>>

ConnChanges ==
  /\ o.mode = "pgbouncer" /\ Alter
  /\ \E c \in Conns :
       \/ \E r \in Conn : conns' = [d \in DOMAIN conns \cup {c} |->
                                      IF d = c THEN r ELSE conns[d]]
       \/ conns' = [d \in DOMAIN conns \ {c} |-> conns[d]]
  /\ UNCHANGED <<nodes, steady>>

NodeChanges ==
  /\ o.mode = "pgpool" /\ Alter
  /\ \E n \in Nodes : nodes' = IF n \in nodes THEN nodes \ {n} ELSE nodes \cup {n}
  /\ steady' = steady \cap nodes'
  /\ UNCHANGED conns

Next == \/ GetPBPools \/ GetPBServers \/ GetPBClients \/ GetPBStats \/ GetPBDatabases
        \/ GetPPVersion \/ GetPPNodes \/ GetPPHCStats \/ GetPPBEStats \/ GetPPCache
        \/ Dies \/ Report \/ ConnChanges \/ NodeChanges

Spec == Init /\ [][Next]_vars

-----------------------------------------------------------------------------
(***************************************************************************)
(* Properties.                                                             *)
(***************************************************************************)
Took(f) == pools # <<>> /\ \A i \in DOMAIN todo : todo[i] # f
Total(f) == MapThenSumSet(LAMBDA p : pools[p][f], Pools)

\* Three tables tell of the same connections in their own ways: SHOW POOLS counts
\* and measures by pool, in seconds and microseconds; SHOW SERVERS and SHOW CLIENTS
\* show each.  If nothing changed in between, the figures of the report agree,
\* whatever the version and its columns.  Even if something did, CCMaxWait and CCAvgWait
\* are those of the clients counted as waiting: the average is no more than the
\* maximum, nor is the maximum more than the sum.
BooksBalance ==
  /\ cc.max <= cc.total /\ cc.total <= cc.max * cc.count["waiting"]
  /\ quiet /\ Took("getPBServers") =>
       /\ Total("sv_active") = sc.count["active"]
       /\ Total("sv_idle") = sc.count["idle"]
       /\ Total("sv_used") = sc.count["used"]
  /\ quiet /\ Took("getPBClients") =>
       /\ Total("cl_active") = cc.count["active"]
       /\ Total("cl_waiting") = cc.count["waiting"]
       /\ MaxOf({pools[p]["maxwait"] : p \in Pools}) = cc.max

\* Health and traffic of a backend are those of its own node, however the set of
\* nodes changes between the tables; from 4.2 on, none that stays lacks them.
BackendsOwnStats ==
  /\ \A i \in DOMAIN backends :
       LET b == backends[i] IN {b.health, b.traffic} \subseteq {b.id, NoNode}
  /\ exit = "report" =>
       \A i \in DOMAIN backends :
         LET b == backends[i] IN
         b.id \in steady /\ o.version >= 42 => b.health = b.id /\ b.traffic = b.id

Shifted == ToSet(Averages) \cup {"avg_server_assignment_count"}
Right(row, f) == row[f].column = f /\ row[f].seconds = (f \in Times)

\* A column that is scanned into the field of another is a wrong number that
\* nothing notices.  The databases' fields have their own columns in all versions; so
\* have the statistics, but for the averages of 1.23: that of the server assignments
\* has the last column, avg_wait_time, and each of the others the column before its
\* own, although the comment on getPBStats has their order.  A table of an unknown
\* version is not guessed at.
FieldsAsNamed ==
  /\ \A f \in DOMAIN databases : databases[f] = f
  /\ \A f \in DOMAIN stats : Right(stats, f) <=> o.version < 23 \/ f \notin Shifted
  /\ o.mode = "pgbouncer" /\ o.version > 23 => stats = <<>> /\ databases = <<>>
=============================================================================
