------------------------------ MODULE MCCollect ------------------------------
(***************************************************************************)
(* Three databases' worth of names: two that lead to one database, one     *)
(* that leads to another, and the PgBouncer console. Servers before 9.5,   *)
(* and of 17: every gate of the plans is closed for one, open for another. *)
(***************************************************************************)
EXTENDS Collect

CONSTANTS a, b, c, A, B, h, k

Lands == {[n \in Names \cup {NoName} |->
             CASE n = PgBouncer -> Console [] n = c -> B
               [] n = NoName -> d [] OTHER -> A] : d \in {A, Console}}

Lists == {<<>>, <<a>>, <<PgBouncer>>, <<a, b>>, <<a, c, b>>, <<c, PgBouncer>>}

Everywhere(S) == {[x \in Hosts |-> v] : v \in S}

\* A server that is replaced by another one, of a later version and here.
Before == [x \in Hosts |-> IF x = h THEN 90400 ELSE 170000]
Beside == [x \in Hosts |-> x # h]

Base == [args : Lists, conninfo : BOOLEAN, all : BOOLEAN, pgpool : BOOLEAN,
         role : BOOLEAN, sizes : {TRUE}, omit : {{}, {"log", "tables", "citus"}},
         rds : BOOLEAN, azure : {TRUE}, hosts : {{h}, {h, k}},
         version : Everywhere({90400, 170000}) \cup {Before},
         local : Everywhere(BOOLEAN) \cup {Beside},
         standby : Everywhere(BOOLEAN) \cup {Beside}, isPgpool : BOOLEAN,
         userDBs : {<<>>, <<c, a>>}, lands : Lands]

\* The options matter one at a time: a world differs from a plain one in at
\* most two of them.
Plain(w) ==
  {x \in {"all", "pgpool", "role", "rds", "conninfo"} : w[x]}
    \cup {x \in {"standby"} : \E y \in w.hosts : w.standby[y]}
    \cup {x \in {"hosts"} : w.hosts = Hosts}

MCWorlds ==
  {w \in Base : /\ w.conninfo => Len(w.args) = 1
                /\ w.all \/ w.userDBs = <<>>
                /\ w.pgpool <=> w.isPgpool
                /\ Cardinality(Plain(w)) <= 2
                /\ \A x \in Hosts : w.local[x] <=> w.version[x] = 170000
                /\ w.version = Before <=> w.hosts = Hosts
                /\ w.standby = Beside => w.hosts = Hosts
                /\ w.hosts = Hosts => w.args \in {<<a>>, <<a, c, b>>} /\ w.omit = {}}
=============================================================================
