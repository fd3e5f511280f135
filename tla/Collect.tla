------------------------------- MODULE Collect -------------------------------
(***************************************************************************)
(* One run of pgmetrics (collector/collect.go, Collect): find out what to  *)
(* connect to, collect the cluster from the first database and database    *)
(* statistics from each, then read logs and ask the cloud, and publish the *)
(* report.                                                                 *)
(*                                                                         *)
(* Each database is a sql.DB that keeps at most one connection.  It may    *)
(* replace that connection: a query whose context expires closes it, and a *)
(* server may close it; the next query opens another one with the same     *)
(* connection string, and nothing but that.  A connection string may lead  *)
(* to several servers: it may list hosts, and a name may move to another   *)
(* one when a standby takes over.                                          *)
(*                                                                         *)
(* log.Fatalf ends the run without a report.                               *)
(***************************************************************************)
EXTENDS Queries, FiniteSets, SequencesExt

CONSTANTS
  Names,         \* the database names that can be given or listed
  NoName,        \* connecting without a dbname keyword
  PgBouncer,     \* the name "pgbouncer"
  Databases,     \* what current_database() can return
  Console,       \* the PgBouncer administration console
  Hosts,         \* the machines that a connection string can lead to
  NoHost,
  Worlds         \* the options and servers to run against

Items == {"tables", "indexes", "sequences", "functions", "extensions", "triggers",
          "statements", "log", "citus", "indexdefs", "bloat"}

World ==
  [args     : Seq(Names),       \* the arguments of the command line
   conninfo : BOOLEAN,          \* the only argument is a connection string
   all      : BOOLEAN,          \* --all-dbs
   pgpool   : BOOLEAN,          \* --pgpool
   role     : BOOLEAN,          \* --role
   sizes    : BOOLEAN,          \* not --no-sizes
   omit     : SUBSET Items,
   rds      : BOOLEAN,          \* --aws-rds-dbid
   azure    : BOOLEAN,          \* --az-resource
   hosts    : (SUBSET Hosts) \ {{}},    \* those that accept connections
   version  : [Hosts -> Nat \ {0}],     \* of the server on a host
   local    : [Hosts -> BOOLEAN],       \* that host is this machine
   standby  : [Hosts -> BOOLEAN],       \* its server is a standby
   isPgpool : BOOLEAN,          \* what answers is Pgpool
   userDBs  : Seq(Names),       \* pg_database without templates and postgres
   lands    : [Names \cup {NoName} -> Databases \cup {Console}]]

ASSUME NamesAreNames == PgBouncer \in Names /\ NoName \notin Names /\ Console \notin Databases
ASSUME HostsAreHosts == NoHost \notin Hosts
ASSUME WorldsAreWorlds == Worlds \subseteq World

VARIABLES
  o,             \* the world; never changes
  pc,            \* the place in Collect
  mode,          \* c.mode
  dbnames,       \* c.dbnames
  turn,          \* which of them is collected
  todo,          \* the queries still to be sent to it
  conn,          \* the host that the pooled connection leads to, or NoHost
  asRole,        \* SET ROLE was done on it
  ctx,           \* the context of the last query: "live" or "expired"
  version,       \* c.version, 0 until known
  local,         \* c.local
  inRecovery,    \* c.result.IsInRecovery
  beenHere,      \* c.beenHere
  collectedDBs,  \* c.result.Metadata.CollectedDBs
  logs,          \* whose logs were read
  rdsResult,     \* c.result.RDS is set
  exit,          \* "none", "fatal" or "report"
  cause,         \* of a fatal failure
  clusters,      \* how often the cluster was collected
  lostConn,      \* a connection was closed under a sql.DB
  bare,          \* a query ran without the role that was asked for
  blind,         \* gated queries that were sent with c.version = 0
  asked          \* the hosts that were asked while the first name was collected

place   == <<pc, turn, todo>>
target  == <<mode, dbnames>>
session == <<conn, asRole, ctx>>
facts   == <<version, local, inRecovery>>
result  == <<collectedDBs, logs, rdsResult>>
ending  == <<exit, cause>>
history == <<clusters, lostConn, bare, blind, asked>>
vars    == <<o, place, target, session, facts, beenHere, result, ending, history>>

PlaceType   == /\ pc \in {"parse", "names", "connect", "head", "query",
                          "logs", "rds", "azure", "output", "done"}
               /\ turn \in Nat \ {0} /\ todo \in Seq(Query)
TargetType  == mode \in {"postgres", "pgbouncer", "pgpool"} /\ dbnames \in Seq(Names)
SessionType == /\ conn \in o.hosts \cup {NoHost}
               /\ asRole \in BOOLEAN /\ ctx \in {"live", "expired"}
FactsType   == /\ version \in {0} \cup {o.version[h] : h \in o.hosts}
               /\ local \in BOOLEAN /\ inRecovery \in BOOLEAN
ResultType  == /\ collectedDBs \in Seq(Databases)
               /\ logs \subseteq {"local", "rds"} /\ rdsResult \in BOOLEAN
EndingType  == /\ exit \in {"none", "fatal", "report"}
               /\ cause \in {"none", "own", "inherited", "misled"}
HistoryType == /\ clusters \in Nat /\ lostConn \in BOOLEAN /\ bare \in BOOLEAN
               /\ blind \subseteq Sections /\ asked \subseteq o.hosts

\* The types of the variables.
TypeOK == /\ o \in Worlds /\ beenHere \in BOOLEAN
          /\ PlaceType /\ TargetType /\ SessionType /\ FactsType
          /\ ResultType /\ EndingType /\ HistoryType

Init ==
  /\ o \in Worlds
  /\ pc = "parse" /\ turn = 1 /\ todo = <<>>
  /\ mode = "postgres" /\ dbnames = <<>>
  /\ conn = NoHost /\ asRole = FALSE /\ ctx = "live"
  /\ version = 0 /\ local = FALSE /\ inRecovery = FALSE
  /\ beenHere = FALSE
  /\ collectedDBs = <<>> /\ logs = {} /\ rdsResult = FALSE
  /\ exit = "none" /\ cause = "none"
  /\ clusters = 0 /\ lostConn = FALSE /\ bare = FALSE /\ blind = {} /\ asked = {}

Die(why) ==
  /\ pc' = "done" /\ exit' = "fatal" /\ cause' = why
  /\ UNCHANGED <<o, turn, todo, target, session, facts, beenHere, result, history>>

-----------------------------------------------------------------------------
(***************************************************************************)
(* What to connect to.                                                     *)
(***************************************************************************)

\* A single argument may be a connection string, which then takes the place of
\* the options; --all-dbs replaces whatever names were given.
Parse ==
  /\ pc = "parse"
  /\ mode' = IF o.pgpool THEN "pgpool"
             ELSE IF \/ o.conninfo /\ o.lands[NoName] = Console
                     \/ ~o.conninfo /\ o.args = <<PgBouncer>>
             THEN "pgbouncer" ELSE "postgres"
  /\ dbnames' = IF o.conninfo THEN <<>> ELSE o.args
  /\ pc' = IF o.all THEN "names" ELSE "connect"
  /\ UNCHANGED <<o, turn, todo, session, facts, beenHere, result, ending, history>>

\* getDBNames has a connection of its own, to the database postgres.
GetDBNames ==
  /\ pc = "names"
  /\ dbnames' = o.userDBs
  /\ pc' = "connect"
  /\ UNCHANGED <<o, mode, turn, todo, session, facts, beenHere, result, ending, history>>

GetDBNamesFails == pc = "names" /\ Die("own")

Turns  == IF dbnames = <<>> THEN 1 ELSE Len(dbnames)
Target == IF dbnames = <<>> THEN NoName ELSE dbnames[turn]
Here   == o.lands[Target]

\* collectFirst, up to the point where the version is known.
collectFirst == CASE mode = "pgpool"    -> getCurrentUser \o collectPgpool
                  [] mode = "pgbouncer" -> collectPgBouncer
                  [] mode = "postgres"  -> getCurrentUser \o getSettings \o getLocal

\* --role; mutant: for the first database only.
SetsRoleOnce == o.role /\ ~beenHere
SetsRole == o.role

\* getConn: sql.Open does not connect, SET ROLE does. Then collect, the first
\* time or again.
GetConn ==
  /\ pc = "connect" /\ turn <= Turns
  /\ IF SetsRole THEN Here # Console /\ conn' \in o.hosts ELSE conn' = NoHost
  /\ asRole' = SetsRole
  /\ ctx' = "live"
  /\ todo' = IF beenHere THEN getCurrentDatabase ELSE collectFirst
  /\ pc' = IF ~beenHere /\ mode = "postgres" THEN "head" ELSE "query"
  /\ UNCHANGED <<o, turn, target, facts, beenHere, result, ending, history>>

GetConnFails == pc = "connect" /\ turn <= Turns /\ SetsRole /\ Die("own")

NoMoreDBs ==
  /\ pc = "connect" /\ turn > Turns
  /\ pc' = "logs"
  /\ UNCHANGED <<o, turn, todo, target, session, facts, beenHere, result, ending, history>>

-----------------------------------------------------------------------------
(***************************************************************************)
(* One query.                                                              *)
(***************************************************************************)
Asking == pc \in {"head", "query"} /\ todo # <<>>
q == Head(todo)

\* Mutant: the pool keeps no idle connection, each query opens another one.
ReachedAnew == o.hosts

\* Who is asked: the server of the pooled connection, or any that accepts one.
Reached == IF conn = NoHost THEN o.hosts ELSE {conn}

\* The WAL position of a standby was chosen by an answer that did not come.
Misled(h) == q.section = "WALLSN" /\ o.standby[h] /\ ~inRecovery /\ version >= pgv96

\* The query fails without being sent.
Inherited == q.ctx = "shared" /\ ctx = "expired"

CanAnswer(h) ==
  /\ ~Misled(h) /\ ~Inherited
  /\ CASE q.speaks = "sql"       -> Here # Console
       [] q.speaks = "pgbouncer" -> Here = Console
       [] q.speaks = "pgpool"    -> o.isPgpool /\ Here # Console

\* Who asks, with which version, and whom.
Send(h) ==
  /\ bare' = (bare \/ (o.role /\ ~(conn # NoHost /\ asRole)))
  /\ blind' = IF q.gated /\ version = 0 THEN blind \cup {q.section} ELSE blind
  /\ asked' = IF beenHere THEN asked ELSE asked \cup {h}

Ctx(then) == IF q.ctx = "shared" THEN ctx ELSE then

\* q was sent and its connection is still there: a new one is not under a role.
StaysOpen ==
  /\ conn' \in Reached /\ Send(conn')
  /\ asRole' = (asRole /\ conn # NoHost)
  /\ ctx' = Ctx("live")
  /\ UNCHANGED <<clusters, lostConn>>

\* q was sent and its connection is gone: pgx closes it when the context
\* expires in the middle of a query; or the server did.
IsClosed ==
  /\ \E h \in Reached : Send(h)
  /\ conn' = NoHost /\ asRole' = FALSE
  /\ \/ ctx' = "expired"
     \/ ctx' = Ctx("live")
  /\ lostConn' = TRUE
  /\ UNCHANGED clusters

\* How a query fails: by an error, with its connection, for want of a new one,
\* or unsent.
Fails ==
  \/ ~Inherited /\ (StaysOpen \/ IsClosed)
  \/ ~Inherited /\ conn = NoHost /\ ctx' \in {Ctx("live"), "expired"}
                /\ UNCHANGED <<conn, asRole, history>>
  \/ Inherited /\ UNCHANGED <<session, history>>

Goes == todo' = Tail(todo) /\ UNCHANGED <<o, pc, turn, target, beenHere, logs, rdsResult, ending>>

-----------------------------------------------------------------------------
(***************************************************************************)
(* What an answer, or the lack of one, does to the run.                    *)
(***************************************************************************)
Answered == Asking /\ StaysOpen /\ CanAnswer(conn')

AnswerSettings ==
  /\ Answered /\ q.section = "Settings"
  /\ version' = o.version[conn']
  /\ Goes /\ UNCHANGED <<local, inRecovery, collectedDBs>>

AnswerLocal ==
  /\ Answered /\ q.section = "Local"
  /\ local' = o.local[conn']
  /\ Goes /\ UNCHANGED <<version, inRecovery, collectedDBs>>

AnswerInRecovery ==
  /\ Answered /\ q.section = "IsInRecovery"
  /\ inRecovery' = o.standby[conn']
  /\ Goes /\ UNCHANGED <<version, local, collectedDBs>>

\* What is remembered of a database; mutant: the name it was asked for by.
CurrentDBAsGiven == Target
CurrentDB == Here

\* Mutant: only the last database is compared with.
CollectedLast == collectedDBs # <<>> /\ CurrentDB = Last(collectedDBs)
Collected == CurrentDB \in ToSet(collectedDBs)

\* collectDatabase: don't collect from same db twice. Only a database answers.
AnswerCurrentDatabase ==
  /\ Answered /\ q.section = "CurrentDatabase" /\ Here \in Databases
  /\ IF Collected
     THEN todo' = Tail(todo) /\ UNCHANGED collectedDBs
     ELSE /\ collectedDBs' = Append(collectedDBs, CurrentDB)
          /\ todo' = Tail(todo) \o collectDatabase(version, o.sizes, o.omit)
  /\ UNCHANGED <<o, pc, turn, target, facts, beenHere, logs, rdsResult, ending>>

AnswerRows ==
  /\ Answered
  /\ q.section \notin {"Settings", "Local", "IsInRecovery", "CurrentDatabase"}
  /\ Goes /\ UNCHANGED <<facts, collectedDBs>>

\* The query is not sent: nothing to ask for.
NotNeeded ==
  /\ Asking /\ q.maybe
  /\ Goes /\ UNCHANGED <<session, facts, collectedDBs, history>>

\* A failure that is a warning, or that nobody hears of: the run goes on.
TolerateFailure ==
  /\ Asking /\ q.policy \in {"tolerate", "mixed"}
  /\ Fails
  /\ Goes /\ UNCHANGED <<facts, collectedDBs>>

\* A lock timeout: the same once more, without the sizes.
RetryWithoutSizes ==
  /\ Asking /\ q.policy = "retry" /\ Here # Console
  /\ StaysOpen
  /\ todo' = <<Gated(Fatal(q.section))>> \o Tail(todo)
  /\ UNCHANGED <<o, pc, turn, target, facts, beenHere, result, ending>>

\* log.Fatalf.
FatalFailure ==
  /\ Asking /\ q.policy \in {"fatal", "mixed", "retry"}
  /\ \E h \in Reached :
       Die(IF Inherited THEN "inherited" ELSE IF Misled(h) THEN "misled" ELSE "own")

\* External: the server closes the connection between two queries; database/sql
\* opens another one when it finds out.
ServerCloses ==
  /\ Asking /\ conn # NoHost
  /\ conn' = NoHost /\ asRole' = FALSE
  /\ lostConn' = TRUE
  /\ UNCHANGED <<o, place, target, ctx, facts, beenHere, result, ending,
                 clusters, bare, blind, asked>>

LogsWanted == "log" \notin o.omit

StartCluster(todoThen) ==
  /\ pc = "head"
  /\ todo' = collectCluster(version, o.sizes, LogsWanted /\ local)
                \o todoThen \o getCurrentDatabase
  /\ pc' = "query"
  /\ clusters' = clusters + 1
  /\ UNCHANGED <<o, turn, target, session, facts, beenHere, result, ending,
                 lostConn, bare, blind, asked>>

\* Mutant: the cluster is collected before the settings.
CollectClusterFirst == StartCluster(todo)

\* The head of collectPostgres is done: the version and the place are known.
CollectCluster == todo = <<>> /\ StartCluster(<<>>)

CloseDB(next) ==
  /\ pc = "query" /\ todo = <<>>
  /\ conn' = NoHost /\ asRole' = FALSE
  /\ turn' = next
  /\ pc' = "connect"
  /\ UNCHANGED <<o, todo, target, ctx, facts, result, ending, history>>

\* Mutants: c.beenHere is never set; the last name is left out; no next name.
EndDBNotBeen  == CloseDB(turn + 1) /\ UNCHANGED beenHere
EndDBSkipping == CloseDB(IF turn + 1 = Turns THEN turn + 2 ELSE turn + 1) /\ beenHere' = TRUE
EndDBStays    == CloseDB(turn) /\ beenHere' = TRUE

\* collectFromDB closes the sql.DB; on to the next name.
EndDB == CloseDB(turn + 1) /\ beenHere' = TRUE

-----------------------------------------------------------------------------
(***************************************************************************)
(* After the databases.                                                    *)
(***************************************************************************)
\* getPrefix needs the settings, and a prefix it can compile.
PrefixCanBeHad == version # 0

Ours == LogsWanted /\ local

\* collectLogs: the files of this machine, if they are those of the server, and
\* if there are any (LogReader has the rest).
CollectLogs ==
  /\ pc = "logs"
  /\ \/ Ours /\ PrefixCanBeHad /\ logs' = {"local"}
     \/ UNCHANGED logs
  /\ pc' = "rds"
  /\ UNCHANGED <<o, turn, todo, target, session, facts, beenHere, collectedDBs,
                 rdsResult, ending, history>>

\* Nothing that goes wrong in collectFromRDS is more than a warning.
CollectFromRDS ==
  /\ pc = "rds"
  /\ \/ UNCHANGED <<logs, rdsResult>>
     \/ o.rds /\ rdsResult' = TRUE /\ UNCHANGED logs
     \/ /\ o.rds /\ rdsResult' = TRUE
        /\ LogsWanted /\ PrefixCanBeHad /\ logs' = logs \cup {"rds"}
  /\ pc' = "azure"
  /\ UNCHANGED <<o, turn, todo, target, session, facts, beenHere, collectedDBs,
                 ending, history>>

\* Nor in collectFromAzure, whose result is set as a whole or not at all.
CollectFromAzure ==
  /\ pc = "azure"
  /\ pc' = "output"
  /\ UNCHANGED <<o, turn, todo, target, session, facts, beenHere, result, ending, history>>

\* main.process writes the report, once.
Process ==
  /\ pc = "output"
  /\ pc' = "done" /\ exit' = "report"
  /\ UNCHANGED <<o, turn, todo, target, session, facts, beenHere, result, cause, history>>

\* The output file cannot be created, the pager not be started.
ProcessFails == pc = "output" /\ Die("own")

-----------------------------------------------------------------------------
RunQuery == \/ AnswerSettings \/ AnswerLocal \/ AnswerInRecovery \/ AnswerCurrentDatabase
            \/ AnswerRows \/ NotNeeded \/ TolerateFailure \/ RetryWithoutSizes
            \/ FatalFailure

Program == \/ Parse \/ GetDBNames \/ GetDBNamesFails
           \/ GetConn \/ GetConnFails \/ NoMoreDBs
           \/ RunQuery \/ CollectCluster \/ EndDB
           \/ CollectLogs \/ CollectFromRDS \/ CollectFromAzure
           \/ Process \/ ProcessFails

Next == Program \/ ServerCloses

Spec == Init /\ [][Next]_vars

\* The download from RDS has neither a context nor a timeout, and main.process
\* waits for whoever reads the report, if only in a pager.
Unbounded == (pc = "rds" /\ o.rds) \/ pc = "output"

\* Every query has a timeout, and so has the request to Azure; the loop over the
\* names is one goroutine's: the program takes its next step, whatever the
\* servers do, where its code bounds that step.
FairSpec == Spec /\ WF_vars(~Unbounded /\ Program)

-----------------------------------------------------------------------------
(***************************************************************************)
(* Properties.                                                             *)
(***************************************************************************)

\* collectDatabase: "don't collect from same db twice", whatever names lead to
\* a database, in whatever order.
DbOnce ==
  \A i, j \in DOMAIN collectedDBs : i # j => collectedDBs[i] # collectedDBs[j]

\* A report of a PostgreSQL server covers exactly the databases that the names
\* lead to: a database that cannot be collected ends the run without a report.
AllListedOrNothing ==
  exit = "report" /\ mode = "postgres" =>
    ToSet(collectedDBs) = {o.lands[n] : n \in IF dbnames = <<>> THEN {NoName}
                                               ELSE ToSet(dbnames)}

\* However many databases there are, the cluster is collected once, and only in
\* a run whose version is known.
ClusterOnce ==
  /\ clusters <= 1
  /\ clusters = 1 => version # 0
  /\ exit = "report" /\ mode = "postgres" => clusters = 1

\* getConn's SET ROLE holds for every query to every database, unless a
\* connection was lost on the way.
RoleUntilReconnect == bare => lostConn

\* c.version is known to every query that depends on it, but for the one to
\* pg_settings, which is where it comes from, and for those sent by Pgpool runs.
VersionKnown == mode = "postgres" => blind \subseteq {"Settings"}

\* A fatal failure is the failure of the query that is fatal; only the functions
\* getAdminFuncv* can die of an earlier query that they tolerated.
DiesOfItsOwn ==
  cause \in {"inherited", "misled"} => q.section = "WALLSN"

\* What a report says of the cluster is of one server, though its name may lead
\* to several: all that is asked while the first database is collected is asked of
\* one, the version and the state of recovery are its own, and the log files that
\* are read here at the end of the run, when its connection is long closed, are
\* those of a server on this machine. Only a lost connection makes a mixture.
OneServer ==
  ~lostConn =>
    \E h \in o.hosts :
      /\ asked \subseteq {h}
      /\ version \in {0, o.version[h]}
      /\ inRecovery => o.standby[h]
      /\ local \/ "local" \in logs => o.local[h]

\* The run ends, with a report or without, unless it waits for RDS or for the
\* reader of its output.
Ends == <>[](pc = "done" \/ Unbounded)

(***************************************************************************)
(* What the code and its documentation say, and what does not hold.        *)
(***************************************************************************)

\* usage: "--pgpool  collect only Pgpool metrics".
PgpoolOnly == mode = "pgpool" => collectedDBs = <<>>

\* usage: "--role=ROLE  do SET ROLE before collection".
RoleOnEveryQuery == ~bare

\* getSettings: "pending_restart was added in pg9.5"; the column is asked for if
\* the query knows the version.
PendingAsked == (\A h \in o.hosts : o.version[h] >= pgv95) => "Settings" \notin blind
=============================================================================
