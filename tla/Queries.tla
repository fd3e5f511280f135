------------------------------- MODULE Queries -------------------------------
(***************************************************************************)
(* What the collector asks a server, in order, and what becomes of the run *)
(* if an answer does not come.  Each function getX of the collector is the *)
(* sequence of the queries it sends; of a query only what steers the run   *)
(* is kept:                                                                *)
(*   section  the part of the report it fills;                             *)
(*   policy   "fatal": any failure is a log.Fatalf; "tolerate": a warning, *)
(*            or silence; "mixed": a failing query is tolerated, a failing *)
(*            row is fatal; "retry": a lock timeout makes the function ask *)
(*            once more, without the sizes, anything else is fatal;        *)
(*   ctx      "own", or "shared" with the query before it: the functions   *)
(*            that send two queries under one timeout;                     *)
(*   gated    the text of the query depends on c.version;                  *)
(*   maybe    the query is not sent if a setting, an extension or an       *)
(*            earlier answer makes it pointless;                           *)
(*   speaks   who can answer: any server, the PgBouncer console, Pgpool.   *)
(***************************************************************************)
EXTENDS Integers, Sequences

pgv94 == 90400
pgv95 == 90500
pgv96 == 90600
pgv10 == 100000
pgv11 == 110000
pgv12 == 120000
pgv13 == 130000
pgv14 == 140000
pgv17 == 170000

Policies == {"fatal", "tolerate", "mixed", "retry"}
Tongues  == {"sql", "pgbouncer", "pgpool"}

\* The parts of the report, for the most part by their names in model.go.
Sections ==
  {"Username", "Settings", "WALArchiving", "Local", "BGWriter",
   "ReplicationOutgoing", "ReplicationIncoming", "LastXact", "PGSystemInfo",
   "ControlSystem", "ControlCheckpoint", "Backends", "BackendTypeCounts",
   "CurrentDatabase", "IsInRecovery", "WALLSN", "TablespaceSize",
   "DatabaseSize", "Databases", "Tablespaces", "Tables", "Indexes", "IndexDef",
   "Sequences", "UserFunctions", "VacuumProgress", "Extensions", "Roles",
   "ReplicationSlots", "DisabledTriggers", "Statements", "WALCount",
   "WALReadyCount", "NotificationQueueUsage", "Locks", "BlockingPIDs",
   "Publications", "Subscriptions", "PartitionInfo", "ParentInfo", "Bloat",
   "WAL", "AnalyzeProgress", "BasebackupProgress", "ClusterProgress",
   "CopyProgress", "CreateIndexProgress", "Checkpointer", "LogInfo",
   "ActiveSessions", "ReplicationStatus", "ReplicationSlotsDetailed",
   "WaitEventSummary", "BlockedSessions", "WALReceiverStatus", "TestQuery",
   "CitusVersion", "CitusTableSizes", "CitusNodes", "CitusStatements",
   "CitusBackends", "CitusWorkerBackends", "CitusLocks", "CitusTables",
   "CitusNodeIDs", "PoolVersion", "PoolNodes", "PoolHealthCheck",
   "PoolBackendStats", "PoolCache", "Pools", "Servers", "Clients", "Stats",
   "BouncerDatabases"}

Query == [section : Sections, policy : Policies, ctx : {"own", "shared"},
          gated : BOOLEAN, maybe : BOOLEAN, speaks : Tongues]

Ask(section, policy) ==
  [section |-> section, policy |-> policy, ctx |-> "own",
   gated |-> FALSE, maybe |-> FALSE, speaks |-> "sql"]
Fatal(section)    == Ask(section, "fatal")
Tolerate(section) == Ask(section, "tolerate")
Mixed(section)    == Ask(section, "mixed")
Retry(section)    == Ask(section, "retry")

Gated(q)      == [q EXCEPT !.gated = TRUE]
Maybe(q)      == [q EXCEPT !.maybe = TRUE]
SharesCtx(q)  == [q EXCEPT !.ctx = "shared"]
To(q, tongue) == [q EXCEPT !.speaks = tongue]

When(c, s) == IF c THEN s ELSE <<>>

-----------------------------------------------------------------------------
(***************************************************************************)
(* The functions, in the order of collect.go.                              *)
(***************************************************************************)
getCurrentUser           == <<Fatal("Username")>>
getSettings              == <<Gated(Fatal("Settings"))>>
getWALArchiver           == <<Fatal("WALArchiving")>>
getLocal                 == <<Tolerate("Local")>>
getBGWriterv17           == <<Fatal("BGWriter")>>
getBGWriter              == <<Fatal("BGWriter")>>
getReplicationv10        == <<Gated(Mixed("ReplicationOutgoing"))>>
getReplicationv9         == <<Gated(Mixed("ReplicationOutgoing"))>>
getWalReceiverv13        == <<Maybe(Gated(Tolerate("ReplicationIncoming")))>>
getWalReceiverv96        == <<Maybe(Tolerate("ReplicationIncoming"))>>
getLastXactv95           == <<Maybe(Tolerate("LastXact"))>>
getPGSystemInfo          == <<Fatal("PGSystemInfo")>>
getControlSystemv96      == <<Fatal("ControlSystem")>>
getControlCheckpointv96  == <<Fatal("ControlCheckpoint")>>
getControlCheckpointv10  == <<Fatal("ControlCheckpoint")>>
getControlCheckpointv11  == <<Fatal("ControlCheckpoint")>>
getActivityv96           == <<Gated(Fatal("Backends"))>>
getActivityv94           == <<Fatal("Backends")>>
getActivityv93           == <<Fatal("Backends")>>
getBETypeCountsv10       == <<Fatal("BackendTypeCounts")>>
getCurrentDatabase       == <<Fatal("CurrentDatabase")>>

\* The recovery state is asked for first, under the same timeout as the WAL
\* position, which is replayed or current accordingly; Aurora may have none.
getAdminFuncv9 ==
  <<Tolerate("IsInRecovery"), Maybe(SharesCtx(Gated(Fatal("WALLSN"))))>>
getAdminFuncv10 ==
  <<Tolerate("IsInRecovery"), Maybe(SharesCtx(Fatal("WALLSN")))>>

\* The size of one database or tablespace, -1 if it cannot be had.
fillTablespaceSize == <<Tolerate("TablespaceSize")>>
fillDatabaseSize   == <<Tolerate("DatabaseSize")>>

getDatabases(fillSize) ==
  <<Gated(Fatal("Databases"))>> \o When(fillSize, fillDatabaseSize)
getTablespaces(fillSize) ==
  <<Fatal("Tablespaces")>> \o When(fillSize, fillTablespaceSize)

getTables(fillSize) ==
  IF fillSize THEN <<Gated(Retry("Tables"))>> ELSE <<Gated(Fatal("Tables"))>>
getIndexes(fillSize) ==
  IF fillSize THEN <<Gated(Retry("Indexes"))>> ELSE <<Gated(Fatal("Indexes"))>>

getIndexDef              == <<Tolerate("IndexDef")>>
getSequences             == <<Fatal("Sequences")>>
getUserFunctions         == <<Fatal("UserFunctions")>>
getVacuumProgressv17     == <<Fatal("VacuumProgress")>>
getVacuumProgressv96     == <<Fatal("VacuumProgress")>>
getExtensions            == <<Fatal("Extensions")>>
getRoles                 == <<Gated(Fatal("Roles"))>>
getReplicationSlotsv94   == <<Gated(Mixed("ReplicationSlots"))>>
getDisabledTriggers      == <<Fatal("DisabledTriggers")>>

\* Not sent without the extension, or if another database gave the answer.
getStatements            == <<Maybe(Mixed("Statements"))>>

\* Mutant: the count of ready files is fatal, too.
getWALCountsFatal ==
  <<Maybe(Tolerate("WALCount")), Maybe(SharesCtx(Fatal("WALReadyCount")))>>

\* The WAL files and the files to be archived; not on AWS before v11.
getWALCounts ==
  <<Maybe(Tolerate("WALCount")), Maybe(SharesCtx(Tolerate("WALReadyCount")))>>

getNotification          == <<Fatal("NotificationQueueUsage")>>
getLockRows              == <<Gated(Fatal("Locks"))>>
getBlockers              == <<Fatal("BlockingPIDs")>>
getLocks                 == getLockRows \o getBlockers
getPublications          == <<Mixed("Publications")>>
getSubscriptions         == <<Gated(Mixed("Subscriptions"))>>
getPartitionInfo         == <<Fatal("PartitionInfo")>>
getParentInfo            == <<Gated(Fatal("ParentInfo"))>>
getBloat                 == <<Fatal("Bloat")>>
getWAL                   == <<Maybe(Fatal("WAL"))>>
getProgressAnalyze       == <<Mixed("AnalyzeProgress")>>
getProgressBasebackup    == <<Mixed("BasebackupProgress")>>
getProgressCluster       == <<Mixed("ClusterProgress")>>
getProgressCopy          == <<Mixed("CopyProgress")>>
getProgressCreateIndex   == <<Mixed("CreateIndexProgress")>>
getCheckpointer          == <<Fatal("Checkpointer")>>
getLogInfo               == <<Tolerate("LogInfo")>>
getActiveSessions        == <<Tolerate("ActiveSessions")>>
getReplicationStatus     == <<Tolerate("ReplicationStatus")>>
getReplicationSlotsDetailed == <<Tolerate("ReplicationSlotsDetailed")>>
getWaitEventSummary      == <<Tolerate("WaitEventSummary")>>
getBlockedSessions       == <<Tolerate("BlockedSessions")>>
getWALReceiverStatus     == <<Tolerate("WALReceiverStatus")>>
getTestQuery             == <<Tolerate("TestQuery")>>

\* Not sent where the extension is not installed; the version decides which
\* views are read after the nodes and the statements.
getCitus(fillSize) ==
  <<Maybe(Tolerate("CitusVersion"))>>
    \o When(fillSize, <<Maybe(Tolerate("CitusTableSizes"))>>)
    \o <<Maybe(Tolerate("CitusNodes")), Maybe(Tolerate("CitusStatements")),
         Maybe(Tolerate("CitusBackends")), Maybe(Tolerate("CitusWorkerBackends")),
         Maybe(Tolerate("CitusLocks")), Maybe(Tolerate("CitusTables")),
         Maybe(Tolerate("CitusNodeIDs"))>>

-----------------------------------------------------------------------------
(***************************************************************************)
(* The functions that call them.                                           *)
(***************************************************************************)
collectPgpool ==
  << To(Fatal("PoolVersion"), "pgpool"), To(Fatal("PoolNodes"), "pgpool"),
     To(Maybe(Fatal("PoolHealthCheck")), "pgpool"), To(Maybe(Fatal("PoolBackendStats")), "pgpool"),
     To(Fatal("PoolCache"), "pgpool") >> \o getTestQuery

collectPgBouncer ==
  << To(Fatal("Pools"), "pgbouncer"), To(Fatal("Servers"), "pgbouncer"),
     To(Fatal("Clients"), "pgbouncer"), To(Fatal("Stats"), "pgbouncer"),
     To(Fatal("BouncerDatabases"), "pgbouncer") >> \o getTestQuery

\* collectCluster, in order: the version v decides what is asked.
collectCluster(v, sizes, logs) ==
  getPGSystemInfo
    \o When(v >= pgv96, getControlSystemv96)
    \o When(v >= pgv95, getLastXactv95)
    \o (IF v >= pgv11 THEN getControlCheckpointv11
        ELSE IF v >= pgv10 THEN getControlCheckpointv10
        ELSE When(v >= pgv96, getControlCheckpointv96))
    \o (IF v >= pgv96 THEN getActivityv96
        ELSE IF v >= pgv94 THEN getActivityv94 ELSE getActivityv93)
    \o When(v >= pgv10, getBETypeCountsv10)
    \o When(v >= pgv94, getWALArchiver)
    \o (IF v >= pgv17 THEN getBGWriterv17 ELSE getBGWriter)
    \o (IF v >= pgv10 THEN getReplicationv10 ELSE getReplicationv9)
    \o (IF v >= pgv13 THEN getWalReceiverv13 ELSE When(v >= pgv96, getWalReceiverv96))
    \o (IF v >= pgv10 THEN getAdminFuncv10 ELSE getAdminFuncv9)
    \o (IF v >= pgv17 THEN getVacuumProgressv17 ELSE When(v >= pgv96, getVacuumProgressv96))
    \o getDatabases(sizes) \o getTablespaces(sizes)
    \o When(v >= pgv94, getReplicationSlotsv94)
    \o getRoles \o getWALCounts
    \o When(v >= pgv96, getNotification)
    \o getLocks
    \o When(v >= pgv14, getWAL)
    \o When(v >= pgv12, getProgressCluster \o getProgressCreateIndex)
    \o When(v >= pgv13, getProgressAnalyze \o getProgressBasebackup)
    \o When(v >= pgv14, getProgressCopy)
    \o When(v >= pgv17, getCheckpointer)
    \o When(logs /\ v >= pgv10, getLogInfo)
    \o getActiveSessions \o getReplicationStatus \o getReplicationSlotsDetailed
    \o getWaitEventSummary \o getBlockedSessions \o getWALReceiverStatus
    \o getTestQuery

\* collectDatabase after the database is known to be a new one.
collectDatabase(v, sizes, omit) ==
  When("tables" \notin omit,
       getTables(sizes) \o When(v >= pgv10, getPartitionInfo) \o getParentInfo)
    \o When({"tables", "indexes"} \cap omit = {},
            getIndexes(sizes) \o When("indexdefs" \notin omit, getIndexDef))
    \o When("sequences" \notin omit, getSequences)
    \o When("functions" \notin omit, getUserFunctions)
    \o When("extensions" \notin omit, getExtensions)
    \o When({"tables", "triggers"} \cap omit = {}, getDisabledTriggers)
    \o When("statements" \notin omit, getStatements)
    \o When("bloat" \notin omit, getBloat)
    \o When(v >= pgv10, getPublications \o getSubscriptions)
    \o When("citus" \notin omit, getCitus(sizes))
=============================================================================
