---------------------------- MODULE CollectProofs ----------------------------
(***************************************************************************)
(* For all names, databases, options and servers: no database is collected *)
(* twice, a query without the role means a lost connection; the types of a *)
(* run, what its fatal failures come from, when the cluster is collected   *)
(* and with which version, which databases a report covers and that it     *)
(* speaks of one server; and that no run has infinitely many steps.        *)
(***************************************************************************)
EXTENDS Collect, Variants, SequenceTheorems, FiniteSetTheorems, TLAPS

-----------------------------------------------------------------------------
(***************************************************************************)
(* No database is collected twice.  The invariant is inductive with the    *)
(* type of collectedDBs: only AnswerCurrentDatabase changes it.            *)
(***************************************************************************)
DbInv == collectedDBs \in Seq(Databases) /\ DbOnce

\* One more element, of a sequence without repetitions that does not have it.
LEMMA AppendNew ==
  ASSUME NEW S, NEW s \in Seq(S), NEW x \in S,
         \A i, j \in DOMAIN s : i # j => s[i] # s[j],
         x \notin ToSet(s)
  PROVE  \A i, j \in DOMAIN Append(s, x) : i # j => Append(s, x)[i] # Append(s, x)[j]
<1>1. /\ DOMAIN Append(s, x) = 1 .. Len(s) + 1 /\ DOMAIN s = 1 .. Len(s)
      /\ Len(s) \in Nat
      /\ Append(s, x)[Len(s) + 1] = x
      /\ \A i \in 1 .. Len(s) : Append(s, x)[i] = s[i]
  BY AppendProperties, LenProperties
<1>2. \A i \in 1 .. Len(s) : s[i] # x
  BY <1>1 DEF ToSet
<1> QED BY <1>1, <1>2

\* The step that collects a database, and the steps that do not.
LEMMA CollectedStep ==
  ASSUME DbInv, [Next]_vars
  PROVE  DbInv'
<1> USE DEF DbInv
<1>1. CASE AnswerCurrentDatabase
  <2>1. CASE Collected
    BY <1>1, <2>1 DEF AnswerCurrentDatabase, DbOnce
  <2>2. CASE ~Collected
    <3>1. Here \in Databases /\ collectedDBs' = Append(collectedDBs, Here)
      BY <1>1, <2>2 DEF AnswerCurrentDatabase, CurrentDB
    <3>2. Here \notin ToSet(collectedDBs)
      BY <2>2 DEF Collected, CurrentDB
    <3>3. collectedDBs' \in Seq(Databases)
      BY <3>1, AppendProperties
    <3>4. DbOnce'
      BY <3>1, <3>2, AppendNew DEF DbOnce
    <3> QED BY <3>3, <3>4
  <2> QED BY <2>1, <2>2
<1>2. CASE collectedDBs' = collectedDBs
  BY <1>2 DEF DbOnce
<1>3. Die("own") \/ Die("inherited") \/ Die("misled") => UNCHANGED collectedDBs
  BY DEF Die, result
<1>4. Parse \/ GetDBNames \/ GetDBNamesFails \/ GetConn \/ GetConnFails \/ NoMoreDBs
        => UNCHANGED collectedDBs
  BY <1>3 DEF Parse, GetDBNames, GetDBNamesFails, GetConn, GetConnFails, NoMoreDBs, result
<1>5. AnswerSettings \/ AnswerLocal \/ AnswerInRecovery \/ AnswerRows \/ NotNeeded
        \/ TolerateFailure \/ RetryWithoutSizes \/ FatalFailure => UNCHANGED collectedDBs
  BY <1>3 DEF AnswerSettings, AnswerLocal, AnswerInRecovery, AnswerRows, NotNeeded,
              TolerateFailure, RetryWithoutSizes, FatalFailure, result
<1>6. CollectCluster \/ EndDB \/ CollectLogs \/ CollectFromRDS \/ CollectFromAzure
        \/ Process \/ ProcessFails \/ ServerCloses => UNCHANGED collectedDBs
  BY <1>3 DEF CollectCluster, StartCluster, EndDB, CloseDB, CollectLogs, CollectFromRDS,
              CollectFromAzure, Process, ProcessFails, ServerCloses, result
<1>7. UNCHANGED vars => UNCHANGED collectedDBs
  BY DEF vars, result
<1> QED
  BY <1>1, <1>2, <1>4, <1>5, <1>6, <1>7 DEF Next, Program, RunQuery

\* collectDatabase's "don't collect from same db twice" holds whatever the names
\* lead to, in whatever order they were given, and however the queries end.
THEOREM NoDatabaseTwice == Spec => []DbOnce
<1>1. Init => DbInv
  BY DEF Init, DbInv, DbOnce
<1>2. DbInv /\ [Next]_vars => DbInv'
  BY CollectedStep
<1>3. DbInv => DbOnce
  BY DEF DbInv
<1> QED BY <1>1, <1>2, <1>3, PTL DEF Spec

-----------------------------------------------------------------------------
(***************************************************************************)
(* Queries run under the role until a connection is lost.  By itself that  *)
(* is not inductive: between two queries the connection that GetConn       *)
(* opened must still be there, under the role.                             *)
(***************************************************************************)
RoleInv ==
  /\ o \in World
  /\ lostConn \in BOOLEAN /\ bare \in BOOLEAN
  /\ pc \in {"head", "query"} /\ o.role /\ ~lostConn => conn # NoHost /\ asRole = TRUE
  /\ conn \in o.hosts \cup {NoHost}
  /\ RoleUntilReconnect

\* The steps that send a query, or that close or open a connection; the others
\* leave what the invariant speaks of.
LEMMA RoleStep ==
  ASSUME RoleInv, [Next]_vars
  PROVE  RoleInv'
<1> USE DEF RoleInv, RoleUntilReconnect
<1>0. o.role \in BOOLEAN /\ NoHost \notin o.hosts
  BY HostsAreHosts DEF World
<1>1. Die("own") \/ Die("inherited") \/ Die("misled") => RoleInv'
  BY DEF Die, session, history
<1>2. Parse \/ GetDBNames \/ GetDBNamesFails \/ GetConnFails \/ NoMoreDBs => RoleInv'
  BY <1>1 DEF Parse, GetDBNames, GetDBNamesFails, GetConnFails, NoMoreDBs, session, history
<1>3. GetConn => RoleInv'
  BY <1>0 DEF GetConn, SetsRole, history
<1>4. Asking /\ StaysOpen /\ UNCHANGED <<o, pc>> => RoleInv'
  <2> SUFFICES ASSUME Asking, StaysOpen, UNCHANGED <<o, pc>> PROVE RoleInv'
    OBVIOUS
  <2>1. conn' \in o.hosts /\ conn' # NoHost
    BY <1>0 DEF StaysOpen, Reached
  <2>2. asRole' = (asRole /\ conn # NoHost) /\ bare' = (bare \/ (o.role /\ ~(conn # NoHost /\ asRole)))
        /\ lostConn' = lostConn
    BY DEF StaysOpen, Send
  <2> QED BY <1>0, <2>1, <2>2 DEF Asking
<1>5. Asking /\ IsClosed /\ UNCHANGED <<o, pc>> => RoleInv'
  BY <1>0 DEF IsClosed, Asking, Send
<1>6. UNCHANGED <<o, pc, conn, asRole, lostConn, bare>> => RoleInv'
  OBVIOUS
<1>7. Asking /\ conn = NoHost /\ UNCHANGED <<o, pc, conn, asRole, history>> => RoleInv'
  BY DEF history
<1>8. Asking /\ Fails /\ UNCHANGED <<o, pc>> => RoleInv'
  BY <1>4, <1>5, <1>6, <1>7 DEF Fails, session, history
<1>9. AnswerSettings \/ AnswerLocal \/ AnswerInRecovery \/ AnswerCurrentDatabase
        \/ AnswerRows \/ RetryWithoutSizes => RoleInv'
  BY <1>4 DEF AnswerSettings, AnswerLocal, AnswerInRecovery, AnswerCurrentDatabase,
              AnswerRows, RetryWithoutSizes, Answered, Goes
<1>10. NotNeeded => RoleInv'
  BY <1>6 DEF NotNeeded, Goes, session, history
<1>11. TolerateFailure => RoleInv'
  BY <1>8 DEF TolerateFailure, Goes
<1>12. FatalFailure => RoleInv'
  BY <1>1 DEF FatalFailure
<1>13. CollectCluster => RoleInv'
  BY DEF CollectCluster, StartCluster, session
<1>14. EndDB => RoleInv'
  BY DEF EndDB, CloseDB, history
<1>15. CollectLogs \/ CollectFromRDS \/ CollectFromAzure \/ Process \/ ProcessFails => RoleInv'
  BY <1>1 DEF CollectLogs, CollectFromRDS, CollectFromAzure, Process, ProcessFails, session, history
<1>16. ServerCloses => RoleInv'
  BY DEF ServerCloses, place
<1>17. UNCHANGED vars => RoleInv'
  BY <1>6 DEF vars, place, session, history
<1> QED
  BY <1>2, <1>3, <1>9, <1>10, <1>11, <1>12, <1>13, <1>14, <1>15, <1>16, <1>17
     DEF Next, Program, RunQuery

\* Whatever is asked, of however many databases: a query that does not run under
\* the role of --role runs on a connection that replaces a lost one.
THEOREM RoleHolds == Spec => []RoleUntilReconnect
<1>1. Init => RoleInv
  BY WorldsAreWorlds DEF Init, RoleInv, RoleUntilReconnect
<1>2. RoleInv /\ [Next]_vars => RoleInv'
  BY RoleStep
<1>3. RoleInv => RoleUntilReconnect
  BY DEF RoleInv
<1> QED BY <1>1, <1>2, <1>3, PTL DEF Spec

-----------------------------------------------------------------------------
(***************************************************************************)
(* Every plan consists of queries that are sound: one that shares the      *)
(* timeout of the query before it is tolerated, but for the WAL position.  *)
(***************************************************************************)
Plain == {r \in Query : r.ctx = "own"}
Sound == {r \in Query : r.ctx = "shared" /\ r.policy # "tolerate" => r.section = "WALLSN"}
Plans == Seq(Sound)

\* A query under its own timeout is sound.
LEMMA PlainSound == Plain \subseteq Sound
BY DEF Plain, Sound

\* A plain question, and what the modifiers make of it.
LEMMA AskPlain ==
  ASSUME NEW s \in Sections
  PROVE  Fatal(s) \in Plain /\ Tolerate(s) \in Plain /\ Mixed(s) \in Plain /\ Retry(s) \in Plain
BY DEF Fatal, Tolerate, Mixed, Retry, Ask, Plain, Query, Policies, Tongues

LEMMA ModifiedPlain ==
  ASSUME NEW r \in Plain
  PROVE  /\ Gated(r) \in Plain /\ Maybe(r) \in Plain
         /\ \A t \in Tongues : To(r, t) \in Plain
BY DEF Gated, Maybe, To, Plain, Query

\* The two queries that share a timeout and may be skipped.
LEMMA SharedSound ==
  /\ Maybe(SharesCtx(Gated(Fatal("WALLSN")))) \in Sound
  /\ Maybe(SharesCtx(Fatal("WALLSN"))) \in Sound
  /\ Maybe(SharesCtx(Tolerate("WALReadyCount"))) \in Sound
BY DEF Gated, Maybe, SharesCtx, Fatal, Tolerate, Ask, Sound, Query, Sections, Policies, Tongues

\* Plans of one query, the empty plan, and one plan after the other.
LEMMA OnePlan == ASSUME NEW r \in Sound PROVE <<r>> \in Plans
BY DEF Plans

LEMMA NoPlan == <<>> \in Plans
BY DEF Plans

LEMMA PlansJoin == ASSUME NEW s \in Plans, NEW t \in Plans PROVE s \o t \in Plans
BY ConcatProperties DEF Plans

\* The questions of one query.
LEMMA SingleFatal ==
  ASSUME NEW s \in Sections
  PROVE  /\ <<Fatal(s)>> \in Plans /\ <<Tolerate(s)>> \in Plans /\ <<Mixed(s)>> \in Plans
         /\ <<Gated(Fatal(s))>> \in Plans /\ <<Gated(Mixed(s))>> \in Plans
         /\ <<Gated(Retry(s))>> \in Plans
         /\ <<Maybe(Tolerate(s))>> \in Plans /\ <<Maybe(Mixed(s))>> \in Plans
         /\ <<Maybe(Fatal(s))>> \in Plans
         /\ <<Maybe(Gated(Tolerate(s)))>> \in Plans
<1>1. /\ Fatal(s) \in Plain /\ Tolerate(s) \in Plain /\ Mixed(s) \in Plain /\ Retry(s) \in Plain
  BY AskPlain
<1>2. /\ Gated(Fatal(s)) \in Plain /\ Gated(Mixed(s)) \in Plain /\ Gated(Retry(s)) \in Plain
      /\ Gated(Tolerate(s)) \in Plain
      /\ Maybe(Tolerate(s)) \in Plain /\ Maybe(Mixed(s)) \in Plain /\ Maybe(Fatal(s)) \in Plain
  BY <1>1, ModifiedPlain
<1>3. Maybe(Gated(Tolerate(s))) \in Plain
  BY <1>2, ModifiedPlain
<1> QED BY <1>1, <1>2, <1>3, PlainSound, OnePlan

\* What collectFirst and collectDatabase begin with.
LEMMA HeadPlans ==
  /\ getCurrentUser \in Plans /\ getSettings \in Plans /\ getLocal \in Plans
  /\ getCurrentDatabase \in Plans /\ getTestQuery \in Plans
BY SingleFatal DEF Sections, getCurrentUser, getSettings, getLocal, getCurrentDatabase, getTestQuery

\* The poolers' plans.
LEMMA PoolerPlans == collectPgpool \in Plans /\ collectPgBouncer \in Plans
<1>1. \A s \in Sections : To(Fatal(s), "pgpool") \in Sound /\ To(Fatal(s), "pgbouncer") \in Sound
                        /\ To(Maybe(Fatal(s)), "pgpool") \in Sound
  <2> TAKE s \in Sections
  <2>1. Fatal(s) \in Plain /\ Maybe(Fatal(s)) \in Plain
    BY AskPlain, ModifiedPlain
  <2>2. To(Fatal(s), "pgpool") \in Plain /\ To(Fatal(s), "pgbouncer") \in Plain
        /\ To(Maybe(Fatal(s)), "pgpool") \in Plain
    BY <2>1, ModifiedPlain DEF Tongues
  <2> QED BY <2>2, PlainSound
<1>2. \A a, b, c, d, e \in Sound : <<a, b, c, d, e>> \in Plans
  BY DEF Plans
<1>3. <<To(Fatal("PoolVersion"), "pgpool"), To(Fatal("PoolNodes"), "pgpool"),
        To(Maybe(Fatal("PoolHealthCheck")), "pgpool"),
        To(Maybe(Fatal("PoolBackendStats")), "pgpool"),
        To(Fatal("PoolCache"), "pgpool")>> \in Plans
  <2>1. /\ To(Fatal("PoolVersion"), "pgpool") \in Sound /\ To(Fatal("PoolNodes"), "pgpool") \in Sound
        /\ To(Maybe(Fatal("PoolHealthCheck")), "pgpool") \in Sound
        /\ To(Maybe(Fatal("PoolBackendStats")), "pgpool") \in Sound
        /\ To(Fatal("PoolCache"), "pgpool") \in Sound
    BY <1>1 DEF Sections
  <2> QED BY <1>2, <2>1, Zenon
<1>4. <<To(Fatal("Pools"), "pgbouncer"), To(Fatal("Servers"), "pgbouncer"),
        To(Fatal("Clients"), "pgbouncer"), To(Fatal("Stats"), "pgbouncer"),
        To(Fatal("BouncerDatabases"), "pgbouncer")>> \in Plans
  <2>1. /\ To(Fatal("Pools"), "pgbouncer") \in Sound /\ To(Fatal("Servers"), "pgbouncer") \in Sound
        /\ To(Fatal("Clients"), "pgbouncer") \in Sound /\ To(Fatal("Stats"), "pgbouncer") \in Sound
        /\ To(Fatal("BouncerDatabases"), "pgbouncer") \in Sound
    BY <1>1 DEF Sections
  <2> QED BY <1>2, <2>1, Zenon
<1> HIDE DEF Plans
<1> QED BY <1>3, <1>4, HeadPlans, PlansJoin DEF collectPgpool, collectPgBouncer

\* collectFirst, in each mode.
LEMMA FirstPlan == ASSUME TargetType PROVE collectFirst \in Plans
<1>1. getCurrentUser \o collectPgpool \in Plans
  BY HeadPlans, PoolerPlans, PlansJoin
<1>2. getCurrentUser \o getSettings \in Plans
  BY HeadPlans, PlansJoin
<1>3. getCurrentUser \o getSettings \o getLocal \in Plans
  BY <1>2, HeadPlans, PlansJoin
<1> QED BY <1>1, <1>3, PoolerPlans DEF collectFirst, TargetType

\* The parts of the cluster's plan up to the place in the log.
LEMMA ClusterPlanHead ==
  ASSUME NEW v \in Nat
  PROVE  /\ getPGSystemInfo \in Plans /\ getControlSystemv96 \in Plans /\ getLastXactv95 \in Plans
         /\ getControlCheckpointv11 \in Plans /\ getControlCheckpointv10 \in Plans
         /\ getControlCheckpointv96 \in Plans
         /\ getActivityv96 \in Plans /\ getActivityv94 \in Plans /\ getActivityv93 \in Plans
         /\ getBETypeCountsv10 \in Plans /\ getWALArchiver \in Plans
         /\ getBGWriterv17 \in Plans /\ getBGWriter \in Plans
         /\ getReplicationv10 \in Plans /\ getReplicationv9 \in Plans
         /\ getWalReceiverv13 \in Plans /\ getWalReceiverv96 \in Plans
         /\ getAdminFuncv10 \in Plans /\ getAdminFuncv9 \in Plans
<1>1. \A a, b \in Sound : <<a, b>> \in Plans
  BY DEF Plans
<1>2. Tolerate("IsInRecovery") \in Sound
  BY AskPlain, PlainSound DEF Sections
<1>3. getAdminFuncv10 \in Plans /\ getAdminFuncv9 \in Plans
  BY <1>1, <1>2, SharedSound DEF getAdminFuncv10, getAdminFuncv9
<1>4. /\ getPGSystemInfo \in Plans /\ getControlSystemv96 \in Plans /\ getLastXactv95 \in Plans
      /\ getControlCheckpointv11 \in Plans /\ getControlCheckpointv10 \in Plans
      /\ getControlCheckpointv96 \in Plans
  BY SingleFatal DEF Sections, getPGSystemInfo, getControlSystemv96, getLastXactv95,
       getControlCheckpointv11, getControlCheckpointv10, getControlCheckpointv96
<1>5. /\ getActivityv96 \in Plans /\ getActivityv94 \in Plans /\ getActivityv93 \in Plans
      /\ getBETypeCountsv10 \in Plans /\ getWALArchiver \in Plans
      /\ getBGWriterv17 \in Plans /\ getBGWriter \in Plans
  BY SingleFatal DEF Sections, getActivityv96, getActivityv94, getActivityv93,
       getBETypeCountsv10, getWALArchiver, getBGWriterv17, getBGWriter
<1>6. /\ getReplicationv10 \in Plans /\ getReplicationv9 \in Plans
      /\ getWalReceiverv13 \in Plans /\ getWalReceiverv96 \in Plans
  BY SingleFatal DEF Sections, getReplicationv10, getReplicationv9, getWalReceiverv13, getWalReceiverv96
<1> QED BY <1>3, <1>4, <1>5, <1>6

\* The other parts.
LEMMA ClusterPlanTail ==
  ASSUME NEW sizes \in BOOLEAN
  PROVE  /\ getVacuumProgressv17 \in Plans /\ getVacuumProgressv96 \in Plans
         /\ getDatabases(sizes) \in Plans /\ getTablespaces(sizes) \in Plans
         /\ getReplicationSlotsv94 \in Plans /\ getRoles \in Plans /\ getWALCounts \in Plans
         /\ getNotification \in Plans /\ getLocks \in Plans /\ getWAL \in Plans
         /\ getProgressCluster \o getProgressCreateIndex \in Plans
         /\ getProgressAnalyze \o getProgressBasebackup \in Plans
         /\ getProgressCopy \in Plans /\ getCheckpointer \in Plans /\ getLogInfo \in Plans
         /\ getActiveSessions \in Plans /\ getReplicationStatus \in Plans
         /\ getReplicationSlotsDetailed \in Plans /\ getWaitEventSummary \in Plans
         /\ getBlockedSessions \in Plans /\ getWALReceiverStatus \in Plans
<1>1. /\ getVacuumProgressv17 \in Plans /\ getVacuumProgressv96 \in Plans
      /\ getReplicationSlotsv94 \in Plans /\ getRoles \in Plans
      /\ getNotification \in Plans /\ getWAL \in Plans
  BY SingleFatal DEF Sections, getVacuumProgressv17, getVacuumProgressv96, getReplicationSlotsv94,
       getRoles, getNotification, getWAL
<1>2. /\ fillDatabaseSize \in Plans /\ fillTablespaceSize \in Plans
      /\ getLockRows \in Plans /\ getBlockers \in Plans
      /\ <<Gated(Fatal("Databases"))>> \in Plans /\ <<Fatal("Tablespaces")>> \in Plans
  BY SingleFatal DEF Sections, fillDatabaseSize, fillTablespaceSize, getLockRows, getBlockers
<1>3. getDatabases(sizes) \in Plans /\ getTablespaces(sizes) \in Plans /\ getLocks \in Plans
  BY <1>2, NoPlan, PlansJoin DEF getDatabases, getTablespaces, getLocks, When
<1>4. getWALCounts \in Plans
  <2>1. Maybe(Tolerate("WALCount")) \in Sound
    BY AskPlain, ModifiedPlain, PlainSound DEF Sections
  <2> QED BY <2>1, SharedSound DEF getWALCounts, Plans
<1>5. /\ getProgressCluster \in Plans /\ getProgressCreateIndex \in Plans
      /\ getProgressAnalyze \in Plans /\ getProgressBasebackup \in Plans
      /\ getProgressCopy \in Plans /\ getCheckpointer \in Plans /\ getLogInfo \in Plans
  BY SingleFatal DEF Sections, getProgressCluster, getProgressCreateIndex, getProgressAnalyze,
       getProgressBasebackup, getProgressCopy, getCheckpointer, getLogInfo
<1>6. /\ getActiveSessions \in Plans /\ getReplicationStatus \in Plans
      /\ getReplicationSlotsDetailed \in Plans /\ getWaitEventSummary \in Plans
      /\ getBlockedSessions \in Plans /\ getWALReceiverStatus \in Plans
  BY SingleFatal DEF Sections, getActiveSessions, getReplicationStatus, getReplicationSlotsDetailed,
       getWaitEventSummary, getBlockedSessions, getWALReceiverStatus
<1> QED BY <1>1, <1>3, <1>4, <1>5, <1>6, PlansJoin

\* The cluster's plan.
LEMMA ClusterPlan ==
  ASSUME NEW v \in Nat, NEW sizes \in BOOLEAN, NEW logsToo \in BOOLEAN
  PROVE  collectCluster(v, sizes, logsToo) \in Plans
<1> DEFINE upToSettings ==
             getPGSystemInfo
               \o When(v >= pgv96, getControlSystemv96)
               \o When(v >= pgv95, getLastXactv95)
               \o (IF v >= pgv11 THEN getControlCheckpointv11
                   ELSE IF v >= pgv10 THEN getControlCheckpointv10
                   ELSE When(v >= pgv96, getControlCheckpointv96))
               \o (IF v >= pgv96 THEN getActivityv96
                   ELSE IF v >= pgv94 THEN getActivityv94 ELSE getActivityv93)
<1> DEFINE upToWAL ==
             upToSettings
               \o When(v >= pgv10, getBETypeCountsv10)
               \o When(v >= pgv94, getWALArchiver)
               \o (IF v >= pgv17 THEN getBGWriterv17 ELSE getBGWriter)
               \o (IF v >= pgv10 THEN getReplicationv10 ELSE getReplicationv9)
               \o (IF v >= pgv13 THEN getWalReceiverv13 ELSE When(v >= pgv96, getWalReceiverv96))
               \o (IF v >= pgv10 THEN getAdminFuncv10 ELSE getAdminFuncv9)
<1> DEFINE upToLocks ==
             upToWAL
               \o (IF v >= pgv17 THEN getVacuumProgressv17 ELSE When(v >= pgv96, getVacuumProgressv96))
               \o getDatabases(sizes) \o getTablespaces(sizes)
               \o When(v >= pgv94, getReplicationSlotsv94)
               \o getRoles \o getWALCounts
               \o When(v >= pgv96, getNotification)
               \o getLocks
<1> DEFINE upToLog ==
             upToLocks
               \o When(v >= pgv14, getWAL)
               \o When(v >= pgv12, getProgressCluster \o getProgressCreateIndex)
               \o When(v >= pgv13, getProgressAnalyze \o getProgressBasebackup)
               \o When(v >= pgv14, getProgressCopy)
               \o When(v >= pgv17, getCheckpointer)
               \o When(logsToo /\ v >= pgv10, getLogInfo)
<1> HIDE DEF Plans
<1>1. upToSettings \in Plans
  BY ClusterPlanHead, NoPlan, PlansJoin DEF When
<1>2. upToWAL \in Plans
  <2> HIDE DEF upToSettings
  <2> QED BY <1>1, ClusterPlanHead, NoPlan, PlansJoin DEF When
<1>3. upToLocks \in Plans
  <2> HIDE DEF upToWAL
  <2> QED BY <1>2, ClusterPlanTail, NoPlan, PlansJoin DEF When
<1>4. upToLog \in Plans
  <2> HIDE DEF upToLocks
  <2> QED BY <1>3, ClusterPlanTail, NoPlan, PlansJoin DEF When
<1>5. collectCluster(v, sizes, logsToo) =
        upToLog \o getActiveSessions \o getReplicationStatus \o getReplicationSlotsDetailed
          \o getWaitEventSummary \o getBlockedSessions \o getWALReceiverStatus
          \o getTestQuery
  BY Zenon DEF collectCluster
<1> HIDE DEF upToLog
<1> QED BY <1>4, <1>5, ClusterPlanTail, HeadPlans, PlansJoin

\* What collectDatabase asks adds nothing to what is known of the server.
Facts    == {"Settings", "Local", "IsInRecovery"}
FactFree == {r \in Sound : r.section \notin Facts}
DbPlans  == Seq(FactFree)

LEMMA FreePlans == DbPlans \subseteq Plans
<1>1. FactFree \subseteq Sound
  BY DEF FactFree
<1> QED BY <1>1, SeqMonotonic DEF DbPlans, Plans

LEMMA NoDbPlan == <<>> \in DbPlans
BY DEF DbPlans

LEMMA DbPlansJoin == ASSUME NEW s \in DbPlans, NEW t \in DbPlans PROVE s \o t \in DbPlans
BY ConcatProperties DEF DbPlans

\* A question, whatever the modifiers make of it, is about the same.
LEMMA SectionStays ==
  ASSUME NEW s \in Sections \ Facts
  PROVE  /\ Fatal(s) \in FactFree /\ Tolerate(s) \in FactFree
         /\ Gated(Fatal(s)) \in FactFree /\ Gated(Mixed(s)) \in FactFree
         /\ Gated(Retry(s)) \in FactFree
         /\ Maybe(Tolerate(s)) \in FactFree /\ Maybe(Mixed(s)) \in FactFree
         /\ Mixed(s) \in FactFree /\ Maybe(Fatal(s)) \in FactFree
         /\ Maybe(Gated(Tolerate(s))) \in FactFree
<1>1. \A r \in Plain : r.section \notin Facts => r \in FactFree
  BY PlainSound DEF FactFree
<1>2. /\ Fatal(s) \in Plain /\ Tolerate(s) \in Plain /\ Mixed(s) \in Plain /\ Retry(s) \in Plain
      /\ Fatal(s).section = s /\ Tolerate(s).section = s
      /\ Mixed(s).section = s /\ Retry(s).section = s
  BY AskPlain DEF Fatal, Tolerate, Mixed, Retry, Ask
<1>3. \A r \in Plain : /\ Gated(r) \in Plain /\ Gated(r).section = r.section
                       /\ Maybe(r) \in Plain /\ Maybe(r).section = r.section
  <2> TAKE r \in Plain
  <2>1. Gated(r).section = r.section /\ Maybe(r).section = r.section
    BY DEF Gated, Maybe, Plain, Query
  <2> QED BY <2>1, ModifiedPlain
<1>4. /\ Fatal(s) \in FactFree /\ Tolerate(s) \in FactFree /\ Mixed(s) \in FactFree
  BY <1>1, <1>2
<1>5. /\ Gated(Fatal(s)) \in FactFree /\ Gated(Mixed(s)) \in FactFree /\ Gated(Retry(s)) \in FactFree
      /\ Maybe(Tolerate(s)) \in FactFree /\ Maybe(Mixed(s)) \in FactFree
      /\ Maybe(Fatal(s)) \in FactFree
  BY <1>1, <1>2, <1>3
<1>6. Maybe(Gated(Tolerate(s))) \in FactFree
  BY <1>1, <1>2, <1>3
<1> QED BY <1>4, <1>5, <1>6

LEMMA SingleFree ==
  ASSUME NEW s \in Sections \ Facts
  PROVE  /\ <<Fatal(s)>> \in DbPlans /\ <<Tolerate(s)>> \in DbPlans /\ <<Mixed(s)>> \in DbPlans
         /\ <<Gated(Fatal(s))>> \in DbPlans /\ <<Gated(Mixed(s))>> \in DbPlans
         /\ <<Gated(Retry(s))>> \in DbPlans
         /\ <<Maybe(Tolerate(s))>> \in DbPlans /\ <<Maybe(Mixed(s))>> \in DbPlans
         /\ <<Maybe(Fatal(s))>> \in DbPlans
         /\ <<Maybe(Gated(Tolerate(s)))>> \in DbPlans
<1>1. \A r \in FactFree : <<r>> \in DbPlans
  BY DEF DbPlans
<1> QED BY <1>1, SectionStays

\* The parts of a database's plan.
LEMMA DatabasePlanParts ==
  ASSUME NEW sizes \in BOOLEAN
  PROVE  /\ getTables(sizes) \in DbPlans /\ getIndexes(sizes) \in DbPlans
         /\ getPartitionInfo \in DbPlans /\ getParentInfo \in DbPlans /\ getIndexDef \in DbPlans
         /\ getSequences \in DbPlans /\ getUserFunctions \in DbPlans /\ getExtensions \in DbPlans
         /\ getDisabledTriggers \in DbPlans /\ getStatements \in DbPlans /\ getBloat \in DbPlans
         /\ getPublications \o getSubscriptions \in DbPlans /\ getCitus(sizes) \in DbPlans
<1>1. /\ getTables(sizes) \in DbPlans /\ getIndexes(sizes) \in DbPlans
      /\ getPartitionInfo \in DbPlans /\ getParentInfo \in DbPlans /\ getIndexDef \in DbPlans
  BY SingleFree DEF Sections, Facts, getTables, getIndexes, getPartitionInfo, getParentInfo, getIndexDef
<1>2. /\ getSequences \in DbPlans /\ getUserFunctions \in DbPlans /\ getExtensions \in DbPlans
      /\ getDisabledTriggers \in DbPlans /\ getStatements \in DbPlans /\ getBloat \in DbPlans
  BY SingleFree DEF Sections, Facts, getSequences, getUserFunctions, getExtensions, getDisabledTriggers,
       getStatements, getBloat
<1>3. getPublications \o getSubscriptions \in DbPlans
  BY SingleFree, DbPlansJoin DEF Sections, Facts, getPublications, getSubscriptions
<1>4. getCitus(sizes) \in DbPlans
  <2>1. /\ \A s \in Sections \ Facts : Maybe(Tolerate(s)) \in FactFree
        /\ \A s \in Sections \ Facts : <<Maybe(Tolerate(s))>> \in DbPlans
    BY SectionStays, SingleFree
  <2>2. \A a, b, c, d, e, f, g \in FactFree : <<a, b, c, d, e, f, g>> \in DbPlans
    BY DEF DbPlans
  <2>3. When(sizes, <<Maybe(Tolerate("CitusTableSizes"))>>) \in DbPlans
    BY <2>1, NoDbPlan DEF When, Sections, Facts
  <2>4. <<Maybe(Tolerate("CitusNodes")), Maybe(Tolerate("CitusStatements")),
          Maybe(Tolerate("CitusBackends")), Maybe(Tolerate("CitusWorkerBackends")),
          Maybe(Tolerate("CitusLocks")), Maybe(Tolerate("CitusTables")),
          Maybe(Tolerate("CitusNodeIDs"))>> \in DbPlans
    <3>1. /\ Maybe(Tolerate("CitusNodes")) \in FactFree /\ Maybe(Tolerate("CitusStatements")) \in FactFree
          /\ Maybe(Tolerate("CitusBackends")) \in FactFree
          /\ Maybe(Tolerate("CitusWorkerBackends")) \in FactFree
          /\ Maybe(Tolerate("CitusLocks")) \in FactFree /\ Maybe(Tolerate("CitusTables")) \in FactFree
          /\ Maybe(Tolerate("CitusNodeIDs")) \in FactFree
      <4>1. {"CitusNodes", "CitusStatements", "CitusBackends", "CitusWorkerBackends",
             "CitusLocks", "CitusTables", "CitusNodeIDs"} \subseteq Sections \ Facts
        BY DEF Sections, Facts
      <4> QED BY <2>1, <4>1, Zenon
    <3> QED BY <2>2, <3>1, Zenon
  <2>5. <<Maybe(Tolerate("CitusVersion"))>> \in DbPlans
    BY <2>1 DEF Sections, Facts
  <2>6. <<Maybe(Tolerate("CitusVersion"))>> \o When(sizes, <<Maybe(Tolerate("CitusTableSizes"))>>)
          \in DbPlans
    BY <2>3, <2>5, DbPlansJoin
  <2> QED BY <2>4, <2>6, DbPlansJoin DEF getCitus
<1> QED BY <1>1, <1>2, <1>3, <1>4

\* A database's plan.
LEMMA DatabasePlan ==
  ASSUME NEW v \in Nat, NEW sizes \in BOOLEAN, NEW omit
  PROVE  collectDatabase(v, sizes, omit) \in DbPlans
<1> HIDE DEF DbPlans
<1> QED
  BY DatabasePlanParts, NoDbPlan, DbPlansJoin DEF collectDatabase, When

-----------------------------------------------------------------------------
(***************************************************************************)
(* The types of the variables, and the plan that is made of sound queries. *)
(***************************************************************************)
TypeInv == TypeOK /\ todo \in Plans

\* What the options and the server are.
LEMMA WorldFacts ==
  ASSUME o \in Worlds
  PROVE  /\ o.args \in Seq(Names) /\ o.userDBs \in Seq(Names)
         /\ o.conninfo \in BOOLEAN /\ o.role \in BOOLEAN /\ o.sizes \in BOOLEAN
         /\ o.rds \in BOOLEAN
         /\ o.hosts \subseteq Hosts /\ o.hosts # {} /\ NoHost \notin o.hosts
         /\ o.version \in [Hosts -> Nat \ {0}]
         /\ o.local \in [Hosts -> BOOLEAN] /\ o.standby \in [Hosts -> BOOLEAN]
         /\ o.lands \in [Names \cup {NoName} -> Databases \cup {Console}]
<1>1. o \in World
  BY WorldsAreWorlds
<1>2. /\ o.args \in Seq(Names) /\ o.userDBs \in Seq(Names)
      /\ o.conninfo \in BOOLEAN /\ o.role \in BOOLEAN /\ o.sizes \in BOOLEAN
      /\ o.rds \in BOOLEAN
      /\ o.lands \in [Names \cup {NoName} -> Databases \cup {Console}]
  BY <1>1, Zenon DEF World
<1>3. o.version \in [Hosts -> Nat \ {0}]
      /\ o.local \in [Hosts -> BOOLEAN] /\ o.standby \in [Hosts -> BOOLEAN]
  BY <1>1, Zenon DEF World
<1>4. o.hosts \subseteq Hosts /\ o.hosts # {} /\ NoHost \notin o.hosts
  <2>1. o.hosts \in (SUBSET Hosts) \ {{}}
    BY <1>1, Zenon DEF World
  <2>2. \A h \in o.hosts : h \in Hosts
    BY <2>1
  <2>3. o.hosts # {}
    BY <2>1
  <2> QED BY <2>2, <2>3, HostsAreHosts, Zenon
<1> QED BY <1>2, <1>3, <1>4, Zenon

\* The version is a number, 0 until it is known; whoever is asked is a host.
LEMMA HostFacts ==
  ASSUME TypeInv
  PROVE  /\ version \in Nat
         /\ Reached \subseteq o.hosts /\ Reached # {}
         /\ \A h \in o.hosts : /\ o.version[h] \in Nat /\ o.version[h] # 0
                               /\ o.local[h] \in BOOLEAN /\ o.standby[h] \in BOOLEAN
<1>1. \A h \in o.hosts : /\ o.version[h] \in Nat /\ o.version[h] # 0
                         /\ o.local[h] \in BOOLEAN /\ o.standby[h] \in BOOLEAN
  BY WorldFacts DEF TypeInv, TypeOK
<1>2. version \in Nat
  BY <1>1 DEF TypeInv, TypeOK, FactsType
<1>3. Reached \subseteq o.hosts /\ Reached # {}
  BY WorldFacts DEF Reached, TypeInv, TypeOK, SessionType
<1> QED BY <1>1, <1>2, <1>3

\* A plan is a sequence of queries.
LEMMA PlansAreQueries == Plans \subseteq Seq(Query)
<1>1. Sound \subseteq Query
  BY DEF Sound
<1> QED BY <1>1, SeqMonotonic DEF Plans

\* The query that is asked is sound, and so is the rest of the plan.
LEMMA TheQuery ==
  ASSUME todo \in Plans, todo # <<>>
  PROVE  q \in Sound /\ q \in Query /\ Tail(todo) \in Plans
<1>1. q \in Sound /\ Tail(todo) \in Plans
  BY HeadTailProperties DEF q, Plans
<1> QED BY <1>1 DEF Sound

\* Sending a query, and losing its connection.
LEMMA SentTypes ==
  ASSUME TypeInv, Asking, Fails \/ StaysOpen, o' = o
  PROVE  SessionType' /\ HistoryType'
<1> USE DEF TypeInv, TypeOK
<1>1. q \in Query
  BY TheQuery DEF Asking
<1>2. q.section \in Sections
  BY <1>1 DEF Query
<1>3. o.role \in BOOLEAN
  BY WorldFacts
<1>4. ASSUME NEW h \in o.hosts, Send(h)
      PROVE  bare' \in BOOLEAN /\ blind' \subseteq Sections /\ asked' \subseteq o.hosts
  <2>1. blind' \subseteq Sections
    BY <1>2, <1>4 DEF Send, HistoryType
  <2>2. bare' \in BOOLEAN
    BY <1>4, <1>3, Zenon DEF Send, HistoryType, SessionType
  <2>3. asked' \subseteq o.hosts
    BY <1>4 DEF Send, HistoryType
  <2> QED BY <2>1, <2>2, <2>3
<1>5. Ctx("live") \in {"live", "expired"}
  BY DEF Ctx, SessionType
<1>6. CASE StaysOpen
  <2>1. SessionType'
    <3>1. conn' \in o'.hosts \cup {NoHost} /\ ctx' \in {"live", "expired"}
      BY <1>5, <1>6, HostFacts DEF StaysOpen
    <3>2. asRole' \in BOOLEAN
      BY <1>6, Zenon DEF StaysOpen, SessionType
    <3> QED BY <3>1, <3>2, Zenon DEF SessionType
  <2>2. HistoryType'
    <3>1. clusters' = clusters /\ lostConn' = lostConn /\ Send(conn') /\ conn' \in o.hosts
      BY <1>6, HostFacts DEF StaysOpen
    <3> QED BY <1>4, <3>1, Zenon DEF HistoryType
  <2> QED BY <2>1, <2>2
<1>7. CASE IsClosed
  <2>1. SessionType'
    BY <1>5, <1>7 DEF IsClosed, SessionType
  <2>2. HistoryType'
    <3>1. PICK h \in o.hosts : clusters' = clusters /\ lostConn' = TRUE /\ Send(h)
      BY <1>7, HostFacts DEF IsClosed
    <3> QED BY <1>4, <3>1, Zenon DEF HistoryType
  <2> QED BY <2>1, <2>2
<1>8. CASE ctx' \in {Ctx("live"), "expired"} /\ UNCHANGED <<conn, asRole, history>>
  BY <1>5, <1>8 DEF SessionType, HistoryType, history
<1>9. CASE UNCHANGED <<session, history>>
  BY <1>9 DEF SessionType, HistoryType, session, history
<1> QED BY <1>6, <1>7, <1>8, <1>9 DEF Fails

\* The steps before and after the databases, and between two of them.
LEMMA TypeOutside ==
  ASSUME TypeInv,
         \/ Parse \/ GetDBNames \/ GetDBNamesFails \/ GetConn \/ GetConnFails \/ NoMoreDBs
         \/ CollectCluster \/ EndDB \/ CollectLogs \/ CollectFromRDS \/ CollectFromAzure
         \/ Process \/ ProcessFails
  PROVE  TypeInv'
<1> USE DEF TypeInv, TypeOK
<1> HIDE DEF Plans
<1> USE PlansAreQueries, WorldFacts
<1>1. CASE Die("own")
  BY <1>1 DEF Die, PlaceType, TargetType, SessionType, FactsType, ResultType, EndingType,
              HistoryType, target, session, facts, result, history
<1>2. CASE Parse
  BY <1>2 DEF Parse, PlaceType, TargetType, SessionType, FactsType, ResultType, EndingType,
              HistoryType, session, facts, result, ending, history
<1>3. CASE GetDBNames
  BY <1>3 DEF GetDBNames, PlaceType, TargetType, SessionType, FactsType, ResultType, EndingType,
              HistoryType, session, facts, result, ending, history
<1>4. CASE GetConn
  <2>1. todo' \in Plans
    BY <1>4, FirstPlan, HeadPlans DEF GetConn
  <2>2. PlaceType'
    BY <1>4, <2>1 DEF GetConn, PlaceType
  <2>3. SessionType'
    BY <1>4 DEF GetConn, SetsRole, SessionType
  <2> QED
    BY <1>4, <2>1, <2>2, <2>3 DEF GetConn, TargetType, FactsType, ResultType, EndingType,
              HistoryType, target, facts, result, ending, history
<1>5. CASE NoMoreDBs
  BY <1>5 DEF NoMoreDBs, PlaceType, TargetType, SessionType, FactsType, ResultType, EndingType,
              HistoryType, target, session, facts, result, ending, history
<1>6. CASE CollectCluster
  <2>1. version \in Nat
    BY HostFacts
  <2>2. (LogsWanted /\ local) \in BOOLEAN
    BY DEF LogsWanted
  <2>3. collectCluster(version, o.sizes, LogsWanted /\ local) \in Plans
    BY <2>1, <2>2, ClusterPlan
  <2>4. todo' \in Plans
    BY <1>6, <2>3, NoPlan, HeadPlans, PlansJoin DEF CollectCluster, StartCluster
  <2>5. PlaceType'
    BY <1>6, <2>4 DEF CollectCluster, StartCluster, PlaceType
  <2>6. HistoryType'
    BY <1>6 DEF CollectCluster, StartCluster, HistoryType
  <2> QED
    BY <1>6, <2>4, <2>5, <2>6 DEF CollectCluster, StartCluster, TargetType, SessionType,
              FactsType, ResultType, EndingType, target, session, facts, result, ending
<1>7. CASE EndDB
  <2>1. PlaceType' /\ TargetType' /\ EndingType' /\ ResultType'
    BY <1>7 DEF EndDB, CloseDB, PlaceType, TargetType, EndingType, ResultType, target, result,
       ending
  <2>2. SessionType' /\ FactsType' /\ HistoryType'
    BY <1>7 DEF EndDB, CloseDB, SessionType, FactsType, HistoryType, facts, history
  <2> QED BY <1>7, <2>1, <2>2 DEF EndDB, CloseDB
<1>8. CASE CollectLogs
  <2>1. PlaceType' /\ TargetType' /\ EndingType' /\ ResultType'
    BY <1>8 DEF CollectLogs, PlaceType, TargetType, EndingType, ResultType, target, ending
  <2>2. SessionType' /\ FactsType' /\ HistoryType'
    BY <1>8 DEF CollectLogs, SessionType, FactsType, HistoryType, session, facts, history
  <2> QED BY <1>8, <2>1, <2>2 DEF CollectLogs
<1>9. CASE CollectFromRDS
  <2>1. PlaceType' /\ TargetType' /\ EndingType'
    BY <1>9 DEF CollectFromRDS, PlaceType, TargetType, EndingType, target, ending
  <2>2. ResultType'
    BY <1>9 DEF CollectFromRDS, ResultType
  <2>3. SessionType' /\ FactsType' /\ HistoryType'
    BY <1>9 DEF CollectFromRDS, SessionType, FactsType, HistoryType, session, facts, history
  <2> QED BY <1>9, <2>1, <2>2, <2>3 DEF CollectFromRDS
<1>10. CASE CollectFromAzure
  BY <1>10 DEF CollectFromAzure, PlaceType, TargetType, SessionType, FactsType, ResultType,
              EndingType, HistoryType, target, session, facts, result, ending, history
<1>11. CASE Process
  BY <1>11 DEF Process, PlaceType, TargetType, SessionType, FactsType, ResultType,
              EndingType, HistoryType, target, session, facts, result, history
<1> QED
  BY <1>1, <1>2, <1>3, <1>4, <1>5, <1>6, <1>7, <1>8, <1>9, <1>10, <1>11
     DEF GetDBNamesFails, GetConnFails, ProcessFails

\* The steps of one query.
LEMMA TypeQuery ==
  ASSUME TypeInv, RunQuery \/ ServerCloses
  PROVE  TypeInv'
<1> USE DEF TypeInv, TypeOK
<1> HIDE DEF Plans
<1> USE PlansAreQueries, WorldFacts
<1>0. Asking /\ q \in Sound /\ q \in Query /\ Tail(todo) \in Plans
  BY TheQuery DEF RunQuery, AnswerSettings, AnswerLocal, AnswerInRecovery,
     AnswerCurrentDatabase, AnswerRows, Answered, NotNeeded, TolerateFailure,
     RetryWithoutSizes, FatalFailure, ServerCloses, Asking
<1>1. Answered => Fails
  BY DEF Answered, CanAnswer, Fails
<1>2. ASSUME Goes PROVE PlaceType' /\ TargetType' /\ EndingType' /\ todo' \in Plans
                        /\ o' \in Worlds /\ beenHere' \in BOOLEAN
                        /\ logs' = logs /\ rdsResult' = rdsResult
  BY <1>0, <1>2 DEF Goes, PlaceType, TargetType, EndingType, target, ending
<1>3. CASE AnswerSettings \/ AnswerLocal \/ AnswerInRecovery
  <2>1. Goes /\ SessionType' /\ HistoryType' /\ collectedDBs' = collectedDBs /\ o' = o
    BY <1>0, <1>1, <1>3, SentTypes DEF AnswerSettings, AnswerLocal, AnswerInRecovery, Answered, Goes
  <2>2. FactsType'
    <3>1. conn' \in o.hosts
      BY <1>3, HostFacts DEF AnswerSettings, AnswerLocal, AnswerInRecovery, Answered, StaysOpen
    <3>2. o.local[conn'] \in BOOLEAN /\ o.standby[conn'] \in BOOLEAN
      BY <3>1, HostFacts
    <3>3. /\ version' = version \/ version' = o.version[conn']
          /\ local' = local \/ local' = o.local[conn']
          /\ inRecovery' = inRecovery \/ inRecovery' = o.standby[conn']
      BY <1>3 DEF AnswerSettings, AnswerLocal, AnswerInRecovery
    <3>4. version' \in {0} \cup {o'.version[h] : h \in o'.hosts}
      BY <2>1, <3>1, <3>3 DEF FactsType
    <3>5. local' \in BOOLEAN /\ inRecovery' \in BOOLEAN
      BY <3>2, <3>3, Zenon DEF FactsType
    <3> QED BY <3>4, <3>5 DEF FactsType
  <2>3. ResultType'
    BY <1>2, <2>1 DEF ResultType
  <2> QED BY <1>2, <2>1, <2>2, <2>3
<1>4. CASE AnswerCurrentDatabase
  <2>1. SessionType' /\ HistoryType' /\ FactsType'
    BY <1>0, <1>1, <1>4, SentTypes DEF AnswerCurrentDatabase, FactsType, facts
  <2>2. version \in Nat
    BY HostFacts
  <2>3. collectDatabase(version, o.sizes, o.omit) \in Plans
    BY <2>2, DatabasePlan, FreePlans
  <2>4. todo' \in Plans
    BY <1>0, <1>4, <2>3, PlansJoin DEF AnswerCurrentDatabase
  <2>5. ResultType'
    <3>1. collectedDBs' = collectedDBs \/ collectedDBs' = Append(collectedDBs, Here)
      BY <1>4 DEF AnswerCurrentDatabase, CurrentDB
    <3>2. Here \in Databases /\ logs' = logs /\ rdsResult' = rdsResult
      BY <1>4 DEF AnswerCurrentDatabase
    <3>3. collectedDBs' \in Seq(Databases)
      BY <3>1, <3>2, AppendProperties DEF ResultType
    <3> QED BY <3>2, <3>3 DEF ResultType
  <2>6. PlaceType' /\ TargetType' /\ EndingType' /\ o' \in Worlds /\ beenHere' \in BOOLEAN
    BY <1>4, <2>4 DEF AnswerCurrentDatabase, PlaceType, TargetType, EndingType, target, ending
  <2> QED BY <2>1, <2>4, <2>5, <2>6
<1>5. CASE AnswerRows \/ NotNeeded \/ TolerateFailure
  <2>1. Goes /\ UNCHANGED <<facts, collectedDBs>>
    BY <1>5 DEF AnswerRows, NotNeeded, TolerateFailure
  <2>2. SessionType' /\ HistoryType'
    BY <1>0, <1>1, <1>5, <2>1, SentTypes
       DEF AnswerRows, NotNeeded, TolerateFailure, session, history, SessionType, HistoryType, Goes
  <2>3. FactsType' /\ ResultType'
    BY <1>2, <2>1 DEF FactsType, ResultType, facts, Goes
  <2> QED BY <1>2, <2>1, <2>2, <2>3
<1>6. CASE RetryWithoutSizes
  <2>1. SessionType' /\ HistoryType'
    BY <1>0, <1>6, SentTypes DEF RetryWithoutSizes
  <2>2. Gated(Fatal(q.section)) \in Plain
    BY <1>0, AskPlain, ModifiedPlain DEF Query
  <2>3. todo' \in Plans
    BY <1>0, <1>6, <2>2, PlainSound, OnePlan, PlansJoin DEF RetryWithoutSizes
  <2>4. PlaceType' /\ TargetType' /\ EndingType'
    BY <1>6, <2>3 DEF RetryWithoutSizes, PlaceType, TargetType, EndingType, target, ending
  <2>5. FactsType' /\ ResultType'
    BY <1>6 DEF RetryWithoutSizes, FactsType, ResultType, facts, result
  <2>6. o' \in Worlds /\ beenHere' \in BOOLEAN
    BY <1>6 DEF RetryWithoutSizes
  <2> QED BY <2>1, <2>3, <2>4, <2>5, <2>6
<1>7. CASE FatalFailure
  BY <1>7 DEF FatalFailure, Die, PlaceType, TargetType, SessionType, FactsType, ResultType,
              EndingType, HistoryType, target, session, facts, result, history
<1>8. CASE ServerCloses
  <2>1. PlaceType' /\ TargetType' /\ EndingType' /\ ResultType'
    BY <1>8 DEF ServerCloses, PlaceType, TargetType, EndingType, ResultType, place, target,
       result, ending
  <2>2. SessionType' /\ FactsType' /\ HistoryType'
    BY <1>8 DEF ServerCloses, SessionType, FactsType, HistoryType, facts
  <2> QED BY <1>8, <2>1, <2>2 DEF ServerCloses, place
<1> QED BY <1>3, <1>4, <1>5, <1>6, <1>7, <1>8 DEF RunQuery

LEMMA TypeInit == Init => TypeInv
<1> SUFFICES ASSUME Init PROVE TypeInv
  OBVIOUS
<1>1. todo \in Plans /\ todo \in Seq(Query)
  BY NoPlan, PlansAreQueries DEF Init
<1>2. PlaceType /\ TargetType /\ EndingType /\ ResultType
  <2>1. PlaceType /\ EndingType
    BY <1>1 DEF Init, PlaceType, EndingType
  <2>2. TargetType
    BY DEF Init, TargetType
  <2>3. ResultType
    <3>1. collectedDBs \in Seq(Databases)
      BY DEF Init
    <3>2. logs \subseteq {"local", "rds"}
      BY DEF Init
    <3> QED BY <3>1, <3>2 DEF Init, ResultType
  <2> QED BY <2>1, <2>2, <2>3
<1>3. SessionType /\ FactsType /\ HistoryType
  BY DEF Init, SessionType, FactsType, HistoryType
<1> QED BY <1>1, <1>2, <1>3 DEF Init, TypeInv, TypeOK

LEMMA TypeStep == TypeInv /\ [Next]_vars => TypeInv'
<1> SUFFICES ASSUME TypeInv, [Next]_vars PROVE TypeInv'
  OBVIOUS
<1>1. CASE UNCHANGED vars
  BY <1>1 DEF vars, TypeInv, TypeOK, PlaceType, TargetType, SessionType, FactsType, ResultType,
     EndingType, HistoryType, place, target, session, facts, result, ending, history
<1> QED BY <1>1, TypeOutside, TypeQuery DEF Next, Program

\* The variables of a run keep their types; every plan is a sequence of queries.
THEOREM RunTypeCorrect == Spec => []TypeOK
<1>1. TypeInv => TypeOK
  BY DEF TypeInv
<1> QED BY TypeInit, TypeStep, <1>1, PTL DEF Spec


-----------------------------------------------------------------------------
(***************************************************************************)
(* A fatal failure stops the run at its query, which is still the first of *)
(* the plan then.                                                          *)
(***************************************************************************)
DieInv == cause # "none" => pc = "done" /\ DiesOfItsOwn

\* Nothing happens in a run that is done.
LEMMA DoneIsDone ==
  ASSUME pc = "done", [Next]_vars
  PROVE  UNCHANGED vars
BY DEF Next, Program, RunQuery, Parse, GetDBNames, GetDBNamesFails, GetConn, GetConnFails,
       NoMoreDBs, AnswerSettings, AnswerLocal, AnswerInRecovery, AnswerCurrentDatabase,
       AnswerRows, Answered, NotNeeded, TolerateFailure, RetryWithoutSizes, FatalFailure,
       CollectCluster, StartCluster, EndDB, CloseDB, CollectLogs, CollectFromRDS,
       CollectFromAzure, Process, ProcessFails, ServerCloses, Asking

\* The steps that do not die do not touch the cause.
LEMMA CauseStep ==
  ASSUME [Next]_vars
  PROVE  \/ cause' = cause
         \/ FatalFailure
         \/ Die("own")
<1> USE DEF ending
<1>1. Parse \/ GetDBNames \/ GetDBNamesFails \/ GetConn \/ GetConnFails \/ NoMoreDBs
        => cause' = cause \/ Die("own")
  BY DEF Parse, GetDBNames, GetDBNamesFails, GetConn, GetConnFails, NoMoreDBs
<1>2. RunQuery \/ ServerCloses => cause' = cause \/ FatalFailure
  BY DEF RunQuery, ServerCloses, AnswerSettings, AnswerLocal, AnswerInRecovery,
     AnswerCurrentDatabase, AnswerRows, NotNeeded, TolerateFailure, RetryWithoutSizes, Goes
<1>3. CollectCluster \/ EndDB \/ CollectLogs \/ CollectFromRDS \/ CollectFromAzure
        \/ Process \/ ProcessFails => cause' = cause \/ Die("own")
  BY DEF CollectCluster, StartCluster, EndDB, CloseDB, CollectLogs, CollectFromRDS,
     CollectFromAzure, Process, ProcessFails
<1> QED BY <1>1, <1>2, <1>3 DEF Next, Program, vars

LEMMA DieStep ==
  ASSUME TypeInv, DieInv, [Next]_vars
  PROVE  DieInv'
<1>1. CASE cause # "none"
  <2>1. UNCHANGED vars
    BY <1>1, DoneIsDone DEF DieInv
  <2> QED BY <2>1 DEF DieInv, DiesOfItsOwn, q, vars, place, ending
<1>2. CASE cause = "none" /\ cause' = cause
  BY <1>2 DEF DieInv
<1>3. CASE Die("own")
  BY <1>3 DEF Die, DieInv, DiesOfItsOwn
<1>4. CASE FatalFailure
  <2>1. todo' = todo /\ pc' = "done" /\ q' = q
    BY <1>4 DEF FatalFailure, Die, q
  <2>2. q \in Sound
    BY <1>4, TheQuery DEF FatalFailure, Asking, TypeInv
  <2>3. q.policy # "tolerate"
    BY <1>4 DEF FatalFailure
  <2>4. cause' \in {"inherited", "misled"} => q.section = "WALLSN"
    BY <1>4, <2>2, <2>3 DEF FatalFailure, Die, Misled, Sound, Inherited
  <2> QED BY <2>1, <2>4 DEF DieInv, DiesOfItsOwn
<1> QED BY <1>1, <1>2, <1>3, <1>4, CauseStep

\* Whatever the options, versions and servers: a run that a fatal failure ends
\* for what happened to an earlier, tolerated query ends at the WAL position.
THEOREM DeathsAreOwn == Spec => []DiesOfItsOwn
<1>1. Init => DieInv
  BY DEF Init, DieInv
<1>2. TypeInv /\ DieInv => DiesOfItsOwn
  BY DEF DieInv, DiesOfItsOwn
<1>3. TypeInv /\ DieInv /\ [Next]_vars => DieInv'
  BY DieStep
<1> QED BY TypeInit, TypeStep, <1>1, <1>2, <1>3, PTL DEF Spec

-----------------------------------------------------------------------------
(***************************************************************************)
(* The cluster is collected once, in a run that knows the version.         *)
(*                                                                         *)
(* While the head of collectPostgres runs, either the settings are still   *)
(* to be asked for or the version is known; from the first database on the *)
(* cluster is done.  The first database is never the last name plus one.   *)
(***************************************************************************)
user     == Fatal("Username")
settings == Gated(Fatal("Settings"))
place_   == Tolerate("Local")

HeadPlan == \/ todo = <<user, settings, place_>>
            \/ todo = <<settings, place_>>
            \/ version # 0 /\ (todo = <<place_>> \/ todo = <<>>)

ClusterDone == clusters = 1 /\ version # 0

StageInv ==
  /\ ~beenHere => turn = 1
  /\ pc \in {"parse", "names", "head"} => ~beenHere
  /\ pc \in {"parse", "names", "head"} \/ (pc = "connect" /\ ~beenHere) => clusters = 0
  /\ pc = "head" => mode = "postgres" /\ HeadPlan
  /\ mode = "postgres" =>
       \/ ClusterDone
       \/ pc \in {"parse", "names", "head", "done"}
       \/ pc = "connect" /\ ~beenHere
  /\ exit = "report" => pc = "done" /\ (mode = "postgres" => ClusterDone)
  /\ clusters \in {0, 1} /\ (clusters = 1 => version # 0)

LEMMA FirstPlanPostgres ==
  ASSUME mode = "postgres"
  PROVE  collectFirst = <<user, settings, place_>>
<1>1. collectFirst = <<user>> \o <<settings>> \o <<place_>>
  BY DEF collectFirst, getCurrentUser, getSettings, getLocal, user, settings, place_
<1>2. \A a, b, c : <<a>> \o <<b>> \o <<c>> = <<a, b, c>>
  <2> TAKE a, b, c
  <2> DEFINE S  == {a, b, c}
             s1 == <<a>> \o <<b>>
             s2 == s1 \o <<c>>
  <2>1. /\ <<a>> \in Seq(S) /\ <<b>> \in Seq(S) /\ <<c>> \in Seq(S)
        /\ <<a, b, c>> \in Seq(S)
    OBVIOUS
  <2>2. s1 \in Seq(S) /\ Len(s1) = 2 /\ s1[1] = a /\ s1[2] = b
    BY <2>1, ConcatProperties
  <2> HIDE DEF s1, S
  <2>3. s2 \in Seq(S) /\ Len(s2) = 3 /\ s2[1] = a /\ s2[2] = b /\ s2[3] = c
    BY <2>1, <2>2, ConcatProperties
  <2> HIDE DEF s2
  <2>4. \A i \in 1 .. 3 : s2[i] = <<a, b, c>>[i]
    BY <2>3
  <2>5. s2 = <<a, b, c>>
    BY <2>1, <2>3, <2>4, SeqEqual
  <2> QED BY <2>5 DEF s2, s1
<1> QED BY <1>1, <1>2, Zenon


LEMMA HeadQueries ==
  /\ user.section = "Username" /\ user.policy = "fatal" /\ ~user.gated /\ ~user.maybe
  /\ settings.section = "Settings" /\ settings.policy = "fatal" /\ ~settings.maybe
  /\ place_.section = "Local" /\ place_.policy = "tolerate" /\ ~place_.gated /\ ~place_.maybe
BY DEF user, settings, place_, Fatal, Tolerate, Gated, Ask

\* A query that does not end the run leaves the place in it, but for the plan.
LEMMA QueryFrame ==
  ASSUME RunQuery \/ ServerCloses, ~FatalFailure
  PROVE  /\ UNCHANGED <<o, pc, turn, mode, dbnames, beenHere, exit, clusters>>
         /\ AnswerSettings \/ UNCHANGED version
<1>1. Fails \/ StaysOpen => UNCHANGED clusters
  BY DEF Fails, StaysOpen, IsClosed, history
<1> USE <1>1
<1>2. AnswerSettings \/ AnswerLocal \/ AnswerInRecovery \/ AnswerCurrentDatabase \/ AnswerRows
        => UNCHANGED <<o, pc, turn, mode, dbnames, beenHere, exit, clusters>>
  BY DEF AnswerSettings, AnswerLocal, AnswerInRecovery, AnswerCurrentDatabase, AnswerRows,
     Answered, Goes, target, ending
<1>4. AnswerLocal \/ AnswerInRecovery \/ AnswerCurrentDatabase \/ AnswerRows
        => UNCHANGED version
  BY DEF AnswerLocal, AnswerInRecovery, AnswerCurrentDatabase, AnswerRows, facts
<1>5. NotNeeded \/ TolerateFailure \/ RetryWithoutSizes \/ ServerCloses
        => UNCHANGED <<o, pc, turn, mode, dbnames, beenHere, exit, clusters, version>>
  BY DEF NotNeeded, TolerateFailure, RetryWithoutSizes, ServerCloses, Goes, target, ending,
     facts, history, place
<1> QED BY <1>2, <1>4, <1>5 DEF RunQuery

\* The settings say what the version is.
LEMMA VersionComes ==
  ASSUME TypeInv, AnswerSettings
  PROVE  version' # 0
<1>1. conn' \in o.hosts /\ version' = o.version[conn']
  BY HostFacts DEF AnswerSettings, Answered, StaysOpen
<1> QED BY <1>1, HostFacts

\* The head of collectPostgres, a query at a time.
LEMMA HeadStep ==
  ASSUME TypeInv, pc = "head", HeadPlan, RunQuery \/ ServerCloses, ~FatalFailure
  PROVE  HeadPlan'
<1> USE HeadQueries
<1>0. o' = o
  BY QueryFrame
<1>1. CASE ServerCloses
  BY <1>0, <1>1 DEF ServerCloses, place, facts, HeadPlan
<1>2. \A a, b, c : /\ Head(<<a, b, c>>) = a /\ Tail(<<a, b, c>>) = <<b, c>>
                   /\ Head(<<b, c>>) = b /\ Tail(<<b, c>>) = <<c>>
                   /\ Head(<<c>>) = c /\ Tail(<<c>>) = <<>>
  OBVIOUS
<1>3. CASE RunQuery /\ todo = <<user, settings, place_>>
  <2>1. q = user /\ Tail(todo) = <<settings, place_>>
    BY <1>2, <1>3 DEF q
  <2>2. AnswerRows
    BY <1>3, <2>1 DEF RunQuery, AnswerSettings, AnswerLocal, AnswerInRecovery,
       AnswerCurrentDatabase, NotNeeded, TolerateFailure, RetryWithoutSizes
  <2> QED BY <2>1, <2>2 DEF AnswerRows, Goes, HeadPlan
<1>4. CASE RunQuery /\ todo = <<settings, place_>>
  <2>1. q = settings /\ Tail(todo) = <<place_>>
    BY <1>2, <1>4 DEF q
  <2>2. AnswerSettings
    BY <1>4, <2>1 DEF RunQuery, AnswerRows, AnswerLocal, AnswerInRecovery,
       AnswerCurrentDatabase, NotNeeded, TolerateFailure, RetryWithoutSizes
  <2> QED BY <1>0, <2>1, <2>2, VersionComes DEF AnswerSettings, Goes, HeadPlan
<1>5. CASE RunQuery /\ version # 0 /\ todo = <<place_>>
  <2>1. q = place_ /\ Tail(todo) = <<>>
    BY <1>2, <1>5 DEF q
  <2>2. AnswerLocal \/ TolerateFailure
    BY <1>5, <2>1 DEF RunQuery, AnswerSettings, AnswerRows, AnswerInRecovery,
       AnswerCurrentDatabase, NotNeeded, RetryWithoutSizes
  <2> QED BY <1>0, <1>5, <2>1, <2>2 DEF AnswerLocal, TolerateFailure, Goes, HeadPlan, facts
<1>6. CASE RunQuery /\ todo = <<>>
  BY <1>6 DEF RunQuery, AnswerSettings, AnswerLocal, AnswerInRecovery, AnswerCurrentDatabase,
     AnswerRows, Answered, NotNeeded, TolerateFailure, RetryWithoutSizes, Asking
<1> QED BY <1>1, <1>3, <1>4, <1>5, <1>6 DEF HeadPlan

\* There is a first database.
LEMMA TurnsPositive == ASSUME TargetType PROVE Turns \in Nat \ {0}
<1>1. CASE dbnames = <<>>
  BY <1>1 DEF Turns
<1>2. CASE dbnames # <<>>
  <2>1. Len(dbnames) \in Nat /\ Len(dbnames) # 0
    BY <1>2, EmptySeq, LenProperties DEF TargetType
  <2> QED BY <1>2, <2>1 DEF Turns
<1> QED BY <1>1, <1>2

LEMMA StageStep ==
  ASSUME TypeInv, StageInv, [Next]_vars
  PROVE  StageInv'
<1> USE DEF StageInv, ClusterDone
<1>0. o \in Worlds /\ TargetType /\ turn \in Nat
  BY DEF TypeInv, TypeOK, PlaceType
<1>1. CASE UNCHANGED vars
  BY <1>1 DEF vars, place, target, facts, ending, history, HeadPlan
<1>2. CASE FatalFailure \/ Die("own")
  <2>1. /\ pc' = "done" /\ exit' = "fatal"
        /\ UNCHANGED <<o, turn, mode, version, beenHere, clusters>>
    BY <1>2 DEF FatalFailure, Die, target, facts, history
  <2> QED BY <2>1
<1>3. CASE (RunQuery \/ ServerCloses) /\ ~FatalFailure
  <2>1. CASE pc = "head"
    <3>1. HeadPlan'
      BY <1>3, <2>1, HeadStep
    <3> QED BY <1>0, <1>3, <2>1, <3>1, QueryFrame, VersionComes
  <2>2. CASE pc # "head"
    BY <1>0, <1>3, <2>2, QueryFrame, VersionComes
  <2> QED BY <2>1, <2>2
<1>4. CASE Parse \/ GetDBNames
  BY <1>4 DEF Parse, GetDBNames, facts, ending, history
<1>5. CASE GetConn
  <2>1. /\ pc = "connect" /\ UNCHANGED <<o, turn, mode, version, beenHere, exit, clusters>>
        /\ pc' = IF ~beenHere /\ mode = "postgres" THEN "head" ELSE "query"
    BY <1>5 DEF GetConn, target, facts, ending, history
  <2>2. CASE ~beenHere /\ mode = "postgres"
    <3>1. todo' = <<user, settings, place_>>
      BY <1>5, <2>2, FirstPlanPostgres DEF GetConn
    <3>2. HeadPlan'
      BY <3>1, Zenon DEF HeadPlan, user, settings, place_, Fatal, Tolerate, Gated, Ask
    <3> QED BY <2>1, <2>2, <3>2
  <2>3. CASE ~(~beenHere /\ mode = "postgres")
    BY <2>1, <2>3
  <2> QED BY <2>2, <2>3
<1>6. CASE NoMoreDBs
  <2>1. turn # 1
    BY <1>0, <1>6, TurnsPositive DEF NoMoreDBs
  <2> QED BY <1>6, <2>1 DEF NoMoreDBs, target, facts, ending, history
<1>7. CASE CollectCluster
  <2>1. version # 0
    BY <1>7 DEF CollectCluster, StartCluster, HeadPlan
  <2> QED BY <1>7, <2>1 DEF CollectCluster, StartCluster, target, facts, ending
<1>8. CASE EndDB
  BY <1>8 DEF EndDB, CloseDB, target, facts, ending, history
<1>9. CASE CollectLogs \/ CollectFromRDS \/ CollectFromAzure
  BY <1>9 DEF CollectLogs, CollectFromRDS, CollectFromAzure, target, facts, ending, history
<1>10. CASE Process
  BY <1>10 DEF Process, target, facts, history
<1> QED
  BY <1>1, <1>2, <1>3, <1>4, <1>5, <1>6, <1>7, <1>8, <1>9, <1>10
     DEF Next, Program, GetDBNamesFails, GetConnFails, ProcessFails

LEMMA StageInit == Init => StageInv
BY DEF Init, StageInv

\* However many names there are: the cluster is collected once, in a run that
\* knows the version of the server.
THEOREM ClusterIsOnce == Spec => []ClusterOnce
<1>1. StageInv => ClusterOnce
  BY DEF StageInv, ClusterDone, ClusterOnce
<1>2. TypeInv /\ StageInv /\ [Next]_vars => StageInv'
  BY StageStep
<1> QED BY TypeInit, TypeStep, StageInit, <1>1, <1>2, PTL DEF Spec


-----------------------------------------------------------------------------
(***************************************************************************)
(* The version is known to the queries that depend on it.                  *)
(***************************************************************************)
BlindInv == VersionKnown /\ (pc = "parse" => blind = {})

\* What a query adds to blind.
LEMMA BlindQuery ==
  ASSUME TypeInv, StageInv, BlindInv, RunQuery \/ ServerCloses, mode = "postgres"
  PROVE  blind' \subseteq {"Settings"}
<1>1. Asking
  BY DEF RunQuery, AnswerSettings, AnswerLocal, AnswerInRecovery, AnswerCurrentDatabase,
     AnswerRows, Answered, NotNeeded, TolerateFailure, RetryWithoutSizes, FatalFailure,
     ServerCloses, Asking
<1>2. blind' = blind \/ \E h : Send(h)
  BY DEF RunQuery, AnswerSettings, AnswerLocal, AnswerInRecovery, AnswerCurrentDatabase,
     AnswerRows, Answered, NotNeeded, TolerateFailure, RetryWithoutSizes, FatalFailure,
     ServerCloses, Fails, StaysOpen, IsClosed, Die, history
<1>3. q.gated /\ version = 0 => q.section = "Settings"
  <2>1. CASE pc = "head"
    <3>1. \A a, b, c : Head(<<a, b, c>>) = a /\ Head(<<b, c>>) = b /\ Head(<<c>>) = c
      OBVIOUS
    <3>2. q \in {user, settings, place_}
      BY <1>1, <2>1, <3>1 DEF StageInv, HeadPlan, Asking, q
    <3> QED BY <3>2, HeadQueries
  <2>2. CASE pc = "query"
    <3>1. version # 0
      BY <2>2 DEF StageInv, ClusterDone
    <3> QED BY <3>1
  <2> QED BY <1>1, <2>1, <2>2 DEF Asking
<1> QED BY <1>2, <1>3 DEF Send, BlindInv, VersionKnown

LEMMA BlindStep ==
  ASSUME TypeInv, StageInv, BlindInv, [Next]_vars
  PROVE  BlindInv'
<1> USE DEF BlindInv, VersionKnown
<1>1. CASE RunQuery \/ ServerCloses
  <2>1. mode' = mode /\ pc' # "parse"
    BY <1>1, QueryFrame DEF FatalFailure, Die, target, RunQuery, AnswerSettings, AnswerLocal,
       AnswerInRecovery, AnswerCurrentDatabase, AnswerRows, Answered, NotNeeded,
       TolerateFailure, RetryWithoutSizes, ServerCloses, Asking
  <2> QED BY <1>1, <2>1, BlindQuery
<1>2. CASE Parse
  BY <1>2 DEF Parse, history
<1>3. CASE GetDBNames \/ GetDBNamesFails \/ GetConn \/ GetConnFails \/ NoMoreDBs
           \/ CollectCluster \/ EndDB
  BY <1>3 DEF GetDBNames, GetDBNamesFails, GetConn, GetConnFails, NoMoreDBs, CollectCluster,
     StartCluster, EndDB, CloseDB, Die, target, history
<1>4. CASE CollectLogs \/ CollectFromRDS \/ CollectFromAzure \/ Process \/ ProcessFails
  BY <1>4 DEF CollectLogs, CollectFromRDS, CollectFromAzure, Process, ProcessFails, Die,
     target, history
<1>5. CASE UNCHANGED vars
  BY <1>5 DEF vars, place, target, history
<1> QED BY <1>1, <1>2, <1>3, <1>4, <1>5 DEF Next, Program

\* Whatever the options, and however the queries end: no query but the one to
\* pg_settings takes the form for an unknown version.
THEOREM VersionIsKnown == Spec => []VersionKnown
<1>1. Init => BlindInv
  BY DEF Init, BlindInv, VersionKnown
<1>2. BlindInv => VersionKnown
  BY DEF BlindInv
<1>3. TypeInv /\ StageInv /\ BlindInv /\ [Next]_vars => BlindInv'
  BY BlindStep
<1> QED BY TypeInit, TypeStep, StageInit, StageStep, <1>1, <1>2, <1>3, PTL DEF Spec

-----------------------------------------------------------------------------
(***************************************************************************)
(* What a report says of the cluster is of one server.  While the first    *)
(* database is collected, that is the server of the pooled connection, if  *)
(* there is one, else nothing is known yet; afterwards nothing is asked    *)
(* that would add to it.                                                   *)
(***************************************************************************)
Fits(h) == /\ asked \subseteq {h}
           /\ version \in {0, o.version[h]}
           /\ inRecovery = TRUE => o.standby[h] = TRUE
           /\ local = TRUE \/ "local" \in logs => o.local[h] = TRUE

Blank == /\ asked = {} /\ version = 0 /\ inRecovery = FALSE
         /\ local = FALSE /\ "local" \notin logs

HostInv ==
  /\ beenHere => todo \in DbPlans
  /\ pc \in {"parse", "names", "connect"} => conn = NoHost
  /\ ~lostConn =>
       IF beenHere THEN \E h \in o.hosts : Fits(h)
       ELSE IF conn = NoHost THEN Blank ELSE Fits(conn)

\* A query that is answered, or that fails on a connection that stays, keeps to
\* the server of that connection.
LEMMA AskedFits ==
  ASSUME TypeInv, HostInv, StaysOpen, o' = o, beenHere' = beenHere, logs' = logs,
         ~lostConn, ~beenHere,
         version' = version \/ version' = o.version[conn'],
         local' = local \/ local' = o.local[conn'],
         inRecovery' = inRecovery \/ inRecovery' = o.standby[conn']
  PROVE  conn' # NoHost /\ Fits(conn)'
<1>1. conn' \in o.hosts /\ conn' # NoHost /\ asked' = asked \cup {conn'}
  BY HostFacts, WorldFacts DEF StaysOpen, Send, TypeInv, TypeOK
<1>2. Blank \/ (conn' = conn /\ Fits(conn))
  BY DEF HostInv, StaysOpen, Reached
<1>3. asked' \subseteq {conn'} /\ version' \in {0, o.version[conn']}
  BY <1>1, <1>2 DEF Blank, Fits
<1>4. inRecovery' = TRUE => o.standby[conn'] = TRUE
  BY <1>2 DEF Blank, Fits
<1>5. local' = TRUE \/ "local" \in logs' => o.local[conn'] = TRUE
  BY <1>2 DEF Blank, Fits
<1> QED BY <1>1, <1>3, <1>4, <1>5 DEF Fits

\* What is known stays, and so does what it fits.
LEMMA FitsStays ==
  ASSUME UNCHANGED <<o, asked, version, inRecovery, local, logs>>
  PROVE  (Blank => Blank') /\ \A h : Fits(h) => Fits(h)'
BY DEF Blank, Fits

\* The steps of one query.
LEMMA HostQuery ==
  ASSUME TypeInv, HostInv, RunQuery \/ ServerCloses, ~FatalFailure
  PROVE  HostInv'
<1>0. UNCHANGED <<o, pc, beenHere, logs>> /\ Asking
  BY DEF RunQuery, AnswerSettings, AnswerLocal, AnswerInRecovery, AnswerCurrentDatabase,
     AnswerRows, Answered, NotNeeded, TolerateFailure, RetryWithoutSizes, ServerCloses, Asking,
     Goes, place, result
<1>1. pc' \notin {"parse", "names", "connect"}
  BY <1>0 DEF Asking
<1>2. ASSUME beenHere PROVE todo' \in DbPlans /\ q \in FactFree
  <2>1. todo \in DbPlans /\ todo # <<>>
    BY <1>0, <1>2 DEF HostInv, Asking
  <2>2. q \in FactFree /\ Tail(todo) \in DbPlans
    BY <2>1, HeadTailProperties DEF q, DbPlans
  <2>3. CASE AnswerCurrentDatabase
    <3>1. collectDatabase(version, o.sizes, o.omit) \in DbPlans
      BY HostFacts, WorldFacts, DatabasePlan DEF TypeInv, TypeOK
    <3> QED BY <2>2, <2>3, <3>1, DbPlansJoin DEF AnswerCurrentDatabase
  <2>4. CASE RetryWithoutSizes
    <3>1. q.section \in Sections \ Facts
      BY <2>2 DEF FactFree, Sound, Query
    <3>2. <<Gated(Fatal(q.section))>> \in DbPlans
      BY <3>1, SingleFree
    <3> QED BY <2>2, <2>4, <3>2, DbPlansJoin DEF RetryWithoutSizes
  <2>5. CASE todo' = Tail(todo) \/ todo' = todo
    BY <2>1, <2>2, <2>5
  <2> QED
    BY <2>2, <2>3, <2>4, <2>5 DEF RunQuery, AnswerSettings, AnswerLocal, AnswerInRecovery,
       AnswerRows, NotNeeded, TolerateFailure, ServerCloses, Goes, place
<1>3. CASE lostConn' = TRUE
  BY <1>0, <1>1, <1>2, <1>3 DEF HostInv
<1>4. CASE beenHere /\ lostConn' = lostConn
  <2>1. UNCHANGED facts
    BY <1>2, <1>4 DEF RunQuery, AnswerSettings, AnswerLocal, AnswerInRecovery,
       AnswerCurrentDatabase, AnswerRows, NotNeeded, TolerateFailure, RetryWithoutSizes,
       ServerCloses, FactFree, Facts
  <2>2. asked' = asked
    BY <1>4 DEF RunQuery, AnswerSettings, AnswerLocal, AnswerInRecovery, AnswerCurrentDatabase,
       AnswerRows, Answered, NotNeeded, TolerateFailure, RetryWithoutSizes, ServerCloses,
       Fails, StaysOpen, IsClosed, Send, history
  <2>3. \A h : Fits(h) => Fits(h)'
    BY <1>0, <2>1, <2>2, FitsStays DEF facts
  <2> QED BY <1>0, <1>1, <1>2, <1>4, <2>3 DEF HostInv
<1>5. CASE ~beenHere /\ lostConn' = lostConn /\ StaysOpen
  <2>1. /\ version' = version \/ version' = o.version[conn']
        /\ local' = local \/ local' = o.local[conn']
        /\ inRecovery' = inRecovery \/ inRecovery' = o.standby[conn']
    BY DEF RunQuery, AnswerSettings, AnswerLocal, AnswerInRecovery, AnswerCurrentDatabase,
       AnswerRows, NotNeeded, TolerateFailure, RetryWithoutSizes, ServerCloses, facts
  <2>2. ~lostConn => conn' # NoHost /\ Fits(conn)'
    BY <1>0, <1>5, <2>1, AskedFits
  <2> QED BY <1>0, <1>1, <1>5, <2>2 DEF HostInv
<1>6. CASE UNCHANGED <<conn, lostConn, asked, facts>>
  <2>1. (Blank => Blank') /\ \A h : Fits(h) => Fits(h)'
    BY <1>0, <1>6, FitsStays DEF facts
  <2> QED BY <1>0, <1>1, <1>2, <1>6, <2>1 DEF HostInv
<1>7. \/ lostConn' = TRUE
      \/ StaysOpen
      \/ UNCHANGED <<conn, lostConn, asked, facts>>
  BY DEF RunQuery, AnswerSettings, AnswerLocal, AnswerInRecovery, AnswerCurrentDatabase,
     AnswerRows, Answered, NotNeeded, TolerateFailure, RetryWithoutSizes, ServerCloses,
     Fails, IsClosed, history, session
<1>8. StaysOpen => lostConn' = lostConn
  BY DEF StaysOpen
<1> QED BY <1>3, <1>4, <1>5, <1>6, <1>7, <1>8

\* The steps between the queries.
LEMMA HostStep ==
  ASSUME TypeInv, StageInv, HostInv, [Next]_vars
  PROVE  HostInv'
<1> USE DEF HostInv
<1>1. CASE (RunQuery \/ ServerCloses) /\ ~FatalFailure
  BY <1>1, HostQuery
<1>2. CASE /\ UNCHANGED <<o, beenHere, todo, conn, lostConn, asked, facts, logs>>
           /\ pc' \in {"parse", "names", "connect"} => pc \in {"parse", "names", "connect"}
  <2>1. (Blank => Blank') /\ \A h : Fits(h) => Fits(h)'
    BY <1>2, FitsStays DEF facts
  <2> QED BY <1>2, <2>1
<1>3. Die("own") \/ FatalFailure \/ Parse \/ GetDBNames \/ NoMoreDBs
        \/ CollectFromAzure \/ Process \/ UNCHANGED vars
        => /\ UNCHANGED <<o, beenHere, todo, conn, lostConn, asked, facts, logs>>
           /\ pc' \in {"parse", "names", "connect"} => pc \in {"parse", "names", "connect"}
  BY DEF Die, FatalFailure, Parse, GetDBNames, NoMoreDBs, CollectFromAzure, Process, session,
     history, result, vars, place
<1>4. CASE GetConn
  <2>1. /\ pc = "connect" /\ conn = NoHost /\ pc' \in {"head", "query"}
        /\ conn' = NoHost \/ conn' \in o.hosts
        /\ UNCHANGED <<o, beenHere, lostConn, asked, facts, logs>>
        /\ beenHere => todo' = getCurrentDatabase
    BY <1>4 DEF GetConn, history, result
  <2>2. getCurrentDatabase \in DbPlans
    BY SingleFree DEF Sections, Facts, getCurrentDatabase
  <2>3. (Blank => Blank') /\ \A h : Fits(h) => Fits(h)'
    BY <2>1, FitsStays DEF facts
  <2>4. Blank => Fits(conn)'
    BY <2>1 DEF Blank, Fits, facts
  <2> QED BY <2>1, <2>2, <2>3, <2>4
<1>5. CASE CollectCluster
  <2>1. pc = "head" /\ pc' = "query" /\ ~beenHere
        /\ UNCHANGED <<o, beenHere, conn, lostConn, asked, facts, logs>>
    BY <1>5 DEF CollectCluster, StartCluster, StageInv, session, result
  <2>2. (Blank => Blank') /\ \A h : Fits(h) => Fits(h)'
    BY <2>1, FitsStays DEF facts
  <2> QED BY <2>1, <2>2
<1>6. CASE EndDB
  <2>1. /\ todo = <<>> /\ pc' = "connect" /\ conn' = NoHost /\ beenHere'
        /\ UNCHANGED <<o, todo, lostConn, asked, facts, logs>>
    BY <1>6 DEF EndDB, CloseDB, history, result
  <2>2. \A h : Fits(h) => Fits(h)'
    BY <2>1, FitsStays DEF facts
  <2>3. ~lostConn => \E h \in o.hosts : Fits(h)
    <3>1. CASE ~beenHere /\ conn = NoHost
      <4>1. PICK h \in o.hosts : TRUE
        BY WorldFacts DEF TypeInv, TypeOK
      <4>2. Blank => Fits(h)
        BY DEF Blank, Fits
      <4> QED BY <3>1, <4>1, <4>2
    <3>2. CASE ~beenHere /\ conn # NoHost
      BY <3>2 DEF TypeInv, TypeOK, SessionType
    <3> QED BY <3>1, <3>2
  <2> QED BY <2>1, <2>2, <2>3, NoDbPlan
<1>7. CASE CollectLogs
  <2>1. /\ pc' = "rds"
        /\ UNCHANGED <<o, beenHere, todo, conn, lostConn, asked, facts>>
        /\ logs' = logs \/ (local /\ logs' = {"local"})
    BY <1>7 DEF CollectLogs, Ours, session, history
  <2>2. local \in BOOLEAN
    BY DEF TypeInv, TypeOK, FactsType
  <2>3. /\ Blank => Blank'
        /\ \A h : Fits(h) => Fits(h)'
    <3>1. CASE logs' = logs
      BY <2>1, <3>1, FitsStays DEF facts
    <3>2. CASE local = TRUE /\ logs' = {"local"}
      BY <2>1, <3>2 DEF Blank, Fits, facts
    <3> QED BY <2>1, <2>2, <3>1, <3>2
  <2> QED BY <2>1, <2>3
<1>8. CASE CollectFromRDS
  <2>1. /\ pc' = "azure"
        /\ UNCHANGED <<o, beenHere, todo, conn, lostConn, asked, facts>>
        /\ "local" \in logs' <=> "local" \in logs
    BY <1>8 DEF CollectFromRDS, session, history
  <2>2. (Blank => Blank') /\ \A h : Fits(h) => Fits(h)'
    BY <2>1 DEF Blank, Fits, facts
  <2> QED BY <2>1, <2>2
<1> QED
  BY <1>1, <1>2, <1>3, <1>4, <1>5, <1>6, <1>7, <1>8
     DEF Next, Program, GetDBNamesFails, GetConnFails, ProcessFails

\* Whatever the options, the names and the hosts: without a lost connection all
\* that a report says of the cluster, and the log files it has, are of one server.
THEOREM OneServerOnly == Spec => []OneServer
<1>1. Init => HostInv
  BY DEF Init, HostInv, Blank
<1>2. TypeInv /\ HostInv => OneServer
  <2> SUFFICES ASSUME TypeInv, HostInv, ~lostConn
               PROVE  \E h \in o.hosts :
                        /\ asked \subseteq {h}
                        /\ version \in {0, o.version[h]}
                        /\ inRecovery => o.standby[h]
                        /\ local \/ "local" \in logs => o.local[h]
    BY DEF OneServer
  <2>1. \E h \in o.hosts : Fits(h)
    <3>1. CASE ~beenHere /\ conn = NoHost
      <4>1. PICK h \in o.hosts : TRUE
        BY WorldFacts DEF TypeInv, TypeOK
      <4>2. Blank => Fits(h)
        BY DEF Blank, Fits
      <4> QED BY <3>1, <4>1, <4>2 DEF HostInv
    <3>2. CASE ~beenHere /\ conn # NoHost
      BY <3>2 DEF HostInv, TypeInv, TypeOK, SessionType
    <3> QED BY <3>1, <3>2 DEF HostInv
  <2>2. PICK h \in o.hosts : Fits(h)
    BY <2>1
  <2>3. /\ local \in BOOLEAN /\ inRecovery \in BOOLEAN
        /\ o.local[h] \in BOOLEAN /\ o.standby[h] \in BOOLEAN
    BY HostFacts DEF TypeInv, TypeOK, FactsType
  <2>4. asked \subseteq {h} /\ version \in {0, o.version[h]}
    BY <2>2 DEF Fits
  <2>5. inRecovery => o.standby[h]
    BY <2>2, <2>3, Zenon DEF Fits
  <2>6. local \/ "local" \in logs => o.local[h]
    BY <2>2, <2>3, Zenon DEF Fits
  <2> QED BY <2>4, <2>5, <2>6
<1>3. TypeInv /\ StageInv /\ HostInv /\ [Next]_vars => HostInv'
  BY HostStep
<1> QED BY TypeInit, TypeStep, StageInit, StageStep, <1>1, <1>2, <1>3, PTL DEF Spec

-----------------------------------------------------------------------------
(***************************************************************************)
(* A report covers the databases that all the names lead to.  Until a      *)
(* database has said which it is, the question is in the plan; and nothing *)
(* but its answer, or the end of the run, takes it out.                    *)
(***************************************************************************)
here_   == Fatal("CurrentDatabase")
Asks(s) == \E i \in DOMAIN s : s[i] = here_

NameAt(k) == IF dbnames = <<>> THEN NoName ELSE dbnames[k]
Seen(k)   == {o.lands[NameAt(j)] : j \in 1 .. k}

CoverInv ==
  /\ pc \in {"parse", "names"} => collectedDBs = <<>>
  /\ pc = "connect" => turn <= Turns + 1
  /\ pc \in {"head", "query"} => turn <= Turns
  /\ mode = "postgres" =>
       /\ pc \in {"connect", "head"} => ToSet(collectedDBs) = Seen(turn - 1)
       /\ pc = "query" => \/ ToSet(collectedDBs) = Seen(turn)
                          \/ ToSet(collectedDBs) = Seen(turn - 1) /\ Asks(todo)
       /\ pc \in {"logs", "rds", "azure", "output"} => ToSet(collectedDBs) = Seen(Turns)
       /\ exit = "report" => ToSet(collectedDBs) = Seen(Turns)

\* The query for the name of the database: nothing skips or tolerates it.
LEMMA HereQuery ==
  /\ here_.section = "CurrentDatabase" /\ here_.policy = "fatal" /\ ~here_.maybe
  /\ here_ \in Sound
BY AskPlain, PlainSound DEF here_, Fatal, Ask, Sections

\* It is at the end of what follows any plan, and stays in the rest of a plan
\* that does not begin with it.
LEMMA AsksLast ==
  ASSUME NEW s \in Plans
  PROVE  Asks(getCurrentDatabase) /\ Asks(s \o getCurrentDatabase)
<1>1. getCurrentDatabase = <<here_>> /\ <<here_>> \in Seq(Sound) /\ s \in Seq(Sound)
  BY HereQuery DEF getCurrentDatabase, here_, Plans
<1>2. Len(s) \in Nat /\ Len(<<here_>>) = 1 /\ <<here_>>[1] = here_
  BY <1>1, LenProperties
<1>3. (s \o <<here_>>)[Len(s) + 1] = here_ /\ DOMAIN (s \o <<here_>>) = 1 .. Len(s) + 1
  BY <1>1, <1>2, ConcatProperties, LenProperties
<1> QED BY <1>1, <1>2, <1>3 DEF Asks

LEMMA AsksTail ==
  ASSUME NEW s \in Plans, Asks(s), Head(s) # here_
  PROVE  s # <<>> /\ Asks(Tail(s))
<1> USE DEF Plans
<1>1. PICK i \in DOMAIN s : s[i] = here_
  BY DEF Asks
<1>2. Len(s) \in Nat /\ i \in 1 .. Len(s) /\ s # <<>>
  BY <1>1, LenProperties
<1>3. i # 1
  BY <1>1, <1>2, HeadTailProperties
<1>4. i - 1 \in 1 .. Len(Tail(s)) /\ Tail(s)[i - 1] = here_
  BY <1>1, <1>2, <1>3, HeadTailProperties
<1>5. i - 1 \in DOMAIN Tail(s)
  BY <1>2, <1>4, HeadTailProperties, LenProperties
<1> QED BY <1>2, <1>4, <1>5 DEF Asks

\* The databases of one name more, and of all names.
LEMMA SeenOneMore ==
  ASSUME turn \in Nat \ {0}
  PROVE  Seen(turn) = Seen(turn - 1) \cup {Here}
<1>1. 1 .. turn = (1 .. turn - 1) \cup {turn}
  OBVIOUS
<1>2. Here = o.lands[NameAt(turn)]
  BY DEF Here, Target, NameAt
<1> QED BY <1>1, <1>2 DEF Seen

LEMMA SeenAll ==
  ASSUME TargetType
  PROVE  Seen(Turns) = {o.lands[n] : n \in IF dbnames = <<>> THEN {NoName} ELSE ToSet(dbnames)}
<1>1. CASE dbnames = <<>>
  BY <1>1 DEF Seen, Turns, NameAt
<1>2. CASE dbnames # <<>>
  <2>1. DOMAIN dbnames = 1 .. Len(dbnames)
    BY LenProperties DEF TargetType
  <2> QED BY <1>2, <2>1 DEF Seen, Turns, NameAt, ToSet
<1> QED BY <1>1, <1>2

LEMMA ToSetAppend ==
  ASSUME NEW S, NEW s \in Seq(S), NEW x \in S
  PROVE  ToSet(Append(s, x)) = ToSet(s) \cup {x}
<1>1. /\ DOMAIN Append(s, x) = 1 .. Len(s) + 1 /\ DOMAIN s = 1 .. Len(s)
      /\ Len(s) \in Nat
      /\ Append(s, x)[Len(s) + 1] = x
      /\ \A i \in 1 .. Len(s) : Append(s, x)[i] = s[i]
  BY AppendProperties, LenProperties
<1>2. 1 .. Len(s) + 1 = (1 .. Len(s)) \cup {Len(s) + 1}
  BY <1>1
<1> QED BY <1>1, <1>2 DEF ToSet


\* A step that keeps the names and the server keeps what they lead to.
LEMMA SeenStays ==
  ASSUME UNCHANGED <<o, dbnames>>
  PROVE  Turns' = Turns /\ \A k : Seen(k)' = Seen(k)
BY DEF Turns, Seen, NameAt

\* A query to a database: its answer, and all others.
LEMMA CoverAnswer ==
  ASSUME TypeInv, StageInv, CoverInv, AnswerCurrentDatabase
  PROVE  CoverInv'
<1>0. turn \in Nat \ {0} /\ collectedDBs \in Seq(Databases) /\ todo \in Plans
  BY DEF TypeInv, TypeOK, PlaceType, ResultType
<1>1. /\ Asking /\ q.section = "CurrentDatabase" /\ Here \in Databases
      /\ UNCHANGED <<o, pc, turn, mode, dbnames, exit>>
  BY DEF AnswerCurrentDatabase, Answered, target, ending
<1>2. CASE mode # "postgres"
  BY <1>1, <1>2, SeenStays DEF CoverInv, Asking
<1>3. CASE mode = "postgres"
  <2>1. pc = "query"
    <3> SUFFICES ASSUME pc = "head" PROVE FALSE
      BY <1>1 DEF Asking
    <3>1. \A a, b, c : Head(<<a, b, c>>) = a /\ Head(<<b, c>>) = b /\ Head(<<c>>) = c
      OBVIOUS
    <3>2. q \in {user, settings, place_}
      BY <1>1, <3>1 DEF StageInv, HeadPlan, Asking, q
    <3> QED BY <1>1, <3>2, HeadQueries
  <2>2. ToSet(collectedDBs') = ToSet(collectedDBs) \cup {Here}
    <3>1. CASE Collected
      <4>1. collectedDBs' = collectedDBs /\ Here \in ToSet(collectedDBs)
        BY <3>1 DEF AnswerCurrentDatabase, Collected, CurrentDB
      <4> QED BY <4>1
    <3>2. CASE ~Collected
      <4>1. collectedDBs' = Append(collectedDBs, Here)
        BY <3>2 DEF AnswerCurrentDatabase, CurrentDB
      <4> QED BY <1>0, <1>1, <4>1, ToSetAppend
    <3> QED BY <3>1, <3>2
  <2>3. Seen(turn) = Seen(turn - 1) \cup {Here}
    BY <1>0, SeenOneMore
  <2>4. ToSet(collectedDBs') = Seen(turn)
    BY <1>3, <2>1, <2>2, <2>3 DEF CoverInv
  <2>5. ToSet(collectedDBs)' = Seen(turn)' /\ Turns' = Turns
    BY <1>1, <2>4, SeenStays DEF ToSet
  <2>6. exit # "report"
    BY <2>1 DEF StageInv
  <2> QED BY <1>1, <2>1, <2>5, <2>6 DEF CoverInv
<1> QED BY <1>2, <1>3

LEMMA CoverOther ==
  ASSUME TypeInv, StageInv, CoverInv, RunQuery \/ ServerCloses,
         ~AnswerCurrentDatabase, ~FatalFailure
  PROVE  CoverInv'
<1>0. todo \in Plans
  BY DEF TypeInv
<1>1. /\ Asking /\ UNCHANGED <<o, pc, turn, mode, dbnames, exit>>
  BY QueryFrame DEF RunQuery, AnswerSettings, AnswerLocal, AnswerInRecovery, AnswerRows,
     Answered, NotNeeded, TolerateFailure, RetryWithoutSizes, ServerCloses, Asking
<1>2. collectedDBs' = collectedDBs
  BY DEF RunQuery, AnswerSettings, AnswerLocal, AnswerInRecovery, AnswerRows, NotNeeded,
     TolerateFailure, RetryWithoutSizes, ServerCloses, result
<1>3. ASSUME pc = "query", Asks(todo) PROVE Asks(todo')
  <2>1. CASE ServerCloses
    BY <1>3, <2>1 DEF ServerCloses, place
  <2>2. CASE RunQuery
    <3>1. q # here_
      BY <2>2, HereQuery DEF RunQuery, AnswerSettings, AnswerLocal, AnswerInRecovery,
         AnswerRows, NotNeeded, TolerateFailure, RetryWithoutSizes
    <3>2. todo # <<>> /\ Asks(Tail(todo))
      BY <1>0, <1>3, <3>1, AsksTail DEF q
    <3>3. CASE Goes
      BY <3>2, <3>3 DEF Goes
    <3>4. CASE RetryWithoutSizes
      <4> DEFINE again == Gated(Fatal(q.section))
      <4>1. q \in Query
        BY <1>0, <3>2, TheQuery
      <4>2. again \in Sound
        BY <4>1, AskPlain, ModifiedPlain, PlainSound DEF Query
      <4> HIDE DEF again
      <4>3. todo' = <<again>> \o Tail(todo)
        BY <3>4 DEF RetryWithoutSizes, again
      <4>4. Tail(todo) \in Seq(Sound) /\ <<again>> \in Seq(Sound) /\ Len(<<again>>) = 1
        BY <1>0, <3>2, <4>2, TheQuery DEF Plans
      <4>5. PICK i \in 1 .. Len(Tail(todo)) : Tail(todo)[i] = here_
        BY <3>2, <4>4, LenProperties DEF Asks
      <4>6. Len(Tail(todo)) \in Nat
        BY <4>4, LenProperties
      <4>7. todo'[i + 1] = here_ /\ i + 1 \in DOMAIN todo'
        BY <4>3, <4>4, <4>5, <4>6, ConcatProperties, LenProperties
      <4> QED BY <4>7 DEF Asks
    <3> QED
      BY <2>2, <3>3, <3>4 DEF RunQuery, AnswerSettings, AnswerLocal, AnswerInRecovery,
         AnswerRows, NotNeeded, TolerateFailure
  <2> QED BY <2>1, <2>2
<1>4. Turns' = Turns /\ Seen(turn)' = Seen(turn) /\ Seen(turn - 1)' = Seen(turn - 1)
      /\ Seen(Turns)' = Seen(Turns) /\ ToSet(collectedDBs)' = ToSet(collectedDBs)
  BY <1>1, <1>2 DEF Turns, Seen, NameAt, ToSet
<1>5. Asks(todo)' = Asks(todo')
  BY DEF Asks, here_, Fatal, Ask
<1> QED BY <1>1, <1>2, <1>3, <1>4, <1>5 DEF CoverInv

\* The steps of the run outside the queries.
LEMMA CoverStep ==
  ASSUME TypeInv, StageInv, CoverInv, [Next]_vars
  PROVE  CoverInv'
<1>0. /\ turn \in Nat \ {0} /\ TargetType /\ todo \in Plans
      /\ Turns \in Nat \ {0}
  BY TurnsPositive DEF TypeInv, TypeOK, PlaceType
<1>1. CASE UNCHANGED vars
  <2>1. /\ UNCHANGED <<o, pc, mode, turn, collectedDBs, exit>>
        /\ Turns' = Turns /\ Seen(turn)' = Seen(turn) /\ Seen(turn - 1)' = Seen(turn - 1)
        /\ Seen(Turns)' = Seen(Turns) /\ ToSet(collectedDBs)' = ToSet(collectedDBs)
    BY <1>1 DEF vars, place, target, result, ending, Turns, Seen, NameAt, ToSet
  <2>2. Asks(todo)' = Asks(todo)
    BY <1>1 DEF vars, place, Asks, here_, Fatal, Ask
  <2> QED BY <2>1, <2>2 DEF CoverInv
<1>2. CASE FatalFailure \/ Die("own")
  <2>1. pc' = "done" /\ exit' = "fatal"
    BY <1>2 DEF FatalFailure, Die
  <2> QED BY <2>1 DEF CoverInv
<1>3. CASE (RunQuery \/ ServerCloses) /\ ~FatalFailure
  BY <1>3, CoverAnswer, CoverOther
<1>4. CASE Parse
  <2>1. /\ turn' = 1 /\ collectedDBs' = <<>> /\ pc' \in {"names", "connect"} /\ exit' # "report"
    BY <1>4 DEF Parse, StageInv, CoverInv, result, ending
  <2>2. TypeInv'
    BY TypeStep
  <2>3. Turns' \in Nat \ {0}
    <3>1. dbnames' \in Seq(Names)
      BY <2>2 DEF TypeInv, TypeOK, TargetType
    <3>2. dbnames' # <<>> => Len(dbnames') \in Nat /\ Len(dbnames') # 0
      BY <3>1, EmptySeq, LenProperties
    <3> QED BY <3>2 DEF Turns
  <2>4. ToSet(collectedDBs)' = {} /\ Seen(0)' = {}
    BY <2>1 DEF ToSet, Seen
  <2>5. Seen(turn - 1)' = Seen(0)'
    BY <2>1 DEF Seen
  <2>6. turn' <= Turns' + 1
    <3>1. turn' = 1
      BY <2>1
    <3>2. \A n \in Nat \ {0} : 1 <= n + 1
      OBVIOUS
    <3> QED BY <2>3, <3>1, <3>2
  <2>7. ToSet(collectedDBs)' = Seen(turn - 1)'
    BY <2>4, <2>5
  <2> QED BY <2>1, <2>6, <2>7 DEF CoverInv
<1>5. CASE GetDBNames
  <2>1. /\ turn' = 1 /\ collectedDBs' = <<>> /\ pc' = "connect" /\ exit' # "report"
    BY <1>5 DEF GetDBNames, StageInv, CoverInv, result, ending
  <2>2. TypeInv'
    BY TypeStep
  <2>3. Turns' \in Nat \ {0}
    <3>1. dbnames' \in Seq(Names)
      BY <2>2 DEF TypeInv, TypeOK, TargetType
    <3>2. dbnames' # <<>> => Len(dbnames') \in Nat /\ Len(dbnames') # 0
      BY <3>1, EmptySeq, LenProperties
    <3> QED BY <3>2 DEF Turns
  <2>4. ToSet(collectedDBs)' = {} /\ Seen(0)' = {}
    BY <2>1 DEF ToSet, Seen
  <2>5. Seen(turn - 1)' = Seen(0)'
    BY <2>1 DEF Seen
  <2>6. turn' <= Turns' + 1
    <3>1. turn' = 1
      BY <2>1
    <3>2. \A n \in Nat \ {0} : 1 <= n + 1
      OBVIOUS
    <3> QED BY <2>3, <3>1, <3>2
  <2>7. ToSet(collectedDBs)' = Seen(turn - 1)'
    BY <2>4, <2>5
  <2> QED BY <2>1, <2>6, <2>7 DEF CoverInv
<1>6. ASSUME UNCHANGED <<o, dbnames, turn, collectedDBs>>
      PROVE  /\ Turns' = Turns /\ Seen(turn)' = Seen(turn) /\ Seen(turn - 1)' = Seen(turn - 1)
             /\ Seen(Turns)' = Seen(Turns) /\ ToSet(collectedDBs)' = ToSet(collectedDBs)
  BY <1>6 DEF Turns, Seen, NameAt, ToSet
<1>7. Asks(todo)' = Asks(todo')
  BY DEF Asks, here_, Fatal, Ask
<1>8. CASE GetConn
  <2>1. /\ UNCHANGED <<o, dbnames, turn, collectedDBs, mode, exit>> /\ turn <= Turns
        /\ pc = "connect" /\ pc' \in {"head", "query"}
        /\ pc' = "query" /\ mode = "postgres" => todo' = getCurrentDatabase
    BY <1>8 DEF GetConn, target, result, ending
  <2>2. exit # "report"
    BY <2>1 DEF StageInv
  <2>3. Asks(getCurrentDatabase)
    BY <1>0, AsksLast
  <2> QED BY <1>6, <1>7, <2>1, <2>2, <2>3 DEF CoverInv
<1>9. CASE NoMoreDBs
  <2>1. /\ UNCHANGED <<o, dbnames, turn, collectedDBs, mode, exit>> /\ turn > Turns
        /\ pc = "connect" /\ pc' = "logs"
    BY <1>9 DEF NoMoreDBs, target, result, ending
  <2>2. exit # "report"
    BY <2>1 DEF StageInv
  <2>3. turn - 1 = Turns
    BY <1>0, <2>1 DEF CoverInv
  <2> QED BY <1>6, <2>1, <2>2, <2>3 DEF CoverInv
<1>10. CASE CollectCluster
  <2>1. /\ UNCHANGED <<o, dbnames, turn, collectedDBs, mode, exit>>
        /\ pc = "head" /\ pc' = "query"
        /\ todo' = collectCluster(version, o.sizes, LogsWanted /\ local) \o <<>>
                     \o getCurrentDatabase
    BY <1>10 DEF CollectCluster, StartCluster, target, result, ending
  <2>2. exit # "report"
    BY <2>1 DEF StageInv
  <2>3. collectCluster(version, o.sizes, LogsWanted /\ local) \in Plans
    <3>1. o.sizes \in BOOLEAN /\ version \in Nat
      BY WorldFacts DEF TypeInv, TypeOK, FactsType
    <3>2. (LogsWanted /\ local) \in BOOLEAN
      BY DEF LogsWanted
    <3> QED BY <3>1, <3>2, ClusterPlan
  <2>4. Asks(todo')
    BY <2>1, <2>3, NoPlan, PlansJoin, AsksLast
  <2> QED BY <1>6, <1>7, <2>1, <2>2, <2>4 DEF CoverInv
<1>11. CASE EndDB
  <2>1. /\ UNCHANGED <<o, dbnames, collectedDBs, mode, exit>> /\ turn' = turn + 1
        /\ pc = "query" /\ pc' = "connect" /\ todo = <<>>
    BY <1>11 DEF EndDB, CloseDB, target, result, ending
  <2>2. exit # "report" /\ ~Asks(<<>>)
    BY <2>1 DEF StageInv, Asks
  <2>3. Turns' = Turns /\ turn' - 1 = turn /\ turn' <= Turns + 1
    BY <1>0, <2>1 DEF CoverInv, Turns
  <2>4. Seen(turn - 1)' = Seen(turn) /\ ToSet(collectedDBs)' = ToSet(collectedDBs)
    BY <1>0, <2>1, <2>3 DEF Seen, NameAt, ToSet
  <2> QED BY <2>1, <2>2, <2>3, <2>4 DEF CoverInv
<1>12. CASE CollectLogs \/ CollectFromRDS \/ CollectFromAzure
  <2>1. /\ UNCHANGED <<o, dbnames, turn, collectedDBs, mode, exit>>
        /\ pc \in {"logs", "rds", "azure"} /\ pc' \in {"rds", "azure", "output"}
    BY <1>12 DEF CollectLogs, CollectFromRDS, CollectFromAzure, target, result, ending
  <2> QED BY <1>6, <2>1 DEF CoverInv
<1>13. CASE Process
  <2>1. /\ UNCHANGED <<o, dbnames, turn, collectedDBs, mode>>
        /\ pc = "output" /\ pc' = "done"
    BY <1>13 DEF Process, target, result
  <2> QED BY <1>6, <2>1 DEF CoverInv
<1> QED
  BY <1>1, <1>2, <1>3, <1>4, <1>5, <1>8, <1>9, <1>10, <1>11, <1>12, <1>13
     DEF Next, Program, GetDBNamesFails, GetConnFails, ProcessFails

\* Whatever names are given, wherever they lead, and whatever fails on the way: a
\* report of a PostgreSQL server covers all databases that were asked for.
THEOREM NoneIsMissing == Spec => []AllListedOrNothing
<1>1. Init => CoverInv
  BY DEF Init, CoverInv
<1>2. TypeInv /\ CoverInv => AllListedOrNothing
  BY SeenAll DEF CoverInv, AllListedOrNothing, TypeInv, TypeOK
<1>3. TypeInv /\ StageInv /\ CoverInv /\ [Next]_vars => CoverInv'
  BY CoverStep
<1> QED BY TypeInit, TypeStep, StageInit, StageStep, <1>1, <1>2, <1>3, PTL DEF Spec

-----------------------------------------------------------------------------
(***************************************************************************)
(* The run comes to an end.                                                *)
(***************************************************************************)
Phase     == CASE pc = "parse" -> 7
               [] pc = "names" -> 6
               [] pc \in {"connect", "head", "query"} -> 5
               [] pc = "logs" -> 4
               [] pc = "rds" -> 3
               [] pc = "azure" -> 2
               [] pc = "output" -> 1
               [] pc = "done" -> 0
Uncounted == Seen(Turns) \ ToSet(collectedDBs)
NamesLeft == IF pc \in {"connect", "head", "query"} THEN Turns + 1 - turn ELSE 0
Opening   == CASE pc = "connect" -> 2 [] pc = "head" -> 1 [] OTHER -> 0
Again     == IF todo # <<>> /\ Head(todo).policy = "retry" THEN 1 ELSE 0
Open      == IF conn # NoHost THEN 1 ELSE 0

\* What is still to be done: the databases not yet collected, the names to come, the
\* queries to the database of this name, whether the next of them may be asked again; and
\* whether there is a connection to be closed. That a database is a new one is known only
\* when it answers, so its queries come into the plan when it leaves the first of these.
Variant == <<Phase, Cardinality(Uncounted), NamesLeft, Opening, Len(todo), Again, Open>>

LEMMA BelowOfSeven ==
  ASSUME NEW a1, NEW a2, NEW a3, NEW a4, NEW a5, NEW a6, NEW a7,
         NEW b1, NEW b2, NEW b3, NEW b4, NEW b5, NEW b6, NEW b7,
         \/ a1 < b1
         \/ a1 = b1 /\ a2 < b2
         \/ a1 = b1 /\ a2 = b2 /\ a3 < b3
         \/ a1 = b1 /\ a2 = b2 /\ a3 = b3 /\ a4 < b4
         \/ a1 = b1 /\ a2 = b2 /\ a3 = b3 /\ a4 = b4 /\ a5 < b5
         \/ a1 = b1 /\ a2 = b2 /\ a3 = b3 /\ a4 = b4 /\ a5 = b5 /\ a6 < b6
         \/ a1 = b1 /\ a2 = b2 /\ a3 = b3 /\ a4 = b4 /\ a5 = b5 /\ a6 = b6 /\ a7 < b7
  PROVE  Below(<<a1, a2, a3, a4, a5, a6, a7>>, <<b1, b2, b3, b4, b5, b6, b7>>)
<1> DEFINE a == <<a1, a2, a3, a4, a5, a6, a7>>
           b == <<b1, b2, b3, b4, b5, b6, b7>>
<1>1. DOMAIN b = 1 .. 7
  OBVIOUS
<1>2. /\ a[1] = a1 /\ a[2] = a2 /\ a[3] = a3 /\ a[4] = a4 /\ a[5] = a5 /\ a[6] = a6 /\ a[7] = a7
      /\ b[1] = b1 /\ b[2] = b2 /\ b[3] = b3 /\ b[4] = b4 /\ b[5] = b5 /\ b[6] = b6 /\ b[7] = b7
  OBVIOUS
<1>3. \E k \in 1 .. 7 : a[k] < b[k] /\ \A j \in 1 .. k - 1 : a[j] = b[j]
  <2> HIDE DEF a, b
  <2> QED BY <1>2
<1> QED BY <1>1, <1>3 DEF Below

LEMMA OneLess == ASSUME NEW n \in Nat, NEW t \in Nat PROVE n + 1 - (t + 1) < n + 1 - t
OBVIOUS

\* The names lead to finitely many databases.
LEMMA FinitelySeen == ASSUME TargetType PROVE IsFiniteSet(Uncounted) /\ Cardinality(Uncounted) \in Nat
<1> DEFINE I == 1 .. Turns
           land == [j \in I |-> o.lands[NameAt(j)]]
<1>1. IsFiniteSet(I)
  BY TurnsPositive, FS_Interval
<1>2. land \in Surjection(I, Seen(Turns))
  <2>1. Seen(Turns) = {land[j] : j \in I}
    BY DEF Seen
  <2>2. land \in [I -> Seen(Turns)] /\ \A d \in Seen(Turns) : \E j \in I : land[j] = d
    BY <2>1
  <2> QED BY <2>2 DEF Surjection
<1>3. IsFiniteSet(Seen(Turns))
  BY <1>1, <1>2, FS_Surjection
<1>4. IsFiniteSet(Uncounted)
  BY <1>3, FS_Difference DEF Uncounted
<1> QED BY <1>4, FS_CardinalityType

LEMMA VariantType == TypeInv /\ CoverInv => Variant \in [1 .. 7 -> Nat]
<1> SUFFICES ASSUME TypeInv, CoverInv PROVE Variant \in [1 .. 7 -> Nat]
  OBVIOUS
<1>1. Turns \in Nat /\ turn \in Nat /\ Len(todo) \in Nat
  BY TurnsPositive, LenProperties DEF TypeInv, TypeOK, PlaceType
<1>2. Cardinality(Uncounted) \in Nat
  BY FinitelySeen DEF TypeInv, TypeOK
<1>3. NamesLeft \in Nat
  BY <1>1 DEF NamesLeft, CoverInv
<1>4. Phase \in Nat
  BY DEF Phase, TypeInv, TypeOK, PlaceType
<1>5. Opening \in Nat /\ Again \in Nat /\ Open \in Nat
  BY DEF Opening, Again, Open
<1>6. Variant \in Seq(Nat) /\ Len(Variant) = 7
  BY <1>1, <1>2, <1>3, <1>4, <1>5 DEF Variant
<1> QED BY <1>6, LenProperties

\* A query that is not the end of the run takes one from the plan, or from the databases that are
\* not collected yet, or will not be retried again.
LEMMA QueryLowers ==
  ASSUME TypeInv, CoverInv, RunQuery, ~FatalFailure
  PROVE  /\ UNCHANGED <<o, pc, turn, dbnames>>
         /\ \/ Cardinality(Uncounted') < Cardinality(Uncounted)
            \/ /\ Cardinality(Uncounted') = Cardinality(Uncounted)
               /\ \/ Len(todo') < Len(todo)
                  \/ Len(todo') = Len(todo) /\ Again' < Again
<1>0. UNCHANGED <<o, pc, turn, dbnames>>
  BY QueryFrame
<1>1. UNCHANGED collectedDBs => Uncounted' = Uncounted
  BY <1>0, SeenStays DEF Uncounted, ToSet
<1>2. ASSUME todo # <<>>, todo' = Tail(todo) PROVE Len(todo') < Len(todo)
  <2>1. todo \in Seq(Query) /\ Len(todo) \in Nat
    BY LenProperties DEF TypeInv, TypeOK, PlaceType
  <2>2. Len(Tail(todo)) = Len(todo) - 1
    BY <1>2, <2>1, HeadTailProperties
  <2> QED BY <1>2, <2>1, <2>2
<1>3. CASE AnswerSettings \/ AnswerLocal \/ AnswerInRecovery \/ AnswerRows
  BY <1>0, <1>1, <1>2, <1>3
     DEF AnswerSettings, AnswerLocal, AnswerInRecovery, AnswerRows, Answered, Asking, Goes
<1>4. CASE NotNeeded \/ TolerateFailure
  BY <1>0, <1>1, <1>2, <1>4 DEF NotNeeded, TolerateFailure, Asking, Goes
<1>5. CASE RetryWithoutSizes
  <2> DEFINE r == Gated(Fatal(q.section))
  <2>1. todo # <<>> /\ q.policy = "retry" /\ UNCHANGED collectedDBs /\ todo' = <<r>> \o Tail(todo)
    BY <1>5 DEF RetryWithoutSizes, Asking, result
  <2>2. r.policy = "fatal"
    BY DEF Gated, Fatal, Ask
  <2> HIDE DEF r
  <2>3. /\ todo \in Seq(Query) /\ Tail(todo) \in Seq(Query) /\ Len(Tail(todo)) = Len(todo) - 1
        /\ Len(todo) \in Nat /\ Len(todo) # 0
    BY <2>1, HeadTailProperties, LenProperties, EmptySeq DEF TypeInv, TypeOK, PlaceType
  <2>4. Len(todo') = Len(todo) /\ todo'[1] = r
    BY <2>1, <2>3
  <2>5. todo' # <<>> /\ Head(todo') = r
    BY <2>1, <2>3, <2>4
  <2>6. Again' = 0 /\ Again = 1
    BY <2>1, <2>2, <2>5 DEF Again, q
  <2> QED BY <1>0, <1>1, <2>1, <2>4, <2>6
<1>6. CASE AnswerCurrentDatabase
  <2>1. CASE Collected
    BY <1>0, <1>1, <1>2, <1>6, <2>1 DEF AnswerCurrentDatabase, Answered, Asking
  <2>2. CASE ~Collected
    <3>1. /\ collectedDBs' = Append(collectedDBs, Here) /\ Here \in Databases
          /\ Here \notin ToSet(collectedDBs) /\ collectedDBs \in Seq(Databases)
      BY <1>6, <2>2 DEF AnswerCurrentDatabase, Collected, CurrentDB, TypeInv, TypeOK, ResultType
    <3>2. ToSet(collectedDBs') = ToSet(collectedDBs) \cup {Here}
      BY <3>1, ToSetAppend
    <3>3. Here \in Seen(Turns)
      <4>1. turn \in 1 .. Turns
        BY <1>6, TurnsPositive
           DEF AnswerCurrentDatabase, Answered, Asking, CoverInv, TypeInv, TypeOK, PlaceType
      <4>2. Here = o.lands[NameAt(turn)]
        BY DEF Here, Target, NameAt
      <4> QED BY <4>1, <4>2 DEF Seen
    <3>4. Uncounted' = Uncounted \ {Here} /\ Here \in Uncounted
      <4>1. ToSet(collectedDBs)' = ToSet(collectedDBs')
        BY DEF ToSet
      <4> QED BY <1>0, <3>1, <3>2, <3>3, <4>1, SeenStays DEF Uncounted
    <3>5. IsFiniteSet(Uncounted) /\ Cardinality(Uncounted) \in Nat
      BY FinitelySeen DEF TypeInv, TypeOK
    <3>6. Cardinality(Uncounted') = Cardinality(Uncounted) - 1
      BY <3>4, <3>5, FS_RemoveElement
    <3>7. Cardinality(Uncounted') < Cardinality(Uncounted)
      BY <3>5, <3>6
    <3> QED BY <1>0, <3>7
  <2> QED BY <2>1, <2>2
<1> QED BY <1>0, <1>3, <1>4, <1>5, <1>6 DEF RunQuery

LEMMA VariantStep == TypeInv /\ CoverInv /\ Next => Below(Variant', Variant)
<1> SUFFICES ASSUME TypeInv, CoverInv, Next PROVE Below(Variant', Variant)
  OBVIOUS
<1> DEFINE C == Cardinality(Uncounted)
<1> SUFFICES \/ Phase' < Phase
             \/ /\ Phase' = Phase
                /\ \/ C' < C
                   \/ C' = C /\ NamesLeft' < NamesLeft
                   \/ C' = C /\ NamesLeft' = NamesLeft /\ Opening' < Opening
                   \/ C' = C /\ NamesLeft' = NamesLeft /\ Opening' = Opening /\ Len(todo') < Len(todo)
                   \/ C' = C /\ NamesLeft' = NamesLeft /\ Opening' = Opening /\ Len(todo') = Len(todo)
                      /\ Again' < Again
                   \/ C' = C /\ NamesLeft' = NamesLeft /\ Opening' = Opening /\ Len(todo') = Len(todo)
                      /\ Again' = Again /\ Open' < Open
  <2> HIDE DEF C
  <2>1. Variant = <<Phase, C, NamesLeft, Opening, Len(todo), Again, Open>>
    BY DEF Variant, C
  <2>2. Variant' = <<Phase', C', NamesLeft', Opening', Len(todo'), Again', Open'>>
    BY DEF Variant, C
  <2> QED BY <2>1, <2>2, BelowOfSeven
<1> HIDE DEF C
<1>1. ASSUME UNCHANGED <<o, dbnames, collectedDBs>> PROVE C' = C /\ Turns' = Turns
  <2>1. Uncounted' = Uncounted /\ Turns' = Turns
    BY <1>1, SeenStays DEF Uncounted, ToSet
  <2> QED BY <2>1 DEF C
<1>2. turn \in Nat /\ Turns \in Nat
  BY TurnsPositive DEF TypeInv, TypeOK, PlaceType
<1>3. CASE RunQuery /\ ~FatalFailure
  <2>1. /\ UNCHANGED <<o, pc, turn, dbnames>>
        /\ \/ C' < C
           \/ /\ C' = C
              /\ \/ Len(todo') < Len(todo)
                 \/ Len(todo') = Len(todo) /\ Again' < Again
    BY <1>3, QueryLowers DEF C
  <2>2. Turns' = Turns
    BY <2>1 DEF Turns
  <2>3. Phase' = Phase /\ NamesLeft' = NamesLeft /\ Opening' = Opening
    BY <2>1, <2>2 DEF Phase, NamesLeft, Opening
  <2> QED BY <2>1, <2>3
<1>4. CASE ServerCloses
  <2>1. /\ UNCHANGED <<o, pc, turn, todo, dbnames, collectedDBs>> /\ conn # NoHost /\ conn' = NoHost
    BY <1>4 DEF ServerCloses, place, target, result
  <2>2. Phase' = Phase /\ NamesLeft' = NamesLeft /\ Opening' = Opening /\ Again' = Again
    BY <1>1, <2>1 DEF Phase, NamesLeft, Opening, Again
  <2>3. Open' < Open
    BY <2>1 DEF Open
  <2> QED BY <1>1, <2>1, <2>2, <2>3
<1>5. CASE GetConn
  <2>1. UNCHANGED <<o, turn, dbnames, collectedDBs>> /\ pc = "connect" /\ pc' \in {"head", "query"}
    BY <1>5 DEF GetConn, target, result
  <2>2. Phase' = Phase /\ Opening' < Opening
    BY <2>1 DEF Phase, Opening
  <2>3. NamesLeft' = NamesLeft
    BY <1>1, <2>1 DEF NamesLeft
  <2> QED BY <1>1, <2>1, <2>2, <2>3
<1>6. CASE CollectCluster
  <2>1. UNCHANGED <<o, turn, dbnames, collectedDBs>> /\ pc = "head" /\ pc' = "query"
    BY <1>6 DEF CollectCluster, StartCluster, target, result
  <2>2. Phase' = Phase /\ Opening' < Opening
    BY <2>1 DEF Phase, Opening
  <2>3. NamesLeft' = NamesLeft
    BY <1>1, <2>1 DEF NamesLeft
  <2> QED BY <1>1, <2>1, <2>2, <2>3
<1>7. CASE EndDB
  <2>1. UNCHANGED <<o, dbnames, collectedDBs>> /\ pc = "query" /\ pc' = "connect" /\ turn' = turn + 1
    BY <1>7 DEF EndDB, CloseDB, target, result
  <2>2. Phase' = Phase
    BY <2>1 DEF Phase
  <2>3. NamesLeft' = Turns + 1 - (turn + 1) /\ NamesLeft = Turns + 1 - turn
    BY <1>1, <2>1 DEF NamesLeft
  <2>4. NamesLeft' < NamesLeft
    BY <1>2, <2>3, OneLess
  <2> QED BY <1>1, <2>1, <2>2, <2>4
<1>8. CASE FatalFailure \/ GetDBNamesFails \/ GetConnFails \/ ProcessFails
  <2>1. pc \in {"names", "connect", "head", "query", "output"} /\ pc' = "done"
    BY <1>8 DEF FatalFailure, GetDBNamesFails, GetConnFails, ProcessFails, Die, Asking
  <2> QED BY <2>1 DEF Phase
<1>9. CASE Parse \/ GetDBNames \/ NoMoreDBs
  <2>1. \/ pc = "parse" /\ pc' \in {"names", "connect"}
        \/ pc = "names" /\ pc' = "connect"
        \/ pc = "connect" /\ pc' = "logs"
    BY <1>9 DEF Parse, GetDBNames, NoMoreDBs
  <2> QED BY <2>1 DEF Phase
<1>10. CASE CollectLogs \/ CollectFromRDS \/ CollectFromAzure \/ Process
  <2>1. \/ pc = "logs" /\ pc' = "rds"
        \/ pc = "rds" /\ pc' = "azure"
        \/ pc = "azure" /\ pc' = "output"
        \/ pc = "output" /\ pc' = "done"
    BY <1>10 DEF CollectLogs, CollectFromRDS, CollectFromAzure, Process
  <2> QED BY <2>1 DEF Phase
<1> QED BY <1>3, <1>4, <1>5, <1>6, <1>7, <1>8, <1>9, <1>10 DEF Next, Program

\* A run has finitely many steps, whatever fails and whenever connections are
\* closed: each step brings its end nearer, the second attempts and the connections
\* lost included. What the code does not bound, the download from RDS and the
\* writing of the report, is one step each: of their duration this says nothing.
THEOREM RunRunsOut ==
  Spec => [](Variant \in [1 .. 7 -> Nat]) /\ [][Below(Variant', Variant)]_vars
<1>1. TypeInv /\ CoverInv /\ [Next]_vars => [Below(Variant', Variant)]_vars
  BY VariantStep
<1>2. Spec => [](TypeInv /\ CoverInv)
  <2>1. Init => CoverInv
    BY DEF Init, CoverInv
  <2> QED BY <2>1, TypeInit, TypeStep, StageInit, StageStep, CoverStep, PTL DEF Spec
<1> QED BY <1>1, <1>2, VariantType, PTL DEF Spec
=============================================================================
