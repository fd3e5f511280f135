# A TLA+ model of pgmetrics

pgmetrics collects metrics of a PostgreSQL server (or of PgBouncer, or Pgpool)
and its databases, reads the server's log, asks AWS or Azure about the
instance, and writes one report. It is one goroutine that talks to others that
are not under its control: servers that fail, time out and close connections,
log files that are written and rotated while they are read, cloud services.
This directory models that, checks it with TLC, and proves the safety part of it with TLAPS.

## Inventory

| Component | State it keeps | Operations | Hard to get right |
|---|---|---|---|
| Collection run (`collector/collect.go`, `Collect` to `collectDatabase`) | the `collector`: mode, names, `beenHere`, `version`, `local`, `CollectedDBs`; one `sql.DB` per name with at most one connection | parse the arguments, list databases, connect, set the role, collect the cluster once and each database, logs, clouds, report | several names for one database; a connection that is replaced, by one to another server even; a version used before it is known; fatal and tolerated failures |
| Queries and their error policy (`getX` in `collect.go`, `pgpool.go`, `citus.go`) | the result | about 75 queries, chosen by version and options | two queries under one timeout; which failure is fatal |
| Log reader (`log.go`) | `currLog`, the entry being assembled, kept between files | text files, csv files, RDS buffers | an entry that spans buffers; a buffer that starts in the middle of an entry; lines that cannot be parsed |
| Log seek (`readLogLinesText`) | offset, block | backward search for the start of the window | block boundaries; a file that is emptied and written again meanwhile |
| Choice of log files (`collectLogs`, `getRecentFile`) | `curlogfile`, `csvlog` | user file, directory, current log file, guess | precedence, one format flag for all sources |
| Per-database statistics and lookups (`getTables` ... `getBloat`, `model.go`) | the rows of all databases in one list | collect, retry after a lock timeout, attribute by OID | OIDs of different databases, rows of an abandoned attempt |
| PgBouncer, Pgpool | the result | `SHOW ...`, scanned by position | columns that moved between versions |
| Citus | a map by database | seven queries | tolerance, versions |
| AWS RDS, Azure (`aws.go`, `azure.go`) | the result; marker and lines of the download | describe, metrics, download of logs in portions | markers, rotation, partial results |
| System metrics (`system_*.go`) | none | read `/proc`, `statfs` | nothing that steers the run |
| Command line and output (`main.go`, `csv.go`) | options | validate, load or collect, write to a pager, a file or stdout | write errors, exit codes |
| Locks and waiting sessions (`getActivity*`, `getLocks`, `report.go`) | the lists of sessions, locks and blockers | three queries, one after the other; their answers are joined by process ID when the report is printed | sessions that go on between the answers; processes without an ID, or that are not listed |
| Human-readable report (`report.go`) | none | format | arithmetic of LSNs, XIDs and percentages |
| Data model (`model.go`) | the report | lookups by OID and by name | an OID alone does not name a table |

Interaction: `main` parses options and calls `Collect`; `Collect` opens one
database after the other and shares one `collector` with everything that
follows; the settings and the version from the first database decide what is
asked of all others; `local` and the settings decide whether and how logs are
read; the AWS downloader calls back into the log reader with one buffer per
file; `main` writes the result. Nothing is persisted, and there are no
goroutines of pgmetrics' own: the concurrency is with servers and files.

What makes each part correct: the report covers each database exactly once, or
there is no report; the cluster is collected once; queries take the form for
the server's version and run under the role; a tolerated failure has no fatal
consequence; log entries are complete, in order, unrepeated, with their own
continuation lines, and of the right server; what one query says of a table
reaches the row that another query made of it; a wait that lasts is shown with
what and whom it waits for; a number is reported under
the name of the column it was taken from.

## Modules

| Module | Stands for | Based on |
|---|---|---|
| `LogReport` | what the log section of a report promises (a specification, it models no code) | |
| `Variants` | the order of the variants that bound how long the components run (it models no code) | |
| `LogReader` | `readLogs`, `processLogBuf`, `processLogLine`, `processLogEntry`, `readLogLinesCSV`, the RDS callback | |
| `LogScan` | the search loop of `readLogLinesText`, `firstTS` | |
| `Queries` | what each `getX` asks, and the order in which `collectCluster`, `collectDatabase`, `collectPgpool`, `collectPgBouncer` call them | |
| `Collect` | `Collect` with everything it calls, and `process` | EXTENDS `Queries` |
| `DbCollect` | the lists of tables, indexes, triggers, extensions and statements that `collectDatabase` fills for all databases, and the lookups between them | |
| `Pooler` | what `collectPgBouncer` and `collectPgpool` make of the poolers' tables | |
| `LogFiles` | `getLogInfo`, `collectLogs`, `getRecentFile`, and `collectLogs` of `aws.go` | |
| `Sessions` | what `collectCluster` asks about sessions and locks, and what `report.go` prints of those that wait | |
| `LogReaderProofs`, `LogScanProofs`, `CollectProofs`, `DbCollectProofs`, `PoolerProofs`, `LogFilesProofs`, `SessionsProofs` | the proofs | EXTENDS the module of that name; those of `LogReader`, `Collect` and `DbCollect` also `Variants` |
| `DbLookupProofs` | the proof about the lookups by OID alone | EXTENDS `DbCollectProofs` |
| `MCLogReader`, `MCLogScan`, `MCCollect`, `MCDbCollect`, `MCPooler`, `MCLogFiles`, `MCSessions` | the instances that TLC checks | EXTENDS the module of that name |

The modules meet at these places. `Collect.AnswerCurrentDatabase` begins what
`DbCollect` has in detail for the database, the query `Pools` or `PPVersion`
what `Pooler` has, and the actions `CollectLogs` and `CollectFromRDS` what
`LogFiles` has; a file in `read` or a buffer in `handed` there is a file of
`LogReader`, and the place where a buffer of a local text file starts is
`LogScan`'s. `Sessions` has three of the queries of `collectCluster` in detail. The detailed modules repeat of the outer one only the order of calls
and which failure is fatal; they are checked one by one, as the product of
their interleavings adds no shared state.

### LogReader

A line is what the readers branch on: its time (before the window, in it, not
parsable), whether its level is one of `severities`, whether it is a DETAIL,
whether its text is recognised as a plan, a vacuum or a deadlock, and, for csv
records, the number of columns. An entry is the *place* of the line that opened
it with the places of its continuation lines, so that repeated text is not
mistaken for a repeated entry. The zero `LogEntry` has the place `NoRef`.

`pc`, `file`, `pos`, `count`, `currLog` are the control of `readLogs` and
`processLogBuf`, `entries` and `found` the lists of the result. `OpenText`
starts a buffer at any place the seek may choose; `SkipOldLine`, `TakeLine`,
`BadLine` and `EndBuf` are the cases of the loop of `processLogBuf`;
`OpenCSV`, `ReadRecord`, `StopAtRecord`, `EndCSV` those of
`readLogLinesCSV`. `TakeLine` contains `processLogLine` and, when that flushes,
`processLogEntry` with the recognisers. `lost` and `warned` are history: files
left before their end, and those of them that readLogs printed a warning about.

`currLog` is not reset between files. That is the source of the exceptions
in the properties: a file is *orphaned at its start* (`OrphanStart`) if its
first line in the window is no severity line. Such a line goes to whatever
entry `currLog` still holds.

`LogReader` refines `LogReport` for logs without such files
(`KeepsThePromise`): the refinement mapping takes `entries` for what is
reported while no file is orphaned, and nothing otherwise. `ExtrasBelong` and
`OncePerEntry` say what may happen in the other case.

### LogScan

Bytes are positions; a line is the position and the time of its prefix. Each
`ScanBlock` is one turn of the loop: clamp to the start of the file, read a
block, take the first time stamp in it, stop or go back. `ReadRest` is the
final read, which needs as many bytes as there were when the file was
measured. The environment is `Truncate`, a rotation that copies the file and empties
it, and `Write`, the server that writes it again from the start, possibly to
where the reader takes its end to be: then the read succeeds, on other bytes than those
that were searched. `size` is how much of the measured length is there; what the server
appends to a file that is not emptied lies beyond it and is not looked at. Errors of the
operating system and of `firstTS` are `ScanFails`, possible at every turn; `ReadShort` is
the one that a shorter file makes inevitable. `emptied` is history: the file was
emptied after the search had ended.

A prefix that a block boundary cuts is not seen. The exception is `%n`, which
is matched by `\d+\.\d+`: the rest of a number is a number, and a much smaller
one (`Cut`). `LogReader.Starts`, the places where a buffer may start, is what
`SeeksBeforeWindow` leaves for a log in order of time whose prefix has no split number.

### Queries and Collect

Of the text of a query and its rows only what steers the run is kept: which
section it fills, whether its failure is fatal, whether it shares a timeout
with its predecessor, whether it depends on the version, whether it may be
skipped (Aurora, an extension that is not there), and who can answer. The
operators carry the names of the functions. A loop of size queries, one per
database or tablespace, is one query; the choice of a view by the version of an
extension is one query as well.

`Collect` runs such a plan one query at a time. A connection string leads to any of several
`hosts`, each with a server of its own version, role in replication and place. `conn` is the
host that the single connection of the current `sql.DB` leads to, or `NoHost`; a query goes
there, or to any host if it opens a connection (`Reached`). `asRole` is whether SET ROLE was done on it, `ctx`
whether the context of the last query is expired. A query is answered (`AnswerX`), not
needed, fails and is tolerated, is retried without sizes, or is fatal. A failing
query may leave its connection open, lose it (pgx closes the connection when a
context expires in the middle of a query; a server may close it), or fail to
get a new one. `ServerCloses` may happen between any two queries. `lands` is the
server's side of a name: which database it leads to, or the PgBouncer console.
`clusters`, `lostConn`, `bare`, `blind` are history, and so is `asked`, the hosts that
were asked while the first name was collected.

### DbCollect

A table is a database and an OID, and databases may share OIDs, as they do if
they were made from one template. An index, a trigger and a name go by the OID of
their table. `tables`, `indexes`, `triggers` are the lists of the report, with the
fields that a later query fills: `parent` (`getPartitionInfo`, `getParentInfo`),
`defn` (`getIndexDef`), `bloat` (`getBloat`), `size` (`getTables`,
`getCitusTableSizes`). A field that is filled holds the database whose answer
filled it, so that an attribution to the wrong row can be seen. `FoundByOID` is
`TableByOID` and the loop of `getIndexDef`, which take the first row with the
OID; `FoundByName` is `TableByName`, `IndexByName` and the loop of
`getCitusTableSizes`, which compare the database as well.

`Plan` is the order in which `collectDatabase` calls the functions that fill
these lists. `TablesLockTimeout` and `IndexesLockTimeout` are an attempt that a
lock timeout ends after some of its rows; `getTablesAgain` the second attempt,
without sizes, which appends to what the first left. `Create` and `Drop` are
other people's, between any two queries. `retried` and `gave` are history.

### Pooler

For each `SHOW` table the columns that a version sends (`PoolColumns` and so on,
which the comments of the code list and which are external) and the fields that
a number of columns is scanned into (`PoolFields` and so on, the code); `Scan`
is the position of one in the other. `Survey` is the accumulation of counts and
waits of `getPBServers` and `getPBClients`; the waits of a pool and those of
its clients are the same facts, shown twice in different units. For Pgpool, `nodes` is the
set of backends, which changes between `SHOW POOL_NODES` and the tables that are
matched with it. Waits are in microseconds, and `Sec` of them are a second.

### LogFiles

The four sources of `collectLogs`, one action each, with their fallthrough: the
user's file, his directory, the current log file of the server, a guess. A file
has a place and a format; `read` holds the files read and the format they were
taken for, which is one flag for all of them. `Rotate` is the server.

The download from RDS: `logFiles` is the sorted list, `marker` and `lines` what
is carried from one portion to the next, `handed` the buffers given to
`processLogBuf`. `Write` and `Expire` are RDS's. A line is the number of its place,
so gaps and repetitions are seen. An empty answer ends a file (`cut`); a failure
ends them all.

### Sessions

The server is modelled as far as waits go: `held` and `wants` are the locks of each
process, `before` the order of its queues, `there` who is connected. `Blockers` is
`pg_blocking_pids`. Processes lock, are granted what they wait for, end their
transaction (a deadlock ends when one of those in it is aborted), come
and go, and prepare transactions, whose locks belong to no process: their ID is
shown as 0 (`Zero`). Workers are processes that only servers before version 10 list.

`backends`, `locks`, `blocking` are the fields of the result. Each
answer is the state of the server at one moment and one action, with one
exception: the query of `getBlockers96` takes a list of the waiting processes (`GetWaiters`) and
then calls `pg_blocking_pids` for each of them (`BlockingPids`), and each
call looks at the locks as they are then. The queries between these three change nothing
here and leave the sessions time. `WaitingForLocks`, `BlockedQueries` and
`WaitingFor` are the joins of `report.go`. `steady`, `sure`, `seen` and `woke` are
history: waits (who, for what, for whom) that last since the sessions were asked for, those of
them that lasted until the blockers were asked for, all waits of that moment, and whose
wait has ended since the locks were asked for.

## Runs

| Run | Result | What it shows |
|---|---|---|
| `log_reader` (`LogReader.cfg`) | passes | order, completeness, no repetition, own continuation lines, DETAIL of deadlocks, termination, refinement of `LogReport` |
| `log_scan` (`LogScan.cfg`) | passes | the search stays in bounds, skips no byte, ends, starts early enough, whatever rotation and server do to the file, unless they do it between the search and the reading |
| `collect` (`Collect.cfg`) | passes | each database once and none missing, the cluster once, the role kept, the version known, failures, one server behind what is said of the cluster and behind the log files, termination but for RDS and the reader of the output |
| `db_collect` (`DbCollect.cfg`) | passes | no row lost, none twice but after a lock timeout, what is said of a table reaches the row that the lookups promise, extensions and tables known when they are looked up, termination |
| `pooler` (`Pooler.cfg`) | passes | the counts and waits of three tables agree, backends have their own statistics, fields their own columns, in all known versions and not in others |
| `log_files` (`LogFiles.cfg`) | passes | the right log in the right format, downloads whole and in order |
| `sessions` (`Sessions.cfg`) | passes | a wait that lasts is shown, with the right object and blocker, under the right headings; blockers that are printed did block; rings of blockers are deadlocks |
| `timestamp_present` | violated | `model.go`: "Timestamp will always be present" |
| `csv_records_reported` | violated | csv files of newer servers are dropped silently, though `log.go` lists their columns |
| `pgpool_only` | violated | usage: `--pgpool  collect only Pgpool metrics` |
| `role_on_every_query` | violated | usage: `--role=ROLE  do SET ROLE before collection` |
| `pending_asked` | violated | `collect.go`: "pending_restart was added in pg9.5" |

Bounds. `log_reader`: all combinations of two files of up to two pieces, of one
of three with one of one, and of three files of up to one piece, over six kinds of pieces
(csv: two files of two records, six kinds). A carry-over takes two files, its
consequences a third; inside a file the readers look at one line and the entry that is
open, so three lines show every transition. `log_scan`: blocks of 4 bytes,
prefixes of 3 with a number of 2 digits, files of up to 12 bytes with up to
three lines: a first block cut short, whole blocks, and a line at, before and
across each boundary; the file is emptied and written again any number of times, in all
ways that fit its length. `collect`: lists of up to three names where two lead to
one database and one to another, PgBouncer among them, each with and without
`--all-dbs`, `--pgpool`, `--role`, a standby, RDS and a connection string, at
most two of these at a time; a server of 9.4, where every version gate is
closed, and one of 17, where all are open; or two hosts, one of each version, of
which one is here and one or none a standby: each new connection may lead to either. `db_collect`: two databases with two
OIDs each, shared or not, the first named twice; one table is created or
dropped at any moment, or lock timeouts are met at any row, or both with
fewer OIDs shared; the filters, omissions and
versions that close a branch one or two at a time. A wrong attribution takes two rows, a repeated
one a third. `pooler`: every version from 1.15 to 1.23 of PgBouncer that has other
columns than its predecessor and one that is not known, with two clients and a
server connection in two pools, in every state and with waits of less and of more than a second; Pgpool from 4.0, where
three nodes change twice. `log_files`: every source with and without its files,
two rotations between any two steps; of RDS three files of up to three lines and up to three
more, portions of two, two files written within a second. `sessions`: a process
has at most one lock and waits for another (`MaxHeld`), on an object of a listed database or on one of none;
the sessions may take any number of steps before the first query, so that every
situation of them is a start, and from then on `moves`: two clients on 9.5 with
two moves and on 9.6 with three, enough for a ring of blockers that never was; from 10 on three
clients, two with a prepared transaction, and one with a worker, with one move.
The clients are alike, and so are the worlds they are in, so symmetry is sound for these
invariants. No counter is unbounded: files and
plans are finite, and a retry is not retried.

Deadlock is not checked in these runs because the modelled code ends: a run
stops at `done`, `Sessions` at a report. That it gets there is a liveness property of each
(`EveryFileIsLeft`, `ScanEnds`, `Ends`, `CollectionEnds`), except where it would show nothing: `Pooler`
and `Sessions` are lists of queries under the termination of `Collect`, and that
the download of `LogFiles` ends is up to RDS.

Fairness. Weak fairness of the program's own steps, and of nothing else:
`readLogs` and the search are loops of one goroutine on local files (the search
is not helped by errors: only its own turns and inevitable failures are fair); `Collect`
is one goroutine in which every query, and the request to Azure, has a context with a timeout, so it
proceeds whether or not the server does. Nothing obliges a server to close a
connection, a rotation or a change of the schema to happen. There are two exceptions
in the code, and `FairSpec` of `Collect` leaves them out (`Unbounded`): the requests to RDS have
neither a context nor a timeout, and the download loop ends only because RDS answers with
what there is beyond the marker and a log is not written faster than it is read
forever; and `process` waits for the reader of the report, if only in a pager. So `Ends`
says that a run ends or stays at one of these two; no property claims that the
download ends.

The types of `DbCollect` and `LogFiles` are proved for all values of the constants and are in no run.

Notes on some properties.

* `AllListedOrNothing` takes the fatal failures seriously: since every failure
  of a query that counts is a `log.Fatalf`, a report exists only if all
  databases were collected. `IMPLEMENTATION_SUMMARY.md` says that failed queries do not
  stop the collection; that is true of the queries added there, and not of the others.
* `DiesOfItsOwn`: `getAdminFuncv9` and `getAdminFuncv10` tolerate a failure of the first
  query ("don't return here, continue with the rest") and send the second under
  the same context, fatally. If the first timed out the second dies with it;
  and on a standby it asks for the current WAL position, which a standby
  refuses. The property says that these are the only such places: the other pair
  of queries under one context (`getWALCountsActual`) tolerates both failures.
* `SeeksBeforeWindow` needs its second alternative: with `%n` a block boundary
  within a number ends the search too early, and lines of the window are lost. It also needs
  the third: if the file is emptied between the search and the final read and has been
  written to the old length by then, the read starts where the search in the old file
  ended, and what the new one has before that place is not reported. Emptied during the search it loses
  nothing in this way, since the blocks that are still to be read are those of the new file.
* `OneServer` is about one name, the first; it is the `sql.DB` with its one connection that keeps a
  run at one server. If the connection is lost, the version, the state of recovery and the rest may be
  of different servers, and the log files read here may belong to another one than the
  report. Every other name has a connection of its own, which the version of the first is used for:
  nothing in the code looks at that, and no property says anything of it.
* `VersionKnown` excludes the settings query itself, about which `pending_asked` is.

* `NoRowTwice`: `getTables` and `getIndexes` ask again after a lock timeout and do not
  drop the rows that they took before it. The property says that this is the
  only way to a repeated row, and how many there are then; `NamesHitTheirDatabase` says that
  the later lookups reach the row of the abandoned attempt.
* `OidLookupsHitFirst` states what `TableByOID` and `getIndexDef` come to: if
  two databases have a table of the same OID, the row of the first gets the
  parent and the definition that the second gave, and the row of the second
  gets none. With OIDs that differ it is the attribution one expects.
* `TriggersPlaced`: a disabled trigger of a table that the filters exclude has no
  schema, table or database, and `schemaOK("")` decides whether it is listed; with
  `--exclude-table` alone it is. The filters that `main.go` describes are about
  the tables' names, which such a row does not have.
* `KnownInTime`: the comment in `getStatementsPrev18` that extensions "might not
  have been collected (--omit=extensions)" describes a case that
  `getStatements` has excluded. The same function passes the schema to a
  `Sprintf` whose format has no verb, so the query ends in `%!(EXTRA ...)` and
  always fails with a warning: a version of pg_stat_statements before 1.8 is never read,
  which is how `GetStatements` has it.
* `RightLog` has the code's two exceptions: a `--log-dir` without a log in it falls
  through to the guesses, and a file in the working directory with the
  relative name of the server's log comes before the server's. What RDS offers
  in csv format is processed as text, like the rest.
* `FieldsAsNamed` says that of all fields exactly the averages of PgBouncer 1.23 are
  wrong: of its 17 columns `getPBStats` scans the tenth into `AvgXactCount` and
  the last, `avg_wait_time`, into `AvgServerAssignmentCount`, and every other average is
  the column before its own, though the comment at `collect.go:3325` has the order right. `BooksBalance` rests on an external assumption: that `SHOW POOLS` counts the
  connections that the other two tables list.

* `WaitsAreShown` holds because the sessions are asked for before
  the locks, and the locks before the blockers: what lasts from the first answer to
  the last is in all three. It needs clients: the report finds workers and
  prepared transactions under no ID. Waits for a row are waits for a transaction ID, which
  belongs to no database, so they are counted under "Waiting for Locks" and missing under "Blocked Queries".
* `DeadlocksAreReal` says when a ring in `BlockingPIDs` can be believed. Without the exception of `woke`
  TLC finds rings that never were: the first process is asked while it waits
  for the second, and the second when it waits for the first, which has gone on.
* `BlockersOfThatLock` and `DeadlocksAreReal` are about 9.6 and later: before, `getBlockers`
  lists whoever has a lock on the same object, in whatever mode.

Seen while modelling, in code that has no state to model: `getBlockedSessions` (`collect.go:3891`)
scans `pg_blocking_pids`, an `int4[]`, into a `*[]int32`. The driver gives arrays to `database/sql` as
text, which it cannot convert; `getBlockers96` wraps its slice in `SQLScanner` for
that. Each row is left out with a warning, and `BlockedSessions` is always empty. `getActiveSessions`
(`collect.go:3727`) has no condition on `wait_event`, although `MONITORING_QUERIES.md:20` speaks of
"active sessions that are waiting for resources".
In `reportTables` (`report.go:1309`) the share of updates is computed from `NTupHotUpd`, and
`fmtLag` (`report.go:1811`) takes a negative lag for a huge one.

## Proofs

TLAPS proves, for every value of the constants:

| Theorem | States |
|---|---|
| `LogReaderProofs!TypeCorrect` | `TypeOK` of the reader |
| `LogReaderProofs!OrderPreserved` | `HeadsInOrder` |
| `LogReaderProofs!NoRepetition` | `OncePerEntry` |
| `LogReaderProofs!StampsPresent` | `StampedUnlessOrphaned` |
| `LogReaderProofs!LinesAreOwn` | `ExtrasBelong` |
| `LogReaderProofs!AllIsReported` | `NothingLeftBehind` |
| `LogReaderProofs!ImplementsLogReport` | `KeepsThePromise`, the refinement of `LogReport` |
| `LogReaderProofs!DetailsAreFirst` | `DeadlockDetail` |
| `LogReaderProofs!ReaderRunsOut` | each step of the reader lowers a variant |
| `LogReaderProofs!LeastVariant` | no infinite descent of variants |
| `LogScanProofs!ScanTypeCorrect` | `TypeOK` of the search |
| `LogScanProofs!ReadsInBounds` | `BlockInBounds` |
| `LogScanProofs!SeekIsEarlyEnough` | `SeeksBeforeWindow` |
| `LogScanProofs!NoByteSkipped` | `BlocksAreAdjacent` |
| `LogScanProofs!ScanRunsOut` | each step of the search lowers a number, which rotation and server do not raise |
| `CollectProofs!NoDatabaseTwice` | `DbOnce` |
| `CollectProofs!RoleHolds` | `RoleUntilReconnect` |
| `CollectProofs!RunTypeCorrect` | `TypeOK` of the run |
| `CollectProofs!DeathsAreOwn` | `DiesOfItsOwn` |
| `CollectProofs!OneServerOnly` | `OneServer` |
| `CollectProofs!ClusterIsOnce` | `ClusterOnce` |
| `CollectProofs!VersionIsKnown` | `VersionKnown` |
| `CollectProofs!NoneIsMissing` | `AllListedOrNothing` |
| `CollectProofs!RunRunsOut` | each step of a run lowers a variant |
| `LogFilesProofs!FilesTypeCorrect` | `TypeOK` of the choice and the download |
| `LogFilesProofs!RightLogRead` | `RightLog` |
| `LogFilesProofs!DownloadsAreWhole` | `WholeAndInOrder` |
| `PoolerProofs!StatsAreOwn` | `BackendsOwnStats` |
| `PoolerProofs!FieldsHaveTheirColumns` | `FieldsAsNamed` |
| `PoolerProofs!TheBooksBalance` | `BooksBalance` |
| `DbCollectProofs!ListsTypeCorrect` | `TypeOK` of the lists |
| `DbCollectProofs!NothingLost` | `RowsStay` |
| `DbCollectProofs!RowsAreOnce` | `NoRowTwice` |
| `DbCollectProofs!LookedUpInTime` | `KnownInTime` |
| `DbCollectProofs!NamesHitHome` | `NamesHitTheirDatabase` |
| `DbCollectProofs!TriggersFindTables` | `TriggersPlaced` |
| `DbCollectProofs!CollectionRunsOut` | each step of the collection lowers a variant |
| `DbLookupProofs!OidsHitFirst` | `OidLookupsHitFirst` |
| `SessionsProofs!SessionsTypeCorrect` | `TypeOK` of the server and the answers |
| `SessionsProofs!LastingWaitsShown` | `WaitsAreShown` |
| `SessionsProofs!BlockersDidBlock` | `BlockersOfThatLock` |
| `SessionsProofs!RingsAreDeadlocks` | `DeadlocksAreReal` |

Assumptions are those of the modules: `InputsAreLogs` (files are sequences of
lines), `SizesAreSizes` and `ScansAreFiles` (positive sizes, lines inside the
file that do not overlap), `NamesAreNames`, `HostsAreHosts`, `WorldsAreWorlds`, `NoDBIsNone` and its
like (what stands for nothing is nothing else), `KindsDiffer` (a process is a client, a worker or a prepared transaction), `OidsAreNumbers` (finitely many, which have an order),
`FinitelyMany` (a pooler has finitely many connections and pools), and `CurrentInFormat` (a server that says that it writes csv to a file does).

*LogReader.* None of the safety properties but the types is inductive: they speak of `entries`,
and what the next flush adds is in `currLog`. `CarryOver` adds what `currLog`
may hold at each place of a buffer: it began before the reader's place and
not before any reported entry (`OpenEntryIsLatest`); while `count` is 0 nothing of the
window was passed (`NothingTakenYet`), so the first line taken decides whether
the file is orphaned; once a line was taken, the open entry is one of this file that
was not reported yet, or the file is orphaned (`OpenEntryIsOwn`). A flush then
adds an entry that is no earlier than all others and equals one of them only in an
orphaned file. `ExtraInv` says of the lines of the reported entries and of the open
one that they belong there, and that since the line that opened the open entry no
other opened one. `LeftInv` says that each line of the window that the
reader has passed is in the report or in `currLog`; the end of a buffer flushes
`currLog`, or nothing of the window was passed. One lemma treats the flush, one each the actions.

The refinement needs one more fact, and takes the others (`Sound`). `OpenIsWhole` says that while a text file is
read, the open entry has under it every line of the window since its own, in order (`WholeUntil`); so
what a flush adds is whole (`FlushedIsWhole`), and it is next, because `LeftInv` puts all lines before it
in the report, or their file is lost (`FlushedIsNext`); a csv record is whole and next
at once (`RecordIsNext`). Lemma `Reports` puts this together for every action: it reports nothing, or the one entry
that `LogReport!Report` asks for, or it leaves a file, which is `Lose`. `Under` of `LogReport` is a set and `Listing` its
lines in order: the proof shows that what the reader has is such a list. `DeadlockDetail` follows
from `Sound` as well: the DETAIL that `getExtra` finds first in the entry is the first one
written under it, since the entry has them all in order.

*LogScan.* With the types, the inductive invariant says that while the search goes on
`ofs > -Block` and `ofs + Block <= flen`, which is what makes the slice of the
buffer non-empty and inside the file. For the seek, `NothingBefore(ofs)` is
established by the step that stops: at the top of the file nothing is left out,
and a block whose first time is old has an old line in it or starts with part of a number.
It stays while the file is not emptied: until then `ofs <= size`, so that what the server writes
is behind `ofs`.

*Collect.* `DbOnce` is inductive with the type of `collectedDBs`: only
`AnswerCurrentDatabase` extends it, by a name that is not in it.
`RoleUntilReconnect` is not: between the queries, the connection that
`GetConn` opened must still be open and under the role (`RoleInv`).

The rest needs the plans. `Sound` is the set of queries
that the functions of `Queries` build: if a fatal one shares a timeout with its predecessor
it is `WALLSN`. Each plan is shown to be a sequence of these, and `TypeInv` says that
what is left of it is; so a fatal failure with an inherited cause is of `WALLSN`
(`DieInv`). `StageInv` says where in a run the cluster is not yet collected, is being
collected (`head`, whose plan `HeadPlan` is given) or was collected, which is once and with the version
known. `BlindInv` follows: of the queries before that only the settings query depends on the version. `CoverInv`
says that `collectedDBs` are the databases of the names up to the last turn, or
up to this one, or that the plan still asks for the database (`Asks`), which
gives `AllListedOrNothing` at the end. `HostInv` says, while no connection was lost, that the hosts
asked are at most one, whose are the version, the state of recovery and the place (`Fits`), that during the first name the
connection leads to it, and that a later name changes none of these facts: the
plans of a database (`DbPlans`) have no query that does (`FactFree`). `Sections` is an enumerated set, as the
prover cannot show that a literal is a string.

*LogFiles.* `RightLog` needs what the choice leaves for the reader: `FilesInv` says
of the files still to be read what the property says of those that were,
`CurrentInv` that the file the server named is in the format of the settings, and
is the current one unless the server rotated. `WholeAndInOrder` needs the state of the
download: the list is sorted and names no file twice (`ListInv`), `lines` are
the numbers from 1 to `marker` (`LinesInv`), the buffers are those of files before
`next` (`SourceInv`), and files do not shrink (`GrowInv`).

*Pooler.* `BackendsOwnStats` is inductive once it says, by the place in the
plan, which columns are filled: a backend that stays in `steady` has its row in
every table that was matched after it was listed. `FieldsAsNamed` is shown by
enumeration, version by version, of the columns sent and the fields they are scanned into, and no
later step touches them. `BookInv` says that as long as nothing changed (`quiet`) the figures
of each table are counts and waits of the connections there are, and that the waits that the clients'
table gives agree with each other however the connections change. Then `BooksBalance` is about numbers:
the sum over the pools of what is counted in each is what is counted in all (`SumOfParts`), as the
pools part the connections, and the longest of the longest waits is the longest one. Sums are
`MapThenSumSet`, a recursion over sets; that the recursion has a value for every finite set, and which,
is shown for a smallest subset for which it would fail.

*DbCollect.* `Legal` is the types, with the order of what is still to be called (`Ordered`)
and that the database being collected is in `collectedDBs`. `Walk` describes every step by
what it does to a list: it edits rows in place, or adds rows of the current
database. So `RowsStay` is immediate, and `NoRowTwice` follows from `RowsInv`: while a
database's tables are still to be asked it has no rows, and while they are to be asked again it has
each once and its attempt is in `retried`. `KnownInTime` is the order of the plan and that an
answer stays. `NamesHitTheirDatabase` takes two invariants: `SaidInv`, that
nothing is said of a database before its turn and before the function that
says it, and `MarkInv`, that the marked rows are the first named ones of
what was said; a new row is not marked because it is not the first, or
because nothing was said of it. `TriggersPlaced` needs `FromInv`, that a
trigger's database was collected, and `LastInv`, that the current one is
the last, so that rows that come later are of databases that come later.

`OidLookupsHitFirst` is about answers that overwrite each other. `BehindInv` is the order of
the plan: parents are asked for after the tables, definitions after the indexes. `SpokenInv` says
that whoever spoke of an OID was collected and has added all its rows, `LookupInv`
that the first row of an OID holds what the latest database to speak of it said (`Hits`), and the others
nothing: who speaks is the current database, which is later than all that did, and a new row is
of a database that has said nothing yet.

*Sessions.* The types are inductive with two facts: who has a lock or waits is there, and
nothing is known of blockers before they are asked for, of nobody twice. `SteadyInv` says
that the waits in `steady` still are waits, that the sessions show them, and from
`getLockRows` on the locks too, under no other object; `SureInv` that those in `sure` are also among
the blockers. `StillInv` says that the wait a row tells of still is what it was or has ended since, `SeenInv`
that each blocker told is in `seen`, on the object of the row unless that wait had ended. `RealInv` is
for the rings: whoever was to be asked waits unless it is in `woke`, and a blocker that was told and
itself waits stays one for as long as both wait (lemma `BlockersStay`), so that the answers, which are
of different moments, hold together.

*Variants.* `ReaderRunsOut`, `ScanRunsOut`, `RunRunsOut` and `CollectionRunsOut` bound the number of steps. Each
gives a variant, a number or a tuple of numbers, which every step that changes anything makes smaller, the first number that
changes deciding (`Below`): for a run the phase, the databases not yet in `collectedDBs`, the names left, whether one is being opened,
the queries left of the plan, whether the first of them may still be asked again, and whether the connection is
open. What makes one of these numbers larger makes an earlier one smaller: queries come into the plan when a
name is opened, or when a new database leaves the uncounted ones; a query is asked again once; a connection
is opened again for a query, which is then off the plan. The environment's steps are included where they can
undo the program's: a closed connection is lost. A rotation and the server that writes the file again may go on forever,
but the number of `ScanRunsOut` does not depend on them. `RunRunsOut` counts steps of the model, and the download from RDS and
the writing of the report are one each; of their duration it says nothing. (In `DbCollect` the changes of the schema are as many as `o.changes` says, which is a
bound of the model; what matters is that the program's own steps are bounded by the other five numbers.) `LeastVariant`
says that there is no infinite descent of these tuples. What is not proved is that the program does take its
next step: `EveryFileIsLeft`, `ScanEnds`, `Ends` and `CollectionEnds` rest on fairness and
on ENABLED, which are out of the prover's reach. These four are only model-checked; everything
else that a passing run checks is proved.

Where a proof needs an induction over data (the first DETAIL, sums over sets, the descent of tuples) it takes
a smallest counterexample instead, from the well-founded order of the natural numbers, as the library's
induction theorems cannot be instantiated.

## Plan

Done: all modules above. What could follow, in this order:

1. `Shell`: `-i`, the password prompt, output and write errors. Abstract
   specification: a run either writes a complete report and exits with 0, or
   not. It is sequential code with little state; `csv.go` ignores errors of `Flush`.
2. Operators for the arithmetic of the human-readable report (LSNs, XID distances,
   percentages), checked against reference definitions over bounded inputs.
3. Hosts of different versions for later names: with which version each query is sent,
   and to which (`OneServer` stops at the first name).
4. A theorem that the order of calls in `DbCollect` and `Pooler` is the one that
   `Queries` plans, restricted to the functions they have.

## Not modelled

System metrics and the requests to Azure Monitor and CloudWatch (input and output
without control); the text of queries and most of the data of the report; the
validation of options, `-i`, the pager and the csv writer; the layout and arithmetic of the human-readable report, and what it joins other than sessions, locks and blockers; the
lists that nothing refers to (sequences, functions, publications, subscriptions), beyond
their queries and failures; examples, scripts and builds. What
`compilePrefix` accepts is in the model as lines that match or not; the
formats of auto_explain plans are left out.
