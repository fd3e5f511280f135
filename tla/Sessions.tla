------------------------------- MODULE Sessions -------------------------------
(***************************************************************************)
(* What a report says of sessions that wait for locks: collectCluster asks *)
(* for sessions, locks and blockers one after the other, and report.go     *)
(* joins the answers by process ID.  Each answer is as of its own moment;  *)
(* the sessions work on in between.                                        *)
(***************************************************************************)
EXTENDS Integers, Sequences, FiniteSets, SequencesExt

CONSTANTS
  Clients,  \* the process IDs of client backends
  Workers,  \* those of other backends: autovacuum, parallel and background workers
  Prepared, \* prepared transactions: they have locks and no process
  Zero,     \* the process ID that is shown for these
  Objects,  \* what can be locked
  Listed,   \* the objects of a database of the report: relations, not transaction IDs
  Nothing,
  MaxHeld,  \* a bound: how many locks a process has at a time
  Worlds    \* the servers

Procs == Clients \cup Workers \cup Prepared

\* Versions 9.5, 9.6 and 10 are 95, 96 and 100. moves is a bound: how many steps the
\* sessions take from the first query on; before it they may take any number. So is
\* procs: the processes there can be.
World == [version : Nat, moves : Nat, procs : SUBSET Procs]

ASSUME ListedAreObjects == Listed \subseteq Objects
ASSUME KindsDiffer == /\ Clients \cap (Workers \cup Prepared) = {}
                      /\ Workers \cap Prepared = {} /\ Zero \notin Procs
ASSUME NothingIsNone == Nothing \notin Objects \X {"share", "exclusive"}
ASSUME MaxHeldIsNumber == MaxHeld \in Nat
ASSUME ServersAreWorlds == Worlds \subseteq World

Modes == {"share", "exclusive"}
Locks == Objects \X Modes

VARIABLES
  o,          \* the server; never changes
  there,      \* the sessions and prepared transactions that there are
  held,       \* per process, the locks granted to it
  wants,      \* per process, the lock it waits for
  before,     \* of processes that wait, which began to before which
  moved,      \* how many steps the sessions have taken
  todo,       \* the functions still to be called
  pending,    \* getBlockers96: the processes whose blockers are still to be asked
  backends,   \* c.result.Backends: per process ID, if it waits for a lock
  locks,      \* c.result.Locks
  blocking,   \* c.result.BlockingPIDs
  exit,       \* "none", "fatal" or "report"
  steady,     \* history: who waits for what and whom ever since getActivity
  sure, seen, \* history: of steady and of all waits, those when blockers were asked
  woke        \* history: whose wait has ended since getLockRows

server  == <<there, held, wants, before>>
answers == <<backends, locks, blocking>>
history == <<steady, sure, seen, woke>>
vars    == <<o, server, moved, todo, pending, answers, exit, history>>

\* Mutant: the locks are asked for before the sessions.
CollectClusterLocksFirst == <<"getLockRows", "getActivity", "getBlockers">>
CollectCluster == <<"getActivity", "getLockRows", "getBlockers">>

Init ==
  /\ o \in Worlds
  /\ there = o.procs \ Prepared
  /\ held = [p \in Procs |-> {}] /\ wants = [p \in Procs |-> Nothing] /\ before = {}
  /\ moved = 0
  /\ todo = CollectCluster /\ pending = {}
  /\ backends = <<>> /\ locks = {} /\ blocking = <<>>
  /\ exit = "none"
  /\ steady = {} /\ sure = {} /\ seen = {} /\ woke = {}
-----------------------------------------------------------------------------
(***************************************************************************)
(* External: PostgreSQL.  A lock is granted unless another process has, or *)
(* waits for, one that conflicts.  A deadlock ends when one of those in it *)
(* is aborted, which is a Finish.                                          *)
(***************************************************************************)
Waits(p) == wants[p] # Nothing
Conflict(a, b) == a[1] = b[1] /\ "exclusive" \in {a[2], b[2]}

\* pg_blocking_pids: who has, or will have before it, what q waits for.
Blockers(q) ==
  {p \in Procs \ {q} :
     /\ Waits(q)
     /\ \/ \E l \in held[p] : Conflict(l, wants[q])
        \/ <<p, q>> \in before /\ Conflict(wants[p], wants[q])}

Waiters == {q \in Procs : Waits(q)}

\* Who waits, what for, and for whom.
AllWaits == UNION {{<<q, wants[q][1], p>> : p \in Blockers(q)} : q \in Procs}

\* A step of the sessions. Those before the run are not counted.
Moves ==
  /\ exit = "none"
  /\ IF todo = CollectCluster THEN UNCHANGED moved
     ELSE moved < o.moves /\ moved' = moved + 1
  /\ steady' = steady \cap AllWaits'
  /\ woke' = IF "getLockRows" \in ToSet(todo) THEN {}
             ELSE woke \cup {p \in Procs : Waits(p) /\ wants'[p] = Nothing}
  /\ UNCHANGED <<o, todo, pending, answers, exit, sure, seen>>

Denies(q, l) == \E k \in held[q] \cup ({wants[q]} \ {Nothing}) : Conflict(k, l)

Lock(p, l) ==
  /\ p \in there \ Prepared /\ ~Waits(p) /\ l \notin held[p]
  /\ Cardinality(held[p]) < MaxHeld \/ \E q \in Procs \ {p} : Denies(q, l)
  /\ IF \E q \in Procs \ {p} : Denies(q, l)
     THEN /\ wants' = [wants EXCEPT ![p] = l] /\ before' = before \cup (Waiters \X {p})
          /\ UNCHANGED held
     ELSE /\ held' = [held EXCEPT ![p] = @ \cup {l}] /\ UNCHANGED <<wants, before>>
  /\ UNCHANGED there /\ Moves

StopsWaiting(p) == /\ wants' = [wants EXCEPT ![p] = Nothing]
                   /\ before' = {b \in before : p \notin {b[1], b[2]}}

Grant(p) ==
  /\ Waits(p) /\ Blockers(p) = {}
  /\ held' = [held EXCEPT ![p] = @ \cup {wants[p]}]
  /\ StopsWaiting(p)
  /\ UNCHANGED there /\ Moves

LetGo(p) == held' = [held EXCEPT ![p] = {}] /\ StopsWaiting(p)

\* A transaction ends, prepared ones too.
Finish(p) ==
  /\ p \in there /\ (held[p] # {} \/ Waits(p))
  /\ LetGo(p) /\ there' = there \ ({p} \cap Prepared) /\ Moves

Disconnect(p) ==
  /\ p \in there \ Prepared /\ LetGo(p) /\ there' = there \ {p} /\ Moves

Connect(p) ==
  /\ p \in o.procs \ (there \cup Prepared) /\ there' = there \cup {p}
  /\ UNCHANGED <<held, wants, before>> /\ Moves

\* PREPARE TRANSACTION: its locks are no session's any more.
Prepare(p, x) ==
  /\ p \in there \cap Clients /\ ~Waits(p) /\ held[p] # {}
  /\ x \in (o.procs \cap Prepared) \ there /\ there' = there \cup {x}
  /\ held' = [held EXCEPT ![p] = {}, ![x] = held[p]]
  /\ UNCHANGED <<wants, before>> /\ Moves

-----------------------------------------------------------------------------
(***************************************************************************)
(* The functions of collectCluster.                                        *)
(***************************************************************************)
Doing(f) == exit = "none" /\ todo # <<>> /\ Head(todo) = f
\* After the last, the report is made: nothing here depends on what comes between.
Goes == /\ todo' = Tail(todo) /\ exit' = IF Tail(todo) = <<>> THEN "report" ELSE exit
        /\ UNCHANGED <<o, server, moved>>

\* Mutant: prepared transactions have process IDs.
PidOfAll(p) == p
\* COALESCE(L.pid, 0), and what pg_blocking_pids says of a prepared transaction.
Pid(p) == IF p \in Prepared THEN Zero ELSE p

\* From version 10 on, only client backends are collected.
Shown == IF o.version >= 100 THEN Clients ELSE Clients \cup Workers

\* wait_event_type, or what stands for it before 9.6.
WaitType(p) == IF ~Waits(p) THEN "" ELSE IF o.version >= 96 THEN "Lock" ELSE "waiting"

GetActivity ==
  /\ Doing("getActivity")
  /\ backends' = [p \in there \cap Shown |-> WaitType(p)]
  /\ steady' = AllWaits
  /\ Goes /\ UNCHANGED <<pending, locks, blocking, sure, seen, woke>>

Row(p, l, granted) ==
  [pid |-> Pid(p), object |-> l[1], mode |-> l[2], granted |-> granted]

RowsOfHeld(p) == {Row(p, l, TRUE) : l \in held[p]}

GetLockRows ==
  /\ Doing("getLockRows")
  /\ locks' = (UNION {RowsOfHeld(p) : p \in Procs})
                \cup {Row(p, wants[p], FALSE) : p \in Waiters}
  /\ woke' = {}
  /\ Goes /\ UNCHANGED <<pending, backends, blocking, steady, sure, seen>>

\* Mutant: the function is asked from version 10 on.
AsksForBlockersLater == o.version >= 100
\* pg_blocking_pids was added in 9.6.
AsksForBlockers == o.version >= 96

\* Before: whoever has or waits for a lock on the same object, in whatever mode, and
\* has a process ID.  One query, so of one moment.
GetBlockers ==
  LET lockables(p) == {l[1] : l \in held[p] \cup ({wants[p]} \ {Nothing})}
      others(q) == {p \in Procs \ (Prepared \cup {q}) : wants[q][1] \in lockables(p)}
  IN  /\ Doing("getBlockers") /\ ~AsksForBlockers
      /\ blocking' = [q \in {w \in Waiters : others(w) # {}} |-> others(q)]
      /\ sure' = steady /\ seen' = AllWaits
      /\ Goes /\ UNCHANGED <<pending, backends, locks, steady, woke>>

\* getBlockers96: first WITH P, the processes that wait ...
GetWaiters ==
  /\ Doing("getBlockers") /\ AsksForBlockers
  /\ pending' = Waiters
  /\ todo' = [todo EXCEPT ![1] = "pg_blocking_pids"]
  /\ UNCHANGED <<o, server, moved, answers, exit, history>>

Asked(q, who) ==
  /\ Doing("pg_blocking_pids") /\ q \in pending
  /\ blocking' = [p \in DOMAIN blocking \cup {q} |->
                    IF p = q THEN {Pid(b) : b \in who} ELSE blocking[p]]
  /\ pending' = pending \ {q}
  /\ sure' = sure \cup {t \in steady : t[1] = q}
  /\ seen' = seen \cup {t \in AllWaits : t[1] = q}
  /\ UNCHANGED <<o, server, moved, todo, backends, locks, exit, steady, woke>>

\* Mutant: the columns are swapped.
BlockingPidsSwapped(q) == Asked(q, {p \in Procs : q \in Blockers(p)})

\* ... then the function for each row, when its turn comes.
BlockingPids(q) == Asked(q, Blockers(q))

EndBlockers ==
  /\ Doing("pg_blocking_pids") /\ pending = {}
  /\ Goes /\ UNCHANGED <<pending, answers, history>>

\* log.Fatalf in any of them.
Dies ==
  /\ exit = "none" /\ todo # <<>>
  /\ exit' = "fatal"
  /\ UNCHANGED <<o, server, moved, todo, pending, answers, history>>

Next ==
  \/ \E p \in Procs : \/ \E l \in Locks : Lock(p, l)
                      \/ Grant(p) \/ Finish(p) \/ Disconnect(p) \/ Connect(p)
                      \/ \E x \in Prepared : Prepare(p, x)
                      \/ BlockingPids(p)
  \/ GetActivity \/ GetLockRows \/ GetBlockers \/ GetWaiters \/ EndBlockers
  \/ Dies

Spec == Init /\ [][Next]_vars

-----------------------------------------------------------------------------
(***************************************************************************)
(* What report.go prints.                                                  *)
(***************************************************************************)
isWaitingLock(type) == type \in {"Lock", "waiting"}

\* "Waiting for Locks".
WaitingForLocks == {p \in DOMAIN backends : isWaitingLock(backends[p])}

\* "Blocked Queries" of the databases: getBE must find the backend.
BlockedQueries ==
  {l \in locks : l.object \in Listed /\ ~l.granted /\ l.pid \in DOMAIN backends}

\* "Waiting For", under a blocked query.
WaitingFor(l) ==
  IF l.pid \in DOMAIN blocking THEN blocking[l.pid] \cap DOMAIN backends ELSE {}

-----------------------------------------------------------------------------
(***************************************************************************)
(* Properties.                                                             *)
(***************************************************************************)
Pids  == Clients \cup Workers \cup {Zero}
Waits3 == Procs \X Objects \X Procs

\* The types of the variables. Only processes wait.
TypeOK ==
  /\ o \in Worlds /\ there \subseteq Procs /\ moved \in 0..o.moves
  /\ held \in [Procs -> SUBSET Locks] /\ wants \in [Procs -> Locks \cup {Nothing}]
  /\ before \subseteq Waiters \X Waiters /\ Waiters \subseteq there \ Prepared
  /\ pending \subseteq Procs \ Prepared
  /\ DOMAIN backends \subseteq Shown
  /\ \A p \in DOMAIN backends : backends[p] \in {"", "Lock", "waiting"}
  /\ locks \subseteq [pid : Pids, object : Objects, mode : Modes, granted : BOOLEAN]
  /\ DOMAIN blocking \subseteq Procs \ Prepared
  /\ \A p \in DOMAIN blocking : blocking[p] \subseteq Pids
  /\ exit \in {"none", "fatal", "report"}
  /\ steady \subseteq Waits3 /\ sure \subseteq Waits3 /\ seen \subseteq Waits3
  /\ woke \subseteq Procs

\* Although three answers of three moments are joined, a client that waits from the
\* first to the last is shown as it is.  It is under "Waiting for Locks",
\* whatever the version.  It is under "Blocked Queries" if what it waits for is of a listed
\* database, and then with that object only; waits for a row, which are waits for a
\* transaction ID of no database, are not there.  Each client that it
\* waits for all the time is under its "Waiting For".
WaitsAreShown ==
  exit = "report" =>
    \A t \in sure : t[1] \in Clients =>
      /\ t[1] \in WaitingForLocks
      /\ t[2] \in Listed <=> \E l \in BlockedQueries : l.pid = t[1]
      /\ \A l \in BlockedQueries : l.pid = t[1] =>
           l.object = t[2] /\ (t[3] \in Clients => t[3] \in WaitingFor(l))

\* Under "Waiting For" the lock is of one moment and the blocker of a later one. What is
\* printed there is true: the blocker did block this session, and on this
\* object unless the wait that is shown was over by then.  Before 9.6
\* sessions that merely share the object are there too.
BlockersOfThatLock ==
  exit = "report" /\ AsksForBlockers =>
    \A l \in BlockedQueries : \A p \in WaitingFor(l) :
      \E t \in seen : t[1] = l.pid /\ t[3] = p /\ (t[2] = l.object \/ l.pid \in woke)

\* Processes are asked for their blockers one by one, so a ring of blockers in
\* the report may never have existed.  If no wait in it has ended
\* since the locks were collected, it is a deadlock that still is.  Before 9.6 any two that
\* wait for one object make a ring.
DeadlocksAreReal ==
  o.version >= 96 =>
    \A S \in SUBSET (DOMAIN blocking \ woke) :
      (\A q \in S : blocking[q] \cap S # {}) => \A q \in S : Blockers(q) \cap S # {}
=============================================================================
