---------------------------- MODULE SessionsProofs ----------------------------
(***************************************************************************)
(* For all processes, objects and schedules: the types, and what a report  *)
(* says of waits that last, of those who block, and of rings of them.      *)
(***************************************************************************)
EXTENDS Sessions, TLAPS

-----------------------------------------------------------------------------
(***************************************************************************)
(* The functions still to be called.                                       *)
(***************************************************************************)
T1 == CollectCluster
T2 == <<"getLockRows", "getBlockers">>
T3 == <<"getBlockers">>
T4 == <<"pg_blocking_pids">>
Todos == {T1, T2, T3, T4, <<>>}

LEMMA Heads ==
  /\ Head(T1) = "getActivity" /\ Head(T2) = "getLockRows" /\ Head(T3) = "getBlockers"
  /\ Head(T4) = "pg_blocking_pids"
BY DEF T1, T2, T3, T4, CollectCluster

LEMMA Tails ==
  /\ Tail(T1) = T2 /\ Tail(T2) = T3 /\ Tail(T3) = <<>> /\ Tail(T4) = <<>>
  /\ [T3 EXCEPT ![1] = "pg_blocking_pids"] = T4
<1>1. Tail(T1) = T2
  BY DEF T1, T2, CollectCluster
<1>2. Tail(T2) = T3
  BY DEF T2, T3
<1>3. Tail(T3) = <<>>
  BY DEF T3
<1>4. Tail(T4) = <<>>
  BY DEF T4
<1>5. [T3 EXCEPT ![1] = "pg_blocking_pids"] = T4
  BY DEF T3, T4
<1> QED BY <1>1, <1>2, <1>3, <1>4, <1>5

LEMMA NotEmpty ==
  T1 # <<>> /\ T2 # <<>> /\ T3 # <<>> /\ T4 # <<>>
BY DEF T1, T2, T3, T4, CollectCluster

LEMMA LockRowsTaken ==
  /\ "getLockRows" \in ToSet(T1) /\ "getLockRows" \in ToSet(T2)
  /\ "getLockRows" \notin ToSet(T3) /\ "getLockRows" \notin ToSet(T4)
  /\ "getLockRows" \notin ToSet(<<>>)
<1>1. T1[2] = "getLockRows" /\ 2 \in DOMAIN T1
  BY DEF T1, CollectCluster
<1>2. T2[1] = "getLockRows" /\ 1 \in DOMAIN T2
  BY DEF T2
<1>3. "getLockRows" \notin ToSet(T3)
  BY DEF ToSet, T3
<1>4. "getLockRows" \notin ToSet(T4)
  BY DEF ToSet, T4
<1>5. "getLockRows" \notin ToSet(<<>>)
  BY DEF ToSet
<1> QED BY <1>1, <1>2, <1>3, <1>4, <1>5 DEF ToSet

\* Which function is next, and what is left when it has been called.
LEMMA Whose ==
  ASSUME todo \in Todos, NEW f, Doing(f)
  PROVE  /\ f = "getActivity" => todo = T1
         /\ f = "getLockRows" => todo = T2
         /\ f = "getBlockers" => todo = T3
         /\ f = "pg_blocking_pids" => todo = T4
         /\ Tail(todo) \in Todos
BY Heads, Tails DEF Doing, Todos

-----------------------------------------------------------------------------
(***************************************************************************)
(* The types.  What has a lock or waits is there; nothing is known of      *)
(* blockers before they are asked for, and nobody is asked twice.          *)
(***************************************************************************)
ServerType ==
  /\ there \subseteq Procs /\ held \in [Procs -> SUBSET Locks]
  /\ wants \in [Procs -> Locks \cup {Nothing}]
  /\ before \subseteq Waiters \X Waiters /\ Waiters \subseteq there \ Prepared
  /\ \A p \in Procs : held[p] # {} => p \in there

AnswersType ==
  /\ pending \subseteq Procs \ Prepared
  /\ DOMAIN backends \subseteq Shown
  /\ \A p \in DOMAIN backends : backends[p] \in {"", "Lock", "waiting"}
  /\ locks \subseteq [pid : Pids, object : Objects, mode : Modes, granted : BOOLEAN]
  /\ DOMAIN blocking \subseteq Procs \ Prepared
  /\ \A p \in DOMAIN blocking : blocking[p] \subseteq Pids

HistoryType ==
  /\ exit \in {"none", "fatal", "report"}
  /\ steady \subseteq Waits3 /\ sure \subseteq Waits3 /\ seen \subseteq Waits3
  /\ woke \subseteq Procs

Early == todo \in {T1, T2, T3} =>
           blocking = <<>> /\ pending = {} /\ sure = {} /\ seen = {}

TypeInv ==
  /\ o \in Worlds /\ moved \in 0..o.moves /\ todo \in Todos
  /\ ServerType /\ AnswersType /\ HistoryType
  /\ Early /\ pending \cap DOMAIN blocking = {}

SessionStep(p) == \/ \E l \in Locks : Lock(p, l)
                  \/ Grant(p) \/ Finish(p) \/ Disconnect(p) \/ Connect(p)
                  \/ \E x \in Prepared : Prepare(p, x)

CollectorStep == \/ \E p \in Procs : BlockingPids(p)
                 \/ GetActivity \/ GetLockRows \/ GetBlockers \/ GetWaiters \/ EndBlockers
                 \/ Dies

LEMMA TypeInvImplies == TypeInv => TypeOK
BY DEF TypeInv, TypeOK, ServerType, AnswersType, HistoryType

LEMMA StepIs ==
  ASSUME [Next]_vars
  PROVE  (\E p \in Procs : SessionStep(p)) \/ CollectorStep \/ UNCHANGED vars
BY DEF Next, SessionStep, CollectorStep

LEMMA LocksAreLocks == Nothing \notin Locks
BY NothingIsNone DEF Locks, Modes

LEMMA AllWaitsAre ==
  ASSUME NEW t
  PROVE  t \in AllWaits <=>
           \E q, p \in Procs : p \in Blockers(q) /\ t = <<q, wants[q][1], p>>
<1>1. \A q : Blockers(q) \subseteq Procs
  BY DEF Blockers
<1> QED BY <1>1 DEF AllWaits

LEMMA WaitsTyped ==
  ASSUME ServerType, NEW t \in AllWaits
  PROVE  /\ t \in Waits3 /\ t[1] \in Waiters /\ t[1] \notin Prepared
         /\ t[2] = wants[t[1]][1] /\ t[3] \in Blockers(t[1]) /\ wants[t[1]] \in Locks
<1>1. PICK q, p \in Procs : p \in Blockers(q) /\ t = <<q, wants[q][1], p>>
  BY AllWaitsAre
<1>2. Waits(q)
  BY <1>1 DEF Blockers
<1>3. wants[q] \in Objects \X Modes
  BY <1>2 DEF ServerType, Waits, Locks
<1>4. wants[q][1] \in Objects
  BY <1>3
<1>5. t[1] = q /\ t[2] = wants[q][1] /\ t[3] = p
  BY <1>1
<1>6. q \in Waiters /\ q \notin Prepared
  BY <1>2 DEF Waiters, ServerType
<1>7. t \in Waits3
  BY <1>1, <1>4 DEF Waits3
<1> QED BY <1>1, <1>3, <1>5, <1>6, <1>7 DEF Locks, Modes

\* What the steps of the sessions have in common.
LEMMA SessionsMove ==
  ASSUME NEW p \in Procs, SessionStep(p)
  PROVE  Moves
BY DEF SessionStep, Lock, Grant, Finish, Disconnect, Connect, Prepare

LEMMA SessionsTyped ==
  ASSUME ServerType, NEW p \in Procs, SessionStep(p)
  PROVE  ServerType'
<1> USE DEF ServerType, Waiters, Waits
<1>1. ASSUME NEW l \in Locks, Lock(p, l) PROVE ServerType'
  <2>1. CASE wants' = [wants EXCEPT ![p] = l] /\ before' = before \cup (Waiters \X {p})
             /\ UNCHANGED held /\ UNCHANGED there
    <3>1. Waiters' = Waiters \cup {p}
      BY <2>1, LocksAreLocks
    <3>2. p \in there \ Prepared
      BY <1>1 DEF Lock
    <3> HIDE DEF Waiters
    <3> QED BY <2>1, <3>1, <3>2
  <2>2. CASE held' = [held EXCEPT ![p] = @ \cup {l}] /\ UNCHANGED <<wants, before, there>>
    BY <1>1, <2>2 DEF Lock
  <2> QED BY <1>1, <2>1, <2>2 DEF Lock
<1>2. ASSUME StopsWaiting(p)
      PROVE  /\ wants' \in [Procs -> Locks \cup {Nothing}] /\ Waiters' = Waiters \ {p}
             /\ before' \subseteq Waiters' \X Waiters'
  <2>1. Waiters' = Waiters \ {p}
    BY <1>2 DEF StopsWaiting
  <2>2. \A b \in before' : b \in Waiters \X Waiters /\ p # b[1] /\ p # b[2]
    BY <1>2 DEF StopsWaiting
  <2>3. wants' \in [Procs -> Locks \cup {Nothing}]
    BY <1>2 DEF StopsWaiting
  <2> HIDE DEF Waiters
  <2> QED BY <2>1, <2>2, <2>3
<1>3. CASE Grant(p)
  <2>1. StopsWaiting(p) /\ UNCHANGED there /\ held' = [held EXCEPT ![p] = @ \cup {wants[p]}]
        /\ wants[p] \in Locks /\ p \in there
    BY <1>3 DEF Grant
  <2> QED BY <1>2, <2>1
<1>4. ASSUME LetGo(p), there \ {p} \subseteq there', there' \subseteq there,
             p \notin there' => p \in Procs
      PROVE  ServerType'
  <2>1. StopsWaiting(p) /\ held' = [held EXCEPT ![p] = {}]
    BY <1>4 DEF LetGo
  <2> QED BY <1>2, <1>4, <2>1
<1>5. CASE Finish(p)
  BY <1>4, <1>5 DEF Finish
<1>6. CASE Disconnect(p)
  BY <1>4, <1>6 DEF Disconnect
<1>7. CASE Connect(p)
  BY <1>7 DEF Connect
<1>8. ASSUME NEW x \in Prepared, Prepare(p, x) PROVE ServerType'
  <2>1. x \in Procs /\ p \in there /\ p # x
    BY <1>8, KindsDiffer DEF Prepare, Procs
  <2> QED BY <1>8, <2>1 DEF Prepare
<1> QED BY <1>1, <1>3, <1>5, <1>6, <1>7, <1>8 DEF SessionStep

LEMMA WorldType == TypeInv => o.version \in Nat /\ o.moves \in Nat
BY ServersAreWorlds DEF TypeInv, World

LEMMA MovesTyped ==
  ASSUME TypeInv, NEW p \in Procs, SessionStep(p)
  PROVE  TypeInv'
<1>1. Moves
  BY SessionsMove
<1>2. ServerType'
  BY SessionsTyped DEF TypeInv
<1>3. moved' \in 0..o.moves /\ UNCHANGED <<o, todo, pending, answers, exit, sure, seen>>
  BY <1>1, WorldType DEF Moves, TypeInv
<1>4. AnswersType' /\ Early' /\ (pending \cap DOMAIN blocking = {})'
  BY <1>3 DEF TypeInv, AnswersType, answers, Shown, Early
<1>5. HistoryType'
  <2>1. steady' \subseteq steady
    BY <1>1 DEF Moves
  <2>2. woke' \subseteq Procs
    BY <1>1 DEF Moves, TypeInv, HistoryType
  <2> QED BY <1>3, <2>1, <2>2 DEF TypeInv, HistoryType
<1> QED BY <1>2, <1>3, <1>4, <1>5 DEF TypeInv

LEMMA PidType == \A p \in Procs : Pid(p) \in Pids
BY DEF Pid, Pids, Procs

LEMMA AllWaitsType == ServerType => AllWaits \subseteq Waits3
BY WaitsTyped

\* Neither server nor what it does not touch matters to a step of the collector.
LEMMA CollectorKeeps ==
  ASSUME CollectorStep
  PROVE  UNCHANGED <<o, there, held, wants, before, moved>>
BY DEF CollectorStep, BlockingPids, Asked, GetActivity, GetLockRows, GetBlockers, GetWaiters,
       EndBlockers, Dies, Goes, server

LEMMA ServerKept ==
  ASSUME UNCHANGED <<there, held, wants, before>>
  PROVE  /\ AllWaits' = AllWaits /\ Waiters' = Waiters /\ ServerType' = ServerType
         /\ \A q : Blockers(q)' = Blockers(q)
<1>1. \A q : Blockers(q)' = Blockers(q)
  BY DEF Blockers, Waits
<1>2. Waiters' = Waiters
  BY DEF Waiters, Waits
<1> QED BY <1>1, <1>2 DEF AllWaits, ServerType

LEMMA RowsAre ==
  ASSUME GetLockRows, NEW r
  PROVE  r \in locks' <=> \/ \E p \in Procs : \E l \in held[p] : r = Row(p, l, TRUE)
                          \/ \E p \in Waiters : r = Row(p, wants[p], FALSE)
<1>1. \A p : r \in RowsOfHeld(p) <=> \E l \in held[p] : r = Row(p, l, TRUE)
  BY DEF RowsOfHeld
<1> DEFINE G == UNION {RowsOfHeld(p) : p \in Procs}
<1>2. r \in G <=> \E p \in Procs : r \in RowsOfHeld(p)
  OBVIOUS
<1> DEFINE R == {Row(p, wants[p], FALSE) : p \in Waiters}
<1>3. r \in R <=> \E p \in Waiters : r = Row(p, wants[p], FALSE)
  OBVIOUS
<1>4. locks' = G \cup R
  BY DEF GetLockRows
<1> HIDE DEF G, R
<1>5. r \in locks' <=> r \in G \/ r \in R
  BY <1>4
<1> QED BY <1>1, <1>2, <1>3, <1>5

LEMMA RowsTyped ==
  ASSUME TypeInv, GetLockRows
  PROVE  locks' \subseteq [pid : Pids, object : Objects, mode : Modes, granted : BOOLEAN]
<1>1. ASSUME NEW p \in Procs, NEW l \in Locks, NEW g \in BOOLEAN
      PROVE  Row(p, l, g) \in [pid : Pids, object : Objects, mode : Modes, granted : BOOLEAN]
  BY PidType DEF Row, Locks
<1>2. \A p \in Procs : held[p] \subseteq Locks
  BY DEF TypeInv, ServerType
<1>3. \A p \in Waiters : p \in Procs /\ wants[p] \in Locks
  BY DEF TypeInv, ServerType, Waiters, Waits
<1> SUFFICES ASSUME NEW r \in locks'
             PROVE  r \in [pid : Pids, object : Objects, mode : Modes, granted : BOOLEAN]
  OBVIOUS
<1>4. CASE \E p \in Procs : \E l \in held[p] : r = Row(p, l, TRUE)
  BY <1>1, <1>2, <1>4
<1>5. CASE \E p \in Waiters : r = Row(p, wants[p], FALSE)
  BY <1>1, <1>3, <1>5
<1> QED BY <1>4, <1>5, RowsAre

LEMMA CollectorTyped ==
  ASSUME TypeInv, CollectorStep
  PROVE  TypeInv'
<1>1. ServerType' /\ UNCHANGED <<o, moved>>
  BY CollectorKeeps, ServerKept DEF TypeInv
<1>2. SUFFICES todo' \in Todos /\ AnswersType' /\ HistoryType' /\ Early'
               /\ (pending \cap DOMAIN blocking = {})'
  BY <1>1 DEF TypeInv
<1> USE DEF TypeInv
<1>3. ASSUME Goes PROVE exit' \in {"none", "fatal", "report"}
  BY <1>3 DEF Goes, HistoryType
<1>4. Shown' = Shown
  BY <1>1 DEF Shown
<1>5. CASE GetActivity
  <2>1. todo = T1 /\ todo' = T2
    BY <1>5, Whose, Tails DEF GetActivity, Goes
  <2>2. \A p : WaitType(p) \in {"", "Lock", "waiting"}
    BY DEF WaitType
  <2>3. AnswersType'
    BY <1>4, <1>5, <2>2 DEF GetActivity, AnswersType
  <2> QED BY <1>3, <1>5, <2>1, <2>3, AllWaitsType DEF GetActivity, HistoryType, Early, Todos
<1>6. CASE GetLockRows
  <2>1. todo = T2 /\ todo' = T3
    BY <1>6, Whose, Tails DEF GetLockRows, Goes
  <2>2. AnswersType'
    BY <1>4, <1>6, RowsTyped DEF GetLockRows, AnswersType
  <2> QED BY <1>3, <1>6, <2>1, <2>2 DEF GetLockRows, HistoryType, Early, Todos
<1>7. CASE GetBlockers
  <2>1. todo = T3 /\ todo' = <<>> /\ <<>> \notin {T1, T2, T3}
    BY <1>7, Whose, Tails, NotEmpty DEF GetBlockers, Goes
  <2>2. DOMAIN blocking' \subseteq Waiters /\ Waiters \subseteq Procs \ Prepared
    BY <1>7 DEF GetBlockers, Waiters, ServerType
  <2>3. \A q \in DOMAIN blocking' : blocking'[q] \subseteq Procs \ Prepared
    BY <1>7 DEF GetBlockers
  <2>4. Procs \ Prepared \subseteq Pids
    BY DEF Procs, Pids
  <2>5. AnswersType' /\ pending' = {}
    BY <1>4, <1>7, <2>1, <2>2, <2>3, <2>4 DEF GetBlockers, AnswersType, Early
  <2> QED BY <1>3, <1>7, <2>1, <2>5, AllWaitsType DEF GetBlockers, HistoryType, Early, Todos
<1>8. CASE GetWaiters
  <2>1. todo = T3 /\ todo' = T4 /\ T4 \notin {T1, T2, T3}
    BY <1>8, Whose, Tails, Heads DEF GetWaiters
  <2>2. Waiters \subseteq Procs \ Prepared
    BY DEF Waiters, ServerType
  <2>3. AnswersType' /\ blocking' = <<>>
    BY <1>4, <1>8, <2>1, <2>2 DEF GetWaiters, AnswersType, Early, answers
  <2>4. DOMAIN blocking' = {}
    BY <2>3
  <2> QED BY <1>8, <2>1, <2>3, <2>4 DEF GetWaiters, HistoryType, Early, Todos, history
<1>9. ASSUME NEW q \in Procs, BlockingPids(q)
      PROVE  todo' \in Todos /\ AnswersType' /\ HistoryType' /\ Early'
             /\ (pending \cap DOMAIN blocking = {})'
  <2> DEFINE ps == {Pid(p) : p \in Blockers(q)}
  <2>1. todo = T4 /\ todo' = todo /\ T4 \notin {T1, T2, T3}
    BY <1>9, Whose, Heads DEF BlockingPids, Asked
  <2>2. /\ q \in pending /\ pending' = pending \ {q}
        /\ blocking' = [p \in DOMAIN blocking \cup {q} |-> IF p = q THEN ps ELSE blocking[p]]
    BY <1>9 DEF BlockingPids, Asked
  <2>3. ps \subseteq Pids
    BY PidType DEF Blockers
  <2> HIDE DEF ps
  <2>4. /\ DOMAIN blocking' = DOMAIN blocking \cup {q}
        /\ \A p \in DOMAIN blocking' : blocking'[p] = IF p = q THEN ps ELSE blocking[p]
    BY <2>2
  <2>5. UNCHANGED <<backends, locks, exit, steady, woke>>
    BY <1>9 DEF BlockingPids, Asked
  <2>6. AnswersType'
    BY <1>4, <2>2, <2>3, <2>4, <2>5 DEF AnswersType
  <2>7. sure' \subseteq sure \cup steady /\ seen' \subseteq seen \cup AllWaits
    BY <1>9 DEF BlockingPids, Asked
  <2>8. HistoryType'
    BY <2>5, <2>7, AllWaitsType DEF HistoryType
  <2> QED BY <2>1, <2>2, <2>4, <2>6, <2>8 DEF Early
<1>10. CASE EndBlockers
  <2>1. todo = T4 /\ todo' = <<>> /\ <<>> \notin {T1, T2, T3}
    BY <1>10, Whose, Tails, NotEmpty DEF EndBlockers, Goes
  <2> QED BY <1>3, <1>4, <1>10, <2>1
          DEF EndBlockers, AnswersType, HistoryType, Early, Todos, answers, history
<1>11. CASE Dies
  BY <1>4, <1>11 DEF Dies, AnswersType, HistoryType, Early, Todos, answers, history
<1> QED BY <1>5, <1>6, <1>7, <1>8, <1>9, <1>10, <1>11 DEF CollectorStep

LEMMA TypeNext == TypeInv /\ [Next]_vars => TypeInv'
<1>1. TypeInv /\ UNCHANGED vars => TypeInv'
  <2> SUFFICES ASSUME TypeInv, UNCHANGED vars PROVE TypeInv'
    OBVIOUS
  <2>1. ServerType'
    BY ServerKept DEF vars, server, TypeInv
  <2> QED BY <2>1 DEF vars, TypeInv, AnswersType, HistoryType, Early, Shown, answers, history
<1> QED BY <1>1, StepIs, MovesTyped, CollectorTyped

LEMMA InitType == Init => TypeInv
<1> SUFFICES ASSUME Init PROVE TypeInv
  OBVIOUS
<1>1. o.procs \subseteq Procs /\ 0 \in 0..o.moves
  BY ServersAreWorlds DEF Init, World
<1>2. ServerType
  BY <1>1 DEF Init, ServerType, Waiters, Waits
<1>3. DOMAIN backends = {} /\ DOMAIN blocking = {}
  BY DEF Init
<1> QED BY <1>1, <1>2, <1>3
        DEF Init, TypeInv, AnswersType, HistoryType, Early, Todos, T1

LEMMA TypeInvAlways == Spec => []TypeInv
BY InitType, TypeNext, PTL DEF Spec

\* The types of the variables, whatever the sessions do in between.
THEOREM SessionsTypeCorrect == Spec => []TypeOK
BY TypeInvAlways, TypeInvImplies, PTL
-----------------------------------------------------------------------------
(***************************************************************************)
(* What steps do, and do not do, to what the invariants are about.         *)
(***************************************************************************)
Untaken == todo \in {T1, T2}

LEMMA Differ == T3 \notin {T1, T2} /\ T4 \notin {T1, T2} /\ <<>> \notin {T1, T2}
BY Heads, NotEmpty

LEMMA UntakenIs == TypeInv => (Untaken <=> "getLockRows" \in ToSet(todo))
BY LockRowsTaken, Differ DEF TypeInv, Todos, Untaken

\* The collector, or nobody.
Quiet == CollectorStep \/ UNCHANGED vars

LEMMA QuietKeeps ==
  ASSUME Quiet
  PROVE  /\ UNCHANGED <<o, there, held, wants, before>>
         /\ AllWaits' = AllWaits /\ Waiters' = Waiters
         /\ \A q : Blockers(q)' = Blockers(q)
<1>1. UNCHANGED <<o, there, held, wants, before>>
  BY CollectorKeeps DEF Quiet, vars, server
<1> QED BY <1>1, ServerKept

\* Each answer is given by one function, and none is taken back.
LEMMA Frame ==
  ASSUME TypeInv, Quiet
  PROVE  /\ GetActivity \/ UNCHANGED <<backends, steady>>
         /\ GetLockRows \/ UNCHANGED <<locks, woke>>
         /\ GetBlockers \/ (\E q \in Procs : BlockingPids(q)) \/ UNCHANGED <<blocking, sure, seen>>
         /\ GetWaiters \/ (\E q \in Procs : BlockingPids(q)) \/ UNCHANGED pending
         /\ GetLockRows \/ Untaken' = Untaken
<1> USE DEF Untaken
<1>1. CASE UNCHANGED vars
  BY <1>1 DEF vars, answers, history
<1>2. CASE GetActivity
  <2>1. todo = T1 /\ todo' = T2
    BY <1>2, Whose, Tails DEF GetActivity, Goes, TypeInv
  <2> QED BY <1>2, <2>1 DEF GetActivity
<1>3. CASE GetLockRows
  BY <1>3 DEF GetLockRows
<1>4. CASE GetBlockers
  <2>1. todo = T3 /\ todo' = <<>>
    BY <1>4, Whose, Tails DEF GetBlockers, Goes, TypeInv
  <2> QED BY <1>4, <2>1, Differ DEF GetBlockers
<1>5. CASE GetWaiters
  <2>1. todo = T3 /\ todo' = T4
    BY <1>5, Whose, Tails DEF GetWaiters, TypeInv
  <2> QED BY <1>5, <2>1, Differ DEF GetWaiters, answers, history
<1>6. CASE \E q \in Procs : BlockingPids(q)
  BY <1>6 DEF BlockingPids, Asked
<1>7. CASE EndBlockers
  <2>1. todo = T4 /\ todo' = <<>>
    BY <1>7, Whose, Tails DEF EndBlockers, Goes, TypeInv
  <2> QED BY <1>7, <2>1, Differ DEF EndBlockers, answers, history
<1>8. CASE Dies
  BY <1>8 DEF Dies, answers, history
<1> QED BY <1>1, <1>2, <1>3, <1>4, <1>5, <1>6, <1>7, <1>8
        DEF Quiet, CollectorStep

\* What the sessions leave alone.
LEMMA SessionsLeave ==
  ASSUME TypeInv, NEW p \in Procs, SessionStep(p)
  PROVE  /\ UNCHANGED <<o, todo, pending, backends, locks, blocking, sure, seen>>
         /\ steady' = steady \cap AllWaits'
         /\ ~Untaken => woke' = woke \cup {q \in Procs : Waits(q) /\ wants'[q] = Nothing}
BY SessionsMove, UntakenIs DEF Moves, answers

\* A process waits for one lock until its wait ends.
LEMMA WantsStep ==
  ASSUME ServerType, NEW p \in Procs, SessionStep(p), NEW q \in Procs, Waits(q)
  PROVE  wants'[q] \in {wants[q], Nothing}
<1> USE DEF ServerType, Waits
<1>1. ASSUME NEW l \in Locks, Lock(p, l) PROVE wants'[q] = wants[q]
  BY <1>1 DEF Lock
<1>2. CASE StopsWaiting(p)
  BY <1>2 DEF StopsWaiting
<1>3. CASE UNCHANGED wants
  BY <1>3
<1> QED BY <1>1, <1>2, <1>3
        DEF SessionStep, Grant, Finish, Disconnect, Connect, Prepare, LetGo

\* While both wait, a blocker stays one.
LEMMA BlockersStay ==
  ASSUME ServerType, NEW r \in Procs, SessionStep(r), NEW p, NEW q \in Procs,
         p \in Blockers(q), Waits(p), Waits(p)', Waits(q)'
  PROVE  p \in Blockers(q)'
<1>1. p \in Procs \ {q} /\ Waits(q) /\ p \notin Prepared
  BY DEF Blockers, ServerType, Waiters
<1>2. wants'[p] = wants[p] /\ wants'[q] = wants[q]
  BY <1>1, WantsStep DEF Waits
<1>3. SUFFICES held[p] \subseteq held'[p] /\ (<<p, q>> \in before => <<p, q>> \in before')
  BY <1>1, <1>2 DEF Blockers, Waits
<1>4. ASSUME NEW l \in Locks, Lock(r, l)
      PROVE  held[p] \subseteq held'[p] /\ (<<p, q>> \in before => <<p, q>> \in before')
  BY <1>1, <1>4 DEF Lock, ServerType
<1>5. ASSUME StopsWaiting(r) PROVE r # p /\ r # q /\ (<<p, q>> \in before => <<p, q>> \in before')
  BY <1>1, <1>5 DEF StopsWaiting, ServerType, Waits
<1>6. CASE Grant(r)
  BY <1>1, <1>5, <1>6 DEF Grant, ServerType
<1>7. CASE LetGo(r)
  BY <1>1, <1>5, <1>7 DEF LetGo, ServerType
<1>8. CASE Connect(r)
  BY <1>8 DEF Connect
<1>9. ASSUME NEW x \in Prepared, Prepare(r, x)
      PROVE  held[p] \subseteq held'[p] /\ (<<p, q>> \in before => <<p, q>> \in before')
  <2>1. r # p /\ x # p
    BY <1>1, <1>9 DEF Prepare
  <2> QED BY <1>1, <1>9, <2>1 DEF Prepare, ServerType
<1> QED BY <1>4, <1>6, <1>7, <1>8, <1>9 DEF SessionStep, Finish, Disconnect
-----------------------------------------------------------------------------
(***************************************************************************)
(* Waits that last.  What was a wait when the sessions were asked for and  *)
(* never ended is in each answer that was taken since.                     *)
(***************************************************************************)
InActivity(t) ==
  /\ t[1] \in Clients => t[1] \in DOMAIN backends /\ isWaitingLock(backends[t[1]])
  /\ t[3] \in Clients => t[3] \in DOMAIN backends

InLocks(t) ==
  /\ \E l \in locks : l.pid = t[1] /\ l.object = t[2] /\ ~l.granted
  /\ \A l \in locks : l.pid = t[1] /\ ~l.granted => l.object = t[2]

InBlocking(t) ==
  t[3] \notin Prepared => t[1] \in DOMAIN blocking /\ t[3] \in blocking[t[1]]

SteadyInv ==
  /\ steady \subseteq AllWaits
  /\ \A t \in steady : InActivity(t)
  /\ Untaken \/ \A t \in steady : InLocks(t)

SureInv == \A t \in sure : InActivity(t) /\ InLocks(t) /\ InBlocking(t)

LEMMA ActivityTaken ==
  ASSUME TypeInv, GetActivity
  PROVE  \A t \in steady' : InActivity(t)'
<1> SUFFICES ASSUME NEW t \in AllWaits PROVE InActivity(t)'
  BY DEF GetActivity
<1> USE DEF TypeInv, ServerType
<1>1. t[1] \in Waiters /\ t[1] \in there /\ t[3] \in Blockers(t[1])
  BY WaitsTyped
<1>2. t[3] \in there
  <2>1. CASE held[t[3]] # {}
    BY <1>1, <2>1 DEF Blockers
  <2>2. CASE <<t[3], t[1]>> \in before
    BY <2>2
  <2> QED BY <1>1, <2>1, <2>2 DEF Blockers
<1>3. Clients \subseteq Shown
  BY DEF Shown
<1>4. backends' = [p \in there \cap Shown |-> WaitType(p)]
  BY DEF GetActivity
<1>5. isWaitingLock(WaitType(t[1]))
  BY <1>1 DEF WaitType, Waiters, isWaitingLock
<1> QED BY <1>1, <1>2, <1>3, <1>4, <1>5 DEF InActivity, isWaitingLock

LEMMA LocksTaken ==
  ASSUME TypeInv, GetLockRows, NEW t \in AllWaits
  PROVE  InLocks(t)'
<1>1. t[1] \in Waiters /\ t[1] \notin Prepared /\ t[2] = wants[t[1]][1]
  BY WaitsTyped DEF TypeInv
<1>2. \A p \in Waiters : Pid(p) = p
  BY DEF Pid, TypeInv, ServerType
<1>3. Row(t[1], wants[t[1]], FALSE) \in locks'
  BY <1>1, RowsAre
<1>4. ASSUME NEW l \in locks', l.pid = t[1], ~l.granted PROVE l.object = t[2]
  <2>1. PICK p \in Waiters : l = Row(p, wants[p], FALSE)
    BY <1>4, RowsAre DEF Row
  <2> QED BY <1>1, <1>2, <1>4, <2>1 DEF Row
<1>5. LET r == Row(t[1], wants[t[1]], FALSE)
      IN  r.pid = t[1] /\ r.object = t[2] /\ ~r.granted
  BY <1>1, <1>2 DEF Row
<1> QED BY <1>3, <1>4, <1>5 DEF InLocks

LEMMA SteadyNext ==
  ASSUME TypeInv, SteadyInv, [Next]_vars
  PROVE  SteadyInv'
<1> USE DEF SteadyInv
<1>1. ASSUME NEW p \in Procs, SessionStep(p) PROVE SteadyInv'
  BY <1>1, SessionsLeave DEF InActivity, InLocks, isWaitingLock, Untaken
<1>2. CASE Quiet
  <2>1. AllWaits' = AllWaits
    BY <1>2, QuietKeeps
  <2>2. CASE GetActivity
    <3>1. steady' = AllWaits /\ todo' = T2
      BY <2>2, Whose, Tails DEF GetActivity, Goes, TypeInv
    <3> QED BY <2>1, <2>2, <3>1, ActivityTaken DEF Untaken
  <2>3. CASE GetLockRows
    <3>1. UNCHANGED <<backends, steady>>
      BY <2>3 DEF GetLockRows
    <3> QED BY <2>1, <2>3, <3>1, LocksTaken DEF InActivity
  <2>4. CASE ~GetActivity /\ ~GetLockRows
    <3>1. UNCHANGED <<backends, steady, locks>> /\ Untaken' = Untaken
      BY <1>2, <2>4, Frame
    <3> QED BY <2>1, <3>1 DEF InActivity, InLocks
  <2> QED BY <2>2, <2>3, <2>4
<1> QED BY <1>1, <1>2, StepIs DEF Quiet

\* Blockers before 9.6 hold or want the object; the function knows them from then on.
LEMMA BlockersTaken ==
  ASSUME TypeInv, GetBlockers, NEW t \in AllWaits
  PROVE  InBlocking(t)'
<1> SUFFICES ASSUME t[3] \notin Prepared
             PROVE  t[1] \in DOMAIN blocking' /\ t[3] \in blocking'[t[1]]
  BY DEF InBlocking
<1> DEFINE lockables(p) == {l[1] : l \in held[p] \cup ({wants[p]} \ {Nothing})}
           others(q) == {p \in Procs \ (Prepared \cup {q}) : wants[q][1] \in lockables(p)}
<1>1. blocking' = [q \in {w \in Waiters : others(w) # {}} |-> others(q)]
  BY DEF GetBlockers
<1>2. t[1] \in Waiters /\ t[3] \in Blockers(t[1])
  BY WaitsTyped DEF TypeInv
<1>3. wants[t[1]][1] \in lockables(t[3])
  <2>1. CASE \E l \in held[t[3]] : Conflict(l, wants[t[1]])
    BY <2>1 DEF Conflict
  <2>2. CASE <<t[3], t[1]>> \in before /\ Conflict(wants[t[3]], wants[t[1]])
    <3>1. wants[t[3]] # Nothing
      BY <2>2 DEF TypeInv, ServerType, Waiters, Waits
    <3> QED BY <2>2, <3>1 DEF Conflict
  <2> QED BY <1>2, <2>1, <2>2 DEF Blockers
<1>4. t[3] \in others(t[1])
  BY <1>2, <1>3 DEF Blockers
<1> HIDE DEF others
<1> QED BY <1>1, <1>2, <1>4

LEMMA AskedIs ==
  ASSUME TypeInv, NEW q \in Procs, BlockingPids(q)
  PROVE  /\ todo = T4 /\ ~Untaken
         /\ q \in pending /\ pending' = pending \ {q} /\ q \notin DOMAIN blocking
         /\ DOMAIN blocking' = DOMAIN blocking \cup {q}
         /\ \A p \in DOMAIN blocking : blocking'[p] = blocking[p]
         /\ blocking'[q] = {Pid(b) : b \in Blockers(q)}
         /\ sure' = sure \cup {t \in steady : t[1] = q}
         /\ seen' = seen \cup {t \in AllWaits : t[1] = q}
         /\ UNCHANGED <<o, backends, locks, steady, woke>>
<1>1. todo = T4
  BY Whose DEF BlockingPids, Asked, TypeInv
<1> DEFINE ps == {Pid(b) : b \in Blockers(q)}
<1>2. blocking' = [p \in DOMAIN blocking \cup {q} |-> IF p = q THEN ps ELSE blocking[p]]
      /\ q \in pending /\ pending' = pending \ {q}
  BY DEF BlockingPids, Asked
<1>3. q \notin DOMAIN blocking
  BY <1>2 DEF TypeInv
<1>4. /\ sure' = sure \cup {t \in steady : t[1] = q}
      /\ seen' = seen \cup {t \in AllWaits : t[1] = q}
      /\ UNCHANGED <<o, backends, locks, steady, woke>>
  BY DEF BlockingPids, Asked
<1> HIDE DEF ps
<1>5. /\ DOMAIN blocking' = DOMAIN blocking \cup {q} /\ blocking'[q] = ps
      /\ \A p \in DOMAIN blocking : blocking'[p] = blocking[p]
  BY <1>2, <1>3
<1> QED BY <1>1, <1>2, <1>3, <1>4, <1>5, Differ DEF Untaken, ps

LEMMA SureNext ==
  ASSUME TypeInv, SteadyInv, SureInv, [Next]_vars
  PROVE  SureInv'
<1>1. ASSUME NEW p \in Procs, SessionStep(p) PROVE SureInv'
  BY <1>1, SessionsLeave DEF SureInv, InActivity, InLocks, InBlocking
<1>2. CASE GetActivity
  <2>1. sure' = {}
    BY <1>2, Whose DEF GetActivity, TypeInv, Early
  <2> QED BY <2>1 DEF SureInv
<1>3. CASE GetLockRows
  <2>1. sure' = {}
    BY <1>3, Whose DEF GetLockRows, TypeInv, Early
  <2> QED BY <2>1 DEF SureInv
<1>4. CASE GetBlockers
  <2>1. sure' = steady /\ UNCHANGED <<backends, locks>>
    BY <1>4 DEF GetBlockers
  <2>2. ~Untaken
    BY <1>4, Whose, Differ DEF GetBlockers, TypeInv, Untaken
  <2> QED BY <1>4, <2>1, <2>2, BlockersTaken DEF SureInv, SteadyInv, InActivity, InLocks
<1>5. ASSUME NEW q \in Procs, BlockingPids(q) PROVE SureInv'
  <2> SUFFICES ASSUME NEW t \in sure' PROVE (InActivity(t) /\ InLocks(t) /\ InBlocking(t))'
    BY DEF SureInv
  <2> DEFINE ps == {Pid(b) : b \in Blockers(q)}
  <2>0. /\ UNCHANGED <<backends, locks>> /\ ~Untaken /\ q \notin DOMAIN blocking
        /\ DOMAIN blocking' = DOMAIN blocking \cup {q} /\ blocking'[q] = ps
        /\ \A p \in DOMAIN blocking : blocking'[p] = blocking[p]
        /\ sure' = sure \cup {w \in steady : w[1] = q}
    BY <1>5, AskedIs
  <2>1. t \in sure \/ (t \in steady /\ t[1] = q)
    BY <2>0
  <2>2. (InActivity(t) /\ InLocks(t))'
    BY <2>0, <2>1 DEF SureInv, SteadyInv, InActivity, InLocks
  <2>3. ASSUME t \in sure PROVE InBlocking(t)'
    BY <2>0, <2>3 DEF SureInv, InBlocking
  <2>4. ASSUME t \in steady, t[1] = q PROVE InBlocking(t)'
    <3>1. t[3] \in Blockers(q)
      BY <2>4, WaitsTyped DEF SteadyInv, TypeInv
    <3>2. t[3] \notin Prepared => t[3] \in ps
      BY <3>1 DEF Pid
    <3> HIDE DEF ps
    <3> QED BY <2>0, <2>4, <3>2 DEF InBlocking
  <2> QED BY <2>1, <2>2, <2>3, <2>4
<1>6. CASE Quiet /\ ~GetActivity /\ ~GetLockRows /\ ~GetBlockers /\ ~(\E q \in Procs : BlockingPids(q))
  <2>1. UNCHANGED <<backends, locks, blocking, sure>>
    BY <1>6, Frame
  <2> QED BY <2>1 DEF SureInv, InActivity, InLocks, InBlocking
<1> QED BY <1>1, <1>2, <1>3, <1>4, <1>5, <1>6, StepIs DEF Quiet

LEMMA SureShown == TypeInv /\ SureInv => WaitsAreShown
<1> SUFFICES ASSUME TypeInv, SureInv, NEW t \in sure, t[1] \in Clients
             PROVE  /\ t[1] \in WaitingForLocks
                    /\ t[2] \in Listed <=> \E l \in BlockedQueries : l.pid = t[1]
                    /\ \A l \in BlockedQueries : l.pid = t[1] =>
                         l.object = t[2] /\ (t[3] \in Clients => t[3] \in WaitingFor(l))
  BY DEF WaitsAreShown
<1>1. InActivity(t) /\ InLocks(t) /\ InBlocking(t)
  BY DEF SureInv
<1>2. t[3] \in Clients => t[3] \notin Prepared
  BY KindsDiffer
<1>3. t[1] \in WaitingForLocks
  BY <1>1 DEF InActivity, WaitingForLocks
<1>4. \A l \in BlockedQueries : l.pid = t[1] => l.object = t[2] /\ l.object \in Listed
  BY <1>1 DEF InLocks, BlockedQueries
<1>5. t[2] \in Listed => \E l \in BlockedQueries : l.pid = t[1]
  BY <1>1 DEF InLocks, InActivity, BlockedQueries
<1>6. \A l \in BlockedQueries : l.pid = t[1] /\ t[3] \in Clients => t[3] \in WaitingFor(l)
  BY <1>1, <1>2 DEF InActivity, InBlocking, WaitingFor
<1> QED BY <1>3, <1>4, <1>5, <1>6

\* A client that waits from the first answer to the last is shown as it is, with what it
\* waits for and whom.
THEOREM LastingWaitsShown == Spec => []WaitsAreShown
<1>1. Init => SteadyInv /\ SureInv
  BY DEF Init, SteadyInv, SureInv, Untaken, T1
<1>2. TypeInv /\ SteadyInv /\ [Next]_vars => SteadyInv'
  BY SteadyNext
<1>3. TypeInv /\ SteadyInv /\ SureInv /\ [Next]_vars => SureInv'
  BY SureNext
<1> QED BY <1>1, <1>2, <1>3, TypeInvAlways, SureShown, PTL DEF Spec
-----------------------------------------------------------------------------
(***************************************************************************)
(* What is shown of a wait that may be over.                               *)
(***************************************************************************)
\* The wait of a row still is what it was, or has ended since.
Still(l) == /\ l.pid \in Procs /\ <<l.object, l.mode>> \in Locks
            /\ l.pid \notin woke => wants[l.pid] = <<l.object, l.mode>>

StillInv == Untaken \/ \A l \in locks : ~l.granted => Still(l)

\* A blocker in the report did block, on the object of the row if the wait goes on.
Blocked(l, p) ==
  \E t \in seen : t[1] = l.pid /\ t[3] = p /\ (t[2] = l.object \/ l.pid \in woke)

SeenInv ==
  o.version >= 96 =>
    \A l \in locks : ~l.granted /\ l.pid \in DOMAIN blocking =>
      \A p \in blocking[l.pid] \ {Zero} : Blocked(l, p)

LEMMA StillNext ==
  ASSUME TypeInv, StillInv, [Next]_vars
  PROVE  StillInv'
<1>1. ASSUME NEW p \in Procs, SessionStep(p) PROVE StillInv'
  <2>1. CASE Untaken
    BY <1>1, <2>1, SessionsLeave DEF StillInv, Untaken
  <2>2. CASE ~Untaken
    <3>1. /\ locks' = locks /\ Untaken' = Untaken
          /\ woke' = woke \cup {q \in Procs : Waits(q) /\ wants'[q] = Nothing}
      BY <1>1, <2>2, SessionsLeave DEF Untaken
    <3>2. ASSUME NEW l \in locks, ~l.granted, l.pid \notin woke'
          PROVE  wants'[l.pid] = <<l.object, l.mode>>
      <4>1. Still(l) /\ l.pid \notin woke
        BY <2>2, <3>1, <3>2 DEF StillInv
      <4>2. l.pid \in Procs /\ wants[l.pid] = <<l.object, l.mode>> /\ Waits(l.pid)
        BY <4>1, LocksAreLocks DEF Still, Waits
      <4>3. wants'[l.pid] # Nothing
        BY <3>1, <3>2, <4>2
      <4> QED BY <1>1, <4>2, <4>3, WantsStep DEF TypeInv
    <3> QED BY <2>2, <3>1, <3>2 DEF StillInv, Still
  <2> QED BY <2>1, <2>2
<1>2. CASE GetLockRows
  <2>1. UNCHANGED wants
    BY <1>2, QuietKeeps DEF Quiet, CollectorStep
  <2> SUFFICES ASSUME NEW l \in locks', ~l.granted PROVE Still(l)'
    BY DEF StillInv
  <2>2. PICK p \in Waiters : l = Row(p, wants[p], FALSE)
    BY <1>2, RowsAre DEF Row
  <2>3. p \in Procs /\ p \notin Prepared /\ wants[p] \in Objects \X Modes
    BY DEF TypeInv, ServerType, Waiters, Waits, Locks
  <2>4. l.pid = p /\ l.object = wants[p][1] /\ l.mode = wants[p][2]
    BY <2>2, <2>3 DEF Row, Pid
  <2>5. wants[p] = <<wants[p][1], wants[p][2]>>
    BY <2>3
  <2> QED BY <2>1, <2>3, <2>4, <2>5 DEF Still, Locks
<1>3. CASE Quiet /\ ~GetLockRows
  <2>1. UNCHANGED <<locks, woke, wants>> /\ Untaken' = Untaken
    BY <1>3, Frame, QuietKeeps
  <2> QED BY <2>1 DEF StillInv, Still
<1> QED BY <1>1, <1>2, <1>3, StepIs DEF Quiet

LEMMA SeenNext ==
  ASSUME TypeInv, StillInv, SeenInv, [Next]_vars
  PROVE  SeenInv'
<1>1. CASE blocking' = <<>>
  BY <1>1 DEF SeenInv
<1>2. Untaken => blocking = <<>>
  BY DEF TypeInv, Early, Untaken
<1>3. ASSUME NEW p \in Procs, SessionStep(p) PROVE SeenInv'
  <2>1. UNCHANGED <<o, locks, blocking, seen>>
    BY <1>3, SessionsLeave
  <2>2. CASE Untaken
    BY <1>1, <1>2, <2>1, <2>2
  <2>3. CASE ~Untaken
    <3>1. woke \subseteq woke'
      BY <1>3, <2>3, SessionsLeave
    <3>2. \A l, b : Blocked(l, b) => Blocked(l, b)'
      BY <2>1, <3>1 DEF Blocked
    <3> QED BY <2>1, <3>2 DEF SeenInv
  <2> QED BY <2>2, <2>3
<1>4. CASE GetLockRows
  <2>1. blocking' = <<>>
    BY <1>4, Whose DEF GetLockRows, TypeInv, Early
  <2> QED BY <1>1, <2>1
<1>5. CASE GetBlockers
  <2>1. ~(o.version >= 96) /\ o' = o
    BY <1>5 DEF GetBlockers, AsksForBlockers, Goes
  <2> QED BY <2>1 DEF SeenInv
<1>6. ASSUME NEW q \in Procs, BlockingPids(q) PROVE SeenInv'
  <2> DEFINE ps == {Pid(b) : b \in Blockers(q)}
  <2>1. /\ ~Untaken /\ UNCHANGED <<o, locks, woke>>
        /\ DOMAIN blocking' = DOMAIN blocking \cup {q} /\ blocking'[q] = ps
        /\ \A p \in DOMAIN blocking : blocking'[p] = blocking[p]
        /\ q \notin DOMAIN blocking
        /\ seen' = seen \cup {w \in AllWaits : w[1] = q}
    BY <1>6, AskedIs
  <2>2. \A l, b : Blocked(l, b) => Blocked(l, b)'
    BY <2>1 DEF Blocked
  <2>3. ASSUME NEW l \in locks, ~l.granted, l.pid = q, NEW p \in ps \ {Zero}
        PROVE  Blocked(l, p)'
    <3>1. p \in Blockers(q) /\ p \in Procs
      BY DEF Pid, Blockers
    <3> DEFINE t == <<q, wants[q][1], p>>
    <3>2. t \in AllWaits
      BY <3>1, AllWaitsAre
    <3>3. t \in seen' /\ t[1] = q /\ t[2] = wants[q][1] /\ t[3] = p
      BY <2>1, <3>2
    <3>4. q \notin woke => wants[q] = <<l.object, l.mode>>
      BY <2>1, <2>3 DEF StillInv, Still
    <3>5. q \notin woke => t[2] = l.object
      BY <3>3, <3>4
    <3> HIDE DEF t
    <3> QED BY <2>1, <2>3, <3>3, <3>5 DEF Blocked
  <2> SUFFICES ASSUME o.version >= 96, NEW l \in locks, ~l.granted, l.pid \in DOMAIN blocking',
                      NEW p \in blocking'[l.pid] \ {Zero}
               PROVE  Blocked(l, p)'
    BY <2>1 DEF SeenInv
  <2>4. CASE l.pid = q
    BY <2>1, <2>3, <2>4
  <2>5. CASE l.pid # q
    BY <2>1, <2>2, <2>5 DEF SeenInv
  <2> QED BY <2>4, <2>5
<1>7. CASE Quiet /\ ~GetLockRows /\ ~GetBlockers /\ ~(\E q \in Procs : BlockingPids(q))
  <2>1. UNCHANGED <<o, locks, blocking, seen, woke>>
    BY <1>7, Frame, QuietKeeps
  <2> QED BY <2>1 DEF SeenInv, Blocked
<1> QED BY <1>3, <1>4, <1>5, <1>6, <1>7, StepIs DEF Quiet

LEMMA SeenShown == TypeInv /\ SeenInv => BlockersOfThatLock
<1> SUFFICES ASSUME TypeInv, SeenInv, AsksForBlockers,
                    NEW l \in BlockedQueries, NEW p \in WaitingFor(l)
             PROVE  Blocked(l, p)
  BY DEF BlockersOfThatLock, Blocked
<1>1. l \in locks /\ ~l.granted
  BY DEF BlockedQueries
<1>2. l.pid \in DOMAIN blocking /\ p \in blocking[l.pid] /\ p \in DOMAIN backends
  BY DEF WaitingFor
<1>3. p # Zero
  BY <1>2, KindsDiffer DEF TypeInv, AnswersType, Shown, Procs
<1> QED BY <1>1, <1>2, <1>3 DEF SeenInv, AsksForBlockers

\* Who is printed as a blocker did block, and on that object unless the wait was over.
THEOREM BlockersDidBlock == Spec => []BlockersOfThatLock
<1>1. Init => StillInv /\ SeenInv
  BY DEF Init, StillInv, SeenInv, Untaken, T1
<1>2. TypeInv /\ StillInv /\ [Next]_vars => StillInv'
  BY StillNext
<1>3. TypeInv /\ StillInv /\ SeenInv /\ [Next]_vars => SeenInv'
  BY SeenNext
<1> QED BY <1>1, <1>2, <1>3, TypeInvAlways, SeenShown, PTL DEF Spec

-----------------------------------------------------------------------------
(***************************************************************************)
(* Deadlocks.  Who was to be asked waits until the wait is in woke; and a  *)
(* blocker that was told and waits itself is a blocker as long as both do. *)
(***************************************************************************)
InQuery == pending \cup DOMAIN blocking

RealInv ==
  o.version >= 96 =>
    /\ InQuery \ woke \subseteq Waiters
    /\ \A q \in DOMAIN blocking \ woke :
         \A p \in blocking[q] \cap (InQuery \ woke) : p \in Blockers(q)

LEMMA RealNext ==
  ASSUME TypeInv, RealInv, [Next]_vars
  PROVE  RealInv'
<1> SUFFICES ASSUME o.version >= 96, o' = o PROVE RealInv'
  <2>1. o' = o
    BY SessionsLeave, QuietKeeps, StepIs DEF Quiet
  <2> QED BY <2>1 DEF RealInv
<1>1. Untaken => pending = {} /\ blocking = <<>>
  BY DEF TypeInv, Early, Untaken
<1>2. CASE pending' = {} /\ blocking' = <<>>
  BY <1>2 DEF RealInv, InQuery
<1>3. ASSUME NEW r \in Procs, SessionStep(r) PROVE RealInv'
  <2>1. UNCHANGED <<pending, blocking>> /\ InQuery' = InQuery
    BY <1>3, SessionsLeave DEF InQuery
  <2>2. CASE Untaken
    BY <1>1, <1>2, <2>1, <2>2
  <2>3. CASE ~Untaken
    <3>1. woke' = woke \cup {q \in Procs : Waits(q) /\ wants'[q] = Nothing}
      BY <1>3, <2>3, SessionsLeave
    <3>2. ASSUME NEW q \in InQuery \ woke'
          PROVE  q \in InQuery \ woke /\ q \in Waiters /\ Waits(q) /\ Waits(q)' /\ q \in Waiters'
      BY <3>1, <3>2 DEF RealInv, Waiters, Waits
    <3>3. ASSUME NEW q \in DOMAIN blocking \ woke', NEW p \in blocking[q] \cap (InQuery \ woke')
          PROVE  p \in Blockers(q)'
      <4>1. q \in InQuery \ woke'
        BY <3>3 DEF InQuery
      <4>2. Waits(p) /\ Waits(q) /\ Waits(p)' /\ Waits(q)' /\ q \in Procs
        BY <3>2, <3>3, <4>1 DEF Waiters
      <4>3. p \in Blockers(q)
        BY <3>2, <3>3, <4>1 DEF RealInv
      <4> QED BY <1>3, <4>2, <4>3, BlockersStay DEF TypeInv
    <3> QED BY <2>1, <3>2, <3>3 DEF RealInv
  <2> QED BY <2>2, <2>3
<1>4. CASE GetLockRows
  <2>1. pending' = {} /\ blocking' = <<>>
    BY <1>4, Whose DEF GetLockRows, TypeInv, Early
  <2> QED BY <1>2, <2>1
<1>5. CASE GetBlockers
  BY <1>5 DEF GetBlockers, AsksForBlockers
<1>6. CASE GetWaiters
  <2>1. blocking' = <<>> /\ pending' = Waiters /\ DOMAIN blocking' = {}
    BY <1>6, Whose DEF GetWaiters, answers, TypeInv, Early
  <2>2. Waiters' = Waiters
    BY <1>6, QuietKeeps DEF Quiet, CollectorStep
  <2> QED BY <2>1, <2>2 DEF RealInv, InQuery
<1>7. ASSUME NEW q \in Procs, BlockingPids(q) PROVE RealInv'
  <2> DEFINE ps == {Pid(b) : b \in Blockers(q)}
  <2>1. /\ q \in pending /\ pending' = pending \ {q} /\ q \notin DOMAIN blocking
        /\ DOMAIN blocking' = DOMAIN blocking \cup {q} /\ blocking'[q] = ps
        /\ \A p \in DOMAIN blocking : blocking'[p] = blocking[p]
        /\ woke' = woke
    BY <1>7, AskedIs
  <2>2. InQuery' = InQuery
    BY <2>1 DEF InQuery
  <2>3. Waiters' = Waiters /\ \A p : Blockers(p)' = Blockers(p)
    BY <1>7, QuietKeeps DEF Quiet, CollectorStep
  <2>4. InQuery \subseteq Procs
    BY DEF TypeInv, AnswersType, InQuery
  <2>5. ASSUME NEW p \in ps \cap InQuery PROVE p \in Blockers(q)
    BY <2>4, <2>5, KindsDiffer DEF Pid
  <2> HIDE DEF ps
  <2> QED BY <2>1, <2>2, <2>3, <2>5 DEF RealInv
<1>8. CASE Quiet /\ ~GetLockRows /\ ~GetBlockers /\ ~GetWaiters /\ ~(\E q \in Procs : BlockingPids(q))
  <2>1. UNCHANGED <<pending, blocking, woke>> /\ Waiters' = Waiters
        /\ \A p : Blockers(p)' = Blockers(p)
    BY <1>8, Frame, QuietKeeps
  <2> QED BY <2>1 DEF RealInv, InQuery
<1> QED BY <1>3, <1>4, <1>5, <1>6, <1>7, <1>8, StepIs DEF Quiet

LEMMA RealShown == RealInv => DeadlocksAreReal
<1> SUFFICES ASSUME RealInv, o.version >= 96, NEW S \in SUBSET (DOMAIN blocking \ woke),
                    \A q \in S : blocking[q] \cap S # {}, NEW q \in S
             PROVE  Blockers(q) \cap S # {}
  BY DEF DeadlocksAreReal
<1>1. PICK p \in S : p \in blocking[q]
  OBVIOUS
<1>2. p \in InQuery \ woke /\ q \in DOMAIN blocking \ woke
  BY DEF InQuery
<1>3. p \in Blockers(q)
  BY <1>1, <1>2 DEF RealInv
<1> QED BY <1>1, <1>3

\* A ring of blockers in which no wait has ended is a deadlock, although its
\* processes were asked one by one.
THEOREM RingsAreDeadlocks == Spec => []DeadlocksAreReal
<1>1. Init => RealInv
  BY DEF Init, RealInv, InQuery
<1>2. TypeInv /\ RealInv /\ [Next]_vars => RealInv'
  BY RealNext
<1> QED BY <1>1, <1>2, TypeInvAlways, RealShown, PTL DEF Spec
=============================================================================
