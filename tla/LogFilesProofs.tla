---------------------------- MODULE LogFilesProofs ----------------------------
(***************************************************************************)
(* For every machine, RDS instance, option and schedule: the types, the    *)
(* right log, and downloads that are whole and in order.                   *)
(***************************************************************************)
EXTENDS LogFiles, FiniteSetTheorems, SequenceTheorems, TLAPS

-----------------------------------------------------------------------------
(***************************************************************************)
(* Lists made of a set.                                                    *)
(***************************************************************************)
LEMMA ListOfSet ==
  ASSUME NEW S, IsFiniteSet(S), NEW s \in SetToSeqs(S)
  PROVE  /\ s \in Seq(S)
         /\ \A i, j \in DOMAIN s : i # j => s[i] # s[j]
<1>1. Cardinality(S) \in Nat
  BY FS_CardinalityType
<1>2. s \in [1..Cardinality(S) -> S]
  BY DEF SetToSeqs
<1>3. s \in Seq(S)
  BY <1>1, <1>2, SeqDef
<1> QED BY <1>2, <1>3 DEF SetToSeqs

LEMMA FilesListed ==
  ASSUME NEW S \in SUBSET RDSFiles
  PROVE  IsFiniteSet({Listed(f) : f \in S})
<1> DEFINE T == {Listed(f) : f \in S}
           M == [f \in S |-> Listed(f)]
<1>1. IsFiniteSet(S)
  BY RDSFilesAreFinite, FS_Subset
<1>2. M \in Surjection(S, T)
  BY DEF Surjection
<1> HIDE DEF M
<1> QED BY <1>1, <1>2, FS_Surjection

-----------------------------------------------------------------------------
(***************************************************************************)
(* The types.                                                              *)
(***************************************************************************)
LEMMA WorldType ==
  ASSUME o \in Worlds
  PROVE  /\ o.logFile \in Files \cup {NoFile} /\ o.logDir \in {"none", "given", "missing"}
         /\ o.csv \in BOOLEAN /\ o.there \subseteq Files
         /\ o.current \in [Formats -> Files \cup {NoFile}]
         /\ o.lengths \in [RDSFiles -> Nat] /\ o.last \in [RDSFiles -> Nat]
         /\ o.start \in Nat /\ o.rotates \in Nat /\ o.writes \in Nat
BY WorldsAreWorlds DEF World

LEMMA InitType == Init => TypeOK
<1> SUFFICES ASSUME Init PROVE TypeOK
  OBVIOUS
<1> USE DEF Init
<1>1. MachineType
  BY WorldType DEF MachineType
<1>2. LocalType
  BY EmptySeq DEF LocalType
<1>3. LoopType
  <2>1. Len(logFiles) = 0
    OBVIOUS
  <2>2. next = 1 /\ marker = 0 /\ failed = FALSE
    OBVIOUS
  <2>3. /\ logFiles \in Seq([name : RDSFiles, last : Nat])
        /\ lines \in Seq(Nat) /\ handed \in Seq(Buffer)
    BY EmptySeq
  <2>4. next \in 1..Len(logFiles) + 1
    BY <2>1, <2>2
  <2>5. marker \in Nat
    BY <2>2
  <2>6. failed \in BOOLEAN
    BY <2>2
  <2> QED BY <2>3, <2>4, <2>5, <2>6 DEF LoopType
<1>4. HistoryType
  BY DEF HistoryType
<1> QED BY <1>1, <1>2, <1>3, <1>4 DEF TypeOK

\* What the program does to this machine's files, and what it does with RDS's.
LocalStep == \/ GetLogInfo \/ UseLogFile \/ NoPrefix \/ UseLogDir \/ UseCurrent \/ UseRecent
             \/ ReadFile \/ EndFiles
RdsStep   == \/ NoRDS \/ DescribeDBLogFiles \/ DescribeFails \/ DownloadDBLogFilePortion
             \/ DownloadNothing \/ DownloadFails \/ EndDownloads
Outside   == Rotate \/ Write \/ Expire

LEMMA LocalFrame ==
  ASSUME o \in Worlds, LocalStep
  PROVE  UNCHANGED <<o, machine, remote, rotates, writes, loop, rotated, begun, cut>>
<1>1. UseLogDir => UNCHANGED <<o, machine, remote, rotates, writes, loop, rotated, begun, cut>>
  <2>1. ASSUME UseLogDir
        PROVE  \/ \E s : Pick("dir", s)
               \/ Skips("current") \/ Skips("list")
               \/ Then("current") /\ UNCHANGED <<local, rotated, begun, cut>>
    BY <2>1, WorldType DEF UseLogDir
  <2> QED BY <2>1 DEF Pick, Skips, Then, history
<1> QED
  BY <1>1 DEF LocalStep, GetLogInfo, UseLogFile, NoPrefix, UseCurrent, UseRecent, ReadFile,
              EndFiles, Info, Pick, Skips, Then, history

LEMMA RdsFrame ==
  RdsStep => UNCHANGED <<o, machine, remote, rotates, writes, local, rotated, bare>>
BY DEF RdsStep, NoRDS, DescribeDBLogFiles, DescribeFails, DownloadDBLogFilePortion,
       DownloadNothing, DownloadFails, EndDownloads, Rds, history

LEMMA OutsideFrame ==
  Outside => UNCHANGED <<o, pc, local, loop, bare, begun, cut>>
BY DEF Outside, Rotate, Write, Expire, RDSChanges, history

\* Each choice of logs is a list of files.
LEMMA PickType ==
  ASSUME TypeOK, LocalStep
  PROVE  LocalType'
<1> USE DEF TypeOK, MachineType, LocalType
<1>1. o \in Worlds /\ there \subseteq Files
  OBVIOUS
<1>2. CASE GetLogInfo
  <2>1. curlogfile' \in Files \cup {NoFile}
    BY <1>2 DEF GetLogInfo, Info, Formats
  <2> QED BY <1>2, <2>1, WorldType DEF GetLogInfo, Info, Then
<1>3. CASE UseLogFile
  <2>1. o.logFile # NoFile => <<o.logFile>> \in Seq(Files)
    BY WorldType
  <2> QED BY <1>3, <2>1 DEF UseLogFile, Pick, Skips, Then, local
<1>4. CASE UseLogDir
  <2> DEFINE S == Readable({f \in there : Place(f) = "given"})
  <2>1. S \subseteq Files /\ IsFiniteSet(S)
    BY <1>1, NoFileIsNone, FS_Subset DEF Readable
  <2>2. \A s \in SetToSeqs(S) : s \in Seq(Files)
    BY <2>1, ListOfSet, SeqMonotonic
  <2> HIDE DEF S
  <2>3. CASE \E s \in SetToSeqs(S) : Pick("dir", s)
    BY <2>2, <2>3 DEF Pick, Then
  <2>4. CASE UNCHANGED local /\ pc' \in {"current", "list"}
    BY <2>4 DEF local
  <2>5. /\ o.logDir \in {"none", "missing"} => Skips("current") \/ Skips("list")
        /\ o.logDir = "given" => \/ \E s \in SetToSeqs(S) : Pick("dir", s)
                                 \/ Then("current") /\ UNCHANGED local
    BY <1>4 DEF UseLogDir, S
  <2> QED BY <2>3, <2>4, <2>5, WorldType DEF Skips, Then
<1>5. CASE UseCurrent
  <2>1. \A f : Regular(f) => <<f>> \in Seq(Files)
    BY <1>1 DEF Regular
  <2>2. CASE \E f : Regular(f) /\ Pick("current", <<f>>)
    BY <2>1, <2>2 DEF Pick, Then
  <2>3. CASE Skips("recent")
    BY <2>3 DEF Skips, Then, local
  <2> QED BY <1>5, <2>2, <2>3 DEF UseCurrent
<1>6. CASE UseRecent
  <2>1. \A f \in there : <<f>> \in Seq(Files)
    BY <1>1
  <2> QED BY <1>6, <2>1 DEF UseRecent, Pick, Skips, Then, local
<1>7. CASE ReadFile
  <2>1. Head(logfiles) \in Files /\ Tail(logfiles) \in Seq(Files)
    BY <1>7, HeadTailProperties DEF ReadFile
  <2> QED BY <1>7, <2>1 DEF ReadFile, Then, Formats
<1>8. CASE NoPrefix \/ EndFiles
  BY <1>8 DEF NoPrefix, EndFiles, Skips, Then, local
<1> QED BY <1>2, <1>3, <1>4, <1>5, <1>6, <1>7, <1>8 DEF LocalStep

\* A buffer is handed over, or not, and the next file begins.
LEMMA HandOverType ==
  ASSUME TypeOK, Downloading, NEW got \in Seq(Nat), HandOver(got, NextMarker)
  PROVE  /\ next' \in 1..Len(logFiles) + 1 /\ marker' \in Nat /\ lines' \in Seq(Nat)
         /\ handed' \in Seq(Buffer)
<1> USE DEF TypeOK, LoopType, Downloading, HandOver, Name
<1>1. next \in 1..Len(logFiles) /\ next' \in 1..Len(logFiles) + 1
  OBVIOUS
<1>2. logFiles[next] \in [name : RDSFiles, last : Nat]
  BY <1>1, ElementOfSeq
<1>3. [file |-> Name, at |-> logFiles[next].last, lines |-> got] \in Buffer
  BY <1>2 DEF Buffer
<1>4. handed' \in Seq(Buffer)
  BY <1>3, AppendProperties
<1>5. marker' \in Nat /\ lines' \in Seq(Nat)
  BY EmptySeq DEF NextMarker
<1> QED BY <1>1, <1>4, <1>5

\* What a portion adds to the lines that are there.
Portions(n) == lines \o [i \in 1..n |-> marker + i]

LEMMA PortionType ==
  ASSUME TypeOK, NEW n \in Nat
  PROVE  /\ Portions(n) \in Seq(Nat) /\ Len(Portions(n)) = Len(lines) + n
         /\ \A k \in 1..Len(lines) : Portions(n)[k] = lines[k]
         /\ \A k \in Len(lines) + 1..Len(lines) + n : Portions(n)[k] = marker + (k - Len(lines))
<1> DEFINE new == [i \in 1..n |-> marker + i]
<1>1. lines \in Seq(Nat) /\ marker \in Nat /\ Len(lines) \in Nat
  BY LenProperties DEF TypeOK, LoopType
<1>2. new \in Seq(Nat) /\ Len(new) = n /\ \A i \in 1..n : new[i] = marker + i
  <2>1. new \in [1..n -> Nat]
    BY <1>1
  <2>2. new \in Seq(Nat)
    BY <2>1, SeqDef
  <2> QED BY <2>1, <2>2, LenProperties
<1> HIDE DEF new
<1> QED BY <1>1, <1>2, ConcatProperties DEF Portions, new

\* The list of RDS's files: as a set it was found, in the order of their times.
LEMMA DescribeType ==
  ASSUME TypeOK, DescribeDBLogFiles
  PROVE  /\ logFiles' \in Seq([name : RDSFiles, last : Nat])
         /\ \A i, j \in DOMAIN logFiles' : i # j => logFiles'[i].name # logFiles'[j].name
         /\ Sorted(logFiles')
<1> DEFINE S == {f \in RDSFiles : remote[f].there /\ remote[f].last >= o.start * Ms}
<1> DEFINE T == {Listed(f) : f \in S}
<1>1. logFiles' \in SetToSeqs(T) /\ Sorted(logFiles')
  BY DEF DescribeDBLogFiles
<1>2. IsFiniteSet(T)
  BY FilesListed
<1>3. T \subseteq [name : RDSFiles, last : Nat]
  BY DEF Listed, TypeOK, MachineType
<1>4. \A x, y \in T : x.name = y.name => x = y
  BY DEF Listed
<1> HIDE DEF S, T
<1>5. logFiles' \in Seq(T) /\ \A i, j \in DOMAIN logFiles' : i # j => logFiles'[i] # logFiles'[j]
  BY <1>1, <1>2, ListOfSet
<1>6. \A i \in DOMAIN logFiles' : logFiles'[i] \in T
  BY <1>5, LenProperties, ElementOfSeq
<1> QED BY <1>1, <1>3, <1>4, <1>5, <1>6, SeqMonotonic

\* Before the downloads, none began.  Without it the position in RDS's list could
\* be one that its new list does not have.
Fresh == pc \notin {"download", "done"} => next = 1 /\ handed = <<>>

LEMMA NameType ==
  ASSUME TypeOK, Downloading
  PROVE  /\ Name \in RDSFiles /\ logFiles[next].last \in Nat
         /\ remote[Name].len \in Nat /\ next \in 1..Len(logFiles)
<1>1. next \in 1..Len(logFiles)
  BY DEF TypeOK, LoopType, Downloading
<1>2. logFiles[next] \in [name : RDSFiles, last : Nat]
  BY <1>1, ElementOfSeq DEF TypeOK, LoopType
<1> QED BY <1>1, <1>2 DEF Name, TypeOK, MachineType

\* An answer: lines are added, and if there are no more, handed over.
LEMMA PortionStep ==
  ASSUME TypeOK, DownloadDBLogFilePortion
  PROVE  \E n \in Nat :
           /\ Downloading /\ begun' = Began
           /\ UNCHANGED <<logFiles, failed, pc, cut>>
           /\ \/ /\ n < remote[Name].len - marker
                 /\ lines' = Portions(n) /\ marker' = marker + n
                 /\ UNCHANGED <<next, handed>>
              \/ n = remote[Name].len - marker /\ HandOver(Portions(n), NextMarker)
<1>1. Portion \in Nat
  BY SizesAreSizes
<1>2. remote[Name].len \in Nat /\ marker \in Nat
  BY NameType DEF DownloadDBLogFilePortion, TypeOK, LoopType
<1>3. PICK n \in 0..Portion :
        /\ n <= remote[Name].len - marker
        /\ IF n < remote[Name].len - marker
           THEN /\ lines' = Portions(n) /\ marker' = marker + n
                /\ UNCHANGED <<next, handed>>
           ELSE HandOver(Portions(n), NextMarker)
  BY DEF DownloadDBLogFilePortion, Portions
<1>4. /\ Downloading /\ begun' = Began
      /\ UNCHANGED <<logFiles, failed, pc, cut>>
  BY DEF DownloadDBLogFilePortion, Rds, Downloading
<1> HIDE DEF HandOver
<1>5. n \in Nat /\ (~(n < remote[Name].len - marker) => n = remote[Name].len - marker)
  BY <1>1, <1>2, <1>3
<1> QED BY <1>3, <1>4, <1>5

LEMMA DownloadType ==
  ASSUME TypeOK, Fresh, RdsStep
  PROVE  /\ LoopType' /\ pc' \in {"done", "download"}
         /\ begun' \in [RDSFiles -> Nat] /\ cut' \subseteq RDSFiles
<1> USE DEF TypeOK, LoopType, HistoryType
<1>1. CASE DescribeDBLogFiles
  <2>1. UNCHANGED <<next, marker, lines, handed, failed, begun, cut>> /\ pc' = "download"
    BY <1>1 DEF DescribeDBLogFiles, Rds, history
  <2>2. logFiles' \in Seq([name : RDSFiles, last : Nat])
    BY <1>1, DescribeType
  <2>3. next = 1
    BY <1>1 DEF DescribeDBLogFiles, Fresh
  <2>4. next' \in 1..Len(logFiles') + 1
    BY <2>1, <2>2, <2>3, LenProperties
  <2> QED BY <2>1, <2>2, <2>4
<1>2. CASE DownloadDBLogFilePortion
  <2>1. PICK n \in Nat :
           /\ Downloading /\ begun' = Began
           /\ UNCHANGED <<logFiles, failed, pc, cut>>
           /\ \/ /\ n < remote[Name].len - marker
                 /\ lines' = Portions(n) /\ marker' = marker + n
                 /\ UNCHANGED <<next, handed>>
              \/ n = remote[Name].len - marker /\ HandOver(Portions(n), NextMarker)
    BY <1>2, PortionStep
  <2>2. begun' \in [RDSFiles -> Nat]
    BY <2>1, NameType DEF Began
  <2>3. Portions(n) \in Seq(Nat)
    BY PortionType
  <2>4. /\ next' \in 1..Len(logFiles) + 1 /\ marker' \in Nat /\ lines' \in Seq(Nat)
        /\ handed' \in Seq(Buffer)
    BY <2>1, <2>3, HandOverType
  <2> QED BY <2>1, <2>2, <2>4 DEF Downloading
<1>3. CASE DownloadNothing
  <2>1. /\ Downloading /\ HandOver(lines, NextMarker) /\ cut' = cut \cup {Name}
        /\ UNCHANGED <<logFiles, failed, begun>> /\ pc' = "download"
    BY <1>3 DEF DownloadNothing, Rds
  <2>2. /\ next' \in 1..Len(logFiles) + 1 /\ marker' \in Nat /\ lines' \in Seq(Nat)
        /\ handed' \in Seq(Buffer)
    BY <2>1, HandOverType
  <2>3. Name \in RDSFiles
    BY <2>1, NameType
  <2> QED BY <2>1, <2>2, <2>3
<1>4. CASE NoRDS \/ DescribeFails \/ DownloadFails \/ EndDownloads
  <2>1. /\ UNCHANGED <<logFiles, next, marker, lines, handed, begun, cut>>
        /\ pc' = "done" /\ failed' \in BOOLEAN
    BY <1>4 DEF NoRDS, DescribeFails, DownloadFails, EndDownloads, Rds, loop, history
  <2> QED BY <2>1
<1> QED BY <1>1, <1>2, <1>3, <1>4 DEF RdsStep

LEMMA OutsideType ==
  ASSUME TypeOK, Outside
  PROVE  MachineType' /\ rotated' \in BOOLEAN
<1> USE DEF TypeOK, MachineType, HistoryType
<1>1. o.rotates \in Nat /\ o.writes \in Nat /\ rotates \in 0..o.rotates /\ writes \in 0..o.writes
  BY WorldType
<1>2. CASE Rotate
  <2>1. current' \in [Formats -> Files \cup {NoFile}] /\ there' \subseteq Files
    BY <1>2 DEF Rotate
  <2> QED BY <1>1, <1>2, <2>1 DEF Rotate
<1>3. ASSUME NEW f \in RDSFiles, NEW r \in [len : Nat, last : Nat, there : BOOLEAN],
             RDSChanges(f, r)
      PROVE  MachineType' /\ rotated' \in BOOLEAN
  BY <1>1, <1>3 DEF RDSChanges, machine, history
<1>4. CASE Write
  <2>1. PICK f \in RDSFiles, t \in {remote[g].last : g \in RDSFiles} :
          RDSChanges(f, [len |-> remote[f].len + 1, last |-> t + 1, there |-> TRUE])
    BY <1>4 DEF Write
  <2>2. [len |-> remote[f].len + 1, last |-> t + 1, there |-> TRUE]
          \in [len : Nat, last : Nat, there : BOOLEAN]
    OBVIOUS
  <2> QED BY <1>3, <2>1, <2>2
<1>5. CASE Expire
  BY <1>3, <1>5 DEF Expire
<1> QED BY <1>2, <1>4, <1>5 DEF Outside

LEMMA NextType ==
  ASSUME TypeOK, Fresh, [Next]_vars
  PROVE  TypeOK' /\ Fresh'
<1>0. o \in Worlds
  BY DEF TypeOK, MachineType
<1>1. CASE LocalStep
  <2>1. LocalType' /\ pc \notin {"download", "done"} /\ bare' \in BOOLEAN
    <3>1. LocalType'
      BY <1>1, PickType
    <3>2. pc \notin {"download", "done"}
      BY <1>1 DEF LocalStep, GetLogInfo, Info, UseLogFile, NoPrefix, UseLogDir, UseCurrent,
                  UseRecent, ReadFile, EndFiles
    <3>3. bare' = bare \/ bare' = TRUE
      BY <1>0, <1>1, WorldType DEF LocalStep, GetLogInfo, Info, UseLogFile, NoPrefix, UseLogDir,
              UseCurrent, UseRecent, ReadFile, EndFiles, Pick, Skips, history
    <3> QED BY <3>1, <3>2, <3>3 DEF TypeOK, HistoryType
  <2>2. UNCHANGED <<o, machine, remote, rotates, writes, loop, rotated, begun, cut>>
    BY <1>0, <1>1, LocalFrame
  <2>3. MachineType' /\ LoopType' /\ HistoryType'
    BY <2>1, <2>2 DEF TypeOK, MachineType, LoopType, HistoryType, machine, loop
  <2> QED BY <2>1, <2>2, <2>3 DEF TypeOK, Fresh, loop
<1>2. CASE RdsStep
  <2>1. /\ LoopType' /\ pc' \in {"done", "download"}
        /\ begun' \in [RDSFiles -> Nat] /\ cut' \subseteq RDSFiles
    BY <1>2, DownloadType
  <2>2. UNCHANGED <<o, machine, remote, rotates, writes, local, rotated, bare>>
    BY <1>2, RdsFrame
  <2>3. MachineType'
    BY <2>2 DEF TypeOK, MachineType, machine
  <2>4. LocalType' /\ HistoryType'
    BY <2>1, <2>2 DEF TypeOK, LocalType, HistoryType, local
  <2> QED BY <2>1, <2>3, <2>4 DEF TypeOK, Fresh
<1>3. CASE Outside
  <2>1. MachineType' /\ rotated' \in BOOLEAN
    BY <1>3, OutsideType
  <2>2. UNCHANGED <<o, pc, local, loop, bare, begun, cut>>
    BY <1>3, OutsideFrame
  <2> QED BY <2>1, <2>2 DEF TypeOK, Fresh, LocalType, LoopType, HistoryType, local, loop
<1>4. CASE UNCHANGED vars
  BY <1>4 DEF vars, machine, local, loop, history, TypeOK, Fresh, MachineType, LocalType,
              LoopType, HistoryType
<1> QED BY <1>1, <1>2, <1>3, <1>4 DEF Next, Program, LocalStep, RdsStep, Outside

\* The variables keep their types, whatever machine and RDS instance there are.
THEOREM FilesTypeCorrect == Spec => []TypeOK
<1>1. Init => TypeOK /\ Fresh
  BY InitType DEF Init, Fresh
<1>2. TypeOK /\ Fresh /\ [Next]_vars => (TypeOK /\ Fresh)'
  BY NextType
<1> QED BY <1>1, <1>2, PTL DEF Spec

-----------------------------------------------------------------------------
(***************************************************************************)
(* The right log.  What holds of the files that were read must hold of     *)
(* those still to be read, and of the name that the server gave, which     *)
(* grows old while it waits to be used.                                    *)
(***************************************************************************)
As == IF csvlog THEN "csvlog" ELSE "stderr"

\* RightLog, of one file.
Right(f, as) ==
  /\ source = "dir" => Format(f) \in Formats
  /\ o.logFile # NoFile => f = o.logFile
  /\ o.logFile = NoFile /\ o.logDir = "given" /\ ~bare => Place(f) = "given"
  /\ source = "current" =>
       \/ f = Namesake(curlogfile)
       \/ f = curlogfile /\ as = Format(f) /\ (rotated \/ f = current[as])

ChoiceInv ==
  /\ pc \in {"info", "file", "dir", "current", "recent"} => logfiles = <<>> /\ read = {}
  /\ pc \in {"dir", "current", "recent"} => o.logFile = NoFile
  /\ pc \in {"current", "recent"} /\ o.logDir = "given" => bare = TRUE
CurrentInv ==
  /\ \A format \in Formats : current[format] # NoFile => Format(current[format]) = format
  /\ pc = "info" => curlogfile = NoFile
  /\ curlogfile # NoFile => /\ Format(curlogfile) = As
                            /\ rotated \/ curlogfile = current[As]
FilesInv ==
  /\ \A i \in DOMAIN logfiles : Right(logfiles[i], As)
  /\ \A r \in read : Right(r.file, r.as)

RightInv == ChoiceInv /\ CurrentInv /\ FilesInv

\* As long as nothing is chosen, there is nothing to show of the files.
LEMMA PickRight ==
  ASSUME TypeOK, RightInv, LocalStep
  PROVE  RightInv'
<1> USE DEF RightInv
<1>1. /\ o \in Worlds /\ there \subseteq Files /\ csvlog \in BOOLEAN
      /\ NoFile \notin Files /\ logfiles \in Seq(Files)
  BY NoFileIsNone DEF TypeOK, MachineType, LocalType
<1>2. UNCHANGED <<o, current, rotated>>
  BY <1>1, LocalFrame DEF machine
<1>3. CASE GetLogInfo
  <2>1. /\ pc = "info" /\ pc' = "file" /\ csvlog' = o.csv /\ o.csv \in BOOLEAN
        /\ UNCHANGED <<logfiles, read>>
        /\ curlogfile' \in {current[IF o.csv THEN "csvlog" ELSE "stderr"], NoFile}
    BY <1>1, <1>3, WorldType DEF GetLogInfo, Info, Then
  <2>2. ChoiceInv' /\ FilesInv'
    BY <2>1 DEF ChoiceInv, FilesInv
  <2>3. CurrentInv'
    BY <1>2, <2>1 DEF CurrentInv, As, Formats
  <2> QED BY <2>2, <2>3
<1>4. ASSUME UNCHANGED <<csvlog, curlogfile>>, pc # "info", pc' # "info"
      PROVE  CurrentInv'
  BY <1>2, <1>4 DEF CurrentInv, As
<1>5. ASSUME NEW from, NEW s \in Seq(Files), Pick(from, s), read = {}, pc # "info",
             UNCHANGED <<bare, rotated>>, \A i \in DOMAIN s : Right(s[i], As)'
      PROVE  RightInv'
  <2>1. logfiles' = s /\ read' = {} /\ pc' = "read" /\ UNCHANGED <<csvlog, curlogfile>>
    BY <1>5 DEF Pick, Then
  <2> QED BY <1>4, <1>5, <2>1 DEF ChoiceInv, FilesInv
<1>6. ASSUME NEW place, Skips(place), pc # "info",
             place \in {"dir", "current", "recent", "list"},
             place # "list" => logfiles = <<>> /\ read = {} /\ o.logFile = NoFile,
             place \in {"current", "recent"} /\ o.logDir = "given" => bare = TRUE
      PROVE  RightInv'
  <2>1. pc' = place /\ UNCHANGED <<csvlog, curlogfile, source, logfiles, read, bare>>
    BY <1>6 DEF Skips, Then, local, history
  <2>2. ChoiceInv'
    BY <1>2, <1>6, <2>1 DEF ChoiceInv
  <2>3. FilesInv'
    BY <1>2, <2>1 DEF FilesInv, Right, As
  <2> QED BY <1>4, <1>6, <2>1, <2>2, <2>3
<1>7. CASE UseLogFile
  <2>1. pc = "file" /\ logfiles = <<>> /\ read = {} /\ o.logFile \in Files \cup {NoFile}
    BY <1>1, <1>7, WorldType DEF UseLogFile, ChoiceInv
  <2>2. CASE o.logFile # NoFile /\ Pick("file", <<o.logFile>>)
    <3>1. PICK f \in Files : f = o.logFile
      BY <2>1, <2>2
    <3> DEFINE s == <<f>>
    <3>2. s \in Seq(Files) /\ DOMAIN s = {1} /\ s[1] = f /\ Pick("file", s)
      BY <2>2, <3>1
    <3>3. source' = "file" /\ UNCHANGED <<bare, rotated>>
      BY <2>2 DEF Pick, history
    <3>4. Right(f, As)'
      BY <1>2, <2>2, <3>1, <3>3 DEF Right
    <3> HIDE DEF s
    <3>5. \A i \in DOMAIN s : Right(s[i], As)'
      BY <3>2, <3>4
    <3> QED BY <1>5, <2>1, <3>2, <3>3, <3>5
  <2>3. CASE (o.logFile = NoFile /\ Skips("dir")) \/ Skips("list")
    BY <1>6, <2>1, <2>3
  <2> QED BY <1>7, <2>2, <2>3 DEF UseLogFile
<1>8. CASE UseLogDir
  <2>1. /\ pc = "dir" /\ logfiles = <<>> /\ read = {} /\ o.logFile = NoFile
        /\ o.logDir \in {"none", "given", "missing"}
    BY <1>1, <1>8, WorldType DEF UseLogDir, ChoiceInv
  <2> DEFINE S == Readable({f \in there : Place(f) = "given"})
  <2>2. S \subseteq Files /\ IsFiniteSet(S)
        /\ \A f \in S : Place(f) = "given" /\ Format(f) \in Formats
    BY <1>1, NoFileIsNone, FS_Subset DEF Readable
  <2> HIDE DEF S
  <2>3. ASSUME NEW s \in SetToSeqs(S), Pick("dir", s)
        PROVE  RightInv'
    <3>1. s \in Seq(Files) /\ \A i \in DOMAIN s : s[i] \in S
      BY <2>2, ListOfSet, SeqMonotonic, LenProperties, ElementOfSeq
    <3>2. source' = "dir" /\ UNCHANGED <<bare, rotated>>
      BY <2>3 DEF Pick, history
    <3>3. \A i \in DOMAIN s : Right(s[i], As)'
      BY <1>2, <2>1, <2>2, <3>1, <3>2 DEF Right
    <3> QED BY <1>5, <2>1, <2>3, <3>1, <3>2, <3>3
  <2>4. CASE Then("current") /\ bare' = TRUE /\ UNCHANGED local
    <3>1. pc' = "current" /\ UNCHANGED <<csvlog, curlogfile, source, logfiles, read>>
      BY <2>4 DEF Then, local
    <3>2. ChoiceInv' /\ FilesInv'
      BY <1>2, <2>1, <2>4, <3>1 DEF ChoiceInv, FilesInv
    <3> QED BY <1>4, <2>1, <3>1, <3>2
  <2>5. CASE \/ o.logDir = "none" /\ Skips("current")
             \/ Skips("list")
    BY <1>6, <2>1, <2>5
  <2>6. \/ \E s \in SetToSeqs(S) : Pick("dir", s)
        \/ Then("current") /\ bare' = TRUE /\ UNCHANGED local
        \/ o.logDir = "none" /\ Skips("current")
        \/ Skips("list")
    BY <1>8, <2>1 DEF UseLogDir, S
  <2> QED BY <2>3, <2>4, <2>5, <2>6
<1>9. ASSUME NEW from, NEW f \in Files, Pick(from, <<f>>), pc \in {"current", "recent"},
             from = "current" => f \in {Namesake(curlogfile), curlogfile},
             from # "dir"
      PROVE  RightInv'
  <2> DEFINE s == <<f>>
  <2>1. s \in Seq(Files) /\ DOMAIN s = {1} /\ s[1] = f
    OBVIOUS
  <2>2. source' = from /\ UNCHANGED <<csvlog, curlogfile, bare, rotated>>
    BY <1>9 DEF Pick, history
  <2>3. o.logFile = NoFile /\ read = {} /\ (o.logDir = "given" => bare = TRUE)
    BY <1>9 DEF ChoiceInv
  <2>4. from = "current" /\ f = curlogfile => As = Format(f) /\ (rotated \/ f = current[As])
    BY <1>1, <1>9 DEF CurrentInv
  <2>5. Right(f, As)'
    BY <1>2, <1>9, <2>2, <2>3, <2>4 DEF Right, As
  <2> HIDE DEF s
  <2>6. \A i \in DOMAIN s : Right(s[i], As)'
    BY <2>1, <2>5
  <2> QED BY <1>5, <1>9, <2>1, <2>2, <2>3, <2>6 DEF s
<1>10. CASE UseCurrent
  <2>1. pc = "current" /\ logfiles = <<>> /\ read = {} /\ o.logFile = NoFile
        /\ (o.logDir = "given" => bare = TRUE)
    BY <1>10 DEF UseCurrent, ChoiceInv
  <2>2. \/ Skips("recent")
        \/ \E f : /\ Pick("current", <<f>>) /\ f \in there
                  /\ f \in {NoFile, Namesake(curlogfile), curlogfile}
    BY <1>10 DEF UseCurrent, Regular
  <2>3. CASE Skips("recent")
    BY <1>6, <2>1, <2>3
  <2> QED BY <1>1, <1>9, <2>1, <2>2, <2>3
<1>11. CASE UseRecent
  <2>1. pc = "recent" /\ (Skips("list") \/ \E f \in there : Pick("recent", <<f>>))
    BY <1>11 DEF UseRecent
  <2> QED BY <1>1, <1>6, <1>9, <2>1
<1>12. CASE ReadFile
  <2>1. /\ pc = "read" /\ pc' = "read" /\ logfiles # <<>> /\ logfiles' = Tail(logfiles)
        /\ read' \subseteq read \cup {[file |-> Head(logfiles), as |-> As]}
        /\ UNCHANGED <<csvlog, curlogfile, source, bare>>
    BY <1>12 DEF ReadFile, Then, As, history
  <2>2. Right(Head(logfiles), As) /\ \A i \in DOMAIN Tail(logfiles) : Right(Tail(logfiles)[i], As)
    <3>1. /\ Head(logfiles) = logfiles[1] /\ DOMAIN logfiles = 1..Len(logfiles)
          /\ Len(logfiles) \in Nat \ {0}
          /\ DOMAIN Tail(logfiles) = 1..Len(logfiles) - 1
          /\ \A i \in 1..Len(logfiles) - 1 : Tail(logfiles)[i] = logfiles[i + 1]
      BY <1>1, <2>1, HeadTailProperties, LenProperties, EmptySeq
    <3> QED BY <3>1 DEF FilesInv
  <2>3. FilesInv'
    BY <1>2, <2>1, <2>2 DEF FilesInv, Right, As
  <2>4. ChoiceInv'
    BY <2>1 DEF ChoiceInv
  <2> QED BY <1>4, <2>1, <2>3, <2>4
<1>13. CASE NoPrefix \/ EndFiles
  BY <1>6, <1>13 DEF NoPrefix, EndFiles
<1> QED BY <1>3, <1>7, <1>8, <1>10, <1>11, <1>12, <1>13 DEF LocalStep

LEMMA NextRight ==
  ASSUME TypeOK, RightInv, [Next]_vars
  PROVE  RightInv'
<1> USE DEF RightInv
<1>1. CASE LocalStep
  BY <1>1, PickRight
<1>2. CASE RdsStep
  <2>1. UNCHANGED <<o, machine, local, rotated, bare>>
    BY <1>2, RdsFrame
  <2>2. pc' \in {"done", "download"}
    BY <1>2 DEF RdsStep, NoRDS, DescribeDBLogFiles, DescribeFails, DownloadDBLogFilePortion,
                DownloadNothing, DownloadFails, EndDownloads, Rds
  <2>3. ChoiceInv' /\ CurrentInv'
    BY <2>1, <2>2 DEF ChoiceInv, CurrentInv, As, machine, local
  <2>4. FilesInv'
    BY <2>1 DEF FilesInv, Right, As, machine, local
  <2> QED BY <2>3, <2>4
<1>3. CASE Rotate
  <2>1. UNCHANGED <<o, pc, csvlog, curlogfile, source, logfiles, read, bare>>
    BY <1>3 DEF Rotate, local
  <2>2. rotated' = (pc # "info")
    BY <1>3 DEF Rotate
  <2>3. \A format \in Formats :
          current'[format] # NoFile => Format(current'[format]) = format
    BY <1>3 DEF Rotate, CurrentInv, TypeOK, MachineType
  <2>4. ChoiceInv' /\ CurrentInv'
    BY <2>1, <2>2, <2>3 DEF ChoiceInv, CurrentInv, As
  <2>5. CASE pc = "info"
    BY <2>1, <2>4, <2>5 DEF FilesInv, ChoiceInv
  <2>6. CASE pc # "info"
    <3>1. rotated' = TRUE
      BY <2>2, <2>6
    <3>2. FilesInv'
      BY <2>1, <3>1 DEF FilesInv, Right, As
    <3> QED BY <2>4, <3>2
  <2> QED BY <2>5, <2>6
<1>4. CASE Write \/ Expire \/ UNCHANGED vars
  <2>1. UNCHANGED <<o, pc, machine, local, rotated, bare>>
    BY <1>4 DEF Write, Expire, RDSChanges, history, vars
  <2> QED BY <2>1 DEF ChoiceInv, CurrentInv, FilesInv, Right, As, machine, local
<1> QED BY <1>1, <1>2, <1>3, <1>4 DEF Next, Program, LocalStep, RdsStep

\* Whatever there is on the machine, and however often the server rotates: what is
\* read is what was named, or the server's own log in its own format, or a guess
\* where there was nothing else.
THEOREM RightLogRead == Spec => []RightLog
<1>1. Init => RightInv
  <2> SUFFICES ASSUME Init PROVE RightInv
    OBVIOUS
  <2>1. /\ o \in Worlds /\ current = o.current /\ pc = "info" /\ curlogfile = NoFile
        /\ logfiles = <<>> /\ read = {}
    BY DEF Init
  <2>2. ChoiceInv /\ FilesInv
    BY <2>1 DEF ChoiceInv, FilesInv
  <2>3. CurrentInv
    BY <2>1, CurrentInFormat DEF CurrentInv
  <2> QED BY <2>2, <2>3 DEF RightInv
<1>2. TypeOK /\ RightInv /\ [Next]_vars => RightInv'
  BY NextRight
<1>3. RightInv => RightLog
  BY DEF RightInv, FilesInv, Right, RightLog
<1>4. Spec => []TypeOK
  BY FilesTypeCorrect
<1> QED BY <1>1, <1>2, <1>3, <1>4, PTL DEF Spec

-----------------------------------------------------------------------------
(***************************************************************************)
(* Whole and in order.  What was handed over came from the files before    *)
(* the next one, and these are another's, and older; the lines in hand are *)
(* all that there are up to the marker; and files only grow.               *)
(***************************************************************************)
\* That the rest of the milliseconds counts nanoseconds does not change the order.
LEMMA TimesInOrder ==
  ASSUME NEW a \in Nat, NEW b \in Nat, ~Before(Time(b), Time(a))
  PROVE  a <= b
<1> DEFINE qa == a \div Ms
           qb == b \div Ms
           ra == a % Ms
           rb == b % Ms
<1>0. Ms \in Nat \ {0}
  BY SizesAreSizes
<1>1. a = (Ms * qa) + ra /\ qa \in Nat /\ ra \in 0..Ms - 1
  BY <1>0
<1>2. b = (Ms * qb) + rb /\ qb \in Nat /\ rb \in 0..Ms - 1
  BY <1>0
<1>3. qa < qb \/ (qa = qb /\ ra <= rb)
  BY <1>1, <1>2 DEF Before, Time
<1> HIDE DEF qa, qb, ra, rb
<1>4. CASE qa < qb
  <2>1. Ms * qb >= Ms * (qa + 1)
    BY <1>0, <1>1, <1>2, <1>4
  <2>2. Ms * (qa + 1) = Ms * qa + Ms
    BY <1>0, <1>1
  <2> QED BY <1>0, <1>1, <1>2, <2>1, <2>2
<1>5. CASE qa = qb /\ ra <= rb
  BY <1>0, <1>1, <1>2, <1>5
<1> QED BY <1>3, <1>4, <1>5

ListInv ==
  \A i, j \in DOMAIN logFiles :
    /\ i # j => logFiles[i].name # logFiles[j].name
    /\ i < j => logFiles[i].last <= logFiles[j].last
LinesInv == marker = Len(lines) /\ \A k \in DOMAIN lines : lines[k] = k
SourceInv ==
  \A i \in DOMAIN handed :
    \E k \in 1..next - 1 :
      handed[i].file = logFiles[k].name /\ handed[i].at = logFiles[k].last
GrowInv == \A f \in RDSFiles : begun[f] <= remote[f].len
EndInv == pc = "done" /\ RDSLogs /\ ~failed => next > Len(logFiles)
HandedInv == SourceInv /\ OldestFirst /\ FromTheFirstLine /\ ToTheLastLine /\ NoneLeftOut

WholeInv == ListInv /\ LinesInv /\ HandedInv /\ GrowInv /\ EndInv

LEMMA HandedMore ==
  ASSUME TypeOK, Downloading, NEW got \in Seq(Nat), HandOver(got, NextMarker)
  PROVE  /\ DOMAIN handed' \subseteq Nat
         /\ \A i \in DOMAIN handed : i \in DOMAIN handed' /\ handed'[i] = handed[i]
         /\ \A i \in DOMAIN handed' :
              \/ i \in DOMAIN handed
              \/ /\ \A j \in DOMAIN handed' : j <= i
                 /\ handed'[i] = [file |-> Name, at |-> logFiles[next].last, lines |-> got]
         /\ got # <<>> => \E i \in DOMAIN handed' : handed'[i].file = Name
<1> DEFINE b == [file |-> Name, at |-> logFiles[next].last, lines |-> got]
<1>1. handed \in Seq(Buffer) /\ Len(handed) \in Nat /\ DOMAIN handed = 1..Len(handed)
  BY LenProperties DEF TypeOK, LoopType
<1>2. b \in Buffer
  BY NameType DEF Buffer
<1>3. b.file = Name
  OBVIOUS
<1>4. CASE got = <<>>
  BY <1>1, <1>4 DEF HandOver
<1>5. CASE got # <<>>
  <2>1. handed' = Append(handed, b)
    BY <1>5 DEF HandOver
  <2> HIDE DEF b
  <2>2. /\ DOMAIN handed' = 1..Len(handed) + 1
        /\ \A i \in 1..Len(handed) : handed'[i] = handed[i]
        /\ handed'[Len(handed) + 1] = b
    BY <1>1, <1>2, <2>1, AppendProperties, LenProperties
  <2>3. handed'[Len(handed) + 1].file = Name
    BY <1>3, <2>2
  <2>4. \A i \in DOMAIN handed' : i \in DOMAIN handed \/ i = Len(handed) + 1
    BY <1>1, <2>2
  <2>5. /\ DOMAIN handed' \subseteq Nat
        /\ \A i \in DOMAIN handed : i \in DOMAIN handed' /\ handed'[i] = handed[i]
    BY <1>1, <2>2
  <2>6. \A i \in DOMAIN handed' :
          \/ i \in DOMAIN handed
          \/ (\A j \in DOMAIN handed' : j <= i) /\ handed'[i] = b
    BY <1>1, <2>2, <2>4
  <2>7. \E i \in DOMAIN handed' : handed'[i].file = Name
    BY <1>1, <2>2, <2>3
  <2> QED BY <2>5, <2>6, <2>7 DEF b
<1> QED BY <1>4, <1>5

\* A download ends with all its lines, or is marked as cut.
LEMMA HandOverWhole ==
  ASSUME TypeOK, ListInv, HandedInv, Downloading, UNCHANGED logFiles,
         NEW got \in Seq(Nat), HandOver(got, NextMarker),
         \A k \in DOMAIN got : got[k] = k,
         cut \subseteq cut', begun' \in [RDSFiles -> Nat],
         \A f \in RDSFiles : f # Name => begun'[f] = begun[f],
         Name \in cut' \/ Len(got) >= begun'[Name]
  PROVE  HandedInv'
<1> USE DEF HandedInv
<1>1. /\ next \in 1..Len(logFiles) /\ next' = next + 1 /\ Len(logFiles) \in Nat
      /\ DOMAIN logFiles = 1..Len(logFiles) /\ Name \in RDSFiles
      /\ \A k \in DOMAIN logFiles : logFiles[k] \in [name : RDSFiles, last : Nat]
  BY NameType, LenProperties, ElementOfSeq DEF TypeOK, LoopType, HandOver
<1>2. /\ DOMAIN handed' \subseteq Nat
      /\ \A i \in DOMAIN handed : i \in DOMAIN handed' /\ handed'[i] = handed[i]
      /\ \A i \in DOMAIN handed' :
           \/ i \in DOMAIN handed
           \/ /\ \A j \in DOMAIN handed' : j <= i
              /\ handed'[i] = [file |-> Name, at |-> logFiles[next].last, lines |-> got]
      /\ got # <<>> => \E i \in DOMAIN handed' : handed'[i].file = Name
  BY HandedMore
<1>3. \A i \in DOMAIN handed :
        /\ handed[i].file # Name /\ handed[i].file \in RDSFiles
        /\ handed[i].at <= logFiles[next].last
  <2> SUFFICES ASSUME NEW i \in DOMAIN handed
               PROVE  /\ handed[i].file # Name /\ handed[i].file \in RDSFiles
                      /\ handed[i].at <= logFiles[next].last
    OBVIOUS
  <2>1. PICK k \in 1..next - 1 :
          handed[i].file = logFiles[k].name /\ handed[i].at = logFiles[k].last
    BY DEF SourceInv
  <2>2. k \in DOMAIN logFiles /\ k < next /\ next \in DOMAIN logFiles
    BY <1>1, <2>1
  <2> QED BY <1>1, <2>1, <2>2 DEF ListInv, Name
<1>4. SourceInv'
  <2> SUFFICES ASSUME NEW i \in DOMAIN handed'
               PROVE  \E k \in 1..next' - 1 : /\ handed'[i].file = logFiles[k].name
                                              /\ handed'[i].at = logFiles[k].last
    BY DEF SourceInv
  <2>1. CASE i \in DOMAIN handed
    BY <1>1, <1>2, <2>1 DEF SourceInv
  <2>2. CASE handed'[i] = [file |-> Name, at |-> logFiles[next].last, lines |-> got]
    <3>1. next \in 1..next' - 1
      BY <1>1
    <3> QED BY <2>2, <3>1 DEF Name
  <2> QED BY <1>2, <2>1, <2>2
<1>5. OldestFirst'
  <2> SUFFICES ASSUME NEW i \in DOMAIN handed', NEW j \in DOMAIN handed', i < j
               PROVE  handed'[i].at <= handed'[j].at /\ handed'[i].file # handed'[j].file
    BY DEF OldestFirst
  <2>1. i \in DOMAIN handed
    BY <1>2
  <2>2. CASE j \in DOMAIN handed
    BY <1>2, <2>1, <2>2 DEF OldestFirst
  <2>3. CASE handed'[j] = [file |-> Name, at |-> logFiles[next].last, lines |-> got]
    BY <1>2, <1>3, <2>1, <2>3
  <2> QED BY <1>2, <2>2, <2>3
<1>6. FromTheFirstLine'
  BY <1>2 DEF FromTheFirstLine
<1>7. ToTheLastLine'
  <2> SUFFICES ASSUME NEW i \in DOMAIN handed'
               PROVE  \/ handed'[i].file \in cut'
                      \/ Len(handed'[i].lines) >= begun'[handed'[i].file]
    BY DEF ToTheLastLine
  <2>1. CASE i \in DOMAIN handed
    BY <1>2, <1>3, <2>1 DEF ToTheLastLine
  <2>2. CASE handed'[i] = [file |-> Name, at |-> logFiles[next].last, lines |-> got]
    BY <2>2
  <2> QED BY <1>2, <2>1, <2>2
<1>8. NoneLeftOut'
  <2> SUFFICES ASSUME NEW k \in 1..next' - 1, begun'[logFiles[k].name] > 0,
                      logFiles[k].name \notin cut'
               PROVE  \E i \in DOMAIN handed' : handed'[i].file = logFiles[k].name
    BY DEF NoneLeftOut
  <2>1. CASE k = next
    <3>1. Name \notin cut' /\ begun'[Name] > 0 /\ begun'[Name] \in Nat
      BY <1>1, <2>1 DEF Name
    <3>2. got # <<>>
      <4>1. got = <<>> => Len(got) = 0
        BY EmptySeq
      <4> QED BY <3>1, <4>1
    <3> QED BY <1>2, <2>1, <3>2 DEF Name
  <2>2. CASE k < next
    <3>1. k \in 1..next - 1 /\ k \in DOMAIN logFiles /\ logFiles[k].name # Name
      <4>1. k \in 1..next - 1 /\ k \in DOMAIN logFiles /\ next \in DOMAIN logFiles /\ k # next
        BY <1>1, <2>2
      <4>2. logFiles[k].name # logFiles[next].name
        BY <4>1 DEF ListInv
      <4> QED BY <4>1, <4>2 DEF Name
    <3>2. begun[logFiles[k].name] > 0 /\ logFiles[k].name \notin cut
      BY <1>1, <3>1
    <3>3. PICK i \in DOMAIN handed : handed[i].file = logFiles[k].name
      BY <3>1, <3>2 DEF NoneLeftOut
    <3> QED BY <1>2, <3>3
  <2> QED BY <1>1, <2>1, <2>2
<1> QED BY <1>4, <1>5, <1>6, <1>7, <1>8

LEMMA DownloadWhole ==
  ASSUME TypeOK, Fresh, WholeInv, RdsStep
  PROVE  WholeInv'
<1> USE DEF WholeInv
<1>0. /\ begun' \in [RDSFiles -> Nat] /\ begun \in [RDSFiles -> Nat] /\ lines \in Seq(Nat)
      /\ Len(lines) \in Nat /\ DOMAIN lines = 1..Len(lines)
      /\ UNCHANGED <<o, remote>>
  BY DownloadType, RdsFrame, LenProperties DEF TypeOK, LoopType, HistoryType
<1>1. CASE DescribeDBLogFiles
  <2>1. /\ UNCHANGED <<next, marker, lines, handed, failed, begun, cut, remote>>
        /\ pc' = "download" /\ next = 1 /\ handed = <<>>
    BY <1>1 DEF DescribeDBLogFiles, Rds, history, Fresh
  <2>2. /\ logFiles' \in Seq([name : RDSFiles, last : Nat])
        /\ \A i, j \in DOMAIN logFiles' : i # j => logFiles'[i].name # logFiles'[j].name
        /\ Sorted(logFiles')
    BY <1>1, DescribeType
  <2>3. DOMAIN logFiles' = 1..Len(logFiles') /\ Len(logFiles') \in Nat
        /\ \A i \in DOMAIN logFiles' : logFiles'[i].last \in Nat
    <3>1. \A i \in 1..Len(logFiles') : logFiles'[i] \in [name : RDSFiles, last : Nat]
      BY <2>2, ElementOfSeq
    <3> QED BY <2>2, <3>1, LenProperties
  <2>4. ListInv'
    BY <2>2, <2>3, TimesInOrder DEF ListInv, Sorted
  <2>5. HandedInv'
    BY <2>1 DEF HandedInv, SourceInv, OldestFirst, FromTheFirstLine, ToTheLastLine, NoneLeftOut
  <2> QED BY <2>1, <2>4, <2>5 DEF LinesInv, GrowInv, EndInv
<1>2. CASE DownloadDBLogFilePortion
  <2>1. PICK n \in Nat :
           /\ Downloading /\ begun' = Began
           /\ UNCHANGED <<logFiles, failed, pc, cut>>
           /\ \/ /\ n < remote[Name].len - marker
                 /\ lines' = Portions(n) /\ marker' = marker + n
                 /\ UNCHANGED <<next, handed>>
              \/ n = remote[Name].len - marker /\ HandOver(Portions(n), NextMarker)
    BY <1>2, PortionStep
  <2>2. Name \in RDSFiles /\ remote[Name].len \in Nat /\ marker \in Nat /\ pc = "download"
    BY <2>1, NameType DEF TypeOK, LoopType, Downloading
  <2>3. /\ \A f \in RDSFiles : f # Name => begun'[f] = begun[f]
        /\ begun'[Name] \in {begun[Name], remote[Name].len}
    BY <1>0, <2>1, <2>2 DEF Began
  <2>4. begun'[Name] <= remote[Name].len
    BY <2>2, <2>3 DEF GrowInv
  <2>5. GrowInv'
    BY <1>0, <2>3, <2>4 DEF GrowInv
  <2>6. /\ Portions(n) \in Seq(Nat) /\ Len(Portions(n)) = marker + n
        /\ \A k \in DOMAIN Portions(n) : Portions(n)[k] = k
    <3>1. /\ Portions(n) \in Seq(Nat) /\ Len(Portions(n)) = Len(lines) + n
          /\ \A k \in 1..Len(lines) : Portions(n)[k] = lines[k]
          /\ \A k \in Len(lines) + 1..Len(lines) + n : Portions(n)[k] = marker + (k - Len(lines))
      BY PortionType
    <3>2. DOMAIN Portions(n) = 1..Len(lines) + n
      BY <3>1, LenProperties
    <3>3. \A k \in 1..Len(lines) + n : k \in 1..Len(lines) \/ k \in Len(lines) + 1..Len(lines) + n
      BY <1>0
    <3> QED BY <1>0, <3>1, <3>2, <3>3 DEF LinesInv
  <2>7. ListInv' /\ EndInv'
    BY <2>1, <2>2 DEF ListInv, EndInv
  <2>8. CASE /\ n < remote[Name].len - marker
             /\ lines' = Portions(n) /\ marker' = marker + n
             /\ UNCHANGED <<next, handed>>
    <3>1. LinesInv'
      BY <2>6, <2>8 DEF LinesInv
    <3>2. \A k \in 1..next - 1 : logFiles[k].name # Name /\ logFiles[k].name \in RDSFiles
      <4>1. next \in 1..Len(logFiles) /\ DOMAIN logFiles = 1..Len(logFiles)
            /\ Len(logFiles) \in Nat
            /\ \A k \in DOMAIN logFiles : logFiles[k] \in [name : RDSFiles, last : Nat]
        BY <2>1, NameType, LenProperties, ElementOfSeq DEF TypeOK, LoopType
      <4> QED BY <4>1 DEF ListInv, Name
    <3>3. \A k \in 1..next - 1 : begun'[logFiles[k].name] = begun[logFiles[k].name]
      BY <2>3, <3>2
    <3>4. ToTheLastLine'
      BY <2>1, <2>8, <3>3 DEF HandedInv, ToTheLastLine, SourceInv
    <3>5. NoneLeftOut'
      BY <2>1, <2>8, <3>3 DEF HandedInv, NoneLeftOut
    <3>6. HandedInv'
      BY <2>1, <2>8, <3>4, <3>5 DEF HandedInv, SourceInv, OldestFirst, FromTheFirstLine
    <3> QED BY <2>5, <2>7, <3>1, <3>6
  <2>9. CASE n = remote[Name].len - marker /\ HandOver(Portions(n), NextMarker)
    <3>1. Len(Portions(n)) >= begun'[Name]
      BY <2>2, <2>4, <2>6, <2>9
    <3>2. HandedInv'
      BY <1>0, <2>1, <2>3, <2>6, <2>9, <3>1, HandOverWhole
    <3>3. LinesInv'
      BY <2>9, EmptySeq DEF LinesInv, HandOver, NextMarker
    <3> QED BY <2>5, <2>7, <3>2, <3>3
  <2> QED BY <2>1, <2>8, <2>9
<1>3. CASE DownloadNothing
  <2>1. /\ Downloading /\ HandOver(lines, NextMarker) /\ cut' = cut \cup {Name}
        /\ UNCHANGED <<logFiles, failed, begun>> /\ pc' = "download"
    BY <1>3 DEF DownloadNothing, Rds
  <2>2. HandedInv'
    BY <1>0, <2>1, HandOverWhole DEF LinesInv
  <2>3. LinesInv'
    BY <2>1, EmptySeq DEF LinesInv, HandOver, NextMarker
  <2> QED BY <1>0, <2>1, <2>2, <2>3 DEF ListInv, GrowInv, EndInv
<1>4. CASE NoRDS \/ DescribeFails \/ DownloadFails \/ EndDownloads
  <2>1. UNCHANGED <<logFiles, next, marker, lines, handed, begun, cut>>
    BY <1>4 DEF NoRDS, DescribeFails, DownloadFails, EndDownloads, Rds, loop, history
  <2>2. ~RDSLogs' \/ failed' = TRUE \/ next > Len(logFiles)
    BY <1>0, <1>4 DEF NoRDS, DescribeFails, DownloadFails, EndDownloads, RDSLogs
  <2>3. ListInv' /\ LinesInv' /\ GrowInv' /\ EndInv'
    BY <1>0, <2>1, <2>2 DEF ListInv, LinesInv, GrowInv, EndInv
  <2>4. HandedInv'
    BY <2>1 DEF HandedInv, SourceInv, OldestFirst, FromTheFirstLine, ToTheLastLine, NoneLeftOut
  <2> QED BY <2>3, <2>4
<1> QED BY <1>1, <1>2, <1>3, <1>4 DEF RdsStep

LEMMA NextWhole ==
  ASSUME TypeOK, Fresh, WholeInv, [Next]_vars
  PROVE  WholeInv'
<1> USE DEF WholeInv
<1>1. CASE RdsStep
  BY <1>1, DownloadWhole
<1>2. ASSUME UNCHANGED <<o, loop, begun, cut>>, pc' # "done" \/ pc' = pc,
             \A f \in RDSFiles : remote'[f].len >= remote[f].len /\ remote'[f].len \in Nat
      PROVE  WholeInv'
  <2>1. ListInv' /\ LinesInv' /\ HandedInv'
    BY <1>2 DEF ListInv, LinesInv, HandedInv, SourceInv, OldestFirst, FromTheFirstLine,
                ToTheLastLine, NoneLeftOut, loop
  <2>2. EndInv'
    BY <1>2 DEF EndInv, RDSLogs, loop
  <2>3. GrowInv'
    BY <1>2 DEF GrowInv, TypeOK, HistoryType, MachineType
  <2> QED BY <2>1, <2>2, <2>3
<1>3. UNCHANGED remote =>
        \A f \in RDSFiles : remote'[f].len >= remote[f].len /\ remote'[f].len \in Nat
  BY DEF TypeOK, MachineType
<1>4. CASE LocalStep
  <2>1. UNCHANGED <<o, loop, begun, cut, remote>>
    BY <1>4, LocalFrame DEF TypeOK, MachineType
  <2>2. pc' # "done"
    BY <1>4, WorldType DEF TypeOK, MachineType, LocalStep, GetLogInfo, Info, UseLogFile, NoPrefix,
              UseLogDir, UseCurrent, UseRecent, ReadFile, EndFiles, Pick, Skips, Then
  <2> QED BY <1>2, <1>3, <2>1, <2>2
<1>5. CASE Outside
  <2>1. UNCHANGED <<o, pc, loop, begun, cut>>
    BY <1>5, OutsideFrame
  <2>2. ASSUME NEW f \in RDSFiles, NEW r \in [len : Nat, last : Nat, there : BOOLEAN],
               RDSChanges(f, r), r.len >= remote[f].len
        PROVE  \A g \in RDSFiles : remote'[g].len >= remote[g].len /\ remote'[g].len \in Nat
    BY <2>2 DEF RDSChanges, TypeOK, MachineType
  <2>3. CASE Rotate
    BY <1>2, <1>3, <2>1, <2>3 DEF Rotate
  <2>4. CASE Write
    <3>1. PICK f \in RDSFiles, t \in {remote[g].last : g \in RDSFiles} :
            RDSChanges(f, [len |-> remote[f].len + 1, last |-> t + 1, there |-> TRUE])
      BY <2>4 DEF Write
    <3>2. /\ [len |-> remote[f].len + 1, last |-> t + 1, there |-> TRUE]
               \in [len : Nat, last : Nat, there : BOOLEAN]
          /\ remote[f].len + 1 >= remote[f].len
      BY DEF TypeOK, MachineType
    <3> QED BY <1>2, <2>1, <2>2, <3>1, <3>2
  <2>5. CASE Expire
    <3>1. PICK f \in RDSFiles : RDSChanges(f, [remote[f] EXCEPT !.there = FALSE])
      BY <2>5 DEF Expire
    <3>2. /\ [remote[f] EXCEPT !.there = FALSE] \in [len : Nat, last : Nat, there : BOOLEAN]
          /\ [remote[f] EXCEPT !.there = FALSE].len >= remote[f].len
      <4>1. remote[f] \in [len : Nat, last : Nat, there : BOOLEAN]
        BY DEF TypeOK, MachineType
      <4>2. [remote[f] EXCEPT !.there = FALSE] \in [len : Nat, last : Nat, there : BOOLEAN]
        BY <4>1
      <4>3. [remote[f] EXCEPT !.there = FALSE].len = remote[f].len /\ remote[f].len \in Nat
        BY <4>1
      <4> QED BY <4>2, <4>3
    <3> QED BY <1>2, <2>1, <2>2, <3>1, <3>2
  <2> QED BY <1>5, <2>3, <2>4, <2>5 DEF Outside
<1>6. CASE UNCHANGED vars
  BY <1>2, <1>3, <1>6 DEF vars, history
<1> QED BY <1>1, <1>4, <1>5, <1>6 DEF Next, Program, LocalStep, RdsStep, Outside

\* However RDS writes, removes and answers, and wherever it fails: what is handed on
\* is whole, from the first line, in the order of the list, each file once.
THEOREM DownloadsAreWhole == Spec => []WholeAndInOrder
<1>1. Init => TypeOK /\ Fresh /\ WholeInv
  <2> SUFFICES ASSUME Init PROVE WholeInv
    BY InitType DEF Init, Fresh
  <2>1. /\ logFiles = <<>> /\ next = 1 /\ marker = 0 /\ lines = <<>> /\ handed = <<>>
        /\ pc = "info" /\ begun = [f \in RDSFiles |-> 0]
    BY DEF Init
  <2>2. LinesInv
    BY <2>1, EmptySeq DEF LinesInv
  <2>3. GrowInv
    BY <2>1, InitType DEF GrowInv, TypeOK, MachineType
  <2>4. ListInv /\ HandedInv /\ EndInv
    BY <2>1 DEF ListInv, EndInv, HandedInv, SourceInv, OldestFirst, FromTheFirstLine,
                ToTheLastLine, NoneLeftOut
  <2> QED BY <2>2, <2>3, <2>4 DEF WholeInv
<1>2. TypeOK /\ Fresh /\ WholeInv /\ [Next]_vars => (TypeOK /\ Fresh /\ WholeInv)'
  BY NextType, NextWhole
<1>3. WholeInv => WholeAndInOrder
  BY DEF WholeInv, HandedInv, EndInv, WholeAndInOrder
<1> QED BY <1>1, <1>2, <1>3, PTL DEF Spec
=============================================================================
