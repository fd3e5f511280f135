--------------------------- MODULE LogReaderProofs ---------------------------
(***************************************************************************)
(* Proofs about LogReader, for every set of logs: the types, the order of  *)
(* the reported entries, when an entry can be reported twice or without a  *)
(* time stamp, which lines are shown under which entry, what is left out,  *)
(* that the reader implements LogReport, and that it has no infinitely     *)
(* many steps.                                                             *)
(***************************************************************************)
EXTENDS LogReader, Variants, SequenceTheorems, FiniteSetTheorems, WellFoundedInduction, TLAPS

-----------------------------------------------------------------------------
(***************************************************************************)
(* Types.                                                                  *)
(***************************************************************************)

\* getExtra returns a line of the entry or nothing.
LEMMA GetExtraType ==
  ASSUME NEW e \in Entry
  PROVE  GetExtra(e) \in Ref
<1> DEFINE first == {i \in DOMAIN e.extra : /\ DetailAt(e, i)
                                            /\ \A j \in 1 .. i - 1 : ~DetailAt(e, j)}
<1>1. e.extra \in Seq(Ref)
  BY DEF Entry
<1>2. CASE first = {}
  BY <1>2 DEF GetExtra, NoRef, Ref
<1>3. CASE first # {}
  <2>1. (CHOOSE i \in first : TRUE) \in DOMAIN e.extra
    BY <1>3
  <2>2. e.extra[CHOOSE i \in first : TRUE] \in Ref
    BY <1>1, <2>1, ElementOfSeq, LenProperties
  <2>3. QED
    BY <1>3, <2>2 DEF GetExtra
<1>4. QED
  BY <1>2, <1>3

\* processLogEntry keeps the types of the lists it appends to.
LEMMA ProcessLogEntryType ==
  ASSUME ResultType, NEW e \in Entry, ProcessLogEntry(e)
  PROVE  ResultType'
<1> DEFINE d == [head |-> e.head, detail |-> GetExtra(e)]
<1>1. d \in [head : Ref, detail : Ref]
  BY GetExtraType DEF Entry
<1>2. entries' \in Seq(Entry)
  BY AppendProperties DEF ResultType, ProcessLogEntry
<1>3. ASSUME NEW k \in Kinds
      PROVE  Append(found[k], d) \in Seq([head : Ref, detail : Ref])
  BY <1>1, AppendProperties DEF ResultType
<1>4. found' = [k \in Kinds |-> IF Recognised(e) = k THEN Append(found[k], d) ELSE found[k]]
  BY DEF ProcessLogEntry
<1>5. found' \in [Kinds -> Seq([head : Ref, detail : Ref])]
  <2> HIDE DEF d
  <2> QED BY <1>3, <1>4 DEF ResultType
<1>6. QED
  BY <1>2, <1>5 DEF ResultType

\* What the type of the log says of the place the reader stands at.
LEMMA HereType ==
  ASSUME InputType, ControlType, file <= Len(files)
  PROVE  /\ Len(files[file]) \in Nat
         /\ DOMAIN files[file] = 1 .. Len(files[file])
         /\ <<file, pos>> \in Ref
         /\ [head |-> <<file, pos>>, extra |-> <<>>] \in Entry
         /\ [head |-> <<file, pos>>, extra |-> <<<<file, pos>>>>] \in Entry
<1>1. files[file] \in Seq(Line)
  BY ElementOfSeq DEF InputType, ControlType
<1>2. <<file, pos>> \in Ref
  BY DEF ControlType, Ref
<1>3. <<>> \in Seq(Ref) /\ <<<<file, pos>>>> \in Seq(Ref)
  BY <1>2
<1>4. QED
  BY <1>1, <1>2, <1>3, LenProperties DEF Entry

\* The two things processLogLine does with a line.
LEMMA ProcessLogLineType ==
  ASSUME TypeOK, file <= Len(files), NEW first \in BOOLEAN, ProcessLogLine(first)
  PROVE  CurrentType' /\ ResultType'
<1>1. CASE Here.severity
  <2>1. currLog' = [head |-> <<file, pos>>, extra |-> <<>>]
    BY <1>1 DEF ProcessLogLine
  <2>2. CASE first
    BY <1>1, <2>1, <2>2, HereType
       DEF ProcessLogLine, TypeOK, CurrentType, ResultType, result
  <2>3. CASE ~first
    <3>1. ProcessLogEntry(currLog)
      BY <1>1, <2>3 DEF ProcessLogLine
    <3>2. ResultType'
      BY <3>1, ProcessLogEntryType DEF TypeOK, CurrentType
    <3>3. QED
      BY <2>1, <3>2, HereType DEF TypeOK, CurrentType
  <2>4. QED
    BY <2>2, <2>3
<1>2. CASE ~Here.severity
  <2>1. currLog' = [currLog EXCEPT !.extra = Append(currLog.extra, <<file, pos>>)]
    BY <1>2 DEF ProcessLogLine
  <2>2. /\ currLog.head \in Ref
        /\ currLog = [head |-> currLog.head, extra |-> currLog.extra]
        /\ Append(currLog.extra, <<file, pos>>) \in Seq(Ref)
    BY HereType, AppendProperties DEF TypeOK, CurrentType, Entry
  <2>3. currLog' = [head |-> currLog.head, extra |-> Append(currLog.extra, <<file, pos>>)]
    BY <2>1, <2>2
  <2>4. CurrentType'
    BY <2>2, <2>3 DEF CurrentType, Entry
  <2>5. QED
    BY <1>2, <2>4 DEF ProcessLogLine, TypeOK, ResultType, result
<1>3. QED
  BY <1>1, <1>2

\* readLogs starts with values of the right types.
LEMMA TypeInit == Init => TypeOK
<1> SUFFICES ASSUME Init PROVE TypeOK
  OBVIOUS
<1>1. InputType
  BY InputsAreLogs DEF Init, InputType
<1>2. ControlType /\ LeftType
  BY DEF Init, ControlType, LeftType
<1>3. CurrentType
  BY DEF Init, CurrentType, ZeroEntry, NoRef, Entry, Ref
<1>4. ResultType
  BY DEF Init, ResultType
<1>5. QED
  BY <1>1, <1>2, <1>3, <1>4 DEF TypeOK

\* Every step of the reader preserves the types.
LEMMA TypeStep == TypeOK /\ [Next]_vars => TypeOK'
<1> SUFFICES ASSUME TypeOK, [Next]_vars PROVE TypeOK'
  OBVIOUS
<1> USE DEF input, result, left
<1>1. InputType'
  BY DEF Next, vars, OpenText, OpenFails, SkipOldLine, TakeLine, BadLine, EndBuf, OpenCSV,
         ReadRecord, StopAtRecord, EndCSV, Finish, TypeOK, InputType
<1>2. LeftType'
  <2>1. CASE UNCHANGED left
    BY <2>1 DEF TypeOK, LeftType
  <2>2. ASSUME NEW err \in BOOLEAN, GiveUp(err) PROVE LeftType'
    BY <2>2 DEF GiveUp, TypeOK, ControlType, LeftType
  <2>3. QED
    BY <2>1, <2>2 DEF Next, vars, OpenText, OpenFails, SkipOldLine, TakeLine, BadLine, EndBuf,
                      OpenCSV, ReadRecord, StopAtRecord, EndCSV, Finish
<1>3. ControlType'
  <2>1. CASE OpenText
    BY <2>1, HereType DEF OpenText, Starts, TypeOK, ControlType
  <2>2. CASE NextFile
    BY <2>2 DEF NextFile, TypeOK, ControlType
  <2>3. CASE SkipOldLine \/ TakeLine \/ ReadRecord
    BY <2>3 DEF SkipOldLine, TakeLine, ReadRecord, TypeOK, ControlType
  <2>4. CASE OpenCSV \/ Finish \/ UNCHANGED vars
    BY <2>4 DEF OpenCSV, Finish, vars, TypeOK, ControlType
  <2>5. QED
    BY <2>1, <2>2, <2>3, <2>4 DEF Next, OpenFails, BadLine, EndBuf, StopAtRecord, EndCSV, GiveUp
<1>4. CurrentType' /\ ResultType'
  <2>1. CASE UNCHANGED <<currLog, result>>
    BY <2>1 DEF TypeOK, CurrentType, ResultType
  <2>2. CASE TakeLine
    BY <2>2, ProcessLogLineType DEF TakeLine, TypeOK, ControlType
  <2>3. CASE EndBuf
    BY <2>3, ProcessLogEntryType DEF EndBuf, TypeOK, CurrentType, ResultType
  <2>4. CASE ReadRecord /\ Here.at = "new"
    <3> DEFINE e == [head  |-> <<file, pos>>,
                     extra |-> IF Here.detail THEN <<<<file, pos>>>> ELSE <<>>]
    <3>1. file <= Len(files)
      BY <2>4 DEF ReadRecord, TypeOK, ControlType
    <3>2. e \in Entry
      BY <3>1, HereType DEF TypeOK
    <3>3. currLog' = e /\ ProcessLogEntry(e)
      BY <2>4 DEF ReadRecord
    <3> HIDE DEF e
    <3>4. QED
      BY <3>2, <3>3, ProcessLogEntryType DEF TypeOK, CurrentType
  <2>5. QED
    BY <2>1, <2>2, <2>3, <2>4 DEF Next, vars, OpenText, OpenFails, SkipOldLine, BadLine, OpenCSV,
                                  ReadRecord, StopAtRecord, EndCSV, Finish
<1>5. QED
  BY <1>1, <1>2, <1>3, <1>4 DEF TypeOK

\* c.currLog, the lists of the report and the counters always hold values of their
\* types, and readLogs warns only about a file it left before its end.
THEOREM TypeCorrect == Spec => []TypeOK
BY TypeInit, TypeStep, PTL DEF Spec

-----------------------------------------------------------------------------
(***************************************************************************)
(* The carry-over of c.currLog.                                            *)
(***************************************************************************)

\* The order in which lines are written is a strict linear order.
LEMMA BeforeIsAnOrder ==
  ASSUME NEW r \in Ref, NEW s \in Ref, NEW t \in Ref
  PROVE  /\ ~Before(r, r)
         /\ Before(r, s) \/ r = s \/ Before(s, r)
         /\ Before(r, s) => ~Before(s, r)
         /\ Before(r, s) /\ ~Before(t, s) => Before(r, t)
         /\ ~Before(s, r) /\ Before(s, t) => Before(r, t)
         /\ ~Before(s, r) /\ ~Before(t, s) => ~Before(t, r)
<1>1. PICK a \in Nat, b \in Nat : r = <<a, b>>
  BY DEF Ref
<1>2. PICK c \in Nat, d \in Nat : s = <<c, d>>
  BY DEF Ref
<1>3. PICK e \in Nat, f \in Nat : t = <<e, f>>
  BY DEF Ref
<1>4. QED
  BY <1>1, <1>2, <1>3 DEF Before

\* The heads of the report after processLogEntry.
LEMMA ReportedHeads ==
  ASSUME ResultType, NEW e \in Entry, ProcessLogEntry(e)
  PROVE  /\ DOMAIN entries = 1 .. Len(entries) /\ Len(entries) \in Nat
         /\ DOMAIN entries' = 1 .. Len(entries) + 1
         /\ \A i \in DOMAIN entries : entries'[i] = entries[i]
         /\ entries'[Len(entries) + 1] = e
<1>1. entries \in Seq(Entry) /\ entries' = Append(entries, e)
  BY DEF ResultType, ProcessLogEntry
<1>2. entries' \in Seq(Entry)
  BY <1>1, AppendProperties
<1>3. QED
  BY <1>1, <1>2, AppendProperties, LenProperties

\* An entry is known by the place of its first line.
LEMMA HeadIsRef ==
  ASSUME NEW es \in Seq(Entry), NEW i \in DOMAIN es
  PROVE  es[i].head \in Ref
<1>1. es[i] \in Entry
  BY ElementOfSeq, LenProperties
<1>2. QED
  BY <1>1 DEF Entry

\* Each reported entry is known by a place.
LEMMA EntryRefs ==
  ASSUME TypeOK
  PROVE  /\ currLog.head \in Ref
         /\ \A i \in DOMAIN entries : entries[i].head \in Ref
BY HeadIsRef DEF TypeOK, CurrentType, ResultType, Entry

\* Reporting an entry keeps the order of the report if nothing reported is
\* later than it, and the other two properties if a repeated or an unstamped
\* entry is excused by an orphaned file.
LEMMA ReportKeeps ==
  ASSUME TypeOK, NEW e \in Entry, ProcessLogEntry(e), UNCHANGED input,
         \A i \in DOMAIN entries : ~Before(e.head, entries[i].head),
         HeadsInOrder, OncePerEntry, StampedUnlessOrphaned,
         \A i \in DOMAIN entries :
            entries[i].head = e.head
              => \E f \in DOMAIN files : f > e.head[1] /\ OrphanStart(f),
         e.head = NoRef => \E f \in DOMAIN files : OrphanStart(f)
  PROVE  (HeadsInOrder /\ OncePerEntry /\ StampedUnlessOrphaned)'
<1>1. /\ DOMAIN entries = 1 .. Len(entries) /\ Len(entries) \in Nat
      /\ DOMAIN entries' = 1 .. Len(entries) + 1
      /\ \A i \in DOMAIN entries : entries'[i] = entries[i]
      /\ entries'[Len(entries) + 1] = e
  BY ReportedHeads DEF TypeOK
<1>2. files' = files /\ csvlog' = csvlog
  BY DEF input
<1>3. \A f : OrphanStart(f)' <=> OrphanStart(f)
  BY <1>2 DEF OrphanStart
<1>4. HeadsInOrder'
  <2> SUFFICES ASSUME NEW i \in DOMAIN entries', NEW j \in DOMAIN entries', i < j
               PROVE  ~Before(entries'[j].head, entries'[i].head)
    BY DEF HeadsInOrder, Before
  <2>1. CASE j \in DOMAIN entries
    BY <2>1, <1>1 DEF HeadsInOrder
  <2>2. CASE j = Len(entries) + 1
    BY <2>2, <1>1
  <2>3. QED
    BY <2>1, <2>2, <1>1
<1>5. OncePerEntry'
  <2> SUFFICES ASSUME NEW i \in DOMAIN entries', NEW j \in DOMAIN entries', i < j,
                      entries'[i].head = entries'[j].head
               PROVE  \E f \in DOMAIN files : f > entries'[i].head[1] /\ OrphanStart(f)
    BY <1>2, <1>3 DEF OncePerEntry
  <2>1. CASE j \in DOMAIN entries
    BY <2>1, <1>1 DEF OncePerEntry
  <2>2. CASE j = Len(entries) + 1
    BY <2>2, <1>1
  <2>3. QED
    BY <2>1, <2>2, <1>1
<1>6. StampedUnlessOrphaned'
  <2> SUFFICES ASSUME NEW i \in DOMAIN entries', entries'[i].head = NoRef
               PROVE  \E f \in DOMAIN files : OrphanStart(f)
    BY <1>2, <1>3 DEF StampedUnlessOrphaned
  <2>1. CASE i \in DOMAIN entries
    BY <2>1, <1>1 DEF StampedUnlessOrphaned
  <2>2. CASE i = Len(entries) + 1
    BY <2>2, <1>1
  <2>3. QED
    BY <2>1, <2>2, <1>1
<1>7. QED
  BY <1>4, <1>5, <1>6

\* Nothing was carried over when readLogs starts.
LEMMA CarryInit == Init => CarryOver
BY DEF Init, CarryOver, OpenEntryIsLatest, NothingTakenYet, OpenEntryIsOwn, HeadsInOrder,
       OncePerEntry, StampedUnlessOrphaned, Reading, ZeroEntry, NoRef

\* Flushing the open entry of a text buffer that gave a line.
LEMMA FlushKeeps ==
  ASSUME TypeOK, CarryOver, pc = "text", count > 0, ProcessLogEntry(currLog), UNCHANGED input
  PROVE  /\ (HeadsInOrder /\ OncePerEntry /\ StampedUnlessOrphaned)'
         /\ \A i \in DOMAIN entries' : ~Before(currLog.head, entries'[i].head)
<1>1. currLog \in Entry /\ currLog.head \in Ref /\ ResultType
  BY EntryRefs DEF TypeOK, CurrentType
<1>2. file \in DOMAIN files /\ file \in Nat \ {0} /\ pos \in Nat
  BY LenProperties DEF TypeOK, ControlType, InputType
<1>3. Before(currLog.head, <<file, pos>>)
  BY DEF CarryOver, OpenEntryIsLatest, Reading
<1>4. currLog.head[1] <= file
  BY <1>1, <1>2, <1>3 DEF Before, Ref
<1>5. \A i \in DOMAIN entries : ~Before(currLog.head, entries[i].head)
  BY DEF CarryOver, OpenEntryIsLatest
<1>6. CASE currLog.head[1] = file
  <2>1. \A i \in DOMAIN entries : entries[i].head # currLog.head
    BY <1>6 DEF CarryOver, OpenEntryIsOwn
  <2>2. currLog.head # NoRef
    BY <1>6, <1>2 DEF NoRef
  <2>3. (HeadsInOrder /\ OncePerEntry /\ StampedUnlessOrphaned)'
    BY <1>1, <1>5, <2>1, <2>2, ReportKeeps DEF CarryOver
  <2>4. QED
    BY <2>3, <1>1, <1>5, ReportedHeads, BeforeIsAnOrder
<1>7. CASE currLog.head[1] # file
  <2>1. OrphanStart(file)
    BY <1>7 DEF CarryOver, OpenEntryIsOwn
  <2>2. file > currLog.head[1]
    BY <1>1, <1>2, <1>4, <1>7 DEF Ref
  <2>3. \E f \in DOMAIN files : f > currLog.head[1] /\ OrphanStart(f)
    BY <2>1, <2>2, <1>2
  <2>4. (HeadsInOrder /\ OncePerEntry /\ StampedUnlessOrphaned)'
    BY <1>1, <1>5, <2>3, ReportKeeps DEF CarryOver
  <2>5. QED
    BY <2>4, <1>1, <1>5, ReportedHeads, BeforeIsAnOrder
<1>8. QED
  BY <1>6, <1>7

\* A step that leaves the report and the open entry alone.
LEMMA QuietKeeps ==
  ASSUME CarryOver, UNCHANGED <<input, currLog, result>>
  PROVE  /\ (HeadsInOrder /\ OncePerEntry /\ StampedUnlessOrphaned)'
         /\ \A i \in DOMAIN entries' : ~Before(currLog'.head, entries'[i].head)
BY DEF CarryOver, OpenEntryIsLatest, HeadsInOrder, OncePerEntry, StampedUnlessOrphaned, Before,
       OrphanStart, input, result

\* A line of a text buffer opens the next entry or joins the open one.
LEMMA TakeLineKeeps ==
  ASSUME TypeOK, CarryOver, TakeLine
  PROVE  CarryOver'
<1> DEFINE r == <<file, pos>>
<1>1. /\ pc = "text" /\ pc' = "text" /\ file' = file /\ pos' = pos + 1 /\ count' = count + 1
      /\ files' = files /\ csvlog' = csvlog /\ UNCHANGED input
      /\ ProcessLogLine(count = 0)
  BY DEF TakeLine, input
<1>2. /\ file \in DOMAIN files /\ file \in Nat \ {0} /\ pos \in Nat \ {0} /\ count \in Nat
      /\ r \in Ref /\ currLog \in Entry /\ currLog.head \in Ref /\ ResultType
      /\ DOMAIN files[file] = 1 .. Len(files[file]) /\ Len(files[file]) \in Nat
  BY <1>1, HereType, EntryRefs, LenProperties
     DEF TypeOK, ControlType, InputType, CurrentType
<1>3. /\ Before(currLog.head, r)
      /\ \A i \in DOMAIN entries : ~Before(currLog.head, entries[i].head)
  BY <1>1 DEF CarryOver, OpenEntryIsLatest, Reading
<1>4. NothingTakenYet'
  BY <1>1, <1>2 DEF NothingTakenYet
<1>5. CASE Here.severity
  <2>1. currLog'.head = r
    BY <1>1, <1>5 DEF ProcessLogLine
  <2>2. /\ (HeadsInOrder /\ OncePerEntry /\ StampedUnlessOrphaned)'
        /\ \A i \in DOMAIN entries' : ~Before(currLog.head, entries'[i].head)
    <3>1. CASE count = 0
      BY <1>1, <1>3, <1>5, <3>1
         DEF ProcessLogLine, result, input, CarryOver, HeadsInOrder, OncePerEntry,
             StampedUnlessOrphaned, Before, OrphanStart
    <3>2. CASE count # 0
      <4>1. ProcessLogEntry(currLog)
        BY <1>1, <1>5, <3>2 DEF ProcessLogLine
      <4>2. QED
        BY <1>1, <1>2, <3>2, <4>1, FlushKeeps
    <3>3. QED
      BY <3>1, <3>2
  <2>3. ASSUME NEW i \in DOMAIN entries'
        PROVE  /\ ~Before(r, entries'[i].head)
               /\ entries'[i].head # r
    <3>1. entries' \in Seq(Entry)
      BY TypeStep DEF Next, TypeOK, ResultType
    <3>2. entries'[i].head \in Ref
      BY <3>1, HeadIsRef
    <3>3. QED
      BY <1>2, <1>3, <2>2, <3>2, BeforeIsAnOrder
  <2>4. OpenEntryIsLatest'
    BY <1>1, <1>2, <2>1, <2>3 DEF OpenEntryIsLatest, Reading, Before
  <2>5. OpenEntryIsOwn'
    BY <1>1, <2>1, <2>3 DEF OpenEntryIsOwn
  <2>6. QED
    BY <1>4, <2>2, <2>4, <2>5 DEF CarryOver
<1>6. CASE ~Here.severity
  <2>1. currLog'.head = currLog.head /\ UNCHANGED result
    BY <1>1, <1>2, <1>6 DEF ProcessLogLine, Entry
  <2>2. (HeadsInOrder /\ OncePerEntry /\ StampedUnlessOrphaned)'
    BY <1>1, <2>1
       DEF result, CarryOver, HeadsInOrder, OncePerEntry, StampedUnlessOrphaned, Before, OrphanStart
  <2>3. OpenEntryIsLatest'
    BY <1>1, <1>2, <1>3, <2>1 DEF OpenEntryIsLatest, Reading, Before, result, Ref
  <2>4. currLog.head[1] # file => OrphanStart(file)
    <3>1. CASE count = 0
      <4>1. \A i \in 1 .. pos - 1 : files[file][i].at # "new"
        BY <1>1, <3>1 DEF CarryOver, NothingTakenYet
      <4>2. pos \in DOMAIN files[file] /\ files[file][pos].at = "new"
        BY <1>2 DEF TakeLine, Here
      <4>3. \A i \in 1 .. pos : files[file][i].at = "new" => ~files[file][i].severity
        BY <4>1, <1>2, <1>6 DEF Here
      <4>4. ~csvlog
        BY <1>1 DEF TypeOK, ControlType
      <4>5. QED
        BY <4>2, <4>3, <4>4 DEF OrphanStart
    <3>2. CASE count # 0
      BY <1>1, <1>2, <3>2 DEF CarryOver, OpenEntryIsOwn
    <3>3. QED
      BY <3>1, <3>2
  <2>5. OpenEntryIsOwn'
    BY <1>1, <2>1, <2>4 DEF CarryOver, OpenEntryIsOwn, OrphanStart, result
  <2>6. QED
    BY <1>4, <2>2, <2>3, <2>5 DEF CarryOver
<1>7. QED
  BY <1>5, <1>6

\* The end of a text buffer flushes the open entry and keeps it in c.currLog.
LEMMA EndBufKeeps ==
  ASSUME TypeOK, CarryOver, EndBuf
  PROVE  CarryOver'
<1>1. /\ pc = "text" /\ pc' = "next" /\ file' = file + 1 /\ currLog' = currLog
      /\ UNCHANGED input
  BY DEF EndBuf, NextFile
<1>2. file \in Nat \ {0} /\ pos \in Nat /\ count \in Nat /\ currLog.head \in Ref
  BY EntryRefs DEF TypeOK, ControlType
<1>3. currLog.head[1] < file + 1
  BY <1>1, <1>2 DEF CarryOver, OpenEntryIsLatest, Reading, Before, Ref
<1>4. /\ (HeadsInOrder /\ OncePerEntry /\ StampedUnlessOrphaned)'
      /\ \A i \in DOMAIN entries' : ~Before(currLog.head, entries'[i].head)
  <2>1. CASE count > 0
    BY <1>1, <2>1, FlushKeeps DEF EndBuf
  <2>2. CASE ~(count > 0)
    BY <1>1, <2>2, QuietKeeps DEF EndBuf
  <2>3. QED
    BY <2>1, <2>2
<1>5. OpenEntryIsLatest'
  BY <1>1, <1>3, <1>4 DEF OpenEntryIsLatest, Reading, Before
<1>6. NothingTakenYet' /\ OpenEntryIsOwn'
  BY <1>1 DEF NothingTakenYet, OpenEntryIsOwn
<1>7. QED
  BY <1>4, <1>5, <1>6 DEF CarryOver

\* A csv record replaces c.currLog and is reported at once.
LEMMA ReadRecordKeeps ==
  ASSUME TypeOK, CarryOver, ReadRecord
  PROVE  CarryOver'
<1>1. /\ pc = "csv" /\ pc' = "csv" /\ file' = file /\ pos' = pos + 1 /\ UNCHANGED input
  BY DEF ReadRecord
<1>2. /\ file \in Nat \ {0} /\ pos \in Nat /\ currLog.head \in Ref /\ file <= Len(files)
      /\ <<file, pos>> \in Ref
  BY <1>1, EntryRefs, HereType DEF TypeOK, ControlType
<1>3. /\ Before(currLog.head, <<file, pos>>)
      /\ \A i \in DOMAIN entries : ~Before(currLog.head, entries[i].head)
  BY <1>1 DEF CarryOver, OpenEntryIsLatest, Reading
<1>4. NothingTakenYet' /\ OpenEntryIsOwn'
  BY <1>1 DEF NothingTakenYet, OpenEntryIsOwn
<1>5. CASE Here.at = "new"
  <2> DEFINE e == [head  |-> <<file, pos>>,
                   extra |-> IF Here.detail THEN <<<<file, pos>>>> ELSE <<>>]
  <2>1. currLog' = e /\ ProcessLogEntry(e)
    BY <1>5 DEF ReadRecord
  <2>2. e \in Entry /\ e.head = <<file, pos>>
    BY <1>2, HereType DEF TypeOK
  <2> HIDE DEF e
  <2>3. \A i \in DOMAIN entries : /\ ~Before(e.head, entries[i].head)
                                  /\ entries[i].head # e.head
    BY <1>2, <1>3, <2>2, EntryRefs, BeforeIsAnOrder
  <2>4. e.head # NoRef
    BY <1>2, <2>2 DEF NoRef
  <2>5. (HeadsInOrder /\ OncePerEntry /\ StampedUnlessOrphaned)'
    BY <1>1, <2>1, <2>2, <2>3, <2>4, ReportKeeps DEF CarryOver
  <2>6. \A i \in DOMAIN entries' : ~Before(e.head, entries'[i].head)
    BY <1>2, <2>1, <2>2, <2>3, ReportedHeads, BeforeIsAnOrder DEF TypeOK
  <2>7. OpenEntryIsLatest'
    BY <1>1, <1>2, <2>1, <2>2, <2>6 DEF OpenEntryIsLatest, Reading, Before
  <2>8. QED
    BY <1>4, <2>5, <2>7 DEF CarryOver
<1>6. CASE Here.at # "new"
  <2>1. UNCHANGED <<input, currLog, result>>
    BY <1>6 DEF ReadRecord
  <2>2. OpenEntryIsLatest'
    BY <1>1, <1>2, <1>3, <2>1 DEF OpenEntryIsLatest, Reading, Before, result, Ref
  <2>3. QED
    BY <1>4, <2>1, <2>2, QuietKeeps DEF CarryOver
<1>7. QED
  BY <1>5, <1>6

\* Every other step leaves the report and the open entry alone.
LEMMA OtherStepsKeep ==
  ASSUME TypeOK, CarryOver,
         \/ OpenText \/ OpenFails \/ SkipOldLine \/ BadLine \/ OpenCSV
         \/ StopAtRecord \/ EndCSV \/ Finish \/ UNCHANGED vars
  PROVE  CarryOver'
<1>1. UNCHANGED <<input, currLog, result>>
  BY DEF OpenText, OpenFails, SkipOldLine, BadLine, OpenCSV, StopAtRecord, EndCSV, Finish, vars,
         input, result
<1>2. file \in Nat \ {0} /\ pos \in Nat \ {0} /\ count \in Nat /\ currLog.head \in Ref
  BY EntryRefs DEF TypeOK, ControlType
<1>3. IF Reading THEN Before(currLog.head, <<file, pos>>) ELSE currLog.head[1] < file
  BY DEF CarryOver, OpenEntryIsLatest
<1>4. IF Reading' THEN Before(currLog.head, <<file', pos'>>) ELSE currLog.head[1] < file'
  <2>1. CASE OpenText \/ OpenCSV
    BY <1>2, <1>3, <2>1 DEF OpenText, OpenCSV, Reading, Before
  <2>2. CASE SkipOldLine
    BY <1>2, <1>3, <2>2 DEF SkipOldLine, Reading, Before, Ref
  <2>3. CASE NextFile
    BY <1>2, <1>3, <2>3 DEF NextFile, Reading, Before, Ref
  <2>4. CASE Finish \/ UNCHANGED vars
    BY <1>2, <1>3, <2>4 DEF Finish, vars, Reading
  <2>5. QED
    BY <2>1, <2>2, <2>3, <2>4 DEF OpenFails, BadLine, StopAtRecord, EndCSV, GiveUp
<1>5. OpenEntryIsLatest'
  BY <1>1, <1>4, QuietKeeps DEF OpenEntryIsLatest, Reading, Before
<1>6. NothingTakenYet'
  <2>1. CASE OpenText
    <3>1. pos' \in Starts /\ UNCHANGED <<file, files>>
      BY <2>1 DEF OpenText, input
    <3>2. \A i \in 1 .. pos' - 1 : files[file][i].at # "new"
      <4>1. CASE pos' = 1
        BY <4>1
      <4>2. CASE pos' # 1
        <5>1. pos' \in {k \in 1 .. Len(files[file]) :
                          \A i \in 1 .. k - 1 : files[file][i].at # "new"}
          BY <3>1, <4>2 DEF Starts
        <5>2. QED
          BY <5>1, Zenon
      <4>3. QED
        BY <4>1, <4>2
    <3>3. QED
      BY <3>1, <3>2 DEF NothingTakenYet
  <2>2. CASE SkipOldLine
    BY <1>2, <2>2 DEF SkipOldLine, Here, CarryOver, NothingTakenYet, input
  <2>3. CASE UNCHANGED vars
    BY <2>3 DEF vars, CarryOver, NothingTakenYet
  <2>4. CASE pc' # "text"
    BY <2>4 DEF NothingTakenYet
  <2>5. QED
    BY <2>1, <2>2, <2>3, <2>4
       DEF OpenFails, BadLine, OpenCSV, StopAtRecord, EndCSV, Finish, GiveUp, NextFile
<1>7. OpenEntryIsOwn'
  <2>1. CASE OpenText
    BY <1>1, <1>2, <1>3, <2>1 DEF OpenText, Reading, OpenEntryIsOwn
  <2>2. CASE SkipOldLine \/ UNCHANGED vars
    BY <1>1, <2>2
       DEF SkipOldLine, vars, CarryOver, OpenEntryIsOwn, OrphanStart, input, result
  <2>3. CASE pc' # "text"
    BY <2>3 DEF OpenEntryIsOwn
  <2>4. QED
    BY <2>1, <2>2, <2>3
       DEF OpenFails, BadLine, OpenCSV, StopAtRecord, EndCSV, Finish, GiveUp, NextFile
<1>8. QED
  BY <1>1, <1>5, <1>6, <1>7, QuietKeeps DEF CarryOver

\* The invariant behind the three theorems below: one lemma per action that
\* takes or flushes an entry, one for all the others.
LEMMA CarryStep == TypeOK /\ CarryOver /\ [Next]_vars => CarryOver'
BY TakeLineKeeps, EndBufKeeps, ReadRecordKeeps, OtherStepsKeep DEF Next

\* What c.currLog holds is always the latest entry, reported or not.
LEMMA CarryCorrect == Spec => []CarryOver
BY CarryInit, CarryStep, TypeCorrect, PTL DEF Spec

-----------------------------------------------------------------------------
\* The report lists entries in the order in which they were written.
THEOREM OrderPreserved == Spec => []HeadsInOrder
<1>1. CarryOver => HeadsInOrder
  BY DEF CarryOver
<1>2. QED
  BY <1>1, CarryCorrect, PTL

\* processLogEntry repeats an entry only because of an orphaned later file.
THEOREM NoRepetition == Spec => []OncePerEntry
<1>1. CarryOver => OncePerEntry
  BY DEF CarryOver
<1>2. QED
  BY <1>1, CarryCorrect, PTL

\* A LogEntry without time stamp is reported only because of an orphaned file.
THEOREM StampsPresent == Spec => []StampedUnlessOrphaned
<1>1. CarryOver => StampedUnlessOrphaned
  BY DEF CarryOver
<1>2. QED
  BY <1>1, CarryCorrect, PTL

-----------------------------------------------------------------------------
(***************************************************************************)
(* What is shown under an entry.                                           *)
(***************************************************************************)

\* ExtrasBelong, of one line and of one entry.
Belongs(h, x) ==
  IF x[1] = h[1]
  THEN /\ csvlog \/ h[2] < x[2]
       /\ \A k \in h[2] + 1 .. x[2] : ~Abs!Opens(h[1], k)
  ELSE h[1] < x[1] /\ OrphanStart(x[1])

EntryBelongs(e) == \A n \in DOMAIN e.extra : Belongs(e.head, e.extra[n])
ReportBelongs == \A i \in DOMAIN entries : EntryBelongs(entries[i])

\* Between the line that opened the open entry and the reader's place, no other
\* line opens one.
NoneOpenedSince ==
  pc = "text" /\ currLog.head[1] = file =>
    \A k \in currLog.head[2] + 1 .. pos - 1 : ~Abs!Opens(file, k)

ExtraInv == /\ ReportBelongs
            /\ EntryBelongs(currLog)
            /\ NoneOpenedSince
            /\ pc = "csv" => csvlog

\* The log does not change, nor does what belongs to what.
LEMMA BelongsStays ==
  ASSUME UNCHANGED input
  PROVE  /\ (\A i \in DOMAIN entries' : EntryBelongs(entries'[i])) => ReportBelongs'
         /\ EntryBelongs(currLog') => EntryBelongs(currLog)'
         /\ \A f, k : Abs!Opens(f, k)' <=> Abs!Opens(f, k)
         /\ \A f : OrphanStart(f)' <=> OrphanStart(f)
<1>1. files' = files /\ csvlog' = csvlog
  BY DEF input
<1>2. \A f : OrphanStart(f)' <=> OrphanStart(f)
  BY <1>1 DEF OrphanStart
<1>3. \A f, k : Abs!Opens(f, k)' <=> Abs!Opens(f, k)
  BY <1>1 DEF Abs!Opens, Abs!InWindow
<1>4. (\A i \in DOMAIN entries' : EntryBelongs(entries'[i])) => ReportBelongs'
  BY <1>1, <1>2, <1>3 DEF ReportBelongs, EntryBelongs, Belongs
<1>5. EntryBelongs(currLog') => EntryBelongs(currLog)'
  BY <1>1, <1>2, <1>3 DEF EntryBelongs, Belongs
<1>6. QED
  BY <1>2, <1>3, <1>4, <1>5

\* A reported entry has the lines it had while it was open.
LEMMA ReportedBelongs ==
  ASSUME TypeOK, ExtraInv, UNCHANGED input, NEW e \in Entry, EntryBelongs(e),
         ProcessLogEntry(e)
  PROVE  ReportBelongs'
<1>1. /\ DOMAIN entries = 1 .. Len(entries) /\ Len(entries) \in Nat
      /\ DOMAIN entries' = 1 .. Len(entries) + 1
      /\ \A i \in DOMAIN entries : entries'[i] = entries[i]
      /\ entries'[Len(entries) + 1] = e
  BY ReportedHeads DEF TypeOK
<1>2. \A i \in DOMAIN entries' : EntryBelongs(entries'[i])
  BY <1>1 DEF ExtraInv, ReportBelongs
<1>3. QED
  BY <1>2, BelongsStays

\* A line of a text buffer joins the open entry only if it is its own, or opens one.
LEMMA TakeLineBelongs ==
  ASSUME TypeOK, CarryOver, ExtraInv, TakeLine
  PROVE  ExtraInv'
<1> DEFINE r == <<file, pos>>
<1>1. /\ pc = "text" /\ pc' = "text" /\ file' = file /\ pos' = pos + 1
      /\ UNCHANGED input /\ files' = files /\ csvlog' = csvlog
      /\ ProcessLogLine(count = 0) /\ Here.at = "new"
  BY DEF TakeLine, input
<1>2. /\ file \in Nat \ {0} /\ pos \in Nat \ {0} /\ count \in Nat
      /\ currLog \in Entry /\ currLog.head \in Ref /\ currLog.extra \in Seq(Ref)
      /\ ~csvlog /\ r \in Ref
  BY <1>1, EntryRefs DEF TypeOK, ControlType, CurrentType, Entry, Ref
<1>3. CASE Here.severity
  <2>1. currLog' = [head |-> r, extra |-> <<>>]
    BY <1>1, <1>3 DEF ProcessLogLine
  <2>2. ReportBelongs'
    <3>1. CASE count = 0
      BY <1>1, <1>3, <3>1, BelongsStays
         DEF ProcessLogLine, result, ExtraInv, ReportBelongs
    <3>2. CASE count # 0
      BY <1>1, <1>2, <1>3, <3>2, ReportedBelongs DEF ProcessLogLine, ExtraInv
    <3>3. QED
      BY <3>1, <3>2
  <2>3. EntryBelongs(currLog)'
    BY <2>1 DEF EntryBelongs
  <2>4. NoneOpenedSince'
    BY <1>1, <1>2, <2>1 DEF NoneOpenedSince
  <2>5. QED
    BY <1>1, <2>2, <2>3, <2>4 DEF ExtraInv
<1>4. CASE ~Here.severity
  <2>1. /\ currLog'.head = currLog.head /\ UNCHANGED result
        /\ currLog'.extra = Append(currLog.extra, r)
    BY <1>1, <1>2, <1>4 DEF ProcessLogLine, Entry
  <2>2. ~Abs!Opens(file, pos)
    BY <1>2, <1>4 DEF Abs!Opens, Here
  <2>3. Belongs(currLog.head, r)
    <3>1. CASE currLog.head[1] = file
      <4>1. currLog.head[2] < pos
        BY <1>1, <1>2, <3>1 DEF CarryOver, OpenEntryIsLatest, Reading, Before
      <4>2. \A k \in currLog.head[2] + 1 .. pos : ~Abs!Opens(file, k)
        BY <1>1, <1>2, <2>2, <3>1 DEF ExtraInv, NoneOpenedSince, Ref
      <4>3. QED
        BY <3>1, <4>1, <4>2 DEF Belongs
    <3>2. CASE currLog.head[1] # file
      <4>1. currLog.head[1] < file
        BY <1>1, <1>2, <3>2 DEF CarryOver, OpenEntryIsLatest, Reading, Before, Ref
      <4>2. OpenEntryIsOwn' /\ count' = count + 1
        BY TakeLineKeeps DEF CarryOver, TakeLine
      <4>3. OrphanStart(file)'
        BY <1>1, <1>2, <2>1, <3>2, <4>2 DEF OpenEntryIsOwn
      <4>4. QED
        BY <1>1, <3>2, <4>1, <4>3, BelongsStays DEF Belongs
    <3>3. QED
      BY <3>1, <3>2
  <2>4. EntryBelongs(currLog)'
    <3>1. /\ DOMAIN currLog.extra = 1 .. Len(currLog.extra) /\ Len(currLog.extra) \in Nat
          /\ DOMAIN currLog'.extra = 1 .. Len(currLog.extra) + 1
          /\ \A n \in DOMAIN currLog.extra : currLog'.extra[n] = currLog.extra[n]
          /\ currLog'.extra[Len(currLog.extra) + 1] = r
      BY <1>2, <2>1, AppendProperties, LenProperties
    <3>2. \A n \in DOMAIN currLog'.extra : Belongs(currLog'.head, currLog'.extra[n])
      BY <2>1, <2>3, <3>1 DEF ExtraInv, EntryBelongs
    <3>3. EntryBelongs(currLog')
      BY <3>2 DEF EntryBelongs
    <3>4. QED
      BY <1>1, <3>3, BelongsStays
  <2>5. NoneOpenedSince'
    BY <1>1, <1>2, <2>1, <2>2, BelongsStays DEF ExtraInv, NoneOpenedSince, Ref
  <2>6. ReportBelongs'
    BY <1>1, <2>1, BelongsStays DEF ExtraInv, ReportBelongs, result
  <2>7. QED
    BY <1>1, <2>4, <2>5, <2>6 DEF ExtraInv
<1>5. QED
  BY <1>3, <1>4

\* A csv record has its own DETAIL and no other.
LEMMA ReadRecordBelongs ==
  ASSUME TypeOK, ExtraInv, ReadRecord
  PROVE  ExtraInv'
<1>1. /\ pc = "csv" /\ pc' = "csv" /\ UNCHANGED input /\ csvlog /\ csvlog' = csvlog
      /\ file \in Nat /\ pos \in Nat /\ file <= Len(files)
  BY DEF ReadRecord, TypeOK, ControlType, ExtraInv, input
<1>2. NoneOpenedSince'
  BY <1>1 DEF NoneOpenedSince
<1>3. CASE Here.at = "new"
  <2> DEFINE e == [head  |-> <<file, pos>>,
                   extra |-> IF Here.detail THEN <<<<file, pos>>>> ELSE <<>>]
  <2>1. currLog' = e /\ ProcessLogEntry(e)
    BY <1>3 DEF ReadRecord
  <2>2. e \in Entry
    BY <1>1, HereType DEF TypeOK
  <2>3. EntryBelongs(e)
    BY <1>1 DEF EntryBelongs, Belongs
  <2> HIDE DEF e
  <2>4. ReportBelongs'
    BY <1>1, <2>1, <2>2, <2>3, ReportedBelongs
  <2>5. EntryBelongs(currLog)'
    BY <1>1, <2>1, <2>3, BelongsStays
  <2>6. QED
    BY <1>1, <1>2, <2>4, <2>5 DEF ExtraInv
<1>4. CASE Here.at # "new"
  <2>1. UNCHANGED <<currLog, result>>
    BY <1>4 DEF ReadRecord
  <2>2. EntryBelongs(currLog) /\ currLog' = currLog
    BY <2>1 DEF ExtraInv
  <2>3. QED
    BY <1>1, <1>2, <2>1, <2>2, BelongsStays DEF ExtraInv, ReportBelongs, result
<1>5. QED
  BY <1>3, <1>4

LEMMA ExtraStep == TypeOK /\ CarryOver /\ ExtraInv /\ [Next]_vars => ExtraInv'
<1> SUFFICES ASSUME TypeOK, CarryOver, ExtraInv, [Next]_vars PROVE ExtraInv'
  OBVIOUS
<1>1. UNCHANGED input /\ csvlog' = csvlog /\ files' = files
  BY DEF Next, vars, input, OpenText, OpenFails, SkipOldLine, TakeLine, BadLine, EndBuf, OpenCSV,
         ReadRecord, StopAtRecord, EndCSV, Finish
<1>2. ASSUME pc' # "text", pc' = "csv" => csvlog, currLog' = currLog,
             ReportBelongs'
      PROVE  ExtraInv'
  BY <1>1, <1>2, BelongsStays DEF ExtraInv, NoneOpenedSince
<1>3. UNCHANGED result => ReportBelongs'
  BY <1>1, BelongsStays DEF ExtraInv, ReportBelongs, result
<1>4. CASE OpenFails \/ BadLine \/ StopAtRecord \/ EndCSV \/ Finish \/ OpenCSV
  BY <1>2, <1>3, <1>4
     DEF OpenFails, BadLine, StopAtRecord, EndCSV, Finish, OpenCSV, GiveUp, NextFile
<1>5. CASE EndBuf
  <2>1. pc' = "next" /\ currLog' = currLog /\ currLog \in Entry
    BY <1>5 DEF EndBuf, NextFile, TypeOK, CurrentType
  <2>2. ProcessLogEntry(currLog) \/ UNCHANGED result
    BY <1>5 DEF EndBuf
  <2>3. QED
    BY <1>1, <1>2, <1>3, <2>1, <2>2, ReportedBelongs DEF ExtraInv
<1>6. CASE OpenText
  <2>1. currLog.head[1] # file' /\ pc' = "text"
    BY <1>6 DEF OpenText, CarryOver, OpenEntryIsLatest, Reading, TypeOK, ControlType
  <2>2. QED
    BY <1>1, <1>3, <1>6, <2>1, BelongsStays
       DEF OpenText, ExtraInv, NoneOpenedSince
<1>7. CASE SkipOldLine
  <2>1. ~Abs!Opens(file, pos)
    BY <1>7 DEF SkipOldLine, Abs!Opens, Abs!InWindow, Here
  <2>2. NoneOpenedSince'
    <3>1. currLog.head[2] \in Nat /\ pos \in Nat
      BY EntryRefs DEF TypeOK, ControlType, Ref
    <3>2. QED
      BY <1>1, <1>7, <2>1, <3>1, BelongsStays DEF SkipOldLine, NoneOpenedSince, ExtraInv
  <2>3. QED
    BY <1>1, <1>3, <1>7, <2>2, BelongsStays DEF SkipOldLine, ExtraInv
<1>8. CASE UNCHANGED vars
  BY <1>1, <1>3, <1>8, BelongsStays DEF vars, result, ExtraInv, ReportBelongs, NoneOpenedSince
<1>9. QED
  BY <1>4, <1>5, <1>6, <1>7, <1>8, TakeLineBelongs, ReadRecordBelongs DEF Next

\* Each line shown under an entry was written under it, in its own file with no
\* other entry between, or is the orphaned start of a later file: c.currLog takes
\* a line that follows another file's only because of that.
THEOREM LinesAreOwn == Spec => []ExtrasBelong
<1>1. Init => ExtraInv
  BY DEF Init, ExtraInv, ReportBelongs, EntryBelongs, NoneOpenedSince, ZeroEntry
<1>2. ExtraInv => ExtrasBelong
  BY DEF ExtraInv, ReportBelongs, EntryBelongs, Belongs, ExtrasBelong
<1>3. QED
  BY <1>1, <1>2, ExtraStep, TypeCorrect, CarryCorrect, PTL DEF Spec

-----------------------------------------------------------------------------
(***************************************************************************)
(* What was read is in the report.                                         *)
(***************************************************************************)

\* Line k of file f is under the entry e, as its first line or another.
IsIn(e, f, k) ==
  \/ e.head = <<f, k>>
  \/ ~Abs!Opens(f, k) /\ \E n \in DOMAIN e.extra : e.extra[n] = <<f, k>>

Reported(es, f, k) == \E i \in DOMAIN es : IsIn(es[i], f, k)

\* What was passed in the window of the file that is being read is in the report
\* or still open; in a csv file, it is in the report.
PassedIsThere ==
  /\ pc = "text" => \A k \in 1 .. pos - 1 :
                      files[file][k].at = "new" =>
                        Reported(entries, file, k) \/ IsIn(currLog, file, k)
  /\ pc = "csv"  => \A k \in 1 .. pos - 1 :
                      files[file][k].at = "new" => Reported(entries, file, k)

LeftInv == /\ PassedIsThere
           /\ \A f \in DOMAIN files : \A k \in DOMAIN files[f] :
                f < file /\ f \notin lost /\ files[f][k].at = "new" => Reported(entries, f, k)

\* A step keeps what is reported, and processLogEntry adds its entry.
LEMMA ReportedStays ==
  ASSUME TypeOK, NEW f, NEW k,
         UNCHANGED result \/ \E e \in Entry : ProcessLogEntry(e)
  PROVE  Reported(entries, f, k) => Reported(entries', f, k)
<1>1. \A i \in DOMAIN entries : i \in DOMAIN entries' /\ entries'[i] = entries[i]
  <2>1. CASE UNCHANGED result
    BY <2>1 DEF result
  <2>2. CASE \E e \in Entry : ProcessLogEntry(e)
    BY <2>2, ReportedHeads DEF TypeOK
  <2>3. QED
    BY <2>1, <2>2
<1>2. QED
  BY <1>1 DEF Reported

LEMMA ReportAdds ==
  ASSUME TypeOK, NEW f, NEW k, NEW e \in Entry, ProcessLogEntry(e),
         IsIn(e, f, k)
  PROVE  Reported(entries', f, k)
<1>1. Len(entries) + 1 \in DOMAIN entries' /\ entries'[Len(entries) + 1] = e
  BY ReportedHeads DEF TypeOK
<1>2. QED
  BY <1>1 DEF Reported

\* What a line is under does not depend on the reader's state.
LEMMA SameLog ==
  ASSUME UNCHANGED input, NEW f, NEW k
  PROVE  /\ Reported(entries, f, k)' <=> Reported(entries', f, k)
         /\ IsIn(currLog, f, k)' <=> IsIn(currLog', f, k)
BY DEF input, Reported, IsIn, Abs!Opens, Abs!InWindow

\* The files before this one stay as they are, if it is not left yet.
LEMMA FilesBefore ==
  ASSUME TypeOK, LeftInv, UNCHANGED <<input, file>>, lost \subseteq lost',
         UNCHANGED result \/ \E e \in Entry : ProcessLogEntry(e), PassedIsThere'
  PROVE  LeftInv'
<1>1. files' = files /\ csvlog' = csvlog /\ file' = file
  BY DEF input
<1>2. QED
  BY <1>1, ReportedStays, SameLog DEF LeftInv

\* A file is left.
LEMMA FileLeft ==
  ASSUME TypeOK, LeftInv, UNCHANGED input, file' = file + 1, pc' = "next", lost \subseteq lost',
         UNCHANGED result \/ \E e \in Entry : ProcessLogEntry(e),
         file \in lost' \/ \A k \in DOMAIN files[file] :
                             files[file][k].at = "new" => Reported(entries', file, k)
  PROVE  LeftInv'
<1>1. files' = files /\ csvlog' = csvlog
  BY DEF input
<1>2. file \in Nat /\ DOMAIN files \subseteq Nat
  BY LenProperties DEF TypeOK, ControlType, InputType
<1>3. ASSUME NEW f \in DOMAIN files, NEW k \in DOMAIN files[f],
             f < file', f \notin lost', files[f][k].at = "new"
      PROVE  Reported(entries', f, k)
  <2>1. CASE f = file
    BY <1>3, <2>1
  <2>2. CASE f < file
    BY <1>3, <2>2, ReportedStays DEF LeftInv
  <2>3. QED
    BY <1>2, <1>3, <2>1, <2>2
<1>4. QED
  BY <1>1, <1>3, SameLog DEF LeftInv, PassedIsThere

\* The open entry is reported before the next one opens, or keeps its lines.
LEMMA TakeLineLeaves ==
  ASSUME TypeOK, CarryOver, LeftInv, TakeLine
  PROVE  LeftInv'
<1> DEFINE r == <<file, pos>>
<1>1. /\ pc = "text" /\ pc' = "text" /\ file' = file /\ pos' = pos + 1 /\ UNCHANGED left
      /\ UNCHANGED input /\ files' = files /\ csvlog' = csvlog
      /\ ProcessLogLine(count = 0) /\ Here.at = "new"
  BY DEF TakeLine, input
<1>2. /\ file \in Nat \ {0} /\ pos \in Nat \ {0} /\ count \in Nat
      /\ currLog \in Entry /\ currLog.extra \in Seq(Ref) /\ ~csvlog
  BY <1>1 DEF TypeOK, ControlType, CurrentType, Entry
<1>3. UNCHANGED result \/ ProcessLogEntry(currLog)
  BY <1>1 DEF ProcessLogLine
<1>4. /\ IsIn(currLog', file, pos)
      /\ \A k \in 1 .. pos - 1 : files[file][k].at = "new" =>
           Reported(entries', file, k) \/ IsIn(currLog', file, k)
  <2>1. CASE Here.severity
    <3>1. currLog' = [head |-> r, extra |-> <<>>]
      BY <1>1, <2>1 DEF ProcessLogLine
    <3>2. CASE count = 0
      <4>1. \A k \in 1 .. pos - 1 : files[file][k].at # "new"
        BY <1>1, <3>2 DEF CarryOver, NothingTakenYet
      <4>2. QED
        BY <3>1, <4>1 DEF IsIn
    <3>3. CASE count # 0
      <4>1. ProcessLogEntry(currLog)
        BY <1>1, <2>1, <3>3 DEF ProcessLogLine
      <4>2. ASSUME NEW k \in 1 .. pos - 1, files[file][k].at = "new"
            PROVE  Reported(entries', file, k)
        <5>1. Reported(entries, file, k) \/ IsIn(currLog, file, k)
          BY <1>1, <4>2 DEF LeftInv, PassedIsThere
        <5>2. QED
          BY <1>1, <1>2, <4>1, <5>1, ReportedStays, ReportAdds
      <4>3. QED
        BY <3>1, <4>2 DEF IsIn
    <3>4. QED
      BY <3>2, <3>3
  <2>2. CASE ~Here.severity
    <3>1. /\ currLog'.head = currLog.head /\ UNCHANGED result
          /\ currLog'.extra = Append(currLog.extra, r)
      BY <1>1, <1>2, <2>2 DEF ProcessLogLine, Entry
    <3>2. r \in Ref
      BY <1>2 DEF Ref
    <3>3. /\ DOMAIN currLog.extra = 1 .. Len(currLog.extra) /\ Len(currLog.extra) \in Nat
          /\ DOMAIN currLog'.extra = 1 .. Len(currLog.extra) + 1
          /\ \A n \in DOMAIN currLog.extra : currLog'.extra[n] = currLog.extra[n]
          /\ currLog'.extra[Len(currLog.extra) + 1] = r
      BY <1>2, <3>1, <3>2, AppendProperties, LenProperties
    <3>4. ~Abs!Opens(file, pos)
      BY <1>2, <2>2 DEF Abs!Opens, Here
    <3>5. IsIn(currLog', file, pos)
      BY <3>3, <3>4 DEF IsIn
    <3>6. ASSUME NEW k, IsIn(currLog, file, k) PROVE IsIn(currLog', file, k)
      BY <3>1, <3>3, <3>6 DEF IsIn
    <3>7. QED
      BY <1>1, <3>1, <3>5, <3>6, ReportedStays DEF LeftInv, PassedIsThere
  <2>3. QED
    BY <2>1, <2>2
<1>5. \A k \in 1 .. pos : files[file][k].at = "new" =>
        Reported(entries', file, k) \/ IsIn(currLog', file, k)
  BY <1>2, <1>4
<1>6. pos' - 1 = pos
  BY <1>1, <1>2
<1>7. PassedIsThere'
  BY <1>1, <1>5, <1>6, SameLog DEF PassedIsThere
<1>8. QED
  BY <1>1, <1>2, <1>3, <1>7, FilesBefore DEF left

LEMMA LeftStep == TypeOK /\ CarryOver /\ LeftInv /\ [Next]_vars => LeftInv'
<1> SUFFICES ASSUME TypeOK, CarryOver, LeftInv, [Next]_vars PROVE LeftInv'
  OBVIOUS
<1>1. UNCHANGED input /\ csvlog' = csvlog /\ files' = files
  BY DEF Next, vars, input, OpenText, OpenFails, SkipOldLine, TakeLine, BadLine, EndBuf, OpenCSV,
         ReadRecord, StopAtRecord, EndCSV, Finish
<1>2. file \in Nat \ {0} /\ pos \in Nat \ {0} /\ count \in Nat /\ currLog \in Entry
  BY DEF TypeOK, ControlType, CurrentType
<1>3. CASE OpenFails \/ BadLine \/ StopAtRecord
  <2>1. /\ file' = file + 1 /\ pc' = "next" /\ lost' = lost \cup {file} /\ UNCHANGED result
    BY <1>3 DEF OpenFails, BadLine, StopAtRecord, GiveUp, NextFile
  <2>2. QED
    BY <1>1, <2>1, FileLeft
<1>4. CASE EndBuf
  <2>1. /\ file' = file + 1 /\ pc' = "next" /\ lost' = lost
        /\ pc = "text" /\ pos > Len(files[file])
        /\ IF count > 0 THEN ProcessLogEntry(currLog) ELSE UNCHANGED result
    BY <1>4 DEF EndBuf, NextFile, left
  <2>2. DOMAIN files[file] = 1 .. Len(files[file]) /\ Len(files[file]) \in Nat
    BY <2>1, HereType DEF TypeOK, ControlType
  <2>3. ASSUME NEW k \in DOMAIN files[file], files[file][k].at = "new"
        PROVE  Reported(entries', file, k)
    <3>1. k \in 1 .. pos - 1
      BY <1>2, <2>1, <2>2
    <3>2. count > 0
      BY <1>2, <2>1, <2>3, <3>1 DEF CarryOver, NothingTakenYet
    <3>3. Reported(entries, file, k) \/ IsIn(currLog, file, k)
      BY <2>1, <2>3, <3>1 DEF LeftInv, PassedIsThere
    <3>4. ProcessLogEntry(currLog)
      BY <2>1, <3>2
    <3>5. QED
      BY <1>1, <1>2, <3>3, <3>4, ReportedStays, ReportAdds
  <2>4. QED
    BY <1>1, <1>2, <2>1, <2>3, FileLeft
<1>5. CASE EndCSV
  <2>1. /\ file' = file + 1 /\ pc' = "next" /\ lost' = lost /\ UNCHANGED result
        /\ pc = "csv" /\ pos > Len(files[file])
    BY <1>5 DEF EndCSV, NextFile, left
  <2>2. DOMAIN files[file] = 1 .. Len(files[file]) /\ Len(files[file]) \in Nat
    BY <2>1, HereType DEF TypeOK, ControlType
  <2>3. ASSUME NEW k \in DOMAIN files[file], files[file][k].at = "new"
        PROVE  Reported(entries', file, k)
    <3>1. k \in 1 .. pos - 1
      BY <1>2, <2>1, <2>2
    <3>2. QED
      BY <1>1, <2>1, <2>3, <3>1, ReportedStays DEF LeftInv, PassedIsThere
  <2>4. QED
    BY <1>1, <2>1, <2>3, FileLeft
<1>6. CASE OpenText \/ OpenCSV
  <2>1. UNCHANGED <<file, lost, result, currLog>>
    BY <1>6 DEF OpenText, OpenCSV, left
  <2>2. PassedIsThere'
    <3>1. \A k \in 1 .. pos' - 1 : files[file][k].at # "new"
      <4>1. CASE pos' = 1
        BY <4>1
      <4>2. CASE pos' # 1
        <5>1. pos' \in {k \in 1 .. Len(files[file]) :
                          \A i \in 1 .. k - 1 : files[file][i].at # "new"}
          BY <1>6, <4>2 DEF OpenText, OpenCSV, Starts
        <5>2. QED
          BY <5>1, Zenon
      <4>3. QED
        BY <4>1, <4>2
    <3>2. QED
      BY <1>1, <2>1, <3>1 DEF PassedIsThere
  <2>3. QED
    BY <1>1, <2>1, <2>2, FilesBefore
<1>7. CASE SkipOldLine
  <2>1. /\ UNCHANGED <<file, lost, result, currLog, pc>> /\ pos' = pos + 1
        /\ files[file][pos].at = "old" /\ pc = "text"
    BY <1>7 DEF SkipOldLine, left, Here
  <2>2. \A k : /\ Reported(entries, file, k) => Reported(entries', file, k)
               /\ IsIn(currLog, file, k) => IsIn(currLog', file, k)
    BY <1>1, <2>1, ReportedStays
  <2>3. \A k \in 1 .. pos : files[file][k].at = "new" =>
          Reported(entries', file, k) \/ IsIn(currLog', file, k)
    BY <1>2, <2>1, <2>2 DEF LeftInv, PassedIsThere
  <2>4. PassedIsThere'
    <3>1. pos' - 1 = pos /\ pc' = "text"
      BY <1>2, <2>1
    <3>2. QED
      BY <1>1, <2>1, <2>3, <3>1, SameLog DEF PassedIsThere
  <2>5. QED
    BY <1>1, <2>1, <2>4, FilesBefore
<1>8. CASE ReadRecord
  <2> DEFINE e == [head  |-> <<file, pos>>,
                   extra |-> IF Here.detail THEN <<<<file, pos>>>> ELSE <<>>]
  <2>1. /\ UNCHANGED <<file, lost, pc>> /\ pos' = pos + 1 /\ pc = "csv"
        /\ IF files[file][pos].at = "new" THEN ProcessLogEntry(e) ELSE UNCHANGED result
    BY <1>8 DEF ReadRecord, left, Here
  <2>2. e \in Entry
    BY <2>1, HereType DEF TypeOK, ControlType
  <2>3. IsIn(e, file, pos)
    BY DEF IsIn
  <2> HIDE DEF e
  <2>4. \A k : Reported(entries, file, k) => Reported(entries', file, k)
    BY <1>1, <2>1, <2>2, ReportedStays
  <2>5. files[file][pos].at = "new" => Reported(entries', file, pos)
    BY <1>1, <2>1, <2>2, <2>3, ReportAdds
  <2>6. \A k \in 1 .. pos : files[file][k].at = "new" => Reported(entries', file, k)
    BY <1>2, <2>1, <2>4, <2>5 DEF LeftInv, PassedIsThere
  <2>7. PassedIsThere'
    <3>1. pos' - 1 = pos /\ pc' = "csv"
      BY <1>2, <2>1
    <3>2. QED
      BY <1>1, <2>1, <2>6, <3>1, SameLog DEF PassedIsThere
  <2>8. QED
    BY <1>1, <2>1, <2>2, <2>7, FilesBefore
<1>9. CASE Finish
  <2>1. UNCHANGED <<file, lost, result>> /\ pc' = "done"
    BY <1>9 DEF Finish, left
  <2>2. QED
    BY <1>1, <2>1, FilesBefore DEF PassedIsThere
<1>10. CASE UNCHANGED vars
  <2>1. UNCHANGED <<file, lost, result, pc, pos, currLog, entries>>
    BY <1>10 DEF vars, result
  <2>2. PassedIsThere'
    BY <1>1, <2>1 DEF LeftInv, PassedIsThere, Reported, IsIn, Abs!Opens, Abs!InWindow
  <2>3. QED
    BY <1>1, <2>1, <2>2, FilesBefore
<1>11. QED
  BY <1>3, <1>4, <1>5, <1>6, <1>7, <1>8, <1>9, <1>10, TakeLineLeaves DEF Next

\* A file that readLogs read to its end leaves nothing behind in c.currLog: all its
\* lines in the window are in the report.
THEOREM AllIsReported == Spec => []NothingLeftBehind
<1>1. Init => LeftInv
  BY LenProperties, InputsAreLogs DEF Init, LeftInv, PassedIsThere
<1>2. LeftInv => NothingLeftBehind
  BY DEF LeftInv, Reported, IsIn, NothingLeftBehind
<1>3. QED
  BY <1>1, <1>2, LeftStep, TypeCorrect, CarryCorrect, PTL DEF Spec

-----------------------------------------------------------------------------
(***************************************************************************)
(* What is reported of a log without orphaned files is what LogReport      *)
(* promises.                                                               *)
(***************************************************************************)

\* s lists S: all of it and nothing else, in order.
Lists(s, S) ==
  /\ \A n \in DOMAIN s : s[n] \in S
  /\ \A r \in S : \E n \in DOMAIN s : s[n] = r
  /\ \A i, j \in DOMAIN s : i < j => Before(s[i], s[j])

\* The continuation lines of the entry at h that come before line p.
UnderUntil(h, p) == {r \in Abs!Under(h[1], h[2]) : r[2] < p}

\* An entry of the log, with all that was written under it.
EntryIsWhole(e) ==
  /\ e.head[1] \in DOMAIN files /\ e.head[2] \in DOMAIN files[e.head[1]]
  /\ Abs!Opens(e.head[1], e.head[2])
  /\ Lists(e.extra, Abs!Under(e.head[1], e.head[2]))

\* An entry of file f, with all that was written under it before line p.
WholeUntil(e, f, p) ==
  /\ e.head[1] = f /\ e.head[2] \in 1 .. p - 1 /\ e.head[2] \in DOMAIN files[f]
  /\ Abs!Opens(f, e.head[2])
  /\ Lists(e.extra, UnderUntil(e.head, p))

\* The open entry of a text file has all that was passed of it.
OpenIsWhole == Clean /\ pc = "text" /\ count > 0 => WholeUntil(currLog, file, pos)

\* Nothing after e is reported, and all before it but what was lost.
IsNext(e) ==
  /\ \A i \in DOMAIN entries : Before(entries[i].head, e.head)
  /\ \A r \in Abs!Heads : Before(r, e.head) => Abs!IsReported(r) \/ r[1] \in lost

\* The log does not change, nor does what it promises.
LEMMA SamePromise ==
  ASSUME UNCHANGED input
  PROVE  /\ Clean' <=> Clean
         /\ \A f, k : (Abs!Opens(f, k)' <=> Abs!Opens(f, k)) /\ Abs!Under(f, k)' = Abs!Under(f, k)
         /\ WholeUntil(currLog', file', pos') => WholeUntil(currLog, file, pos)'
<1>1. files' = files /\ csvlog' = csvlog
  BY DEF input
<1>2. Clean' <=> Clean
  BY <1>1 DEF Clean, OrphanStart
<1>3. \A f, k : Abs!Opens(f, k)' <=> Abs!Opens(f, k)
  BY <1>1 DEF Abs!Opens, Abs!InWindow
<1>4. \A f, k : Abs!Under(f, k)' = Abs!Under(f, k)
  BY <1>1, <1>3 DEF Abs!Under, Abs!InWindow, Abs!LinesOf
<1>5. UnderUntil(currLog'.head, pos') = UnderUntil(currLog.head, pos)'
  BY <1>4 DEF UnderUntil
<1>6. WholeUntil(currLog', file', pos') => WholeUntil(currLog, file, pos)'
  BY <1>1, <1>3, <1>5 DEF WholeUntil, Lists, Before
<1> QED BY <1>2, <1>3, <1>4, <1>6

LEMMA UnderIsRefs ==
  ASSUME TypeOK, NEW f \in DOMAIN files, NEW k \in DOMAIN files[f]
  PROVE  Abs!Under(f, k) \subseteq Ref
<1>1. f \in Nat /\ files[f] \in Seq(Line)
  BY ElementOfSeq, LenProperties DEF TypeOK, InputType
<1>2. DOMAIN files[f] \subseteq Nat
  BY <1>1, LenProperties
<1>3. Abs!Under(f, k) \subseteq {f} \X DOMAIN files[f]
  BY DEF Abs!Under, Abs!LinesOf
<1> QED BY <1>1, <1>2, <1>3 DEF Ref

\* A list of S is the one that LogReport has.
LEMMA ListsIsListing ==
  ASSUME NEW S \in SUBSET Ref, NEW s \in Seq(Ref), Lists(s, S)
  PROVE  s \in Abs!Listing(S)
<1>1. Len(s) \in Nat /\ DOMAIN s = 1 .. Len(s)
  BY LenProperties
<1>2. s \in [1 .. Len(s) -> S]
  <2>1. s \in [1 .. Len(s) -> Ref]
    BY LenProperties
  <2> QED BY <1>1, <2>1 DEF Lists
<1>3. \A i, j \in 1 .. Len(s) : s[i] = s[j] => i = j
  <2> SUFFICES ASSUME NEW i \in 1 .. Len(s), NEW j \in 1 .. Len(s), s[i] = s[j], i < j
               PROVE  FALSE
    BY <1>1
  <2>1. Before(s[i], s[j]) /\ s[i] \in Ref
    BY <1>1, <1>2 DEF Lists
  <2> QED BY <2>1, BeforeIsAnOrder
<1>4. s \in Bijection(1 .. Len(s), S)
  BY <1>1, <1>2, <1>3 DEF Lists, Bijection, Injection, Surjection, IsInjective
<1>5. Cardinality(S) = Len(s)
  BY <1>1, <1>4, FS_CountingElements DEF ExistsBijection
<1>6. Abs!Cardinality(S) = Cardinality(S)
  BY DEF Abs!Cardinality, Cardinality
<1>7. \A i, j \in DOMAIN s : i < j => Abs!Before(s[i], s[j])
  BY DEF Lists, Before, Abs!Before
<1> QED BY <1>1, <1>2, <1>5, <1>6, <1>7 DEF Abs!Listing

\* The first line that is taken of a file opens an entry, unless it is orphaned.
LEMMA FirstLineOpens ==
  ASSUME TypeOK, CarryOver, Clean, TakeLine, count = 0
  PROVE  Here.severity
<1>1. pc = "text" /\ ~csvlog /\ file <= Len(files) /\ pos <= Len(files[file])
  BY DEF TakeLine, TypeOK, ControlType
<1>2. \A i \in 1 .. pos - 1 : files[file][i].at # "new"
  BY <1>1 DEF CarryOver, NothingTakenYet
<1>3. pos \in DOMAIN files[file] /\ files[file][pos].at = "new" /\ pos \in Nat
  BY <1>1, HereType DEF TakeLine, Here, TypeOK, ControlType
<1>4. file \in DOMAIN files
  BY <1>1, LenProperties DEF TypeOK, ControlType, InputType
<1>5. ASSUME ~Here.severity PROVE OrphanStart(file)
  <2>1. \A i \in 1 .. pos : files[file][i].at = "new" => ~files[file][i].severity
    BY <1>2, <1>3, <1>5 DEF Here
  <2> QED BY <1>1, <1>3, <2>1 DEF OrphanStart
<1> QED BY <1>4, <1>5 DEF Clean

\* Under an entry of a text file are the lines of the window up to the next entry.
LEMMA UnderText ==
  ASSUME ~csvlog, NEW f, NEW k, NEW r
  PROVE  r \in Abs!Under(f, k) <=>
           \E l \in DOMAIN files[f] : /\ r = <<f, l>> /\ l > k /\ files[f][l].at = "new"
                                      /\ \A j \in k + 1 .. l : ~Abs!Opens(f, j)
BY DEF Abs!Under, Abs!LinesOf, Abs!InWindow

\* What the place in a text file is.
LEMMA TextPlace ==
  ASSUME TypeOK, pc = "text"
  PROVE  /\ file \in DOMAIN files /\ file \in Nat \ {0} /\ file <= Len(files)
         /\ pos \in Nat \ {0} /\ count \in Nat /\ ~csvlog
         /\ DOMAIN files[file] = 1 .. Len(files[file]) /\ Len(files[file]) \in Nat
         /\ currLog \in Entry /\ currLog.extra \in Seq(Ref) /\ currLog.head \in Ref
<1>1. file <= Len(files) /\ ~csvlog /\ InputType /\ ControlType /\ currLog \in Entry
  BY DEF TypeOK, ControlType, CurrentType
<1> QED BY <1>1, HereType, LenProperties DEF InputType, ControlType, Entry

\* The line that is taken opens the next entry, or is the last of the open one.
LEMMA TakeLineWhole ==
  ASSUME TypeOK, CarryOver, ExtraInv, OpenIsWhole, Clean, TakeLine
  PROVE  OpenIsWhole'
<1> DEFINE r == <<file, pos>>
<1>1. /\ pc = "text" /\ file' = file /\ pos' = pos + 1 /\ UNCHANGED input
      /\ ProcessLogLine(count = 0) /\ Here.at = "new" /\ pos <= Len(files[file])
  BY DEF TakeLine
<1>2. /\ file \in DOMAIN files /\ file \in Nat \ {0} /\ pos \in Nat \ {0} /\ count \in Nat
      /\ pos \in DOMAIN files[file] /\ DOMAIN files[file] \subseteq Nat /\ ~csvlog
      /\ currLog \in Entry /\ currLog.extra \in Seq(Ref) /\ currLog.head \in Ref
  BY <1>1, TextPlace
<1>3. CASE Here.severity
  <2>1. currLog' = [head |-> r, extra |-> <<>>]
    BY <1>1, <1>3 DEF ProcessLogLine
  <2>2. Abs!Opens(file, pos)
    BY <1>1, <1>3 DEF Abs!Opens, Abs!InWindow, Here
  <2>3. ASSUME NEW x \in UnderUntil(r, pos + 1) PROVE FALSE
    <3>1. x \in Abs!Under(file, pos) /\ x[2] < pos + 1
      BY DEF UnderUntil
    <3>2. x[2] > pos /\ x[2] \in Nat
      BY <1>2, <3>1, UnderText
    <3> QED BY <1>2, <3>1, <3>2
  <2>4. Lists(<<>>, UnderUntil(r, pos + 1))
    BY <2>3 DEF Lists
  <2>5. pos \in 1 .. pos + 1 - 1
    BY <1>2
  <2>6. WholeUntil(currLog', file', pos')
    BY <1>1, <1>2, <2>1, <2>2, <2>4, <2>5 DEF WholeUntil
  <2> QED BY <1>1, <2>6, SamePromise DEF OpenIsWhole
<1>4. CASE ~Here.severity
  <2>1. count > 0
    BY <1>2, <1>4, FirstLineOpens
  <2> DEFINE h == currLog.head
  <2>2. /\ h[1] = file /\ h[2] \in 1 .. pos - 1 /\ h[2] \in DOMAIN files[file]
        /\ Abs!Opens(file, h[2])
        /\ Lists(currLog.extra, UnderUntil(h, pos))
    BY <1>1, <2>1 DEF OpenIsWhole, WholeUntil
  <2>3. currLog'.head = h /\ currLog'.extra = Append(currLog.extra, r) /\ r \in Ref
    BY <1>1, <1>2, <1>4 DEF ProcessLogLine, Entry, Ref
  <2>4. r \in Abs!Under(file, h[2])
    <3>1. \A k \in h[2] + 1 .. pos - 1 : ~Abs!Opens(file, k)
      BY <1>1, <2>2 DEF ExtraInv, NoneOpenedSince
    <3>2. ~Abs!Opens(file, pos)
      BY <1>2, <1>4 DEF Abs!Opens, Here
    <3>3. \A k \in h[2] + 1 .. pos : ~Abs!Opens(file, k)
      BY <1>2, <2>2, <3>1, <3>2
    <3> QED BY <1>1, <1>2, <2>2, <3>3, UnderText DEF Here
  <2>5. UnderUntil(h, pos + 1) = UnderUntil(h, pos) \cup {r}
    <3>1. ASSUME NEW x \in Abs!Under(file, h[2])
          PROVE  x[2] \in Nat /\ (x[2] = pos => x = r)
      BY <1>2, UnderText
    <3>2. \A x \in UnderUntil(h, pos + 1) : x \in UnderUntil(h, pos) \cup {r}
      BY <1>2, <2>2, <3>1 DEF UnderUntil
    <3>3. \A x \in UnderUntil(h, pos) : x \in UnderUntil(h, pos + 1)
      BY <1>2, <2>2, <3>1 DEF UnderUntil
    <3>4. r \in UnderUntil(h, pos + 1)
      BY <1>2, <2>2, <2>4 DEF UnderUntil
    <3> QED BY <3>2, <3>3, <3>4
  <2>6. Lists(currLog'.extra, UnderUntil(h, pos + 1))
    <3>1. /\ DOMAIN currLog.extra = 1 .. Len(currLog.extra) /\ Len(currLog.extra) \in Nat
          /\ DOMAIN currLog'.extra = 1 .. Len(currLog.extra) + 1
          /\ \A n \in DOMAIN currLog.extra : currLog'.extra[n] = currLog.extra[n]
          /\ currLog'.extra[Len(currLog.extra) + 1] = r
      BY <1>2, <2>3, AppendProperties, LenProperties
    <3>2. ASSUME NEW n \in DOMAIN currLog.extra PROVE Before(currLog.extra[n], r)
      <4>1. currLog.extra[n] \in Abs!Under(file, h[2]) /\ currLog.extra[n][2] < pos
        BY <2>2 DEF Lists, UnderUntil
      <4>2. currLog.extra[n][1] = file
        BY <1>2, <4>1, UnderText
      <4> QED BY <4>1, <4>2 DEF Before
    <3>3. \A n \in DOMAIN currLog'.extra : currLog'.extra[n] \in UnderUntil(h, pos + 1)
      <4>1. \A n \in DOMAIN currLog.extra : currLog.extra[n] \in UnderUntil(h, pos + 1)
        BY <2>2, <2>5 DEF Lists
      <4>2. r \in UnderUntil(h, pos + 1)
        BY <2>5
      <4> HIDE DEF r, h
      <4> QED BY <3>1, <4>1, <4>2
    <3>4. \A x \in UnderUntil(h, pos + 1) : \E n \in DOMAIN currLog'.extra : currLog'.extra[n] = x
      <4>1. \A n \in DOMAIN currLog.extra : n \in DOMAIN currLog'.extra
        BY <3>1
      <4>2. Len(currLog.extra) + 1 \in DOMAIN currLog'.extra
        BY <3>1
      <4> QED BY <2>2, <2>5, <3>1, <4>1, <4>2 DEF Lists
    <3>5. \A i, j \in DOMAIN currLog'.extra : i < j => Before(currLog'.extra[i], currLog'.extra[j])
      <4> SUFFICES ASSUME NEW i \in DOMAIN currLog'.extra, NEW j \in DOMAIN currLog'.extra, i < j
                   PROVE  Before(currLog'.extra[i], currLog'.extra[j])
        BY DEF Before
      <4>1. i \in DOMAIN currLog.extra
        BY <3>1
      <4>2. CASE j \in DOMAIN currLog.extra
        BY <2>2, <3>1, <4>1, <4>2 DEF Lists
      <4>3. CASE j = Len(currLog.extra) + 1
        BY <3>1, <3>2, <4>1, <4>3
      <4> QED BY <3>1, <4>2, <4>3
    <3> QED BY <3>3, <3>4, <3>5 DEF Lists, Before
  <2>7. h[2] \in 1 .. pos + 1 - 1
    BY <1>2, <2>2
  <2>8. WholeUntil(currLog', file', pos')
    <3>1. currLog'.head = h /\ file' = file /\ pos' = pos + 1
      BY <1>1, <2>3
    <3>2. 1 .. pos' - 1 = 1 .. pos + 1 - 1
      BY <1>2, <3>1
    <3> HIDE DEF h
    <3>5. currLog'.head[1] = file' /\ currLog'.head[2] \in 1 .. pos' - 1
      BY <2>2, <2>7, <3>1, <3>2, Zenon
    <3>3. Abs!Opens(file', currLog'.head[2]) /\ currLog'.head[2] \in DOMAIN files[file']
      BY <2>2, <3>1
    <3>4. Lists(currLog'.extra, UnderUntil(currLog'.head, pos'))
      BY <2>6, <3>1
    <3> QED BY <3>3, <3>4, <3>5 DEF WholeUntil
  <2> QED BY <1>1, <2>8, SamePromise DEF OpenIsWhole
<1> QED BY <1>3, <1>4

LEMMA WholeStep ==
  ASSUME TypeOK, CarryOver, ExtraInv, OpenIsWhole, [Next]_vars
  PROVE  OpenIsWhole'
<1>1. UNCHANGED input
  BY DEF Next, vars, input, OpenText, OpenFails, SkipOldLine, TakeLine, BadLine, EndBuf, OpenCSV,
         ReadRecord, StopAtRecord, EndCSV, Finish
<1>2. CASE ~Clean
  BY <1>1, <1>2, SamePromise DEF OpenIsWhole
<1>3. CASE Clean /\ TakeLine
  BY <1>3, TakeLineWhole
<1>4. CASE SkipOldLine
  <2>1. /\ pc = "text" /\ UNCHANGED <<file, count, currLog, pc>> /\ pos' = pos + 1
        /\ files[file][pos].at = "old"
    BY <1>4 DEF SkipOldLine, Here
  <2>2. file \in Nat /\ pos \in Nat /\ DOMAIN files[file] \subseteq Nat /\ ~csvlog
    BY <2>1, TextPlace
  <2>3. ASSUME currLog.head[1] = file
        PROVE  UnderUntil(currLog.head, pos + 1) = UnderUntil(currLog.head, pos)
    <3>1. ASSUME NEW x \in Abs!Under(file, currLog.head[2]) PROVE x[2] \in Nat /\ x[2] # pos
      BY <2>1, <2>2, UnderText
    <3> QED BY <2>2, <2>3, <3>1 DEF UnderUntil
  <2>4. WholeUntil(currLog, file, pos) => WholeUntil(currLog', file', pos')
    BY <2>1, <2>2, <2>3 DEF WholeUntil
  <2> QED BY <1>1, <2>1, <2>4, SamePromise DEF OpenIsWhole
<1>5. CASE UNCHANGED vars
  <2>1. UNCHANGED <<pc, count>> /\ (WholeUntil(currLog, file, pos) => WholeUntil(currLog', file', pos'))
    BY <1>5 DEF vars
  <2> QED BY <1>1, <2>1, SamePromise DEF OpenIsWhole
<1>6. CASE pc' # "text" \/ count' = 0
  BY <1>6 DEF OpenIsWhole
<1> QED
  BY <1>2, <1>3, <1>4, <1>5, <1>6
     DEF Next, OpenText, OpenFails, BadLine, EndBuf, OpenCSV, ReadRecord, StopAtRecord, EndCSV,
         Finish, GiveUp, NextFile

\* At the line that opens the next entry, or at the end, nothing more can be under
\* the open one.
LEMMA FlushedIsWhole ==
  ASSUME TypeOK, OpenIsWhole, Clean, pc = "text", count > 0,
         pos > Len(files[file]) \/ Abs!Opens(file, pos)
  PROVE  EntryIsWhole(currLog)
<1> DEFINE h == currLog.head
<1>1. /\ file \in DOMAIN files /\ pos \in Nat \ {0} /\ ~csvlog
      /\ DOMAIN files[file] = 1 .. Len(files[file]) /\ Len(files[file]) \in Nat
  BY TextPlace
<1>2. /\ h[1] = file /\ h[2] \in 1 .. pos - 1 /\ Abs!Opens(file, h[2])
      /\ h[2] \in DOMAIN files[file] /\ Lists(currLog.extra, UnderUntil(h, pos))
  BY DEF OpenIsWhole, WholeUntil
<1>3. ASSUME NEW r \in Abs!Under(file, h[2]) PROVE r[2] < pos
  <2>1. PICK l \in DOMAIN files[file] :
          /\ r = <<file, l>> /\ l > h[2]
          /\ \A j \in h[2] + 1 .. l : ~Abs!Opens(file, j)
    BY <1>1, <1>3, UnderText
  <2>2. CASE pos > Len(files[file])
    BY <1>1, <2>1, <2>2
  <2>3. CASE Abs!Opens(file, pos)
    <3>1. pos \notin h[2] + 1 .. l
      BY <2>1, <2>3
    <3> QED BY <1>1, <1>2, <2>1, <3>1
  <2> QED BY <2>2, <2>3
<1>4. UnderUntil(h, pos) = Abs!Under(h[1], h[2])
  BY <1>2, <1>3 DEF UnderUntil
<1> QED BY <1>1, <1>2, <1>4 DEF EntryIsWhole

\* All that was written before the open entry is in the report, or was lost.
LEMMA FlushedIsNext ==
  ASSUME TypeOK, CarryOver, LeftInv, OpenIsWhole, Clean, pc = "text", count > 0
  PROVE  IsNext(currLog)
<1> DEFINE h == currLog.head
<1>1. /\ file \in DOMAIN files /\ pos \in Nat \ {0} /\ ~csvlog /\ h \in Ref
      /\ DOMAIN files[file] = 1 .. Len(files[file]) /\ Len(files[file]) \in Nat
  BY TextPlace
<1>2. h[1] = file /\ h[2] \in 1 .. pos - 1
  BY DEF OpenIsWhole, WholeUntil
<1>3. ASSUME NEW i \in DOMAIN entries PROVE Before(entries[i].head, h)
  <2>1. entries[i].head \in Ref /\ entries[i].head # h /\ ~Before(h, entries[i].head)
    BY <1>2, EntryRefs DEF CarryOver, OpenEntryIsOwn, OpenEntryIsLatest
  <2> QED BY <1>1, <2>1, BeforeIsAnOrder
<1>4. ASSUME NEW r \in Abs!Heads, Before(r, h) PROVE Abs!IsReported(r) \/ r[1] \in lost
  <2> PICK f \in DOMAIN files : r \in {f} \X DOMAIN files[f] /\ Abs!Opens(r[1], r[2])
    BY DEF Abs!Heads, Abs!LinesOf
  <2>1. PICK k \in DOMAIN files[f] : r = <<f, k>> /\ Abs!Opens(f, k)
    OBVIOUS
  <2>2. files[f][k].at = "new"
    BY <2>1 DEF Abs!Opens, Abs!InWindow
  <2>3. CASE f < file /\ f \notin lost
    <3>1. Reported(entries, f, k)
      BY <2>2, <2>3 DEF LeftInv
    <3> QED BY <2>1, <3>1 DEF Reported, IsIn, Abs!IsReported
  <2>4. CASE f = file
    <3>1. k \in 1 .. pos - 1 /\ k # h[2]
      BY <1>1, <1>2, <1>4, <2>1, <2>4 DEF Before
    <3>2. Reported(entries, f, k) \/ IsIn(currLog, f, k)
      BY <2>2, <2>4, <3>1 DEF LeftInv, PassedIsThere
    <3>3. ~IsIn(currLog, f, k)
      BY <1>2, <2>1, <3>1 DEF IsIn
    <3> QED BY <2>1, <3>2, <3>3 DEF Reported, IsIn, Abs!IsReported
  <2> QED BY <1>2, <1>4, <2>1, <2>3, <2>4 DEF Before
<1> QED BY <1>3, <1>4 DEF IsNext

\* A csv record is an entry of its own, and the next one.
LEMMA RecordIsNext ==
  ASSUME TypeOK, CarryOver, ExtraInv, LeftInv, Clean, pc = "csv", pos <= Len(files[file]), Here.at = "new",
         NEW e, e = [head  |-> <<file, pos>>,
                     extra |-> IF Here.detail THEN <<<<file, pos>>>> ELSE <<>>]
  PROVE  EntryIsWhole(e) /\ IsNext(e)
<1>1. /\ file \in DOMAIN files /\ file \in Nat \ {0} /\ pos \in Nat \ {0} /\ csvlog
      /\ DOMAIN files[file] = 1 .. Len(files[file]) /\ Len(files[file]) \in Nat
      /\ currLog.head \in Ref /\ <<file, pos>> \in Ref
  BY HereType, EntryRefs, LenProperties DEF TypeOK, ControlType, InputType, ExtraInv
<1>2. EntryIsWhole(e)
  <2>1. Abs!Opens(file, pos)
    BY <1>1 DEF Abs!Opens, Abs!InWindow, Here
  <2>2. Abs!Under(file, pos) = IF Here.detail THEN {<<file, pos>>} ELSE {}
    BY <1>1 DEF Abs!Under, Here
  <2>3. Lists(e.extra, Abs!Under(file, pos))
    BY <2>2 DEF Lists
  <2> QED BY <1>1, <2>1, <2>3 DEF EntryIsWhole
<1>3. ASSUME NEW i \in DOMAIN entries PROVE Before(entries[i].head, e.head)
  <2>1. entries[i].head \in Ref /\ ~Before(currLog.head, entries[i].head)
    BY EntryRefs DEF CarryOver, OpenEntryIsLatest
  <2>2. Before(currLog.head, <<file, pos>>)
    BY DEF CarryOver, OpenEntryIsLatest, Reading
  <2> QED BY <1>1, <2>1, <2>2, BeforeIsAnOrder
<1>4. ASSUME NEW r \in Abs!Heads, Before(r, e.head) PROVE Abs!IsReported(r) \/ r[1] \in lost
  <2> PICK f \in DOMAIN files : r \in {f} \X DOMAIN files[f] /\ Abs!Opens(r[1], r[2])
    BY DEF Abs!Heads, Abs!LinesOf
  <2>1. PICK k \in DOMAIN files[f] : r = <<f, k>> /\ Abs!Opens(f, k)
    OBVIOUS
  <2>2. files[f][k].at = "new"
    BY <2>1 DEF Abs!Opens, Abs!InWindow
  <2>3. f < file \/ (f = file /\ k \in 1 .. pos - 1)
    BY <1>1, <1>4, <2>1 DEF Before
  <2>4. f \in lost \/ Reported(entries, f, k)
    BY <2>2, <2>3 DEF LeftInv, PassedIsThere
  <2>5. Reported(entries, f, k) => \E i \in DOMAIN entries : entries[i].head = r
    BY <2>1 DEF Reported, IsIn
  <2>6. f = r[1]
    BY <2>1
  <2> QED BY <2>4, <2>5, <2>6 DEF Abs!IsReported
<1> QED BY <1>2, <1>3, <1>4 DEF IsNext

\* What a step does to the report: nothing, or it adds the next entry as a whole.
LEMMA Reports ==
  ASSUME TypeOK, CarryOver, ExtraInv, LeftInv, OpenIsWhole, [Next]_vars
  PROVE  /\ UNCHANGED input
         /\ \/ /\ UNCHANGED result
               /\ UNCHANGED lost \/ \E f \in DOMAIN files : lost' = lost \cup {f}
            \/ /\ UNCHANGED lost
               /\ \E e \in Entry : /\ ProcessLogEntry(e)
                                   /\ Clean => EntryIsWhole(e) /\ IsNext(e)
<1>1. UNCHANGED input
  BY DEF Next, vars, input, OpenText, OpenFails, SkipOldLine, TakeLine, BadLine, EndBuf, OpenCSV,
         ReadRecord, StopAtRecord, EndCSV, Finish
<1>2. CASE OpenFails \/ BadLine \/ StopAtRecord
  <2>1. file <= Len(files) /\ file \in Nat \ {0} /\ files \in Seq(Seq(Line))
    BY <1>2 DEF OpenFails, BadLine, StopAtRecord, TypeOK, ControlType, InputType
  <2>2. file \in DOMAIN files
    BY <2>1, LenProperties
  <2> QED BY <1>1, <1>2, <2>2 DEF OpenFails, BadLine, StopAtRecord, GiveUp, result
<1>3. CASE OpenText \/ SkipOldLine \/ OpenCSV \/ EndCSV \/ Finish \/ UNCHANGED vars
  BY <1>1, <1>3 DEF OpenText, SkipOldLine, OpenCSV, EndCSV, Finish, vars, left, result
<1>4. CASE TakeLine
  <2>1. /\ pc = "text" /\ ProcessLogLine(count = 0) /\ UNCHANGED lost /\ Here.at = "new"
    BY <1>4 DEF TakeLine, left
  <2>2. currLog \in Entry /\ ~csvlog /\ count \in Nat
    BY <2>1, TextPlace
  <2>3. CASE Here.severity /\ count # 0
    <3>1. ProcessLogEntry(currLog) /\ count > 0
      BY <2>1, <2>2, <2>3 DEF ProcessLogLine
    <3>2. Abs!Opens(file, pos)
      BY <2>1, <2>3 DEF Abs!Opens, Abs!InWindow, Here
    <3> QED BY <1>1, <2>1, <2>2, <3>1, <3>2, FlushedIsWhole, FlushedIsNext
  <2>4. CASE ~(Here.severity /\ count # 0)
    BY <1>1, <2>1, <2>4 DEF ProcessLogLine
  <2> QED BY <2>3, <2>4
<1>5. CASE EndBuf
  <2>1. /\ pc = "text" /\ pos > Len(files[file]) /\ UNCHANGED lost
        /\ IF count > 0 THEN ProcessLogEntry(currLog) ELSE UNCHANGED result
    BY <1>5 DEF EndBuf, left
  <2>2. currLog \in Entry
    BY <2>1, TextPlace
  <2> QED BY <1>1, <2>1, <2>2, FlushedIsWhole, FlushedIsNext
<1>6. CASE ReadRecord
  <2> DEFINE e == [head  |-> <<file, pos>>,
                   extra |-> IF Here.detail THEN <<<<file, pos>>>> ELSE <<>>]
  <2>1. /\ pc = "csv" /\ pos <= Len(files[file]) /\ UNCHANGED lost
        /\ IF Here.at = "new" THEN ProcessLogEntry(e) ELSE UNCHANGED result
    BY <1>6 DEF ReadRecord, left
  <2>2. e \in Entry
    BY <2>1, HereType DEF TypeOK, ControlType
  <2>3. Clean /\ Here.at = "new" => EntryIsWhole(e) /\ IsNext(e)
    BY <2>1, RecordIsNext
  <2> HIDE DEF e
  <2> QED BY <1>1, <2>1, <2>2, <2>3
<1> QED BY <1>2, <1>3, <1>4, <1>5, <1>6 DEF Next

\* The step that adds the next entry is the step that LogReport takes.
LEMMA IsAReport ==
  ASSUME TypeOK, Clean, UNCHANGED <<input, lost>>, NEW e \in Entry, ProcessLogEntry(e),
         EntryIsWhole(e), IsNext(e)
  PROVE  Abs!Report
<1> DEFINE h == e.head
           S == Abs!Under(h[1], h[2])
<1>1. Clean' /\ h[1] \in DOMAIN files /\ h[2] \in DOMAIN files[h[1]] /\ h \in Ref
  BY SamePromise DEF EntryIsWhole, input, Entry
<1>2. h \in Abs!Heads
  <2>1. h \in {h[1]} \X DOMAIN files[h[1]] /\ Abs!Opens(h[1], h[2])
    BY <1>1 DEF EntryIsWhole, Ref
  <2> QED BY <1>1, <2>1 DEF Abs!Heads, Abs!LinesOf
<1>3. e.extra \in Abs!Listing(S)
  <2>1. S \in SUBSET Ref /\ e.extra \in Seq(Ref) /\ Lists(e.extra, S)
    BY <1>1, UnderIsRefs DEF EntryIsWhole, Entry
  <2> QED BY <2>1, ListsIsListing
<1>4. (IF Clean THEN entries ELSE <<>>) = entries /\ (IF Clean' THEN entries' ELSE <<>>) = entries'
  BY <1>1
<1>5. entries' = Append(entries, [head |-> h, extra |-> e.extra])
  BY DEF ProcessLogEntry, Entry
<1>6. \A i \in DOMAIN entries : Abs!Before(entries[i].head, h)
  BY DEF IsNext, Before, Abs!Before
<1>7. \A r \in Abs!Heads : Abs!Before(r, h) => Abs!IsReported(r) \/ r[1] \in lost
  BY DEF IsNext, Before, Abs!Before
<1> HIDE DEF h, S
<1>8. /\ \A i \in DOMAIN (IF Clean THEN entries ELSE <<>>) :
           Abs!Before((IF Clean THEN entries ELSE <<>>)[i].head, h)
      /\ \E lines \in Abs!Listing(Abs!Under(h[1], h[2])) :
           (IF Clean' THEN entries' ELSE <<>>)
             = Append((IF Clean THEN entries ELSE <<>>), [head |-> h, extra |-> lines])
  BY <1>3, <1>4, <1>5, <1>6 DEF S
<1> QED BY <1>2, <1>7, <1>8 DEF Abs!Report

\* What every state of the reader satisfies of the log and the report.
Sound == TypeOK /\ CarryOver /\ ExtraInv /\ LeftInv /\ OpenIsWhole

LEMMA SoundCorrect == Spec => []Sound
<1>1. Init => Sound
  <2> SUFFICES ASSUME Init PROVE Sound
    OBVIOUS
  <2>1. ExtraInv
    BY DEF Init, ExtraInv, ReportBelongs, EntryBelongs, NoneOpenedSince, ZeroEntry
  <2>2. LeftInv
    BY LenProperties, InputsAreLogs DEF Init, LeftInv, PassedIsThere
  <2> QED BY <2>1, <2>2, TypeInit, CarryInit DEF Sound, Init, OpenIsWhole
<1>2. Sound /\ [Next]_vars => Sound'
  BY TypeStep, CarryStep, ExtraStep, LeftStep, WholeStep DEF Sound
<1> QED BY <1>1, <1>2, PTL DEF Spec

\* A step of the reader is a step of LogReport, or one that LogReport does not see.
LEMMA StepIsPromised == Sound /\ [Next]_vars => [Abs!AbsNext]_(Abs!absVars)
<1> SUFFICES ASSUME Sound, [Next]_vars PROVE [Abs!AbsNext]_(Abs!absVars)
  OBVIOUS
<1>1. UNCHANGED <<files, csvlog>> /\ (Clean' <=> Clean)
  BY Reports, SamePromise DEF Sound, input
<1>2. CASE UNCHANGED (IF Clean THEN entries ELSE <<>>)
  <2>1. UNCHANGED lost \/ \E f \in DOMAIN files : lost' = lost \cup {f}
    BY Reports DEF Sound
  <2> QED BY <1>1, <1>2, <2>1 DEF Abs!AbsNext, Abs!Lose, Abs!absVars
<1>3. CASE ~UNCHANGED (IF Clean THEN entries ELSE <<>>)
  <2>1. Clean /\ ~UNCHANGED result
    BY <1>1, <1>3 DEF result
  <2>2. Abs!Report
    BY <2>1, Reports, IsAReport DEF Sound, input
  <2> QED BY <1>1, <2>2 DEF Abs!AbsNext
<1> QED BY <1>2, <1>3

\* Every behaviour of the reader is one that LogReport allows.
THEOREM ImplementsLogReport == Spec => KeepsThePromise
<1>1. Init => Abs!AbsInit
  BY DEF Init, Abs!AbsInit
<1>2. QED
  BY <1>1, StepIsPromised, SoundCorrect, PTL DEF Spec, KeepsThePromise, Abs!AbsSpec
-----------------------------------------------------------------------------
(***************************************************************************)
(* The DETAIL of a deadlock.                                               *)
(***************************************************************************)
DetailsOf(h) == {r \in Abs!Under(h[1], h[2]) : LineAt(r).detail}

\* DeadlockDetail, of one deadlock.
RightDetail(d) ==
  IF DetailsOf(d.head) = {} THEN d.detail = NoRef
  ELSE d.detail \in DetailsOf(d.head) /\ \A r \in DetailsOf(d.head) : ~Before(r, d.detail)

\* Numbers in a set that is not empty have a least one.
LEMMA LeastNumber ==
  ASSUME NEW T \in SUBSET Nat, T # {}
  PROVE  \E m \in T : \A n \in T : m <= n
<1>1. OpToRel(<, Nat) = {p \in Nat \X Nat : p[1] < p[2]}
  BY DEF OpToRel
<1>2. PICK m \in T : \A n \in T : <<n, m>> \notin OpToRel(<, Nat)
  BY NatLessThanWellFounded, WFMin
<1>3. \A n \in T : ~(n < m)
  BY <1>1, <1>2
<1> QED BY <1>3

\* getExtra finds the first DETAIL of an entry that has all of its lines.
LEMMA DetailOfEntry ==
  ASSUME TypeOK, NEW e \in Entry, EntryIsWhole(e)
  PROVE  RightDetail([head |-> e.head, detail |-> GetExtra(e)])
<1> DEFINE h == e.head
           D == {i \in DOMAIN e.extra : DetailAt(e, i)}
           first == {i \in DOMAIN e.extra : /\ DetailAt(e, i)
                                            /\ \A j \in 1 .. i - 1 : ~DetailAt(e, j)}
<1>1. e.extra \in Seq(Ref) /\ DOMAIN e.extra = 1 .. Len(e.extra) /\ Len(e.extra) \in Nat
  BY LenProperties DEF Entry
<1>2. Lists(e.extra, Abs!Under(h[1], h[2]))
  BY DEF EntryIsWhole
<1>3. \A n \in D : e.extra[n] \in DetailsOf(h)
  BY <1>2 DEF Lists, DetailsOf, DetailAt
<1>4. \A r \in DetailsOf(h) : \E n \in D : e.extra[n] = r
  BY <1>2 DEF Lists, DetailsOf, DetailAt
<1>5. CASE D = {}
  <2>1. first = {} /\ DetailsOf(h) = {}
    BY <1>4, <1>5
  <2>2. GetExtra(e) = NoRef
    BY <2>1 DEF GetExtra
  <2> QED BY <2>1, <2>2 DEF RightDetail
<1>6. CASE D # {}
  <2>1. PICK m \in D : \A n \in D : m <= n
    <3>1. D \in SUBSET Nat
      BY <1>1
    <3> HIDE DEF D
    <3> QED BY <1>6, <3>1, LeastNumber
  <2>2. m \in first
    <3>1. ASSUME NEW j \in 1 .. m - 1 PROVE ~DetailAt(e, j)
      <4>1. j \in DOMAIN e.extra /\ ~(m <= j)
        BY <1>1
      <4> QED BY <2>1, <4>1
    <3> QED BY <3>1
  <2> DEFINE c == CHOOSE i \in first : TRUE
  <2>3. c \in first /\ c \in D
    BY <2>2
  <2>4. GetExtra(e) = e.extra[c]
    BY <2>2 DEF GetExtra
  <2> HIDE DEF c
  <2>5. ASSUME NEW r \in DetailsOf(h) PROVE ~Before(r, e.extra[c])
    <3>1. PICK n \in D : e.extra[n] = r
      BY <1>4
    <3>2. n \in Nat /\ c \in Nat /\ n \notin 1 .. c - 1
      BY <1>1, <2>3
    <3>3. CASE n = c
      BY <3>1, <3>3, <1>1, <2>3, ElementOfSeq, BeforeIsAnOrder
    <3>4. CASE c < n
      <4>1. Before(e.extra[c], e.extra[n]) /\ e.extra[c] \in Ref /\ e.extra[n] \in Ref
        BY <1>1, <1>2, <2>3, <3>4, ElementOfSeq DEF Lists
      <4> QED BY <3>1, <4>1, BeforeIsAnOrder
    <3> QED BY <1>1, <3>2, <3>3, <3>4
  <2>6. e.extra[c] \in DetailsOf(h)
    BY <1>3, <2>3
  <2> HIDE DEF h
  <2>7. DetailsOf(h) # {}
    BY <2>6
  <2> QED BY <2>4, <2>5, <2>6, <2>7 DEF RightDetail, h
<1> QED BY <1>5, <1>6

DetailInv == Clean => \A i \in DOMAIN found["deadlock"] : RightDetail(found["deadlock"][i])

LEMMA DetailStep == Sound /\ DetailInv /\ [Next]_vars => DetailInv'
<1> SUFFICES ASSUME Sound, DetailInv, [Next]_vars, Clean'
             PROVE  (\A i \in DOMAIN found["deadlock"] : RightDetail(found["deadlock"][i]))'
  BY DEF DetailInv
<1>1. UNCHANGED files /\ Clean /\ \A f, k : Abs!Under(f, k)' = Abs!Under(f, k)
  BY Reports, SamePromise DEF Sound, input
<1>2. \A i \in DOMAIN found["deadlock"] : RightDetail(found["deadlock"][i])
  BY <1>1 DEF DetailInv
<1> SUFFICES \A i \in DOMAIN found'["deadlock"] : RightDetail(found'["deadlock"][i])
  BY <1>1 DEF RightDetail, DetailsOf, LineAt, Before
<1>3. CASE UNCHANGED result
  BY <1>2, <1>3 DEF result
<1>4. ASSUME NEW e \in Entry, ProcessLogEntry(e), EntryIsWhole(e)
      PROVE  \A i \in DOMAIN found'["deadlock"] : RightDetail(found'["deadlock"][i])
  <2> DEFINE d == [head |-> e.head, detail |-> GetExtra(e)]
  <2>1. RightDetail(d)
    BY <1>4, DetailOfEntry DEF Sound
  <2> HIDE DEF d
  <2>2. found'["deadlock"] = found["deadlock"] \/ found'["deadlock"] = Append(found["deadlock"], d)
    BY <1>4 DEF ProcessLogEntry, Kinds, d
  <2>3. CASE found'["deadlock"] = Append(found["deadlock"], d)
    <3>1. found["deadlock"] \in Seq([head : Ref, detail : Ref]) /\ d \in [head : Ref, detail : Ref]
      BY GetExtraType DEF Sound, TypeOK, ResultType, Kinds, Entry, d
    <3> DEFINE s == found["deadlock"]
    <3> HIDE DEF s
    <3>2. s \in Seq([head : Ref, detail : Ref]) /\ found'["deadlock"] = Append(s, d)
      BY <2>3, <3>1 DEF s
    <3>3. \A i \in DOMAIN found'["deadlock"] :
             \/ i \in DOMAIN s /\ found'["deadlock"][i] = s[i]
             \/ found'["deadlock"][i] = d
      BY <3>1, <3>2, AppendProperties, LenProperties
    <3>4. \A i \in DOMAIN s : RightDetail(s[i])
      BY <1>2 DEF s
    <3> QED BY <2>1, <3>3, <3>4
  <2> QED BY <1>2, <2>2, <2>3
<1> QED BY <1>1, <1>3, <1>4, Reports DEF Sound

\* A reported deadlock shows the first DETAIL written under it.
THEOREM DetailsAreFirst == Spec => []DeadlockDetail
<1>1. Init => DetailInv
  BY DEF Init, DetailInv, Kinds
<1>2. DetailInv => DeadlockDetail
  BY DEF DetailInv, RightDetail, DetailsOf, DeadlockDetail
<1>3. QED
  BY <1>1, <1>2, DetailStep, SoundCorrect, PTL DEF Spec

-----------------------------------------------------------------------------
(***************************************************************************)
(* The reader comes to an end: a variant, and why there is no infinite     *)
(* descent of variants.                                                    *)
(***************************************************************************)
Agree(k, a, b) == \A j \in 1 .. k : a[j] = b[j]
Lower(k, a, b) == \E i \in 1 .. k : a[i] < b[i] /\ Agree(i - 1, a, b)

\* Every set of variants, of whatever length, has one that no other is below:
\* Below, the order of all the variants here, is well-founded.
THEOREM LeastVariant ==
  ASSUME NEW n \in Nat, NEW S \in SUBSET [1 .. n -> Nat], S # {}
  PROVE  \E m \in S : \A s \in S : ~Below(s, m)
<1> DEFINE Cannot == {k \in 0 .. n : \A m \in S : \E s \in S : Lower(k, s, m)}
<1>1. 0 \notin Cannot
  BY DEF Lower
<1>2. Cannot = {}
  <2> SUFFICES ASSUME Cannot # {} PROVE FALSE
    OBVIOUS
  <2>1. PICK k \in Cannot : \A i \in Cannot : k <= i
    <3>1. Cannot \subseteq Nat
      OBVIOUS
    <3> HIDE DEF Cannot
    <3> QED BY <3>1, LeastNumber
  <2>2. k \in 1 .. n
    BY <1>1
  <2>3. k - 1 \notin Cannot /\ k - 1 \in 0 .. n
    BY <2>1, <2>2
  <2>4. PICK m \in S : \A s \in S : ~Lower(k - 1, s, m)
    BY <2>3
  <2> DEFINE Same   == {s \in S : Agree(k - 1, s, m)}
             Values == {s[k] : s \in Same}
  <2>5. PICK v \in Values : \A w \in Values : ~(w < v)
    <3>1. m \in Same
      BY DEF Agree
    <3>2. m[k] \in Values
      BY <3>1
    <3>3. \A s \in S : s[k] \in Nat
      BY <2>2
    <3>4. Values \subseteq Nat
      BY <3>3
    <3> HIDE DEF Values
    <3>5. PICK v \in Values : \A w \in Values : v <= w
      BY <3>2, <3>4, LeastNumber
    <3>6. ASSUME NEW w \in Values PROVE ~(w < v)
      BY <3>4, <3>5
    <3> QED BY <3>6
  <2>6. PICK t \in Same : t[k] = v
    BY <2>5
  <2>7. PICK s \in S : Lower(k, s, t)
    BY <2>1, <2>6
  <2>8. PICK i \in 1 .. k : s[i] < t[i] /\ Agree(i - 1, s, t)
    BY <2>7 DEF Lower
  <2>9. CASE i = k
    <3>1. Agree(k - 1, s, m)
      BY <2>6, <2>8, <2>9 DEF Agree
    <3>2. s[k] \in Values
      BY <3>1
    <3>3. s[k] < v
      BY <2>6, <2>8, <2>9
    <3> QED BY <2>5, <3>2, <3>3
  <2>10. CASE i # k
    <3>1. i \in 1 .. k - 1
      BY <2>2, <2>8, <2>10
    <3>2. s[i] < m[i] /\ Agree(i - 1, s, m)
      BY <2>2, <2>6, <2>8, <3>1 DEF Agree
    <3>3. Lower(k - 1, s, m)
      BY <3>1, <3>2 DEF Lower
    <3> QED BY <2>4, <3>3
  <2> QED BY <2>9, <2>10
<1>3. PICK m \in S : \A s \in S : ~Lower(n, s, m)
  <2>1. n \notin Cannot
    <3> HIDE DEF Cannot
    <3> QED BY <1>2
  <2>2. n \in 0 .. n
    OBVIOUS
  <2> QED BY <2>1, <2>2
<1>4. \A s \in S : Below(s, m) => Lower(n, s, m)
  BY DEF Below, Lower, Agree
<1> QED BY <1>3, <1>4

\* The files still to be left, and what is still to be read of this one.
FilesLeft == IF file <= Len(files) THEN Len(files) + 1 - file ELSE 0
TurnsLeft == CASE pc = "done" -> 0
               [] pc = "next" -> IF file <= Len(files) THEN Len(files[file]) + 3 ELSE 1
               [] Reading     -> Len(files[file]) + 2 - pos

Variant == <<FilesLeft, TurnsLeft>>

InsideInv == Reading => pos <= Len(files[file]) + 1

LEMMA InsideStep == TypeOK /\ InsideInv /\ [Next]_vars => InsideInv'
<1> SUFFICES ASSUME TypeOK, InsideInv, [Next]_vars PROVE InsideInv'
  OBVIOUS
<1>1. CASE pc' \notin {"text", "csv"}
  BY <1>1 DEF InsideInv, Reading
<1>2. CASE UNCHANGED vars
  BY <1>2 DEF InsideInv, Reading, vars, input
<1>3. CASE OpenText
  <2>1. Len(files[file]) \in Nat /\ pos' \in Starts /\ UNCHANGED <<file, files>>
    BY <1>3, HereType DEF TypeOK, OpenText, input
  <2>2. pos' <= Len(files[file]) + 1
    BY <2>1 DEF Starts
  <2> QED BY <2>1, <2>2 DEF InsideInv
<1>4. CASE OpenCSV
  <2>1. Len(files[file]) \in Nat /\ pos' = 1 /\ UNCHANGED <<file, files>>
    BY <1>4, HereType DEF TypeOK, OpenCSV, input
  <2> QED BY <2>1 DEF InsideInv
<1>5. CASE SkipOldLine \/ TakeLine \/ ReadRecord
  <2>1. file <= Len(files) /\ pos <= Len(files[file]) /\ pos' = pos + 1 /\ UNCHANGED <<file, files>>
    BY <1>5 DEF TypeOK, ControlType, SkipOldLine, TakeLine, ReadRecord, input
  <2>2. Len(files[file]) \in Nat /\ pos \in Nat
    BY <2>1, HereType DEF TypeOK, ControlType
  <2> QED BY <2>1, <2>2 DEF InsideInv
<1> QED
  BY <1>1, <1>2, <1>3, <1>4, <1>5
     DEF Next, OpenFails, BadLine, EndBuf, StopAtRecord, EndCSV, GiveUp, NextFile, Finish

\* The four ways of a step: on to the next file, into a file, on inside it, or out.
LEMMA Turn ==
  TypeOK /\ Next =>
    /\ UNCHANGED files
    /\ \/ /\ pc # "done" /\ file <= Len(files) /\ pc' = "next" /\ file' = file + 1
       \/ /\ pc = "next" /\ file <= Len(files) /\ Reading' /\ UNCHANGED file
       \/ /\ Reading /\ file <= Len(files) /\ UNCHANGED <<pc, file>> /\ pos' = pos + 1
       \/ /\ pc = "next" /\ file > Len(files) /\ pc' = "done" /\ UNCHANGED file
<1> SUFFICES ASSUME TypeOK, Next
             PROVE  /\ UNCHANGED files
                    /\ \/ /\ pc # "done" /\ file <= Len(files) /\ pc' = "next" /\ file' = file + 1
                       \/ /\ pc = "next" /\ file <= Len(files) /\ Reading' /\ UNCHANGED file
                       \/ /\ Reading /\ file <= Len(files) /\ UNCHANGED <<pc, file>> /\ pos' = pos + 1
                       \/ /\ pc = "next" /\ file > Len(files) /\ pc' = "done" /\ UNCHANGED file
  OBVIOUS
<1>1. Reading => file <= Len(files)
  BY DEF Reading, TypeOK, ControlType
<1>2. CASE OpenText \/ OpenCSV
  BY <1>2 DEF OpenText, OpenCSV, Reading, input
<1>3. CASE SkipOldLine \/ TakeLine \/ ReadRecord
  BY <1>1, <1>3 DEF SkipOldLine, TakeLine, ReadRecord, Reading, input
<1>4. CASE OpenFails \/ BadLine \/ EndBuf \/ StopAtRecord \/ EndCSV
  BY <1>1, <1>4 DEF OpenFails, BadLine, EndBuf, StopAtRecord, EndCSV, GiveUp, NextFile, Reading, input
<1>5. CASE Finish
  BY <1>5 DEF Finish, input
<1> QED BY <1>2, <1>3, <1>4, <1>5 DEF Next

\* readLogs ends: whatever the files hold and whichever of them fail, each step
\* leaves a file, or takes a line of the one it is in, and none is undone.
THEOREM ReaderRunsOut ==
  Spec => [](Variant \in [1 .. 2 -> Nat]) /\ [][Below(Variant', Variant)]_vars
<1>1. TypeOK /\ InsideInv => Variant \in [1 .. 2 -> Nat]
  <2> SUFFICES ASSUME TypeOK, InsideInv PROVE Variant \in [1 .. 2 -> Nat]
    OBVIOUS
  <2>1. Len(files) \in Nat /\ file \in Nat /\ pos \in Nat /\ pc \in {"next", "text", "csv", "done"}
    BY LenProperties DEF TypeOK, InputType, ControlType
  <2>2. file <= Len(files) => Len(files[file]) \in Nat
    BY HereType DEF TypeOK
  <2>3. Reading => file <= Len(files)
    BY DEF Reading, TypeOK, ControlType
  <2>4. FilesLeft \in Nat
    BY <2>1 DEF FilesLeft
  <2>5. TurnsLeft \in Nat
    BY <2>1, <2>2, <2>3 DEF TurnsLeft, Reading, InsideInv
  <2>6. Variant \in Seq(Nat) /\ Len(Variant) = 2
    BY <2>4, <2>5 DEF Variant
  <2> QED BY <2>6, LenProperties
<1>2. TypeOK /\ InsideInv /\ TypeOK' /\ InsideInv' /\ [Next]_vars
        => [Below(Variant', Variant)]_vars
  <2> SUFFICES ASSUME TypeOK, InsideInv, TypeOK', InsideInv', Next
               PROVE  Below(Variant', Variant)
    OBVIOUS
  <2>1. Len(files) \in Nat /\ file \in Nat /\ pos \in Nat /\ pos' \in Nat \ {0}
    BY LenProperties DEF TypeOK, InputType, ControlType
  <2>2. \A f \in DOMAIN files : Len(files[f]) \in Nat
    BY ElementOfSeq, LenProperties DEF TypeOK, InputType
  <2>3. DOMAIN files = 1 .. Len(files) /\ file # 0
    BY LenProperties DEF TypeOK, InputType, ControlType
  <2>4. UNCHANGED files
    BY Turn
  <2>5. Below(Variant', Variant) <=> \/ FilesLeft' < FilesLeft
                                     \/ FilesLeft' = FilesLeft /\ TurnsLeft' < TurnsLeft
    BY DEF Below, Variant
  <2>6. CASE pc # "done" /\ file <= Len(files) /\ pc' = "next" /\ file' = file + 1
    BY <2>1, <2>4, <2>5, <2>6 DEF FilesLeft
  <2>7. CASE pc = "next" /\ file <= Len(files) /\ Reading' /\ UNCHANGED file
    BY <2>1, <2>2, <2>3, <2>4, <2>5, <2>7 DEF FilesLeft, TurnsLeft, Reading
  <2>8. CASE Reading /\ file <= Len(files) /\ UNCHANGED <<pc, file>> /\ pos' = pos + 1
    BY <2>1, <2>2, <2>3, <2>4, <2>5, <2>8 DEF FilesLeft, TurnsLeft, Reading
  <2>9. CASE pc = "next" /\ file > Len(files) /\ pc' = "done" /\ UNCHANGED file
    BY <2>1, <2>4, <2>5, <2>9 DEF FilesLeft, TurnsLeft, Reading
  <2> QED BY <2>6, <2>7, <2>8, <2>9, Turn
<1>3. Init => InsideInv
  BY DEF Init, InsideInv, Reading
<1> QED BY <1>1, <1>2, <1>3, InsideStep, TypeCorrect, PTL DEF Spec
=============================================================================
