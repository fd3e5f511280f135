------------------------------ MODULE LogReader ------------------------------
(***************************************************************************)
(* The log readers of the collector (collector/log.go): readLogs walks the *)
(* files collectLogs chose, processLogBuf cuts a buffer at each match of   *)
(* the log_line_prefix and hands the pieces to processLogLine, which       *)
(* assembles entries in c.currLog; processLogEntry moves c.currLog to the  *)
(* report.  readLogLinesCSV does the same for csvlog files.  The callback  *)
(* that collectFromRDS gives to the AWS downloader runs the text path with *)
(* one buffer per RDS log file.                                            *)
(*                                                                         *)
(* c.currLog lives in the collector, not in a call, so it survives from    *)
(* one buffer to the next: that carry-over is what this module is about.   *)
(*                                                                         *)
(* Lines are abstracted to what the readers branch on; an entry is the     *)
(* reference of the line that filled its fields and those of the lines in  *)
(* its Extra.  NoRef stands for the zero LogEntry: no timestamp, no text.  *)
(***************************************************************************)
EXTENDS Naturals, Sequences

CONSTANT Inputs      \* the logs a collection may meet: [csv, files] records

Kinds == {"plan", "vacuum", "deadlock"}

(***************************************************************************)
(* One piece of a buffer between two prefix matches, or one csv record:    *)
(*   at        its time stamp: before the window, in it, or unparsable     *)
(*   severity  its level is one of `severities'                            *)
(*   detail    its level is DETAIL (csv: column 15 is not empty)           *)
(*   msg       what processLogEntry recognises in its text                 *)
(*   fields    csv only: 23 columns, another number, or not readable       *)
(***************************************************************************)
Line == [at : {"old", "new", "bad"}, severity : BOOLEAN, detail : BOOLEAN,
         msg : Kinds \cup {"plain"}, fields : {"23", "other", "torn"}]

ASSUME InputsAreLogs ==
  \A in \in Inputs : /\ in.csv \in BOOLEAN
                     /\ in.files \in Seq(Seq(Line))

VARIABLES
  files,             \* the file contents, never changed
  csvlog,            \* c.csvlog
  pc,                \* "next", "text", "csv" or "done"
  file,              \* index of readLogs' loop
  pos,               \* the next piece or record of that file
  count,             \* processLogBuf's count
  currLog,           \* c.currLog
  entries,           \* c.result.LogEntries
  found,             \* c.result.Plans, .AutoVacuums and .Deadlocks
  lost,              \* history: the files left before their end
  warned             \* the files readLogs printed a warning about

vars == <<files, csvlog, pc, file, pos, count, currLog, entries, found,
          lost, warned>>
input == <<files, csvlog>>
result == <<entries, found>>
left == <<lost, warned>>

Ref == Nat \X Nat
NoRef == <<0, 0>>
Entry == [head : Ref, extra : Seq(Ref)]
ZeroEntry == [head |-> NoRef, extra |-> <<>>]

LineAt(r) == files[r[1]][r[2]]
Here == files[file][pos]

\* The order in which lines were written.
Before(r, s) == r[1] < s[1] \/ (r[1] = s[1] /\ r[2] < s[2])

\* A file whose first in-window line continues an entry that is not in the
\* file's window: after a rotation, at the edge of the window, or when the
\* server's messages are not in English.
OrphanStart(f) ==
  /\ ~csvlog
  /\ \E k \in DOMAIN files[f] :
       /\ files[f][k].at = "new"
       /\ \A i \in 1 .. k : files[f][i].at = "new" => ~files[f][i].severity

Clean == \A f \in DOMAIN files : ~OrphanStart(f)

InputType   == files \in Seq(Seq(Line)) /\ csvlog \in BOOLEAN
ControlType == /\ pc \in {"next", "text", "csv", "done"}
               /\ file \in Nat \ {0} /\ pos \in Nat \ {0} /\ count \in Nat
               /\ pc \in {"text", "csv"} => file <= Len(files)
               /\ pc = "text" => ~csvlog
CurrentType == currLog \in Entry
ResultType  == /\ entries \in Seq(Entry)
               /\ found \in [Kinds -> Seq([head : Ref, detail : Ref])]
LeftType    == lost \subseteq Nat /\ warned \subseteq lost

\* The types of the variables; readLogs warns only about files it leaves.
TypeOK == InputType /\ ControlType /\ CurrentType /\ ResultType /\ LeftType

Init ==
  /\ \E in \in Inputs : files = in.files /\ csvlog = in.csv
  /\ pc = "next" /\ file = 1 /\ pos = 1 /\ count = 0
  /\ currLog = ZeroEntry
  /\ entries = <<>>
  /\ found = [k \in Kinds |-> <<>>]
  /\ lost = {} /\ warned = {}

-----------------------------------------------------------------------------
(***************************************************************************)
(* processLogEntry: recognise the entry, then copy it to the report.       *)
(***************************************************************************)

DetailAt(e, i) == LineAt(e.extra[i]).detail

\* Mutant: the last DETAIL, not the first.
GetExtraLast(e) ==
  LET last == {i \in DOMAIN e.extra : /\ DetailAt(e, i)
                                      /\ \A j \in i + 1 .. Len(e.extra) : ~DetailAt(e, j)}
  IN  IF last = {} THEN NoRef ELSE e.extra[CHOOSE i \in last : TRUE]

\* getExtra(l, "DETAIL"): the first DETAIL among the extra lines, if any.
GetExtra(e) ==
  LET first == {i \in DOMAIN e.extra : /\ DetailAt(e, i)
                                       /\ \A j \in 1 .. i - 1 : ~DetailAt(e, j)}
  IN  IF first = {} THEN NoRef ELSE e.extra[CHOOSE i \in first : TRUE]

Recognised(e) == IF e.head = NoRef THEN "plain" ELSE LineAt(e.head).msg

\* Mutant: newest entry first.
ProcessLogEntryPrepending(e) ==
  /\ entries' = <<e>> \o entries
  /\ UNCHANGED found

ProcessLogEntry(e) ==
  /\ entries' = Append(entries, e)
  /\ found' = [k \in Kinds |->
                 IF Recognised(e) = k
                 THEN Append(found[k], [head |-> e.head, detail |-> GetExtra(e)])
                 ELSE found[k]]

\* Mutants: the first line of a buffer flushes too; Extra is not reset.
ProcessLogLineFlushing(first) ==
  IF Here.severity
  THEN /\ currLog' = [head |-> <<file, pos>>, extra |-> <<>>]
       /\ ProcessLogEntry(currLog)
  ELSE /\ currLog' = [currLog EXCEPT !.extra = Append(@, <<file, pos>>)]
       /\ UNCHANGED result
ProcessLogLineKeepingExtra(first) ==
  IF Here.severity
  THEN /\ currLog' = [currLog EXCEPT !.head = <<file, pos>>]
       /\ IF first THEN UNCHANGED result ELSE ProcessLogEntry(currLog)
  ELSE /\ currLog' = [currLog EXCEPT !.extra = Append(@, <<file, pos>>)]
       /\ UNCHANGED result

(***************************************************************************)
(* processLogLine: a severity opens an entry (and flushes the open one     *)
(* unless this is the buffer's first line), any other line is added to the *)
(* entry that c.currLog happens to hold.                                   *)
(***************************************************************************)
ProcessLogLine(first) ==
  IF Here.severity
  THEN /\ currLog' = [head |-> <<file, pos>>, extra |-> <<>>]
       /\ IF first THEN UNCHANGED result ELSE ProcessLogEntry(currLog)
  ELSE /\ currLog' = [currLog EXCEPT !.extra = Append(@, <<file, pos>>)]
       /\ UNCHANGED result

NextFile == /\ pc' = "next"
            /\ file' = file + 1
            /\ UNCHANGED <<pos, count>>

\* The file is left before its end; readLogs prints a warning if the reader
\* returned an error, and goes on with the next file in any case.
GiveUp(err) == /\ NextFile
               /\ lost' = lost \cup {file}
               /\ warned' = IF err THEN warned \cup {file} ELSE warned

-----------------------------------------------------------------------------
(***************************************************************************)
(* The text path.                                                          *)
(***************************************************************************)

\* Mutant: the buffer starts one line too early.
StartsEarly == {0} \cup {k \in 1 .. Len(files[file]) :
                           \A i \in 1 .. k : files[file][i].at # "new"}

\* readLogLinesText seeks backward and hands over a suffix of the file that
\* holds every in-window line (LogScan says when that is so); the RDS
\* callback always gets the whole file.
Starts == {1} \cup {k \in 1 .. Len(files[file]) :
                      \A i \in 1 .. k - 1 : files[file][i].at # "new"}

OpenText ==
  /\ pc = "next" /\ file <= Len(files) /\ ~csvlog
  /\ pos' \in Starts
  /\ count' = 0
  /\ pc' = "text"
  /\ UNCHANGED <<input, file, currLog, result, left>>

\* os.Open, Seek, ReadFull or firstTS failed; csv: os.Open failed.
OpenFails ==
  /\ pc = "next" /\ file <= Len(files)
  /\ GiveUp(TRUE)
  /\ UNCHANGED <<input, currLog, result>>

\* Mutant: the match position is not moved past an old piece.
SkipOldLineStuck ==
  /\ pc = "text" /\ pos <= Len(files[file]) /\ Here.at = "old"
  /\ UNCHANGED vars

\* A piece before the window is skipped.
SkipOldLine ==
  /\ pc = "text" /\ pos <= Len(files[file]) /\ Here.at = "old"
  /\ pos' = pos + 1
  /\ UNCHANGED <<input, pc, file, count, currLog, result, left>>

TakeLine ==
  /\ pc = "text" /\ pos <= Len(files[file]) /\ Here.at = "new"
  /\ ProcessLogLine(count = 0)
  /\ pos' = pos + 1
  /\ count' = count + 1
  /\ UNCHANGED <<input, pc, file, left>>

\* getMatchData fails: processLogBuf returns at once, nothing is flushed and
\* c.currLog keeps what it held.
BadLine ==
  /\ pc = "text" /\ pos <= Len(files[file]) /\ Here.at = "bad"
  /\ GiveUp(TRUE)
  /\ UNCHANGED <<input, currLog, result>>

\* Mutants: no flush at the end of the buffer; a flush even if no line was taken.
EndBufDropping ==
  /\ pc = "text" /\ pos > Len(files[file])
  /\ NextFile
  /\ UNCHANGED <<input, currLog, result, left>>
EndBufAlways ==
  /\ pc = "text" /\ pos > Len(files[file])
  /\ ProcessLogEntry(currLog)
  /\ NextFile
  /\ UNCHANGED <<input, currLog, left>>

\* End of the buffer: the open entry is flushed if the buffer gave any line.
EndBuf ==
  /\ pc = "text" /\ pos > Len(files[file])
  /\ IF count > 0 THEN ProcessLogEntry(currLog) ELSE UNCHANGED result
  /\ NextFile
  /\ UNCHANGED <<input, currLog, left>>

-----------------------------------------------------------------------------
(***************************************************************************)
(* The csv path.                                                           *)
(***************************************************************************)
OpenCSV ==
  /\ pc = "next" /\ file <= Len(files) /\ csvlog
  /\ pos' = 1
  /\ pc' = "csv"
  /\ UNCHANGED <<input, file, count, currLog, result, left>>

\* A record of 23 columns: reported at once if its time stamp parses and is
\* in the window, skipped otherwise.
ReadRecord ==
  /\ pc = "csv" /\ pos <= Len(files[file]) /\ Here.fields = "23"
  /\ IF Here.at = "new"
     THEN LET e == [head  |-> <<file, pos>>,
                    extra |-> IF Here.detail THEN <<<<file, pos>>>> ELSE <<>>]
          IN  currLog' = e /\ ProcessLogEntry(e)
     ELSE UNCHANGED <<currLog, result>>
  /\ pos' = pos + 1
  /\ UNCHANGED <<input, pc, file, count, left>>

\* Any other record ends the file: silently if csv.Reader says it has a wrong
\* number of fields, with readLogs' warning if it cannot be parsed at all.
StopAtRecord ==
  /\ pc = "csv" /\ pos <= Len(files[file]) /\ Here.fields # "23"
  /\ GiveUp(Here.fields = "torn")
  /\ UNCHANGED <<input, currLog, result>>

EndCSV ==
  /\ pc = "csv" /\ pos > Len(files[file])
  /\ NextFile
  /\ UNCHANGED <<input, currLog, result, left>>

-----------------------------------------------------------------------------
Finish ==
  /\ pc = "next" /\ file > Len(files)
  /\ pc' = "done"
  /\ UNCHANGED <<input, file, pos, count, currLog, result, left>>

Next == \/ OpenText \/ OpenFails \/ SkipOldLine \/ TakeLine \/ BadLine \/ EndBuf
        \/ OpenCSV \/ ReadRecord \/ StopAtRecord \/ EndCSV
        \/ Finish

Spec == Init /\ [][Next]_vars

\* readLogs is a plain loop of one goroutine: it keeps running.
FairSpec == Spec /\ WF_vars(Next)

-----------------------------------------------------------------------------
(***************************************************************************)
(* Properties.                                                             *)
(***************************************************************************)
Abs == INSTANCE LogReport WITH csv <- csvlog,
                               reported <- IF Clean THEN entries ELSE <<>>

\* The reader stops: every file is left after finitely many lines.
EveryFileIsLeft == <>(pc = "done")

\* Entries leave in the order in which their first lines were written, even
\* when c.currLog is carried from one buffer to the next (processLogEntry).
HeadsInOrder ==
  \A i, j \in DOMAIN entries :
    i < j => ~Before(entries[j].head, entries[i].head)

\* processLogLine reports an entry a second time only when a later file opens,
\* inside the window, with a line that is no severity line.
OncePerEntry ==
  \A i, j \in DOMAIN entries :
    i < j /\ entries[i].head = entries[j].head
      => \E f \in DOMAIN files : f > entries[i].head[1] /\ OrphanStart(f)

\* The zero LogEntry is reported only if some file begins, in the window, with
\* a line that is no severity line.
StampedUnlessOrphaned ==
  (\E i \in DOMAIN entries : entries[i].head = NoRef)
    => \E f \in DOMAIN files : OrphanStart(f)

(***************************************************************************)
(* The strengthening of the three properties above that every step keeps:  *)
(* what c.currLog may hold at each place of a buffer.                      *)
(***************************************************************************)
Reading == pc \in {"text", "csv"}

\* The open entry began before the place the reader stands at, and no
\* reported entry began after it.
OpenEntryIsLatest ==
  /\ IF Reading THEN Before(currLog.head, <<file, pos>>) ELSE currLog.head[1] < file
  /\ \A i \in DOMAIN entries : ~Before(currLog.head, entries[i].head)

\* Until a line is taken, nothing passed in the buffer was in the window.
NothingTakenYet ==
  pc = "text" /\ count = 0 => \A i \in 1 .. pos - 1 : files[file][i].at # "new"

\* Once a line is taken, the open entry is one of this file, not yet
\* reported, or the file began orphaned.
OpenEntryIsOwn ==
  pc = "text" =>
    /\ currLog.head[1] # file /\ count > 0 => OrphanStart(file)
    /\ currLog.head[1] = file => \A i \in DOMAIN entries : entries[i].head # currLog.head

CarryOver == /\ OpenEntryIsLatest /\ NothingTakenYet /\ OpenEntryIsOwn
             /\ HeadsInOrder /\ OncePerEntry /\ StampedUnlessOrphaned

\* Every line shown under an entry was written under it: in its own file with
\* no other entry opened in between, or as the orphaned start of a later file.
ExtrasBelong ==
  \A i \in DOMAIN entries : \A n \in DOMAIN entries[i].extra :
    LET h == entries[i].head
        x == entries[i].extra[n]
    IN  IF x[1] = h[1]
        THEN /\ csvlog \/ h[2] < x[2]
             /\ \A k \in h[2] + 1 .. x[2] : ~Abs!Opens(h[1], k)
        ELSE h[1] < x[1] /\ OrphanStart(x[1])

\* A file that was read to its end leaves nothing behind: its in-window
\* entries and continuation lines are all in the report.
NothingLeftBehind ==
  \A f \in DOMAIN files : \A k \in DOMAIN files[f] :
    f < file /\ f \notin lost /\ files[f][k].at = "new" =>
      \E i \in DOMAIN entries :
        \/ entries[i].head = <<f, k>>
        \/ ~Abs!Opens(f, k) /\ \E n \in DOMAIN entries[i].extra :
                                  entries[i].extra[n] = <<f, k>>

\* A reported deadlock shows the first DETAIL written under it (processDeadlock
\* reads c.currLog through getExtra), unless a later file began orphaned.
DeadlockDetail ==
  Clean => \A i \in DOMAIN found["deadlock"] :
             LET d == found["deadlock"][i]
                 details == {r \in Abs!Under(d.head[1], d.head[2]) : LineAt(r).detail}
             IN  IF details = {} THEN d.detail = NoRef
                 ELSE d.detail \in details /\ \A r \in details : ~Before(r, d.detail)

\* The reader implements LogReport for every log whose files all begin, in
\* the window, with a severity line.
KeepsThePromise == Abs!AbsSpec

\* model.go, on LogEntry: "Timestamp will always be present."
TimestampPresent == \A i \in DOMAIN entries : entries[i].head # NoRef

\* log.go lists the columns of csv records up to "26. query id (>= pg14)" and
\* reads record[25]: records of servers that write them are log records too.
CsvRecordsReported ==
  pc = "done" /\ csvlog =>
    \A f \in DOMAIN files : \A k \in DOMAIN files[f] :
      files[f][k].at = "new" /\ f \notin warned
        => \E i \in DOMAIN entries : entries[i].head = <<f, k>>
=============================================================================
