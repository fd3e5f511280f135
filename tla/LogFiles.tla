------------------------------- MODULE LogFiles -------------------------------
(***************************************************************************)
(* Which logs are read: the files of this machine that collectLogs picks,  *)
(* and those that awsCollector.collectLogs downloads from RDS portion by   *)
(* portion, each handed as one buffer to processLogBuf (LogReader has what *)
(* becomes of their lines).                                                *)
(*                                                                         *)
(* The server writes, rotates, packs and removes files all the while.      *)
(***************************************************************************)
EXTENDS Integers, Sequences, FiniteSets, SequencesExt

CONSTANTS
  Files, NoFile,  \* of this machine
  Place(_),       \* the directory of a file: "user", "given", "data", "cwd", "var"
  Format(_),      \* of a file: "stderr", "csvlog"; others cannot be read: "gz", "dir"
  Namesake(_),    \* the file that a relative name, meant for the data directory, denotes in
                  \* the working directory
  RDSFiles,
  Portion,        \* the most lines in an answer
  Ms,             \* milliseconds in a second
  Worlds

\* There is one kind of log of the server in csv format and one that is not.
Formats == {"stderr", "csvlog"}

World ==
  [logFile : Files \cup {NoFile},               \* --log-file
   logDir  : {"none", "given", "missing"},      \* --log-dir
   csv     : BOOLEAN,                           \* settings: csvlog and logging_collector
   v10     : BOOLEAN,
   prefix  : BOOLEAN,                           \* getPrefix succeeds
   there   : SUBSET Files,                      \* at first
   current : [Formats -> Files \cup {NoFile}],  \* what the server writes to at first
   rds     : BOOLEAN,                           \* --aws-rds-dbid, and --omit has no log
   lengths : [RDSFiles -> Nat],                 \* at first
   last    : [RDSFiles -> Nat],                 \* LastWritten at first, in ms
   start   : Nat,                               \* of the window, in seconds
   rotates : Nat,                               \* bound: rotations on this machine
   writes  : Nat]                               \* bound: lines written and removals at RDS

ASSUME NoFileIsNone == NoFile \notin Files /\ IsFiniteSet(Files)
ASSUME RDSFilesAreFinite == IsFiniteSet(RDSFiles)
ASSUME SizesAreSizes == Portion \in Nat \ {0} /\ Ms \in Nat \ {0}
ASSUME WorldsAreWorlds == Worlds \subseteq World
ASSUME CurrentInFormat ==
  \A w \in Worlds : \A format \in Formats :
    w.current[format] # NoFile => Format(w.current[format]) = format
ASSUME NamesakesAreFiles == \A f \in Files : Namesake(f) \in Files \cup {NoFile}

VARIABLES
  o,           \* the world; never changes
  there,       \* the files of this machine
  current,     \* those that the server writes to
  remote,      \* those of RDS: length, time of the last write, not removed
  rotates, writes,  \* how often there were any
  pc,          \* "info", "file", "dir", "current", "recent", "read", "list", "download", "done"
  csvlog,      \* c.csvlog
  curlogfile,  \* c.curlogfile, by the file that it names in the data directory
  source,      \* which of the four sources there were files from
  logfiles,    \* the files still to be read
  read,        \* the files that were read, with the format they were taken for
  logFiles,    \* RDS's list, sorted
  next,        \* the one to download
  marker, lines,
  handed,      \* the buffers that were handed to processLogBuf
  failed,      \* the download ended early
  rotated,     \* history: since getLogInfo
  bare,        \* history: there was no log in --log-dir
  begun,       \* history: the length of an RDS file when its download began
  cut          \* history: the RDS files whose download an empty answer ended

machine == <<there, current>>
local   == <<csvlog, curlogfile, source, logfiles, read>>
loop    == <<logFiles, next, marker, lines, handed, failed>>
history == <<rotated, bare, begun, cut>>
vars    == <<o, machine, remote, rotates, writes, pc, local, loop, history>>

\* fileExists; what can be read, too.
Regular(f) == f \in there /\ Format(f) # "dir"

Init ==
  /\ o \in Worlds
  /\ there = o.there /\ current = o.current
  /\ remote = [f \in RDSFiles |-> [len |-> o.lengths[f], last |-> o.last[f], there |-> TRUE]]
  /\ rotates = 0 /\ writes = 0
  /\ pc = "info" /\ csvlog = FALSE /\ curlogfile = NoFile
  /\ source = "none" /\ logfiles = <<>> /\ read = {}
  /\ logFiles = <<>> /\ next = 1 /\ marker = 0 /\ lines = <<>> /\ handed = <<>> /\ failed = FALSE
  /\ rotated = FALSE /\ bare = FALSE /\ cut = {} /\ begun = [f \in RDSFiles |-> 0]

-----------------------------------------------------------------------------
(***************************************************************************)
(* The files of this machine.                                              *)
(***************************************************************************)
Then(place) == pc' = place /\ UNCHANGED <<o, machine, remote, rotates, writes, loop>>

Info(format) ==
  /\ pc = "info"
  /\ csvlog' = o.csv
  /\ curlogfile' \in IF o.v10 THEN {current[format], NoFile} ELSE {NoFile}
  /\ Then("file") /\ UNCHANGED <<source, logfiles, read, history>>

\* Mutant: the file in the other format is asked for.
GetLogInfoStderr == Info("stderr")

\* The format from the settings, then the file in this format; an error means none.
GetLogInfo == Info(IF o.csv THEN "csvlog" ELSE "stderr")

Pick(from, files) ==
  /\ source' = from /\ logfiles' = files
  /\ Then("read") /\ UNCHANGED <<csvlog, curlogfile, read, history>>

Skips(place) == Then(place) /\ UNCHANGED <<local, history>>

\* 1. --log-file, or nothing if it is no regular file.
UseLogFile ==
  /\ pc = "file" /\ o.prefix
  /\ IF o.logFile = NoFile THEN Skips("dir")
     ELSE IF Regular(o.logFile)
     THEN Pick("file", <<o.logFile>>) ELSE Skips("list")

NoPrefix == pc = "file" /\ ~o.prefix /\ Skips("list")

Readable(S) == {f \in S : Format(f) \in Formats}

\* 2. What is in --log-dir, by name; if there is nothing, go on.
UseLogDir ==
  /\ pc = "dir"
  /\ CASE o.logDir = "none"    -> Skips("current")
       [] o.logDir = "missing" -> Skips("list")
       [] o.logDir = "given"   ->
            LET S == Readable({f \in there : Place(f) = "given"})
            IN  IF S # {} THEN \E s \in SetToSeqs(S) : Pick("dir", s)
                ELSE /\ bare' = TRUE
                     /\ Then("current") /\ UNCHANGED <<local, rotated, begun, cut>>

\* 3. The current log file: by its name from here, then from the data directory.
UseCurrent ==
  /\ pc = "current"
  /\ LET here == {f \in {IF curlogfile = NoFile THEN NoFile ELSE Namesake(curlogfile)} : Regular(f)}
         data == {f \in {curlogfile} : Regular(f)}
     IN  IF here \cup data = {} THEN Skips("recent")
         ELSE \E f \in IF here # {} THEN here ELSE data : Pick("current", <<f>>)

\* 4. What was modified last in /var/log/postgresql, whatever it is: any of what is there.
UseRecent ==
  /\ pc = "recent"
  /\ LET S == {f \in there : Place(f) = "var"}
     IN  IF S = {} THEN Skips("list") ELSE \E f \in S : Pick("recent", <<f>>)

\* readLogs: all files in one format; a file that cannot be read is a warning.
ReadFile ==
  /\ pc = "read" /\ logfiles # <<>>
  /\ read' = IF Regular(Head(logfiles))
             THEN read \cup {[file |-> Head(logfiles), as |-> IF csvlog THEN "csvlog" ELSE "stderr"]}
             ELSE read
  /\ logfiles' = Tail(logfiles)
  /\ Then("read") /\ UNCHANGED <<csvlog, curlogfile, source, history>>

EndFiles == pc = "read" /\ logfiles = <<>> /\ Skips("list")

-----------------------------------------------------------------------------
(***************************************************************************)
(* RDS.                                                                    *)
(***************************************************************************)
\* time.Unix(ms/1000, ms%1000): the rest counts nanoseconds.
Time(ms) == <<ms \div Ms, ms % Ms>>
Before(s, t) == s[1] < t[1] \/ (s[1] = t[1] /\ s[2] < t[2])

Listed(f) == [name |-> f, last |-> remote[f].last]

Sorted(s) == \A i, j \in DOMAIN s : i < j => ~Before(Time(s[j].last), Time(s[i].last))

Rds(place) == pc' = place /\ UNCHANGED <<o, machine, remote, rotates, writes, local>>

RDSLogs == o.rds /\ o.prefix

NoRDS == pc = "list" /\ ~RDSLogs /\ Rds("done") /\ UNCHANGED <<loop, history>>

\* The files with a line in the window, oldest first.
DescribeDBLogFiles ==
  /\ pc = "list" /\ RDSLogs
  /\ LET S == {f \in RDSFiles : remote[f].there /\ remote[f].last >= o.start * Ms}
     IN  \E s \in SetToSeqs({Listed(f) : f \in S}) : Sorted(s) /\ logFiles' = s
  /\ Rds("download") /\ UNCHANGED <<next, marker, lines, handed, failed, history>>

\* newAwsCollector, collect or the list fails: a warning.
DescribeFails ==
  /\ pc = "list" /\ RDSLogs
  /\ failed' = TRUE
  /\ Rds("done") /\ UNCHANGED <<logFiles, next, marker, lines, handed, history>>

Downloading == pc = "download" /\ next <= Len(logFiles)
Name == logFiles[next].name

\* Mutant: from where this file ended.
NextMarkerKept == marker
NextMarker == 0

\* On to the next file, after cb if there are lines.
HandOver(got, from) ==
  /\ handed' = IF got = <<>> THEN handed
               ELSE Append(handed, [file |-> Name, at |-> logFiles[next].last, lines |-> got])
  /\ next' = next + 1 /\ marker' = from /\ lines' = <<>>

Began == IF lines = <<>> /\ marker = 0 THEN [begun EXCEPT ![Name] = remote[Name].len]
         ELSE begun

\* External: an answer has some lines after the marker, if there are any, and says
\* whether there are more.
DownloadDBLogFilePortion ==
  /\ Downloading /\ remote[Name].there
  /\ LET left == remote[Name].len - marker
     IN  \E n \in 0..Portion :
           /\ n <= left /\ (left > 0 => n > 0)
           /\ LET got == lines \o [i \in 1..n |-> marker + i]
              IN  IF n < left THEN /\ lines' = got /\ marker' = marker + n
                                   /\ UNCHANGED <<next, handed>>
                  ELSE HandOver(got, NextMarker)
  /\ begun' = Began
  /\ Rds("download") /\ UNCHANGED <<logFiles, failed, rotated, bare, cut>>

\* An answer without data or marker: what there is is handed over.
DownloadNothing ==
  /\ Downloading
  /\ HandOver(lines, NextMarker)
  /\ cut' = cut \cup {Name}
  /\ Rds("download") /\ UNCHANGED <<logFiles, failed, rotated, bare, begun>>

\* An error: the lines that there are of this file are dropped, and the other files.
DownloadFails ==
  /\ Downloading
  /\ failed' = TRUE /\ Rds("done")
  /\ UNCHANGED <<logFiles, next, marker, lines, handed, history>>

EndDownloads ==
  /\ pc = "download" /\ next > Len(logFiles)
  /\ Rds("done") /\ UNCHANGED <<loop, history>>

-----------------------------------------------------------------------------
\* External: what goes on meanwhile. The server begins a new file of a format; the
\* other is packed, or stays. Nobody creates a file with the name of another.
Rotate ==
  /\ pc # "done" /\ rotates < o.rotates /\ rotates' = rotates + 1
  /\ \E format \in Formats : \E f \in Files \ there :
       /\ current[format] # NoFile /\ Format(f) = format /\ Place(f) = "data"
       /\ current' = [current EXCEPT ![format] = f]
       /\ there' \in {there \cup {f}, (there \ {current[format]}) \cup {f}}
  /\ rotated' = (pc # "info")
  /\ UNCHANGED <<o, remote, writes, pc, local, loop, bare, begun, cut>>

RDSChanges(f, then) ==
  /\ pc # "done" /\ writes < o.writes /\ writes' = writes + 1
  /\ remote[f].there /\ remote' = [remote EXCEPT ![f] = then]
  /\ UNCHANGED <<o, machine, rotates, pc, local, loop, history>>

\* RDS writes a line, later than all others.
Write ==
  \E f \in RDSFiles : \E t \in {remote[g].last : g \in RDSFiles} :
    /\ \A g \in RDSFiles : remote[g].last <= t
    /\ RDSChanges(f, [len |-> remote[f].len + 1, last |-> t + 1, there |-> TRUE])

\* Its retention removes a file.
Expire == \E f \in RDSFiles : RDSChanges(f, [remote[f] EXCEPT !.there = FALSE])

Program == \/ GetLogInfo \/ UseLogFile \/ NoPrefix \/ UseLogDir \/ UseCurrent \/ UseRecent
           \/ ReadFile \/ EndFiles
           \/ NoRDS \/ DescribeDBLogFiles \/ DescribeFails
           \/ DownloadDBLogFilePortion \/ DownloadNothing \/ DownloadFails \/ EndDownloads

Next == Program \/ Rotate \/ Write \/ Expire

Spec == Init /\ [][Next]_vars

-----------------------------------------------------------------------------
(***************************************************************************)
(* Properties.                                                             *)
(***************************************************************************)
Buffer == [file : RDSFiles, at : Nat, lines : Seq(Nat)]

MachineType == /\ o \in Worlds /\ rotates \in 0..o.rotates /\ writes \in 0..o.writes
               /\ there \subseteq Files /\ current \in [Formats -> Files \cup {NoFile}]
               /\ remote \in [RDSFiles -> [len : Nat, last : Nat, there : BOOLEAN]]
LocalType   == /\ pc \in {"info", "file", "dir", "current", "recent", "read",
                          "list", "download", "done"}
               /\ csvlog \in BOOLEAN /\ curlogfile \in Files \cup {NoFile}
               /\ source \in {"none", "file", "dir", "current", "recent"}
               /\ logfiles \in Seq(Files) /\ read \subseteq [file : Files, as : Formats]
LoopType    == /\ logFiles \in Seq([name : RDSFiles, last : Nat])
               /\ next \in 1..Len(logFiles) + 1
               /\ marker \in Nat /\ lines \in Seq(Nat) /\ handed \in Seq(Buffer)
               /\ failed \in BOOLEAN
HistoryType == /\ rotated \in BOOLEAN /\ bare \in BOOLEAN
               /\ begun \in [RDSFiles -> Nat] /\ cut \subseteq RDSFiles

\* The types of the variables.
TypeOK == MachineType /\ LocalType /\ LoopType /\ HistoryType

\* What the report takes for the server's log is what the user named and nothing
\* else; or what the server was writing when it was asked, in its own format, which
\* is what it writes to still unless it rotated; or else a guess.  Two exceptions are
\* the code's: a --log-dir without a log in it does not keep it from the
\* guesses, and a file of the same relative name where pgmetrics was started
\* comes before the server's.
RightLog ==
  \A r \in read :
    /\ source = "dir" => Format(r.file) \in Formats
    /\ o.logFile # NoFile => r.file = o.logFile
    /\ o.logFile = NoFile /\ o.logDir = "given" /\ ~bare => Place(r.file) = "given"
    /\ source = "current" =>
         \/ r.file = Namesake(curlogfile)
         \/ /\ r.file = curlogfile /\ r.as = Format(r.file)
            /\ rotated \/ r.file = current[r.as]

OldestFirst ==
  \A i, j \in DOMAIN handed : i < j =>
    handed[i].at <= handed[j].at /\ handed[i].file # handed[j].file

FromTheFirstLine ==
  \A i \in DOMAIN handed : \A k \in DOMAIN handed[i].lines : handed[i].lines[k] = k

ToTheLastLine ==
  \A i \in DOMAIN handed :
    handed[i].file \in cut \/ Len(handed[i].lines) >= begun[handed[i].file]

NoneLeftOut ==
  \A k \in 1..next - 1 :
    LET f == logFiles[k].name IN
    begun[f] > 0 /\ f \notin cut => \E i \in DOMAIN handed : handed[i].file = f

\* The buffers come in the order in which their files were last written when
\* they were listed, each file once, from its first line on, with no gap, and
\* with all that was there when its download began, unless an answer was empty.
\* No file before the one that failed is missing; without a failure, none is.
WholeAndInOrder ==
  /\ OldestFirst /\ FromTheFirstLine /\ ToTheLastLine /\ NoneLeftOut
  /\ pc = "done" /\ RDSLogs /\ ~failed => next > Len(logFiles)
=============================================================================
