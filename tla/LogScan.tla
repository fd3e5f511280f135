------------------------------- MODULE LogScan -------------------------------
(***************************************************************************)
(* readLogLinesText (collector/log.go): find the place in a log file from  *)
(* which to read, by looking at ever earlier blocks until the first time   *)
(* stamp of a block lies before the window, then read the file from there  *)
(* in one piece.                                                           *)
(*                                                                         *)
(* Bytes are positions.  A line of the file is the offset and the time of  *)
(* its prefix; every prefix is Prefix bytes long.  firstTS sees a prefix   *)
(* only if all of it lies in the block, with one exception: the escape %n  *)
(* is compiled to \d+\.\d+, which also matches what is left of a number    *)
(* whose first digits fell into the previous block.  That shorter number   *)
(* is a time decades ago.                                                  *)
(*                                                                         *)
(* The server goes on writing while the file is scanned. What it appends   *)
(* is beyond the length that was taken, and is not looked at, unless a     *)
(* rotation that copies and truncates empties the file: then it is written *)
(* again from the start, and what is read is a mixture.                    *)
(***************************************************************************)
EXTENDS Integers, FiniteSets

CONSTANTS
  Block,       \* the 4096 bytes read at a time
  Prefix,      \* the length of a line's prefix
  Digits,      \* %n: the digits before the point, else 0
  Scans        \* the situations to scan: [flen, lines] records

Times == {"old", "new"}       \* ts.Before(start) and not

ASSUME SizesAreSizes ==
  /\ Block \in Nat \ {0}
  /\ Prefix \in Nat \ {0}
  /\ Digits \in 0 .. Prefix

\* A line starts where its prefix starts; two lines do not overlap.
ASSUME ScansAreFiles ==
  \A s \in Scans :
    /\ s.flen \in Nat
    /\ s.lines \subseteq [ofs : 0 .. s.flen - Prefix, at : Times]
    /\ \A l, m \in s.lines : l.ofs < m.ofs => l.ofs + Prefix <= m.ofs
    /\ \A l, m \in s.lines : l.ofs = m.ofs => l = m

VARIABLES
  flen,        \* the length Seek(0, 2) returned
  size,        \* the bytes below flen that are in the file
  lines,       \* the lines that have their prefix in them
  pc,          \* "scan", "read", "done" or "error"
  ofs,         \* where the next block starts, before the `ofs < 0' clamp
  from,        \* where the buffer given to processLogBuf starts
  emptied      \* the file was emptied after the search had ended

file == <<flen, size, lines, emptied>>
vars == <<file, pc, ofs, from>>

TypeOK ==
  /\ flen \in Nat
  /\ size \in 0 .. flen
  /\ lines \subseteq [ofs : Nat, at : Times]
  /\ pc \in {"scan", "read", "done", "error"}
  /\ ofs \in Int /\ ofs <= flen
  /\ from \in 0 .. flen
  /\ emptied \in BOOLEAN

\* The file was opened and its length taken; an empty file ends it at once.
Init ==
  /\ \E s \in Scans : flen = s.flen /\ lines = s.lines
  /\ size = flen
  /\ emptied = FALSE
  /\ pc = IF flen = 0 THEN "done" ELSE "scan"
  /\ ofs = flen - Block
  /\ from = flen

-----------------------------------------------------------------------------
(***************************************************************************)
(* firstTS on the block of n bytes at offset o: the time of the first      *)
(* match, or "none" (the zero time).                                       *)
(***************************************************************************)

\* The prefixes the block holds entirely.
Whole(o, n) == {l \in lines : o <= l.ofs /\ l.ofs + Prefix <= o + n}

\* %n: a line whose leading digits were cut off by the start of the block.
Cut(o, n) == {l \in lines : /\ l.ofs < o /\ o < l.ofs + Digits
                            /\ l.ofs + Prefix <= o + n}

First(o, n) == {l \in Whole(o, n) : \A m \in Whole(o, n) : l.ofs <= m.ofs}

FirstTS(o, n) ==
  IF Cut(o, n) # {} THEN "old"
  ELSE IF First(o, n) = {} THEN "none"
  ELSE (CHOOSE l \in First(o, n) : TRUE).at

-----------------------------------------------------------------------------
BlockStart == IF ofs < 0 THEN 0 ELSE ofs

\* Mutant: the first block of the file is not shortened.
BlockLenUncut == Block
BlockLen == IF ofs < 0 THEN Block + ofs ELSE Block

\* firstTS meets a time it cannot parse, or Seek or Read fail.
ScanFails ==
  /\ pc = "scan" \/ pc = "read"
  /\ pc' = "error"
  /\ UNCHANGED <<file, ofs, from>>

\* Mutant: a block without a time stamp, the zero time, is before any window.
ScanBlockZeroTime ==
  /\ pc = "scan"
  /\ BlockStart + BlockLen <= size
  /\ IF FirstTS(BlockStart, BlockLen) # "new" \/ BlockStart = 0
     THEN pc' = "read" /\ ofs' = BlockStart
     ELSE pc' = "scan" /\ ofs' = BlockStart - Block
  /\ UNCHANGED <<file, from>>

\* Mutant: the loop does not stop at the top of the file.
ScanBlockForever ==
  /\ pc = "scan"
  /\ BlockStart + BlockLen <= size
  /\ IF FirstTS(BlockStart, BlockLen) = "old"
     THEN pc' = "read" /\ ofs' = BlockStart
     ELSE pc' = "scan" /\ ofs' = BlockStart - Block
  /\ UNCHANGED <<file, from>>

\* Mutant: the clamp to the top of the file is forgotten for the final read.
ScanBlockUnclamped ==
  /\ pc = "scan"
  /\ BlockStart + BlockLen <= size
  /\ IF FirstTS(BlockStart, BlockLen) = "old" \/ BlockStart = 0
     THEN pc' = "read" /\ ofs' = ofs
     ELSE pc' = "scan" /\ ofs' = BlockStart - Block
  /\ UNCHANGED <<file, from>>

\* Mutant: each step back is one byte too long.
ScanBlockSkipping ==
  /\ pc = "scan"
  /\ BlockStart + BlockLen <= size
  /\ IF FirstTS(BlockStart, BlockLen) = "old" \/ BlockStart = 0
     THEN pc' = "read" /\ ofs' = BlockStart
     ELSE pc' = "scan" /\ ofs' = BlockStart - Block - 1
  /\ UNCHANGED <<file, from>>

\* One turn of the loop: stop at a block that begins before the window, or at
\* the top of the file, else go back by a block.
ScanBlock ==
  /\ pc = "scan"
  /\ BlockStart + BlockLen <= size
  /\ IF FirstTS(BlockStart, BlockLen) = "old" \/ BlockStart = 0
     THEN pc' = "read" /\ ofs' = BlockStart
     ELSE pc' = "scan" /\ ofs' = BlockStart - Block
  /\ UNCHANGED <<file, from>>

\* The rest of the file, as long as it was, is read and processed: as many
\* bytes, whether or not they are those that were looked at.
ReadRest ==
  /\ pc = "read"
  /\ flen <= size
  /\ from' = ofs
  /\ pc' = "done"
  /\ UNCHANGED <<file, ofs>>

\* io.ReadFull needs all the bytes it was asked for.
ReadShort ==
  /\ IF pc = "scan" THEN size < BlockStart + BlockLen ELSE size < flen
  /\ ScanFails

\* External: a rotation copies the file and truncates it.
Truncate ==
  /\ pc \in {"scan", "read"} /\ size > 0
  /\ size' = 0 /\ lines' = {}
  /\ emptied' = (emptied \/ pc = "read")
  /\ UNCHANGED <<flen, pc, ofs, from>>

\* External: the server writes on into the emptied file, some lines whole, some
\* text without a prefix, up to where the reader thinks that the file ends or
\* beyond. All of it is written now, and so within the window.
Write ==
  /\ pc \in {"scan", "read"}
  /\ \E n \in size + 1 .. flen :
       /\ size' = n
       /\ \E new \in SUBSET [ofs : size .. n - Prefix, at : {"new"}] :
            /\ \A l, m \in new : l.ofs < m.ofs => l.ofs + Prefix <= m.ofs
            /\ lines' = lines \cup new
  /\ UNCHANGED <<flen, emptied, pc, ofs, from>>

Reader == ScanFails \/ ScanBlock \/ ReadRest

Next == Reader \/ Truncate \/ Write

Spec == Init /\ [][Next]_vars

\* The loop of one goroutine keeps running, and fails if it must; nothing
\* obliges an error of the disk, a rotation, or the server.
FairSpec == Spec /\ WF_vars(ScanBlock \/ ReadRest \/ ReadShort)

-----------------------------------------------------------------------------
(***************************************************************************)
(* Properties.                                                             *)
(***************************************************************************)

\* A block that starts at o would start within the number of a %n prefix.
SplitsNumber(o) == \E l \in lines : l.ofs < o /\ o < l.ofs + Digits

\* log.go: "we're seeking to just before this".  An in-window line of the file,
\* as it is when it is read, lies before the buffer only if a line from before
\* the window was written after it, or if the buffer starts within the number of
\* a %n prefix, or if the file was emptied between the search and the reading. A
\* file that is emptied and written again during the search loses nothing so.
SeeksBeforeWindow ==
  pc = "done" =>
    \A l \in lines : l.at = "new" /\ l.ofs < from =>
      \/ \E m \in lines : m.at = "old" /\ m.ofs > l.ofs
      \/ SplitsNumber(from)
      \/ emptied

\* The slice buf[0:buflen] is never empty, never longer than buf, and never
\* reaches past the length taken at the start, whatever the file's length.
BlockInBounds ==
  pc = "scan" => BlockLen \in 1 .. Block /\ BlockStart + BlockLen <= flen

\* The blocks looked at lie end to end: the next one ends where the last one
\* began, so no byte of the file escapes the search for a time stamp.
BlocksAreAdjacent ==
  [][pc = "scan" /\ pc' = "scan" /\ ofs' # ofs
       => BlockStart' + BlockLen' = BlockStart]_vars

\* readLogLinesText returns, whatever the file holds and the server does.
ScanEnds == <>(pc \in {"done", "error"})
=============================================================================
