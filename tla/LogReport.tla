------------------------------ MODULE LogReport ------------------------------
(***************************************************************************)
(* What the log section of a report promises, independently of how the     *)
(* collector reads files: the entries of the log, in order, each exactly   *)
(* once and each with the continuation lines (DETAIL, HINT, STATEMENT...)  *)
(* that PostgreSQL wrote under it.  A source that could not be read to its *)
(* end is `lost': what it held after the last reported entry is missing,   *)
(* but nothing of it is invented, repeated or reordered.                   *)
(*                                                                         *)
(* A log is a sequence of files, a file a sequence of lines.  A line is    *)
(* named by its place <<file, line>> in the log, so that two lines with    *)
(* the same text are still two lines.                                      *)
(***************************************************************************)
EXTENDS Naturals, Sequences, FiniteSets

VARIABLES
  files,                   \* the log: a sequence of sequences of lines
  csv,                     \* TRUE if the files are in the csvlog format
  reported,                \* the entries reported so far
  lost                     \* the files given up before their end

absVars == <<files, csv, reported, lost>>

Ref == (1 .. Len(files)) \X (Nat \ {0})
LineAt(r) == files[r[1]][r[2]]
LinesOf(f) == DOMAIN files[f]

\* The order in which lines are written.
Before(r, s) == r[1] < s[1] \/ (r[1] = s[1] /\ r[2] < s[2])

InWindow(f, k) == files[f][k].at = "new"

\* A line that opens an entry: every record of a csv file, in a text file a
\* line whose level is one of the severities.
Opens(f, k) == InWindow(f, k) /\ (csv \/ files[f][k].severity)

\* The in-window continuation lines of the entry opened by line k of file f; a csv
\* record carries its own DETAIL.
Under(f, k) ==
  IF csv
  THEN {r \in {<<f, k>>} : files[f][k].detail}
  ELSE {r \in {f} \X LinesOf(f) : /\ r[2] > k
                                  /\ InWindow(f, r[2])
                                  /\ \A j \in k + 1 .. r[2] : ~Opens(f, j)}

\* The lines of S in their order, as a sequence: the one function from these
\* numbers to S that keeps the order has all of S.
Listing(S) ==
  {s \in [1 .. Cardinality(S) -> S] : \A i, j \in DOMAIN s : i < j => Before(s[i], s[j])}

Heads == {r \in UNION {{f} \X LinesOf(f) : f \in DOMAIN files} : Opens(r[1], r[2])}

IsReported(r) == \E i \in DOMAIN reported : reported[i].head = r

-----------------------------------------------------------------------------
AbsInit == reported = <<>> /\ lost = {}

\* The next entry: nothing before it is skipped but in files that were lost.
Report ==
  \E h \in Heads :
    /\ \A i \in DOMAIN reported : Before(reported[i].head, h)
    /\ \A r \in Heads : Before(r, h) => IsReported(r) \/ r[1] \in lost
    /\ \E lines \in Listing(Under(h[1], h[2])) :
         reported' = Append(reported, [head |-> h, extra |-> lines])
    /\ UNCHANGED lost

Lose == /\ \E f \in DOMAIN files : lost' = lost \cup {f}
        /\ UNCHANGED reported

AbsNext == (Report \/ Lose) /\ UNCHANGED <<files, csv>>

AbsSpec == AbsInit /\ [][AbsNext]_absVars
=============================================================================
