----------------------------- MODULE MCLogReader -----------------------------
(***************************************************************************)
(* Logs small enough to enumerate: up to two text files of three pieces    *)
(* and three of one piece, drawn from the six pieces below; up to two csv  *)
(* files of three records, drawn from five.                                *)
(***************************************************************************)
EXTENDS LogReader

Piece(at, sev, det, msg) ==
  [at |-> at, severity |-> sev, detail |-> det, msg |-> msg, fields |-> "other"]

MCPieces == {Piece("new", TRUE, FALSE, "plain"),
             Piece("new", TRUE, FALSE, "deadlock"),
             Piece("new", FALSE, TRUE, "plain"),
             Piece("new", FALSE, FALSE, "plain"),
             Piece("old", TRUE, FALSE, "plan"),
             Piece("bad", TRUE, FALSE, "plain")}

Record(at, det, msg, fields) ==
  [at |-> at, severity |-> TRUE, detail |-> det, msg |-> msg, fields |-> fields]

MCRecords == {Record("new", FALSE, "vacuum", "23"),
              Record("new", TRUE, "deadlock", "23"),
              Record("old", FALSE, "plan", "23"),
              Record("bad", FALSE, "plain", "23"),
              Record("new", FALSE, "plan", "other"),
              Record("new", FALSE, "plain", "torn")}

UpTo(S, n) == UNION {[1 .. m -> S] : m \in 0 .. n}

MCInputs ==
       {[csv |-> FALSE, files |-> fs] : fs \in UpTo(UpTo(MCPieces, 2), 2)}
  \cup {[csv |-> FALSE, files |-> <<f, g>>] :
          f \in UpTo(MCPieces, 3), g \in UpTo(MCPieces, 1)}
  \cup {[csv |-> FALSE, files |-> <<f, g>>] :
          f \in UpTo(MCPieces, 1), g \in UpTo(MCPieces, 3)}
  \cup {[csv |-> FALSE, files |-> fs] : fs \in [1 .. 3 -> UpTo(MCPieces, 1)]}
  \cup {[csv |-> TRUE,  files |-> fs] : fs \in UpTo(UpTo(MCRecords, 2), 2)}
=============================================================================
