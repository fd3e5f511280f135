------------------------------ MODULE MCLogFiles ------------------------------
(***************************************************************************)
(* A server that writes to d1, or c1 in csv format, and rotates to d2 or   *)
(* c2; w has the name of d1 in the working directory. A log directory with *)
(* two formats and a packed file; /var/log/postgresql has a log of another *)
(* server and a directory. Three files of RDS, two of them written within  *)
(* the same second.                                                        *)
(***************************************************************************)
EXTENDS LogFiles

CONSTANTS u, g1, g2, gz, d1, d2, c1, c2, w, v, vdir, r1, r2, r3

MCPlace(f) == CASE f = u -> "user" [] f \in {g1, g2, gz} -> "given"
                [] f \in {d1, d2, c1, c2} -> "data" [] f = w -> "cwd" [] OTHER -> "var"
MCFormat(f) == CASE f = gz -> "gz" [] f = vdir -> "dir" [] f \in {c1, c2, g2} -> "csvlog"
                 [] OTHER -> "stderr"
MCNamesake(f) == IF f = d1 THEN w ELSE NoFile

Local ==
  [logFile : {NoFile}, logDir : {"none"}, csv : BOOLEAN, v10 : BOOLEAN, prefix : BOOLEAN,
   there : {{d1, c1}, {d1, c1, w, v}, {d1, c1, v, vdir}},
   current : {[format \in Formats |-> IF format = "csvlog" THEN c1 ELSE d1]},
   rds : {FALSE}, lengths : {[f \in RDSFiles |-> 0]}, last : {[f \in RDSFiles |-> 0]},
   start : {0}, rotates : {2}, writes : {0}]

Named ==
  {[l EXCEPT !.logFile = n, !.logDir = d, !.there = @ \cup t, !.rotates = 1] :
     l \in {k \in Local : k.v10 /\ k.there # {d1, c1}}, n \in {NoFile, u},
     d \in {"given", "missing"}, t \in {{u}, {gz}, {g1, g2, gz}}}

Remote ==
  {[l EXCEPT !.there = {}, !.rds = TRUE, !.start = s, !.rotates = 0, !.writes = 3,
             !.lengths = [f \in RDSFiles |-> IF f = r1 THEN n ELSE IF f = r2 THEN 2 ELSE 1],
             !.last = [f \in RDSFiles |-> IF f = r1 THEN 5 ELSE IF f = r2 THEN 4 ELSE 1]] :
     l \in {k \in Local : k.csv /\ ~k.v10 /\ k.there = {d1, c1}}, n \in {0, 3}, s \in {0, 1}}

MCWorlds == Local \cup Named \cup Remote
=============================================================================
