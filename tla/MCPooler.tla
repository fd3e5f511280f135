------------------------------- MODULE MCPooler -------------------------------
(***************************************************************************)
(* Two clients and a server connection in two pools, with waits of         *)
(* less and of more than a second; each version with another set of        *)
(* columns, and one that is not known.  Three backends of Pgpool.          *)
(***************************************************************************)
EXTENDS Pooler

Bouncer(versions, n) == [mode : {"pgbouncer"}, version : versions, changes : {n}]

MCWorlds == Bouncer({15, 16, 18, 21, 23, 24}, 0) \cup Bouncer({23}, 1)
              \cup [mode : {"pgpool"}, version : {40, 41, 42, 43, 46}, changes : {2}]
=============================================================================
