------------------------------ MODULE MCSessions ------------------------------
(***************************************************************************)
(* An object of a database and one of none.  Two clients with a worker or  *)
(* a prepared transaction, or three clients and one step; each of the      *)
(* three ways to ask for blockers and sessions.                            *)
(***************************************************************************)
EXTENDS Sessions

CONSTANTS w, x

Pairs == {S \in SUBSET Clients : Cardinality(S) = 2}

Kinds(v, n, procs) == [version : {v}, moves : {n}, procs : procs]

Singles == {S \in SUBSET Clients : Cardinality(S) = 1}

MCWorlds ==
  Kinds(95, 2, Pairs) \cup Kinds(96, 3, Pairs) \cup Kinds(100, 1, {Clients})
    \cup Kinds(100, 1, {S \cup {x} : S \in Pairs})
    \cup Kinds(100, 1, {S \cup {w} : S \in Singles})

Alike == Permutations(Clients)
=============================================================================
