----------------------------- MODULE MCDbCollect -----------------------------
(***************************************************************************)
(* Two databases with tables of the same two OIDs, or of different ones;   *)
(* the first may be named twice.  Every table has everything that a table  *)
(* can have, except where a filter or an extension is the point.           *)
(***************************************************************************)
EXTENDS DbCollect

CONSTANTS A, B

All == DBs \X Oids

Both   == [d \in DBs |-> {1, 2}]
Shared == [d \in DBs |-> IF d = A THEN {1, 2} ELSE {2}]
Unique == [d \in DBs |-> IF d = A THEN {2} ELSE {1}]

Plain ==
  [turns |-> <<A, B, A>>, exists |-> Both, kept |-> All, unnamed |-> TRUE,
   indexed |-> All \ {<<A, 1>>}, disabled |-> All, child |-> All,
   parts |-> {<<A, 1>>, <<B, 2>>}, bloated |-> All, spread |-> {<<B, 1>>, <<B, 2>>},
   pss |-> [d \in DBs |-> "new"], citus |-> {B}, omit |-> {}, sizes |-> TRUE,
   v10 |-> TRUE, changes |-> 0]

Old     == [Plain EXCEPT !.sizes = FALSE, !.v10 = FALSE, !.omit = {"extensions", "indexdefs"}]
NoSizes == [Plain EXCEPT !.sizes = FALSE, !.changes = 1,
                         !.pss = [d \in DBs |-> IF d = A THEN "old" ELSE "new"]]

\* Lock timeouts in a schema that does not change; changes without lock
\* timeouts; a little of both; and the filters and omissions.
MCWorlds ==
  {[Plain EXCEPT !.exists = e] : e \in {Both, Shared}}
    \cup {[NoSizes EXCEPT !.exists = e] : e \in {Shared, Unique}}
    \cup {[Plain EXCEPT !.exists = Shared, !.changes = 1, !.omit = {"citus"}],
          [Plain EXCEPT !.kept = All \ {<<A, 1>>, <<B, 2>>}],
          [NoSizes EXCEPT !.kept = All \ {<<A, 2>>}, !.unnamed = FALSE],
          [Old EXCEPT !.changes = 1], [Old EXCEPT !.omit = {"indexes", "triggers"}],
          [Old EXCEPT !.turns = <<A>>]}
=============================================================================
