------------------------------- MODULE Variants -------------------------------
(***************************************************************************)
(* Variants: tuples of natural numbers that every step of a program makes  *)
(* smaller, the first number that changes deciding.  There is no infinite  *)
(* descent of them (LogReaderProofs!LeastVariant), so a program that has   *)
(* one takes finitely many steps.                                          *)
(***************************************************************************)
EXTENDS Integers, Sequences

Below(a, b) == \E k \in DOMAIN b : a[k] < b[k] /\ \A j \in 1 .. k - 1 : a[j] = b[j]
=============================================================================
