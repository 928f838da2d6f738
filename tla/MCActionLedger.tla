------------------------------ MODULE MCActionLedger ------------------------------
(* Small instances of ActionLedger for TLC. *)
EXTENDS ActionLedger, TLC

\* Slices are interchangeable, and the properties that are run are safety.
SliceSymmetry == Permutations(Slices)
===================================================================================
