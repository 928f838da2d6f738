------------------------------ MODULE MCAutomations -------------------------------
(* Small instances of Automations for TLC. *)
EXTENDS Automations, TLC

\* Starters are interchangeable; used where the properties that are run are safety.
StarterSymmetry == Permutations(Starters)
===================================================================================
