------------------------------- MODULE MCEventWaits -------------------------------
(* Small instances of EventWaits for TLC. *)
EXTENDS EventWaits
===================================================================================
