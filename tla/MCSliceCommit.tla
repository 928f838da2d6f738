------------------------------ MODULE MCSliceCommit ------------------------------
(* Small instances of SliceCommit for TLC. *)
EXTENDS SliceCommit, TLC

\* Two stages in sequence: b waits for a.
ChainStages == {"a", "b"}
ChainDeps == [s \in ChainStages |-> IF s = "b" THEN {"a"} ELSE {}]
ChainOrdinal == [s \in ChainStages |-> IF s = "a" THEN 0 ELSE 1]
ChainTries == [s \in ChainStages |-> IF s = "a" THEN 2 ELSE 1]
ChainSlices == [s \in ChainStages |-> 2]

\* Workers are interchangeable, and the properties that are run are safety.
WorkerSymmetry == Permutations(Workers)
=================================================================================
