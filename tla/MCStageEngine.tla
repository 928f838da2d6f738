------------------------------ MODULE MCStageEngine ------------------------------
(* Small instances of StageEngine for TLC. *)
EXTENDS StageEngine

\* Two stages in sequence: b waits for a.
ChainStages == {"a", "b"}
ChainDeps == [s \in ChainStages |-> IF s = "b" THEN {"a"} ELSE {}]
ChainOrdinal == [s \in ChainStages |-> IF s = "a" THEN 0 ELSE 1]
ChainAttempts == [s \in ChainStages |-> IF s = "a" THEN 2 ELSE 1]
ChainSlices == [s \in ChainStages |-> IF s = "a" THEN 3 ELSE 2]
==================================================================================
