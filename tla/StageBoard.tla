------------------------------- MODULE StageBoard -------------------------------
(***************************************************************************)
(* What the durable ledger promises to whoever works on a run: a board of  *)
(* stages, each worked on by at most one holder at a time, taken only when *)
(* everything it depends on is done, and never taken or reopened once it   *)
(* is done.  There are no leases, attempts, ceilings, waits or locks here. *)
(***************************************************************************)
EXTENDS Naturals

CONSTANTS Stages, DependsOn

VARIABLES
    phase,  \* "idle", "held", or how the stage ended
    epoch   \* how often the stage has been taken

vars == <<phase, epoch>>

Results == {"completed", "failed", "skipped"}

Init ==
    /\ phase = [s \in Stages |-> "idle"]
    /\ epoch = [s \in Stages |-> 0]

Take(s) ==
    /\ phase[s] = "idle"
    /\ \A d \in DependsOn[s] : phase[d] \in {"completed", "skipped"}
    /\ phase' = [phase EXCEPT ![s] = "held"]
    /\ epoch' = [epoch EXCEPT ![s] = @ + 1]

\* The holder hands in its stage: a result, or unfinished.
HandIn(s, to) ==
    /\ phase[s] = "held"
    /\ phase' = [phase EXCEPT ![s] = to]
    /\ UNCHANGED epoch

\* Holders that disappeared lose their stages.
Lose(lost) ==
    /\ \A s \in lost : phase[s] = "held"
    /\ phase' = [s \in Stages |-> IF s \in lost THEN "idle" ELSE phase[s]]
    /\ UNCHANGED epoch

\* A stage that has been taken before is not tried again.
GiveUp(s, to) ==
    /\ phase[s] = "idle"
    /\ epoch[s] > 0
    /\ phase' = [phase EXCEPT ![s] = to]
    /\ UNCHANGED epoch

\* Stages are dropped: one by a rejection, or all that are left.
Drop(dropped) ==
    /\ \A s \in dropped : phase[s] \in {"idle", "held"}
    /\ phase' = [s \in Stages |-> IF s \in dropped THEN "dropped" ELSE phase[s]]
    /\ UNCHANGED epoch

\* A drop may overtake a holder, which then still hands in what it has.
Overrun(s, to) ==
    /\ phase[s] = "dropped"
    /\ epoch[s] > 0
    /\ phase' = [phase EXCEPT ![s] = to]
    /\ UNCHANGED epoch

Next ==
    \/ \E s \in Stages :
          \/ Take(s)
          \/ \E to \in {"completed", "failed", "idle"} : HandIn(s, to) \/ Overrun(s, to)
          \/ \E to \in {"failed", "skipped"} : GiveUp(s, to)
    \/ \E some \in SUBSET Stages : Lose(some) \/ Drop(some)

Spec == Init /\ [][Next]_vars
=================================================================================
