----------------------------- MODULE MCRunLifecycle -----------------------------
(* Small instances of RunLifecycle for TLC. *)
EXTENDS RunLifecycle

\* One stage, whose tool is gated or not.
OneStage == {"a"}
OneDeps == [s \in OneStage |-> {}]
OneOrdinal == [s \in OneStage |-> 0]
OneTry == [s \in OneStage |-> 1]
TwoSlices == [s \in OneStage |-> 2]

\* Where a process may die in these instances: once the run was queued.  A death
\* before that leaves a planning run nobody can complete (see the README).
OnceQueued == Points \ {"queueing"}
=================================================================================
