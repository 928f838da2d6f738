---------------------------- MODULE RunStateMachine ----------------------------
(***************************************************************************)
(* The status vocabularies of runs, stages and attempts and the two        *)
(* transition tables of lib/runtime/state-machine.ts.  The SQL functions   *)
(* and the repository write statuses without consulting the tables; the    *)
(* engine modules state as action properties that they honour them anyway. *)
(***************************************************************************)

TerminalRun == {"completed", "failed", "cancelled"}
TerminalStage == {"completed", "failed", "skipped", "cancelled"}

\* The table as a set of edges, one group per source status.
RunEdges ==
    ({"created"} \X {"planning", "queued", "cancelling", "failed"})
    \cup ({"planning"} \X {"queued", "running", "blocked", "cancelling", "failed"})
    \cup ({"queued"} \X {"running", "blocked", "cancelling", "failed"})
    \cup ({"running"} \X {"waiting_for_approval", "verifying", "repairing",
                          "blocked", "cancelling", "completed", "failed"})
    \cup ({"waiting_for_approval"} \X {"running", "blocked", "cancelling", "failed"})
    \cup ({"verifying"} \X {"repairing", "completed", "cancelling", "failed"})
    \cup ({"repairing"} \X {"running", "verifying", "blocked", "cancelling", "failed"})
    \cup ({"blocked"} \X {"queued", "running", "cancelling", "failed"})
    \cup ({"cancelling"} \X {"cancelled", "failed"})

StageEdges ==
    ({"pending"} \X {"running", "waiting", "blocked", "skipped", "cancelled"})
    \cup ({"running"} \X {"waiting", "blocked", "failed", "completed", "cancelled"})
    \cup ({"waiting"} \X {"running", "blocked", "failed", "cancelled"})
    \cup ({"blocked"} \X {"running", "failed", "skipped", "cancelled"})

RunStatus == {"created", "planning", "queued", "running",
              "waiting_for_approval", "verifying", "repairing", "blocked",
              "cancelling"} \cup TerminalRun
StageStatus == {"pending", "running", "waiting", "blocked"} \cup TerminalStage
OpenStage == StageStatus \ TerminalStage

CanTransitionRun(from, to) == from = to \/ <<from, to>> \in RunEdges
CanTransitionStage(from, to) == from = to \/ <<from, to>> \in StageEdges
================================================================================
