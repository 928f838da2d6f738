------------------------------- MODULE Settlement -------------------------------
(***************************************************************************)
(* The worker/engine contract of lib/runtime/settlement.ts: how what an    *)
(* arm reports about one slice of a stage becomes the arguments of one     *)
(* finish_attempt call.  Durations are abstracted to "no delay" and "some  *)
(* delay": the claim scan only asks whether runnable_after has come.       *)
(***************************************************************************)
EXTENDS Naturals

\* StageOutcome of lib/arms/types.ts.  WAITING is split by how the wait
\* ends: by a person (an approval, or the answer to a question the agent
\* asked), by an event with no deadline, or at a time (schedule, poll, or an
\* event with a deadline); FAILED by its retryable flag.
Outcome == {"COMPLETE", "PROGRESS", "WAITING_APPROVAL", "WAITING_HUMAN",
            "WAITING_EVENT", "WAITING_TIMED", "BLOCKED",
            "FAILED_RETRYABLE", "FAILED_FINAL"}

Waiting == {"WAITING_APPROVAL", "WAITING_HUMAN", "WAITING_EVENT", "WAITING_TIMED"}

\* waitingOn, as stageProgress and the release statements read it.
WaitKind == {"none", "approval", "human", "external"}
WaitingOn(outcome) ==
    CASE outcome = "WAITING_APPROVAL" -> "approval"
      [] outcome = "WAITING_HUMAN"    -> "human"
      [] outcome = "WAITING_EVENT"    -> "external"
      [] OTHER                        -> "none"

\* parkingFor: a wait with a due time is a blocked stage with a delay, any
\* other wait is a waiting stage only a release wakes.
ParkedStatus(outcome) == IF outcome = "WAITING_TIMED" THEN "blocked" ELSE "waiting"

\* retryAttemptsLeft: attempt_count already counts the try that just failed.
RetryAttemptsLeft(attemptCount, maxAttempts) == attemptCount < maxAttempts

\* Mutant: a failure is reported with a status finish_attempt does not know.
SettledAttemptError(outcome) ==
    IF outcome \in {"FAILED_RETRYABLE", "FAILED_FINAL"} THEN "error" ELSE "completed"

SettledAttempt(outcome) ==
    IF outcome \in {"FAILED_RETRYABLE", "FAILED_FINAL"} THEN "failed" ELSE "completed"

SettledStage(outcome, attemptsLeft) ==
    CASE outcome = "COMPLETE"              -> "completed"
      [] outcome \in {"PROGRESS", "BLOCKED"} -> "blocked"
      [] outcome \in Waiting               -> ParkedStatus(outcome)
      [] outcome = "FAILED_RETRYABLE"      -> IF attemptsLeft THEN "blocked" ELSE "failed"
      [] OTHER                             -> "failed"

Delayed(outcome, attemptsLeft) ==
    \/ outcome \in {"BLOCKED", "WAITING_TIMED"}
    \/ outcome = "FAILED_RETRYABLE" /\ attemptsLeft

\* The run-budget attempts a settled slice spends.
RunBudgetAttempts(outcome) ==
    IF outcome \in Waiting \cup {"FAILED_FINAL"} THEN 0 ELSE 1

\* Whether the charge that came back with the checkpoint ends the slice.
BudgetStop(outcome, exhausted) == exhausted /\ RunBudgetAttempts(outcome) = 1
=================================================================================
