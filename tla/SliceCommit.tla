------------------------------- MODULE SliceCommit -------------------------------
(***************************************************************************)
(* What one slice of a stage writes, and in which order (lib/runtime/      *)
(* worker.ts: executeClaimedStage and driveSlices; lib/arms/base.ts;       *)
(* db/migrations/014 and 015): it reads the newest checkpoint of the run,  *)
(* resumes the agent loop found there, hands the stage in with             *)
(* finish_attempt, and only then commits its checkpoint together with its  *)
(* charge to the run budget.  Those are transactions of their own, and     *)
(* another worker may claim the stage between any two.                     *)
(*                                                                         *)
(* The ledger is that of StageEngine.  Left out: cancellation, pauses and  *)
(* the reads of finalizeRun (RunLifecycle), the verdict a slice records    *)
(* before it hands its stage in, and every dimension of the budget but     *)
(* model calls and attempts.                                               *)
(***************************************************************************)
EXTENDS StageEngine

CONSTANTS
    Workers,     \* processes inside driveSlices
    SliceCalls,  \* how many model calls the loop of a slice may make
    Ceiling,     \* run_budgets.max_attempts
    MaxFaults    \* the bound on deaths, lost answers and lost races

ASSUME WorkersAssumption ==
    /\ IsFiniteSet(Workers)
    /\ SliceCalls \subseteq Nat
    /\ Ceiling \in Nat
    /\ MaxFaults \in Nat

VARIABLES
    worker,      \* where each worker is, what it read and what it will write
    checkpoint,  \* the agent loop in the newest row of osirus.checkpoints
    settled,     \* osirus.stage_budget_settlements: the attempts charged,
    spent,       \* and the sum of their model calls
    budget,      \* the run's row of osirus.run_budgets
    planned,     \* how far planRuntimeRun got
    faults       \* what has gone wrong so far

written == <<checkpoint, settled, spent, budget>>
svars == <<run, stage, attempts, claims, settling, worker, written, planned, faults>>

\* A saved agent loop: whose, and after how many model calls.
Loop == [of : Stages \cup {""}, calls : Nat]
NoLoop == [of |-> "", calls |-> 0]

Points == {"idle", "claiming", "granted", "loading", "working", "finishing", "finished",
           "stopping"}

At(point) == [at |-> point, stage |-> "", attempt |-> 0, loop |-> NoLoop, made |-> 0,
              outcome |-> ""]

SInit ==
    /\ Init
    /\ worker = [w \in Workers |-> At("idle")]
    /\ checkpoint = NoLoop
    /\ settled = {}
    /\ spent = 0
    /\ budget = [set |-> FALSE, calls |-> 0, attempts |-> 0]
    /\ planned = "persisted"
    /\ faults = 0

SameLedger == UNCHANGED <<run, stage, attempts, claims, settling>>
Go(w, next) == worker' = [worker EXCEPT ![w] = next]
Fault == faults < MaxFaults /\ faults' = faults + 1

-----------------------------------------------------------------------------
\* The rest of planRuntimeRun: the graph is there before its ceilings are.

SetBudget ==
    /\ planned = "persisted"
    /\ planned' = "budgeted"
    /\ budget' = [budget EXCEPT !.set = TRUE]
    /\ SameLedger
    /\ UNCHANGED <<worker, checkpoint, settled, spent, faults>>

QueueRun ==
    /\ planned = "budgeted"
    /\ planned' = "queued"
    /\ IF CanTransitionRun(run.status, "queued") THEN TransitionRun("queued") ELSE SameLedger
    /\ UNCHANGED <<worker, written, faults>>

-----------------------------------------------------------------------------
\* driveSlices: claim.

Claim(w) ==
    /\ worker[w].at = "idle"
    /\ \/ \E s \in Stages : ClaimPick(s) /\ Go(w, [At("claiming") EXCEPT !.stage = s])
       \/ ClaimNothing /\ UNCHANGED worker
    /\ UNCHANGED <<written, planned, faults>>

FinishClaim(w) ==
    LET s == worker[w].stage IN
    /\ worker[w].at = "claiming"
    /\ \/ /\ ClaimGrant(s)
          /\ Go(w, [worker[w] EXCEPT !.at = "granted", !.attempt = Len(attempts[s]) + 1])
       \/ ClaimExhausted(s) /\ Go(w, At("idle"))
    /\ UNCHANGED <<written, planned, faults>>

\* Mutant: the first slice starts its run whatever became of it.
BeginStageOfAnyRun(w) ==
    /\ worker[w].at = "granted"
    /\ run' = [run EXCEPT !.status = "running"]
    /\ Go(w, [worker[w] EXCEPT !.at = "loading"])
    /\ UNCHANGED <<stage, attempts, claims, settling>>
    /\ UNCHANGED <<written, planned, faults>>

\* executeClaimedStage: startIfQueued, then loadLatestCheckpoint.  The newest
\* checkpoint is the run's, whichever stage wrote it.
BeginStage(w) ==
    /\ worker[w].at = "granted"
    /\ IF run.status \in {"queued", "waiting_for_approval"} THEN StartIfQueued ELSE SameLedger
    /\ Go(w, [worker[w] EXCEPT !.at = "loading"])
    /\ UNCHANGED <<written, planned, faults>>

LoadCheckpoint(w) ==
    /\ worker[w].at = "loading"
    /\ Go(w, [worker[w] EXCEPT !.at = "working", !.loop = checkpoint])
    /\ SameLedger
    /\ UNCHANGED <<written, planned, faults>>

-----------------------------------------------------------------------------
\* The arm.

Failures == {"FAILED_RETRYABLE", "FAILED_FINAL"}

\* Mutant: the loop is filed under the run.
SavedLoopOfRun(s, read, k) == [of |-> "run", calls |-> read.calls + k]

SavedLoop(s, read, k) == [of |-> s, calls |-> read.calls + k]

\* How an outcome leaves the loop that was read: saved with k more calls, done
\* with, or as it was.  A stage that runs no loop, or parks again before its
\* loop, notes no calls; an error is noticed before or after any of these.
ArmResults(s, read, k, outcome) ==
    LET threw == outcome \in Failures \cup {"BLOCKED"} IN
    {result \in [loop : {SavedLoop(s, read, k), NoLoop, read}, made : {0, k}] :
        \/ result = [loop |-> SavedLoop(s, read, k), made |-> k] /\ outcome # "COMPLETE"
        \/ result = [loop |-> NoLoop, made |-> k] /\ (outcome = "COMPLETE" \/ threw)
        \/ result = [loop |-> read, made |-> 0] /\ outcome # "PROGRESS"
        \/ result = [loop |-> read, made |-> k] /\ threw}

RunArm(w) ==
    LET s == worker[w].stage IN
    /\ worker[w].at = "working"
    /\ \E outcome \in Outcomes, k \in SliceCalls :
          \E result \in ArmResults(s, worker[w].loop, k, outcome) :
             Go(w, [worker[w] EXCEPT !.at = "finishing", !.loop = result.loop,
                       !.made = result.made, !.outcome = outcome])
    /\ SameLedger
    /\ UNCHANGED <<written, planned, faults>>

\* A failed heartbeat has told the worker: nothing of the slice is written.
LoseLease(w) ==
    /\ worker[w].at = "working"
    /\ ~IsLive(worker[w].stage, worker[w].attempt)
    /\ Go(w, At("idle"))
    /\ SameLedger
    /\ UNCHANGED <<written, planned, faults>>

\* Mutant: a refused finish_attempt is not noticed.
FinishSliceUnnoticed(w) ==
    LET s == worker[w].stage
        n == worker[w].attempt IN
    /\ worker[w].at = "finishing"
    /\ \/ FinishAttempt(s, n, worker[w].outcome)
       \/ ~IsLive(s, n) /\ SameLedger
    /\ Go(w, [worker[w] EXCEPT !.at = "finished"])
    /\ UNCHANGED <<written, planned, faults>>

FinishSlice(w) ==
    LET s == worker[w].stage
        n == worker[w].attempt IN
    /\ worker[w].at = "finishing"
    /\ \/ /\ FinishAttempt(s, n, worker[w].outcome)
          /\ Go(w, [worker[w] EXCEPT !.at = "finished"])
       \/ /\ ~IsLive(s, n)
          /\ SameLedger
          /\ Go(w, At("idle"))
    /\ UNCHANGED <<written, planned, faults>>

-----------------------------------------------------------------------------
\* checkpoint_stage_budget: one transaction, once per attempt.

\* Mutant: a slice that spends no attempt is not charged at all.
ChargedCallsOfAttempts(slice) == IF RunBudgetAttempts(slice.outcome) = 0 THEN 0 ELSE slice.made

ChargedCalls(slice) == slice.made

\* consume_budget; without a row for the run nothing is counted.
Consumed(slice) ==
    IF ~budget.set THEN budget
    ELSE [budget EXCEPT !.calls = @ + ChargedCalls(slice),
                        !.attempts = @ + RunBudgetAttempts(slice.outcome)]

\* Mutant: only a slice that spends an attempt is charged.
CommitOfAttempts(slice) ==
    IF <<slice.stage, slice.attempt>> \in settled \/ RunBudgetAttempts(slice.outcome) = 0
    THEN UNCHANGED written
    ELSE /\ settled' = settled \cup {<<slice.stage, slice.attempt>>}
         /\ spent' = spent + ChargedCalls(slice)
         /\ checkpoint' = slice.loop
         /\ budget' = Consumed(slice)

Commit(slice) ==
    IF <<slice.stage, slice.attempt>> \in settled
    THEN UNCHANGED written
    ELSE /\ settled' = settled \cup {<<slice.stage, slice.attempt>>}
         /\ spent' = spent + ChargedCalls(slice)
         /\ checkpoint' = slice.loop
         /\ budget' = Consumed(slice)

\* What the committed charge tells the worker.
Exhausted(slice) ==
    /\ <<slice.stage, slice.attempt>> \notin settled
    /\ budget.set
    /\ Consumed(slice).attempts > Ceiling

\* Mutant: the answer of the charge is not looked at.
NeverStops(slice) == slice.outcome = ""

Stops(slice) == BudgetStop(slice.outcome, Exhausted(slice))

Charge(w) ==
    /\ worker[w].at = "finished"
    /\ Commit(worker[w])
    /\ Go(w, At(IF Stops(worker[w]) THEN "stopping" ELSE "idle"))
    /\ SameLedger
    /\ UNCHANGED <<planned, faults>>

\* An error of the call is swallowed: before the commit, or after it.
ChargeFails(w) ==
    /\ worker[w].at = "finished"
    /\ Fault
    /\ Commit(worker[w]) \/ UNCHANGED written
    /\ Go(w, At("idle"))
    /\ SameLedger
    /\ UNCHANGED planned

-----------------------------------------------------------------------------
\* finalizeRun of a worker whose charge crossed a ceiling.

FailExhausted(w) ==
    /\ worker[w].at = "stopping"
    /\ IF run.status \in TerminalRun THEN SameLedger ELSE TransitionRun("failed")
    /\ Go(w, At("idle"))
    /\ UNCHANGED <<written, planned, faults>>

\* A process dies, or the compare-and-set of transitionRun loses a race.
Die(w) ==
    /\ worker[w].at \notin {"idle", "claiming"}
    /\ Fault
    /\ Go(w, At("idle"))
    /\ SameLedger
    /\ UNCHANGED <<written, planned>>

RunOut(s, n) ==
    /\ LeaseExpires(s, n)
    /\ UNCHANGED <<worker, written, planned, faults>>

Wake(s) ==
    /\ DelayElapses(s)
    /\ UNCHANGED <<worker, written, planned, faults>>

-----------------------------------------------------------------------------
Step(w) ==
    \/ Claim(w) \/ FinishClaim(w) \/ BeginStage(w) \/ LoadCheckpoint(w) \/ RunArm(w)
    \/ LoseLease(w) \/ FinishSlice(w) \/ Charge(w) \/ ChargeFails(w)
    \/ FailExhausted(w) \/ Die(w)

SNext ==
    \/ SetBudget \/ QueueRun
    \/ \E w \in Workers : Step(w)
    \/ \E s \in Stages : Wake(s)
    \/ \E s \in Stages : \E n \in DOMAIN attempts[s] : RunOut(s, n)

SSpec == SInit /\ [][SNext]_svars

-----------------------------------------------------------------------------
(* Properties *)

WorkerState == [at : Points, stage : Stages \cup {""}, attempt : Nat, loop : Loop, made : Nat,
                outcome : Outcomes \cup {""}]

STypeOK ==
    /\ worker \in [Workers -> WorkerState]
    /\ checkpoint \in Loop
    /\ settled \in SUBSET (Stages \X Nat)
    /\ spent \in Nat
    /\ budget \in [set : BOOLEAN, calls : Nat, attempts : Nat]
    /\ planned \in {"persisted", "budgeted", "queued"}
    /\ faults \in 0..MaxFaults

\* Slices write the ledger only as the ledger allows.
SliceKeepsLedger == Spec

\* Only a slice that was handed in under its own lease is ever charged: no
\* zombie, and nobody whose stage was given to another, spends the budget
\* (worker.ts rule 3: "only after the lease still holds").
ChargedIsHandedIn ==
    \A id \in settled :
        /\ id[2] \in DOMAIN attempts[id[1]]
        /\ attempts[id[1]][id[2]].status \in {"completed", "failed"}

\* Nothing that was handed in stays uncharged but for a fault: whatever is not in
\* the settlements yet is about to be charged by the worker that handed it in, or
\* its charge was lost to a death or an error, one for each (worker.ts: the charge
\* and the checkpoint are written after finish_attempt).
Unpaid ==
    {id \in UNION {{s} \X DOMAIN attempts[s] : s \in Stages} :
        attempts[id[1]][id[2]].status \in {"completed", "failed"}} \ settled
Owing == {w \in Workers : worker[w].at = "finished"}
HandedInIsCharged == Cardinality(Unpaid) <= Cardinality(Owing) + faults

\* What is charged and what was handed in are the same slices, but for those in
\* flight and those lost to faults, although they are written in transactions of
\* their own, by workers that stall, lose their lease and die in between.
ChargesMatchSlices == ChargedIsHandedIn /\ HandedInIsCharged

\* No checkpoint ever shows calls that nobody was charged for: whatever is
\* lost, refused or raced, a resume cannot count on top of unpaid work.
CheckpointIsPaid == checkpoint.calls <= spent

\* A charge over the ceiling stops its worker and fails the run, so the
\* overshoot is one slice per worker and one more per fault.
OvershootIsBounded == budget.attempts <= Ceiling + Cardinality(Workers) + faults

=================================================================================
