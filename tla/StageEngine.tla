------------------------------ MODULE StageEngine ------------------------------
(***************************************************************************)
(* The durable ledger of one run: the run row, its stages and their        *)
(* attempts, with every SQL function and repository statement that writes  *)
(* them (db/migrations/008, 022 and lib/runtime/repository.ts).            *)
(*                                                                         *)
(* Whoever calls is left open: any action may happen whenever its guard    *)
(* holds, so what is shown here holds for requests, polls, scheduler ticks *)
(* and workers that stalled for an hour and woke up.  A caller is known to *)
(* the ledger only as the attempt <<s, n>> whose lease token it holds: the *)
(* token is minted per claim, so attempt and token are the same identity.  *)
(*                                                                         *)
(* Time is abstract.  A lease is live until LeaseExpires, a delay lasts    *)
(* until DelayElapses, and either may happen at any moment.                *)
(*                                                                         *)
(* A statement is one step, at the READ COMMITTED isolation the client     *)
(* uses.  Two statements are two steps, because they decide on a snapshot  *)
(* and write later: a claim (ClaimPick, then ClaimGrant or ClaimExhausted  *)
(* under the row lock of FOR UPDATE SKIP LOCKED) and the closing of a      *)
(* cancelled run (SettleCancelBegin, SettleCancelCommit).                  *)
(***************************************************************************)
EXTENDS Naturals, Sequences, FiniteSets, RunStateMachine, Settlement

CONSTANTS
    Stages,       \* the stages of the run's graph
    DependsOn,    \* run_stage_dependencies: the stages each stage waits for
    Ordinal,      \* run_stages.ordinal
    MaxAttempts,  \* retry_policy.maxAttempts of each stage
    MaxSlices,    \* retry_policy.maxSlices of each stage (64 by default)
    SkipStages,   \* the stages whose failure_policy is skip_stage
    Outcomes      \* the outcomes arms report in this instance

ASSUME StagesAssumption ==
    /\ DependsOn \in [Stages -> SUBSET Stages]
    /\ Ordinal \in [Stages -> Nat]
    /\ MaxAttempts \in [Stages -> Nat \ {0}]
    /\ MaxSlices \in [Stages -> Nat \ {0}]
    /\ SkipStages \subseteq Stages
    /\ Outcomes \subseteq Outcome

VARIABLES
    run,       \* the row of osirus.runs
    stage,     \* the rows of osirus.run_stages
    attempts,  \* the rows of osirus.run_attempts, by stage, in attempt_number order
    claims,    \* stages row-locked by a claim that has not committed
    settling   \* the attempts a cancellation being settled saw open, or NotSettling

vars == <<run, stage, attempts, claims, settling>>

OpenAttempt == {"claimed", "running"}
RetryAfter == {"failed", "lost", "cancelled"}
AttemptStatus == OpenAttempt \cup RetryAfter \cup {"completed"}

RunRow == [status : RunStatus, cancelRequested : BOOLEAN, paused : BOOLEAN]
StageRow == [status : StageStatus, after : {"none", "future", "due"},
             waitingOn : WaitKind, attemptCount : Nat, sliceCount : Nat]
\* A lease that expired and one that was given back are both over.
AttemptRow == [status : AttemptStatus, lease : {"live", "over"}]

\* set status = ..., runnable_after = null
Moved(row, status) == [row EXCEPT !.status = status, !.after = "none"]

NotSettling == [active |-> FALSE, saw |-> {}]

Init ==
    /\ run = [status |-> "planning", cancelRequested |-> FALSE, paused |-> FALSE]
    /\ stage = [s \in Stages |-> [status |-> "pending", after |-> "none",
                   waitingOn |-> "none", attemptCount |-> 0, sliceCount |-> 0]]
    /\ attempts = [s \in Stages |-> <<>>]
    /\ claims = {}
    /\ settling = NotSettling

\* The attempts that hold a stage, and those whose fence still admits a write.
IsOpen(s, n) == n \in DOMAIN attempts[s] /\ attempts[s][n].status \in OpenAttempt
IsLive(s, n) == IsOpen(s, n) /\ attempts[s][n].lease = "live"
OpenIds == UNION {{<<s, n>> : n \in {m \in DOMAIN attempts[s] : IsOpen(s, m)}} : s \in Stages}
AnyLive == \E s \in Stages : \E n \in DOMAIN attempts[s] : IsLive(s, n)

-----------------------------------------------------------------------------
\* claim_next_stage

\* The first two statements: expired holders are lost, and a running stage
\* with nobody behind it goes back to blocked.
\* Mutant: expired holders are not retired.
Unretired(row) == row

Retired(row) ==
    IF row.status \in OpenAttempt /\ row.lease = "over"
    THEN [row EXCEPT !.status = "lost"] ELSE row

ReapedAttempts ==
    [s \in Stages |-> [n \in DOMAIN attempts[s] |-> Retired(attempts[s][n])]]

\* Mutant: every running stage is taken for an orphan.
RunningIsOrphaned(s) == stage[s].status = "running"

Orphaned(s) == stage[s].status = "running" /\ ~\E n \in DOMAIN attempts[s] : IsLive(s, n)

\* Mutant: the stage of a lost attempt is not sent back.
UnreapedStage == stage

ReapedStage ==
    [s \in Stages |-> IF Orphaned(s) THEN [stage[s] EXCEPT !.status = "blocked"]
                                     ELSE stage[s]]

\* The pick.  The run gate, the due time and the edges are conditions of the
\* same SELECT that takes the row lock.
RunClaimable ==
    /\ ~run.cancelRequested
    /\ run.status \notin TerminalRun \cup {"cancelling"}
    /\ ~run.paused

DepsMet(s) == \A d \in DependsOn[s] : stage[d].status \in {"completed", "skipped"}

\* Mutant: the edges are not consulted.
ClaimableIgnoringEdges(s) ==
    /\ s \notin claims
    /\ ReapedStage[s].status \in {"pending", "blocked"}
    /\ stage[s].after # "future"

Claimable(s) ==
    /\ s \notin claims
    /\ ReapedStage[s].status \in {"pending", "blocked"}
    /\ stage[s].after # "future"
    /\ DepsMet(s)

\* ORDER BY runnable_after NULLS FIRST, ordinal: two delays that have both
\* come are not told apart, so their order is left open.
Before(s, t) ==
    \/ stage[s].after = "none" /\ stage[t].after = "due"
    \/ stage[s].after = "none" /\ stage[t].after = "none" /\ Ordinal[s] < Ordinal[t]

ClaimPick(s) ==
    /\ RunClaimable
    /\ Claimable(s)
    /\ \A t \in Stages : Claimable(t) => ~Before(t, s)
    /\ attempts' = ReapedAttempts
    /\ stage' = ReapedStage
    /\ claims' = claims \cup {s}
    /\ UNCHANGED <<run, settling>>

ClaimNothing ==
    /\ ~(RunClaimable /\ \E s \in Stages : Claimable(s))
    /\ attempts' = ReapedAttempts
    /\ stage' = ReapedStage
    /\ UNCHANGED <<run, claims, settling>>

\* Only a claim that follows a failed, lost or cancelled attempt is a retry.
\* Mutant: every claim counts as a retry.
EveryClaimIsRetry(s) == s \in Stages

IsRetry(s) ==
    attempts[s] # <<>> => attempts[s][Len(attempts[s])].status \in RetryAfter

\* Mutant: only retries are bounded.
RetriesSpentOut(s) == IsRetry(s) /\ stage[s].attemptCount >= MaxAttempts[s]

SpentOut(s) ==
    \/ stage[s].sliceCount >= MaxSlices[s]
    \/ IsRetry(s) /\ stage[s].attemptCount >= MaxAttempts[s]

ClaimExhausted(s) ==
    /\ s \in claims
    /\ SpentOut(s)
    /\ stage' = [stage EXCEPT ![s].status = IF s \in SkipStages THEN "skipped" ELSE "failed"]
    /\ claims' = claims \ {s}
    /\ UNCHANGED <<run, attempts, settling>>

ClaimGrant(s) ==
    /\ s \in claims
    /\ ~SpentOut(s)
    /\ attempts' = [attempts EXCEPT ![s] =
                       Append(@, [status |-> "claimed", lease |-> "live"])]
    /\ stage' = [stage EXCEPT
                    ![s].status = "running",
                    ![s].attemptCount = IF IsRetry(s) THEN @ + 1 ELSE @,
                    ![s].sliceCount = @ + 1]
    /\ claims' = claims \ {s}
    /\ UNCHANGED <<run, settling>>

-----------------------------------------------------------------------------
\* What the holder of an attempt does, and what time does to it.

HeartbeatAttempt(s, n) ==
    /\ IsLive(s, n)
    /\ attempts' = [attempts EXCEPT ![s][n].status = "running"]
    /\ UNCHANGED <<run, stage, claims, settling>>

\* Mutant: finish_attempt without its fence.
FinishUnfenced(s, n, outcome) ==
    LET left == RetryAttemptsLeft(stage[s].attemptCount, MaxAttempts[s]) IN
    /\ attempts' = [attempts EXCEPT ![s][n] =
                       [status |-> SettledAttempt(outcome), lease |-> "over"]]
    /\ stage' = [stage EXCEPT
                    ![s].status = SettledStage(outcome, left),
                    ![s].after = IF Delayed(outcome, left) THEN "future" ELSE "none",
                    ![s].waitingOn = WaitingOn(outcome)]
    /\ UNCHANGED <<run, claims, settling>>

\* finish_attempt: fenced on token, status and lease, not on the run.
FinishAttempt(s, n, outcome) ==
    LET left == RetryAttemptsLeft(stage[s].attemptCount, MaxAttempts[s]) IN
    /\ IsLive(s, n)
    /\ attempts' = [attempts EXCEPT ![s][n] =
                       [status |-> SettledAttempt(outcome), lease |-> "over"]]
    /\ stage' = [stage EXCEPT
                    ![s].status = SettledStage(outcome, left),
                    ![s].after = IF Delayed(outcome, left) THEN "future" ELSE "none",
                    ![s].waitingOn = WaitingOn(outcome)]
    /\ UNCHANGED <<run, claims, settling>>

LeaseExpires(s, n) ==
    /\ IsLive(s, n)
    /\ attempts' = [attempts EXCEPT ![s][n].lease = "over"]
    /\ UNCHANGED <<run, stage, claims, settling>>

DelayElapses(s) ==
    /\ stage[s].after = "future"
    /\ stage' = [stage EXCEPT ![s].after = "due"]
    /\ UNCHANGED <<run, attempts, claims, settling>>

-----------------------------------------------------------------------------
\* The run row.  A settling cancellation holds its lock.

RunUnlocked == ~settling.active

\* transitionRun, with every target a caller passes; the compare-and-set on
\* the status read makes read and write one step.
TransitionTargets == {"queued", "running", "waiting_for_approval",
                      "completed", "failed", "cancelled"}

TransitionRun(to) ==
    /\ RunUnlocked
    /\ CanTransitionRun(run.status, to)
    /\ run' = [run EXCEPT !.status = to]
    /\ UNCHANGED <<stage, attempts, claims, settling>>

StartIfQueued ==
    /\ RunUnlocked
    /\ run.status \in {"queued", "waiting_for_approval"}
    /\ run' = [run EXCEPT !.status = "running"]
    /\ UNCHANGED <<stage, attempts, claims, settling>>

SetCodingPaused(paused) ==
    /\ RunUnlocked
    /\ run.status \notin TerminalRun \cup {"cancelling"}
    /\ run.paused # paused
    /\ run' = [run EXCEPT !.paused = paused]
    /\ UNCHANGED <<stage, attempts, claims, settling>>

RequestCancellation ==
    /\ RunUnlocked
    /\ run' = [run EXCEPT !.cancelRequested = TRUE,
                          !.status = IF @ \in TerminalRun THEN @ ELSE "cancelling"]
    /\ UNCHANGED <<stage, attempts, claims, settling>>

\* settleCancellationWithoutWorker: the snapshot in which no attempt holds a
\* live lease, then the writes, which wait for the rows claims have locked.
SettleCancelBegin ==
    /\ RunUnlocked
    /\ run.status = "cancelling"
    /\ ~AnyLive
    /\ settling' = [active |-> TRUE, saw |-> OpenIds]
    /\ UNCHANGED <<run, stage, attempts, claims>>

SettleCancelCommit ==
    /\ settling.active
    /\ claims = {}
    /\ run' = [run EXCEPT !.status = "cancelled", !.cancelRequested = TRUE]
    /\ stage' = [s \in Stages |->
                    IF stage[s].status \in OpenStage
                    THEN Moved(stage[s], "cancelled") ELSE stage[s]]
    /\ attempts' = [s \in Stages |-> [n \in DOMAIN attempts[s] |->
                       IF <<s, n>> \in settling.saw /\ IsOpen(s, n)
                       THEN [status |-> "cancelled", lease |-> "over"]
                       ELSE attempts[s][n]]]
    /\ settling' = NotSettling
    /\ UNCHANGED claims

-----------------------------------------------------------------------------
\* What ends a wait.

WaitsOnPerson(s) == stage[s].status = "waiting" /\ stage[s].waitingOn \in {"approval", "human"}

\* Mutant: a release resumes the run whatever its status.
ResumeAnyRun(released) ==
    IF RunUnlocked /\ \A t \in Stages \ released : ~WaitsOnPerson(t)
    THEN run' = [run EXCEPT !.status = "running"]
    ELSE UNCHANGED run

\* The run leaves waiting_for_approval with the last stage that waits on a person.
ResumeRun(released) ==
    IF /\ run.status = "waiting_for_approval"
       /\ RunUnlocked
       /\ \A t \in Stages \ released : ~WaitsOnPerson(t)
    THEN run' = [run EXCEPT !.status = "running"]
    ELSE UNCHANGED run

\* Mutant: a decision moves its stage whether or not the stage is waiting.
ResolveAnyStage(s, decision) ==
    /\ stage' = [stage EXCEPT ![s].status = IF decision = "approved" THEN "blocked" ELSE "cancelled"]
    /\ IF decision = "approved" THEN ResumeRun({s}) ELSE UNCHANGED run
    /\ UNCHANGED <<attempts, claims, settling>>

\* The stage half of resolveApproval, for a decision on an approval of s.
\* The decision resumes the run whether or not the stage has parked yet.
ResolveStage(s, decision) ==
    /\ stage' = [stage EXCEPT ![s] =
                    IF @.status # "waiting" THEN @
                    ELSE Moved(@, IF decision = "approved" THEN "blocked" ELSE "cancelled")]
    /\ IF decision = "approved" THEN ResumeRun({s}) ELSE UNCHANGED run
    /\ UNCHANGED <<attempts, claims, settling>>

\* releaseDecidedApprovalWaits, for the stages with nothing left to decide.
ReleaseStages(released) ==
    /\ released # {}
    /\ \A s \in released : stage[s].status = "waiting" /\ stage[s].waitingOn = "approval"
    /\ stage' = [s \in Stages |->
                    IF s \in released
                    THEN Moved(stage[s], "blocked") ELSE stage[s]]
    /\ ResumeRun(released)
    /\ UNCHANGED <<attempts, claims, settling>>

\* releaseWaits: a webhook delivery wakes a stage parked on the outside world.
\* A stage keeps the wait in its output until another outcome replaces it, so
\* a blocked stage is released too, whatever parked it last.
WebhookRelease(s) ==
    /\ run.status \notin TerminalRun \cup {"cancelling"}
    /\ s \notin claims
    /\ \/ stage[s].status = "waiting" /\ stage[s].waitingOn = "external"
       \/ stage[s].status = "blocked" /\ stage[s].after # "none"
    /\ stage' = [stage EXCEPT ![s] = Moved(@, "blocked")]
    /\ UNCHANGED <<run, attempts, claims, settling>>

-----------------------------------------------------------------------------
Next ==
    \/ \E s \in Stages : ClaimPick(s) \/ ClaimExhausted(s) \/ ClaimGrant(s)
    \/ ClaimNothing
    \/ \E s \in Stages : \E n \in DOMAIN attempts[s] :
          \/ HeartbeatAttempt(s, n)
          \/ \E outcome \in Outcomes : FinishAttempt(s, n, outcome)
          \/ LeaseExpires(s, n)
    \/ \E s \in Stages : DelayElapses(s)
    \/ \E to \in TransitionTargets : TransitionRun(to)
    \/ StartIfQueued
    \/ \E paused \in BOOLEAN : SetCodingPaused(paused)
    \/ RequestCancellation
    \/ SettleCancelBegin
    \/ SettleCancelCommit
    \/ \E s \in Stages : \E decision \in {"approved", "rejected"} : ResolveStage(s, decision)
    \/ \E released \in SUBSET Stages : ReleaseStages(released)
    \/ \E s \in Stages : WebhookRelease(s)

Spec == Init /\ [][Next]_vars

-----------------------------------------------------------------------------
(* Properties *)

TypeOK ==
    /\ run \in RunRow
    /\ stage \in [Stages -> StageRow]
    /\ attempts \in [Stages -> Seq(AttemptRow)]
    /\ claims \in SUBSET Stages
    /\ settling \in [active : BOOLEAN, saw : SUBSET (Stages \X Nat)]

\* At most one attempt of a stage is ever open, and it is the newest: a claim
\* never starts a second holder next to one that has not been retired.
SingleHolder ==
    \A s \in Stages : \A n \in DOMAIN attempts[s] : IsOpen(s, n) => n = Len(attempts[s])

\* A running stage has somebody behind it, so the reap can always tell when
\* that somebody is gone (022: "a stage marked running with no live attempt").
RunningIsHeld ==
    \A s \in Stages : stage[s].status = "running" => IsOpen(s, Len(attempts[s]))

\* An open attempt holds a running stage.  Only a cancelled run may leave an
\* attempt behind whose stage was closed under it.
HolderHoldsRunning ==
    \A s \in Stages : \A n \in DOMAIN attempts[s] :
        IsOpen(s, n) /\ run.status # "cancelled" => stage[s].status = "running"

\* A running stage and an open attempt are two records of one fact, written by
\* reaps, claims, finishes, releases and a late worker: they agree, and there is
\* never more than one holder.
HeldIffRunning == SingleHolder /\ RunningIsHeld /\ HolderHoldsRunning

\* No stage ever starts, or is about to be granted, before everything it
\* depends on is completed or skipped, and that stays so: a finished
\* dependency is never taken back.
StartsAfterDependencies ==
    \A s \in Stages : attempts[s] # <<>> \/ s \in claims => DepsMet(s)

\* attempt_count counts the claims that followed nothing, a failure, a lost
\* lease or a cancellation, and no other: a stage that only yields never
\* spends a retry, and a crash always does.
RetryClaims(s) ==
    {n \in DOMAIN attempts[s] : n = 1 \/ attempts[s][n - 1].status \in RetryAfter}
RetriesAreCounted ==
    \A s \in Stages :
        /\ stage[s].attemptCount = Cardinality(RetryClaims(s))
        /\ stage[s].attemptCount <= MaxAttempts[s]

\* attempt_number is MAX + 1 over the attempts and slice_count a counter on the
\* stage; they agree, so the slice ceiling bounds the attempts too.
SlicesAreBounded ==
    \A s \in Stages :
        /\ stage[s].sliceCount = Len(attempts[s])
        /\ stage[s].sliceCount <= MaxSlices[s]

\* The two counters of a stage, told apart only by how its last attempt ended,
\* are both right, so retries and slices are both bounded.
CountersAreRight == RetriesAreCounted /\ SlicesAreBounded

\* The SQL functions and release statements, which never consult the table of
\* state-machine.ts, move a stage only along its edges while its run is not
\* cancelled: no finished stage is reopened, whoever writes last.
StageFollowsTable ==
    [][\A s \in Stages : run.status # "cancelled" =>
          CanTransitionStage(stage[s].status, stage[s].status')]_vars

\* The same for the run: releases, starts and cancellations written as plain
\* UPDATEs keep to the table, so no terminal run comes back.
RunFollowsTable == [][CanTransitionRun(run.status, run.status')]_vars

\* Both rows keep to state-machine.ts, although hardly any write consults it.
RowsFollowTables == StageFollowsTable /\ RunFollowsTable

\* How a stage ended stands, whatever comes after: a late worker, a webhook, a
\* decision, a retry or the cancellation of the run.
ResultsStand ==
    [][\A s \in Stages : stage[s].status \in {"completed", "failed", "skipped"}
          => stage'[s].status = stage[s].status]_vars

\* The attempts of a stage are a history: none is taken out, and one that is over
\* is never written again, by its own late worker or by anybody else.
HistoryStands ==
    [][\A s \in Stages : \A n \in DOMAIN attempts[s] :
          /\ n \in DOMAIN attempts'[s]
          /\ ~IsOpen(s, n) => attempts'[s][n] = attempts[s][n]
          /\ attempts'[s][n].lease = "live" => attempts[s][n].lease = "live"]_vars

\* A stage leaves "running" under a live lease only by its holder's own
\* finish_attempt: no claim, release or zombie takes it away.
HolderKeepsStage ==
    [][\A s \in Stages : \A n \in DOMAIN attempts[s] :
          IsLive(s, n) /\ stage[s].status = "running" /\ stage[s].status' # "running"
              => IsOpen(s, n)' = FALSE \/ run.status' = "cancelled"]_vars

-----------------------------------------------------------------------------
(* Refinement *)

Phase(status) ==
    CASE status = "running"   -> "held"
      [] status = "cancelled" -> "dropped"
      [] status \in {"completed", "failed", "skipped"} -> status
      [] OTHER                -> "idle"

Board == INSTANCE StageBoard WITH
    phase <- [s \in Stages |-> Phase(stage[s].status)],
    epoch <- [s \in Stages |-> Len(attempts[s])]

\* With all its leases, zombies, ceilings, waits and locks the ledger keeps the
\* board's promise: a stage is taken only when idle and unblocked, handed in
\* only by who holds it, and a result stands.
ImplementsBoard == Board!Spec
================================================================================
