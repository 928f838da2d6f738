---------------------------- MODULE StageEngineProofs ----------------------------
(***************************************************************************)
(* The ledger's invariants, and what a step of it may never do: who takes  *)
(* a stage from its holder, which edges rows move along, and which attempt *)
(* of a stage is ever written; for every graph, every number of stages and *)
(* every ceiling.                                                          *)
(***************************************************************************)
EXTENDS StageEngine, FiniteSetTheorems, TLAPS

\* A stage that is finished for good, other than by a cancellation.
SettledIsUnheld ==
    \A s \in Stages : stage[s].status \in {"completed", "failed", "skipped"} =>
        \A n \in DOMAIN attempts[s] : ~IsOpen(s, n)

\* A stage a claim has locked is free: nobody holds it and it can be granted.
LockedIsFree ==
    \A s \in claims :
        /\ stage[s].status \in {"pending", "blocked"}
        /\ \A n \in DOMAIN attempts[s] : ~IsOpen(s, n)

RetriesAreBounded == \A s \in Stages : stage[s].attemptCount <= MaxAttempts[s]

IInv ==
    /\ TypeOK
    /\ SingleHolder
    /\ RunningIsHeld
    /\ HolderHoldsRunning
    /\ SettledIsUnheld
    /\ LockedIsFree
    /\ StartsAfterDependencies
    /\ SlicesAreBounded
    /\ RetriesAreBounded

LEMMA InitIInv == Init => IInv
  <1>. SUFFICES ASSUME Init PROVE IInv
    OBVIOUS
  <1>1. TypeOK
    BY DEF Init, TypeOK, RunRow, StageRow, RunStatus, StageStatus, TerminalRun,
           TerminalStage, WaitKind, NotSettling
  <1>2. SingleHolder /\ RunningIsHeld /\ HolderHoldsRunning /\ SettledIsUnheld /\ LockedIsFree
    BY DEF Init, SingleHolder, RunningIsHeld, HolderHoldsRunning, SettledIsUnheld,
           LockedIsFree, IsOpen
  <1>3. StartsAfterDependencies
    BY DEF Init, StartsAfterDependencies
  <1>4. SlicesAreBounded /\ RetriesAreBounded
    BY StagesAssumption DEF Init, StagesAssumption, SlicesAreBounded, RetriesAreBounded
  <1>. QED
    BY <1>1, <1>2, <1>3, <1>4 DEF IInv

LEMMA RetiredRow ==
    ASSUME NEW row \in AttemptRow
    PROVE  /\ Retired(row) \in AttemptRow
           /\ Retired(row).status \in OpenAttempt <=> row.status \in OpenAttempt /\ row.lease = "live"
           /\ row.status \notin OpenAttempt => Retired(row) = row
           /\ Retired(row).lease = row.lease
  <1>1. CASE row.status \in OpenAttempt /\ row.lease = "over"
    <2>1. Retired(row) = [row EXCEPT !.status = "lost"]
      BY <1>1 DEF Retired
    <2>2. "lost" \in AttemptStatus /\ "lost" \notin OpenAttempt
      BY DEF AttemptStatus, OpenAttempt, RetryAfter
    <2>3. row \in [status : AttemptStatus, lease : {"live", "over"}]
      BY DEF AttemptRow
    <2>. QED
      BY <1>1, <2>1, <2>2, <2>3 DEF AttemptRow
  <1>2. CASE ~(row.status \in OpenAttempt /\ row.lease = "over")
    BY <1>2 DEF Retired, AttemptRow
  <1>. QED
    BY <1>1, <1>2

LEMMA ReapTyped == TypeOK => /\ ReapedAttempts \in [Stages -> Seq(AttemptRow)]
                             /\ ReapedStage \in [Stages -> StageRow]
  <1>. SUFFICES ASSUME TypeOK PROVE /\ ReapedAttempts \in [Stages -> Seq(AttemptRow)]
                                    /\ ReapedStage \in [Stages -> StageRow]
    OBVIOUS
  <1>1. ASSUME NEW s \in Stages
        PROVE [n \in DOMAIN attempts[s] |-> Retired(attempts[s][n])] \in Seq(AttemptRow)
    <2>1. attempts[s] \in Seq(AttemptRow)
      BY DEF TypeOK
    <2>2. \A n \in DOMAIN attempts[s] : attempts[s][n] \in AttemptRow
      BY <2>1
    <2>3. \A n \in DOMAIN attempts[s] : Retired(attempts[s][n]) \in AttemptRow
      BY <2>2, RetiredRow
    <2>4. DOMAIN attempts[s] = 1 .. Len(attempts[s]) /\ Len(attempts[s]) \in Nat
      BY <2>1
    <2>. QED
      BY <2>3, <2>4
  <1>2. ASSUME NEW s \in Stages
        PROVE [stage[s] EXCEPT !.status = "blocked"] \in StageRow
    <2>1. stage[s] \in StageRow
      BY DEF TypeOK
    <2>. QED
      BY <2>1 DEF StageRow, StageStatus
  <1>. QED
    BY <1>1, <1>2 DEF ReapedAttempts, ReapedStage, TypeOK

\* What a reap leaves open is exactly what was live.
LEMMA ReapedOpen ==
    ASSUME TypeOK, NEW s \in Stages
    PROVE  /\ DOMAIN ReapedAttempts[s] = DOMAIN attempts[s]
           /\ Len(ReapedAttempts[s]) = Len(attempts[s])
           /\ \A n \in DOMAIN attempts[s] :
                 ReapedAttempts[s][n].status \in OpenAttempt <=> IsLive(s, n)
  <1>1. attempts[s] \in Seq(AttemptRow) /\ ReapedAttempts[s] \in Seq(AttemptRow)
    BY ReapTyped DEF TypeOK
  <1>2. DOMAIN ReapedAttempts[s] = DOMAIN attempts[s]
    BY DEF ReapedAttempts
  <1>3. Len(ReapedAttempts[s]) = Len(attempts[s])
    BY <1>1, <1>2
  <1>4. ASSUME NEW n \in DOMAIN attempts[s]
        PROVE ReapedAttempts[s][n].status \in OpenAttempt <=> IsLive(s, n)
    <2>1. attempts[s][n] \in AttemptRow
      BY <1>1
    <2>2. ReapedAttempts[s][n] = Retired(attempts[s][n])
      BY DEF ReapedAttempts
    <2>. QED
      BY <2>1, <2>2, RetiredRow DEF IsLive, IsOpen
  <1>. QED
    BY <1>2, <1>3, <1>4

-----------------------------------------------------------------------------
(* One lemma per kind of step. *)

\* The transition table keeps a cancelled run cancelled.
LEMMA CancelledIsFinal ==
    ASSUME NEW to, CanTransitionRun("cancelled", to)
    PROVE  to = "cancelled"
  BY DEF CanTransitionRun, RunEdges

\* The parts of the invariant a change of the run and of waiting stages touches.
RowStep ==
    /\ run' \in RunRow
    /\ run.status = "cancelled" => run'.status = "cancelled"
    /\ stage' \in [Stages -> StageRow]
    /\ \A t \in Stages :
          /\ stage'[t].attemptCount = stage[t].attemptCount
          /\ stage'[t].sliceCount = stage[t].sliceCount
          /\ \/ stage'[t].status = stage[t].status
             \/ stage[t].status = "waiting" /\ stage'[t].status \in {"blocked", "cancelled"}
    /\ UNCHANGED <<attempts, claims>>
    /\ settling' \in [active : BOOLEAN, saw : SUBSET (Stages \X Nat)]

LEMMA RowStepIInv == IInv /\ RowStep => IInv'
  <1>. SUFFICES ASSUME IInv, RowStep PROVE IInv'
    OBVIOUS
  <1>1. TypeOK'
    BY DEF IInv, TypeOK, RowStep
  <1>2. SingleHolder' /\ SlicesAreBounded' /\ RetriesAreBounded'
    BY DEF IInv, SingleHolder, SlicesAreBounded, RetriesAreBounded, IsOpen, RowStep
  <1>3. RunningIsHeld'
    BY DEF IInv, RunningIsHeld, IsOpen, RowStep
  <1>4. HolderHoldsRunning'
    BY DEF IInv, HolderHoldsRunning, IsOpen, RowStep
  <1>5. SettledIsUnheld'
    BY DEF IInv, SettledIsUnheld, IsOpen, RowStep
  <1>6. LockedIsFree'
    BY DEF IInv, LockedIsFree, IsOpen, RowStep, TypeOK
  <1>7. StartsAfterDependencies'
    BY StagesAssumption DEF IInv, StartsAfterDependencies, DepsMet, RowStep, StagesAssumption, TypeOK
  <1>. QED
    BY <1>1, <1>2, <1>3, <1>4, <1>5, <1>6, <1>7 DEF IInv

\* The steps that write the run row only.
LEMMA RunStepIInv ==
    ASSUME IInv,
           \/ \E to \in TransitionTargets : TransitionRun(to)
           \/ StartIfQueued
           \/ \E paused \in BOOLEAN : SetCodingPaused(paused)
           \/ RequestCancellation
    PROVE  IInv'
  <1>1. run \in RunRow /\ stage \in [Stages -> StageRow]
        /\ settling \in [active : BOOLEAN, saw : SUBSET (Stages \X Nat)]
    BY DEF IInv, TypeOK
  <1>2. ASSUME NEW to \in TransitionTargets, TransitionRun(to) PROVE RowStep
    <2>1. run' = [run EXCEPT !.status = to] /\ to \in RunStatus
      BY <1>2 DEF TransitionRun, TransitionTargets, RunStatus, TerminalRun
    <2>2. run' \in RunRow /\ run'.status = to
      BY <1>1, <2>1 DEF RunRow
    <2>3. run.status = "cancelled" => to = "cancelled"
      BY <1>2, CancelledIsFinal DEF TransitionRun
    <2>. QED
      BY <1>1, <1>2, <2>2, <2>3 DEF TransitionRun, RowStep
  <1>3. ASSUME StartIfQueued PROVE RowStep
    <2>1. run' \in RunRow /\ run.status # "cancelled"
      BY <1>1, <1>3 DEF StartIfQueued, RunRow, RunStatus
    <2>. QED
      BY <1>1, <1>3, <2>1 DEF StartIfQueued, RowStep
  <1>4. ASSUME NEW paused \in BOOLEAN, SetCodingPaused(paused) PROVE RowStep
    <2>1. run' \in RunRow /\ run'.status = run.status
      BY <1>1, <1>4 DEF SetCodingPaused, RunRow
    <2>. QED
      BY <1>1, <1>4, <2>1 DEF SetCodingPaused, RowStep
  <1>5. ASSUME RequestCancellation PROVE RowStep
    <2>1. run' \in RunRow /\ run.status = "cancelled" => run'.status = "cancelled"
      BY <1>1, <1>5 DEF RequestCancellation, RunRow, RunStatus, TerminalRun
    <2>2. run' \in RunRow
      BY <1>1, <1>5 DEF RequestCancellation, RunRow, RunStatus
    <2>. QED
      BY <1>1, <1>5, <2>1, <2>2 DEF RequestCancellation, RowStep
  <1>. QED
    BY <1>2, <1>3, <1>4, <1>5, RowStepIInv

LEMMA MovedRow ==
    ASSUME NEW row \in StageRow, NEW status \in StageStatus
    PROVE  /\ Moved(row, status) \in StageRow
           /\ Moved(row, status).status = status
           /\ Moved(row, status).attemptCount = row.attemptCount
           /\ Moved(row, status).sliceCount = row.sliceCount
  BY DEF StageRow, Moved

LEMMA ResumeRunKeeps ==
    ASSUME run \in RunRow, NEW released, ResumeRun(released)
    PROVE  run' \in RunRow /\ (run.status = "cancelled" => run'.status = "cancelled")
  <1>1. CASE UNCHANGED run
    BY <1>1
  <1>2. CASE run.status = "waiting_for_approval" /\ run' = [run EXCEPT !.status = "running"]
    BY <1>2 DEF RunRow, RunStatus
  <1>. QED
    BY <1>1, <1>2 DEF ResumeRun

\* The steps that write waiting stages, due times and the settling snapshot.
LEMMA WaitStepIInv ==
    ASSUME IInv,
           \/ \E s \in Stages : DelayElapses(s) \/ WebhookRelease(s)
           \/ \E s \in Stages : \E decision \in {"approved", "rejected"} : ResolveStage(s, decision)
           \/ \E released \in SUBSET Stages : ReleaseStages(released)
           \/ SettleCancelBegin
    PROVE  IInv'
  <1>1. run \in RunRow /\ stage \in [Stages -> StageRow]
        /\ settling \in [active : BOOLEAN, saw : SUBSET (Stages \X Nat)]
        /\ attempts \in [Stages -> Seq(AttemptRow)]
    BY DEF IInv, TypeOK
  <1>2. {"blocked", "cancelled"} \subseteq StageStatus
    BY DEF StageStatus, TerminalStage
  <1>3. ASSUME NEW s \in Stages, DelayElapses(s) PROVE RowStep
    <2>1. [stage[s] EXCEPT !.after = "due"] \in StageRow
      BY <1>1 DEF StageRow
    <2>2. stage' = [stage EXCEPT ![s] = [stage[s] EXCEPT !.after = "due"]]
      BY <1>1, <1>3 DEF DelayElapses
    <2>. QED
      BY SMTT(20), <1>1, <1>3, <2>1, <2>2 DEF DelayElapses, RowStep, StageRow
  <1>4. ASSUME NEW s \in Stages, WebhookRelease(s) PROVE RowStep
    BY <1>1, <1>2, <1>4, MovedRow DEF WebhookRelease, RowStep
  <1>5. ASSUME NEW s \in Stages, NEW decision \in {"approved", "rejected"}, ResolveStage(s, decision)
        PROVE RowStep
    <2>1. PICK to \in {"blocked", "cancelled"} :
             stage' = [stage EXCEPT ![s] = IF stage[s].status # "waiting" THEN stage[s]
                                           ELSE Moved(stage[s], to)]
      BY <1>1, <1>5 DEF ResolveStage
    <2>2. run' \in RunRow /\ (run.status = "cancelled" => run'.status = "cancelled")
      BY <1>1, <1>5, ResumeRunKeeps DEF ResolveStage
    <2>3. Moved(stage[s], to) \in StageRow /\ Moved(stage[s], to).status = to
          /\ Moved(stage[s], to).attemptCount = stage[s].attemptCount
          /\ Moved(stage[s], to).sliceCount = stage[s].sliceCount
      BY <1>1, <1>2, MovedRow
    <2>4. UNCHANGED <<attempts, claims, settling>>
      BY <1>5 DEF ResolveStage
    <2>. QED
      BY <1>1, <2>1, <2>2, <2>3, <2>4 DEF RowStep
  <1>6. ASSUME NEW released \in SUBSET Stages, ReleaseStages(released) PROVE RowStep
    <2>1. run' \in RunRow /\ (run.status = "cancelled" => run'.status = "cancelled")
      BY <1>1, <1>6, ResumeRunKeeps DEF ReleaseStages
    <2>. QED
      BY <1>1, <1>2, <1>6, <2>1, MovedRow DEF ReleaseStages, RowStep
  <1>7. ASSUME SettleCancelBegin PROVE RowStep
    <2>1. OpenIds \in SUBSET (Stages \X Nat)
      BY <1>1 DEF OpenIds
    <2>. QED
      BY <1>1, <1>7, <2>1 DEF SettleCancelBegin, RowStep
  <1>. QED
    BY <1>3, <1>4, <1>5, <1>6, <1>7, RowStepIInv

\* Heartbeats and expiries change who is live, never who is open.
LeaseStep ==
    /\ attempts' \in [Stages -> Seq(AttemptRow)]
    /\ \A t \in Stages :
          /\ Len(attempts'[t]) = Len(attempts[t])
          /\ DOMAIN attempts'[t] = DOMAIN attempts[t]
          /\ \A n \in DOMAIN attempts[t] :
                attempts'[t][n].status \in OpenAttempt <=> attempts[t][n].status \in OpenAttempt
    /\ UNCHANGED <<run, stage, claims, settling>>

LEMMA LeaseStepIInv ==
    ASSUME IInv, NEW s \in Stages, NEW n \in DOMAIN attempts[s],
           HeartbeatAttempt(s, n) \/ LeaseExpires(s, n)
    PROVE  IInv'
  <1>1. attempts \in [Stages -> Seq(AttemptRow)]
    BY DEF IInv, TypeOK
  <1>2. PICK row \in AttemptRow :
           /\ attempts' = [attempts EXCEPT ![s] = [attempts[s] EXCEPT ![n] = row]]
           /\ row.status \in OpenAttempt
    <2>1. attempts[s][n] \in AttemptRow /\ attempts[s][n].status \in OpenAttempt
      BY <1>1 DEF HeartbeatAttempt, LeaseExpires, IsLive, IsOpen
    <2>2. CASE HeartbeatAttempt(s, n)
      <3>1. [attempts[s][n] EXCEPT !.status = "running"] \in AttemptRow
            /\ [attempts[s][n] EXCEPT !.status = "running"].status \in OpenAttempt
        BY <2>1 DEF AttemptRow, AttemptStatus, OpenAttempt
      <3>. QED
        BY <1>1, <2>2, <3>1 DEF HeartbeatAttempt
    <2>3. CASE LeaseExpires(s, n)
      <3>1. [attempts[s][n] EXCEPT !.lease = "over"] \in AttemptRow
            /\ [attempts[s][n] EXCEPT !.lease = "over"].status \in OpenAttempt
        BY <2>1 DEF AttemptRow
      <3>. QED
        BY <1>1, <2>3, <3>1 DEF LeaseExpires
    <2>. QED
      BY <2>2, <2>3
  <1>3. attempts[s][n].status \in OpenAttempt
    BY DEF HeartbeatAttempt, LeaseExpires, IsLive, IsOpen
  <1>4. LeaseStep
    <2>1. [attempts[s] EXCEPT ![n] = row] \in Seq(AttemptRow)
          /\ Len([attempts[s] EXCEPT ![n] = row]) = Len(attempts[s])
      BY <1>1, <1>2
    <2>2. UNCHANGED <<run, stage, claims, settling>>
      BY DEF HeartbeatAttempt, LeaseExpires
    <2>. QED
      BY <1>1, <1>2, <1>3, <2>1, <2>2 DEF LeaseStep
  <1>5. TypeOK'
    BY <1>4 DEF IInv, TypeOK, LeaseStep
  <1>6. SingleHolder' /\ SlicesAreBounded' /\ RetriesAreBounded'
    BY <1>4 DEF IInv, SingleHolder, SlicesAreBounded, RetriesAreBounded, IsOpen, LeaseStep
  <1>7. RunningIsHeld' /\ HolderHoldsRunning'
    BY <1>4 DEF IInv, RunningIsHeld, HolderHoldsRunning, IsOpen, LeaseStep
  <1>8. SettledIsUnheld'
    BY <1>4 DEF IInv, SettledIsUnheld, IsOpen, LeaseStep
  <1>9. LockedIsFree'
    BY <1>4 DEF IInv, LockedIsFree, IsOpen, LeaseStep, TypeOK
  <1>10. StartsAfterDependencies'
    <2>1. \A t \in Stages : attempts'[t] # <<>> => attempts[t] # <<>>
      BY <1>1, <1>4 DEF LeaseStep
    <2>. QED
      BY <1>4, <2>1 DEF IInv, StartsAfterDependencies, DepsMet, LeaseStep
  <1>. QED
    BY <1>5, <1>6, <1>7, <1>8, <1>9, <1>10 DEF IInv

LEMMA FinishIInv ==
    ASSUME IInv, NEW s \in Stages, NEW n \in DOMAIN attempts[s], NEW outcome \in Outcomes,
           FinishAttempt(s, n, outcome)
    PROVE  IInv'
  <1>. DEFINE left == RetryAttemptsLeft(stage[s].attemptCount, MaxAttempts[s])
              closed == [status |-> SettledAttempt(outcome), lease |-> "over"]
  <1>1. run \in RunRow /\ stage \in [Stages -> StageRow] /\ attempts \in [Stages -> Seq(AttemptRow)]
    BY DEF IInv, TypeOK
  <1>2. outcome \in Outcome
    BY StagesAssumption DEF StagesAssumption
  <1>3. closed \in AttemptRow /\ closed.status \notin OpenAttempt
    BY <1>2 DEF SettledAttempt, AttemptRow, AttemptStatus, OpenAttempt, RetryAfter
  <1>4. SettledStage(outcome, left) \in StageStatus \ {"running", "pending"}
    BY <1>2 DEF SettledStage, ParkedStatus, Outcome, StageStatus, TerminalStage, Waiting
  <1>5. WaitingOn(outcome) \in WaitKind
    BY <1>2 DEF WaitingOn, WaitKind, Outcome
  <1>6. PICK row \in StageRow :
           /\ stage' = [stage EXCEPT ![s] = row]
           /\ row.status \in StageStatus \ {"running", "pending"}
           /\ row.attemptCount = stage[s].attemptCount
           /\ row.sliceCount = stage[s].sliceCount
    <2>. DEFINE new == [stage[s] EXCEPT !.status = SettledStage(outcome, left),
                                       !.after = IF Delayed(outcome, left) THEN "future" ELSE "none",
                                       !.waitingOn = WaitingOn(outcome)]
    <2>1. new \in StageRow /\ new.status = SettledStage(outcome, left)
          /\ new.attemptCount = stage[s].attemptCount /\ new.sliceCount = stage[s].sliceCount
      BY <1>1, <1>4, <1>5 DEF StageRow
    <2>2. stage' = [stage EXCEPT ![s] = new]
      BY <1>1 DEF FinishAttempt
    <2>. QED
      BY <1>4, <2>1, <2>2
  <1>7. attempts' = [attempts EXCEPT ![s] = [attempts[s] EXCEPT ![n] = closed]]
    BY <1>1 DEF FinishAttempt
  <1>8. IsOpen(s, n) /\ UNCHANGED <<run, claims, settling>>
    BY DEF FinishAttempt, IsLive
  <1>9. n = Len(attempts[s])
    BY <1>8 DEF IInv, SingleHolder
  <1>. HIDE DEF closed
  <1>10. [attempts[s] EXCEPT ![n] = closed] \in Seq(AttemptRow)
         /\ Len([attempts[s] EXCEPT ![n] = closed]) = Len(attempts[s])
    BY <1>1, <1>3
  <1>11. TypeOK'
    BY <1>1, <1>6, <1>7, <1>8, <1>10 DEF IInv, TypeOK
  <1>12. \A m \in DOMAIN attempts'[s] : ~IsOpen(s, m)'
    BY <1>1, <1>3, <1>7, <1>9, <1>10 DEF IInv, SingleHolder, IsOpen
  <1>13. \A t \in Stages \ {s} : attempts'[t] = attempts[t] /\ stage'[t] = stage[t]
    BY <1>1, <1>6, <1>7
  <1>14. stage'[s] = row /\ Len(attempts'[s]) = Len(attempts[s])
    BY <1>1, <1>6, <1>7, <1>10
  <1>15. SingleHolder'
    BY <1>12, <1>13 DEF IInv, SingleHolder, IsOpen
  <1>16. RunningIsHeld'
    BY <1>6, <1>13, <1>14 DEF IInv, RunningIsHeld, IsOpen
  <1>17. HolderHoldsRunning'
    BY <1>8, <1>12, <1>13 DEF IInv, HolderHoldsRunning, IsOpen
  <1>18. SettledIsUnheld'
    BY <1>12, <1>13 DEF IInv, SettledIsUnheld, IsOpen
  <1>19. LockedIsFree'
    BY <1>8, <1>13 DEF IInv, LockedIsFree, IsOpen, TypeOK
  <1>20. StartsAfterDependencies'
    <2>1. stage[s].status \notin {"completed", "skipped"}
      BY <1>8 DEF IInv, SettledIsUnheld
    <2>2. \A t \in Stages : DepsMet(t) => DepsMet(t)'
      BY <1>13, <2>1, StagesAssumption DEF DepsMet, StagesAssumption
    <2>3. attempts[s] # <<>>
      BY <1>1
    <2>. QED
      BY <1>8, <1>13, <2>2, <2>3 DEF IInv, StartsAfterDependencies
  <1>21. SlicesAreBounded' /\ RetriesAreBounded'
    BY <1>6, <1>13, <1>14 DEF IInv, SlicesAreBounded, RetriesAreBounded
  <1>. QED
    BY <1>11, <1>15, <1>16, <1>17, <1>18, <1>19, <1>20, <1>21 DEF IInv

\* What a claim's first two statements do to one stage.
LEMMA ReapedRow ==
    ASSUME TypeOK, NEW s \in Stages
    PROVE  /\ ReapedStage[s].attemptCount = stage[s].attemptCount
           /\ ReapedStage[s].sliceCount = stage[s].sliceCount
           /\ Orphaned(s) => stage[s].status = "running" /\ ReapedStage[s].status = "blocked"
           /\ ~Orphaned(s) => ReapedStage[s] = stage[s]
  BY DEF TypeOK, ReapedStage, StageRow, Orphaned

\* The picked stage, if any, is the only one whose lock is new.
LEMMA ReapIInv ==
    ASSUME IInv, attempts' = ReapedAttempts, stage' = ReapedStage, UNCHANGED <<run, settling>>,
           claims' \in SUBSET Stages,
           \A s \in claims' \ claims : RunClaimable /\ Claimable(s)
    PROVE  IInv'
  <1>1. TypeOK /\ attempts \in [Stages -> Seq(AttemptRow)]
    BY DEF IInv, TypeOK
  <1>2. TypeOK'
    BY <1>1, ReapTyped DEF TypeOK
  <1>3. \A t \in Stages : \A n \in DOMAIN attempts'[t] : IsOpen(t, n)' => IsOpen(t, n) /\ IsLive(t, n)
    BY <1>1, ReapedOpen DEF IsOpen, IsLive
  <1>4. \A t \in Stages : DOMAIN attempts'[t] = DOMAIN attempts[t] /\ Len(attempts'[t]) = Len(attempts[t])
    BY <1>1, ReapedOpen
  <1>5. SingleHolder'
    BY <1>3, <1>4 DEF IInv, SingleHolder
  <1>6. RunningIsHeld'
    <2>. SUFFICES ASSUME NEW t \in Stages, stage'[t].status = "running"
                  PROVE  IsOpen(t, Len(attempts[t]))'
      BY <1>4 DEF RunningIsHeld
    <2>1. ~Orphaned(t) /\ stage[t].status = "running"
      BY <1>1, ReapedRow
    <2>2. PICK n \in DOMAIN attempts[t] : IsLive(t, n)
      BY <2>1 DEF Orphaned
    <2>3. n = Len(attempts[t])
      BY <2>2 DEF IInv, SingleHolder, IsLive
    <2>. QED
      BY <1>1, <1>4, <2>2, <2>3, ReapedOpen DEF IsOpen
  <1>7. HolderHoldsRunning'
    <2>. SUFFICES ASSUME NEW t \in Stages, NEW n \in DOMAIN attempts'[t], IsOpen(t, n)',
                         run'.status # "cancelled"
                  PROVE  stage'[t].status = "running"
      BY DEF HolderHoldsRunning
    <2>1. IsOpen(t, n) /\ IsLive(t, n) /\ n \in DOMAIN attempts[t]
      BY <1>3, <1>4
    <2>2. stage[t].status = "running" /\ ~Orphaned(t)
      BY <2>1 DEF IInv, HolderHoldsRunning, Orphaned
    <2>. QED
      BY <1>1, <2>2, ReapedRow
  <1>8. SettledIsUnheld'
    BY <1>1, <1>3, <1>4, ReapedRow DEF IInv, SettledIsUnheld
  <1>9. LockedIsFree'
    <2>. SUFFICES ASSUME NEW t \in claims'
                  PROVE  /\ stage'[t].status \in {"pending", "blocked"}
                         /\ \A n \in DOMAIN attempts'[t] : ~IsOpen(t, n)'
      BY DEF LockedIsFree
    <2>1. t \in Stages
      OBVIOUS
    <2>2. CASE t \in claims
      <3>1. stage[t].status \in {"pending", "blocked"} /\ ~Orphaned(t)
        BY <2>2 DEF IInv, LockedIsFree, Orphaned
      <3>. QED
        BY <1>1, <1>3, <1>4, <2>1, <2>2, <3>1, ReapedRow DEF IInv, LockedIsFree
    <2>3. CASE t \notin claims
      <3>1. RunClaimable /\ Claimable(t)
        BY <2>3
      <3>2. stage'[t].status \in {"pending", "blocked"}
        BY <3>1 DEF Claimable
      <3>3. run.status # "cancelled"
        BY <3>1 DEF RunClaimable, TerminalRun
      <3>4. ASSUME NEW n \in DOMAIN attempts'[t], IsOpen(t, n)' PROVE FALSE
        <4>1. IsLive(t, n) /\ IsOpen(t, n) /\ n \in DOMAIN attempts[t]
          BY <1>3, <1>4, <2>1, <3>4
        <4>2. stage[t].status = "running"
          BY <2>1, <3>3, <4>1 DEF IInv, HolderHoldsRunning
        <4>3. ~Orphaned(t)
          BY <4>1 DEF Orphaned
        <4>. QED
          BY <1>1, <2>1, <3>2, <4>2, <4>3, ReapedRow
      <3>. QED
        BY <3>2, <3>4
    <2>. QED
      BY <2>2, <2>3
  <1>10. StartsAfterDependencies'
    <2>1. \A t \in Stages : DepsMet(t) => DepsMet(t)'
      BY <1>1, ReapedRow, StagesAssumption DEF DepsMet, StagesAssumption
    <2>2. \A t \in Stages : attempts'[t] # <<>> => attempts[t] # <<>>
      BY <1>1, <1>2, <1>4 DEF TypeOK
    <2>3. \A t \in claims' \ claims : DepsMet(t)
      BY DEF Claimable
    <2>. QED
      BY <2>1, <2>2, <2>3 DEF IInv, StartsAfterDependencies
  <1>11. SlicesAreBounded' /\ RetriesAreBounded'
    BY <1>1, <1>4, ReapedRow DEF IInv, SlicesAreBounded, RetriesAreBounded
  <1>. QED
    BY <1>2, <1>5, <1>6, <1>7, <1>8, <1>9, <1>10, <1>11 DEF IInv

LEMMA ClaimIInv ==
    ASSUME IInv, (\E s \in Stages : ClaimPick(s)) \/ ClaimNothing
    PROVE  IInv'
  <1>1. claims \in SUBSET Stages
    BY DEF IInv, TypeOK
  <1>2. ASSUME NEW s \in Stages, ClaimPick(s) PROVE IInv'
    BY <1>1, <1>2, ReapIInv DEF ClaimPick
  <1>3. CASE ClaimNothing
    BY <1>1, <1>3, ReapIInv DEF ClaimNothing
  <1>. QED
    BY <1>2, <1>3

LEMMA ExhaustedIInv ==
    ASSUME IInv, NEW s \in Stages, ClaimExhausted(s)
    PROVE  IInv'
  <1>1. TypeOK /\ stage \in [Stages -> StageRow] /\ s \in claims
    BY DEF IInv, TypeOK, ClaimExhausted
  <1>2. PICK row \in StageRow :
           /\ stage' = [stage EXCEPT ![s] = row]
           /\ row.status \in {"skipped", "failed"}
           /\ row.attemptCount = stage[s].attemptCount
           /\ row.sliceCount = stage[s].sliceCount
    <2>1. PICK to \in {"skipped", "failed"} : stage' = [stage EXCEPT ![s] = [stage[s] EXCEPT !.status = to]]
      BY <1>1 DEF ClaimExhausted
    <2>2. [stage[s] EXCEPT !.status = to] \in StageRow
      BY <1>1 DEF StageRow, StageStatus, TerminalStage
    <2>. QED
      BY <1>1, <2>1, <2>2 DEF StageRow
  <1>3. claims' = claims \ {s} /\ UNCHANGED <<run, attempts, settling>>
    BY DEF ClaimExhausted
  <1>4. \A n \in DOMAIN attempts[s] : ~IsOpen(s, n)
    BY <1>1 DEF IInv, LockedIsFree
  <1>5. TypeOK'
    BY <1>1, <1>2, <1>3 DEF TypeOK
  <1>6. SingleHolder' /\ SlicesAreBounded' /\ RetriesAreBounded'
    BY <1>1, <1>2, <1>3 DEF IInv, SingleHolder, SlicesAreBounded, RetriesAreBounded, IsOpen
  <1>7. RunningIsHeld' /\ HolderHoldsRunning'
    BY <1>1, <1>2, <1>3, <1>4 DEF IInv, RunningIsHeld, HolderHoldsRunning, IsOpen
  <1>8. SettledIsUnheld'
    BY <1>1, <1>2, <1>3, <1>4 DEF IInv, SettledIsUnheld, IsOpen
  <1>9. LockedIsFree'
    BY <1>1, <1>2, <1>3 DEF IInv, LockedIsFree, IsOpen, TypeOK
  <1>10. StartsAfterDependencies'
    <2>1. stage[s].status \notin {"completed", "skipped"}
      BY <1>1 DEF IInv, LockedIsFree
    <2>2. \A t \in Stages : DepsMet(t) => DepsMet(t)'
      BY <1>1, <1>2, <2>1, StagesAssumption DEF DepsMet, StagesAssumption
    <2>. QED
      BY <1>3, <2>2 DEF IInv, StartsAfterDependencies
  <1>. QED
    BY <1>5, <1>6, <1>7, <1>8, <1>9, <1>10 DEF IInv

LEMMA GrantIInv ==
    ASSUME IInv, NEW s \in Stages, ClaimGrant(s)
    PROVE  IInv'
  <1>. DEFINE claimed == [status |-> "claimed", lease |-> "live"]
  <1>1. /\ TypeOK /\ stage \in [Stages -> StageRow] /\ attempts \in [Stages -> Seq(AttemptRow)]
        /\ s \in claims
    BY DEF IInv, TypeOK, ClaimGrant
  <1>2. claimed \in AttemptRow /\ claimed.status \in OpenAttempt
    BY DEF AttemptRow, AttemptStatus, OpenAttempt
  <1>3. /\ stage[s].sliceCount < MaxSlices[s] /\ stage[s].sliceCount = Len(attempts[s])
        /\ IsRetry(s) => stage[s].attemptCount < MaxAttempts[s]
        /\ stage[s].attemptCount <= MaxAttempts[s]
    <2>1. stage[s].sliceCount \in Nat /\ stage[s].attemptCount \in Nat
          /\ MaxSlices[s] \in Nat /\ MaxAttempts[s] \in Nat
      BY <1>1, StagesAssumption DEF StageRow, StagesAssumption
    <2>. QED
      BY <2>1 DEF ClaimGrant, SpentOut, IInv, SlicesAreBounded, RetriesAreBounded
  <1>4. PICK row \in StageRow :
           /\ stage' = [stage EXCEPT ![s] = row]
           /\ row.status = "running"
           /\ row.attemptCount <= MaxAttempts[s]
           /\ row.sliceCount = stage[s].sliceCount + 1
    <2>. DEFINE count == IF IsRetry(s) THEN stage[s].attemptCount + 1 ELSE stage[s].attemptCount
                new == [stage[s] EXCEPT !.status = "running", !.attemptCount = count,
                                        !.sliceCount = stage[s].sliceCount + 1]
    <2>1. count \in Nat /\ count <= MaxAttempts[s] /\ stage[s].sliceCount + 1 \in Nat
      BY <1>1, <1>3, StagesAssumption DEF StageRow, StagesAssumption
    <2>2. stage' = [stage EXCEPT ![s] = new]
      BY <1>1 DEF ClaimGrant
    <2>. HIDE DEF count
    <2>3. new \in StageRow /\ new.status = "running" /\ new.attemptCount = count
          /\ new.sliceCount = stage[s].sliceCount + 1
      BY <1>1, <2>1 DEF StageRow, StageStatus
    <2>. QED
      BY <2>1, <2>2, <2>3
  <1>5. attempts' = [attempts EXCEPT ![s] = Append(attempts[s], claimed)]
        /\ claims' = claims \ {s} /\ UNCHANGED <<run, settling>>
    BY <1>1 DEF ClaimGrant
  <1>. HIDE DEF claimed
  <1>6. /\ Append(attempts[s], claimed) \in Seq(AttemptRow)
        /\ Len(Append(attempts[s], claimed)) = Len(attempts[s]) + 1
        /\ DOMAIN Append(attempts[s], claimed) = 1 .. Len(attempts[s]) + 1
        /\ DOMAIN attempts[s] = 1 .. Len(attempts[s])
        /\ Len(attempts[s]) \in Nat
        /\ \A n \in DOMAIN attempts[s] : Append(attempts[s], claimed)[n] = attempts[s][n]
        /\ Append(attempts[s], claimed)[Len(attempts[s]) + 1] = claimed
    BY <1>1, <1>2
  <1>7. \A n \in DOMAIN attempts[s] : ~IsOpen(s, n)
    BY <1>1 DEF IInv, LockedIsFree
  <1>8. attempts'[s] = Append(attempts[s], claimed) /\ stage'[s] = row
        /\ \A t \in Stages \ {s} : attempts'[t] = attempts[t] /\ stage'[t] = stage[t]
    BY <1>1, <1>4, <1>5
  <1>9. IsOpen(s, Len(attempts[s]))' /\ Len(attempts'[s]) = Len(attempts[s]) + 1
        /\ \A n \in DOMAIN attempts'[s] : IsOpen(s, n)' => n = Len(attempts'[s])
    <2>1. DOMAIN attempts'[s] = 1 .. Len(attempts[s]) + 1 /\ Len(attempts'[s]) = Len(attempts[s]) + 1
      BY <1>6, <1>8
    <2>2. attempts'[s][Len(attempts[s]) + 1] = claimed
      BY <1>6, <1>8
    <2>3. ASSUME NEW n \in DOMAIN attempts[s] PROVE ~IsOpen(s, n)'
      <3>1. attempts'[s][n] = attempts[s][n]
        BY <1>6, <1>8
      <3>. QED
        BY <1>7, <3>1 DEF IsOpen
    <2>4. Len(attempts'[s]) \in DOMAIN attempts'[s] /\ attempts'[s][Len(attempts'[s])] = claimed
      BY <1>6, <2>1, <2>2
    <2>5. \A n \in 1 .. Len(attempts[s]) + 1 : n \in DOMAIN attempts[s] \/ n = Len(attempts[s]) + 1
      BY <1>6
    <2>6. IsOpen(s, Len(attempts[s]))'
      BY <1>2, <2>4 DEF IsOpen
    <2>. QED
      BY <2>1, <2>3, <2>5, <2>6
  <1>10. TypeOK'
    BY <1>1, <1>4, <1>5, <1>6 DEF TypeOK
  <1>11. SingleHolder'
    BY <1>8, <1>9 DEF IInv, SingleHolder, IsOpen
  <1>12. RunningIsHeld'
    BY <1>8, <1>9 DEF IInv, RunningIsHeld, IsOpen
  <1>13. HolderHoldsRunning'
    BY <1>4, <1>5, <1>8 DEF IInv, HolderHoldsRunning, IsOpen
  <1>14. SettledIsUnheld'
    BY <1>4, <1>8 DEF IInv, SettledIsUnheld, IsOpen
  <1>15. LockedIsFree'
    BY <1>1, <1>5, <1>8 DEF IInv, LockedIsFree, IsOpen, TypeOK
  <1>16. StartsAfterDependencies'
    <2>1. stage[s].status \notin {"completed", "skipped"}
      BY <1>1 DEF IInv, LockedIsFree
    <2>2. \A t \in Stages : DepsMet(t) => DepsMet(t)'
      BY <1>8, <2>1, StagesAssumption DEF DepsMet, StagesAssumption
    <2>. QED
      BY <1>1, <1>5, <1>8, <2>2 DEF IInv, StartsAfterDependencies
  <1>17. SlicesAreBounded'
    <2>1. MaxSlices[s] \in Nat /\ stage[s].sliceCount \in Nat
      BY <1>1, <1>3, <1>6, StagesAssumption DEF StagesAssumption
    <2>2. row.sliceCount <= MaxSlices[s] /\ row.sliceCount = Len(attempts[s]) + 1
      BY <1>3, <1>4, <2>1
    <2>. QED
      BY <1>8, <1>9, <2>2 DEF IInv, SlicesAreBounded
  <1>18. RetriesAreBounded'
    BY <1>4, <1>8 DEF IInv, RetriesAreBounded
  <1>. QED
    BY <1>10, <1>11, <1>12, <1>13, <1>14, <1>15, <1>16, <1>17, <1>18 DEF IInv

\* What settleCancellationWithoutWorker leaves behind: every stage settled or
\* cancelled, every attempt as it was or closed.
LEMMA SettledRows ==
    ASSUME TypeOK, SettleCancelCommit, NEW s \in Stages
    PROVE  /\ stage'[s] \in StageRow
           /\ stage'[s].status \in TerminalStage
           /\ stage[s].status \in TerminalStage => stage'[s] = stage[s]
           /\ stage'[s].attemptCount = stage[s].attemptCount
           /\ stage'[s].sliceCount = stage[s].sliceCount
           /\ stage[s].status \notin TerminalStage => stage'[s].status = "cancelled"
           /\ attempts'[s] \in Seq(AttemptRow)
           /\ DOMAIN attempts'[s] = DOMAIN attempts[s]
           /\ Len(attempts'[s]) = Len(attempts[s])
           /\ \A n \in DOMAIN attempts[s] : IsOpen(s, n)' => IsOpen(s, n)
  <1>. DEFINE closed == [status |-> "cancelled", lease |-> "over"]
  <1>1. stage[s] \in StageRow /\ attempts[s] \in Seq(AttemptRow)
    BY DEF TypeOK
  <1>2. stage'[s] = IF stage[s].status \in OpenStage THEN Moved(stage[s], "cancelled") ELSE stage[s]
    BY DEF SettleCancelCommit
  <1>3. stage[s].status \in StageStatus /\ "cancelled" \in StageStatus /\ "cancelled" \in TerminalStage
    BY <1>1 DEF StageRow, StageStatus, TerminalStage
  <1>4. closed \in AttemptRow /\ closed.status \notin OpenAttempt
    BY DEF AttemptRow, AttemptStatus, RetryAfter, OpenAttempt
  <1>5. attempts'[s] = [n \in DOMAIN attempts[s] |->
                          IF <<s, n>> \in settling.saw /\ IsOpen(s, n) THEN closed ELSE attempts[s][n]]
    BY DEF SettleCancelCommit
  <1>. HIDE DEF closed
  <1>6. DOMAIN attempts[s] = 1 .. Len(attempts[s]) /\ Len(attempts[s]) \in Nat
        /\ \A n \in DOMAIN attempts[s] : attempts[s][n] \in AttemptRow
    BY <1>1
  <1>7. \A n \in DOMAIN attempts[s] : attempts'[s][n] = closed \/ attempts'[s][n] = attempts[s][n]
    BY <1>5
  <1>8. \A n \in DOMAIN attempts[s] : attempts'[s][n] \in AttemptRow
    BY <1>4, <1>6, <1>7
  <1>9. DOMAIN attempts'[s] = DOMAIN attempts[s] /\ attempts'[s] \in Seq(AttemptRow)
    <2>1. attempts'[s] = [n \in 1 .. Len(attempts[s]) |-> attempts'[s][n]]
      BY <1>5, <1>6
    <2>2. DOMAIN attempts'[s] = DOMAIN attempts[s]
      BY <1>6, <2>1
    <2>3. [n \in 1 .. Len(attempts[s]) |-> attempts'[s][n]] \in Seq(AttemptRow)
      BY <1>6, <1>8
    <2>. QED
      BY <2>1, <2>2, <2>3
  <1>10. Len(attempts'[s]) = Len(attempts[s])
    BY <1>6, <1>9
  <1>11. \A n \in DOMAIN attempts[s] : IsOpen(s, n)' => IsOpen(s, n)
    BY <1>4, <1>7 DEF IsOpen
  <1>12. CASE stage[s].status \in OpenStage
    BY <1>1, <1>2, <1>3, <1>9, <1>10, <1>11, <1>12, MovedRow DEF OpenStage
  <1>13. CASE stage[s].status \notin OpenStage
    BY <1>1, <1>2, <1>3, <1>9, <1>10, <1>11, <1>13 DEF OpenStage
  <1>. QED
    BY <1>12, <1>13

LEMMA SettleIInv == IInv /\ SettleCancelCommit => IInv'
  <1>. SUFFICES ASSUME IInv, SettleCancelCommit PROVE IInv'
    OBVIOUS
  <1>1. TypeOK /\ run \in RunRow /\ claims' = {} /\ run' = [run EXCEPT !.status = "cancelled", !.cancelRequested = TRUE]
        /\ settling' = NotSettling
    BY DEF IInv, TypeOK, SettleCancelCommit
  <1>2. run' \in RunRow /\ run'.status = "cancelled"
    BY <1>1 DEF RunRow, RunStatus, TerminalRun
  <1>3. TypeOK'
    <2>1. stage' = [s \in Stages |-> stage'[s]] /\ attempts' = [s \in Stages |-> attempts'[s]]
      BY DEF SettleCancelCommit
    <2>2. stage' \in [Stages -> StageRow] /\ attempts' \in [Stages -> Seq(AttemptRow)]
      BY <1>1, <2>1, SettledRows
    <2>. QED
      BY <1>1, <1>2, <2>2 DEF TypeOK, NotSettling
  <1>4. SingleHolder'
    BY <1>1, SettledRows DEF IInv, SingleHolder
  <1>5. RunningIsHeld'
    BY <1>1, SettledRows DEF RunningIsHeld, TerminalStage
  <1>6. HolderHoldsRunning'
    BY <1>2 DEF HolderHoldsRunning
  <1>7. SettledIsUnheld'
    <2>1. \A s \in Stages : stage'[s].status \in {"completed", "failed", "skipped"} => stage'[s] = stage[s]
      BY <1>1, SettledRows
    <2>. QED
      BY <1>1, <2>1, SettledRows DEF IInv, SettledIsUnheld
  <1>8. LockedIsFree'
    BY <1>1 DEF LockedIsFree
  <1>9. StartsAfterDependencies'
    <2>1. \A s \in Stages : stage[s].status \in {"completed", "skipped"} => stage'[s] = stage[s]
      BY <1>1, SettledRows DEF TerminalStage
    <2>2. \A s \in Stages : DepsMet(s) => DepsMet(s)'
      BY <2>1, StagesAssumption DEF DepsMet, StagesAssumption
    <2>3. \A s \in Stages : attempts'[s] # <<>> => attempts[s] # <<>>
      BY <1>1, <1>3, SettledRows DEF TypeOK
    <2>. QED
      BY <1>1, <2>2, <2>3 DEF IInv, StartsAfterDependencies
  <1>10. SlicesAreBounded' /\ RetriesAreBounded'
    BY <1>1, SettledRows DEF IInv, SlicesAreBounded, RetriesAreBounded
  <1>. QED
    BY <1>3, <1>4, <1>5, <1>6, <1>7, <1>8, <1>9, <1>10 DEF IInv

LEMMA NextIInv == IInv /\ [Next]_vars => IInv'
  <1>. SUFFICES ASSUME IInv, [Next]_vars PROVE IInv'
    OBVIOUS
  <1>1. CASE UNCHANGED vars
    <2>1. RowStep
      BY <1>1 DEF IInv, TypeOK, RowStep, vars
    <2>. QED
      BY <2>1, RowStepIInv
  <1>2. CASE \E s \in Stages : ClaimPick(s) \/ ClaimExhausted(s) \/ ClaimGrant(s)
    BY <1>2, ClaimIInv, ExhaustedIInv, GrantIInv
  <1>3. CASE ClaimNothing
    BY <1>3, ClaimIInv
  <1>4. CASE \E s \in Stages : \E n \in DOMAIN attempts[s] :
               \/ HeartbeatAttempt(s, n)
               \/ \E outcome \in Outcomes : FinishAttempt(s, n, outcome)
               \/ LeaseExpires(s, n)
    BY <1>4, LeaseStepIInv, FinishIInv
  <1>5. CASE SettleCancelCommit
    BY <1>5, SettleIInv
  <1>. QED
    BY <1>1, <1>2, <1>3, <1>4, <1>5, RunStepIInv, WaitStepIInv DEF Next

-----------------------------------------------------------------------------
(* The theorems. *)

\* The strengthened invariant holds in every reachable state of every instance.
THEOREM Invariance == Spec => []IInv
  BY InitIInv, NextIInv, PTL DEF Spec

\* Every row keeps the type its column declares.
THEOREM Typing == Spec => []TypeOK
  <1>1. IInv => TypeOK
    BY DEF IInv
  <1>. QED
    BY <1>1, Invariance, PTL

\* However many workers, expiries and zombies there are, a stage never has two
\* open attempts.
THEOREM OneHolder == Spec => []SingleHolder
  <1>1. IInv => SingleHolder
    BY DEF IInv
  <1>. QED
    BY <1>1, Invariance, PTL

\* A running stage always has the attempt whose expiry the reap looks for.
THEOREM NoStageIsForgotten == Spec => []RunningIsHeld
  <1>1. IInv => RunningIsHeld
    BY DEF IInv
  <1>. QED
    BY <1>1, Invariance, PTL

\* A fence that admits a write admits it on a running stage, unless the run
\* was cancelled.
THEOREM FenceGuardsTheStage == Spec => []HolderHoldsRunning
  <1>1. IInv => HolderHoldsRunning
    BY DEF IInv
  <1>. QED
    BY <1>1, Invariance, PTL

\* On every dependency graph, cyclic ones included, nothing starts before what
\* it depends on is done.
THEOREM EdgesAreRespected == Spec => []StartsAfterDependencies
  <1>1. IInv => StartsAfterDependencies
    BY DEF IInv
  <1>. QED
    BY <1>1, Invariance, PTL

\* The slice ceiling bounds the attempts of every stage.
THEOREM AttemptsAreBounded == Spec => []SlicesAreBounded
  <1>1. IInv => SlicesAreBounded
    BY DEF IInv
  <1>. QED
    BY <1>1, Invariance, PTL

-----------------------------------------------------------------------------
(* Steps *)

\* A stage is pending only until its first claim.
PendingIsFresh ==
    \A s \in Stages : stage[s].status = "pending" =>
        stage[s].sliceCount = 0 /\ stage[s].attemptCount = 0

\* What one step does to the row of one stage.
StageMove(s) ==
    \/ stage'[s] = stage[s]
    \* a lost holder's stage, a pick, a grant, the end of the ceilings
    \/ /\ stage[s].status = "running" /\ stage'[s].status = "blocked"
       /\ ~\E n \in DOMAIN attempts[s] : IsLive(s, n)
       /\ \A n \in DOMAIN attempts[s] : ~IsOpen(s, n)'
    \/ stage[s].status \in {"pending", "blocked"} /\ stage'[s].status = "running"
    \/ stage[s].status = "blocked" /\ stage'[s].status \in {"failed", "skipped"}
    \* the holder's own settlement
    \/ /\ stage'[s].status \in {"completed", "failed", "waiting", "blocked"}
       /\ run.status # "cancelled" => stage[s].status = "running"
       /\ \A n \in DOMAIN attempts[s] : ~IsOpen(s, n)'
    \* a delay, a release or a decision
    \/ /\ stage'[s].sliceCount = stage[s].sliceCount /\ stage'[s].attemptCount = stage[s].attemptCount
       /\ \/ stage'[s].status = stage[s].status
          \/ stage[s].status = "waiting" /\ stage'[s].status \in {"blocked", "cancelled"}
    \* the settlement of a cancellation
    \/ /\ stage[s].status \notin TerminalStage /\ stage'[s].status = "cancelled"
       /\ run'.status = "cancelled"

LEMMA ReapMoves ==
    ASSUME IInv, attempts' = ReapedAttempts, stage' = ReapedStage, NEW s \in Stages
    PROVE  StageMove(s)
  <1>1. TypeOK
    BY DEF IInv
  <1>2. CASE Orphaned(s)
    <2>1. \A n \in DOMAIN attempts[s] : ~IsOpen(s, n)'
      BY <1>1, <1>2, ReapedOpen DEF Orphaned, IsOpen
    <2>. QED
      BY <1>1, <1>2, <2>1, ReapedRow DEF Orphaned, StageMove
  <1>3. CASE ~Orphaned(s)
    BY <1>1, <1>3, ReapedRow DEF StageMove
  <1>. QED
    BY <1>2, <1>3

LEMMA ExhaustedWasTried ==
    ASSUME IInv, PendingIsFresh, NEW s \in Stages, ClaimExhausted(s)
    PROVE  stage[s].status = "blocked"
  <1>1. stage[s].status \in {"pending", "blocked"}
    BY DEF IInv, LockedIsFree, ClaimExhausted
  <1>2. MaxSlices[s] \in Nat \ {0} /\ MaxAttempts[s] \in Nat \ {0}
    BY StagesAssumption DEF StagesAssumption
  <1>3. stage[s].sliceCount >= MaxSlices[s] \/ stage[s].attemptCount >= MaxAttempts[s]
    BY DEF ClaimExhausted, SpentOut
  <1>. QED
    BY <1>1, <1>2, <1>3 DEF PendingIsFresh

LEMMA ExhaustedMoves ==
    ASSUME IInv, PendingIsFresh, NEW t \in Stages, ClaimExhausted(t), NEW s \in Stages
    PROVE  StageMove(s)
  <1>1. stage \in [Stages -> StageRow]
    BY DEF IInv, TypeOK
  <1>2. CASE s # t
    BY <1>1, <1>2 DEF ClaimExhausted, StageMove
  <1>3. CASE s = t
    <2>1. stage'[s].status \in {"failed", "skipped"}
      BY <1>1, <1>3 DEF ClaimExhausted, StageRow
    <2>. QED
      BY <1>3, <2>1, ExhaustedWasTried DEF StageMove
  <1>. QED
    BY <1>2, <1>3

LEMMA GrantMoves ==
    ASSUME IInv, NEW t \in Stages, ClaimGrant(t), NEW s \in Stages
    PROVE  StageMove(s)
  <1>1. stage \in [Stages -> StageRow] /\ t \in claims
    BY DEF IInv, TypeOK, ClaimGrant
  <1>2. CASE s # t
    BY <1>1, <1>2 DEF ClaimGrant, StageMove
  <1>3. CASE s = t
    <2>1. stage'[s].status = "running"
      BY <1>1, <1>3 DEF ClaimGrant, StageRow
    <2>2. stage[s].status \in {"pending", "blocked"}
      BY <1>1, <1>3 DEF IInv, LockedIsFree
    <2>. QED
      BY <2>1, <2>2 DEF StageMove
  <1>. QED
    BY <1>2, <1>3

LEMMA FinishMoves ==
    ASSUME IInv, NEW t \in Stages, NEW m \in DOMAIN attempts[t], NEW outcome \in Outcomes,
           FinishAttempt(t, m, outcome), NEW s \in Stages
    PROVE  StageMove(s)
  <1>. DEFINE left == RetryAttemptsLeft(stage[t].attemptCount, MaxAttempts[t])
  <1>1. stage \in [Stages -> StageRow] /\ attempts \in [Stages -> Seq(AttemptRow)]
    BY DEF IInv, TypeOK
  <1>2. CASE s # t
    BY <1>1, <1>2 DEF FinishAttempt, StageMove
  <1>3. CASE s = t
    <2>1. stage'[s].status = SettledStage(outcome, left)
      BY <1>1, <1>3 DEF FinishAttempt, StageRow
    <2>2. outcome \in Outcome
      BY StagesAssumption DEF StagesAssumption
    <2>3. SettledStage(outcome, left) \in {"completed", "failed", "waiting", "blocked"}
      BY <2>2 DEF SettledStage, ParkedStatus, Outcome, Waiting
    <2>4. IsOpen(t, m) /\ m = Len(attempts[t])
      BY DEF FinishAttempt, IsLive, IInv, SingleHolder
    <2>5. run.status # "cancelled" => stage[s].status = "running"
      BY <1>3, <2>4 DEF IInv, HolderHoldsRunning
    <2>6. SettledAttempt(outcome) \notin OpenAttempt
      BY <2>2 DEF SettledAttempt, OpenAttempt
    <2>7. ASSUME NEW n \in DOMAIN attempts[s] PROVE ~IsOpen(s, n)'
      <3>1. CASE n = m
        <4>1. attempts'[s][n] = [status |-> SettledAttempt(outcome), lease |-> "over"]
          BY <1>1, <1>3, <3>1 DEF FinishAttempt
        <4>2. attempts'[s][n].status = SettledAttempt(outcome)
          BY <4>1
        <4>. QED
          BY <2>6, <4>2 DEF IsOpen
      <3>2. CASE n # m
        <4>1. attempts'[s][n] = attempts[s][n] /\ ~IsOpen(s, n)
          BY <1>1, <1>3, <2>4, <3>2 DEF FinishAttempt, IInv, SingleHolder
        <4>. QED
          BY <4>1 DEF IsOpen
      <3>. QED
        BY <3>1, <3>2
    <2>. QED
      BY <2>1, <2>3, <2>5, <2>7 DEF StageMove
  <1>. QED
    BY <1>2, <1>3

LEMMA WaitMoves ==
    ASSUME IInv, NEW s \in Stages,
           \/ \E t \in Stages : DelayElapses(t) \/ WebhookRelease(t)
           \/ \E t \in Stages : \E decision \in {"approved", "rejected"} : ResolveStage(t, decision)
           \/ \E released \in SUBSET Stages : ReleaseStages(released)
    PROVE  StageMove(s)
  <1>1. stage \in [Stages -> StageRow] /\ {"blocked", "cancelled"} \subseteq StageStatus
    BY DEF IInv, TypeOK, StageStatus, TerminalStage
  <1>2. ASSUME NEW t \in Stages, DelayElapses(t) PROVE StageMove(s)
    <2>1. stage' = [stage EXCEPT ![t] = [stage[t] EXCEPT !.after = "due"]]
      BY <1>1, <1>2 DEF DelayElapses
    <2>2. stage'[s].status = stage[s].status /\ stage'[s].sliceCount = stage[s].sliceCount
          /\ stage'[s].attemptCount = stage[s].attemptCount
      BY <1>1, <2>1 DEF StageRow
    <2>. QED
      BY <2>2 DEF StageMove
  <1>3. ASSUME NEW t \in Stages, WebhookRelease(t) PROVE StageMove(s)
    BY <1>1, <1>3, MovedRow DEF WebhookRelease, StageMove
  <1>4. ASSUME NEW t \in Stages, NEW decision \in {"approved", "rejected"}, ResolveStage(t, decision)
        PROVE StageMove(s)
    <2>1. PICK to \in {"blocked", "cancelled"} :
             stage' = [stage EXCEPT ![t] = IF stage[t].status # "waiting" THEN stage[t]
                                           ELSE Moved(stage[t], to)]
      BY <1>1, <1>4 DEF ResolveStage
    <2>2. Moved(stage[t], to).status = to
          /\ Moved(stage[t], to).attemptCount = stage[t].attemptCount
          /\ Moved(stage[t], to).sliceCount = stage[t].sliceCount
      BY <1>1, MovedRow
    <2>. QED
      BY <1>1, <2>1, <2>2 DEF StageMove
  <1>5. ASSUME NEW released \in SUBSET Stages, ReleaseStages(released) PROVE StageMove(s)
    BY <1>1, <1>5, MovedRow DEF ReleaseStages, StageMove
  <1>. QED
    BY <1>2, <1>3, <1>4, <1>5

LEMMA NextMoves ==
    ASSUME IInv, PendingIsFresh, [Next]_vars, NEW s \in Stages
    PROVE  StageMove(s)
  <1>1. CASE UNCHANGED stage
    BY <1>1 DEF StageMove
  <1>2. CASE \E t \in Stages : ClaimPick(t) \/ ClaimExhausted(t) \/ ClaimGrant(t)
    BY <1>2, ReapMoves, ExhaustedMoves, GrantMoves DEF ClaimPick
  <1>3. CASE ClaimNothing
    BY <1>3, ReapMoves DEF ClaimNothing
  <1>4. CASE \E t \in Stages : \E n \in DOMAIN attempts[t] : \E outcome \in Outcomes : FinishAttempt(t, n, outcome)
    BY <1>4, FinishMoves
  <1>5. CASE SettleCancelCommit
    <2>1. TypeOK
      BY DEF IInv
    <2>2. run'.status = "cancelled"
      BY <1>5, <2>1 DEF SettleCancelCommit, TypeOK, RunRow
    <2>. QED
      BY <1>5, <2>1, <2>2, SettledRows DEF StageMove
  <1>. QED
    BY <1>1, <1>2, <1>3, <1>4, <1>5, WaitMoves
       DEF Next, vars, HeartbeatAttempt, LeaseExpires, TransitionRun, StartIfQueued,
           SetCodingPaused, RequestCancellation, SettleCancelBegin

LEMMA FreshStep == IInv /\ PendingIsFresh /\ [Next]_vars => PendingIsFresh'
  <1>. SUFFICES ASSUME IInv, PendingIsFresh, [Next]_vars, NEW s \in Stages, stage'[s].status = "pending"
                PROVE  stage'[s].sliceCount = 0 /\ stage'[s].attemptCount = 0
    BY DEF PendingIsFresh
  <1>1. StageMove(s)
    BY NextMoves
  <1>. QED
    BY <1>1 DEF StageMove, PendingIsFresh

LEMMA Freshness == Spec => []PendingIsFresh
  <1>1. Init => PendingIsFresh
    BY DEF Init, PendingIsFresh
  <1>. QED
    BY <1>1, FreshStep, Invariance, PTL DEF Spec

-----------------------------------------------------------------------------
\* The SQL functions and releases, which never consult the transition table,
\* reopen no finished stage and skip no edge while the run is not cancelled.
THEOREM StagesFollowTheTable == Spec => StageFollowsTable
  <1>. DEFINE A == \A s \in Stages : run.status # "cancelled" =>
                     CanTransitionStage(stage[s].status, stage[s].status')
  <1>1. ASSUME IInv, PendingIsFresh, [Next]_vars PROVE A
    <2>. SUFFICES ASSUME NEW s \in Stages, run.status # "cancelled"
                  PROVE  CanTransitionStage(stage[s].status, stage'[s].status)
      OBVIOUS
    <2>1. StageMove(s)
      BY <1>1, NextMoves
    <2>2. stage[s].status \in StageStatus
      BY <1>1 DEF IInv, TypeOK, StageRow
    <2>. QED
      BY <2>1, <2>2 DEF StageMove, CanTransitionStage, StageEdges, StageStatus, TerminalStage
  <1>2. IInv /\ PendingIsFresh /\ [Next]_vars => [A]_vars
    BY <1>1
  <1>. QED
    BY <1>2, Invariance, Freshness, PTL DEF Spec, StageFollowsTable

\* Only its holder's own settlement, or the settlement of a cancellation,
\* takes a running stage from under a live lease.
THEOREM HoldersKeepTheirStage == Spec => HolderKeepsStage
  <1>. DEFINE A == \A s \in Stages : \A n \in DOMAIN attempts[s] :
          IsLive(s, n) /\ stage[s].status = "running" /\ stage[s].status' # "running"
              => IsOpen(s, n)' = FALSE \/ run.status' = "cancelled"
  <1>1. ASSUME IInv, PendingIsFresh, [Next]_vars PROVE A
    <2>. SUFFICES ASSUME NEW s \in Stages, NEW n \in DOMAIN attempts[s], IsLive(s, n),
                         stage[s].status = "running", stage'[s].status # "running"
                  PROVE  IsOpen(s, n)' = FALSE \/ run'.status = "cancelled"
      OBVIOUS
    <2>1. StageMove(s)
      BY <1>1, NextMoves
    <2>. QED
      BY <2>1 DEF StageMove
  <1>2. IInv /\ PendingIsFresh /\ [Next]_vars => [A]_vars
    BY <1>1
  <1>. QED
    BY <1>2, Invariance, Freshness, PTL DEF Spec, HolderKeepsStage

\* Between the two steps of the settlement nothing else writes the run row.
SettlingLocksRun == settling.active => run.status = "cancelling"

LEMMA SettlingLocks == Spec => []SettlingLocksRun
  <1>1. Init => SettlingLocksRun
    BY DEF Init, SettlingLocksRun, NotSettling
  <1>2. ASSUME IInv, SettlingLocksRun, [Next]_vars PROVE SettlingLocksRun'
    <2>1. CASE UNCHANGED <<run, settling>>
      BY <1>2, <2>1 DEF SettlingLocksRun
    <2>2. CASE RunUnlocked /\ UNCHANGED settling
      BY <2>2 DEF RunUnlocked, SettlingLocksRun
    <2>3. CASE SettleCancelBegin
      BY <2>3 DEF SettleCancelBegin, SettlingLocksRun
    <2>4. CASE SettleCancelCommit
      BY <2>4 DEF SettleCancelCommit, SettlingLocksRun, NotSettling
    <2>5. ASSUME NEW released, ResumeRun(released), UNCHANGED settling PROVE SettlingLocksRun'
      BY <2>1, <2>2, <2>5 DEF ResumeRun
    <2>. QED
      BY <1>2, <2>1, <2>2, <2>3, <2>4, <2>5
         DEF Next, vars, ClaimPick, ClaimExhausted, ClaimGrant, ClaimNothing, HeartbeatAttempt, FinishAttempt,
             LeaseExpires, DelayElapses, TransitionRun, StartIfQueued, SetCodingPaused, RequestCancellation,
             ResolveStage, ReleaseStages, WebhookRelease
  <1>. QED
    BY <1>1, <1>2, Invariance, PTL DEF Spec

\* Starts, pauses, cancellations, releases and decisions, written as plain
\* UPDATEs, move the run only along its table: no terminal run comes back.
THEOREM RunsFollowTheTable == Spec => RunFollowsTable
  <1>. DEFINE A == CanTransitionRun(run.status, run.status')
  <1>1. ASSUME IInv, SettlingLocksRun, [Next]_vars PROVE A
    <2>1. run \in RunRow
      BY <1>1 DEF IInv, TypeOK
    <2>2. CASE UNCHANGED run
      BY <2>2 DEF CanTransitionRun
    <2>3. ASSUME NEW to \in TransitionTargets, TransitionRun(to) PROVE A
      BY <2>1, <2>3 DEF TransitionRun, RunRow
    <2>4. CASE StartIfQueued
      BY <2>1, <2>4 DEF StartIfQueued, RunRow, CanTransitionRun, RunEdges
    <2>5. ASSUME NEW paused \in BOOLEAN, SetCodingPaused(paused) PROVE A
      BY <2>1, <2>5 DEF SetCodingPaused, RunRow, CanTransitionRun
    <2>6. CASE RequestCancellation
      BY <2>1, <2>6 DEF RequestCancellation, RunRow, RunStatus, TerminalRun, CanTransitionRun, RunEdges
    <2>7. CASE SettleCancelCommit
      BY <1>1, <2>1, <2>7 DEF SettleCancelCommit, SettlingLocksRun, RunRow, CanTransitionRun, RunEdges
    <2>8. ASSUME NEW released, ResumeRun(released) PROVE A
      BY <2>1, <2>2, <2>8 DEF ResumeRun, RunRow, CanTransitionRun, RunEdges
    <2>. QED
      BY <1>1, <2>2, <2>3, <2>4, <2>5, <2>6, <2>7, <2>8
         DEF Next, vars, ClaimPick, ClaimExhausted, ClaimGrant, ClaimNothing, HeartbeatAttempt, FinishAttempt,
             LeaseExpires, DelayElapses, SettleCancelBegin, ResolveStage, ReleaseStages, WebhookRelease
  <1>2. IInv /\ SettlingLocksRun /\ [Next]_vars => [A]_vars
    BY <1>1
  <1>. QED
    BY <1>2, Invariance, SettlingLocks, PTL DEF Spec, RunFollowsTable

-----------------------------------------------------------------------------
\* Only the newest attempt of a stage is ever written, no lease comes back, and an
\* attempt that was closed stays as it is: what a claim reads of it is final.
CountAfterClaim(s) == IF IsRetry(s) THEN stage[s].attemptCount + 1 ELSE stage[s].attemptCount

AttemptMove(s) ==
    /\ attempts'[s] \in Seq(AttemptRow)
    /\ \A n \in DOMAIN attempts[s] :
          /\ ~IsOpen(s, n) => attempts'[s][n] = attempts[s][n]
          /\ attempts'[s][n].lease = "live" => attempts[s][n].lease = "live"
    /\ \/ /\ Len(attempts'[s]) = Len(attempts[s])
          /\ stage'[s].attemptCount = stage[s].attemptCount
       \/ /\ Len(attempts'[s]) = Len(attempts[s]) + 1
          /\ stage'[s].status = "running"
          /\ \A n \in DOMAIN attempts[s] : ~IsOpen(s, n)
          /\ stage'[s].attemptCount = CountAfterClaim(s)

LEMMA NextAttempts ==
    ASSUME IInv, [Next]_vars, NEW s \in Stages
    PROVE  AttemptMove(s)
  <1>1. /\ TypeOK /\ stage \in [Stages -> StageRow] /\ attempts \in [Stages -> Seq(AttemptRow)]
        /\ TypeOK' /\ attempts'[s] \in Seq(AttemptRow)
    BY NextIInv DEF IInv, TypeOK
  <1>2. CASE attempts' = attempts /\ stage'[s].attemptCount = stage[s].attemptCount
    BY <1>1, <1>2 DEF AttemptMove
  <1>3. ASSUME attempts' = ReapedAttempts, stage' = ReapedStage PROVE AttemptMove(s)
    <2>1. Len(attempts'[s]) = Len(attempts[s]) /\ stage'[s].attemptCount = stage[s].attemptCount
      BY <1>1, <1>3, ReapedOpen, ReapedRow
    <2>2. ASSUME NEW n \in DOMAIN attempts[s], ~IsOpen(s, n) PROVE attempts'[s][n] = attempts[s][n]
      <3>1. attempts[s][n] \in AttemptRow /\ attempts[s][n].status \notin OpenAttempt
        BY <1>1, <2>2 DEF IsOpen
      <3>2. attempts'[s][n] = Retired(attempts[s][n])
        BY <1>3 DEF ReapedAttempts
      <3>. QED
        BY <3>1, <3>2, RetiredRow
    <2>3. ASSUME NEW n \in DOMAIN attempts[s] PROVE attempts'[s][n].lease = attempts[s][n].lease
      <3>1. attempts[s][n] \in AttemptRow
        BY <1>1
      <3>2. attempts'[s][n] = Retired(attempts[s][n])
        BY <1>3 DEF ReapedAttempts
      <3>. QED
        BY <3>1, <3>2, RetiredRow
    <2>. QED
      BY <1>1, <2>1, <2>2, <2>3 DEF AttemptMove
  <1>4. ASSUME NEW t \in Stages, ClaimGrant(t) PROVE AttemptMove(s)
    <2>1. t \in claims
      BY <1>4 DEF ClaimGrant
    <2>2. CASE s # t
      BY <1>1, <1>4, <2>2 DEF ClaimGrant, AttemptMove
    <2>3. CASE s = t
      <3>1. \A n \in DOMAIN attempts[s] : ~IsOpen(s, n)
        BY <2>1, <2>3 DEF IInv, LockedIsFree
      <3>2. attempts'[s] = Append(attempts[s], [status |-> "claimed", lease |-> "live"])
        BY <1>1, <1>4, <2>3 DEF ClaimGrant
      <3>3. Len(attempts'[s]) = Len(attempts[s]) + 1
            /\ \A n \in DOMAIN attempts[s] : attempts'[s][n] = attempts[s][n]
        BY <1>1, <3>2
      <3>4. stage'[s].attemptCount = CountAfterClaim(s) /\ stage'[s].status = "running"
        BY <1>1, <1>4, <2>3 DEF ClaimGrant, StageRow, CountAfterClaim
      <3>. QED
        BY <1>1, <3>1, <3>3, <3>4 DEF AttemptMove
    <2>. QED
      BY <2>2, <2>3
  <1>5. ASSUME NEW t \in Stages, NEW m \in DOMAIN attempts[t], IsOpen(t, m), NEW row,
               row.lease = "live" => attempts[t][m].lease = "live",
               attempts' = [attempts EXCEPT ![t] = [attempts[t] EXCEPT ![m] = row]],
               stage'[s].attemptCount = stage[s].attemptCount
        PROVE  AttemptMove(s)
    <2>1. Len(attempts'[s]) = Len(attempts[s])
      BY <1>1, <1>5
    <2>2. \A n \in DOMAIN attempts[s] : ~IsOpen(s, n) => attempts'[s][n] = attempts[s][n]
      BY <1>1, <1>5
    <2>3. \A n \in DOMAIN attempts[s] :
             attempts'[s][n].lease = "live" => attempts[s][n].lease = "live"
      BY <1>1, <1>5
    <2>. QED
      BY <1>1, <1>5, <2>1, <2>2, <2>3 DEF AttemptMove
  <1>6. ASSUME NEW t \in Stages, NEW m \in DOMAIN attempts[t],
               \/ HeartbeatAttempt(t, m)
               \/ LeaseExpires(t, m)
               \/ \E outcome \in Outcomes : FinishAttempt(t, m, outcome)
        PROVE AttemptMove(s)
    <2>1. IsOpen(t, m)
      BY <1>6 DEF HeartbeatAttempt, LeaseExpires, FinishAttempt, IsLive
    <2>2. PICK row : /\ attempts' = [attempts EXCEPT ![t] = [attempts[t] EXCEPT ![m] = row]]
                     /\ row.lease = "live" => attempts[t][m].lease = "live"
      <3>. DEFINE Writes(row) == attempts' = [attempts EXCEPT ![t] = [attempts[t] EXCEPT ![m] = row]]
                  beating == [attempts[t][m] EXCEPT !.status = "running"]
                  expired == [attempts[t][m] EXCEPT !.lease = "over"]
      <3>0. attempts[t][m] \in AttemptRow
        BY <1>1
      <3>1. /\ beating.lease = attempts[t][m].lease
            /\ expired.lease = "over"
            /\ \A outcome : [status |-> SettledAttempt(outcome), lease |-> "over"].lease = "over"
        BY <3>0 DEF AttemptRow
      <3>2. \/ Writes(beating)
            \/ Writes(expired)
            \/ \E outcome \in Outcomes : Writes([status |-> SettledAttempt(outcome), lease |-> "over"])
        BY <1>1, <1>6 DEF HeartbeatAttempt, LeaseExpires, FinishAttempt
      <3>. HIDE DEF beating, expired
      <3>. QED
        BY <3>1, <3>2
    <2>3. stage'[s].attemptCount = stage[s].attemptCount
      <3>1. CASE UNCHANGED stage
        BY <3>1
      <3>2. ASSUME NEW outcome \in Outcomes, FinishAttempt(t, m, outcome)
            PROVE stage'[s].attemptCount = stage[s].attemptCount
        BY <1>1, <3>2 DEF FinishAttempt, StageRow
      <3>. QED
        BY <1>6, <3>1, <3>2 DEF HeartbeatAttempt, LeaseExpires
    <2>. QED
      BY <1>5, <2>1, <2>2, <2>3
  <1>7. CASE SettleCancelCommit
    <2>1. \A n \in DOMAIN attempts[s] :
             /\ ~IsOpen(s, n) => attempts'[s][n] = attempts[s][n]
             /\ attempts'[s][n].lease = "live" => attempts[s][n].lease = "live"
      BY <1>1, <1>7 DEF SettleCancelCommit
    <2>. QED
      BY <1>1, <1>7, <2>1, SettledRows DEF AttemptMove
  <1>8. ASSUME NEW t \in Stages, ClaimExhausted(t) PROVE AttemptMove(s)
    <2>1. attempts' = attempts /\ stage'[s].attemptCount = stage[s].attemptCount
      BY <1>1, <1>8 DEF ClaimExhausted, StageRow
    <2>. QED
      BY <1>2, <2>1
  <1>9. ASSUME \/ \E t \in Stages : DelayElapses(t) \/ WebhookRelease(t)
               \/ \E t \in Stages : \E decision \in {"approved", "rejected"} : ResolveStage(t, decision)
               \/ \E released \in SUBSET Stages : ReleaseStages(released)
        PROVE  AttemptMove(s)
    <2>1. attempts' = attempts
      BY <1>9 DEF DelayElapses, WebhookRelease, ResolveStage, ReleaseStages
    <2>2. stage'[s].attemptCount = stage[s].attemptCount
      <3>1. ASSUME NEW t \in Stages, DelayElapses(t) PROVE stage'[s].attemptCount = stage[s].attemptCount
        BY <1>1, <3>1 DEF DelayElapses, StageRow
      <3>2. ASSUME NEW t \in Stages, WebhookRelease(t) PROVE stage'[s].attemptCount = stage[s].attemptCount
        BY <1>1, <3>2 DEF WebhookRelease, Moved, StageRow
      <3>3. ASSUME NEW t \in Stages, NEW decision, ResolveStage(t, decision)
            PROVE stage'[s].attemptCount = stage[s].attemptCount
        BY <1>1, <3>3 DEF ResolveStage, Moved, StageRow
      <3>4. ASSUME NEW released \in SUBSET Stages, ReleaseStages(released)
            PROVE stage'[s].attemptCount = stage[s].attemptCount
        BY <1>1, <3>4 DEF ReleaseStages, Moved, StageRow
      <3>. QED
        BY <1>9, <3>1, <3>2, <3>3, <3>4
    <2>. QED
      BY <1>2, <2>1, <2>2
  <1>. QED
    BY <1>2, <1>3, <1>4, <1>6, <1>7, <1>8, <1>9
       DEF Next, vars, ClaimPick, ClaimNothing, TransitionRun, StartIfQueued,
           SetCodingPaused, RequestCancellation, SettleCancelBegin

LEMMA RetriesStep == IInv /\ RetriesAreCounted /\ [Next]_vars => RetriesAreCounted'
  <1>. SUFFICES ASSUME IInv, RetriesAreCounted, [Next]_vars, NEW s \in Stages
                PROVE  /\ stage'[s].attemptCount = Cardinality(RetryClaims(s))'
                       /\ stage'[s].attemptCount <= MaxAttempts[s]
    BY DEF RetriesAreCounted
  <1>. DEFINE Row == attempts[s]
              Row1 == attempts'[s]
              last == Len(attempts[s])
  <1>1. Row \in Seq(AttemptRow) /\ Row1 \in Seq(AttemptRow) /\ last \in Nat
        /\ DOMAIN Row = 1 .. last /\ DOMAIN Row1 = 1 .. Len(Row1)
    BY NextIInv DEF IInv, TypeOK
  <1>2. AttemptMove(s) /\ stage'[s].attemptCount <= MaxAttempts[s]
    BY NextAttempts, NextIInv DEF IInv, RetriesAreBounded
  <1>3. \A n \in 1 .. last : n < last => Row1[n] = Row[n]
    BY <1>1, <1>2 DEF AttemptMove, IInv, SingleHolder
  <1>4. RetryClaims(s) = {n \in 1 .. last : n = 1 \/ Row[n - 1].status \in RetryAfter}
        /\ RetryClaims(s)' = {n \in 1 .. Len(Row1) : n = 1 \/ Row1[n - 1].status \in RetryAfter}
    BY <1>1 DEF RetryClaims
  <1>5. CASE Len(Row1) = last /\ stage'[s].attemptCount = stage[s].attemptCount
    <2>1. RetryClaims(s)' = {n \in 1 .. last : n = 1 \/ Row1[n - 1].status \in RetryAfter}
      BY <1>4, <1>5
    <2>2. \A n \in 1 .. last : n = 1 \/ Row1[n - 1] = Row[n - 1]
      BY <1>1, <1>3
    <2>3. RetryClaims(s)' = RetryClaims(s)
      BY <1>4, <2>1, <2>2
    <2>. QED
      BY <1>2, <1>5, <2>3 DEF RetriesAreCounted
  <1>6. CASE /\ Len(Row1) = last + 1 /\ \A n \in DOMAIN Row : ~IsOpen(s, n)
             /\ stage'[s].attemptCount = CountAfterClaim(s)
    <2>1. \A n \in 1 .. last : Row1[n] = Row[n]
      BY <1>1, <1>2, <1>6 DEF AttemptMove
    <2>2. IsRetry(s) <=> last = 0 \/ Row[last].status \in RetryAfter
      BY <1>1 DEF IsRetry
    <2>3. RetryClaims(s)' = IF IsRetry(s) THEN RetryClaims(s) \cup {last + 1} ELSE RetryClaims(s)
      <3>1. RetryClaims(s)' = {n \in 1 .. last + 1 : n = 1 \/ Row1[n - 1].status \in RetryAfter}
        BY <1>4, <1>6
      <3>2. ASSUME NEW n \in 1 .. last PROVE n \in RetryClaims(s)' <=> n \in RetryClaims(s)
        <4>1. n = 1 \/ Row1[n - 1] = Row[n - 1]
          BY <1>1, <2>1
        <4>2. n \in 1 .. last + 1
          BY <1>1
        <4>. QED
          BY <1>4, <3>1, <4>1, <4>2
      <3>3. last + 1 \in RetryClaims(s)' <=> last = 0 \/ Row1[last].status \in RetryAfter
        BY <1>1, <3>1
      <3>4. last + 1 \in RetryClaims(s)' <=> IsRetry(s)
        BY <1>1, <2>1, <2>2, <3>3
      <3>5. RetryClaims(s) \subseteq 1 .. last /\ RetryClaims(s)' \subseteq 1 .. last + 1
        BY <1>1, <1>4, <3>1
      <3>6. 1 .. last + 1 = (1 .. last) \cup {last + 1} /\ last + 1 \notin 1 .. last
        BY <1>1
      <3>. HIDE DEF last
      <3>. QED
        BY <3>2, <3>4, <3>5, <3>6
    <2>4. IsFiniteSet(RetryClaims(s)) /\ last + 1 \notin RetryClaims(s)
      <3>1. RetryClaims(s) \in SUBSET (1 .. last) /\ last + 1 \notin RetryClaims(s)
        BY <1>1, <1>4
      <3>2. IsFiniteSet(1 .. last)
        BY <1>1, FS_Interval
      <3>. QED
        BY <3>1, <3>2, FS_Subset
    <2>5. Cardinality(RetryClaims(s) \cup {last + 1}) = Cardinality(RetryClaims(s)) + 1
      BY <2>4, FS_AddElement
    <2>. QED
      BY <1>2, <1>6, <2>3, <2>5 DEF RetriesAreCounted, CountAfterClaim
  <1>. QED
    BY <1>2, <1>5, <1>6 DEF AttemptMove

\* A retry is spent by every claim that follows nothing, a failure, a loss or a
\* cancellation, and by no other, however long the stage only yields.
THEOREM RetriesAreCountedRight == Spec => []RetriesAreCounted
  <1>1. Init => RetriesAreCounted
    <2>1. Init => \A s \in Stages : RetryClaims(s) = {}
      BY DEF Init, RetryClaims
    <2>2. Init => \A s \in Stages : stage[s].attemptCount = 0
      BY DEF Init
    <2>3. Init => \A s \in Stages : stage[s].attemptCount = Cardinality(RetryClaims(s))
      BY <2>1, <2>2, FS_EmptySet
    <2>4. \A s \in Stages : 0 <= MaxAttempts[s]
      BY StagesAssumption DEF StagesAssumption
    <2>. QED
      BY <2>2, <2>3, <2>4 DEF RetriesAreCounted
  <1>. QED
    BY <1>1, RetriesStep, Invariance, PTL DEF Spec

-----------------------------------------------------------------------------
\* Whoever holds an attempt finds its stage running, or cancelled under it.
HeldIsRunningOrCancelled ==
    \A s \in Stages : \A n \in DOMAIN attempts[s] :
        IsOpen(s, n) => stage[s].status \in {"running", "cancelled"}

LEMMA HeldStep ==
    IInv /\ PendingIsFresh /\ HeldIsRunningOrCancelled /\ [Next]_vars => HeldIsRunningOrCancelled'
  <1>. SUFFICES ASSUME IInv, PendingIsFresh, HeldIsRunningOrCancelled, [Next]_vars,
                       NEW s \in Stages, NEW n \in DOMAIN attempts'[s], IsOpen(s, n)'
                PROVE  stage'[s].status \in {"running", "cancelled"}
    BY DEF HeldIsRunningOrCancelled
  <1>1. AttemptMove(s) /\ StageMove(s)
    BY NextAttempts, NextMoves
  <1>2. CASE n \in DOMAIN attempts[s]
    <2>1. IsOpen(s, n)
      BY <1>1, <1>2 DEF AttemptMove, IsOpen
    <2>2. stage[s].status \in {"running", "cancelled"}
      BY <1>2, <2>1 DEF HeldIsRunningOrCancelled
    <2>. QED
      BY <1>1, <1>2, <2>2 DEF StageMove
  <1>3. CASE n \notin DOMAIN attempts[s]
    <2>1. attempts[s] \in Seq(AttemptRow)
      BY DEF IInv, TypeOK
    <2>2. Len(attempts'[s]) # Len(attempts[s])
      BY <1>1, <1>3, <2>1 DEF AttemptMove
    <2>. QED
      BY <1>1, <2>2 DEF AttemptMove
  <1>. QED
    BY <1>2, <1>3

LEMMA HoldersFindTheirStage == Spec => []HeldIsRunningOrCancelled
  <1>1. Init => HeldIsRunningOrCancelled
    BY DEF Init, HeldIsRunningOrCancelled
  <1>. QED
    BY <1>1, HeldStep, Invariance, Freshness, PTL DEF Spec

-----------------------------------------------------------------------------
(* The ledger implements the board. *)

phase == [s \in Stages |-> Phase(stage[s].status)]
epoch == [s \in Stages |-> Len(attempts[s])]

LEMMA BoardLose ==
    ASSUME IInv, attempts' = ReapedAttempts, stage' = ReapedStage
    PROVE  Board!Next
  <1>. DEFINE lost == {s \in Stages : Orphaned(s)}
  <1>1. TypeOK
    BY DEF IInv
  <1>2. \A s \in lost : phase[s] = "held" /\ phase'[s] = "idle"
    BY <1>1, ReapedRow DEF phase, Phase
  <1>3. \A s \in Stages \ lost : phase'[s] = phase[s]
    BY <1>1, ReapedRow DEF phase
  <1>4. phase' = [s \in Stages |-> IF s \in lost THEN "idle" ELSE phase[s]]
    BY <1>2, <1>3 DEF phase
  <1>5. epoch' = epoch
    BY <1>1, ReapedOpen DEF epoch
  <1>6. Board!Lose(lost)
    BY <1>2, <1>4, <1>5 DEF Board!Lose, phase, epoch
  <1>. QED
    BY <1>6 DEF Board!Next

LEMMA BoardTake ==
    ASSUME IInv, NEW s \in Stages, ClaimGrant(s)
    PROVE  Board!Next
  <1>1. /\ stage \in [Stages -> StageRow] /\ attempts \in [Stages -> Seq(AttemptRow)]
        /\ s \in claims
    BY DEF IInv, TypeOK, ClaimGrant
  <1>2. stage[s].status \in {"pending", "blocked"} /\ DepsMet(s)
    BY <1>1 DEF IInv, LockedIsFree, StartsAfterDependencies
  <1>3. stage'[s].status = "running" /\ \A t \in Stages \ {s} : stage'[t] = stage[t]
    BY <1>1 DEF ClaimGrant, StageRow
  <1>4. phase[s] = "idle" /\ phase' = [phase EXCEPT ![s] = "held"]
    BY <1>2, <1>3 DEF phase, Phase
  <1>5. \A d \in DependsOn[s] : phase[d] \in {"completed", "skipped"}
    BY <1>2, StagesAssumption DEF DepsMet, phase, Phase, StagesAssumption
  <1>6. attempts' = [attempts EXCEPT ![s] = Append(attempts[s], [status |-> "claimed", lease |-> "live"])]
    BY <1>1 DEF ClaimGrant
  <1>7. epoch' = [epoch EXCEPT ![s] = epoch[s] + 1]
    <2>1. \A t \in Stages \ {s} : attempts'[t] = attempts[t]
      BY <1>1, <1>6
    <2>2. Len(attempts'[s]) = Len(attempts[s]) + 1
      BY <1>1, <1>6
    <2>. QED
      BY <2>1, <2>2 DEF epoch
  <1>8. Board!Take(s)
    BY <1>4, <1>5, <1>7 DEF Board!Take, phase, epoch
  <1>. QED
    BY <1>8 DEF Board!Next

LEMMA BoardGiveUp ==
    ASSUME IInv, PendingIsFresh, RetriesAreCounted, NEW s \in Stages, ClaimExhausted(s)
    PROVE  Board!Next
  <1>1. stage \in [Stages -> StageRow] /\ attempts \in [Stages -> Seq(AttemptRow)] /\ s \in claims
    BY DEF IInv, TypeOK, ClaimExhausted
  <1>2. PICK to \in {"failed", "skipped"} :
           stage'[s].status = to /\ \A t \in Stages \ {s} : stage'[t] = stage[t]
    BY <1>1 DEF ClaimExhausted, StageRow
  <1>3. stage[s].status = "blocked"
    BY ExhaustedWasTried
  <1>4. Len(attempts[s]) > 0
    <2>1. /\ MaxSlices[s] \in Nat \ {0} /\ MaxAttempts[s] \in Nat \ {0}
          /\ stage[s].sliceCount = Len(attempts[s]) /\ Len(attempts[s]) \in Nat
      BY <1>1, StagesAssumption DEF StagesAssumption, IInv, SlicesAreBounded
    <2>2. SUFFICES ASSUME Len(attempts[s]) = 0 PROVE FALSE
      BY <2>1
    <2>3. RetryClaims(s) = {}
      BY <1>1, <2>2 DEF RetryClaims
    <2>4. stage[s].attemptCount = 0
      BY <2>3, FS_EmptySet DEF RetriesAreCounted
    <2>. QED
      BY <2>1, <2>2, <2>4 DEF ClaimExhausted, SpentOut
  <1>5. phase[s] = "idle" /\ phase' = [phase EXCEPT ![s] = to]
    BY <1>2, <1>3 DEF phase, Phase
  <1>6. epoch[s] > 0 /\ epoch' = epoch
    BY <1>4 DEF epoch, ClaimExhausted
  <1>7. Board!GiveUp(s, to)
    BY <1>5, <1>6 DEF Board!GiveUp, phase, epoch
  <1>. QED
    BY <1>2, <1>7 DEF Board!Next

LEMMA BoardHandIn ==
    ASSUME IInv, HeldIsRunningOrCancelled, NEW s \in Stages, NEW n \in DOMAIN attempts[s],
           NEW outcome \in Outcomes, FinishAttempt(s, n, outcome)
    PROVE  Board!Next
  <1>. DEFINE left == RetryAttemptsLeft(stage[s].attemptCount, MaxAttempts[s])
              to == Phase(SettledStage(outcome, left))
  <1>1. stage \in [Stages -> StageRow] /\ attempts \in [Stages -> Seq(AttemptRow)]
    BY DEF IInv, TypeOK
  <1>2. stage[s].status \in {"running", "cancelled"}
    BY DEF FinishAttempt, IsLive, HeldIsRunningOrCancelled
  <1>3. stage'[s].status = SettledStage(outcome, left) /\ \A t \in Stages \ {s} : stage'[t] = stage[t]
    BY <1>1 DEF FinishAttempt, StageRow
  <1>4. to \in {"completed", "failed", "idle"}
    <2>1. outcome \in Outcome
      BY StagesAssumption DEF StagesAssumption
    <2>2. SettledStage(outcome, left) \in {"completed", "failed", "waiting", "blocked"}
      BY <2>1 DEF SettledStage, ParkedStatus, Outcome, Waiting
    <2>. QED
      BY <2>2 DEF Phase
  <1>5. phase' = [phase EXCEPT ![s] = to]
    BY <1>3 DEF phase
  <1>6. epoch[s] > 0 /\ epoch' = epoch
    <2>1. attempts' = [attempts EXCEPT ![s] = [attempts[s] EXCEPT ![n] =
                         [status |-> SettledAttempt(outcome), lease |-> "over"]]]
      BY <1>1 DEF FinishAttempt
    <2>2. \A t \in Stages : Len(attempts'[t]) = Len(attempts[t])
      BY <1>1, <2>1
    <2>3. Len(attempts[s]) > 0
      BY <1>1
    <2>. QED
      BY <2>2, <2>3 DEF epoch
  <1>7. phase[s] = "held" \/ phase[s] = "dropped"
    BY <1>2 DEF phase, Phase
  <1>8. Board!HandIn(s, to) \/ Board!Overrun(s, to)
    BY <1>5, <1>6, <1>7 DEF Board!HandIn, Board!Overrun, phase, epoch
  <1>. QED
    BY <1>4, <1>8 DEF Board!Next

LEMMA BoardDrop ==
    ASSUME IInv, NEW dropped \in SUBSET Stages, epoch' = epoch,
           \A s \in dropped : stage[s].status \notin TerminalStage /\ stage'[s].status = "cancelled",
           \A s \in Stages \ dropped : phase'[s] = phase[s]
    PROVE  Board!Next
  <1>1. \A s \in dropped : phase[s] \in {"idle", "held"} /\ phase'[s] = "dropped"
    BY DEF phase, Phase, TerminalStage
  <1>2. phase' = [s \in Stages |-> IF s \in dropped THEN "dropped" ELSE phase[s]]
    BY <1>1 DEF phase
  <1>3. Board!Drop(dropped)
    BY <1>1, <1>2 DEF Board!Drop, phase, epoch
  <1>. QED
    BY <1>3 DEF Board!Next

LEMMA BoardWait ==
    ASSUME IInv,
           \/ \E t \in Stages : DelayElapses(t) \/ WebhookRelease(t)
           \/ \E t \in Stages : \E decision \in {"approved", "rejected"} : ResolveStage(t, decision)
           \/ \E released \in SUBSET Stages : ReleaseStages(released)
    PROVE  Board!Next \/ UNCHANGED <<phase, epoch>>
  <1>. DEFINE dropped == {s \in Stages : stage[s].status = "waiting" /\ stage'[s].status = "cancelled"}
  <1>1. stage \in [Stages -> StageRow] /\ {"blocked", "cancelled"} \subseteq StageStatus
    BY DEF IInv, TypeOK, StageStatus, TerminalStage
  <1>2. \A s \in Stages : \/ stage'[s].status = stage[s].status
                          \/ stage[s].status = "waiting" /\ stage'[s].status \in {"blocked", "cancelled"}
    <2>1. ASSUME NEW t \in Stages, DelayElapses(t) PROVE \A s \in Stages : stage'[s].status = stage[s].status
      BY <1>1, <2>1 DEF DelayElapses, StageRow
    <2>2. ASSUME NEW t \in Stages, WebhookRelease(t)
          PROVE \A s \in Stages : \/ stage'[s].status = stage[s].status
                                  \/ stage[s].status = "waiting" /\ stage'[s].status \in {"blocked", "cancelled"}
      BY <1>1, <2>2, MovedRow DEF WebhookRelease
    <2>3. ASSUME NEW t \in Stages, NEW decision \in {"approved", "rejected"}, ResolveStage(t, decision)
          PROVE \A s \in Stages : \/ stage'[s].status = stage[s].status
                                  \/ stage[s].status = "waiting" /\ stage'[s].status \in {"blocked", "cancelled"}
      <3>1. PICK to \in {"blocked", "cancelled"} :
               stage' = [stage EXCEPT ![t] = IF stage[t].status # "waiting" THEN stage[t]
                                             ELSE Moved(stage[t], to)]
        BY <1>1, <2>3 DEF ResolveStage
      <3>. QED
        BY <1>1, <3>1, MovedRow
    <2>4. ASSUME NEW released \in SUBSET Stages, ReleaseStages(released)
          PROVE \A s \in Stages : \/ stage'[s].status = stage[s].status
                                  \/ stage[s].status = "waiting" /\ stage'[s].status \in {"blocked", "cancelled"}
      BY <1>1, <2>4, MovedRow DEF ReleaseStages
    <2>. QED
      BY <2>1, <2>2, <2>3, <2>4
  <1>3. epoch' = epoch
    BY DEF epoch, DelayElapses, WebhookRelease, ResolveStage, ReleaseStages
  <1>4. \A s \in Stages \ dropped : phase'[s] = phase[s]
    BY <1>2 DEF phase, Phase
  <1>5. \A s \in dropped : stage[s].status \notin TerminalStage /\ stage'[s].status = "cancelled"
    BY DEF TerminalStage
  <1>. QED
    BY <1>3, <1>4, <1>5, BoardDrop

LEMMA BoardSettle ==
    ASSUME IInv, SettleCancelCommit
    PROVE  Board!Next
  <1>. DEFINE dropped == {s \in Stages : stage[s].status \notin TerminalStage}
  <1>1. TypeOK
    BY DEF IInv
  <1>2. epoch' = epoch
    BY <1>1, SettledRows DEF epoch
  <1>3. \A s \in Stages \ dropped : phase'[s] = phase[s]
    BY <1>1, SettledRows DEF phase
  <1>4. \A s \in dropped : stage[s].status \notin TerminalStage /\ stage'[s].status = "cancelled"
    BY <1>1, SettledRows
  <1>. QED
    BY <1>2, <1>3, <1>4, BoardDrop

\* Every step of the ledger is a step of the board or leaves it alone.
THEOREM LedgerImplementsBoard == Spec => ImplementsBoard
  <1>1. Init => Board!Init
    BY DEF Init, Board!Init, Phase
  <1>2. ASSUME IInv, PendingIsFresh, HeldIsRunningOrCancelled, RetriesAreCounted, [Next]_vars
        PROVE  Board!Next \/ UNCHANGED <<phase, epoch>>
    <2>1. attempts \in [Stages -> Seq(AttemptRow)]
      BY <1>2 DEF IInv, TypeOK
    <2>2. CASE UNCHANGED <<stage, attempts>>
      BY <2>2 DEF phase, epoch
    <2>3. CASE \E s \in Stages : ClaimPick(s) \/ ClaimExhausted(s) \/ ClaimGrant(s)
      BY <1>2, <2>3, BoardLose, BoardGiveUp, BoardTake DEF ClaimPick
    <2>4. CASE ClaimNothing
      BY <1>2, <2>4, BoardLose DEF ClaimNothing
    <2>5. ASSUME NEW s \in Stages, NEW n \in DOMAIN attempts[s], NEW outcome \in Outcomes,
                 FinishAttempt(s, n, outcome)
          PROVE  Board!Next
      BY <1>2, <2>5, BoardHandIn
    <2>6. ASSUME NEW s \in Stages, NEW n \in DOMAIN attempts[s],
                 HeartbeatAttempt(s, n) \/ LeaseExpires(s, n)
          PROVE  UNCHANGED <<phase, epoch>>
      <3>1. \A t \in Stages : Len(attempts'[t]) = Len(attempts[t])
        BY SMTT(20), <2>1, <2>6 DEF HeartbeatAttempt, LeaseExpires
      <3>. QED
        BY <2>6, <3>1 DEF HeartbeatAttempt, LeaseExpires, phase, epoch
    <2>7. CASE SettleCancelCommit
      BY <1>2, <2>7, BoardSettle
    <2>. QED
      BY <1>2, <2>2, <2>3, <2>4, <2>5, <2>6, <2>7, BoardWait
         DEF Next, vars, TransitionRun, StartIfQueued, SetCodingPaused, RequestCancellation, SettleCancelBegin
  <1>3. IInv /\ PendingIsFresh /\ HeldIsRunningOrCancelled /\ RetriesAreCounted /\ [Next]_vars
          => [Board!Next]_(Board!vars)
    BY <1>2 DEF Board!vars, phase, epoch
  <1>. QED
    BY <1>1, <1>3, Invariance, Freshness, HoldersFindTheirStage, RetriesAreCountedRight, PTL
       DEF Spec, ImplementsBoard, Board!Spec

-----------------------------------------------------------------------------
(* What follows for a reader of the ledger. *)

\* The attempt rows and the stage rows never disagree on who, if anybody, holds
\* what (claim_next_stage, finish_attempt, releaseWaits).
THEOREM StagesAndAttemptsAgree == Spec => []HeldIffRunning
  BY OneHolder, NoStageIsForgotten, FenceGuardsTheStage, PTL DEF HeldIffRunning

\* Both counters of claim_next_stage are right and within their ceilings.
THEOREM CountersAgree == Spec => []CountersAreRight
  BY RetriesAreCountedRight, AttemptsAreBounded, PTL DEF CountersAreRight

\* The SQL functions and plain UPDATEs keep to the tables of state-machine.ts.
THEOREM TablesAreFollowed == Spec => RowsFollowTables
  BY StagesFollowTheTable, RunsFollowTheTable, PTL DEF RowsFollowTables

\* A run that completed, failed or was cancelled is over: no claim, release, decision,
\* pause or late settlement gives it another status (isTerminalRunStatus).
THEOREM EndedRunsStand ==
    Spec => [][run.status \in TerminalRun => run'.status = run.status]_vars
  <1>1. ASSUME run.status \in TerminalRun, CanTransitionRun(run.status, run'.status)
        PROVE  run'.status = run.status
    BY <1>1 DEF CanTransitionRun, RunEdges, TerminalRun
  <1>2. [CanTransitionRun(run.status, run.status')]_vars
          => [run.status \in TerminalRun => run'.status = run.status]_vars
    BY <1>1
  <1>. QED
    BY <1>2, RunsFollowTheTable, PTL DEF RunFollowsTable

\* finish_attempt, heartbeat_attempt and the reap write no attempt that is over, and
\* no lease that ran out or was given back is ever live again.
THEOREM AttemptsAreHistory == Spec => HistoryStands
  <1>. DEFINE A == \A s \in Stages : \A n \in DOMAIN attempts[s] :
                     /\ n \in DOMAIN attempts'[s]
                     /\ ~IsOpen(s, n) => attempts'[s][n] = attempts[s][n]
                     /\ attempts'[s][n].lease = "live" => attempts[s][n].lease = "live"
  <1>1. ASSUME IInv, [Next]_vars PROVE A
    <2>. SUFFICES ASSUME NEW s \in Stages, NEW n \in DOMAIN attempts[s]
                  PROVE  /\ n \in DOMAIN attempts'[s]
                         /\ ~IsOpen(s, n) => attempts'[s][n] = attempts[s][n]
                         /\ attempts'[s][n].lease = "live" => attempts[s][n].lease = "live"
      OBVIOUS
    <2>1. attempts[s] \in Seq(AttemptRow) /\ AttemptMove(s)
      BY <1>1, NextAttempts DEF IInv, TypeOK
    <2>2. n \in DOMAIN attempts'[s]
      BY <2>1 DEF AttemptMove
    <2>. QED
      BY <2>1, <2>2 DEF AttemptMove
  <1>2. IInv /\ [Next]_vars => [A]_vars
    BY <1>1
  <1>. QED
    BY <1>2, Invariance, PTL DEF Spec, HistoryStands

\* The board never takes a result back.
LEMMA BoardKeepsResults ==
    ASSUME [Board!Next]_(Board!vars), NEW s \in Stages,
           stage[s].status \in {"completed", "failed", "skipped"}
    PROVE  stage'[s].status = stage[s].status
  <1>1. phase[s] = stage[s].status /\ phase \in [Stages -> {phase[t] : t \in Stages}]
    BY DEF phase, Phase
  <1>2. phase'[s] = phase[s]
    BY <1>1 DEF Board!Next, Board!vars, Board!Take, Board!HandIn, Board!Lose, Board!GiveUp,
                Board!Drop, Board!Overrun, phase
  <1>3. phase'[s] = Phase(stage'[s].status)
    BY DEF phase
  <1>. QED
    BY <1>1, <1>2, <1>3 DEF Phase

\* Whatever implements the board of stages, the ledger or what drives it, never
\* reopens or rewrites a stage that has its result.
THEOREM BoardResultsStand == ImplementsBoard => ResultsStand
  <1>. DEFINE A == \A s \in Stages : stage[s].status \in {"completed", "failed", "skipped"}
                     => stage'[s].status = stage[s].status
  <1>1. [Board!Next]_(Board!vars) => [A]_vars
    BY BoardKeepsResults
  <1>. QED
    BY <1>1, PTL DEF ImplementsBoard, Board!Spec, ResultsStand

\* Results stand in the ledger, even when the run is cancelled under a holder.
THEOREM LedgerResultsStand == Spec => ResultsStand
  BY LedgerImplementsBoard, BoardResultsStand, PTL
==================================================================================
