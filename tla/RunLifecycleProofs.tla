--------------------------- MODULE RunLifecycleProofs ---------------------------
(***************************************************************************)
(* However many requests, polls and ticks drive a run, they write only     *)
(* what the ledger allows: LSpec => Spec.  So every theorem of             *)
(* StageEngineProofs holds of driven runs, and with them that finalizeRun, *)
(* which reads the stages long before it writes the run, never completes a *)
(* run that is not done.                                                   *)
(***************************************************************************)
EXTENDS RunLifecycle, StageEngineProofs

ClaimPoints == {"claiming", "granted", "asking", "ready", "parking"}

\* What a driver remembers, where the code after that point relies on it.
DriverOK(v) ==
    /\ v.at \in ClaimPoints => v.stage \in Stages
    /\ v.at \in {"asking", "parking"} => v.stage \in Gated
    /\ v.at = "decide" => v.to \in {"", "completed", "failed", "waiting_for_approval"}
    /\ v.at = "releasing" => v.saw = "poll" \/ v.to = "waiting_for_approval"
    /\ v.at \in {"closing", "ending"} => v.to \in TransitionTargets

GoodDriver == {v \in DriverState : DriverOK(v)}
LInv == driver \in [Drivers -> GoodDriver]

LEMMA AtIsGood ==
    ASSUME NEW point \in Points \ (ClaimPoints \cup {"releasing", "closing", "ending"})
    PROVE  At(point) \in GoodDriver
  BY DEF At, GoodDriver, DriverState, DriverOK, Points, ClaimPoints

LEMMA PointIsGood ==
    ASSUME NEW v \in GoodDriver, NEW point \in ClaimPoints, v.stage \in Stages,
           point \in {"asking", "parking"} => v.stage \in Gated
    PROVE  [v EXCEPT !.at = point] \in GoodDriver
  <1>. DEFINE w == [v EXCEPT !.at = point]
  <1>1. v \in DriverState
    BY DEF GoodDriver
  <1>2. w \in DriverState
    BY <1>1 DEF DriverState, Points, ClaimPoints
  <1>3. w.at = point /\ w.stage = v.stage
    BY <1>1 DEF DriverState
  <1>4. DriverOK(w)
    BY <1>3 DEF DriverOK, ClaimPoints
  <1>. QED
    BY <1>2, <1>4 DEF GoodDriver

LEMMA HomeIsGood ==
    ASSUME NEW d \in Drivers
    PROVE  Home(d) \in GoodDriver /\ Thrown(d) \in GoodDriver
  BY AtIsGood DEF Home, Thrown, Points, ClaimPoints

LEMMA GoKeeps ==
    ASSUME LInv, NEW d \in Drivers, NEW next \in GoodDriver, Go(d, next)
    PROVE  LInv'
  BY DEF LInv, Go

LEMMA InitLInv == LInit => LInv
  BY AtIsGood DEF LInit, LInv, Points, ClaimPoints

-----------------------------------------------------------------------------
\* One lemma per group of steps: the ledger steps or stutters, and the driver
\* remembers what it will need.

LEMMA RequestSteps ==
    ASSUME TypeOK, LInv, NEW d \in Drivers,
           QueueRun(d) \/ ReadBeforeStart(d) \/ StartRun(d) \/ Rescue(d)
    PROVE  [Next]_vars /\ LInv'
  <1>0. run.status \in RunStatus
    BY DEF TypeOK, RunRow
  <1>1. CASE QueueRun(d)
    <2>1. [Next]_vars
      BY <1>1 DEF QueueRun, Next, TransitionTargets, SameLedger, vars
    <2>2. PICK next \in GoodDriver : Go(d, next)
      BY <1>1, HomeIsGood, AtIsGood DEF QueueRun, Points, ClaimPoints
    <2>. QED
      BY <2>1, <2>2, GoKeeps
  <1>2. CASE ReadBeforeStart(d)
    <2>1. [Next]_vars
      BY <1>2 DEF ReadBeforeStart, SameLedger, vars
    <2>2. [At("started") EXCEPT !.saw = run.status] \in GoodDriver
      BY <1>0 DEF At, GoodDriver, DriverState, DriverOK, Points, ClaimPoints
    <2>3. PICK next \in GoodDriver : Go(d, next)
      BY <1>2, <2>2, HomeIsGood DEF ReadBeforeStart
    <2>. QED
      BY <2>1, <2>3, GoKeeps
  <1>3. CASE StartRun(d)
    <2>1. [Next]_vars
      BY <1>3 DEF StartRun, Next, TransitionTargets, SameLedger, vars
    <2>2. PICK next \in GoodDriver : Go(d, next)
      BY <1>3, HomeIsGood, AtIsGood DEF StartRun, Points, ClaimPoints
    <2>. QED
      BY <2>1, <2>2, GoKeeps
  <1>4. CASE Rescue(d)
    <2>1. [Next]_vars
      BY <1>4 DEF Rescue, SameLedger, vars
    <2>. DEFINE ending == [At("ending") EXCEPT !.saw = run.status,
                              !.to = IF run.status = "cancelling" THEN "cancelled" ELSE "failed"]
    <2>2. ending \in GoodDriver
      BY <1>0 DEF At, GoodDriver, DriverState, DriverOK, Points, ClaimPoints, TransitionTargets
    <2>3. PICK next \in GoodDriver : Go(d, next)
      BY <1>4, <2>2, HomeIsGood DEF Rescue
    <2>. QED
      BY <2>1, <2>3, GoKeeps
  <1>. QED
    BY <1>1, <1>2, <1>3, <1>4

LEMMA SliceSteps ==
    ASSUME TypeOK, LInv, NEW d \in Drivers,
           \/ LeaveLoop(d) \/ Aborted(d) \/ ClaimNext(d) \/ FinishClaim(d)
           \/ BeginStage(d) \/ AskGate(d) \/ SettleSlice(d)
    PROVE  [Next]_vars /\ LInv'
  <1>. DEFINE s == driver[d].stage
              n == driver[d].attempt
  <1>0. /\ driver[d] \in GoodDriver
        /\ driver[d].at \in ClaimPoints => s \in Stages
        /\ At("loop") \in GoodDriver /\ At("finalize") \in GoodDriver /\ At("rescue") \in GoodDriver
        /\ Home(d) \in GoodDriver
    BY AtIsGood, HomeIsGood DEF LInv, GoodDriver, DriverOK, Points, ClaimPoints
  <1>1. CASE LeaveLoop(d) \/ Aborted(d)
    <2>1. [Next]_vars
      BY <1>1 DEF LeaveLoop, Aborted, SameLedger, vars
    <2>. QED
      BY <1>0, <1>1, <2>1, GoKeeps DEF LeaveLoop, Aborted
  <1>2. CASE ClaimNext(d)
    <2>1. CASE ClaimNothing /\ Go(d, At("finalize"))
      BY <1>0, <2>1, GoKeeps DEF Next
    <2>2. CASE \E t \in Stages : ClaimPick(t) /\ Go(d, [At("claiming") EXCEPT !.stage = t])
      <3>1. PICK t \in Stages : ClaimPick(t) /\ Go(d, [At("claiming") EXCEPT !.stage = t])
        BY <2>2
      <3>2. [At("claiming") EXCEPT !.stage = t] \in GoodDriver
        BY DEF At, GoodDriver, DriverState, DriverOK, Points, ClaimPoints
      <3>. QED
        BY <3>1, <3>2, GoKeeps DEF Next
    <2>. QED
      BY <1>2, <2>1, <2>2 DEF ClaimNext
  <1>3. CASE FinishClaim(d)
    <2>1. s \in Stages /\ driver[d].at \in ClaimPoints
      BY <1>0, <1>3 DEF FinishClaim, ClaimPoints
    <2>2. [Next]_vars
      BY <1>3, <2>1 DEF FinishClaim, Next
    <2>3. Len(attempts[s]) + 1 \in Nat
      BY <2>1 DEF TypeOK
    <2>4. [driver[d] EXCEPT !.at = "granted", !.attempt = Len(attempts[s]) + 1] \in GoodDriver
      <3>. DEFINE v == driver[d]
                  w == [v EXCEPT !.at = "granted", !.attempt = Len(attempts[s]) + 1]
      <3>1. v \in DriverState
        BY <1>0 DEF GoodDriver
      <3>2. w \in DriverState
        BY <3>1, <2>3 DEF DriverState, Points
      <3>3. w.at = "granted" /\ w.stage = s
        BY <3>1 DEF DriverState
      <3>4. DriverOK(w)
        BY <2>1, <3>3 DEF DriverOK
      <3>. QED
        BY <3>2, <3>4 DEF GoodDriver
    <2>5. PICK next \in GoodDriver : Go(d, next)
      BY <1>0, <1>3, <2>4 DEF FinishClaim
    <2>. QED
      BY <2>2, <2>5, GoKeeps
  <1>4. CASE BeginStage(d)
    <2>1. [Next]_vars
      BY <1>4 DEF BeginStage, Next, SameLedger, vars
    <2>2. s \in Stages
      BY <1>0, <1>4 DEF BeginStage, ClaimPoints
    <2>3. PICK next \in GoodDriver : Go(d, next)
      BY <1>0, <1>4, <2>2, PointIsGood DEF BeginStage, ClaimPoints
    <2>. QED
      BY <2>1, <2>3, GoKeeps
  <1>5. CASE AskGate(d)
    <2>1. [Next]_vars
      BY <1>5 DEF AskGate, SameLedger, vars
    <2>2. s \in Stages /\ s \in Gated
      BY <1>0, <1>5 DEF AskGate, ClaimPoints, GoodDriver, DriverOK
    <2>3. PICK next \in GoodDriver : Go(d, next)
      BY <1>0, <1>5, <2>2, PointIsGood DEF AskGate, ClaimPoints
    <2>. QED
      BY <2>1, <2>3, GoKeeps
  <1>6. CASE SettleSlice(d)
    <2>1. s \in Stages
      BY <1>0, <1>6 DEF SettleSlice, ClaimPoints
    <2>2. CASE ~IsLive(s, n) /\ SameLedger /\ Go(d, IF driver[d].probe THEN At("loop") ELSE At("finalize"))
      <3>1. [Next]_vars
        BY <2>2 DEF SameLedger, vars
      <3>. QED
        BY <1>0, <2>2, <3>1, GoKeeps
    <2>3. CASE \E outcome \in IF driver[d].at = "parking" THEN {"WAITING_APPROVAL"} ELSE Outcomes \ Waiting :
                 FinishAttempt(s, n, outcome) /\ \E next \in AfterSlice(d, outcome) : Go(d, next)
      <3>1. PICK outcome \in IF driver[d].at = "parking" THEN {"WAITING_APPROVAL"} ELSE Outcomes \ Waiting :
                   FinishAttempt(s, n, outcome) /\ \E next \in AfterSlice(d, outcome) : Go(d, next)
        BY <2>3
      <3>2. outcome \in Outcomes
        <4>1. driver[d].at = "parking" => s \in Gated
          BY <1>0 DEF GoodDriver, DriverOK
        <4>2. driver[d].at = "parking" => "WAITING_APPROVAL" \in Outcomes
          BY <4>1, DriversAssumption DEF DriversAssumption
        <4>. QED
          BY <3>1, <4>2
      <3>3. n \in DOMAIN attempts[s]
        BY <3>1 DEF FinishAttempt, IsLive, IsOpen
      <3>4. [Next]_vars
        BY <2>1, <3>1, <3>2, <3>3 DEF Next
      <3>5. PICK next \in GoodDriver : Go(d, next)
        BY <1>0, <3>1 DEF AfterSlice
      <3>. QED
        BY <3>4, <3>5, GoKeeps
    <2>. QED
      BY <1>6, <2>2, <2>3 DEF SettleSlice
  <1>. QED
    BY <1>1, <1>2, <1>3, <1>4, <1>5, <1>6

LEMMA ProgressIsTarget == Progress \in {"", "completed", "failed", "waiting_for_approval"}
  BY DEF Progress

LEMMA FinalizeSteps ==
    ASSUME TypeOK, LInv, NEW d \in Drivers,
           ReadProgress(d) \/ ReadRun(d) \/ CloseRun(d) \/ ReleaseDecided(d)
    PROVE  [Next]_vars /\ LInv'
  <1>. DEFINE v == driver[d]
  <1>0. /\ v \in DriverState /\ DriverOK(v) /\ run.status \in RunStatus
        /\ Home(d) \in GoodDriver /\ Thrown(d) \in GoodDriver /\ At("nudging") \in GoodDriver
    BY AtIsGood, HomeIsGood DEF LInv, GoodDriver, Points, ClaimPoints, TypeOK, RunRow
  <1>1. CASE ReadProgress(d)
    <2>1. [Next]_vars
      BY <1>1 DEF ReadProgress, SameLedger, vars
    <2>2. [At("decide") EXCEPT !.to = Progress] \in GoodDriver
      BY ProgressIsTarget DEF At, GoodDriver, DriverState, DriverOK, Points, ClaimPoints
    <2>. QED
      BY <1>1, <2>1, <2>2, GoKeeps DEF ReadProgress
  <1>2. CASE ReadRun(d)
    <2>1. [Next]_vars
      BY <1>2 DEF ReadRun, SameLedger, vars
    <2>. DEFINE point == IF v.to = "waiting_for_approval" THEN "releasing" ELSE "closing"
                w == [v EXCEPT !.saw = run.status, !.at = point]
    <2>2. v.to # "" => w \in GoodDriver
      <3>1. w \in DriverState
        BY <1>0 DEF DriverState, Points
      <3>2. w.at = point /\ w.to = v.to
        BY <1>0 DEF DriverState
      <3>3. v.to \in {"", "completed", "failed", "waiting_for_approval"}
        BY <1>0, <1>2 DEF ReadRun, DriverOK
      <3>4. CASE v.to = "waiting_for_approval"
        <4>1. w.at = "releasing"
          BY <3>2, <3>4
        <4>. QED
          BY <3>1, <3>2, <3>4, <4>1 DEF GoodDriver, DriverOK, ClaimPoints
      <3>5. CASE v.to \in {"completed", "failed"}
        <4>1. w.at = "closing"
          BY <3>2, <3>5
        <4>. QED
          BY <3>1, <3>2, <3>5, <4>1 DEF GoodDriver, DriverOK, ClaimPoints, TransitionTargets
      <3>. QED
        BY <3>3, <3>4, <3>5
    <2>3. PICK next \in GoodDriver : Go(d, next)
      BY <1>0, <1>2, <2>2 DEF ReadRun
    <2>. QED
      BY <2>1, <2>3, GoKeeps
  <1>3. CASE CloseRun(d)
    <2>1. v.to \in TransitionTargets
      BY <1>0, <1>3 DEF CloseRun, DriverOK
    <2>2. [Next]_vars
      BY <1>3, <2>1 DEF CloseRun, Next, SameLedger, vars
    <2>3. PICK next \in GoodDriver : Go(d, next)
      BY <1>0, <1>3 DEF CloseRun
    <2>. QED
      BY <2>2, <2>3, GoKeeps
  <1>4. CASE ReleaseDecided(d)
    <2>1. [Next]_vars
      <3>1. CASE SameLedger
        BY <3>1 DEF SameLedger, vars
      <3>2. CASE ReleaseStages(Released)
        BY <3>2 DEF Released, Next
      <3>. QED
        BY <1>4, <3>1, <3>2 DEF ReleaseDecided
    <2>. DEFINE w == [v EXCEPT !.at = "closing"]
    <2>2. v.saw # "poll" => w \in GoodDriver
      <3>1. w \in DriverState
        BY <1>0 DEF DriverState, Points
      <3>2. w.at = "closing" /\ w.to = v.to
        BY <1>0 DEF DriverState
      <3>3. v.saw = "poll" \/ v.to = "waiting_for_approval"
        BY <1>0, <1>4 DEF ReleaseDecided, DriverOK
      <3>4. v.saw # "poll" => DriverOK(w)
        BY <3>2, <3>3 DEF DriverOK, ClaimPoints, TransitionTargets
      <3>. QED
        BY <3>1, <3>4 DEF GoodDriver
    <2>3. PICK next \in GoodDriver : Go(d, next)
      BY <1>0, <1>4, <2>2 DEF ReleaseDecided
    <2>. QED
      BY <2>1, <2>3, GoKeeps
  <1>. QED
    BY <1>1, <1>2, <1>3, <1>4

LEMMA PageSteps ==
    ASSUME TypeOK, LInv, NEW d \in Drivers,
           Poll(d) \/ Nudge(d) \/ Cancel(d) \/ SettleCancel(d) \/ CommitCancel(d)
    PROVE  [Next]_vars /\ LInv'
  <1>0. /\ Home(d) \in GoodDriver
        /\ \A point \in {"nudging", "settling", "committing", "loop", "finalize"} : At(point) \in GoodDriver
    BY AtIsGood, HomeIsGood DEF Points, ClaimPoints
  <1>1. [At("releasing") EXCEPT !.saw = "poll"] \in GoodDriver
    BY DEF At, GoodDriver, DriverState, DriverOK, Points, ClaimPoints
  <1>2. [Next]_vars
    BY DEF Poll, Nudge, Cancel, SettleCancel, CommitCancel, Next, SameLedger, vars
  <1>3. CASE Poll(d)
    BY <1>0, <1>1, <1>2, <1>3, GoKeeps DEF Poll
  <1>4. CASE Nudge(d)
    <2>1. PICK next \in GoodDriver : Go(d, next)
      BY <1>0, <1>4 DEF Nudge
    <2>. QED
      BY <1>2, <2>1, GoKeeps
  <1>5. CASE Cancel(d)
    BY <1>0, <1>2, <1>5, GoKeeps DEF Cancel
  <1>6. CASE SettleCancel(d)
    BY <1>0, <1>2, <1>6, GoKeeps DEF SettleCancel
  <1>7. CASE CommitCancel(d)
    BY <1>0, <1>2, <1>7, GoKeeps DEF CommitCancel
  <1>. QED
    BY <1>3, <1>4, <1>5, <1>6, <1>7

LEMMA TickSteps ==
    ASSUME TypeOK, LInv, NEW d \in Drivers,
           TickProbe(d) \/ TickRecover(d) \/ StartRecovered(d) \/ Die(d)
    PROVE  [Next]_vars /\ LInv'
  <1>0. /\ Home(d) \in GoodDriver
        /\ \A point \in {"recovering", "finalize"} : At(point) \in GoodDriver
    BY AtIsGood, HomeIsGood DEF Points, ClaimPoints
  <1>1. CASE TickProbe(d)
    <2>1. PICK s \in Stages : ClaimPick(s) /\ Go(d, [At("claiming") EXCEPT !.stage = s, !.probe = TRUE])
      BY <1>1 DEF TickProbe
    <2>2. [At("claiming") EXCEPT !.stage = s, !.probe = TRUE] \in GoodDriver
      BY DEF At, GoodDriver, DriverState, DriverOK, Points, ClaimPoints
    <2>. QED
      BY <2>1, <2>2, GoKeeps DEF Next
  <1>2. CASE TickRecover(d)
    <2>1. [Next]_vars
      BY <1>2 DEF TickRecover, SameLedger, vars
    <2>. QED
      BY <1>0, <1>2, <2>1, GoKeeps DEF TickRecover
  <1>3. CASE StartRecovered(d)
    <2>1. [Next]_vars
      BY <1>3 DEF StartRecovered, Next, SameLedger, vars
    <2>. QED
      BY <1>0, <1>3, <2>1, GoKeeps DEF StartRecovered
  <1>4. CASE Die(d)
    <2>1. [Next]_vars
      BY <1>4 DEF Die, SameLedger, vars
    <2>. QED
      BY <1>0, <1>4, <2>1, GoKeeps DEF Die
  <1>. QED
    BY <1>1, <1>2, <1>3, <1>4

LEMMA OutsideSteps ==
    ASSUME LInv,
           \/ \E s \in Stages : Expire(s) \/ Wake(s)
           \/ \E s \in Stages : \E decision \in {"approved", "rejected"} : Answer(s, decision)
           \/ \E paused \in BOOLEAN : Pause(paused)
           \/ \E s \in Stages : \E n \in DOMAIN attempts[s] : RunOut(s, n)
    PROVE  [Next]_vars /\ LInv'
  <1>1. UNCHANGED driver
    BY DEF Expire, Wake, Answer, Pause, RunOut
  <1>2. [Next]_vars
    BY DEF Expire, Wake, Answer, Pause, RunOut, Next, SameLedger, vars
  <1>. QED
    BY <1>1, <1>2 DEF LInv

LEMMA DrivenStep == TypeOK /\ LInv /\ [LNext]_lvars => [Next]_vars /\ LInv'
  <1>. SUFFICES ASSUME TypeOK, LInv, [LNext]_lvars PROVE [Next]_vars /\ LInv'
    OBVIOUS
  <1>1. CASE UNCHANGED lvars
    BY <1>1 DEF lvars, vars, LInv
  <1>2. ASSUME NEW d \in Drivers, Step(d) \/ Poll(d) \/ Cancel(d) \/ TickProbe(d) \/ TickRecover(d) \/ Die(d)
        PROVE  [Next]_vars /\ LInv'
    BY <1>2, RequestSteps, SliceSteps, FinalizeSteps, PageSteps, TickSteps DEF Step
  <1>. QED
    BY <1>1, <1>2, OutsideSteps DEF LNext

-----------------------------------------------------------------------------
LEMMA LInvariance == LSpec => [](IInv /\ LInv)
  <1>1. LInit => IInv /\ LInv
    BY InitIInv, InitLInv DEF LInit
  <1>2. IInv /\ LInv /\ [LNext]_lvars => (IInv /\ LInv)'
    BY DrivenStep, NextIInv DEF IInv
  <1>. QED
    BY <1>1, <1>2, PTL DEF LSpec

\* The drivers implement the ledger: whatever is proved of Spec holds of runs
\* that requests, polls, ticks and people drive.
THEOREM DriversKeepTheLedger == LSpec => KeepsLedger
  <1>1. LInit => Init
    BY DEF LInit
  <1>2. IInv /\ LInv /\ [LNext]_lvars => [Next]_vars
    BY DrivenStep DEF IInv
  <1>. QED
    BY <1>1, <1>2, LInvariance, PTL DEF LSpec, KeepsLedger, Spec

\* What drivers remember and what the approvals say stays within its type.
THEOREM DriversAreTyped == LSpec => []LTypeOK
  <1>. DEFINE Rest == approval \in [Stages -> ApprovalStatus] /\ crashes \in 0..MaxCrashes
  <1>1. LInit => Rest
    BY DriversAssumption DEF LInit, ApprovalStatus, DriversAssumption
  <1>2. Rest /\ [LNext]_lvars => Rest'
    <2>. SUFFICES ASSUME Rest, [LNext]_lvars PROVE Rest'
      OBVIOUS
    <2>1. CASE UNCHANGED <<approval, crashes>>
      BY <2>1
    <2>2. ASSUME NEW d \in Drivers, AskGate(d) PROVE Rest'
      BY <2>2 DEF AskGate, ApprovalStatus
    <2>3. ASSUME NEW d \in Drivers, Die(d) PROVE Rest'
      BY <2>3, DriversAssumption DEF Die, DriversAssumption
    <2>4. ASSUME NEW s \in Stages, NEW decision \in {"approved", "rejected"}, Answer(s, decision)
          PROVE  Rest'
      BY <2>4 DEF Answer, ApprovalStatus
    <2>5. ASSUME NEW s \in Stages, Expire(s) PROVE Rest'
      BY <2>5 DEF Expire, ApprovalStatus
    <2>6. ASSUME NEW d \in Drivers,
                 \/ QueueRun(d) \/ ReadBeforeStart(d) \/ StartRun(d) \/ Rescue(d)
                 \/ LeaveLoop(d) \/ Aborted(d) \/ ClaimNext(d) \/ FinishClaim(d)
                 \/ BeginStage(d) \/ SettleSlice(d)
          PROVE  UNCHANGED <<approval, crashes>>
      BY <2>6 DEF QueueRun, ReadBeforeStart, StartRun, Rescue, LeaveLoop, Aborted, ClaimNext,
                  FinishClaim, BeginStage, SettleSlice, SameRest
    <2>7. ASSUME NEW d \in Drivers,
                 \/ ReadProgress(d) \/ ReadRun(d) \/ CloseRun(d) \/ ReleaseDecided(d)
                 \/ Nudge(d) \/ SettleCancel(d) \/ CommitCancel(d) \/ StartRecovered(d)
                 \/ Poll(d) \/ Cancel(d) \/ TickProbe(d) \/ TickRecover(d)
          PROVE  UNCHANGED <<approval, crashes>>
      BY <2>7 DEF ReadProgress, ReadRun, CloseRun, ReleaseDecided, Nudge, SettleCancel,
                  CommitCancel, StartRecovered, Poll, Cancel, TickProbe, TickRecover, SameRest
    <2>8. CASE \/ \E s \in Stages : Wake(s)
               \/ \E paused \in BOOLEAN : Pause(paused)
               \/ \E s \in Stages : \E n \in DOMAIN attempts[s] : RunOut(s, n)
               \/ UNCHANGED lvars
      BY <2>1, <2>8 DEF Wake, Pause, RunOut, lvars
    <2>. QED
      BY <2>1, <2>2, <2>3, <2>4, <2>5, <2>6, <2>7, <2>8 DEF LNext, Step
  <1>3. LInv /\ Rest => LTypeOK
    BY DEF LInv, GoodDriver, LTypeOK
  <1>. QED
    BY <1>1, <1>2, <1>3, LInvariance, PTL DEF LSpec

-----------------------------------------------------------------------------
\* What CompletedIsDone rests on: a driver that set out to complete the run
\* saw every stage done, and done stages stay done, unless the run was
\* cancelled, which the transition table never lets it complete.
Done == \A s \in Stages : stage[s].status \in {"completed", "skipped", "cancelled"}

DoneInv ==
    run.status # "cancelled" =>
        /\ \A d \in Drivers : driver[d].to = "completed" => Done
        /\ run.status = "completed" => Done

LEMMA ProgressSeesDone == TypeOK /\ Progress = "completed" => Done
  BY DEF Progress, Done, TypeOK, StageRow, TerminalStage

\* Only finalizeRun, on what it read, makes a driver want to complete the run.
LEMMA WantsCompletion ==
    ASSUME TypeOK, LInv, [LNext]_lvars, NEW d \in Drivers, driver'[d].to = "completed"
    PROVE  driver[d].to = "completed" \/ Done
  <1>1. driver \in [Drivers -> GoodDriver] /\ driver[d] \in DriverState
    BY DEF LInv, GoodDriver
  <1>2. CASE driver'[d] = driver[d]
    BY <1>2
  <1>3. \A point : At(point).to = "" /\ \A u : [At(point) EXCEPT !.stage = u].to = ""
                      /\ [At(point) EXCEPT !.stage = u, !.probe = TRUE].to = ""
                      /\ [At(point) EXCEPT !.saw = u].to = ""
    BY DEF At
  <1>4. Home(d).to = "" /\ Thrown(d).to = ""
    BY <1>3 DEF Home, Thrown
  <1>5. \A next : Go(d, next) => driver'[d] = next
    BY <1>1 DEF Go
  <1>6. ASSUME NEW e \in Drivers, e # d, NEW next, Go(e, next) PROVE driver'[d] = driver[d]
    BY <1>1, <1>6 DEF Go
  <1>7. CASE QueueRun(d) \/ ReadBeforeStart(d) \/ StartRun(d) \/ LeaveLoop(d) \/ Aborted(d)
             \/ ClaimNext(d) \/ SettleSlice(d) \/ Poll(d) \/ Nudge(d) \/ Cancel(d)
             \/ SettleCancel(d) \/ CommitCancel(d) \/ TickProbe(d) \/ TickRecover(d)
             \/ StartRecovered(d) \/ Die(d)
    <2>1. driver'[d].to = ""
      <3>1. CASE QueueRun(d) \/ StartRun(d) \/ LeaveLoop(d) \/ Aborted(d)
        BY <1>3, <1>4, <1>5, <3>1 DEF QueueRun, StartRun, LeaveLoop, Aborted
      <3>2. CASE ReadBeforeStart(d) \/ Poll(d)
        BY <1>3, <1>4, <1>5, <3>2 DEF ReadBeforeStart, Poll
      <3>3. CASE ClaimNext(d) \/ TickProbe(d)
        BY <1>3, <1>4, <1>5, <3>3 DEF ClaimNext, TickProbe
      <3>4. CASE SettleSlice(d)
        BY <1>3, <1>4, <1>5, <3>4 DEF SettleSlice, AfterSlice
      <3>5. CASE Nudge(d)
        BY <1>3, <1>4, <1>5, <3>5 DEF Nudge
      <3>6. CASE Cancel(d) \/ SettleCancel(d) \/ CommitCancel(d)
        BY <1>3, <1>4, <1>5, <3>6 DEF Cancel, SettleCancel, CommitCancel
      <3>7. CASE TickRecover(d) \/ StartRecovered(d) \/ Die(d)
        BY <1>3, <1>4, <1>5, <3>7 DEF TickRecover, StartRecovered, Die
      <3>. QED
        BY <1>7, <3>1, <3>2, <3>3, <3>4, <3>5, <3>6, <3>7
    <2>. QED
      BY <2>1
  <1>8. CASE Rescue(d)
    <2>1. driver'[d].to # "completed"
      BY <1>4, <1>5, <1>8 DEF Rescue, At
    <2>. QED
      BY <2>1
  <1>9. CASE FinishClaim(d) \/ BeginStage(d) \/ AskGate(d)
    <2>1. driver'[d].to \in {"", driver[d].to}
      BY <1>1, <1>3, <1>4, <1>5, <1>9 DEF FinishClaim, BeginStage, AskGate, DriverState
    <2>. QED
      BY <2>1
  <1>10. CASE ReadProgress(d)
    <2>1. driver'[d].to = Progress
      BY <1>5, <1>10 DEF ReadProgress, At
    <2>. QED
      BY <2>1, ProgressSeesDone
  <1>11. CASE ReadRun(d) \/ CloseRun(d) \/ ReleaseDecided(d)
    <2>1. driver'[d].to \in {"", driver[d].to}
      BY <1>1, <1>3, <1>4, <1>5, <1>11 DEF ReadRun, CloseRun, ReleaseDecided, DriverState
    <2>. QED
      BY <2>1
  <1>12. ASSUME NEW e \in Drivers, e # d,
                Step(e) \/ Poll(e) \/ Cancel(e) \/ TickProbe(e) \/ TickRecover(e) \/ Die(e)
         PROVE  driver'[d] = driver[d]
    <2>1. \E next : Go(e, next)
      BY <1>12 DEF Step, QueueRun, ReadBeforeStart, StartRun, Rescue, LeaveLoop, Aborted, ClaimNext,
         FinishClaim, BeginStage, AskGate, SettleSlice, ReadProgress, ReadRun, CloseRun,
         ReleaseDecided, Nudge, SettleCancel, CommitCancel, StartRecovered, Poll, Cancel,
         TickProbe, TickRecover, Die
    <2>. QED
      BY <1>6, <1>12, <2>1
  <1>13. CASE \/ \E s \in Stages : Expire(s) \/ Wake(s)
              \/ \E s \in Stages : \E decision \in {"approved", "rejected"} : Answer(s, decision)
              \/ \E paused \in BOOLEAN : Pause(paused)
              \/ \E s \in Stages : \E n \in DOMAIN attempts[s] : RunOut(s, n)
              \/ UNCHANGED lvars
    BY <1>2, <1>13 DEF Expire, Wake, Answer, Pause, RunOut, lvars
  <1>. QED
    BY <1>2, <1>7, <1>8, <1>9, <1>10, <1>11, <1>12, <1>13 DEF LNext, Step

\* Only CloseRun completes a run, and only for a driver that wants to.
LEMMA RunTurnsCompleted ==
    ASSUME TypeOK, LInv, [LNext]_lvars, run.status # "completed", run'.status = "completed"
    PROVE  \E d \in Drivers : driver[d].to = "completed"
  <1>1. run \in RunRow
    BY DEF TypeOK
  <1>2. ASSUME NEW to, TransitionRun(to) PROVE run'.status = to
    BY <1>1, <1>2 DEF TransitionRun, RunRow
  <1>3. ~StartIfQueued /\ ~RequestCancellation /\ ~SettleCancelCommit
    BY <1>1 DEF StartIfQueued, RequestCancellation, SettleCancelCommit, RunRow, TerminalRun
  <1>4. \A paused \in BOOLEAN : ~SetCodingPaused(paused)
    BY <1>1 DEF SetCodingPaused, RunRow
  <1>5. \A released : ~ResumeRun(released)
    BY <1>1 DEF ResumeRun, RunRow
  <1>6. run' # run
    OBVIOUS
  <1>7. CASE \E d \in Drivers : CloseRun(d)
    BY <1>2, <1>6, <1>7 DEF CloseRun, SameLedger
  <1>8. ASSUME NEW d \in Drivers,
               \/ QueueRun(d) \/ ReadBeforeStart(d) \/ StartRun(d) \/ Rescue(d)
               \/ LeaveLoop(d) \/ Aborted(d) \/ ClaimNext(d) \/ FinishClaim(d)
               \/ BeginStage(d) \/ AskGate(d) \/ SettleSlice(d)
        PROVE  FALSE
    <2>1. CASE QueueRun(d) \/ StartRun(d)
      BY <1>2, <1>6, <2>1 DEF QueueRun, StartRun, SameLedger
    <2>2. CASE BeginStage(d)
      BY <1>3, <1>6, <2>2 DEF BeginStage, SameLedger
    <2>3. CASE ReadBeforeStart(d) \/ Rescue(d) \/ LeaveLoop(d) \/ Aborted(d) \/ AskGate(d)
      BY <1>6, <2>3 DEF ReadBeforeStart, Rescue, LeaveLoop, Aborted, AskGate, SameLedger
    <2>4. CASE ClaimNext(d) \/ FinishClaim(d)
      BY <1>6, <2>4 DEF ClaimNext, FinishClaim, ClaimPick, ClaimNothing, ClaimGrant, ClaimExhausted
    <2>5. CASE SettleSlice(d)
      BY <1>6, <2>5 DEF SettleSlice, FinishAttempt, SameLedger
    <2>. QED
      BY <1>8, <2>1, <2>2, <2>3, <2>4, <2>5
  <1>9. ASSUME NEW d \in Drivers,
               \/ ReadProgress(d) \/ ReadRun(d) \/ ReleaseDecided(d)
               \/ Nudge(d) \/ SettleCancel(d) \/ CommitCancel(d) \/ StartRecovered(d)
               \/ Poll(d) \/ Cancel(d) \/ TickProbe(d) \/ TickRecover(d) \/ Die(d)
        PROVE  FALSE
    <2>1. CASE ReadProgress(d) \/ ReadRun(d) \/ Nudge(d) \/ Poll(d) \/ TickRecover(d) \/ Die(d)
      BY <1>6, <2>1 DEF ReadProgress, ReadRun, Nudge, Poll, TickRecover, Die, SameLedger
    <2>2. CASE ReleaseDecided(d)
      BY <1>5, <1>6, <2>2 DEF ReleaseDecided, ReleaseStages, SameLedger
    <2>3. CASE SettleCancel(d) \/ CommitCancel(d) \/ Cancel(d)
      BY <1>3, <1>6, <2>3 DEF SettleCancel, SettleCancelBegin, CommitCancel, Cancel, SameLedger
    <2>4. CASE StartRecovered(d)
      BY <1>3, <1>6, <2>4 DEF StartRecovered, SameLedger
    <2>5. CASE TickProbe(d)
      BY <1>6, <2>5 DEF TickProbe, ClaimPick
    <2>. QED
      BY <1>9, <2>1, <2>2, <2>3, <2>4, <2>5
  <1>10. ~\/ \E s \in Stages : Expire(s) \/ Wake(s)
          \/ \E s \in Stages : \E decision \in {"approved", "rejected"} : Answer(s, decision)
          \/ \E paused \in BOOLEAN : Pause(paused)
          \/ \E s \in Stages : \E n \in DOMAIN attempts[s] : RunOut(s, n)
          \/ UNCHANGED lvars
    BY <1>4, <1>5, <1>6 DEF Expire, Wake, DelayElapses, Answer, ResolveStage, Pause, RunOut,
                           LeaseExpires, SameLedger, lvars
  <1>. QED
    BY <1>7, <1>8, <1>9, <1>10 DEF LNext, Step

LEMMA DoneStep ==
    ASSUME TypeOK, LInv, DoneInv, [LNext]_lvars,
           \A s \in Stages : run.status # "cancelled" =>
               CanTransitionStage(stage[s].status, stage[s].status'),
           CanTransitionRun(run.status, run.status')
    PROVE  DoneInv'
  <1>. SUFFICES ASSUME run'.status # "cancelled"
                PROVE  /\ \A d \in Drivers : driver'[d].to = "completed" => Done'
                       /\ run'.status = "completed" => Done'
    BY DEF DoneInv
  <1>1. run.status # "cancelled"
    BY CancelledIsFinal
  <1>2. Done => Done'
    BY <1>1 DEF Done, CanTransitionStage, StageEdges
  <1>3. \A d \in Drivers : driver'[d].to = "completed" => Done'
    BY <1>1, <1>2, WantsCompletion DEF DoneInv
  <1>4. run'.status = "completed" => Done'
    BY <1>1, <1>2, RunTurnsCompleted DEF DoneInv
  <1>. QED
    BY <1>3, <1>4

\* finalizeRun closes a run as completed only when every stage is completed,
\* skipped or cancelled, whatever moved between its reads and its write.
THEOREM CompletedRunsAreDone == LSpec => []CompletedIsDone
  <1>. DEFINE A == \A s \in Stages : run.status # "cancelled" =>
                      CanTransitionStage(stage[s].status, stage[s].status')
              B == CanTransitionRun(run.status, run.status')
  <1>1. LInit => DoneInv
    <2>. DEFINE home(d) == IF d \in Requests THEN "queueing" ELSE "away"
    <2>2. LInit => \A d \in Drivers : driver[d] = At(home(d))
      BY DEF LInit
    <2>3. LInit => run.status = "planning"
      BY DEF LInit, Init
    <2>4. ASSUME LInit, NEW d \in Drivers PROVE driver[d].to = ""
      <3>1. At(home(d)).to = ""
        BY DEF At
      <3>. QED
        BY <2>2, <2>4, <3>1
    <2>. QED
      BY <2>3, <2>4 DEF DoneInv
  <1>2. IInv /\ LInv /\ DoneInv /\ [LNext]_lvars /\ [A]_vars /\ [B]_vars => DoneInv'
    <2>. SUFFICES ASSUME IInv, LInv, DoneInv, [LNext]_lvars, [A]_vars, [B]_vars PROVE DoneInv'
      OBVIOUS
    <2>1. A /\ B
      BY DEF vars, CanTransitionStage, CanTransitionRun
    <2>. QED
      BY <2>1, DoneStep DEF IInv
  <1>3. DoneInv => CompletedIsDone
    BY DEF DoneInv, CompletedIsDone, Done
  <1>4. LSpec => [][A]_vars /\ [][B]_vars
    BY DriversKeepTheLedger, StagesFollowTheTable, RunsFollowTheTable, PTL
       DEF KeepsLedger, StageFollowsTable, RunFollowsTable
  <1>. QED
    BY <1>1, <1>2, <1>3, <1>4, LInvariance, PTL DEF LSpec

-----------------------------------------------------------------------------
(* What the drivers inherit from the ledger. *)

\* Requests, polls and ticks together still only take, hand in, lose and drop
\* stages of the board, although each of them decides on what it read before.
THEOREM DrivenRunsImplementTheBoard == LSpec => ImplementsBoard
  BY DriversKeepTheLedger, LedgerImplementsBoard, PTL DEF KeepsLedger

\* No driver that recovers, finalizes, parks or closes a run takes back how a
\* stage ended, or writes an attempt that is over.
THEOREM DriversKeepResults == LSpec => ResultsStand /\ HistoryStands
  BY DriversKeepTheLedger, LedgerResultsStand, AttemptsAreHistory, PTL DEF KeepsLedger

\* With several drivers on a run a stage still has one holder, a running stage
\* somebody behind it, no stage starts early, and both counters are right.
THEOREM DrivenRunsAreSafe ==
    LSpec => [](HeldIffRunning /\ StartsAfterDependencies /\ CountersAreRight)
  BY DriversKeepTheLedger, StagesAndAttemptsAgree, EdgesAreRespected, CountersAgree,
     PTL DEF KeepsLedger
================================================================================
