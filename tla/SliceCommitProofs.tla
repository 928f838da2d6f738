---------------------------- MODULE SliceCommitProofs ----------------------------
(***************************************************************************)
(* What a slice commits, for any number of workers, stages and faults: it  *)
(* writes only what the ledger allows, only a slice that was handed in is  *)
(* charged, no checkpoint shows calls that nobody was charged for, and the *)
(* run's attempts exceed their ceiling by little.                          *)
(***************************************************************************)
EXTENDS SliceCommit, StageEngineProofs

\* What a worker remembers, where the code after that point relies on it.
WorkerOK(v) ==
    /\ v.at \notin {"idle", "stopping"} => v.stage \in Stages
    /\ v.at \in {"finishing", "finished"} => v.outcome \in Outcomes

GoodWorker == {v \in WorkerState : WorkerOK(v)}

TInv == STypeOK /\ worker \in [Workers -> GoodWorker]

LEMMA AtIsGood ==
    ASSUME NEW point \in {"idle", "stopping"}
    PROVE  At(point) \in GoodWorker
  BY DEF At, GoodWorker, WorkerState, WorkerOK, Points, Loop, NoLoop

LEMMA ClaimingIsGood ==
    ASSUME NEW s \in Stages
    PROVE  [At("claiming") EXCEPT !.stage = s] \in GoodWorker
  BY DEF At, GoodWorker, WorkerState, WorkerOK, Points, Loop, NoLoop

LEMMA PointIsGood ==
    ASSUME NEW v \in GoodWorker, v.stage \in Stages, NEW point \in Points,
           point \in {"finishing", "finished"} => v.outcome \in Outcomes
    PROVE  [v EXCEPT !.at = point] \in GoodWorker
  <1>. DEFINE u == [v EXCEPT !.at = point]
  <1>1. v \in WorkerState
    BY DEF GoodWorker
  <1>2. u \in WorkerState
    BY <1>1 DEF WorkerState
  <1>3. u.at = point /\ u.stage = v.stage /\ u.outcome = v.outcome
    BY <1>1 DEF WorkerState
  <1>4. WorkerOK(u)
    BY <1>3 DEF WorkerOK
  <1>. QED
    BY <1>2, <1>4 DEF GoodWorker

LEMMA GoKeeps ==
    ASSUME TInv, NEW w \in Workers, NEW next \in GoodWorker, Go(w, next)
    PROVE  worker' \in [Workers -> GoodWorker] /\ worker' \in [Workers -> WorkerState]
  <1>1. GoodWorker \subseteq WorkerState
    BY DEF GoodWorker
  <1>2. worker' \in [Workers -> GoodWorker]
    BY DEF TInv, Go
  <1>. QED
    BY <1>1, <1>2

\* A step that moves one worker and nothing the slice writes.
LEMMA QuietKeeps ==
    ASSUME TInv, NEW w \in Workers, NEW next \in GoodWorker, Go(w, next),
           UNCHANGED <<written, planned>>, faults' \in 0..MaxFaults
    PROVE  TInv'
  BY GoKeeps DEF TInv, STypeOK, written

LEMMA InitTInv == SInit => TInv
  <1>. SUFFICES ASSUME SInit PROVE TInv
    OBVIOUS
  <1>1. worker \in [Workers -> GoodWorker]
    BY AtIsGood DEF SInit
  <1>2. worker \in [Workers -> WorkerState]
    BY <1>1 DEF GoodWorker
  <1>3. checkpoint \in Loop
    BY DEF SInit, Loop, NoLoop
  <1>4. settled \in SUBSET (Stages \X Nat) /\ spent \in Nat
        /\ budget \in [set : BOOLEAN, calls : Nat, attempts : Nat]
    BY DEF SInit
  <1>5. planned \in {"persisted", "budgeted", "queued"}
        /\ faults \in 0..MaxFaults
    BY WorkersAssumption DEF SInit, WorkersAssumption
  <1>. QED
    BY <1>1, <1>2, <1>3, <1>4, <1>5 DEF TInv, STypeOK

-----------------------------------------------------------------------------
\* Every step is a step of the ledger, or none of its business.

LEMMA PlanSteps ==
    ASSUME TypeOK, TInv, SetBudget \/ QueueRun
    PROVE  [Next]_vars /\ TInv'
  <1>1. CASE SetBudget
    <2>1. [budget EXCEPT !.set = TRUE] \in [set : BOOLEAN, calls : Nat, attempts : Nat]
      BY DEF TInv, STypeOK
    <2>2. STypeOK'
      BY <1>1, <2>1 DEF SetBudget, TInv, STypeOK
    <2>. QED
      BY <1>1, <2>2 DEF SetBudget, TInv, SameLedger, vars
  <1>2. CASE QueueRun
    <2>1. [Next]_vars
      BY <1>2 DEF QueueRun, Next, TransitionTargets, SameLedger, vars
    <2>. QED
      BY <1>2, <2>1 DEF QueueRun, TInv, STypeOK, written
  <1>. QED
    BY <1>1, <1>2

LEMMA ClaimSteps ==
    ASSUME TypeOK, TInv, NEW w \in Workers,
           Claim(w) \/ FinishClaim(w) \/ BeginStage(w) \/ LoadCheckpoint(w)
    PROVE  [Next]_vars /\ TInv'
  <1>. DEFINE s == worker[w].stage
  <1>0. /\ worker[w] \in GoodWorker /\ worker[w] \in WorkerState
        /\ worker[w].at \notin {"idle", "stopping"} => s \in Stages
        /\ faults \in 0..MaxFaults /\ checkpoint \in Loop
    BY DEF TInv, GoodWorker, WorkerOK, STypeOK
  <1>1. CASE Claim(w)
    <2>1. CASE \E t \in Stages : ClaimPick(t) /\ Go(w, [At("claiming") EXCEPT !.stage = t])
      <3>1. [Next]_vars
        BY <2>1 DEF Next
      <3>. QED
        BY <1>0, <1>1, <2>1, <3>1, ClaimingIsGood, QuietKeeps DEF Claim
    <2>2. CASE ClaimNothing /\ UNCHANGED worker
      <3>1. [Next]_vars
        BY <2>2 DEF Next
      <3>. QED
        BY <1>1, <2>2, <3>1 DEF Claim, TInv, STypeOK, written
    <2>. QED
      BY <1>1, <2>1, <2>2 DEF Claim
  <1>2. CASE FinishClaim(w)
    <2>. DEFINE granted == [worker[w] EXCEPT !.at = "granted", !.attempt = Len(attempts[s]) + 1]
    <2>1. s \in Stages
      BY <1>0, <1>2 DEF FinishClaim
    <2>2. CASE ClaimGrant(s) /\ Go(w, granted)
      <3>1. Len(attempts[s]) + 1 \in Nat
        BY <2>1 DEF TypeOK
      <3>2. granted \in WorkerState
        BY <1>0, <3>1 DEF WorkerState, Points
      <3>3. granted.at = "granted" /\ granted.stage = s
        BY <1>0 DEF WorkerState
      <3>4. granted \in GoodWorker
        BY <2>1, <3>2, <3>3 DEF GoodWorker, WorkerOK
      <3>5. [Next]_vars
        BY <2>1, <2>2 DEF Next
      <3>. QED
        BY <1>0, <1>2, <2>2, <3>4, <3>5, QuietKeeps DEF FinishClaim
    <2>3. CASE ClaimExhausted(s) /\ Go(w, At("idle"))
      <3>1. [Next]_vars
        BY <2>1, <2>3 DEF Next
      <3>. QED
        BY <1>0, <1>2, <2>3, <3>1, AtIsGood, QuietKeeps DEF FinishClaim
    <2>. QED
      BY <1>2, <2>2, <2>3 DEF FinishClaim
  <1>3. CASE BeginStage(w)
    <2>1. [Next]_vars
      BY <1>3 DEF BeginStage, Next, SameLedger, vars
    <2>2. [worker[w] EXCEPT !.at = "loading"] \in GoodWorker
      BY <1>0, <1>3, PointIsGood DEF BeginStage, Points
    <2>. QED
      BY <1>0, <1>3, <2>1, <2>2, QuietKeeps DEF BeginStage
  <1>4. CASE LoadCheckpoint(w)
    <2>. DEFINE loaded == [worker[w] EXCEPT !.at = "working", !.loop = checkpoint]
    <2>1. [Next]_vars
      BY <1>4 DEF LoadCheckpoint, SameLedger, vars
    <2>2. loaded \in WorkerState
      BY <1>0 DEF WorkerState, Points
    <2>3. loaded.at = "working" /\ loaded.stage = s
      BY <1>0 DEF WorkerState
    <2>4. loaded \in GoodWorker
      BY <1>0, <1>4, <2>2, <2>3 DEF GoodWorker, WorkerOK, LoadCheckpoint
    <2>. QED
      BY <1>0, <1>4, <2>1, <2>4, QuietKeeps DEF LoadCheckpoint
  <1>. QED
    BY <1>1, <1>2, <1>3, <1>4

\* The arm never saves a loop with more calls than it read and made.
LEMMA ArmResultsArePriced ==
    ASSUME NEW s \in Stages, NEW read \in Loop, NEW k \in Nat, NEW outcome,
           NEW result \in ArmResults(s, read, k, outcome)
    PROVE  result.loop \in Loop /\ result.made \in Nat
           /\ result.loop.calls <= read.calls + result.made
  <1>. DEFINE sum == read.calls + k
  <1>0. read.calls \in Nat
    BY DEF Loop
  <1>1. read.calls \in Nat /\ sum \in Nat
    BY <1>0
  <1>. HIDE DEF sum
  <1>2. SavedLoop(s, read, k) = [of |-> s, calls |-> sum]
    BY DEF SavedLoop, sum
  <1>3. SavedLoop(s, read, k) \in Loop /\ SavedLoop(s, read, k).calls = sum
    <2>1. [of |-> s, calls |-> sum] \in Loop
      BY <1>1 DEF Loop
    <2>. QED
      BY <1>2, <2>1
  <1>4. NoLoop \in Loop /\ NoLoop.calls = 0
    BY DEF NoLoop, Loop
  <1>5. /\ result.loop \in {SavedLoop(s, read, k), NoLoop, read}
        /\ result.made \in {0, k}
        /\ result.loop = SavedLoop(s, read, k) => result.made = k \/ result.loop \in {NoLoop, read}
    BY DEF ArmResults
  <1>6. result.loop \in Loop /\ result.made \in Nat
    BY <1>3, <1>4, <1>5
  <1>7. result.loop \in {NoLoop, read} => result.loop.calls <= read.calls + result.made
    BY <1>1, <1>4, <1>5
  <1>8. result.loop = SavedLoop(s, read, k) /\ result.made = k
            => result.loop.calls <= read.calls + result.made
    BY <1>1, <1>3 DEF sum
  <1>. QED
    BY <1>5, <1>6, <1>7, <1>8

LEMMA ArmStep ==
    ASSUME TInv, NEW w \in Workers, RunArm(w)
    PROVE  /\ [Next]_vars
           /\ UNCHANGED <<written, planned, faults>>
           /\ \E next \in GoodWorker :
                 /\ Go(w, next)
                 /\ next.at = "finishing"
                 /\ next.loop.calls <= worker[w].loop.calls + next.made
  <1>. DEFINE v == worker[w]
  <1>0. v \in WorkerState /\ v.stage \in Stages /\ v.loop \in Loop
    BY DEF TInv, GoodWorker, WorkerOK, WorkerState, RunArm
  <1>1. [Next]_vars /\ UNCHANGED <<written, planned, faults>>
    BY DEF RunArm, SameLedger, vars
  <1>2. PICK outcome \in Outcomes, k \in SliceCalls :
           \E result \in ArmResults(v.stage, v.loop, k, outcome) :
              Go(w, [v EXCEPT !.at = "finishing", !.loop = result.loop, !.made = result.made,
                        !.outcome = outcome])
    BY DEF RunArm
  <1>3. PICK result \in ArmResults(v.stage, v.loop, k, outcome) :
              Go(w, [v EXCEPT !.at = "finishing", !.loop = result.loop, !.made = result.made,
                        !.outcome = outcome])
    BY <1>2
  <1>. DEFINE next == [v EXCEPT !.at = "finishing", !.loop = result.loop, !.made = result.made,
                          !.outcome = outcome]
  <1>4. /\ result.loop \in Loop /\ result.made \in Nat
        /\ result.loop.calls <= v.loop.calls + result.made
    BY <1>0, <1>3, ArmResultsArePriced, WorkersAssumption DEF WorkersAssumption
  <1>6. next \in WorkerState
    BY <1>0, <1>4 DEF WorkerState, Points
  <1>7. /\ next.at = "finishing" /\ next.stage = v.stage /\ next.outcome = outcome
        /\ next.loop = result.loop /\ next.made = result.made
    BY <1>0 DEF WorkerState
  <1>8. next \in GoodWorker
    BY <1>0, <1>6, <1>7 DEF GoodWorker, WorkerOK
  <1>9. Go(w, next)
    BY <1>3
  <1>. QED
    BY <1>1, <1>4, <1>7, <1>8, <1>9

LEMMA ArmSteps ==
    ASSUME TypeOK, TInv, NEW w \in Workers, RunArm(w) \/ LoseLease(w)
    PROVE  [Next]_vars /\ TInv'
  <1>. DEFINE v == worker[w]
  <1>0. /\ v \in GoodWorker /\ v \in WorkerState /\ v.attempt \in Nat
        /\ v.at \notin {"idle", "stopping"} => v.stage \in Stages
        /\ faults \in 0..MaxFaults
    BY DEF TInv, GoodWorker, WorkerOK, WorkerState, STypeOK
  <1>1. CASE RunArm(w)
    BY <1>0, <1>1, ArmStep, QuietKeeps
  <1>2. CASE LoseLease(w)
    <2>1. [Next]_vars
      BY <1>2 DEF LoseLease, SameLedger, vars
    <2>. QED
      BY <1>0, <1>2, <2>1, AtIsGood, QuietKeeps DEF LoseLease
  <1>. QED
    BY <1>1, <1>2

LEMMA FinishSteps ==
    ASSUME TypeOK, TInv, NEW w \in Workers, FinishSlice(w) \/ FailExhausted(w) \/ Die(w)
    PROVE  [Next]_vars /\ TInv'
  <1>. DEFINE v == worker[w]
              s == v.stage
              n == v.attempt
  <1>0. /\ v \in GoodWorker /\ v \in WorkerState /\ v.loop \in Loop
        /\ v.at \notin {"idle", "stopping"} => s \in Stages
        /\ v.at = "finishing" => v.outcome \in Outcomes
        /\ faults \in 0..MaxFaults
    BY DEF TInv, GoodWorker, WorkerOK, WorkerState, STypeOK
  <1>1. CASE FinishSlice(w)
    <2>0. s \in Stages /\ v.outcome \in Outcomes
      BY <1>0, <1>1 DEF FinishSlice
    <2>1. CASE /\ FinishAttempt(s, n, v.outcome)
               /\ Go(w, [v EXCEPT !.at = "finished"])
      <3>1. n \in DOMAIN attempts[s]
        BY <2>1 DEF FinishAttempt, IsLive, IsOpen
      <3>2. [Next]_vars
        BY <2>0, <2>1, <3>1 DEF Next
      <3>3. [v EXCEPT !.at = "finished"] \in GoodWorker
        BY <1>0, <2>0, PointIsGood DEF Points
      <3>. QED
        BY <1>0, <1>1, <2>1, <3>2, <3>3, QuietKeeps DEF FinishSlice
    <2>2. CASE SameLedger /\ Go(w, At("idle"))
      <3>1. [Next]_vars
        BY <2>2 DEF SameLedger, vars
      <3>. QED
        BY <1>0, <1>1, <2>2, <3>1, AtIsGood, QuietKeeps DEF FinishSlice
    <2>. QED
      BY <1>1, <2>1, <2>2 DEF FinishSlice
  <1>2. CASE FailExhausted(w)
    <2>1. [Next]_vars
      BY <1>2 DEF FailExhausted, Next, TransitionTargets, SameLedger, vars
    <2>. QED
      BY <1>0, <1>2, <2>1, AtIsGood, QuietKeeps DEF FailExhausted
  <1>3. CASE Die(w)
    <2>1. [Next]_vars
      BY <1>3 DEF Die, SameLedger, vars
    <2>2. faults' \in 0..MaxFaults
      BY <1>0, <1>3, WorkersAssumption DEF Die, Fault, WorkersAssumption
    <2>. QED
      BY <1>0, <1>3, <2>1, <2>2, AtIsGood, QuietKeeps DEF Die
  <1>. QED
    BY <1>1, <1>2, <1>3

\* The transaction that charges keeps the types of what it writes.
LEMMA CommitTyped ==
    ASSUME TInv, NEW v \in WorkerState, v.stage \in Stages, Commit(v) \/ UNCHANGED written
    PROVE  /\ checkpoint' \in Loop /\ settled' \in SUBSET (Stages \X Nat) /\ spent' \in Nat
           /\ budget' \in [set : BOOLEAN, calls : Nat, attempts : Nat]
  <1>0. /\ checkpoint \in Loop /\ settled \in SUBSET (Stages \X Nat) /\ spent \in Nat
        /\ budget \in [set : BOOLEAN, calls : Nat, attempts : Nat]
        /\ v.loop \in Loop /\ v.made \in Nat /\ v.attempt \in Nat
    BY DEF TInv, STypeOK, WorkerState
  <1>1. CASE UNCHANGED written
    BY <1>0, <1>1 DEF written
  <1>2. CASE /\ settled' = settled \cup {<<v.stage, v.attempt>>}
             /\ spent' = spent + ChargedCalls(v)
             /\ checkpoint' = v.loop
             /\ budget' = Consumed(v)
    <2>1. settled' \in SUBSET (Stages \X Nat) /\ spent' \in Nat /\ checkpoint' \in Loop
      BY <1>0, <1>2 DEF ChargedCalls
    <2>2. RunBudgetAttempts(v.outcome) \in Nat
      BY DEF RunBudgetAttempts
    <2>3. /\ budget.calls + v.made \in Nat
          /\ budget.attempts + RunBudgetAttempts(v.outcome) \in Nat
      BY <1>0, <2>2
    <2>4. Consumed(v) \in [set : BOOLEAN, calls : Nat, attempts : Nat]
      BY <1>0, <2>3 DEF Consumed, ChargedCalls
    <2>. QED
      BY <1>2, <2>1, <2>4
  <1>. QED
    BY <1>1, <1>2 DEF Commit

LEMMA ChargeSteps ==
    ASSUME TInv, NEW w \in Workers, Charge(w) \/ ChargeFails(w)
    PROVE  [Next]_vars /\ TInv'
  <1>0. /\ worker[w] \in WorkerState /\ worker[w].stage \in Stages
        /\ faults \in 0..MaxFaults
    BY DEF TInv, GoodWorker, WorkerOK, STypeOK, Charge, ChargeFails
  <1>1. [Next]_vars
    BY DEF Charge, ChargeFails, SameLedger, vars
  <1>2. Commit(worker[w]) \/ UNCHANGED written
    BY DEF Charge, ChargeFails
  <1>3. PICK next \in GoodWorker : Go(w, next)
    BY AtIsGood DEF Charge, ChargeFails
  <1>4. worker' \in [Workers -> GoodWorker] /\ worker' \in [Workers -> WorkerState]
    BY <1>3, GoKeeps
  <1>5. faults' \in 0..MaxFaults
    BY <1>0, WorkersAssumption DEF Charge, ChargeFails, Fault, WorkersAssumption
  <1>6. UNCHANGED <<planned>>
    BY DEF Charge, ChargeFails
  <1>7. /\ checkpoint' \in Loop /\ settled' \in SUBSET (Stages \X Nat) /\ spent' \in Nat
        /\ budget' \in [set : BOOLEAN, calls : Nat, attempts : Nat]
    BY <1>0, <1>2, CommitTyped
  <1>. QED
    BY <1>1, <1>4, <1>5, <1>6, <1>7 DEF TInv, STypeOK

LEMMA OutsideSteps ==
    ASSUME TInv,
           \/ \E s \in Stages : Wake(s)
           \/ \E s \in Stages : \E n \in DOMAIN attempts[s] : RunOut(s, n)
    PROVE  [Next]_vars /\ TInv'
  <1>1. [Next]_vars
    BY DEF Wake, RunOut, Next
  <1>2. UNCHANGED <<worker, written, planned, faults>>
    BY DEF Wake, RunOut
  <1>. QED
    BY <1>1, <1>2 DEF TInv, STypeOK, written

LEMMA SliceStep == TypeOK /\ TInv /\ [SNext]_svars => [Next]_vars /\ TInv'
  <1>. SUFFICES ASSUME TypeOK, TInv, [SNext]_svars PROVE [Next]_vars /\ TInv'
    OBVIOUS
  <1>1. CASE UNCHANGED svars
    BY <1>1 DEF svars, vars, TInv, STypeOK, written
  <1>2. ASSUME NEW w \in Workers, Step(w) PROVE [Next]_vars /\ TInv'
    BY <1>2, ClaimSteps, ArmSteps, FinishSteps, ChargeSteps DEF Step
  <1>. QED
    BY <1>1, <1>2, PlanSteps, OutsideSteps DEF SNext

LEMMA SInvariance == SSpec => [](IInv /\ TInv)
  <1>1. SInit => IInv /\ TInv
    BY InitIInv, InitTInv DEF SInit
  <1>2. IInv /\ TInv /\ [SNext]_svars => (IInv /\ TInv)'
    BY SliceStep, NextIInv DEF IInv
  <1>. QED
    BY <1>1, <1>2, PTL DEF SSpec

\* What the workers remember and the budget rows stay within their types.
THEOREM SlicesAreTyped == SSpec => []STypeOK
  <1>1. TInv => STypeOK
    BY DEF TInv
  <1>. QED
    BY <1>1, SInvariance, PTL

\* Workers that race, die and stall write only what the ledger allows.
THEOREM SlicesKeepTheLedger == SSpec => SliceKeepsLedger
  <1>1. SInit => Init
    BY DEF SInit
  <1>2. IInv /\ TInv /\ [SNext]_svars => [Next]_vars
    BY SliceStep DEF IInv
  <1>. QED
    BY <1>1, <1>2, SInvariance, PTL DEF SSpec, SliceKeepsLedger, Spec

-----------------------------------------------------------------------------
\* Only what was handed in is charged.

HandedIn(s, n) == n \in DOMAIN attempts[s] /\ attempts[s][n].status \in {"completed", "failed"}

\* No step of the ledger takes back an attempt that was handed in.
LEMMA HandedInStays ==
    ASSUME TypeOK, [Next]_vars, NEW s \in Stages, NEW n, HandedIn(s, n)
    PROVE  HandedIn(s, n)'
  <1>0. /\ attempts \in [Stages -> Seq(AttemptRow)]
        /\ n \in DOMAIN attempts[s] /\ attempts[s][n].status \in {"completed", "failed"}
        /\ attempts[s][n].status \notin OpenAttempt
    BY DEF TypeOK, HandedIn, OpenAttempt
  <1>1. CASE UNCHANGED attempts
    BY <1>0, <1>1 DEF HandedIn
  <1>2. CASE attempts' = ReapedAttempts
    BY <1>0, <1>2 DEF HandedIn, ReapedAttempts, Retired
  <1>3. ASSUME NEW t \in Stages, ClaimGrant(t) PROVE HandedIn(s, n)'
    <2>1. attempts' = [attempts EXCEPT ![t] =
                          Append(attempts[t], [status |-> "claimed", lease |-> "live"])]
      BY <1>3 DEF ClaimGrant
    <2>. QED
      BY <1>0, <2>1 DEF HandedIn
  <1>4. ASSUME NEW t \in Stages, NEW k \in DOMAIN attempts[t], NEW row,
               IsLive(t, k), attempts' = [attempts EXCEPT ![t][k] = row]
        PROVE HandedIn(s, n)'
    <2>1. <<t, k>> # <<s, n>>
      BY <1>0, <1>4 DEF IsLive, IsOpen
    <2>. QED
      BY <1>0, <1>4, <2>1 DEF HandedIn
  <1>5. ASSUME NEW t \in Stages, NEW k \in DOMAIN attempts[t],
               \/ HeartbeatAttempt(t, k)
               \/ \E outcome \in Outcomes : FinishAttempt(t, k, outcome)
               \/ LeaseExpires(t, k)
        PROVE HandedIn(s, n)'
    <2>1. IsLive(t, k)
      BY <1>5 DEF HeartbeatAttempt, FinishAttempt, LeaseExpires
    <2>2. \E row : attempts' = [attempts EXCEPT ![t][k] = row]
      BY <1>5 DEF HeartbeatAttempt, FinishAttempt, LeaseExpires
    <2>. QED
      BY <2>1, <2>2, <1>4
  <1>6. CASE SettleCancelCommit
    BY <1>0, <1>6 DEF SettleCancelCommit, HandedIn, IsOpen
  <1>7. CASE ClaimNothing \/ \E t \in Stages : ClaimPick(t)
    BY <1>2, <1>7 DEF ClaimNothing, ClaimPick
  <1>8. CASE \/ \E t \in Stages : ClaimExhausted(t) \/ DelayElapses(t) \/ WebhookRelease(t)
             \/ \E to \in TransitionTargets : TransitionRun(to)
             \/ StartIfQueued \/ RequestCancellation \/ SettleCancelBegin
             \/ \E paused \in BOOLEAN : SetCodingPaused(paused)
             \/ \E t \in Stages : \E decision \in {"approved", "rejected"} : ResolveStage(t, decision)
             \/ \E released \in SUBSET Stages : ReleaseStages(released)
    BY <1>1, <1>8 DEF ClaimExhausted, DelayElapses, WebhookRelease, TransitionRun, StartIfQueued,
           RequestCancellation, SettleCancelBegin, SetCodingPaused, ResolveStage, ReleaseStages
  <1>. QED
    BY <1>1, <1>3, <1>5, <1>6, <1>7, <1>8 DEF Next, vars

\* What is charged was handed in, and so is what a worker is about to charge.
ChargeInv ==
    /\ \A id \in settled : HandedIn(id[1], id[2])
    /\ \A w \in Workers : worker[w].at = "finished" => HandedIn(worker[w].stage, worker[w].attempt)

Owes(w) == worker[w].at = "finished" => HandedIn(worker[w].stage, worker[w].attempt)

\* What a step leaves alone keeps ChargeInv, for the ledger takes nothing back.
LEMMA ChargeKept ==
    ASSUME TypeOK, TInv, ChargeInv, [Next]_vars,
           \A id \in settled' : id \in settled \/ HandedIn(id[1], id[2])',
           \A v \in Workers : worker'[v] = worker[v] \/ Owes(v)'
    PROVE  ChargeInv'
  <1>1. (\A id \in settled : HandedIn(id[1], id[2]))'
    <2>1. ASSUME NEW id \in settled PROVE HandedIn(id[1], id[2])'
      <3>1. id[1] \in Stages
        BY DEF TInv, STypeOK
      <3>. QED
        BY <3>1, HandedInStays DEF ChargeInv
    <2>. QED
      BY <2>1 DEF HandedIn
  <1>2. ASSUME NEW v \in Workers, worker'[v] = worker[v]
        PROVE  Owes(v)'
    <2>. SUFFICES ASSUME worker[v].at = "finished"
                  PROVE  HandedIn(worker[v].stage, worker[v].attempt)'
      BY <1>2 DEF HandedIn, Owes
    <2>1. HandedIn(worker[v].stage, worker[v].attempt) /\ worker[v].stage \in Stages
      BY DEF ChargeInv, TInv, GoodWorker, WorkerOK
    <2>2. ASSUME NEW s \in Stages, NEW n, s = worker[v].stage, n = worker[v].attempt
          PROVE  HandedIn(s, n)'
      BY <2>1, <2>2, HandedInStays
    <2>. QED
      BY <1>2, <2>1, <2>2 DEF HandedIn
  <1>3. (\A v \in Workers : Owes(v))'
    BY <1>2
  <1>. QED
    BY <1>1, <1>3 DEF ChargeInv, Owes

\* A worker that goes anywhere else owes nothing.
LEMMA GoElsewhere ==
    ASSUME TInv, NEW w \in Workers, NEW next, Go(w, next), next.at # "finished",
           UNCHANGED settled
    PROVE  /\ \A id \in settled' : id \in settled \/ HandedIn(id[1], id[2])'
           /\ \A v \in Workers : worker'[v] = worker[v] \/ Owes(v)'
  <1>1. worker'[w] = next
    BY DEF Go, TInv
  <1>2. (worker[w].at # "finished")'
    BY <1>1
  <1>3. Owes(w)'
    BY <1>2 DEF Owes
  <1>. QED
    BY <1>3 DEF Go, TInv

LEMMA FinishHandsIn ==
    ASSUME TypeOK, NEW s \in Stages, NEW n, NEW outcome, FinishAttempt(s, n, outcome)
    PROVE  HandedIn(s, n)'
  <1>1. n \in DOMAIN attempts[s] /\ attempts \in [Stages -> Seq(AttemptRow)]
    BY DEF FinishAttempt, IsLive, IsOpen, TypeOK
  <1>2. SettledAttempt(outcome) \in {"completed", "failed"}
    BY DEF SettledAttempt
  <1>3. attempts' = [attempts EXCEPT ![s][n] =
                        [status |-> SettledAttempt(outcome), lease |-> "over"]]
    BY DEF FinishAttempt
  <1>. QED
    BY <1>1, <1>2, <1>3 DEF HandedIn

LEMMA FinishSliceCharges ==
    ASSUME TypeOK, TInv, NEW w \in Workers, FinishSlice(w)
    PROVE  /\ \A id \in settled' : id \in settled \/ HandedIn(id[1], id[2])'
           /\ \A v \in Workers : worker'[v] = worker[v] \/ Owes(v)'
  <1>. DEFINE v == worker[w]
              next == [v EXCEPT !.at = "finished"]
  <1>0. v \in WorkerState /\ v.stage \in Stages
    BY DEF TInv, GoodWorker, WorkerOK, FinishSlice
  <1>1. CASE FinishAttempt(v.stage, v.attempt, v.outcome) /\ Go(w, next)
    <2>1. UNCHANGED settled
      BY DEF FinishSlice, written
    <2>2. worker'[w].stage = v.stage /\ worker'[w].attempt = v.attempt
      BY <1>0, <1>1 DEF Go, TInv, WorkerState
    <2>3. ASSUME NEW s, NEW n, s = v.stage, n = v.attempt PROVE HandedIn(s, n)'
      BY <1>0, <1>1, <2>3, FinishHandsIn
    <2>4. Owes(w)'
      BY <2>2, <2>3 DEF Owes, HandedIn
    <2>. QED
      BY <1>1, <2>1, <2>4 DEF Go, TInv
  <1>2. CASE Go(w, At("idle"))
    BY <1>2, GoElsewhere DEF At, FinishSlice, written
  <1>. QED
    BY <1>1, <1>2 DEF FinishSlice

LEMMA ChargeCharges ==
    ASSUME TypeOK, TInv, ChargeInv, NEW w \in Workers, Charge(w) \/ ChargeFails(w)
    PROVE  /\ \A id \in settled' : id \in settled \/ HandedIn(id[1], id[2])'
           /\ \A v \in Workers : worker'[v] = worker[v] \/ Owes(v)'
  <1>. DEFINE v == worker[w]
  <1>1. v.stage \in Stages /\ HandedIn(v.stage, v.attempt)
    BY DEF TInv, GoodWorker, WorkerOK, ChargeInv, Charge, ChargeFails
  <1>2. UNCHANGED attempts
    BY DEF Charge, ChargeFails, SameLedger
  <1>3. settled' = settled \/ settled' = settled \cup {<<v.stage, v.attempt>>}
    BY DEF Charge, ChargeFails, Commit, written
  <1>4. \A id \in settled' : id \in settled \/ HandedIn(id[1], id[2])'
    BY <1>1, <1>2, <1>3 DEF HandedIn
  <1>5. PICK point \in {"idle", "stopping"} : Go(w, At(point))
    BY DEF Charge, ChargeFails
  <1>6. worker'[w].at = point
    BY <1>5 DEF Go, TInv, At
  <1>7. Owes(w)'
    BY <1>6 DEF Owes
  <1>. QED
    BY <1>4, <1>5, <1>7 DEF Go, TInv

LEMMA WorkerCharges ==
    ASSUME TypeOK, TInv, ChargeInv, NEW w \in Workers, Step(w)
    PROVE  /\ \A id \in settled' : id \in settled \/ HandedIn(id[1], id[2])'
           /\ \A v \in Workers : worker'[v] = worker[v] \/ Owes(v)'
  <1>0. worker[w] \in WorkerState
    BY DEF TInv, STypeOK
  <1>1. CASE Claim(w)
    BY <1>1, GoElsewhere DEF Claim, At, written
  <1>2. CASE FinishClaim(w)
    BY <1>0, <1>2, GoElsewhere DEF FinishClaim, At, WorkerState, written
  <1>3. CASE BeginStage(w) \/ LoadCheckpoint(w)
    BY <1>0, <1>3, GoElsewhere DEF BeginStage, LoadCheckpoint, WorkerState, written
  <1>4. CASE RunArm(w)
    BY <1>4, ArmStep, GoElsewhere DEF written
  <1>5. CASE LoseLease(w) \/ FailExhausted(w) \/ Die(w)
    BY <1>5, GoElsewhere DEF LoseLease, FailExhausted, Die, At, written
  <1>. QED
    BY <1>1, <1>2, <1>3, <1>4, <1>5, FinishSliceCharges, ChargeCharges DEF Step

LEMMA ChargeStep == TypeOK /\ TInv /\ ChargeInv /\ [SNext]_svars => ChargeInv'
  <1>. SUFFICES ASSUME TypeOK, TInv, ChargeInv, [SNext]_svars PROVE ChargeInv'
    OBVIOUS
  <1>1. [Next]_vars
    BY SliceStep
  <1>2. CASE UNCHANGED <<settled, worker>>
    BY <1>1, <1>2, ChargeKept
  <1>3. ASSUME NEW w \in Workers, Step(w) PROVE ChargeInv'
    BY <1>1, <1>3, WorkerCharges, ChargeKept
  <1>4. CASE \/ UNCHANGED svars \/ SetBudget \/ QueueRun
             \/ \E s \in Stages : Wake(s)
             \/ \E s \in Stages : \E n \in DOMAIN attempts[s] : RunOut(s, n)
    BY <1>2, <1>4 DEF svars, written, SetBudget, QueueRun, Wake, RunOut
  <1>. QED
    BY <1>3, <1>4 DEF SNext

\* No zombie is charged, and nobody whose stage was given to another: for any
\* number of workers, stages, slices and faults.
THEOREM OnlyHandedInIsCharged == SSpec => []ChargedIsHandedIn
  <1>1. SInit => ChargeInv
    <2>. SUFFICES ASSUME SInit, NEW w \in Workers PROVE worker[w].at # "finished"
      BY DEF SInit, ChargeInv
    <2>. QED
      BY DEF SInit, At
  <1>2. IInv /\ TInv /\ ChargeInv /\ [SNext]_svars => ChargeInv'
    BY ChargeStep DEF IInv
  <1>3. ChargeInv => ChargedIsHandedIn
    BY DEF ChargeInv, HandedIn, ChargedIsHandedIn
  <1>. QED
    BY <1>1, <1>2, <1>3, SInvariance, PTL DEF SSpec

-----------------------------------------------------------------------------
\* No checkpoint is ahead of what was charged.

Pays(w) ==
    /\ worker[w].at = "working" => worker[w].loop.calls <= spent
    /\ worker[w].at \in {"finishing", "finished"} =>
           worker[w].loop.calls <= spent + worker[w].made

\* Every loop in flight is paid for, but for the calls its own slice made.
PaidInv == checkpoint.calls <= spent /\ \A w \in Workers : Pays(w)

LEMMA PaidLonger ==
    ASSUME NEW calls \in Nat, NEW made \in Nat, NEW paid \in Nat, NEW more \in Nat,
           paid <= more, calls <= paid + made
    PROVE  calls <= more + made
  OBVIOUS

LEMMA PaidKept ==
    ASSUME TInv, PaidInv, spent' \in Nat, spent <= spent', checkpoint'.calls <= spent',
           \A v \in Workers : worker'[v] = worker[v] \/ Pays(v)'
    PROVE  PaidInv'
  <1>1. ASSUME NEW v \in Workers, worker'[v] = worker[v]
        PROVE  Pays(v)'
    <2>. DEFINE calls == worker[v].loop.calls
                made == worker[v].made
    <2>0. calls \in Nat /\ made \in Nat /\ spent \in Nat
      BY DEF TInv, STypeOK, WorkerState, Loop
    <2>1. /\ worker[v].at = "working" => calls <= spent
          /\ worker[v].at \in {"finishing", "finished"} => calls <= spent + made
      BY DEF PaidInv, Pays
    <2>. HIDE DEF calls, made
    <2>2. calls <= spent => calls <= spent'
      BY <2>0
    <2>3. calls <= spent + made => calls <= spent' + made
      BY <2>0, PaidLonger
    <2>4. /\ worker[v].at = "working" => calls <= spent'
          /\ worker[v].at \in {"finishing", "finished"} => calls <= spent' + made
      BY <2>1, <2>2, <2>3
    <2>. USE DEF calls, made
    <2>. QED
      BY <1>1, <2>4 DEF Pays
  <1>2. (\A v \in Workers : Pays(v))'
    BY <1>1
  <1>3. (checkpoint.calls <= spent)'
    OBVIOUS
  <1>. QED
    BY <1>2, <1>3 DEF PaidInv

\* A step that commits nothing and takes its worker where no loop is held.
LEMMA QuietPays ==
    ASSUME TInv, PaidInv, NEW w \in Workers, NEW next, Go(w, next), UNCHANGED written,
           next.at \notin {"working", "finishing", "finished"}
    PROVE  PaidInv'
  <1>1. worker'[w] = next
    BY DEF Go, TInv
  <1>2. Pays(w)'
    BY <1>1 DEF Pays
  <1>3. \A v \in Workers : worker'[v] = worker[v] \/ Pays(v)'
    BY <1>2 DEF Go, TInv
  <1>. QED
    BY <1>3, PaidKept DEF PaidInv, TInv, STypeOK, written

\* A step that commits nothing and leaves its worker with a loop it pays for.
LEMMA LoadedPays ==
    ASSUME TInv, PaidInv, NEW w \in Workers, UNCHANGED written, Pays(w)',
           \A v \in Workers \ {w} : worker'[v] = worker[v]
    PROVE  PaidInv'
  BY PaidKept DEF PaidInv, TInv, STypeOK, written

LEMMA ArmPays ==
    ASSUME TInv, PaidInv, NEW w \in Workers, RunArm(w)
    PROVE  PaidInv'
  <1>1. PICK next \in GoodWorker :
           /\ Go(w, next) /\ next.at = "finishing"
           /\ next.loop.calls <= worker[w].loop.calls + next.made
    BY ArmStep
  <1>2. UNCHANGED written
    BY ArmStep
  <1>3. worker[w].loop.calls <= spent
    BY DEF PaidInv, Pays, RunArm
  <1>4. /\ worker[w].loop.calls \in Nat /\ spent \in Nat
        /\ next.loop.calls \in Nat /\ next.made \in Nat
    BY DEF TInv, STypeOK, GoodWorker, WorkerState, Loop
  <1>5. next.loop.calls <= spent + next.made
    BY <1>1, <1>3, <1>4, PaidLonger
  <1>6. worker'[w] = next /\ \A v \in Workers \ {w} : worker'[v] = worker[v]
    BY <1>1 DEF Go, TInv
  <1>7. UNCHANGED spent
    BY <1>2 DEF written
  <1>8. Pays(w)'
    BY <1>1, <1>5, <1>6, <1>7 DEF Pays
  <1>. QED
    BY <1>2, <1>6, <1>8, LoadedPays

LEMMA ClaimPays ==
    ASSUME TInv, PaidInv, NEW w \in Workers,
           Claim(w) \/ FinishClaim(w) \/ BeginStage(w) \/ LoadCheckpoint(w)
    PROVE  PaidInv'
  <1>0. worker[w] \in WorkerState /\ UNCHANGED written
    BY DEF TInv, STypeOK, Claim, FinishClaim, BeginStage, LoadCheckpoint
  <1>1. CASE Claim(w)
    <2>1. CASE UNCHANGED worker
      BY <1>0, <2>1, PaidKept DEF PaidInv, TInv, STypeOK, written
    <2>2. ASSUME NEW s \in Stages, Go(w, [At("claiming") EXCEPT !.stage = s]) PROVE PaidInv'
      BY <1>0, <2>2, QuietPays DEF At
    <2>. QED
      BY <1>1, <2>1, <2>2 DEF Claim
  <1>2. CASE FinishClaim(w)
    BY <1>0, <1>2, QuietPays DEF FinishClaim, At, WorkerState
  <1>3. CASE BeginStage(w)
    BY <1>0, <1>3, QuietPays DEF BeginStage, WorkerState
  <1>4. CASE LoadCheckpoint(w)
    <2>. DEFINE loaded == [worker[w] EXCEPT !.at = "working", !.loop = checkpoint]
    <2>1. loaded.at = "working" /\ loaded.loop = checkpoint
      BY <1>0 DEF WorkerState
    <2>2. worker'[w] = loaded /\ \A v \in Workers \ {w} : worker'[v] = worker[v]
      BY <1>4 DEF LoadCheckpoint, Go, TInv
    <2>3. checkpoint.calls <= spent' 
      BY <1>0 DEF PaidInv, written
    <2>4. Pays(w)'
      BY <2>1, <2>2, <2>3 DEF Pays
    <2>. QED
      BY <1>0, <2>2, <2>4, LoadedPays
  <1>. QED
    BY <1>1, <1>2, <1>3, <1>4

LEMMA FinishPays ==
    ASSUME TInv, PaidInv, NEW w \in Workers, FinishSlice(w)
    PROVE  PaidInv'
  <1>. DEFINE v == worker[w]
              next == [v EXCEPT !.at = "finished"]
  <1>0. v \in WorkerState /\ UNCHANGED written /\ v.at = "finishing"
    BY DEF TInv, STypeOK, FinishSlice
  <1>1. CASE Go(w, next)
    <2>1. next.at = "finished" /\ next.loop = v.loop /\ next.made = v.made
      BY <1>0 DEF WorkerState
    <2>2. worker'[w] = next /\ \A u \in Workers \ {w} : worker'[u] = worker[u]
      BY <1>1 DEF Go, TInv
    <2>3. v.loop.calls <= spent + v.made /\ UNCHANGED spent
      BY <1>0 DEF PaidInv, Pays, written
    <2>4. Pays(w)'
      BY <2>1, <2>2, <2>3 DEF Pays
    <2>. QED
      BY <1>0, <2>2, <2>4, LoadedPays
  <1>2. CASE Go(w, At("idle"))
    BY <1>0, <1>2, QuietPays DEF At
  <1>. QED
    BY <1>1, <1>2 DEF FinishSlice

\* The checkpoint and what it cost are one transaction.
LEMMA ChargePays ==
    ASSUME TInv, PaidInv, NEW w \in Workers, Charge(w) \/ ChargeFails(w)
    PROVE  PaidInv'
  <1>. DEFINE v == worker[w]
  <1>0. /\ v \in WorkerState /\ v.at = "finished" /\ v.made \in Nat /\ spent \in Nat
        /\ v.loop.calls \in Nat
    BY DEF TInv, STypeOK, WorkerState, Loop, Charge, ChargeFails
  <1>1. PICK point \in {"idle", "stopping"} : Go(w, At(point))
    BY DEF Charge, ChargeFails
  <1>2. CASE UNCHANGED written
    BY <1>1, <1>2, QuietPays DEF At
  <1>3. CASE spent' = spent + ChargedCalls(v) /\ checkpoint' = v.loop
    <2>1. v.loop.calls <= spent + v.made
      BY <1>0 DEF PaidInv, Pays
    <2>2. spent' = spent + v.made
      BY <1>3 DEF ChargedCalls
    <2>3. spent' \in Nat /\ spent <= spent'
      BY <1>0, <2>2
    <2>4. checkpoint'.calls <= spent'
      BY <1>3, <2>1, <2>2
    <2>5. worker'[w].at = point /\ \A u \in Workers \ {w} : worker'[u] = worker[u]
      BY <1>1 DEF Go, TInv, At
    <2>6. Pays(w)'
      BY <2>5 DEF Pays
    <2>. QED
      BY <2>3, <2>4, <2>5, <2>6, PaidKept
  <1>. QED
    BY <1>2, <1>3 DEF Charge, ChargeFails, Commit

LEMMA PaidStep == TInv /\ PaidInv /\ [SNext]_svars => PaidInv'
  <1>. SUFFICES ASSUME TInv, PaidInv, [SNext]_svars PROVE PaidInv'
    OBVIOUS
  <1>1. CASE UNCHANGED <<checkpoint, spent, worker>>
    BY <1>1, PaidKept DEF PaidInv, TInv, STypeOK
  <1>2. ASSUME NEW w \in Workers, LoseLease(w) \/ FailExhausted(w) \/ Die(w) PROVE PaidInv'
    BY <1>2, QuietPays DEF LoseLease, FailExhausted, Die, At
  <1>3. ASSUME NEW w \in Workers, Step(w) PROVE PaidInv'
    BY <1>2, <1>3, ClaimPays, ArmPays, FinishPays, ChargePays DEF Step
  <1>4. CASE \/ UNCHANGED svars \/ SetBudget \/ QueueRun
             \/ \E s \in Stages : Wake(s)
             \/ \E s \in Stages : \E n \in DOMAIN attempts[s] : RunOut(s, n)
    BY <1>1, <1>4 DEF svars, written, SetBudget, QueueRun, Wake, RunOut
  <1>. QED
    BY <1>3, <1>4 DEF SNext

\* A resume never counts on top of calls nobody was charged for, whatever was
\* lost, refused or raced before it.
THEOREM ResumesArePaidFor == SSpec => []CheckpointIsPaid
  <1>1. SInit => PaidInv
    <2>. SUFFICES ASSUME SInit PROVE PaidInv
      OBVIOUS
    <2>1. checkpoint.calls <= spent
      <3>1. checkpoint.calls = 0 /\ spent = 0
        BY DEF SInit, NoLoop
      <3>. QED
        BY <3>1
    <2>2. ASSUME NEW w \in Workers PROVE Pays(w)
      BY DEF SInit, At, Pays
    <2>. QED
      BY <2>1, <2>2 DEF PaidInv
  <1>2. TInv /\ PaidInv /\ [SNext]_svars => PaidInv'
    BY PaidStep
  <1>3. PaidInv => CheckpointIsPaid
    BY DEF PaidInv, CheckpointIsPaid
  <1>. QED
    BY <1>1, <1>2, <1>3, SInvariance, PTL DEF SSpec

-----------------------------------------------------------------------------
(* The ceiling *)

\* The workers that charge nothing more: those about to fail the run, and all that
\* are idle once it is over.
Stopped ==
    {w \in Workers : \/ worker[w].at = "stopping"
                     \/ worker[w].at = "idle" /\ run.status \in TerminalRun}

OverInv == budget.attempts <= Ceiling + Cardinality(Stopped) + faults

LEMMA StoppedIsFinite == IsFiniteSet(Stopped) /\ Cardinality(Stopped) \in Nat
  BY WorkersAssumption, FS_Subset, FS_CardinalityType DEF WorkersAssumption, Stopped

LEMMA StoppedIsFiniteThen == IsFiniteSet(Stopped') /\ Cardinality(Stopped') \in Nat
  BY WorkersAssumption, FS_Subset, FS_CardinalityType DEF WorkersAssumption, Stopped

\* Nobody who has stopped is at work again, and nothing is charged.
LEMMA OverKept ==
    ASSUME TInv, OverInv, UNCHANGED <<budget, faults>>, Stopped \subseteq Stopped'
    PROVE  OverInv'
  <1>1. Cardinality(Stopped) <= Cardinality(Stopped')
    BY StoppedIsFiniteThen, FS_Subset
  <1>2. /\ budget.attempts \in Nat /\ faults \in Nat /\ Ceiling \in Nat
        /\ Cardinality(Stopped) \in Nat /\ Cardinality(Stopped') \in Nat
    BY WorkersAssumption, StoppedIsFinite, StoppedIsFiniteThen
       DEF TInv, STypeOK, WorkersAssumption
  <1>. QED
    BY <1>1, <1>2 DEF OverInv

\* A run that is over stays over.
LEMMA OverIsOver ==
    ASSUME [SNext]_svars, run.status \in TerminalRun
    PROVE  run'.status \in TerminalRun
  <1>1. CASE UNCHANGED run
    BY <1>1
  <1>2. CASE QueueRun
    <2>1. ~CanTransitionRun(run.status, "queued")
      BY DEF CanTransitionRun, RunEdges, TerminalRun
    <2>. QED
      BY <1>2, <2>1 DEF QueueRun, SameLedger
  <1>3. ASSUME NEW w \in Workers, Step(w) PROVE UNCHANGED run
    BY <1>3 DEF Step, Claim, FinishClaim, BeginStage, LoadCheckpoint, RunArm, LoseLease,
       FinishSlice, Charge, ChargeFails, FailExhausted, Die, SameLedger, ClaimPick, ClaimNothing,
       ClaimGrant, ClaimExhausted, StartIfQueued, FinishAttempt, TerminalRun
  <1>. QED
    BY <1>1, <1>2, <1>3 DEF SNext, svars, SetBudget, SameLedger, Wake, RunOut, DelayElapses,
                            LeaseExpires

\* A worker that is not stopped goes on, or comes to rest.
LEMMA WorkerGoesOn ==
    ASSUME TInv, [SNext]_svars, NEW w \in Workers, NEW next, Go(w, next),
           w \in Stopped => next.at = "idle" /\ run'.status \in TerminalRun
    PROVE  Stopped \subseteq Stopped'
  <1>1. worker'[w] = next /\ \A v \in Workers \ {w} : worker'[v] = worker[v]
    BY DEF Go, TInv
  <1>2. SUFFICES ASSUME NEW v \in Stopped PROVE v \in Stopped'
    OBVIOUS
  <1>3. v \in Workers /\ (run.status \in TerminalRun => run'.status \in TerminalRun)
    BY OverIsOver DEF Stopped
  <1>4. CASE v = w
    BY <1>1, <1>3, <1>4 DEF Stopped
  <1>5. CASE v # w
    BY <1>1, <1>3, <1>5 DEF Stopped
  <1>. QED
    BY <1>4, <1>5

\* One worker more or one fault more covers what a charge adds.
LEMMA ChargeIsCovered ==
    ASSUME TInv, OverInv, [SNext]_svars, NEW w \in Workers, Charge(w) \/ ChargeFails(w)
    PROVE  OverInv'
  <1>. DEFINE v == worker[w]
  <1>1. /\ v.at = "finished" /\ v \in WorkerState /\ w \notin Stopped
        /\ budget \in [set : BOOLEAN, calls : Nat, attempts : Nat] /\ faults \in Nat
        /\ Ceiling \in Nat /\ Cardinality(Stopped) \in Nat /\ Cardinality(Stopped') \in Nat
        /\ Commit(v) \/ UNCHANGED written
    BY WorkersAssumption, StoppedIsFinite, StoppedIsFiniteThen
       DEF Charge, ChargeFails, TInv, STypeOK, WorkersAssumption, Stopped
  <1>2. PICK point \in {"idle", "stopping"} : Go(w, At(point))
    BY DEF Charge, ChargeFails
  <1>3. Stopped \subseteq Stopped'
    BY <1>1, <1>2, WorkerGoesOn
  <1>4. Cardinality(Stopped) <= Cardinality(Stopped')
    BY <1>3, StoppedIsFiniteThen, FS_Subset
  <1>5. /\ RunBudgetAttempts(v.outcome) \in {0, 1}
        /\ budget'.attempts \in {budget.attempts, budget.attempts + 1}
    <2>1. RunBudgetAttempts(v.outcome) \in {0, 1}
      BY DEF RunBudgetAttempts
    <2>2. Consumed(v).attempts \in {budget.attempts, budget.attempts + 1}
      BY <1>1, <2>1 DEF Consumed
    <2>. QED
      BY <1>1, <2>1, <2>2 DEF Commit, written
  <1>6. CASE ChargeFails(w)
    <2>1. faults' = faults + 1
      BY <1>6 DEF ChargeFails, Fault
    <2>. QED
      BY <1>1, <1>4, <1>5, <2>1 DEF OverInv
  <1>7. CASE Charge(w) /\ (budget'.attempts = budget.attempts \/ budget'.attempts <= Ceiling)
    <2>1. UNCHANGED faults
      BY <1>7 DEF Charge
    <2>. QED
      BY <1>1, <1>4, <1>5, <1>7, <2>1 DEF OverInv
  <1>8. CASE /\ Charge(w) /\ budget'.attempts # budget.attempts
             /\ ~(budget'.attempts <= Ceiling)
    <2>1. <<v.stage, v.attempt>> \notin settled /\ budget' = Consumed(v)
      BY <1>8 DEF Charge, Commit, written
    <2>2. budget.set
      BY <1>8, <2>1 DEF Consumed
    <2>3. RunBudgetAttempts(v.outcome) = 1
      <3>1. budget'.attempts = budget.attempts + RunBudgetAttempts(v.outcome)
        BY <1>1, <2>1, <2>2 DEF Consumed
      <3>. QED
        BY <1>1, <1>5, <1>8, <3>1
    <2>4. Exhausted(v)
      BY <1>1, <1>5, <1>8, <2>1, <2>2 DEF Exhausted
    <2>5. Stops(v)
      BY <2>3, <2>4 DEF Stops, BudgetStop
    <2>6. Go(w, At("stopping")) /\ UNCHANGED faults
      BY <1>8, <2>5 DEF Charge
    <2>7. w \in Stopped'
      BY <2>6 DEF Go, TInv, At, Stopped
    <2>8. Cardinality(Stopped \cup {w}) = Cardinality(Stopped) + 1
      BY <1>1, StoppedIsFinite, FS_AddElement
    <2>9. Cardinality(Stopped \cup {w}) <= Cardinality(Stopped')
      BY <1>3, <2>7, StoppedIsFiniteThen, FS_Subset
    <2>. QED
      BY <1>1, <1>5, <2>6, <2>8, <2>9 DEF OverInv
  <1>. QED
    BY <1>6, <1>7, <1>8

\* The death of a worker that has stopped is a fault.
LEMMA DeathIsCovered ==
    ASSUME TInv, OverInv, [SNext]_svars, NEW w \in Workers, Die(w)
    PROVE  OverInv'
  <1>1. /\ faults' = faults + 1 /\ UNCHANGED budget /\ Go(w, At("idle"))
    BY DEF Die, Fault, written
  <1>2. /\ budget.attempts \in Nat /\ faults \in Nat /\ Ceiling \in Nat
        /\ Cardinality(Stopped) \in Nat /\ Cardinality(Stopped') \in Nat
    BY WorkersAssumption, StoppedIsFinite, StoppedIsFiniteThen
       DEF TInv, STypeOK, WorkersAssumption
  <1>3. Stopped \ {w} \subseteq Stopped'
    BY <1>1, OverIsOver DEF Go, TInv, Stopped
  <1>4. Cardinality(Stopped \ {w}) <= Cardinality(Stopped')
    BY <1>3, StoppedIsFiniteThen, FS_Subset
  <1>5. Cardinality(Stopped) <= Cardinality(Stopped \ {w}) + 1
    <2>1. Cardinality(Stopped \ {w}) =
              IF w \in Stopped THEN Cardinality(Stopped) - 1 ELSE Cardinality(Stopped)
      BY StoppedIsFinite, FS_RemoveElement
    <2>. QED
      BY <1>2, <2>1
  <1>6. Cardinality(Stopped \ {w}) \in Nat
    BY StoppedIsFinite, FS_RemoveElement, FS_CardinalityType
  <1>. QED
    BY <1>1, <1>2, <1>4, <1>5, <1>6 DEF OverInv

LEMMA OverStep == TypeOK /\ TInv /\ OverInv /\ [SNext]_svars => OverInv'
  <1>. SUFFICES ASSUME TypeOK, TInv, OverInv, [SNext]_svars PROVE OverInv'
    OBVIOUS
  <1>1. CASE UNCHANGED <<budget.attempts, faults, worker>>
    <2>1. Stopped \subseteq Stopped'
      BY <1>1, OverIsOver DEF Stopped
    <2>2. Cardinality(Stopped) <= Cardinality(Stopped')
      BY <2>1, StoppedIsFiniteThen, FS_Subset
    <2>3. /\ budget.attempts \in Nat /\ faults \in Nat /\ Ceiling \in Nat
          /\ Cardinality(Stopped) \in Nat /\ Cardinality(Stopped') \in Nat
      BY WorkersAssumption, StoppedIsFinite, StoppedIsFiniteThen
         DEF TInv, STypeOK, WorkersAssumption
    <2>. QED
      BY <1>1, <2>2, <2>3 DEF OverInv
  <1>2. CASE SetBudget
    <2>1. budget'.attempts = budget.attempts
      BY <1>2 DEF SetBudget, TInv, STypeOK
    <2>. QED
      BY <1>1, <1>2, <2>1 DEF SetBudget
  <1>3. CASE \/ UNCHANGED svars \/ QueueRun
             \/ \E s \in Stages : Wake(s)
             \/ \E s \in Stages : \E n \in DOMAIN attempts[s] : RunOut(s, n)
    BY <1>1, <1>3 DEF svars, written, QueueRun, Wake, RunOut
  <1>4. ASSUME NEW w \in Workers, Claim(w) PROVE OverInv'
    <2>1. CASE UNCHANGED worker
      BY <1>1, <1>4, <2>1 DEF Claim, written
    <2>2. ASSUME NEW s \in Stages, ClaimPick(s), Go(w, [At("claiming") EXCEPT !.stage = s])
          PROVE  OverInv'
      <3>1. w \notin Stopped
        BY <1>4, <2>2 DEF Claim, ClaimPick, RunClaimable, Stopped
      <3>2. Stopped \subseteq Stopped'
        BY <2>2, <3>1, WorkerGoesOn
      <3>. QED
        BY <1>4, <3>2, OverKept DEF Claim, written
    <2>. QED
      BY <1>4, <2>1, <2>2 DEF Claim
  <1>5. ASSUME NEW w \in Workers,
               \/ FinishClaim(w) \/ BeginStage(w) \/ LoadCheckpoint(w) \/ RunArm(w)
               \/ LoseLease(w) \/ FinishSlice(w)
        PROVE  OverInv'
    <2>1. w \notin Stopped /\ UNCHANGED <<budget, faults>>
      BY <1>5 DEF FinishClaim, BeginStage, LoadCheckpoint, RunArm, LoseLease, FinishSlice,
                  Stopped, written
    <2>2. PICK next : Go(w, next)
      BY <1>5 DEF FinishClaim, BeginStage, LoadCheckpoint, RunArm, LoseLease, FinishSlice
    <2>3. Stopped \subseteq Stopped'
      BY <2>1, <2>2, WorkerGoesOn
    <2>. QED
      BY <2>1, <2>3, OverKept
  <1>6. ASSUME NEW w \in Workers, FailExhausted(w) PROVE OverInv'
    <2>1. run'.status \in TerminalRun /\ Go(w, At("idle")) /\ UNCHANGED <<budget, faults>>
      <3>1. run'.status \in TerminalRun
        <4>1. CASE run.status \in TerminalRun
          BY <4>1, OverIsOver
        <4>2. CASE run.status \notin TerminalRun
          BY <1>6, <4>2 DEF FailExhausted, TransitionRun, TerminalRun, TypeOK, RunRow
        <4>. QED
          BY <4>1, <4>2
      <3>. QED
        BY <1>6, <3>1 DEF FailExhausted, written
    <2>2. Stopped \subseteq Stopped'
      BY <2>1, WorkerGoesOn DEF At
    <2>. QED
      BY <2>1, <2>2, OverKept
  <1>7. ASSUME NEW w \in Workers, Charge(w) \/ ChargeFails(w) \/ Die(w) PROVE OverInv'
    BY <1>7, ChargeIsCovered, DeathIsCovered
  <1>. QED
    BY <1>2, <1>3, <1>4, <1>5, <1>6, <1>7 DEF SNext, Step

\* However many workers share the run, its attempts exceed the ceiling by at most
\* one for each worker and one for each fault (checkpoint_stage_budget, and the
\* stop of worker.ts that follows it).
THEOREM CeilingHolds == SSpec => []OvershootIsBounded
  <1>1. SInit => OverInv
    <2>. SUFFICES ASSUME SInit PROVE OverInv
      OBVIOUS
    <2>1. budget.attempts = 0 /\ faults = 0
      BY DEF SInit
    <2>. QED
      BY <2>1, StoppedIsFinite, WorkersAssumption DEF OverInv, WorkersAssumption
  <1>2. TypeOK /\ TInv /\ OverInv /\ [SNext]_svars => OverInv'
    BY OverStep
  <1>3. TInv /\ OverInv => OvershootIsBounded
    <2>. SUFFICES ASSUME TInv, OverInv PROVE OvershootIsBounded
      OBVIOUS
    <2>1. IsFiniteSet(Workers) /\ Stopped \subseteq Workers
      BY WorkersAssumption DEF WorkersAssumption, Stopped
    <2>2. Cardinality(Stopped) <= Cardinality(Workers) /\ Cardinality(Workers) \in Nat
      BY <2>1, FS_Subset, FS_CardinalityType
    <2>3. budget.attempts \in Nat /\ faults \in Nat /\ Ceiling \in Nat
      BY WorkersAssumption DEF TInv, STypeOK, WorkersAssumption
    <2>. QED
      BY <2>2, <2>3, StoppedIsFinite DEF OverInv, OvershootIsBounded
  <1>4. IInv => TypeOK
    BY DEF IInv
  <1>. QED
    BY <1>1, <1>2, <1>3, <1>4, SInvariance, PTL DEF SSpec

-----------------------------------------------------------------------------
\* What is handed in is charged, but for faults.

Due(id) == \E w \in Owing : id = <<worker[w].stage, worker[w].attempt>>

\* The attempts whose charge was lost, one for each fault at most.
LossInv ==
    \E lost : /\ IsFiniteSet(lost) /\ Cardinality(lost) <= faults
              /\ \A id \in Unpaid : id \in lost \/ Due(id)

\* A step after which whatever is unpaid is due, or was unpaid and nobody's before.
LEMMA LossKept ==
    ASSUME TInv, LossInv, UNCHANGED faults,
           \A id : id \in Unpaid' => Due(id)' \/ (id \in Unpaid /\ ~Due(id))
    PROVE  LossInv'
  BY DEF LossInv

\* A fault may cost one charge.
LEMMA LossGrows ==
    ASSUME TInv, LossInv, Fault, NEW lostId,
           \A id : id \in Unpaid' => Due(id)' \/ id = lostId \/ (id \in Unpaid /\ ~Due(id))
    PROVE  LossInv'
  <1>1. PICK lost : /\ IsFiniteSet(lost) /\ Cardinality(lost) <= faults
                    /\ \A id \in Unpaid : id \in lost \/ Due(id)
    BY DEF LossInv
  <1>. DEFINE more == lost \cup {lostId}
  <1>2. /\ IsFiniteSet(more)
        /\ Cardinality(more) = IF lostId \in lost THEN Cardinality(lost) ELSE Cardinality(lost) + 1
    BY <1>1, FS_AddElement
  <1>3. Cardinality(lost) \in Nat
    BY <1>1, FS_CardinalityType
  <1>4. Cardinality(more) <= faults'
    <2>1. faults \in Nat /\ faults' = faults + 1
      BY WorkersAssumption DEF Fault, TInv, STypeOK, WorkersAssumption
    <2>. HIDE DEF more
    <2>. QED
      BY <1>1, <1>2, <1>3, <2>1
  <1>5. \A id \in Unpaid' : id \in more \/ Due(id)'
    BY <1>1
  <1>. QED
    BY <1>2, <1>4, <1>5 DEF LossInv

\* Everybody else's debts stay when one worker moves on.
LEMMA DueStays ==
    ASSUME TInv, NEW w \in Workers, NEW next, Go(w, next), NEW id, Due(id)
    PROVE  Due(id)' \/ (w \in Owing /\ id = <<worker[w].stage, worker[w].attempt>>)
  <1>1. PICK v \in Owing : id = <<worker[v].stage, worker[v].attempt>>
    BY DEF Due
  <1>2. CASE v = w
    BY <1>1, <1>2
  <1>3. CASE v # w
    <2>1. v \in Workers /\ worker'[v] = worker[v]
      BY <1>1, <1>3 DEF Owing, Go, TInv
    <2>. QED
      BY <1>1, <2>1 DEF Owing, Due
  <1>. QED
    BY <1>2, <1>3

\* Nothing but finish_attempt hands in an attempt.
LEMMA NothingHandedIn ==
    ASSUME TypeOK, UNCHANGED settled,
           \/ UNCHANGED attempts
           \/ attempts' = ReapedAttempts
           \/ \E s \in Stages : ClaimGrant(s)
           \/ \E s \in Stages : \E n \in DOMAIN attempts[s] : LeaseExpires(s, n)
    PROVE  Unpaid' \subseteq Unpaid
  <1>. SUFFICES ASSUME NEW id, id \in Unpaid' PROVE id \in Unpaid
    OBVIOUS
  <1>1. PICK s \in Stages : \E n \in DOMAIN attempts'[s] : id = <<s, n>>
    BY DEF Unpaid
  <1>2. PICK n \in DOMAIN attempts'[s] : id = <<s, n>>
    BY <1>1
  <1>3. attempts'[s][n].status \in {"completed", "failed"} /\ id \notin settled
    BY <1>2 DEF Unpaid
  <1>4. attempts \in [Stages -> Seq(AttemptRow)]
    BY DEF TypeOK
  <1>5. n \in DOMAIN attempts[s] /\ attempts[s][n].status \in {"completed", "failed"}
    <2>1. CASE UNCHANGED attempts
      BY <1>2, <1>3, <2>1
    <2>2. CASE attempts' = ReapedAttempts
      <3>1. n \in DOMAIN attempts[s] /\ attempts'[s][n] = Retired(attempts[s][n])
        BY <1>2, <2>2 DEF ReapedAttempts
      <3>2. attempts[s][n] \in AttemptRow
        BY <1>4, <3>1
      <3>. QED
        BY <1>3, <3>1, <3>2 DEF Retired, AttemptRow
    <2>3. ASSUME NEW t \in Stages, ClaimGrant(t)
          PROVE  n \in DOMAIN attempts[s] /\ attempts[s][n].status \in {"completed", "failed"}
      <3>1. attempts' = [attempts EXCEPT ![t] =
                            Append(attempts[t], [status |-> "claimed", lease |-> "live"])]
        BY <2>3 DEF ClaimGrant
      <3>. QED
        BY <1>2, <1>3, <1>4, <3>1
    <2>4. ASSUME NEW t \in Stages, NEW m \in DOMAIN attempts[t], LeaseExpires(t, m)
          PROVE  n \in DOMAIN attempts[s] /\ attempts[s][n].status \in {"completed", "failed"}
      <3>1. attempts' = [attempts EXCEPT ![t] =
                            [attempts[t] EXCEPT ![m] = [attempts[t][m] EXCEPT !.lease = "over"]]]
        BY <2>4 DEF LeaseExpires
      <3>2. attempts[t][m] \in AttemptRow /\ attempts[t] \in Seq(AttemptRow)
        BY <1>4, <2>4
      <3>3. [attempts[t][m] EXCEPT !.lease = "over"].status = attempts[t][m].status
        BY <3>2 DEF AttemptRow
      <3>. QED
        BY <1>2, <1>3, <1>4, <2>4, <3>1, <3>2, <3>3
    <2>. QED
      BY <2>1, <2>2, <2>3, <2>4
  <1>. QED
    BY <1>2, <1>3, <1>5 DEF Unpaid

LEMMA LossStep ==
    ASSUME TypeOK, TInv, LossInv, NEW w \in Workers, Step(w)
    PROVE  LossInv'
  <1>. DEFINE v == worker[w]
              mine == <<v.stage, v.attempt>>
  <1>0. v \in WorkerState
    BY DEF TInv, STypeOK
  \* the steps before the slice is handed in
  <1>1. ASSUME NEW next, Go(w, next), w \notin Owing, UNCHANGED faults, Unpaid' \subseteq Unpaid
        PROVE  LossInv'
    BY <1>1, DueStays, LossKept
  <1>2. ASSUME Claim(w) \/ FinishClaim(w) \/ BeginStage(w) \/ LoadCheckpoint(w) \/ RunArm(w)
               \/ LoseLease(w) \/ FailExhausted(w)
        PROVE  LossInv'
    <2>1. w \notin Owing /\ UNCHANGED faults /\ UNCHANGED settled
      BY <1>2 DEF Claim, FinishClaim, BeginStage, LoadCheckpoint, RunArm, LoseLease, FailExhausted,
                  Owing, written
    <2>2. \/ UNCHANGED attempts
          \/ attempts' = ReapedAttempts
          \/ \E s \in Stages : ClaimGrant(s)
      <3>1. CASE FinishClaim(w)
        <4>1. worker[w].stage \in Stages
          BY <3>1 DEF FinishClaim, TInv, GoodWorker, WorkerOK
        <4>. QED
          BY <3>1, <4>1 DEF FinishClaim, ClaimExhausted
      <3>. QED
        BY <1>2, <3>1 DEF Claim, ClaimPick, ClaimNothing, BeginStage, StartIfQueued, LoadCheckpoint,
                    RunArm, LoseLease, FailExhausted, TransitionRun, SameLedger
    <2>3. Unpaid' \subseteq Unpaid
      BY <2>1, <2>2, NothingHandedIn
    <2>4. (\E next : Go(w, next)) \/ UNCHANGED worker
      BY <1>2 DEF Claim, FinishClaim, BeginStage, LoadCheckpoint, RunArm, LoseLease, FailExhausted
    <2>5. CASE UNCHANGED worker
      <3>1. \A id : Due(id) <=> Due(id)'
        BY <2>5 DEF Due, Owing
      <3>. QED
        BY <2>1, <2>3, <3>1, LossKept
    <2>. QED
      BY <1>1, <2>1, <2>3, <2>4, <2>5
  <1>3. CASE FinishSlice(w)
    <2>. DEFINE next == [v EXCEPT !.at = "finished"]
    <2>1. w \notin Owing /\ UNCHANGED <<faults, settled>> /\ v.stage \in Stages
      BY <1>3 DEF FinishSlice, Owing, written, TInv, GoodWorker, WorkerOK
    <2>2. CASE SameLedger /\ Go(w, At("idle"))
      BY <1>1, <2>1, <2>2, NothingHandedIn DEF SameLedger
    <2>3. CASE FinishAttempt(v.stage, v.attempt, v.outcome) /\ Go(w, next)
      <3>1. worker'[w] = next /\ next.at = "finished" /\ next.stage = v.stage
            /\ next.attempt = v.attempt
        BY <1>0, <2>3 DEF Go, TInv, WorkerState
      <3>2. ASSUME NEW id, id = mine PROVE Due(id)'
        BY <3>1, <3>2 DEF Due, Owing
      <3>3. ASSUME NEW id, id \in Unpaid', id # mine PROVE id \in Unpaid
        <4>1. /\ attempts \in [Stages -> Seq(AttemptRow)] /\ v.attempt \in DOMAIN attempts[v.stage]
              /\ attempts' = [attempts EXCEPT ![v.stage] = [attempts[v.stage] EXCEPT ![v.attempt] =
                                [status |-> SettledAttempt(v.outcome), lease |-> "over"]]]
          BY <2>3 DEF FinishAttempt, IsLive, IsOpen, TypeOK
        <4>2. PICK s \in Stages : \E n \in DOMAIN attempts'[s] : id = <<s, n>>
          BY <3>3 DEF Unpaid
        <4>3. PICK n \in DOMAIN attempts'[s] : id = <<s, n>>
          BY <4>2
        <4>4. n \in DOMAIN attempts[s] /\ (s # v.stage \/ n # v.attempt)
          BY <2>1, <3>3, <4>1, <4>3
        <4>5. attempts'[s][n] = attempts[s][n]
          BY <2>1, <4>1, <4>4
        <4>6. attempts'[s][n].status \in {"completed", "failed"} /\ id \notin settled
          BY <2>1, <3>3, <4>3 DEF Unpaid
        <4>. QED
          BY <4>3, <4>4, <4>5, <4>6 DEF Unpaid
      <3>4. ASSUME NEW id, Due(id) PROVE Due(id)'
        BY <2>1, <2>3, <3>4, DueStays
      <3>5. \A id : id \in Unpaid' => Due(id)' \/ (id \in Unpaid /\ ~Due(id))
        <4>. SUFFICES ASSUME NEW id, id \in Unpaid', ~Due(id)' PROVE id \in Unpaid /\ ~Due(id)
          OBVIOUS
        <4>1. id # mine
          BY <3>2
        <4>. QED
          BY <3>3, <3>4, <4>1
      <3>. QED
        BY <2>1, <3>5, LossKept
    <2>. QED
      BY <1>3, <2>2, <2>3 DEF FinishSlice
  \* the charge, and what may become of it
  <1>4. ASSUME Charge(w) \/ ChargeFails(w) \/ Die(w)
        PROVE  /\ Unpaid' \subseteq Unpaid
               /\ \A id : Due(id) => Due(id)' \/ id = mine
    <2>1. UNCHANGED attempts /\ settled \subseteq settled'
      BY <1>4 DEF Charge, ChargeFails, Die, SameLedger, Commit, written
    <2>2. Unpaid' \subseteq Unpaid
      BY <2>1 DEF Unpaid
    <2>3. \E next : Go(w, next)
      BY <1>4 DEF Charge, ChargeFails, Die
    <2>. QED
      BY <2>2, <2>3, DueStays
  <1>5. CASE Charge(w)
    <2>1. mine \in settled' /\ UNCHANGED faults
      BY <1>5 DEF Charge, Commit, written
    <2>2. mine \notin Unpaid'
      BY <2>1 DEF Unpaid
    <2>. QED
      BY <1>4, <1>5, <2>1, <2>2, LossKept
  <1>6. CASE ChargeFails(w) \/ Die(w)
    <2>1. Fault
      BY <1>6 DEF ChargeFails, Die
    <2>. QED
      BY <1>4, <1>6, <2>1, LossGrows
  <1>. QED
    BY <1>2, <1>3, <1>5, <1>6 DEF Step

\* However many workers, stages and slices there are, and however they race, what
\* is handed in and not charged is about to be or was lost to a fault of its own.
THEOREM EverySliceIsPaid == SSpec => []HandedInIsCharged
  <1>1. SInit => LossInv
    <2>. SUFFICES ASSUME SInit PROVE LossInv
      OBVIOUS
    <2>1. Unpaid = {}
      BY DEF SInit, Init, Unpaid
    <2>2. IsFiniteSet({}) /\ Cardinality({}) <= faults
      BY FS_EmptySet DEF SInit
    <2>. QED
      BY <2>1, <2>2 DEF LossInv
  <1>2. IInv /\ TInv /\ LossInv /\ [SNext]_svars => LossInv'
    <2>. SUFFICES ASSUME TypeOK, TInv, LossInv, [SNext]_svars PROVE LossInv'
      BY DEF IInv
    <2>1. ASSUME UNCHANGED <<worker, faults>>, Unpaid' \subseteq Unpaid PROVE LossInv'
      <3>1. \A id : Due(id) <=> Due(id)'
        BY <2>1 DEF Due, Owing
      <3>. QED
        BY <2>1, <3>1, LossKept
    <2>2. CASE \/ UNCHANGED svars \/ SetBudget \/ QueueRun \/ \E s \in Stages : Wake(s)
               \/ \E s \in Stages : \E n \in DOMAIN attempts[s] : RunOut(s, n)
      <3>1. UNCHANGED <<worker, faults, settled>>
        BY <2>2 DEF svars, SetBudget, QueueRun, Wake, RunOut, written
      <3>2. \/ UNCHANGED attempts
            \/ \E s \in Stages : \E n \in DOMAIN attempts[s] : LeaseExpires(s, n)
        BY <2>2 DEF svars, SetBudget, QueueRun, TransitionRun, SameLedger, Wake, DelayElapses, RunOut
      <3>. QED
        BY <2>1, <3>1, <3>2, NothingHandedIn
    <2>. QED
      BY <2>2, LossStep DEF SNext
  <1>3. TInv /\ LossInv => HandedInIsCharged
    <2>. SUFFICES ASSUME TInv, LossInv PROVE HandedInIsCharged
      OBVIOUS
    <2>1. PICK lost : /\ IsFiniteSet(lost) /\ Cardinality(lost) <= faults
                      /\ \A id \in Unpaid : id \in lost \/ Due(id)
      BY DEF LossInv
    <2>. DEFINE due == [w \in Owing |-> <<worker[w].stage, worker[w].attempt>>]
                dues == {due[w] : w \in Owing}
    <2>2. IsFiniteSet(Owing) /\ Cardinality(Owing) \in Nat
      BY WorkersAssumption, FS_Subset, FS_CardinalityType DEF WorkersAssumption, Owing
    <2>3. due \in Surjection(Owing, dues)
      BY DEF Surjection
    <2>4. IsFiniteSet(dues) /\ Cardinality(dues) <= Cardinality(Owing)
      BY <2>2, <2>3, FS_Surjection
    <2>5. Unpaid \subseteq lost \cup dues
      BY <2>1 DEF Due
    <2>. HIDE DEF dues
    <2>6. /\ IsFiniteSet(lost \cup dues)
          /\ Cardinality(lost \cup dues) =
                Cardinality(lost) + Cardinality(dues) - Cardinality(lost \cap dues)
      BY <2>1, <2>4, FS_Union
    <2>7. /\ Cardinality(lost) \in Nat /\ Cardinality(dues) \in Nat
          /\ Cardinality(lost \cap dues) \in Nat
      BY <2>1, <2>4, FS_CardinalityType, FS_Subset
    <2>8. IsFiniteSet(Unpaid) /\ Cardinality(Unpaid) <= Cardinality(lost \cup dues)
      BY <2>5, <2>6, FS_Subset
    <2>9. Cardinality(Unpaid) \in Nat /\ Cardinality(lost \cup dues) \in Nat
      BY <2>6, <2>8, FS_CardinalityType
    <2>10. faults \in Nat
      BY WorkersAssumption DEF TInv, STypeOK, WorkersAssumption
    <2>. QED
      BY <2>1, <2>2, <2>4, <2>6, <2>7, <2>8, <2>9, <2>10 DEF HandedInIsCharged
  <1>. QED
    BY <1>1, <1>2, <1>3, SInvariance, PTL DEF SSpec

-----------------------------------------------------------------------------
(* What slices inherit from the ledger. *)

\* Slices that charge, checkpoint, stop and die in between still implement the
\* board, and what they handed in stands.
THEOREM SlicesImplementTheBoard == SSpec => ImplementsBoard /\ ResultsStand /\ HistoryStands
  BY SlicesKeepTheLedger, LedgerImplementsBoard, LedgerResultsStand, AttemptsAreHistory, PTL
     DEF SliceKeepsLedger

\* Workers that race, stall and die between the transactions of a slice leave one
\* holder to a stage, nothing running without one, and both counters right.
THEOREM SlicedRunsAreSafe ==
    SSpec => [](HeldIffRunning /\ StartsAfterDependencies /\ CountersAreRight)
  BY SlicesKeepTheLedger, StagesAndAttemptsAgree, EdgesAreRespected, CountersAgree, PTL
     DEF SliceKeepsLedger

\* What is charged and what was handed in are the same slices, but for those in
\* flight and those lost to faults (finish_attempt, checkpoint_stage_budget).
THEOREM ChargesMatch == SSpec => []ChargesMatchSlices
  BY OnlyHandedInIsCharged, EverySliceIsPaid, PTL DEF ChargesMatchSlices
=================================================================================
