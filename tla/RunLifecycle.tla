------------------------------ MODULE RunLifecycle ------------------------------
(***************************************************************************)
(* Who drives a run to its end: the request that started it, the polls of  *)
(* the page that shows it, the scheduler ticks, and the people who answer, *)
(* pause and cancel (lib/runtime/executor.ts, worker.ts, poll-nudge.ts,    *)
(* recovery.ts and the routes that call them).                             *)
(*                                                                         *)
(* The ledger of StageEngine is shared by all drivers.  A driver is a      *)
(* process: it reads, and writes later what it decided, and any other      *)
(* driver may move in between.  Every write is an action of the ledger,    *)
(* which LSpec => Spec says and RunLifecycleProofs proves.                 *)
(*                                                                         *)
(* Left out: budgets (SliceCommit), missions of more than one capability,  *)
(* waits on the outside world, and heartbeats, which here only mean that a *)
(* lease need not expire.                                                  *)
(***************************************************************************)
EXTENDS StageEngine

CONSTANTS
    Requests,    \* executeRuntimeRun processes (one per run)
    Pollers,     \* clients with the run's page open: polls and the cancel button
    Ticks,       \* scheduler ticks
    Gated,       \* stages whose tool needs an approval
    Acts,        \* what people and clocks do to the run in this instance
    DiesAt,      \* the points at which a driver may die
    MaxCrashes   \* the bound on how often one does

Drivers == Requests \cup Pollers \cup Ticks

ASSUME DriversAssumption ==
    /\ Requests \cap Pollers = {} /\ Requests \cap Ticks = {} /\ Pollers \cap Ticks = {}
    /\ Gated \subseteq Stages /\ (Gated # {} => "WAITING_APPROVAL" \in Outcomes)
    /\ Acts \subseteq {"approve", "reject", "expire", "pause", "cancel"}
    /\ MaxCrashes \in Nat

VARIABLES
    approval,  \* the newest row of osirus.approvals of each stage's tool call
    driver,    \* where each driver is and what it read
    crashes    \* how often a driver died

lvars == <<run, stage, attempts, claims, settling, approval, driver, crashes>>

\* "requested" past its expires_at is "lapsed"; a decision past it is "none".
ApprovalStatus == {"none", "requested", "lapsed", "approved", "rejected"}

Points == {"away", "gone", "queueing", "starting", "started", "rescue",
           "nudging", "loop", "claiming", "granted", "asking", "ready", "parking",
           "recovering", "finalize", "decide", "releasing", "closing", "ending",
           "settling", "committing"}

At(point) == [at |-> point, stage |-> "", attempt |-> 0, probe |-> FALSE, to |-> "", saw |-> ""]

\* Where a driver ends: a request for good, a poll or a tick until the next one.
Home(d) == At(IF d \in Requests THEN "gone" ELSE "away")

\* What a thrown error reaches: the catch of executeRuntimeRun, or a caller
\* that swallows it.
Thrown(d) == IF d \in Requests THEN At("rescue") ELSE Home(d)

Go(d, next) == driver' = [driver EXCEPT ![d] = next]

LInit ==
    /\ Init
    /\ approval = [s \in Stages |-> "none"]
    /\ driver = [d \in Drivers |-> At(IF d \in Requests THEN "queueing" ELSE "away")]
    /\ crashes = 0

SameLedger == UNCHANGED <<run, stage, attempts, claims, settling>>
SameRest == UNCHANGED <<approval, crashes>>

-----------------------------------------------------------------------------
\* executeRuntimeRun: queue the planned run, start it, drive it.

\* The end of planRuntimeRun.
QueueRun(d) ==
    /\ driver[d].at = "queueing" /\ RunUnlocked /\ SameRest
    /\ IF CanTransitionRun(run.status, "queued")
       THEN TransitionRun("queued") /\ Go(d, At("starting"))
       ELSE SameLedger /\ Go(d, Thrown(d))

\* transitionRun("running"): the read, and the compare-and-set against it.
ReadBeforeStart(d) ==
    /\ driver[d].at = "starting"
    /\ Go(d, IF CanTransitionRun(run.status, "running")
             THEN [At("started") EXCEPT !.saw = run.status] ELSE Thrown(d))
    /\ SameLedger /\ SameRest

StartRun(d) ==
    /\ driver[d].at = "started" /\ RunUnlocked /\ SameRest
    /\ IF run.status = driver[d].saw
       THEN TransitionRun("running") /\ Go(d, At("loop"))
       ELSE SameLedger /\ Go(d, Thrown(d))

\* The catch.  A pause leaves the run alone; cancel_requested never stands on
\* an open run that is not 'cancelling', so the catch need not request again.
Rescue(d) ==
    /\ driver[d].at = "rescue"
    /\ \/ /\ run.status \in TerminalRun \/ run.paused
          /\ Go(d, Home(d))
       \/ /\ run.status \notin TerminalRun
          /\ Go(d, [At("ending") EXCEPT !.saw = run.status,
                       !.to = IF run.status = "cancelling" THEN "cancelled" ELSE "failed"])
    /\ SameLedger /\ SameRest

-----------------------------------------------------------------------------
\* driveSlices.

\* Before each claim: paused, aborted, or past the deadline.  A poll and a
\* tick come here with time for one claim at least; AfterSlice ends the loop
\* of the others.
LeaveLoop(d) ==
    /\ driver[d].at = "loop"
    /\ run.paused \/ d \in Requests
    /\ Go(d, At("finalize"))
    /\ SameLedger /\ SameRest

\* The cancellation watcher, which only a request has, looks now and then.
Aborted(d) ==
    /\ driver[d].at = "finalize" /\ d \in Requests /\ run.cancelRequested
    /\ Go(d, At("rescue"))
    /\ SameLedger /\ SameRest

ClaimNext(d) ==
    /\ driver[d].at = "loop" /\ ~run.paused /\ SameRest
    /\ \/ \E s \in Stages : ClaimPick(s) /\ Go(d, [At("claiming") EXCEPT !.stage = s])
       \/ ClaimNothing /\ Go(d, At("finalize"))

FinishClaim(d) ==
    LET s == driver[d].stage IN
    /\ driver[d].at = "claiming" /\ SameRest
    /\ \/ /\ ClaimGrant(s)
          /\ Go(d, [driver[d] EXCEPT !.at = "granted", !.attempt = Len(attempts[s]) + 1])
       \/ /\ ClaimExhausted(s)
          /\ Go(d, IF driver[d].probe THEN Home(d) ELSE At("finalize"))

\* executeClaimedStage, up to the arm: startIfQueued.
BeginStage(d) ==
    /\ driver[d].at = "granted" /\ RunUnlocked /\ SameRest
    /\ IF run.status \in {"queued", "waiting_for_approval"} THEN StartIfQueued ELSE SameLedger
    /\ Go(d, [driver[d] EXCEPT !.at = IF driver[d].stage \in Gated THEN "asking" ELSE "ready"])

\* databaseApprovalGate: a decision is the answer, an undecided request is
\* pending, and anything else is filed afresh.  Closing one that lapsed is best
\* effort, and so is filing.
AskGate(d) ==
    LET s == driver[d].stage IN
    /\ driver[d].at = "asking"
    /\ \/ /\ approval[s] \in {"approved", "rejected"}
          /\ Go(d, [driver[d] EXCEPT !.at = "ready"])
          /\ UNCHANGED approval
       \/ /\ approval[s] \notin {"approved", "rejected"}
          /\ Go(d, [driver[d] EXCEPT !.at = "parking"])
          /\ \/ approval[s] = "requested" /\ UNCHANGED approval
             \/ approval[s] # "requested" /\ \E filed \in {"requested", "none", approval[s]} :
                   approval' = [approval EXCEPT ![s] = filed]
    /\ SameLedger /\ UNCHANGED crashes

\* driveSlices stops at a refused write and at a final failure; any settled
\* slice may be the last one before the deadline.  The probe of a tick is
\* settled outside the loop, which then starts whatever became of it.
AfterSlice(d, outcome) ==
    IF driver[d].probe THEN {At("loop")}
    ELSE {At("finalize")} \cup IF outcome = "FAILED_FINAL" THEN {} ELSE {At("loop")}

SettleSlice(d) ==
    LET s == driver[d].stage
        n == driver[d].attempt IN
    /\ driver[d].at \in {"ready", "parking"} /\ SameRest
    /\ \/ \E outcome \in IF driver[d].at = "parking" THEN {"WAITING_APPROVAL"}
                                                    ELSE Outcomes \ Waiting :
             /\ FinishAttempt(s, n, outcome)
             /\ \E next \in AfterSlice(d, outcome) : Go(d, next)
       \/ /\ ~IsLive(s, n)
          /\ SameLedger
          /\ Go(d, IF driver[d].probe THEN At("loop") ELSE At("finalize"))

-----------------------------------------------------------------------------
\* finalizeRun: read the stages, then the run, then write.

\* Mutant: a failed stage is taken for a settled one.
ProgressIgnoringFailure ==
    IF \A s \in Stages : stage[s].status \in TerminalStage THEN "completed"
    ELSE IF \E s \in Stages : WaitsOnPerson(s) THEN "waiting_for_approval"
    ELSE ""

\* Mutant: the stages' word is used for the run.
ProgressAsStages ==
    IF \E s \in Stages : stage[s].status = "failed" THEN "failed"
    ELSE IF \A s \in Stages : stage[s].status \in TerminalStage THEN "completed"
    ELSE IF \E s \in Stages : WaitsOnPerson(s) THEN "waiting"
    ELSE ""

\* stageProgress, as the status it asks the run to take.
Progress ==
    IF \E s \in Stages : stage[s].status = "failed" THEN "failed"
    ELSE IF \A s \in Stages : stage[s].status \in TerminalStage THEN "completed"
    ELSE IF \E s \in Stages : WaitsOnPerson(s) THEN "waiting_for_approval"
    ELSE ""

ReadProgress(d) ==
    /\ driver[d].at = "finalize"
    /\ Go(d, [At("decide") EXCEPT !.to = Progress])
    /\ SameLedger /\ SameRest

ReadRun(d) ==
    /\ driver[d].at = "decide"
    /\ Go(d, IF run.status \in TerminalRun \/ run.cancelRequested \/ driver[d].to = ""
             THEN Home(d)
             ELSE [driver[d] EXCEPT !.saw = run.status,
                      !.at = IF driver[d].to = "waiting_for_approval" THEN "releasing"
                                                                       ELSE "closing"])
    /\ SameLedger /\ SameRest

\* transitionRun.  It throws on an edge the table lacks, and when another
\* writer came between its read and its write; the run is known to have
\* changed if it is no longer what the driver saw.
CloseRun(d) ==
    LET to == driver[d].to
        caught == driver[d].at = "ending" \/ to = "waiting_for_approval" IN
    /\ driver[d].at \in {"closing", "ending"} /\ RunUnlocked /\ SameRest
    /\ \/ TransitionRun(to) /\ Go(d, Home(d))
       \/ /\ ~CanTransitionRun(run.status, to) \/ run.status # driver[d].saw
          /\ SameLedger
          /\ Go(d, IF caught THEN Home(d) ELSE Thrown(d))

\* Mutant: a release asks only whether a request was filed and decided.
OnlyDecided(s) == approval[s] \in {"approved", "rejected"}

\* releaseDecidedApprovalWaits: the stages parked on nothing a person can decide.
NothingPending(s) == approval[s] # "requested"

Released == {s \in Stages : /\ stage[s].status = "waiting" /\ stage[s].waitingOn = "approval"
                            /\ NothingPending(s)}

\* From a poll (saw = "poll") the release is followed by the nudge, from
\* finalizeRun by the transition it may have made unnecessary.
ReleaseDecided(d) ==
    /\ driver[d].at = "releasing" /\ SameRest
    /\ IF Released # {} THEN ReleaseStages(Released) ELSE SameLedger
    /\ Go(d, IF driver[d].saw = "poll" THEN At("nudging")
             ELSE IF Released # {} \/ driver[d].saw = "waiting_for_approval" THEN Home(d)
             ELSE [driver[d] EXCEPT !.at = "closing"])

-----------------------------------------------------------------------------
\* The page that shows the run.

\* Rows of every stage count here, and a lapsed one still says 'requested'.
ShowsRequest == \E s \in Stages : approval[s] \in {"requested", "lapsed"}

Poll(d) ==
    /\ d \in Pollers /\ driver[d].at = "away"
    /\ run.status \notin TerminalRun
    /\ Go(d, IF /\ run.status = "waiting_for_approval" /\ ~run.paused
                /\ ~run.cancelRequested /\ ~ShowsRequest
             THEN [At("releasing") EXCEPT !.saw = "poll"] ELSE At("nudging"))
    /\ SameLedger /\ SameRest

Drives(s) ==
    \/ stage[s].status \in {"pending", "running"}
    \/ stage[s].status = "blocked" /\ stage[s].after # "future"

\* Mutant: an attempt holds the run until somebody retires it.
NobodyOpen == OpenIds = {}

\* hasLiveAttempt, and the same condition in settleCancellationWithoutWorker.
NobodyHolds == ~AnyLive

\* pollNudge.  Callers whose nudge is "nothing" go home.
Nudge(d) ==
    LET drive == \E s \in Stages : Drives(s) IN
    /\ driver[d].at = "nudging"
    /\ Go(d, IF run.status = "cancelling" /\ NobodyHolds THEN At("settling")
             ELSE IF run.status = "cancelling" \/ run.paused \/ run.cancelRequested
                     \/ run.status \in TerminalRun \/ ~NobodyHolds THEN Home(d)
             ELSE IF drive THEN At("loop")
             ELSE IF run.status = "waiting_for_approval" THEN Home(d)
             ELSE At("finalize"))
    /\ SameLedger /\ SameRest

\* The cancel route: request, then settle if nobody holds the run.
Cancel(d) ==
    /\ "cancel" \in Acts /\ d \in Pollers /\ driver[d].at = "away"
    /\ run.status \notin TerminalRun
    /\ RequestCancellation
    /\ Go(d, At("settling")) /\ SameRest

SettleCancel(d) ==
    /\ driver[d].at = "settling" /\ RunUnlocked /\ SameRest
    /\ IF run.status = "cancelling" /\ NobodyHolds
       THEN SettleCancelBegin /\ Go(d, At("committing"))
       ELSE SameLedger /\ Go(d, Home(d))

CommitCancel(d) ==
    /\ driver[d].at = "committing" /\ SameRest
    /\ SettleCancelCommit
    /\ Go(d, Home(d))

-----------------------------------------------------------------------------
\* The scheduler tick.

\* One claim across all runs; it then drives the run it belongs to.
TickProbe(d) ==
    /\ d \in Ticks /\ driver[d].at = "away" /\ SameRest
    /\ \E s \in Stages :
          /\ ClaimPick(s)
          /\ Go(d, [At("claiming") EXCEPT !.stage = s, !.probe = TRUE])

\* Mutant: only a run that was started can be stuck.
IsStuckStarted ==
    /\ run.status = "running"
    /\ \/ \A s \in Stages : stage[s].status \in {"completed", "skipped"}
       \/ /\ \E s \in Stages : stage[s].status = "failed"
          /\ \A s \in Stages : stage[s].status # "running"

\* recoverStuckRuns.  How long the run has not moved is left open.
IsStuck ==
    /\ run.status \in {"planning", "queued", "running"}
    /\ \/ \A s \in Stages : stage[s].status \in {"completed", "skipped"}
       \/ /\ \E s \in Stages : stage[s].status = "failed"
          /\ \A s \in Stages : stage[s].status # "running"

TickRecover(d) ==
    /\ d \in Ticks /\ driver[d].at = "away" /\ IsStuck
    /\ Go(d, At(IF run.status = "queued" THEN "recovering" ELSE "finalize"))
    /\ SameLedger /\ SameRest

StartRecovered(d) ==
    /\ driver[d].at = "recovering" /\ RunUnlocked /\ SameRest
    /\ IF run.status \in {"queued", "waiting_for_approval"} THEN StartIfQueued ELSE SameLedger
    /\ Go(d, At("finalize"))

-----------------------------------------------------------------------------
\* People and clocks.

\* Mutant: the decision moves its stage whether or not it has parked.
AnswerUnparked(s, decision) ==
    /\ (IF decision = "approved" THEN "approve" ELSE "reject") \in Acts
    /\ approval[s] = "requested"
    /\ ResolveAnyStage(s, decision)
    /\ approval' = [approval EXCEPT ![s] = decision]
    /\ UNCHANGED <<driver, crashes>>

\* resolveApproval; an expired request is not decidable.
Answer(s, decision) ==
    /\ (IF decision = "approved" THEN "approve" ELSE "reject") \in Acts
    /\ approval[s] = "requested"
    /\ ResolveStage(s, decision)
    /\ approval' = [approval EXCEPT ![s] = decision]
    /\ UNCHANGED <<driver, crashes>>

Expire(s) ==
    /\ "expire" \in Acts
    /\ approval[s] \in {"requested", "approved", "rejected"}
    /\ approval' = [approval EXCEPT ![s] = IF @ = "requested" THEN "lapsed" ELSE "none"]
    /\ SameLedger /\ UNCHANGED <<driver, crashes>>

Pause(paused) ==
    /\ "pause" \in Acts
    /\ SetCodingPaused(paused)
    /\ UNCHANGED <<approval, driver, crashes>>

\* A killed process.  A statement already sent completes without its caller,
\* so nobody dies between the two halves of one.
Die(d) ==
    /\ driver[d].at \in DiesAt \ {"away", "gone", "claiming", "committing"}
    /\ crashes < MaxCrashes
    /\ crashes' = crashes + 1
    /\ Go(d, Home(d))
    /\ SameLedger /\ UNCHANGED approval

Holds(d, s, n) ==
    /\ driver[d].at \in {"granted", "asking", "ready", "parking"}
    /\ driver[d].stage = s /\ driver[d].attempt = n
Abandoned(s, n) == \A d \in Drivers : ~Holds(d, s, n)

\* A lease runs out under a dead holder, or under one that stalls.
RunOut(s, n) == LeaseExpires(s, n) /\ UNCHANGED <<approval, driver, crashes>>

Wake(s) == DelayElapses(s) /\ UNCHANGED <<approval, driver, crashes>>

-----------------------------------------------------------------------------
Step(d) ==
    \/ QueueRun(d) \/ ReadBeforeStart(d) \/ StartRun(d) \/ Rescue(d)
    \/ LeaveLoop(d) \/ Aborted(d) \/ ClaimNext(d) \/ FinishClaim(d) \/ BeginStage(d)
    \/ AskGate(d) \/ SettleSlice(d)
    \/ ReadProgress(d) \/ ReadRun(d) \/ CloseRun(d) \/ ReleaseDecided(d)
    \/ Nudge(d) \/ SettleCancel(d) \/ CommitCancel(d) \/ StartRecovered(d)

LNext ==
    \/ \E d \in Drivers : Step(d) \/ Poll(d) \/ Cancel(d) \/ TickProbe(d) \/ TickRecover(d) \/ Die(d)
    \/ \E s \in Stages : Expire(s) \/ Wake(s)
    \/ \E s \in Stages : \E decision \in {"approved", "rejected"} : Answer(s, decision)
    \/ \E paused \in BOOLEAN : Pause(paused)
    \/ \E s \in Stages : \E n \in DOMAIN attempts[s] : RunOut(s, n)

LSpec == LInit /\ [][LNext]_lvars

\* A live process keeps going, an abandoned lease and a delay run out, and
\* clients keep polling, or ticks keep coming.
Progressing ==
    /\ \A d \in Drivers : WF_lvars(Step(d))
    /\ \A s \in Stages : WF_lvars(Wake(s))
    /\ \A s \in Stages : WF_lvars(\E n \in DOMAIN attempts[s] : Abandoned(s, n) /\ RunOut(s, n))
Polled == \A d \in Pollers : WF_lvars(Poll(d))
Ticking == \A d \in Ticks : WF_lvars(TickProbe(d)) /\ WF_lvars(TickRecover(d))

PolledSpec == LSpec /\ Progressing /\ Polled
TickedSpec == LSpec /\ Progressing /\ Ticking
WatchedSpec == LSpec /\ Progressing /\ Polled /\ Ticking

-----------------------------------------------------------------------------
(* Properties *)

DriverState == [at : Points, stage : Stages \cup {""}, attempt : Nat, probe : BOOLEAN,
                to : {"", "completed", "failed", "cancelled", "waiting_for_approval"},
                saw : RunStatus \cup {"", "poll"}]

LTypeOK ==
    /\ approval \in [Stages -> ApprovalStatus]
    /\ driver \in [Drivers -> DriverState]
    /\ crashes \in 0..MaxCrashes

\* Every write of every driver is one the ledger allows, in the order it
\* allows: what StageEngine shows of its runs and stages holds here.
KeepsLedger == Spec

\* The run is completed only when nothing of it is open or failed, although
\* finalizeRun reads the stages long before it writes the run (worker.ts:
\* "only the one that finds every stage settled may close it").
CompletedIsDone ==
    run.status = "completed" =>
        \A s \in Stages : stage[s].status \in {"completed", "skipped", "cancelled"}

Ended == run.status \in TerminalRun
PeopleAnswer == \A s \in Stages : approval[s] = "requested" ~> approval[s] # "requested"

\* However drivers race, die and stall, a run whose pauses end ends too,
\* provided the people it asks answer.
RunEnds == PeopleAnswer /\ <>[](~run.paused) => <>Ended

\* A cancellation is settled by its worker or, with none left, by the poll.
CancelEnds == run.status = "cancelling" ~> Ended

\* No stage stays parked on a request that was decided before the stage
\* parked ("Needs you" with nothing to approve, for good).
ParkedOnDecided(s) ==
    /\ stage[s].status = "waiting" /\ ~ShowsRequest
    /\ ~run.paused /\ ~run.cancelRequested /\ ~Ended
DecidedWaitIsReleased == \A s \in Stages : []<>~ParkedOnDecided(s)

\* A run whose parked stage was rejected reports it instead of waiting on.
RejectedRunIsReported ==
    (\E s \in Stages : stage[s].status = "cancelled") /\ run.status = "waiting_for_approval"
        ~> run.status # "waiting_for_approval"
=================================================================================
