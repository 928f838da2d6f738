# A verification of the Osirus durable runtime

Osirus executes a run as a graph of stages kept in PostgreSQL.  Nothing about
finishing a run depends on the process that started it: a request, the polls of
an open page and the ticks of a scheduler all claim stages from the same rows,
and any of them may stall, die, or act on something it read a minute ago.  Around
that machinery others work in the same way: agents that make calls they must not
repeat, waits for the outside world, automations that start runs, and the events
of a payment provider.  This directory models them in TLA+, model-checks them
with TLC on small instances and proves their main properties with TLAPS for every
instance.

Contents: [the system](#1-the-system), [the modules](#2-the-modules-and-the-code),
[the runs](#3-the-runs), [bounds](#4-bounds-and-why-they-are-enough),
[fairness](#5-fairness), [the proofs](#6-the-proofs),
[disagreements found](#7-where-code-and-documents-disagree),
[what is not modelled](#8-what-is-not-modelled), [the plan](#9-the-plan).

To repeat the work: `tlc -config StageEngine_ledger.cfg MCStageEngine.tla` (each
configuration belongs to the MC module named before its underscore), and
`tlapm StageEngineProofs.tla` (and the other seven `*Proofs.tla`).

## 1. The system

All paths are relative to `src/src/` unless they begin with `db/` (migrations,
under `src/`) or `docs/`.

### 1.1 Modelled, in whole or in part

**Durable stage ledger** (`db/migrations/001, 008, 022`,
`lib/runtime/{dispatch,repository,state-machine,settlement,waits}.ts`).
State: one row of `runs` (status, cancel request, pause), the `run_stages` with
their dependency edges, their two counters (`attempt_count`, `slice_count`),
their `runnable_after` and their output, and the `run_attempts` with status,
lease token and expiry.
Operations: `claim_next_stage`, `heartbeat_attempt`, `finish_attempt`, and the
repository's statements: `transitionRun`, `startIfQueued`, pause and resume,
`requestCancellation`, `settleCancellationWithoutWorker`, `resolveApproval`,
`releaseDecidedApprovalWaits`, `releaseWaits`.
Hard: every caller may be late.  A worker whose lease expired can wake up after
its stage was given away; a claim decides on a snapshot and writes under a row
lock; five statements write the run row and two of them never read it first.
Correct means: one holder per stage, only the holder moves its stage, edges are
respected, counters bound every stage, and nothing finished is reopened.

**Drivers of a run** (`lib/runtime/{executor,worker,poll-nudge,recovery}.ts`, the
runtime, cancel and tick routes).  State: none that lasts — each driver keeps
what it read until it writes.  Operations: plan and queue, start, claim and
settle in a loop, `finalizeRun`, the decision of a poll what to nudge, a tick's
probe and its recovery of stuck runs, the catch of a request.
Interaction: only through the ledger.
Hard: every decision is a read followed by a write, with other drivers in
between; a driver may die at any point; nobody is in charge.
Correct means: drivers write only what the ledger allows, a run marked completed
is done, a failed run has a failed stage, and every run ends.

**Commit of a slice** (`lib/runtime/worker.ts`: `executeClaimedStage`,
`driveSlices`; `lib/arms/base.ts`; `db/migrations/008, 015`).
State: the newest checkpoint with the saved agent loop, the settlements, the
run's budget row.
Operations: load the checkpoint, run the arm, hand the stage in, and charge the
budget together with the new checkpoint.
Hard: these are separate transactions, the stage is claimable after the first of
them, and an error of the second is swallowed.
Correct means: charged once and only for accepted work, no checkpoint ahead of
its charge, a bounded overshoot of the ceiling, no lost and no repeated work.

**Approval gate of tools** (`lib/tools/runtime.ts`: `databaseApprovalGate`).
State: `approvals` rows.  Operations: look for a decision, report pending, file a
request (best effort).
Hard: a request may be decided, or expire, before its stage parks on it.

**Agent loop** (`lib/agent/loop.ts`: `runAgentLoop`; `lib/arms/base.ts`:
`loopAnswer`).  State: steps, model calls, tool calls, the log of calls by hash,
and the call that waits for an approval, in memory during a slice and in the
checkpoint between two.
Operations: one round after the other — a decision of the model, or the replay of
an approved call; a repetition is refused, a call is charged, gated, made, noted.
Hard: a pause, the deadline or a crash may hit at any point; some counts are
refunded, some lost; the model will decide on the same call again.  The loop is
deleted before its answer is delivered, and a stage that fails there begins anew.
Correct means: the bounds of a loop hold across slices, and a change is made once
unless the record of it was lost, with a slice or with the loop.

**Action ledger and missions** (`lib/tools/registry.ts`: `invoke`;
`lib/arms/horizon-runtime.ts`; `lib/agent/long-horizon.ts`;
`lib/runtime/missions.ts`).  State: one versioned mission row per run, with an
intent, done or failed entry per external action.
Operations: look the action up, ask the gate, announce it, call, close the entry;
each write is a load and a compare-and-set, five times at most.
Hard: other slices of the run, zombies among them, change the same row; every
failure of it is swallowed.
Correct means: no call goes out unannounced, and none is repeated without a
reason in the ledger.

**Waits and webhook deliveries** (`app/api/hooks/[endpointId]/route.ts`,
`lib/webhooks/store.ts`, `lib/runtime/waits.ts`, `lib/agent/long-horizon.ts`,
`lib/arms/horizon-runtime.ts`).  State: the recorded deliveries, the wait in the
stage's output and the one in its checkpoint.
Operations: record a delivery and release the stages it satisfies; open a wait,
park on it, come due, look at the record, end the wait.
Hard: a delivery comes before, between and after the writes of parking; either
side may fail halfway; senders repeat.
Correct means: no wake-up is lost for good, nothing recorded is overlooked, and
every wait ends.

**Automations** (`lib/automations/{store,schedule}.ts`, `prepareRuntimeRun` of
`lib/runtime/executor.ts`).  State: the automations with `next_run_at` and their
last run, and the runs with the request id of their slot.
Operations: create, switch, delete, start by hand; start what is due; start what
a completed run or a delivery triggers; report a run's end.
Hard: a start is six writes with nothing around them, and ticks, finalizers and
people start at the same time.
Correct means: a slot is planned once, the window that is due is not left behind
without its run, no automation triggers another, and a broken one stops nobody.

**Subscriptions** (`lib/billing/{webhook,store}.ts`, the billing routes).  State:
claimed events, customers, and the subscription row with the second it is of.
Operations: claim, read Stripe's current truth, find the user, write the row if
it is not newer, give the claim back on failure; save a customer.
Hard: events come late, twice, out of order and at once.
Correct means: the row shows every event that was answered as handled, and every
event is handled in the end.

### 1.2 Not modelled

| Component | State and operations | Hard behaviour | What would make it correct |
|---|---|---|---|
| Agent arms, decisions, watchdog (`lib/arms/`, `lib/agent/`) | what a model decides; finish gate, progress scores | none of protocol | the gate's and the watchdog's rules, case by case |
| Scheduler chain, research planes (tick route, `lib/runtime/background*.ts`, `lib/intelligence/`) | a chain counter; phase cursors under leases of their own | which tick starts the next | parked work is reached again |
| Planning and graph building (`lib/runtime/{graph,router-v2}.ts`, `lib/agent/plan.ts`, `lib/pipelines/`) | none; produces stages and edges | a cycle or a missing edge | the graph is acyclic and closed |
| Quotas and entitlements (`lib/entitlements/`, `lib/billing/`) | rolling windows over recorded usage | check before a concurrent use | windows count right |
| Model pool and capacity (`lib/models/`, `lib/gateway/`) | per-process cooldowns and slots | admission at capacity | no starvation |
| Verification engine (`lib/verification/`) | none; arbitration over results is pure | precedence of the rules | its stated rules on every input |
| Memory, skills, research and building services | content | none of protocol | — |
| Tenancy, authentication, connectors | RLS policies, sealed secrets | configuration | — |
| Web interface | a projection of the ledger; its polls and buttons are drivers of `RunLifecycle` | — | — |
| AI lab, evaluations, scripts, deployment | offline tools | — | — |

`PROJECT.json` lists the same components with their sources, and under
`hazards` each hard behaviour at its line, with the properties that cover it or
the reason none does.

## 2. The modules and the code

```
RunStateMachine   Settlement          the transition tables; outcome -> row
        \          /
        StageEngine  ----implements----> StageBoard
         |       |
RunLifecycle   SliceCommit            each implements StageEngine's Spec

AgentLoop                             inside a slice: the loop
ActionLedger  --implements-->  ActionBook          and one external call of it
EventWaits    --implements-->  StageBoard          a parked stage, and what ends its wait
Automations                           what starts runs
Subscriptions --implements-->  SubscriptionMirror  what is paid for
```

`RunStateMachine` holds the two tables of `state-machine.ts`, and `Settlement`
the mapping of `settlement.ts` from what an arm reports to what `finish_attempt`
is called with.  Both are plain operators.

**`StageEngine`** is the ledger.  It leaves its callers open: any action may
happen whenever its guard holds, so what it shows holds for every caller.

| Variable | Code |
|---|---|
| `run` | the row of `runs`: status, `cancel_requested`, the pause flag |
| `stage` | the rows of `run_stages`; `after` is `runnable_after` (none, in the future, due), `waitingOn` what a parked stage waits for |
| `attempts` | per stage, its `run_attempts` in the order of `attempt_number`; `lease` says whether `lease_expires_at` has come |
| `claims` | stages whose row a `claim_next_stage` has locked and not yet written |
| `settling` | a `settleCancellationWithoutWorker` that took its snapshot and has not yet written |

| Actions | Code |
|---|---|
| `ClaimPick`, `ClaimGrant`, `ClaimExhausted`, `ClaimNothing` | `claim_next_stage` of migration 022: reap, pick under `FOR UPDATE SKIP LOCKED`, then grant or fail the stage at its ceiling |
| `HeartbeatAttempt`, `FinishAttempt` | `heartbeat_attempt`, `finish_attempt`, both fenced on token, status and lease |
| `TransitionRun`, `StartIfQueued`, `SetCodingPaused`, `RequestCancellation` | the repository statements of those names |
| `SettleCancelBegin`, `SettleCancelCommit` | `settleCancellationWithoutWorker` |
| `ResolveStage`, `ReleaseStages`, `WebhookRelease` | `resolveApproval`, `releaseDecidedApprovalWaits`, `releaseWaits` |
| `LeaseExpires`, `DelayElapses` | the clock |

One SQL statement is one step, at READ COMMITTED, the client's isolation.  Two
statements decide on a snapshot and write later, so they are two steps each: the
claim and the settlement of a cancellation.  A lease token is minted per claim,
so an attempt `<<s, n>>` stands for its token.

**`StageBoard`** is the abstract specification: stages on a board, taken when
idle and unblocked, handed in, lost, given up or dropped, without leases,
attempts, ceilings, waits or locks.  `StageEngine!ImplementsBoard` is the
refinement under the mapping `Phase` and `epoch = Len(attempts)`.  Its action
`Overrun` states openly what the code permits: a cancellation may close a stage
under a holder, which then still hands in its result.  `EventWaits` has a stage
of its own, and implements the same board.

**`RunLifecycle`** adds the drivers.  `driver[d]` is where a process is and what
it read; every action either reads and remembers, or performs one ledger action.
`QueueRun` … `Rescue` are `executeRuntimeRun`; `ClaimNext` … `SettleSlice` are
`driveSlices` and `executeClaimedStage`; `ReadProgress`, `ReadRun`,
`ReleaseDecided`, `CloseRun` are `finalizeRun` in its order of reads and writes;
`Poll`, `Nudge`, `Cancel`, `SettleCancel` are the runtime and cancel routes;
`TickProbe`, `TickRecover`, `StartRecovered` the scheduler; `Answer`, `Expire`,
`Pause` people and their deadlines; `Die` a killed process.  `AskGate` is the
approval gate, with the best-effort filing that may leave no request behind.

**`SliceCommit`** follows one slice: `Claim`, `FinishClaim`, `BeginStage`,
`LoadCheckpoint`, `RunArm`, `FinishSlice`, `Charge`, each a transaction of its
own.  `ArmResults` says which loop an outcome leaves to be saved and how many
calls it noted (`base.ts`).  `ChargeFails` is the swallowed error, before or
after the commit.  `SetBudget` and `QueueRun` are the end of `planRuntimeRun`:
the stages are claimable before their ceilings exist.

Both of the last two say `KeepsLedger` / `SliceKeepsLedger`: seen through the
ledger's variables they are behaviours of `StageEngine!Spec`.  That is proved
(section 6), so every theorem about the ledger holds of them.

**`AgentLoop`** is one stage's loop over all its slices.  `loop` is the
`LoopState` in memory and `saved` the one in the checkpoint; `streak` is
`consecutiveFailures`, which each slice starts anew; `call`, `abort`, `decided`
are the call in progress, the slice's signal, and what people answered.
`Resume` begins a slice; `StopAborted`, `Exhaust`, `OutOfTime`, `Replay`, `Ask`
are the top of a round in the order of the code; `AskPaused`, `Refused`,
`BadDecision`, `OtherStep`, `Park`, `Finish`, `UseTool` what came back from the
model; `HoldCall`, `Invoke`, `NeedsApproval`, `CallSucceeds`, `CallFails`,
`CallPaused`, `CallLeavesTask` the call.  A loop that finished or is exhausted has
`ended`: `loopAnswer` has deleted its state (`base.ts:1142`) and still reviews,
streams and stores the answer.  `Deliver` is the rest of it.  `StartOver` is a
throw there, or a loop that was not exhausted and has no answer: the worker
reports a retryable failure, or a transient refusal, and checkpoints the state
without a loop (`worker.ts:326`, `407`), so that the next attempt starts from
`EmptyState`.  A worker that dies there instead leaves the older checkpoint
(`Crash`).  A permanent refusal and a call that leaves the task fail for good
before the deletion (`FailForGood`).  `Abort`, `Crash` and `Decide` come from
outside.  `happened` and `unrecorded` count what the world saw, which the code
cannot; no guard reads them.

**`ActionLedger`** is one external call of `invoke` under the mission's ledger,
in as many slices at once as there are.  `slice[s]` holds what its lookup found
and the row `updateMission` loaded.  `Begin`, `BeginBare` attach the ledger or
fail to; `Invoke`, `InvokeBlind` look up; `Approved`, `NotApproved` are the gate;
`Load`, `Save`, `SaveConflicts`, `UpdateFails` are `updateMission`; `Note` stands
for every other change of the mission; `Call` for `tool.run` and its end; `End`
and `Die` end the slice.  `calls`, `effects`, `failures`, `over` and `noted`
count for the properties and the bounds.

**`EventWaits`** is one stage between WAIT and wake-up.  `recorded` is
`webhook_deliveries`, `handler` what became of each release; `stage` the row with
the wait its output shows; `saved` and `mem` the wait in the checkpoint and in
the slice.  `Deliver`, `Release`, `ReleaseFails` are the route; `Claim`,
`Exhaust`, `Die` the ledger as it matters here; `Resume`, `ResumeBlind` are
`resumeStage` with its probe; `Ask`, `Park`, `Yield`, `Save`, `Complete` the
slice; `Pass` and `ComesDue` the time.

**`Automations`** has one step per write of `startAutomationRun`: `Prepare`,
`Mark` (or `MarkRefused`), `Plan`, `Queue`, `Budget`, `Record`, and `Refuse`,
`StartFails`, `Die` for what ends one early.  `Tick`, `Trigger` and `Delivery`
read a list of automations and go through it.  `mode` and `turning` are what
people did with the rows (`CreateAutomation`, `SwitchOff`, `SwitchOn` with its
second statement `SetNext`, `DeleteAutomation`, `StartByHand`).  `Settle`,
`ReportToAutomation`, `ReportLost`, `Recover` are what becomes of a run.

**`Subscriptions`** has a change at Stripe with its event (`Change`), the claim
(`Claim`, `Duplicate`, `ClaimUnanswered`), the handler (`Retrieve`, `FindUser`,
`UnknownUser`, `Upsert`) and its failures (`Fail`, which gives the claim back,
and `Abandon`, which cannot), and the customers that checkouts save and replace
(`SaveCustomer`, `ReplaceCustomer`).

Three more abstract specifications say in a page what a component promises:

- **`ActionBook`**: one entry per external action, changed in one step.  A call
  goes out with its announcement, its end is written by who has it in flight, and
  no entry is erased; an announcement over an entry that still stands is counted
  as one made in ignorance.  `ActionLedger!ImplementsBook` maps the mission row
  to the entries and a slice between its announcement and the end of its call to
  a call in flight.  Versions, loads, saves, the gate, the other updates of the
  mission and the faults are gone.
- **`StageBoard`** again, for the stage of `EventWaits` (`WaitsKeepBoard`).
- **`SubscriptionMirror`**: the truth, the row, and the changes acknowledged.  The
  row is a copy that lags, that is never put back to an earlier second, and that
  is written for a change until that change is acknowledged
  (`Subscriptions!ImplementsMirror`).  Deliveries, claims, handlers and customers
  are gone.

Some definitions come in two forms, the second introduced by a comment
`Mutant:`.  These are plausible bugs (a dropped fence, an ignored edge, an
unnoticed refusal).  They are in no specification; substituted for the real
definition each makes its property fail, which shows that the property can.

## 3. The runs

| Run | Question | Properties | Distinct states |
|---|---|---|---|
| `engine_ledger` | who holds a stage, what bounds its attempts, are edges respected, is anything reopened, is the board implemented | `TypeOK` `HeldIffRunning` `CountersAreRight` `StartsAfterDependencies` `HolderKeepsStage` `RowsFollowTables` `ImplementsBoard` | 131,752 |
| `lifecycle_polled` | a request and a polling page, people who answer, cancel and let requests lapse, one death | `LTypeOK` `CompletedIsDone` `KeepsLedger` `CancelEnds` `DecidedWaitIsReleased` | 31,179 |
| `lifecycle_ticked` | do ticks alone end a run, whatever the request and a stray poll do before they die | `RunEnds` | 52,132 |
| `slice_paid` | is exactly the accepted work charged, is every resume paid for, how far past its ceiling can a run go | `STypeOK` `ChargesMatchSlices` `CheckpointIsPaid` `OvershootIsBounded` `SliceKeepsLedger` | 622,443 |
| `loop_slices` | do the bounds of a loop hold over slices that are cut off anywhere, is a change made once, does a slice report what it used | `LoopTypeOK` `ChangesOnce` `ChargesGoForward` | 2,264,963 |
| `ledger_entries` | two slices make one external call through the ledger: is it announced, why is it repeated, is the book implemented | `ATypeOK` `CalledIsRecorded` `RepeatsAreAccounted` `ImplementsBook` | 96,963 |
| `waits_deliveries` | deliveries before, between and after the writes of parking, twice, and lost: does every wait end, and rightly, and does its stage stay on the board | `WTypeOK` `NoLostWake` `VerdictsAreJust` `WaitsEnd` `WaitsKeepBoard` | 483,649 |
| `automations_slots` | ticks and finished runs start automations at once, one of them broken, over two windows | `PlannedOnce` `BrokenDoNotStop` | 348,937 |
| `automations_hands` | people and deliveries step in between any two writes of a start | `UTypeOK` `NoLoops` `LastIsTrue` `WindowHasRun` | 982,040 |
| `billing_events` | two changes, two endpoints, two overlapping handlers, failures | `BTypeOK` `AppliedIsShown` `EventsApply` `ImplementsMirror` | 38,886 |

The runs `lifecycle_rejected` and `waits_polled` end in a counterexample;
section 7 describes them.

What the properties mean:

- `HeldIffRunning`: the attempts and the stages agree.  At most one attempt of a
  stage is open and it is the newest (`SingleHolder`); a running stage has one,
  so the reap, which looks for running stages without a live attempt, misses none
  (`RunningIsHeld`); and while the run is not cancelled an open attempt holds a
  running stage (`HolderHoldsRunning`), which fails at once when `finish_attempt`
  loses its fence.
- `HolderKeepsStage` (a step property): a stage leaves `running` under a live
  lease only by its holder's own `finish_attempt`, or by a cancellation.
- `StartsAfterDependencies`: also when a dependency is skipped, and for good.
- `CountersAreRight`: `attempt_count` is exactly the number of claims that
  followed nothing, a failure, a lost lease or a cancellation — yields cost no
  retry, a crash always does — and `slice_count` the number of attempts; both
  stay within their ceilings (`RetriesAreCounted`, `SlicesAreBounded`).
- `RowsFollowTables`: SQL that never consults the transition tables of stages
  and runs still keeps to them (`StageFollowsTable`, `RunFollowsTable`).
- `CompletedIsDone`: although `finalizeRun` reads the stages long before it
  writes the run.
- `RunEnds`, `CancelEnds`, `DecidedWaitIsReleased`: liveness (section 5).
- `ChargesMatchSlices`: what is charged and what was handed in are the same
  attempts.  No zombie spends the budget (`ChargedIsHandedIn`), and an accepted
  slice is uncharged only while its worker is about to charge it, or for a death
  or an error of its own (`HandedInIsCharged`).  `CheckpointIsPaid`: a resume never counts on top of calls nobody was charged for, whichever worker's
  late charge overwrote the newest checkpoint.
- `OvershootIsBounded`: a charge past the ceiling stops its worker and fails the
  run, so a run exceeds its ceiling by at most one slice per worker, and one
  more per death or lost answer.
- `LoopTypeOK`: the step, model-call and tool-call bounds hold across slices,
  although calls are refunded, cut off, and restored from an older checkpoint.
  They are the bounds of a `LoopState`: a stage that is begun anew after its loop
  ended has a new one, and counts from nothing.
- `ChangesOnce`: a call that changes something happens again only where the
  record of it was lost: a call cut off, a false failure, a slice without a
  checkpoint, or a loop that ended before its stage was begun anew.  Each of
  these allows one repetition of each call it lost; nothing else does.
- `ChargesGoForward` (a step property): the counts of a slice, those it hands
  back and those it ends with are no less than those it was given, although a
  refund lowers them in between.  Only after the end is the saved loop deleted.  `sliceBudgetDelta` charges the difference, so it never charges less
  than nothing and no slice takes back what an earlier one was charged.
- `CalledIsRecorded`: no later update of the mission loses an announcement, and
  a slice that has its ledger never calls unannounced.  `RepeatsAreAccounted`:
  each repetition has a failed entry or a missed lookup of its own.  That a call
  is made at most once does not hold; section 7 says how.  `ImplementsBook`: a
  compare-and-set that wins changes the one entry it is about, and nobody closes
  an entry without a call in flight.
- `NoLostWake`: a stage that stays parked has every delivery for it still to
  come, or failed.  `VerdictsAreJust`: a wait that ended unobserved had no
  delivery except those crowded out of the probe's window (`NothingOverlooked`),
  and a sender's repetition of an old delivery ends no wait (`ObservedIsNew`).
  `WaitsEnd`: every parked stage goes on.  `WaitsKeepBoard`: no release reopens a
  stage that is done or takes one from its holder.
- `PlannedOnce`: overlapping ticks and retries plan the run of a slot once.
  `BrokenDoNotStop`: whatever is due is started although another one throws.
- `WindowHasRun` (a step property): a schedule leaves the window that is due
  behind only when that window's run exists, unless a person started the
  automation by hand or switched it on.  It is about the due window alone:
  windows that come while the automation stays due are merged into the one run,
  for `nextRunAt` counts from now.
  `UTypeOK` includes that a request id is used once.
- `LastIsTrue`: the last run an automation shows is its own, and it has ended as
  the automation says, although a start writes it down long after the run was
  created and a report long after it ended.  What an automation says while its
  last run is `running` is not claimed: a retry may put that back over an end
  that was reported.
- `NoLoops`: no run of an automation that is still there starts an automation.
- `AppliedIsShown`: whatever order events are handled in, the row shows at least
  what each of them announced, up to events of one second.  `BTypeOK` includes
  that an event is at work in one handler.  `EventsApply`: each is applied,
  unless its user is unknown or its claim was abandoned.  `ImplementsMirror`: no
  write puts the row back to an earlier second, and none is made for an event
  that was answered as handled.

## 4. Bounds, and why they are enough

- **Ledger** (`StageEngine_ledger`): two stages in sequence, `a` with two
  attempts, three slices and `skip_stage`, `b` with one attempt and two slices
  and `fail_run`.  Two stages are the least in which an edge, an order and a
  second stage to release exist; the ceilings are the least at which a retry, a
  yield and both limits happen.  `attempts` grows only to `MaxSlices`, which is
  the code's own ceiling, so no other bound is needed, and `Outcomes` is everything
  an arm can report.  Any number of claims, zombies, cancellations and pauses may
  happen.  Deadlock is checked: time, cancel requests and idle claims never stop.
- **Lifecycle**: one stage, one attempt, two slices; one request, one page and,
  where it matters, one scheduler.  The races of this layer are between drivers
  over one run row; a second stage adds claims, which the ledger runs cover.
  `MaxCrashes` is at most 1 and `DiesAt` is every point after the run was queued
  (`OnceQueued`; section 7 says what a death before does).  `Acts` names what
  people do: approve, reject, expire, cancel in the polled run, pause in the
  ticked one.
- **Slices**: the two-stage chain, two workers, one model call per slice,
  `Ceiling = 0` so that the first charged slice is already over it, and
  `MaxFaults = 1`.  Each of the bounded quantities (`faults`, slices) is part of
  the bound `OvershootIsBounded` states.  Workers are interchangeable, so
  `slice_paid` uses symmetry; its properties are safety.
- **Agent loop**: a reading call, a changing one, and a changing one behind a
  gate; 4 steps, 3 model calls, 3 tool calls and 2 failures, so that each of the
  four bounds is the one that is met in some behaviour, and two faults, so that a
  slice can be aborted and the next one crash, or a loop be begun anew, twice or
  after a crash.  In the code `maxAttempts` and `maxSlices` bound both.
- **Action ledger**: two slices, which is a worker and a zombie; one gated action,
  for the others go the same way without the gate; `MaxTries = 2` where the code
  has 5, the least at which an update loses a race and wins the next, and loses
  for good; `MaxCalls = 2`, `MaxNotes = 1`, `MaxFaults = 2` bound the environment.
  Slices are interchangeable (symmetry, safety only).
- **Waits**: two deliveries of which one matches, so that one can crowd out the
  other in a probe of `Window = 1`; two waits, so that what ended one may meet
  the next; three slices; a deadline after `Patience = 2` periods, so that a poll
  comes between the WAIT and it; one repetition and one fault.
  `waits_polled` has the code's numbers: 24 periods of five minutes, 8 slices.
- **Automations**: `automations_slots` has a scheduled automation, a broken one
  and one for completed runs, two starters, lists of two, two windows and a
  fault.  `automations_hands` has one automation of each kind, of which the
  scheduled may be created later, and lets people (or a sender) act once with a
  fault anywhere: each of their acts meets each point of a start.  `MaxHands`,
  `MaxWindows` and `People` bound the environment.
- **Subscriptions**: two changes, the least that can be out of order or in one
  second; two endpoints, so that an event comes twice; two handlers, so that two
  overlap; two faults, so that the retry of what failed can fail.
- `CHECK_DEADLOCK FALSE` in the lifecycle, slice and billing configurations: a
  run that ended, with everybody away, really stops, and so does a receiver with
  nothing left to receive.

The proofs remove these bounds for every property but the liveness ones.

## 5. Fairness

`Progressing`: a driver that can take its next step takes it (a live process
keeps running; `Die` is an alternative, not a step it is forced to); a delay
elapses; a lease that nobody is working under runs out.  Leases that are being
worked under may expire too, but need not: heartbeats are at a third of the
lease.  `Polled`: the page that shows a run polls it again and again
(`GET /api/runtime/[runId]`, which the README of the repository calls the
heartbeat).  `Ticking`: the scheduler's ticks keep coming — `vercel.json` has a
daily cron as the floor.  Weak fairness is enough everywhere; nothing assumes
that a race is ever won.

`lifecycle_polled` assumes `Polled` and no ticks, `lifecycle_ticked` the ticks
and no page.  `RunEnds` has two premises of its own: people answer the requests
put to them (`PeopleAnswer`), and a paused run is not paused for ever.  Nobody is
assumed to approve, cancel, pause or resume.

`WFairSpec`: somebody claims and a slice goes on (`Slice`), which is the same
justification, and time passes (`Pass`).  Nothing is assumed of senders, of the
release of a delivery, or of how a slice ends.

`UFairSpec`: for each starter, ticks come (`Tick`) and a start that was begun
goes on (`Start`).  Runs need not end, reports need not come, and the next window
need not.

`BFairSpec`: a request that is being served goes on (`Proceed`), and a delivery
that was not answered is made again and claimed when it can be (`Claim`):
`webhook.ts` leaves retries to Stripe, which repeats what gets no 2xx.

## 6. The proofs

Eight modules, checked by TLAPS without any unproved step.  They assume only what
the modules assume of their constants: `StagesAssumption` (edges between stages,
natural ordinals, ceilings of at least one), `DriversAssumption` (a process is
of one kind; gated stages can wait), `WorkersAssumption` (natural numbers, and
finitely many workers), `LoopAssumption`, `LedgerAssumption`, `WaitsAssumption`,
`AutomationsAssumption`, `SubscriptionsAssumption` (subsets and natural numbers;
finitely many automations, since a list of them is made).  The graph, the
ceilings, the number of drivers, workers, slices, calls, deliveries, automations,
handlers and faults are arbitrary.  TLC evaluates the assumptions in the runs.

**The ledger** (`StageEngineProofs`).  No property is inductive by itself.  The
invariant `IInv` is their conjunction with three more:

- `LockedIsFree`: a stage under a claim's row lock is pending or blocked and has
  no open attempt.  Without it `ClaimGrant`, which appends an open attempt some
  time after the reap, could not be shown to keep `SingleHolder`.
- `SettledIsUnheld`: a completed, failed or skipped stage has no open attempt.
- `RetriesAreBounded`, which feeds the typing of the counters.

`NextIInv` has one step per action.  From `Invariance` follow `Typing`,
`OneHolder`, `NoStageIsForgotten`, `FenceGuardsTheStage`, `EdgesAreRespected`
and `AttemptsAreBounded`.

In its second half are the step properties.  `StagesFollowTheTable` needs in
addition that a pending stage was never tried (`PendingIsFresh`), since the table
has no edge from pending to failed and only a stage that was tried can be at its
ceiling; `HoldersKeepTheirStage` and `RunsFollowTheTable` rest on `IInv`.
`RetriesAreCountedRight` counts along the history of attempts, one claim at a
time.  `LedgerImplementsBoard` is the refinement, one lemma per action of the
board.

What the runs check is composed of these: `StagesAndAttemptsAgree`
(`HeldIffRunning`), `CountersAgree` (`CountersAreRight`), `TablesAreFollowed`
(`RowsFollowTables`).  Three results go further than a run does.
`AttemptsAreHistory`: attempts are only added, one that is over is never written
again, and no lease comes back to life.  `EndedRunsStand`: an ended run keeps its
status, since the table has no edge out of it.  And `BoardResultsStand` proves of
the board alone that how a stage ended is never changed (`ResultsStand`);
`LedgerResultsStand` has it from there, and so has everything below that
implements the board.

**The drivers** (`RunLifecycleProofs`).  `LInv` says that a driver holding a
claim has it and that what it will write is a possible target; from it every
step of a driver is a step of the ledger or leaves it alone
(`DriversKeepTheLedger`).  That carries the theorems above over to driven runs:
`DrivenRunsImplementTheBoard`, `DriversKeepResults` and `DrivenRunsAreSafe` state
it for the board, the results and the invariants.
`CompletedRunsAreDone` rests on `DoneInv`: a driver that set out to complete the
run saw every stage done, done stages stay done, and a run that was cancelled in
between has no edge to completed.

**The slices** (`SliceCommitProofs`).  `SlicesKeepTheLedger` likewise, with
`SlicesImplementTheBoard` and `SlicedRunsAreSafe` as what it carries over.
`OnlyHandedInIsCharged`: a worker between finish and charge was accepted under
its own lease (`ChargeInv`), and the ledger never takes an accepted attempt back
(`HandedInStays`).  `ResumesArePaidFor`: every loop in flight holds at most what
was paid plus what its own slice made (`PaidInv`); it survives a late charge
that overwrites a newer checkpoint, for `spent` never falls.  `CeilingHolds`:
each attempt charged past the ceiling either stopped a worker or used up a fault
(`OverInv`), which is counted with the cardinality of the stopped workers.
`EverySliceIsPaid` is the other half of `ChargesMatch`, and a statement about
two cardinalities that no step changes alike.  Its invariant `LossInv` replaces
them by a witness: there is a finite set of lost slices, no larger than the
faults, and whatever is unpaid is in it or due from a living worker.  A hand-in
adds to what is due, a charge takes from it, and a death or an error moves at
most one slice into the set (`LossGrows`).

**The agent loop** (`AgentLoopProofs`).  A refund presupposes a charge of the
same round (`Charged`), so the counters stay natural; a log says of each call it
holds that it was made (`WellLogged`, of the loop in memory and of the saved
one); and `Recorded` relates what happened to both logs: all but one occurrence
of a change is unrecorded, and the one is in the log.  A slice that leaves no
checkpoint loses the records it added (`CrashStep`), a loop that is begun anew all
of its records (`StartOverStep`), and `Lost` counts either; the saved log is part
of the one in memory until the loop's state is deleted.  `SlicesChargeForward`
rests on `Ahead`: inside a slice the loop in memory is no less than the saved
one, and strictly more wherever a refund may follow — one model call while the
answer is out, one tool call while the call is at its gate.

**The action ledger** (`ActionLedgerProofs`).  `Sound` says what a slice that is
somewhere in an update knows of the row it loaded; from it a compare-and-set that
succeeds replaces exactly what was loaded.  `Explained` is the count: calls are
at most the failed entries, the overwritten ones and the one that is open.
`LedgerImplementsBook` maps a slice to the call it has in flight; a save is the
step of the book, everything before and after it a stutter, and `Sound` shows
that the save writes over the entry the book has.  `BookRepeatsHaveReasons`
derives `RepeatsAreAccounted` from the book alone, so that versions, loads, saves
and lost answers are seen to add no reason of their own.

**The waits** (`EventWaitsProofs`).  `RecordedOnce` makes a delivery's place in
the record unique; `SliceFits` and `ParkedOnAWait` tie the wait a slice, the row
and the checkpoint hold to the waits that were opened; `LooksBack` says that a
probe never begins later than the WAIT it is about; `VerdictOfAWait` types the
last verdict.  With these `NoLostWake`, `NothingOverlooked` and `ObservedIsNew`
are inductive, and `WaitsEndJustly` joins the last two.  `WaitsKeepTheBoard` maps
the status of the waiting stage as the ledger's is mapped, and its slices to the
epoch, so that the ledger and the waits are two refinements of one board.

**The automations** (`AutomationsProofs`).  `Sound` says of each starter, point
by point of its chain of writes, what the run it holds looks like; `OwnRuns` that
no two of them are creating the same run; `SettledAreClosed` that what is
reported has ended, so that it was marked (`RunsAreRestricted`);
`SchedulesAreSet` where `next` may be.  `NoLoops` follows because a run that
triggers is not owned, and an unowned run of an automation that is there has not
been queued yet.  `WindowsHaveRuns` is the step property, by a case distinction
over who writes `next`.  `AutomationRunsAreRestricted` is proved besides: a run
is never queued before its policy is written.  `LastRunsAreTrue` needs that a run
keeps its owner and its end once it has them (`RunsStand`), and what each writer
of the last run knows of that run when it writes (`LastMoves`): a start writes down
the run it created, a report only where that run is still the last.

**The subscriptions** (`SubscriptionsProofs`).  `SecondsGrow` and `StampsGrow`:
a later version of the subscription never has an earlier second, and the row's
stamp never falls; `WorkIsOpen`: what is at work has not been applied;
`RowIsOfAnEvent`: what the row shows was read no earlier than the event whose
second it bears.  `SubscriptionsImplementMirror` is the refinement; every write of
a handler, of one that then fails or is abandoned too, is a copy of a truth no
older than its event (`WrittenIsACopy`).  `MirrorShowsWhatIsHandled` derives
`AppliedIsShown` from the mirror alone, with an invariant of the mirror
(`MirrorInv`), and `AppliedEventsAreShown` is the two together: the property is
proved without looking at deliveries and claims again.

Only model-checked: the liveness properties `RunEnds`, `CancelEnds`,
`DecidedWaitIsReleased`, `WaitsEnd`, `BrokenDoNotStop` and `EventsApply`, which
need fairness and `ENABLED` and are beyond this prover, and the two
counterexamples of section 7, which are no theorems.  Every other property of a
run is stated by a theorem.

## 7. Where code and documents disagree

Two runs end in a counterexample: the code contradicts the quoted line.
`PROJECT.json` has the quotations in full.

| Run | What happens | What is said |
|---|---|---|
| `lifecycle_rejected` (`RejectedRunIsReported`) | a rejection cancels the stage and leaves the run waiting for approval, which no poll and no tick ends | `docs/connections-mcp-certification.md:172` "the run reports it was not run" |
| `waits_polled` (`GivesUpAtDeadline`) | each look of a polled wait claims a slice; with 8 slices and 300 seconds between looks the stage fails after 40 minutes of its two hours | `long-horizon.ts:122` "polled without a model and gives up at its deadline" |

Other behaviours met on the way have no run of their own.  Where a module has
them, a property that is checked says as much as holds across them.

In the ledger and its drivers:

- `settleCancellationWithoutWorker` sees no live attempt while a claim has the
  stage locked, waits, and cancels the stage under its new holder, although
  "there is nobody to race" (`repository.ts:743`).  `HolderKeepsStage` and the
  board's `Overrun` state what holds.
- A poll starts the queued run between the request's read and its compare-and-set
  (`executor.ts:533`); the conflict reaches the catch, which fails a run another
  worker is executing, although "the run does not depend on this function
  finishing" (`executor.ts:474`).
- `finalizeRun` writes `waiting_for_approval` after the approval was given
  (`worker.ts:701`); the stage finishes, and the table has no edge from there to
  completed, so that the run is not taken "one step toward an end"
  (`poll-nudge.ts:7`).  `RunEnds` is therefore checked without gated stages.
- A request expires undecided while its stage is parked: the row still says
  `requested`, and the poll releases only when none does
  (`app/api/runtime/[runId]/route.ts:69`), against `repository.ts:1440`, "The
  same holds for a request that expired undecided".
- A request that dies after persisting the graph and before queueing the run
  leaves a `planning` run whose stages can be claimed and finished, but which has
  no edge to completed.  `DiesAt` of the passing runs begins after it.
- A `cancelling` run whose worker died is excluded from claims and from
  recovery: with no page open it stays `cancelling`.  `CancelEnds` is checked
  with a page.

In a slice:

- A death between `finish_attempt` and `checkpoint_stage_budget` leaves a settled
  slice uncharged and its checkpoint unwritten (`worker.ts:407`), against
  `worker.ts:61`, "it cannot leave a settled slice uncounted".
  `ChargesMatchSlices` says how many there can be: one for each death or error.
- Another worker claims the stage between the two, loads the older checkpoint and
  repeats the slice, against `base.ts:1114`, "the next slice continues from here
  instead of starting over".
- `record_verification` is fenced on the stage and not on the lease, so a worker
  that lost its stage can overwrite its successor's verdict, against rule 1 of
  `worker.ts:53`.
- `appendStages` (`dispatch.ts:497`) rewires the graph without the lease.
- Calls of the critic and of the team are made after the calls of a slice were
  noted, and never reach the budget.
- An agent stage whose loop ended, but whose review, team step or message then
  throws, is retried from an empty log of calls (`base.ts:1142`, `worker.ts:326`,
  `worker.ts:407`).  The model may decide on a change again that had succeeded
  and was recorded, and the call is made, although "a change (anything but a
  read) that already happened must not happen twice" (`loop.ts:204`); the
  loop's bounds count from nothing as well.  Only an external call has the
  mission's ledger behind it (`ActionLedger`).  `ChangesOnce` counts these
  records among the lost ones.
- Two slices of a run that overlap both make an external call, one of them by a
  lookup before the other's intent, although "external actions run at most once
  per run" (`toolbox.ts:79`).  `RepeatsAreAccounted` is what holds.
- A call that was approved is not made when the step that asked for it was the
  loop's last: the bound is met before the replay.  A pause during the replay
  drops the call, which the model then has to decide on again.  A read that
  succeeded twice and then failed is not tried again.

Around waits, automations and subscriptions:

- A polled wait spends slices, while "no attempt is spent" on waiting
  (`docs/m40-long-horizon.md:11`); `waits_polled` shows where that leads.
- Once a release was lost, or came between parking and the checkpoint of a stage
  that handed in `WAIT`, the stage learns of the event at its next poll or
  deadline only; the sender's retry is a duplicate and releases nothing.
- When the planning of a slot's run fails, the retry finds the run created, skips
  planning, and moves the schedule on; `recoverStuckRuns` fails the run half an
  hour later.  That the automation "stays due and is retried at the next window"
  (`store.ts:326`) holds for failures before the run is created.
  `WindowHasRun` says only that the run exists.
- Deleting an automation clears `automation_id` of its runs, so that a run that
  completes afterwards starts the `run_completed` automations, against "Runs that
  automations started never trigger other automations" (`store.ts:335`).
- `setAutomationEnabled` writes `next_run_at` as null and then as the next
  window: a death in between leaves a schedule that is enabled and never due.
- A start by hand moves the schedule on, past a window that was due.
- Five broken automations that are due longest hold back all others, since
  `dueAutomations` reads five (`Limit`; `BrokenDoNotStop` is checked with fewer).
- `recoverStuckRuns` fails a run without reporting it; `onRunSettled` records a
  run on its automation only while it is the last.
- Two subscription events of one second are not ordered: the row may show the
  truth of the first, against `db/migrations/025_billing_stripe_quotas.sql:28`,
  "an older event arriving late never overwrites a newer state".
  `AppliedIsShown` is up to events of one second.
- An event of an unknown user keeps its claim, as does one whose handler died or
  whose claim was not answered: Stripe's retry is a duplicate.

## 8. What is not modelled

Of some 139,000 lines of implementation most are user interface, content
(skills, capability packs, fixtures), retrieval, and pure scoring, which have no
protocol over shared state; section 1.2 lists them.  What is modelled is the part
in which several actors change the same rows.

Inside the modelled components these are left out:

- ledger and drivers: stages added to a running graph (`appendStages`; the graph
  is a constant), checkpoints written outside a slice, verdicts and memory writes
  of a slice, the queueing of a run out of `created` by a driver, runs of several
  missions, which tick asks for the next one; the short wait in place for a stage
  whose retry is near (`worker.ts:511`), which changes only when the next claim
  is tried; an expired request that could not be closed beside the new one that
  could be filed (`tools/runtime.ts:269`): a stage has one request, and it stays
  lapsed only if neither write succeeds;
- slices: budgets of other scopes, and other dimensions than calls and attempts;
- agent loop: the finish gate, task lists, notes, schemas and the task kernel,
  which change no count and make no call; the wrap-up call after the loop, and
  the calls of the critic and the team, which are part of `Deliver`; two
  inputs of one hash; the phases of the coding arm;
- action ledger: goals and facts of the mission, and the cap of 200 entries,
  which a run's 100 tool calls do not reach;
- waits: signatures and the names events match by; waits for a time, which need
  no delivery, and for a person, which are approvals;
- automations: cadences other than daily, notifications, what a run does;
- subscriptions: prices and plans, which follow from what is read; that Stripe
  stops repeating after some days;
- everywhere: events, messages and model-call rows that record without deciding.

Durations are abstract: a lease is live or over, a delay is in the future or due,
and either changes at any moment; `EventWaits` counts periods of five minutes and
`Automations` days.  That covers every clock, and it means that nothing is said
about how long anything takes.  What a model answers is a free choice.

The modules of the second group in section 2 are not composed with the ledger:
each has as much of a stage or a run as its own protocol reads.  `EventWaits` has
the claim without the retry ceiling and only while no other worker is live
(`EventWaits!Claim`), so a late worker's save after a second claim is not in it;
`Automations` has a run without stages.

## 9. The plan

Done: the ledger and its board; the drivers; the commit of a slice; the agent
loop; the action ledger; waits and deliveries; automations; subscriptions; the
safety theorems of all of them.  Next, in this order:

1. **GrowingGraph**: `StageEngine`'s edges as a variable, `appendStages` without
   the lease.  Property: `StartsAfterDependencies` on a graph that is rewired,
   and no stage added twice.  To prove: `IInv` with growing edges.
2. **Verdicts**: `record_verification` in `SliceCommit`; arbitration of the
   verification engine as operators, against its documented rules.
3. **TickChain**: which tick asks for the next, and whether parked work is
   reached when the chain ends at its limit; with it `Ticking` would be a
   consequence instead of an assumption.
4. **EventWaits over StageEngine**: both implement `StageBoard`, which has no
   waits; a composition would show that the ledger's `WebhookRelease` and claim
   are those of `EventWaits`, its ceilings included.
5. **Quotas and the model pool**: rolling windows as a function against a
   reference definition; admission and cooldown of one process.
6. **Validation of graphs**: `validateGraph` over all small graphs.
