-------------------------------- MODULE EventWaits --------------------------------
(***************************************************************************)
(* A stage that waits for the outside world, and the webhook deliveries    *)
(* that end the wait (app/api/hooks/[endpointId]/route.ts; lib/webhooks/   *)
(* store.ts; lib/runtime/waits.ts; lib/agent/long-horizon.ts; lib/arms/    *)
(* horizon-runtime.ts and base.ts).                                        *)
(*                                                                         *)
(* The agent asks to WAIT: the stage is parked with the wake condition in  *)
(* its output and the wait in its checkpoint, two writes of which the      *)
(* second can be lost.  A delivery is recorded once, and its handler then  *)
(* releases the parked stages it satisfies; only after that, or when the   *)
(* wait comes due, does a claim read the checkpoint and ask the recorded   *)
(* deliveries whether the wait is over.  A stage that is running is not    *)
(* released.                                                               *)
(*                                                                         *)
(* Time passes in periods of everySeconds (300 s), the interval of a poll. *)
(* Left out: waits for a time, which need no delivery, and for a person,   *)
(* which go through the approvals of StageEngine; the claim's other        *)
(* conditions and the retry ceiling, which StageEngine has; and a late     *)
(* worker that still saves its checkpoint, which SliceCommit has.          *)
(***************************************************************************)
EXTENDS Integers, Sequences, SequencesExt

CONSTANTS
    Deliveries,   \* what senders deliver, by delivery id
    Matching,     \* those that satisfy the waits of the stage
    Kinds,        \* the kinds of wait the agent asks for: "event", "poll"
    Window,       \* how many recorded deliveries a probe reads
    Patience,     \* periods from a WAIT to its deadline
    MaxSlices,    \* the stage's slice ceiling
    MayYield,     \* whether the agent may also hand in a slice without a WAIT
    MaxWaits,     \* the bound on WAITs of the agent
    MaxRepeats,   \* the bound on repeated deliveries
    MaxFaults     \* the bound on deaths and failed statements

ASSUME WaitsAssumption ==
    /\ Matching \subseteq Deliveries
    /\ Kinds \subseteq {"event", "poll"}
    /\ Window \in Nat \ {0}
    /\ Patience \in Nat \ {0}
    /\ MaxSlices \in Nat \ {0}
    /\ MayYield \in BOOLEAN
    /\ {MaxWaits, MaxRepeats, MaxFaults} \subseteq Nat

VARIABLES
    recorded,   \* webhook_deliveries, by received_at
    repeats,    \* how often a sender repeated one
    handler,    \* what became of its release
    stage,      \* the row: status, whether it is due, its output's wait, slices
    waits,      \* the waits opened so far
    saved,      \* the wait in the stage's checkpoint, 0 for none
    mem,        \* the wait the slice holds
    worker,     \* where the slice is
    verdict,    \* how the last wait that ended did
    faults

wvars == <<recorded, repeats, handler, stage, waits, saved, mem, worker, verdict, faults>>

world == <<recorded, repeats, handler>>
slice == <<waits, saved, mem, worker, verdict>>

Recorded(d) == \E i \in 1 .. Len(recorded) : recorded[i] = d

\* asked is where the record stood when the agent asked, parked where it stood
\* when the stage was last parked on the wait.
Wait == [kind : {"event", "poll"}, since : Nat, asked : Nat, parked : Nat, age : 0 .. Patience]

NoVerdict == [wait |-> 0, how |-> "none", at |-> 0]

WInit ==
    /\ recorded = <<>>
    /\ repeats = 0
    /\ handler = [d \in Deliveries |-> "none"]
    /\ stage = [status |-> "pending", due |-> TRUE, shown |-> 0, slices |-> 0]
    /\ waits = <<>>
    /\ saved = 0
    /\ mem = 0
    /\ worker = "off"
    /\ verdict = NoVerdict
    /\ faults = 0

Fault == faults < MaxFaults /\ faults' = faults + 1

-----------------------------------------------------------------------------
(* The webhook route *)

Fresh(d) ==
    /\ recorded' = Append(recorded, d)
    /\ handler' = [handler EXCEPT ![d] = "recorded"]

\* A delivery a sender repeats.
Repeat(d) == Recorded(d) /\ repeats < MaxRepeats /\ repeats' = repeats + 1

\* Mutant: a delivery is recorded as often as it comes.
DeliverAgain(d) ==
    /\ \/ Repeat(d)
       \/ ~Recorded(d) /\ UNCHANGED repeats
    /\ Fresh(d)
    /\ UNCHANGED <<stage, slice, faults>>

\* A verified delivery comes, for the first time or again: recordDelivery
\* inserts it unless its id is there, and only a fresh one goes on.
Deliver(d) ==
    /\ \/ Repeat(d) /\ UNCHANGED <<recorded, handler>>
       \/ ~Recorded(d) /\ Fresh(d) /\ UNCHANGED repeats
    /\ UNCHANGED <<stage, slice, faults>>

Parked == stage.status = "blocked" /\ ~stage.due

\* Mutant: only waiting stages are released, as if events parked them so.
ReleaseWaiting(d) ==
    /\ handler[d] = "recorded"
    /\ handler' = [handler EXCEPT ![d] = "done"]
    /\ UNCHANGED <<recorded, repeats, stage, slice, faults>>

\* Mutant: the status is not asked for, only what the output shows.
ReleaseShown(d) ==
    /\ handler[d] = "recorded"
    /\ handler' = [handler EXCEPT ![d] = "done"]
    /\ IF d \in Matching /\ stage.shown # 0
       THEN stage' = [stage EXCEPT !.status = "blocked", !.due = TRUE]
       ELSE UNCHANGED stage
    /\ UNCHANGED <<recorded, repeats, slice, faults>>

\* releaseWaits: a parked stage whose output shows a wait this delivery satisfies
\* becomes due.
Release(d) ==
    /\ handler[d] = "recorded"
    /\ handler' = [handler EXCEPT ![d] = "done"]
    /\ IF d \in Matching /\ stage.status = "blocked" /\ stage.shown # 0
       THEN stage' = [stage EXCEPT !.due = TRUE]
       ELSE UNCHANGED stage
    /\ UNCHANGED <<recorded, repeats, slice, faults>>

\* The statement fails, which is swallowed, or its process dies.
ReleaseFails(d) ==
    /\ handler[d] = "recorded"
    /\ Fault
    /\ handler' = [handler EXCEPT ![d] = "failed"]
    /\ UNCHANGED <<recorded, repeats, stage, slice>>

-----------------------------------------------------------------------------
(* Claims and time *)

Claimable == stage.status \in {"pending", "blocked"} /\ stage.due /\ worker = "off"

\* Mutant: the ceiling is checked one claim late.
ClaimPast ==
    /\ Claimable
    /\ stage.slices <= MaxSlices
    /\ stage' = [stage EXCEPT !.status = "running", !.slices = @ + 1]
    /\ mem' = saved
    /\ worker' = IF saved = 0 THEN "loop" ELSE "resume"
    /\ UNCHANGED <<world, waits, saved, verdict, faults>>

\* The slice reads the checkpoint and, if it holds a wait, asks about it first.
Claim ==
    /\ Claimable
    /\ stage.slices < MaxSlices
    /\ stage' = [stage EXCEPT !.status = "running", !.slices = @ + 1]
    /\ mem' = saved
    /\ worker' = IF saved = 0 THEN "loop" ELSE "resume"
    /\ UNCHANGED <<world, waits, saved, verdict, faults>>

\* The claim that finds the ceiling reached.
Exhaust ==
    /\ Claimable
    /\ stage.slices = MaxSlices
    /\ stage' = [stage EXCEPT !.status = "failed"]
    /\ UNCHANGED <<world, slice, faults>>

\* The process dies; a running stage is reaped with the row as it was.
Die ==
    /\ worker # "off"
    /\ Fault
    /\ worker' = "off"
    /\ mem' = 0
    /\ stage' = IF worker = "save" THEN stage
                ELSE [stage EXCEPT !.status = "blocked", !.due = TRUE]
    /\ UNCHANGED <<world, waits, saved, verdict>>

Late(n) == waits[n].age = Patience

\* Mutant: an event parks its stage as waiting, for a release only.
PollsComeDue == Parked /\ waits[stage.shown].kind = "poll"

\* A parked poll comes due with the next period, an event at its deadline
\* (parkingFor).
ComesDue ==
    /\ Parked
    /\ waits[stage.shown].kind = "poll" \/ waits[stage.shown].age + 1 >= Patience

\* A period passes.
Pass ==
    /\ Parked \/ \E n \in 1 .. Len(waits) : ~Late(n)
    /\ waits' = [n \in 1 .. Len(waits) |->
                   IF Late(n) THEN waits[n] ELSE [waits[n] EXCEPT !.age = @ + 1]]
    /\ stage' = [stage EXCEPT !.due = @ \/ ComesDue]
    /\ UNCHANGED <<world, saved, mem, worker, verdict, faults>>

-----------------------------------------------------------------------------
(* A slice *)

\* deliveryProbe reads the newest deliveries recorded after the wait began.
Met(n) == \E i \in waits[n].since + 1 .. Len(recorded) :
             recorded[i] \in Matching /\ Len(recorded) - i < Window

\* The wait is over, which the checkpoint learns at the end of the slice.
EndWait(how) ==
    /\ verdict' = [wait |-> mem, how |-> how, at |-> Len(recorded)]
    /\ mem' = 0
    /\ worker' = "loop"

\* Mutant: a wait is given up at its deadline without a last look.
ResumeLate ==
    /\ worker = "resume"
    /\ IF Late(mem) THEN EndWait("unobserved")
       ELSE IF Met(mem) THEN EndWait("observed")
       ELSE worker' = "park" /\ UNCHANGED <<mem, verdict>>
    /\ UNCHANGED <<world, stage, waits, saved, faults>>

\* resumeStage: the wait ends because it was met, then because it is late;
\* otherwise the stage is parked on it again, without a model.
Resume ==
    /\ worker = "resume"
    /\ IF Met(mem) THEN EndWait("observed")
       ELSE IF Late(mem) THEN EndWait("unobserved")
       ELSE worker' = "park" /\ UNCHANGED <<mem, verdict>>
    /\ UNCHANGED <<world, stage, waits, saved, faults>>

\* A probe that fails has observed nothing.
ResumeBlind ==
    /\ worker = "resume"
    /\ Fault
    /\ IF Late(mem) THEN EndWait("blind")
       ELSE worker' = "park" /\ UNCHANGED <<mem, verdict>>
    /\ UNCHANGED <<world, stage, waits, saved>>

\* The agent asks to WAIT, and parkOnWait opens the wait.
Ask(kind) ==
    /\ worker = "loop"
    /\ Len(waits) < MaxWaits
    /\ waits' = Append(waits, [kind |-> kind, since |-> Len(recorded), asked |-> Len(recorded),
                               parked |-> Len(recorded), age |-> 0])
    /\ mem' = Len(waits')
    /\ worker' = "park"
    /\ UNCHANGED <<world, stage, saved, verdict, faults>>

\* finish_attempt parks the stage; the output shows what it waits for.
Park ==
    /\ worker = "park"
    /\ stage' = [stage EXCEPT !.status = "blocked", !.due = FALSE, !.shown = mem]
    /\ waits' = [waits EXCEPT ![mem].parked = Len(recorded)]
    /\ worker' = "save"
    /\ UNCHANGED <<world, saved, mem, verdict, faults>>

\* PROGRESS: the stage yields and is claimable at once.
Yield ==
    /\ MayYield
    /\ worker = "loop"
    /\ stage' = [stage EXCEPT !.status = "blocked", !.due = TRUE, !.shown = 0]
    /\ worker' = "save"
    /\ UNCHANGED <<world, waits, saved, mem, verdict, faults>>

\* The checkpoint is written after the stage is handed in.
Save ==
    /\ worker = "save"
    /\ saved' = mem
    /\ mem' = 0
    /\ worker' = "off"
    /\ UNCHANGED <<world, stage, waits, verdict, faults>>

Complete ==
    /\ worker = "loop"
    /\ stage' = [stage EXCEPT !.status = "completed", !.shown = 0]
    /\ worker' = "off"
    /\ UNCHANGED <<world, waits, saved, mem, verdict, faults>>

\* The stage is over; nothing is left to happen to it.
Settled ==
    /\ stage.status \in {"completed", "failed"}
    /\ UNCHANGED wvars

Slice ==
    \/ Claim \/ Exhaust \/ Resume \/ Park \/ Yield \/ Save \/ Complete
    \/ \E kind \in Kinds : Ask(kind)

WNext ==
    \/ Slice \/ ResumeBlind \/ Die \/ Pass \/ Settled
    \/ \E d \in Deliveries : Deliver(d) \/ Release(d) \/ ReleaseFails(d)

WSpec == WInit /\ [][WNext]_wvars

\* Ticks keep coming and processes go on (section 5 of the README), and time
\* passes.  Nothing is assumed of senders or of the outcome of a slice.
WFairSpec == WSpec /\ WF_wvars(Slice) /\ WF_wvars(Pass)

-----------------------------------------------------------------------------
(* Properties *)

StageRow == [status : {"pending", "running", "blocked", "completed", "failed"},
             due : BOOLEAN, shown : 0 .. MaxWaits, slices : 0 .. MaxSlices]

\* The row, the waits and the record of deliveries keep their types; a delivery
\* is recorded at most once (recordDelivery).
WTypeOK ==
    /\ recorded \in Seq(Deliveries) /\ IsInjective(recorded)
    /\ repeats \in 0 .. MaxRepeats
    /\ handler \in [Deliveries -> {"none", "recorded", "done", "failed"}]
    /\ stage \in StageRow
    /\ waits \in Seq(Wait) /\ Len(waits) <= MaxWaits
    /\ {saved, mem, stage.shown, verdict.wait} \subseteq 0 .. Len(waits)
    /\ worker \in {"off", "resume", "loop", "park", "save"}
    /\ verdict.how \in {"none", "observed", "unobserved", "blind"}
    /\ faults \in 0 .. MaxFaults

\* A stage that stays parked has missed no release: every delivery for it that
\* was recorded since it was parked is still to release it, or failed to
\* (releaseWaits: "a verified webhook delivery releases every matching stage").
NoLostWake ==
    Parked => \A i \in waits[stage.shown].parked + 1 .. Len(recorded) :
                 recorded[i] \in Matching => handler[recorded[i]] \in {"recorded", "failed"}

\* A wait that ended unobserved has overlooked nothing: whatever was recorded
\* for it since the agent asked was crowded out of the probe by newer deliveries
\* (deliveryProbe's limit).
NothingOverlooked ==
    verdict.how = "unobserved" =>
        \A i \in waits[verdict.wait].asked + 1 .. verdict.at :
            recorded[i] \in Matching => verdict.at - i >= Window

\* A wait is ended by news only: by a delivery first recorded after the agent
\* asked, never by a sender's repetition of an older one.
ObservedIsNew ==
    verdict.how = "observed" =>
        \E i \in waits[verdict.wait].asked + 1 .. verdict.at :
            /\ recorded[i] \in Matching
            /\ \A j \in 1 .. i - 1 : recorded[j] # recorded[i]

\* The verdict on a wait is just, whichever deliveries are repeated, late, lost or
\* crowded out: it is neither ended by old news nor over the head of new ones.
VerdictsAreJust == NothingOverlooked /\ ObservedIsNew

\* Every parked stage goes on: by a release, at its poll or at its deadline, and
\* whatever is lost on the way (wakeFor: "Every wait is bounded").
WaitsEnd == stage.status = "blocked" ~> stage.status # "blocked"

\* A wait is given up at its deadline, not before (wakeFor: "a CI or deployment
\* wait is polled without a model and gives up at its deadline").
GivesUpAtDeadline == stage.status = "failed" /\ saved # 0 => Late(saved)

-----------------------------------------------------------------------------
(* Refinement *)

Phase(status) ==
    CASE status = "running"                -> "held"
      [] status \in {"completed", "failed"} -> status
      [] OTHER                             -> "idle"

TheStage == {"stage"}

Board == INSTANCE StageBoard WITH
    Stages    <- TheStage,
    DependsOn <- [s \in TheStage |-> {}],
    phase     <- [s \in TheStage |-> Phase(stage.status)],
    epoch     <- [s \in TheStage |-> stage.slices]

\* However deliveries, polls, deadlines and deaths race with the slices, the stage
\* stays on the board of the ledger: it is taken when idle, handed in by who holds
\* it, given up only after a slice, and no release reopens it (releaseWaits:
\* "s.status in ('waiting', 'blocked')").
WaitsKeepBoard == Board!Spec
===================================================================================
