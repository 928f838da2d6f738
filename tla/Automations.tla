------------------------------- MODULE Automations --------------------------------
(***************************************************************************)
(* Automations: runs that start on a schedule or on an event               *)
(* (lib/automations/store.ts and schedule.ts; prepareRuntimeRun of lib/    *)
(* runtime/executor.ts; recoverStuckRuns of lib/runtime/recovery.ts; the   *)
(* end of finalizeRun in lib/runtime/worker.ts).                           *)
(*                                                                         *)
(* A start is a chain of writes with nothing around it: the run is created *)
(* under a request id that names the automation and the slot, marked as    *)
(* the automation's, planned, given its budget, and only then written down *)
(* on the automation, which moves its schedule on.  Ticks, finished runs   *)
(* and people start automations at the same time, and any of them may fail *)
(* or die between two writes, while people create, switch and delete the   *)
(* automations.                                                            *)
(*                                                                         *)
(* Time is counted in scheduler windows, one a day, so every cadence is    *)
(* daily.  Left out: notifications, and what the run does.                 *)
(***************************************************************************)
EXTENDS Integers, Sequences, FiniteSets, SequencesExt

CONSTANTS
    Scheduled,    \* automations with a schedule
    Evented,      \* automations for completed runs
    Hooked,       \* automations for webhook deliveries
    Broken,       \* those that cannot start: their conversation was archived
    Later,        \* those that may be created later
    Starters,     \* processes that start automations: ticks and finalizers
    People,       \* how many runs people have started
    Limit,        \* how many due automations one tick starts
    MaxWindows,   \* the bound on windows
    MaxHands,     \* the bound on what people do with automations
    MaxFaults     \* the bound on deaths and failed planning

ASSUME AutomationsAssumption ==
    /\ Broken \subseteq Scheduled \cup Evented \cup Hooked
    /\ Scheduled \cap (Evented \cup Hooked) = {}
    /\ IsFiniteSet(Scheduled) /\ IsFiniteSet(Evented) /\ IsFiniteSet(Hooked)
    /\ Limit \in Nat \ {0}
    /\ {People, MaxWindows, MaxHands, MaxFaults} \subseteq Nat

VARIABLES
    now,        \* the windows that have come
    mode,       \* whether an automation is there, and enabled
    turning,    \* schedules that were switched on and have no next_run_at yet
    hands,      \* how often people did something with an automation
    next,       \* next_run_at of the scheduled automations, a window or 0
    last,       \* last_run_id and last_status of each automation
    runs,       \* the runs, by id
    settled,    \* runs that were closed and are still to be reported
    starter,    \* where each starter is
    faults

people == <<mode, turning, hands>>
uvars == <<now, people, next, last, runs, settled, starter, faults>>

Autos == Scheduled \cup Evented \cup Hooked
Nobody == "nobody"

\* slot is the window, the run that completed, or for a start by hand or a delivery
\* a negative number; source is that run or 0;
\* auto is who started it and marked whether automation_id says so; plans
\* counts how often its planning began.
RunRow(auto, slot, source, status) ==
    [auto |-> auto, slot |-> slot, source |-> source, status |-> status,
     marked |-> FALSE, plans |-> 0]

\* A starter goes through a list of automations and slots, which it read at once.
Idle == [at |-> "idle", todo |-> <<>>, source |-> 0, run |-> 0]

UInit ==
    /\ now = 0
    /\ mode \in {m \in [Autos -> {"new", "on"}] : \A a \in Autos : m[a] = "new" => a \in Later}
    /\ turning = {}
    /\ hands = 0
    /\ next = [a \in Scheduled |-> IF mode[a] = "on" THEN 1 ELSE 0]
    /\ last = [a \in Autos |-> [run |-> 0, status |-> "none"]]
    /\ runs = [r \in 1 .. People |-> RunRow(Nobody, 0, 0, "queued")]
    /\ settled = {}
    /\ starter = [p \in Starters |-> Idle]
    /\ faults = 0

Fault == faults < MaxFaults /\ faults' = faults + 1
Go(p, state) == starter' = [starter EXCEPT ![p] = state]

At(p, point) == starter[p].at = point
Named(p) == Head(starter[p].todo).auto
Slot(p) == Head(starter[p].todo).slot
Run(p) == starter[p].run

\* Mutant: the run is planned before it is marked as the automation's.
AfterPlanned == [prepare |-> "plan", plan |-> "queue", queue |-> "mark", mark |-> "budget",
                 budget |-> "record"]

\* The order of the writes of startAutomationRun.
After == [prepare |-> "mark", mark |-> "plan", plan |-> "queue", queue |-> "budget",
          budget |-> "record"]

Step(p) == Go(p, [starter[p] EXCEPT !.at = After[starter[p].at]])

\* The next of the list, whatever became of this one.
Continue(p) ==
    LET rest == Tail(starter[p].todo) IN
    Go(p, IF rest = <<>> THEN Idle
          ELSE [starter[p] EXCEPT !.at = "prepare", !.todo = rest, !.run = 0])

-----------------------------------------------------------------------------
(* What starts automations, and what becomes of their runs *)

\* The day's window comes, long after whatever the last one started.
Window ==
    /\ now < MaxWindows
    /\ turning = {} /\ \A p \in Starters : starter[p] = Idle
    /\ now' = now + 1
    /\ UNCHANGED <<people, next, last, runs, settled, starter, faults>>

Due(a) == mode[a] = "on" /\ next[a] \in 1 .. now

\* dueAutomations: the longest due first, at most Limit of them.
DueLists ==
    {SubSeq(s, 1, IF Len(s) < Limit THEN Len(s) ELSE Limit) :
        s \in {s \in SetToSeqs({[auto |-> a, slot |-> next[a]] : a \in {a \in Scheduled : Due(a)}}) :
                 \A i, j \in 1 .. Len(s) : i < j => s[i].slot <= s[j].slot}}

\* A tick reads what is due and starts one after the other (startDueAutomations).
Tick(p) ==
    /\ starter[p] = Idle
    /\ \E a \in Scheduled : Due(a)
    /\ \E todo \in DueLists : Go(p, [Idle EXCEPT !.at = "prepare", !.todo = todo])
    /\ UNCHANGED <<now, people, next, last, runs, settled, faults>>

\* A worker closes a run.
Settle(r) ==
    /\ runs[r].status = "queued"
    /\ \E status \in {"completed", "failed"} : runs' = [runs EXCEPT ![r].status = status]
    /\ settled' = settled \cup {r}
    /\ UNCHANGED <<now, people, next, last, starter, faults>>

Ownerless(a) == a = Nobody \/ mode[a] = "gone"

\* automation_id still names an automation: deleting one clears it.
Owned(r) == runs[r].marked /\ mode[runs[r].auto] # "gone"

\* Mutant: the end of any run of the automation counts as that of its last.
ReportToAny(r) ==
    /\ r \in settled
    /\ Owned(r)
    /\ settled' = settled \ {r}
    /\ last' = [last EXCEPT ![runs[r].auto].status = runs[r].status]
    /\ UNCHANGED <<now, people, next, runs, starter, faults>>

\* onRunSettled of an automation's run: written down on its automation, if that
\* still names it as its last.
ReportToAutomation(r) ==
    /\ r \in settled
    /\ Owned(r)
    /\ settled' = settled \ {r}
    /\ last' = [a \in Autos |-> IF a = runs[r].auto /\ last[a].run = r
                                THEN [last[a] EXCEPT !.status = runs[r].status]
                                ELSE last[a]]
    /\ UNCHANGED <<now, people, next, runs, starter, faults>>

\* The automations of a kind that hear of what they are for.
Listening(kind) == {a \in kind : mode[a] = "on"}

\* onRunSettled of any other run: if it completed, the evented automations start
\* (triggerAutomations).
Trigger(p, r) ==
    /\ starter[p] = Idle
    /\ r \in settled
    /\ ~Owned(r)
    /\ settled' = settled \ {r}
    /\ IF runs[r].status = "completed" /\ Listening(Evented) # {}
       THEN \E todo \in SetToSeqs({[auto |-> a, slot |-> r] : a \in Listening(Evented)}) :
               Go(p, [Idle EXCEPT !.at = "prepare", !.todo = todo, !.source = r])
       ELSE UNCHANGED starter
    /\ UNCHANGED <<now, people, next, last, runs, faults>>

\* The worker that closed the run dies before it reports it.
ReportLost(r) ==
    /\ r \in settled
    /\ Fault
    /\ settled' = settled \ {r}
    /\ UNCHANGED <<now, people, next, last, runs, starter>>

\* A run that was never planned is failed after 30 minutes, long after whoever
\* created it has gone (recoverStuckRuns).
Recover(r) ==
    /\ runs[r].status \in {"created", "planning"}
    /\ \A p \in Starters : Run(p) # r
    /\ runs' = [runs EXCEPT ![r].status = "failed"]
    /\ UNCHANGED <<now, people, next, last, settled, starter, faults>>

-----------------------------------------------------------------------------
(* What people do with automations *)

\* The first window after now (nextRunAt).
MoveOn(a) == next' = IF a \in Scheduled THEN [next EXCEPT ![a] = now + 1] ELSE next

Hand == hands < MaxHands /\ hands' = hands + 1

CreateAutomation(a) ==
    /\ mode[a] = "new"
    /\ Hand
    /\ mode' = [mode EXCEPT ![a] = "on"]
    /\ MoveOn(a)
    /\ UNCHANGED <<now, turning, last, runs, settled, starter, faults>>

SwitchOff(a) ==
    /\ mode[a] = "on"
    /\ Hand
    /\ mode' = [mode EXCEPT ![a] = "off"]
    /\ UNCHANGED <<now, turning, next, last, runs, settled, starter, faults>>

\* setAutomationEnabled clears the schedule of one it switches on, and sets it in
\* a second statement, whatever became of the row in between.
SwitchOn(a) ==
    /\ mode[a] \in {"on", "off"}
    /\ Hand
    /\ mode' = [mode EXCEPT ![a] = "on"]
    /\ turning' = turning \cup ({a} \cap Scheduled)
    /\ next' = [b \in Scheduled |-> IF b = a THEN 0 ELSE next[b]]
    /\ UNCHANGED <<now, last, runs, settled, starter, faults>>

SetNext(a) ==
    /\ a \in turning
    /\ turning' = turning \ {a}
    /\ IF mode[a] = "gone" THEN UNCHANGED next ELSE MoveOn(a)
    /\ UNCHANGED <<now, mode, hands, last, runs, settled, starter, faults>>

\* The process dies between the two: the schedule is on and has no next window.
SetNextFails(a) ==
    /\ a \in turning
    /\ Fault
    /\ turning' = turning \ {a}
    /\ UNCHANGED <<now, mode, hands, next, last, runs, settled, starter>>

\* The row is deleted; its runs stay, and name no automation any more.
DeleteAutomation(a) ==
    /\ mode[a] \in {"on", "off"}
    /\ Hand
    /\ mode' = [mode EXCEPT ![a] = "gone"]
    /\ UNCHANGED <<now, turning, next, last, runs, settled, starter, faults>>

\* runAutomationNow: a start under a slot of its own, whether the automation is
\* enabled or not.
StartByHand(p, a) ==
    /\ starter[p] = Idle
    /\ mode[a] \in {"on", "off"}
    /\ Hand
    /\ Go(p, [Idle EXCEPT !.at = "prepare", !.todo = <<[auto |-> a, slot |-> 0 - hands']>>])
    /\ UNCHANGED <<now, mode, turning, next, last, runs, settled, faults>>

\* A delivery comes, or one comes again, which is the same slot
\* (triggerWebhookAutomations).  A changed connection is one that never repeats.
Delivery(p) ==
    /\ starter[p] = Idle
    /\ Listening(Hooked) # {}
    /\ Hand
    /\ \E slot \in {0 - h : h \in 1 .. hands'} :
          \E todo \in SetToSeqs({[auto |-> a, slot |-> slot] : a \in Listening(Hooked)}) :
             Go(p, [Idle EXCEPT !.at = "prepare", !.todo = todo])
    /\ UNCHANGED <<now, mode, turning, next, last, runs, settled, faults>>

ByPeople(a) ==
    \/ CreateAutomation(a) \/ SwitchOff(a) \/ SwitchOn(a) \/ SetNext(a) \/ SetNextFails(a)
    \/ DeleteAutomation(a) \/ \E p \in Starters : StartByHand(p, a)

-----------------------------------------------------------------------------
(* startAutomationRun *)

Existing(a, slot) == {r \in 1 .. Len(runs) : runs[r].auto = a /\ runs[r].slot = slot}

Create(p) ==
    /\ runs' = Append(runs, RunRow(Named(p), Slot(p), starter[p].source, "created"))
    /\ Go(p, [starter[p] EXCEPT !.at = After["prepare"], !.run = Len(runs')])

\* Mutant: the run is created without a look at its request id.
PrepareBlind(p) ==
    /\ At(p, "prepare")
    /\ Named(p) \notin Broken
    /\ Create(p)
    /\ UNCHANGED <<now, people, next, last, settled, faults>>

\* Mutant: a run that is there counts as created.
PrepareAgain(p) ==
    /\ At(p, "prepare")
    /\ \/ /\ Existing(Named(p), Slot(p)) = {}
          /\ Named(p) \notin Broken
          /\ Create(p)
       \/ /\ UNCHANGED runs
          /\ \E r \in Existing(Named(p), Slot(p)) :
                Go(p, [starter[p] EXCEPT !.at = After["prepare"], !.run = r])
    /\ UNCHANGED <<now, people, next, last, settled, faults>>

\* prepareRuntimeRun: the run of this request id, or a new one; only a new one is
\* marked, planned and given its budget.
Prepare(p) ==
    /\ At(p, "prepare")
    /\ \/ /\ Existing(Named(p), Slot(p)) = {}
          /\ Named(p) \notin Broken
          /\ Create(p)
       \/ /\ UNCHANGED runs
          /\ \E r \in Existing(Named(p), Slot(p)) :
                Go(p, [starter[p] EXCEPT !.at = "record", !.run = r])
    /\ UNCHANGED <<now, people, next, last, settled, faults>>

Cannot(p) ==
    /\ At(p, "prepare")
    /\ Named(p) \in Broken
    /\ Existing(Named(p), Slot(p)) = {}

\* Mutant: one that cannot start ends the whole list.
RefuseAll(p) ==
    /\ Cannot(p)
    /\ Go(p, Idle)
    /\ UNCHANGED <<now, people, next, last, runs, settled, faults>>

\* Its conversation is not accessible: the start throws, and it stays due.
Refuse(p) ==
    /\ Cannot(p)
    /\ Continue(p)
    /\ UNCHANGED <<now, people, next, last, runs, settled, faults>>

\* automation_id and the policy are written on the run; the key fails the write
\* of an automation that was deleted.
Mark(p) ==
    /\ At(p, "mark")
    /\ mode[Named(p)] # "gone"
    /\ runs' = [runs EXCEPT ![Run(p)].marked = TRUE]
    /\ Step(p)
    /\ UNCHANGED <<now, people, next, last, settled, faults>>

MarkRefused(p) ==
    /\ At(p, "mark")
    /\ mode[Named(p)] = "gone"
    /\ Continue(p)
    /\ UNCHANGED <<now, people, next, last, runs, settled, faults>>

\* planRuntimeRun begins and, once the stages are there, queues the run.
Plan(p) ==
    /\ At(p, "plan")
    /\ runs[Run(p)].status \in {"created", "planning"}
    /\ runs' = [runs EXCEPT ![Run(p)].status = "planning", ![Run(p)].plans = @ + 1]
    /\ Step(p)
    /\ UNCHANGED <<now, people, next, last, settled, faults>>

Queue(p) ==
    /\ At(p, "queue")
    /\ runs[Run(p)].status = "planning"
    /\ runs' = [runs EXCEPT ![Run(p)].status = "queued"]
    /\ Step(p)
    /\ UNCHANGED <<now, people, next, last, settled, faults>>

\* setBudget changes nothing that is kept here; it may come after the run's end.
Budget(p) ==
    /\ At(p, "budget")
    /\ Step(p)
    /\ UNCHANGED <<now, people, next, last, runs, settled, faults>>

\* The automation's row, if it is still there, names the run and moves to the next
\* window from now on (nextRunAt).
Record(p) ==
    /\ At(p, "record")
    /\ IF mode[Named(p)] = "gone" THEN UNCHANGED <<next, last>>
       ELSE /\ last' = [last EXCEPT ![Named(p)] = [run |-> Run(p), status |-> "running"]]
            /\ MoveOn(Named(p))
    /\ Continue(p)
    /\ UNCHANGED <<now, people, runs, settled, faults>>

\* Mutant: a start that fails skips its window.
StartFailsOver(p) ==
    /\ starter[p] # Idle
    /\ Fault
    /\ Continue(p)
    /\ MoveOn(Named(p))
    /\ UNCHANGED <<now, people, last, runs, settled>>

\* A statement or the planning fails, which ends this start and not the list.
StartFails(p) ==
    /\ starter[p] # Idle
    /\ Fault
    /\ Continue(p)
    /\ UNCHANGED <<now, people, next, last, runs, settled>>

Die(p) ==
    /\ starter[p] # Idle
    /\ Fault
    /\ Go(p, Idle)
    /\ UNCHANGED <<now, people, next, last, runs, settled>>

Start(p) ==
    \/ Prepare(p) \/ Refuse(p) \/ Mark(p) \/ MarkRefused(p)
    \/ Plan(p) \/ Queue(p) \/ Budget(p) \/ Record(p)

\* The days go on; nothing else needs to happen.
Rest == now = MaxWindows /\ UNCHANGED uvars

UNext ==
    \/ Window \/ Rest
    \/ \E a \in Autos : ByPeople(a)
    \/ \E p \in Starters : Tick(p) \/ Delivery(p) \/ Start(p) \/ StartFails(p) \/ Die(p)
    \/ \E r \in 1 .. Len(runs) : \/ Settle(r) \/ ReportToAutomation(r) \/ ReportLost(r) \/ Recover(r)
                                 \/ \E p \in Starters : Trigger(p, r)

USpec == UInit /\ [][UNext]_uvars

\* Ticks come and starts go on.  Nothing is assumed of the runs themselves, of
\* windows or of reports.
UFairSpec ==
    /\ USpec
    /\ \A p \in Starters : WF_uvars(Tick(p)) /\ WF_uvars(Start(p))

-----------------------------------------------------------------------------
(* Properties *)

RunRows == [auto : Autos \cup {Nobody}, slot : Int, source : Nat,
            status : {"created", "planning", "queued", "completed", "failed"},
            marked : BOOLEAN, plans : Nat]

\* The rows keep their types, and a request id is never used twice.
UTypeOK ==
    /\ now \in 0 .. MaxWindows
    /\ mode \in [Autos -> {"new", "on", "off", "gone"}]
    /\ turning \subseteq Scheduled /\ hands \in 0 .. MaxHands
    /\ next \in [Scheduled -> 0 .. MaxWindows + 1]
    /\ last \in [Autos -> [run : 0 .. Len(runs),
                           status : {"none", "running", "completed", "failed"}]]
    /\ runs \in Seq(RunRows)
    /\ settled \subseteq 1 .. Len(runs)
    /\ \A p \in Starters : /\ starter[p].at \in {"idle"} \cup DOMAIN After \cup {"record"}
                           /\ Run(p) \in 0 .. Len(runs)
    /\ \A r, q \in 1 .. Len(runs) :
          r # q /\ runs[r].auto # Nobody => <<runs[r].auto, runs[r].slot>> # <<runs[q].auto, runs[q].slot>>

\* No automation is started by the run of an automation, however soon that run
\* completes (triggerAutomations: "no loops"), as long as that automation is there:
\* the run of a deleted one counts as a person's.
NoLoops ==
    \A r \in 1 .. Len(runs) : runs[r].source # 0 => Ownerless(runs[runs[r].source].auto)

\* A run executes only once it is marked, and so under its automation's policy.
RunsAreRestricted ==
    \A r \in 1 .. Len(runs) :
        runs[r].auto # Nobody /\ runs[r].status \in {"queued", "completed"} => runs[r].marked

\* Two ticks, or a tick and a retry, never plan the run of a slot twice
\* (startAutomationRun: "idempotent per slot").
PlannedOnce == \A r \in 1 .. Len(runs) : runs[r].plans <= 1

\* What an automation says of its last run is true: the run is its own, and where
\* it says how that run ended, the run has ended so, whatever other runs of the
\* automation end or are started meanwhile (onRunSettled: "last_run_id").  That a
\* run still goes is not claimed.
LastIsTrue ==
    \A a \in Autos :
        /\ last[a].run # 0 => runs[last[a].run].auto = a
        /\ last[a].status \in {"completed", "failed"} =>
              last[a].run # 0 /\ runs[last[a].run].status = last[a].status

\* A schedule passes the window that is due only when the run of that window is
\* there, unless a person has just started the automation by hand, which moves it on
\* as well.  Windows that come while it stays due are merged into that one run
\* (nextRunAt), and switching on begins at the next.
WindowHasRun ==
    [][\A a \in Scheduled :
          next[a] # 0 /\ next'[a] \notin {0, next[a]} =>
              \/ Existing(a, next[a]) # {}
              \/ \E r \in 1 .. Len(runs) : last'[a].run = r /\ runs[r].slot < 0]_uvars

\* One that can start is started, whatever becomes of the others in its list
\* (startDueAutomations: "one broken automation must not stop the others").
BrokenDoNotStop == \A a \in Scheduled \ Broken : Due(a) ~> ~Due(a)
===================================================================================
