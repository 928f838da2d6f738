------------------------------- MODULE ActionLedger -------------------------------
(***************************************************************************)
(* The ledger of external actions kept in a run's mission (lib/tools/      *)
(* registry.ts: invoke; lib/arms/horizon-runtime.ts: missionLedger;        *)
(* lib/agent/long-horizon.ts: recordAction; lib/runtime/missions.ts).      *)
(*                                                                         *)
(* An external call is looked up, perhaps put to a person, announced by an *)
(* intent, made, and closed by a done or failed entry.  Lookup and entries *)
(* are accesses of their own to one versioned row, which every slice of    *)
(* the run changes by compare-and-set: two slices that run at once, one of *)
(* them perhaps a zombie, get between any two.                             *)
(*                                                                         *)
(* Left out: which tools exist, their input (a key stands for a tool and a *)
(* hash of its input), and the cap of 200 entries, which the 100 tool      *)
(* calls of a run's budget never reach.                                    *)
(***************************************************************************)
EXTENDS Integers

CONSTANTS
    Slices,      \* slices of the run that execute at once
    Keys,        \* external actions: tool and input
    Gated,       \* those a person has to approve
    MaxTries,    \* updateMission's attempts
    MaxCalls,    \* the bound on calls of one action
    MaxNotes,    \* the bound on other updates of the mission
    MaxFaults    \* the bound on deaths, failed reads and lost answers

ASSUME LedgerAssumption ==
    /\ Gated \subseteq Keys
    /\ MaxTries \in Nat \ {0}
    /\ MaxCalls \in Nat
    /\ MaxNotes \in Nat
    /\ MaxFaults \in Nat

VARIABLES
    mission,   \* the row of osirus.run_missions
    slice,     \* where each slice is in invoke or updateMission
    calls,     \* how often each action was let go under the ledger
    effects,   \* how often it came back well, with the ledger or without
    failures,  \* how often a failed entry was written,
    over,      \* and how often an intent replaced an entry its lookup missed
    noted,     \* how many other updates were committed
    faults

counted == <<calls, effects, failures, over, noted>>
avars == <<mission, slice, counted, faults>>

\* The entry actionState finds; "none" is its null.
Phases == {"none", "intent", "done", "failed"}
Entries == [Keys -> Phases]
MissionRow == [version : Nat, actions : Entries]

Points == {"off", "on", "asked", "load", "save", "call"}

Fresh == [version |-> 1, actions |-> [k \in Keys |-> "none"]]

\* What a slice is about: the action, what its lookup found, the entry it wants
\* written ("note" is any other update), the row updateMission loaded and the
\* tries it has made.
At(point, ledger) == [at |-> point, ledger |-> ledger, key |-> "", prior |-> "none",
                      entry |-> "", seen |-> Fresh, tries |-> 0]

AInit ==
    /\ mission = Fresh
    /\ slice = [s \in Slices |-> At("off", FALSE)]
    /\ calls = [k \in Keys |-> 0]
    /\ effects = [k \in Keys |-> 0]
    /\ failures = [k \in Keys |-> 0]
    /\ over = [k \in Keys |-> 0]
    /\ noted = 0
    /\ faults = 0

Go(s, next) == slice' = [slice EXCEPT ![s] = next]
Fault == faults < MaxFaults /\ faults' = faults + 1
Back(s) == Go(s, At("on", slice[s].ledger))

-----------------------------------------------------------------------------
\* A slice attaches the ledger: missionLedger reads the mission, and a failed
\* read leaves the registry without one.
Begin(s) ==
    /\ slice[s].at = "off"
    /\ Go(s, At("on", TRUE))
    /\ UNCHANGED <<mission, counted, faults>>

BeginBare(s) ==
    /\ slice[s].at = "off"
    /\ Fault
    /\ Go(s, At("on", FALSE))
    /\ UNCHANGED <<mission, counted>>

Die(s) ==
    /\ slice[s].at # "off"
    /\ Fault
    /\ Go(s, At("off", FALSE))
    /\ UNCHANGED <<mission, counted>>

\* updateMission is called with a change of its own.
Update(s, k, entry) ==
    Go(s, [slice[s] EXCEPT !.at = "load", !.key = k, !.entry = entry, !.tries = 0])

\* A call that nothing stands against: it asks the gate first, or goes on to
\* announce itself, or is simply made when there is no ledger.
Proceed(s, k, prior) ==
    LET call == [slice[s] EXCEPT !.key = k, !.prior = prior] IN
    IF k \in Gated THEN Go(s, [call EXCEPT !.at = "asked"])
    ELSE IF slice[s].ledger THEN Go(s, [call EXCEPT !.at = "load", !.entry = "intent"])
    ELSE Go(s, [call EXCEPT !.at = "call"])

MayCall(k) == calls[k] < MaxCalls /\ effects[k] < MaxCalls

\* Mutant: an intent without an end does not stop the call.
InvokeAfterIntent(s, k) ==
    LET prior == IF slice[s].ledger THEN mission.actions[k] ELSE "none" IN
    /\ slice[s].at = "on"
    /\ MayCall(k)
    /\ prior # "done"
    /\ Proceed(s, k, prior)
    /\ UNCHANGED <<mission, counted, faults>>

\* invoke looks the action up.  A done entry is replayed and an open intent
\* refused: neither changes anything.
Invoke(s, k) ==
    LET prior == IF slice[s].ledger THEN mission.actions[k] ELSE "none" IN
    /\ slice[s].at = "on"
    /\ MayCall(k)
    /\ prior \in {"none", "failed"}
    /\ Proceed(s, k, prior)
    /\ UNCHANGED <<mission, counted, faults>>

\* The lookup fails and counts as no entry.
InvokeBlind(s, k) ==
    /\ slice[s].at = "on"
    /\ slice[s].ledger
    /\ MayCall(k)
    /\ Fault
    /\ Proceed(s, k, "none")
    /\ UNCHANGED <<mission, counted>>

\* The gate answers: approved, or pending or rejected, which ends the call.
Approved(s) ==
    /\ slice[s].at = "asked"
    /\ IF slice[s].ledger THEN Update(s, slice[s].key, "intent")
       ELSE Go(s, [slice[s] EXCEPT !.at = "call"])
    /\ UNCHANGED <<mission, counted, faults>>

NotApproved(s) ==
    /\ slice[s].at = "asked"
    /\ Back(s)
    /\ UNCHANGED <<mission, counted, faults>>

\* Any other update of the mission: recordActivity, a wait, a reconciled goal.
Note(s) ==
    /\ slice[s].at = "on"
    /\ noted < MaxNotes
    /\ Update(s, "", "note")
    /\ UNCHANGED <<mission, counted, faults>>

-----------------------------------------------------------------------------
(* updateMission *)

Load(s) ==
    /\ slice[s].at = "load"
    /\ Go(s, [slice[s] EXCEPT !.at = "save", !.seen = mission])
    /\ UNCHANGED <<mission, counted, faults>>

\* What the change makes of the row that was loaded (recordAction: the entry of
\* the key is replaced).
Changed(row, k, entry) ==
    [version |-> row.version + 1,
     actions |-> IF entry = "note" THEN row.actions ELSE [row.actions EXCEPT ![k] = entry]]

\* What a commit counts, an intent when it replaces what its lookup missed.
Count(s) ==
    LET k == slice[s].key
        entry == slice[s].entry
        missed == /\ mission.actions[k] \in {"intent", "done"}
                  /\ slice[s].prior \in {"none", "failed"} IN
    /\ over' = IF entry = "intent" /\ missed THEN [over EXCEPT ![k] = @ + 1] ELSE over
    /\ failures' = IF entry = "failed" THEN [failures EXCEPT ![k] = @ + 1] ELSE failures
    /\ noted' = IF entry = "note" THEN noted + 1 ELSE noted

\* Mutant: the row is written whatever its version.
CommitOver(s) ==
    /\ mission' = Changed(slice[s].seen, slice[s].key, slice[s].entry)
    /\ Count(s)

\* The compare-and-set.
Commit(s) ==
    /\ mission.version = slice[s].seen.version
    /\ mission' = Changed(slice[s].seen, slice[s].key, slice[s].entry)
    /\ Count(s)

\* The announced call is made; it is counted although its process may die first.
LetGo(s) ==
    /\ Go(s, [slice[s] EXCEPT !.at = "call"])
    /\ calls' = [calls EXCEPT ![slice[s].key] = @ + 1]

\* The update is in: an announced call is let go, anything else is over.
Save(s) ==
    /\ slice[s].at = "save"
    /\ Commit(s)
    /\ IF slice[s].entry = "intent" THEN LetGo(s) ELSE Back(s) /\ UNCHANGED calls
    /\ UNCHANGED <<effects, faults>>

\* Mutant: one try too many.
SaveConflictsOnce(s) ==
    /\ slice[s].at = "save"
    /\ mission.version # slice[s].seen.version
    /\ IF slice[s].tries < MaxTries
       THEN Go(s, [slice[s] EXCEPT !.at = "load", !.tries = @ + 1]) ELSE Back(s)
    /\ UNCHANGED <<mission, counted, faults>>

\* Somebody else's update came first: load again, or throw after the last try,
\* which every caller swallows: an unannounced call is not made.
SaveConflicts(s) ==
    /\ slice[s].at = "save"
    /\ mission.version # slice[s].seen.version
    /\ IF slice[s].tries + 1 < MaxTries
       THEN Go(s, [slice[s] EXCEPT !.at = "load", !.tries = @ + 1]) ELSE Back(s)
    /\ UNCHANGED <<mission, counted, faults>>

\* The database fails the load or the save, which may have been committed.
UpdateFails(s) ==
    /\ slice[s].at \in {"load", "save"}
    /\ Fault
    /\ Back(s)
    /\ \/ UNCHANGED <<mission, failures, over, noted>>
       \/ slice[s].at = "save" /\ Commit(s)
    /\ UNCHANGED <<calls, effects>>

-----------------------------------------------------------------------------
\* tool.run: the call leaves Osirus and comes back, well or with an error, and
\* its end is written down.
Call(s) ==
    LET k == slice[s].key IN
    /\ slice[s].at = "call"
    /\ \E entry \in {"done", "failed"} :
          /\ effects' = IF entry = "done" THEN [effects EXCEPT ![k] = @ + 1] ELSE effects
          /\ IF slice[s].ledger THEN Update(s, k, entry) ELSE Back(s)
    /\ UNCHANGED <<mission, calls, failures, over, noted, faults>>

End(s) ==
    /\ slice[s].at = "on"
    /\ Go(s, At("off", FALSE))
    /\ UNCHANGED <<mission, counted, faults>>

ANext ==
    \E s \in Slices :
        \/ Begin(s) \/ BeginBare(s) \/ Die(s) \/ End(s)
        \/ Approved(s) \/ NotApproved(s) \/ Note(s)
        \/ Load(s) \/ Save(s) \/ SaveConflicts(s) \/ UpdateFails(s) \/ Call(s)
        \/ \E k \in Keys : Invoke(s, k) \/ InvokeBlind(s, k)

ASpec == AInit /\ [][ANext]_avars

-----------------------------------------------------------------------------
(* Properties *)

SliceState == [at : Points, ledger : BOOLEAN, key : Keys \cup {""}, prior : Phases,
               entry : {"", "note", "intent", "done", "failed"},
               seen : MissionRow, tries : 0 .. MaxTries - 1]

ATypeOK ==
    /\ mission \in MissionRow
    /\ slice \in [Slices -> SliceState]
    /\ calls \in [Keys -> Nat]
    /\ effects \in [Keys -> Nat]
    /\ failures \in [Keys -> Nat]
    /\ over \in [Keys -> Nat]
    /\ noted \in Nat
    /\ faults \in Nat

\* No call of a slice that has its ledger goes out unannounced, and no later
\* update of the mission, by whoever, loses the announcement
\* (registry.ts: "fail closed").
CalledIsRecorded == \A k \in Keys : calls[k] > 0 => mission.actions[k] # "none"

\* A call is repeated only after a failure of it was written down, or by a slice
\* whose lookup missed the entry another one wrote: one further call each.
\* Deaths in the middle of a call, lost answers and lost races repeat nothing.
RepeatsAreAccounted == \A k \in Keys : calls[k] <= 1 + failures[k] + over[k]

-----------------------------------------------------------------------------
(* Refinement *)

\* A slice has its announced call out from LetGo until the end is written.
Flight(state) ==
    IF \/ state.at = "call" /\ state.ledger
       \/ state.at \in {"load", "save"} /\ state.entry \in {"done", "failed"}
    THEN {state.key} ELSE {}

Book == INSTANCE ActionBook WITH
    Workers <- Slices,
    entry <- mission.actions,
    flight <- [s \in Slices |-> Flight(slice[s])],
    made <- calls,
    redone <- over,
    failed <- failures

\* To its callers the mission behaves like a book changed in one step at a time:
\* between the load and the save of an update nobody else's entry gets lost, and
\* no end is written for a call that is not in flight (missions.ts: "so two
\* stages reconciling at once both land").
ImplementsBook == Book!Spec

===================================================================================
