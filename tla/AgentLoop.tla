--------------------------------- MODULE AgentLoop --------------------------------
(***************************************************************************)
(* The loop of an agent stage over its slices (lib/agent/loop.ts:          *)
(* runAgentLoop; lib/arms/base.ts: loopAnswer, which resumes it and keeps  *)
(* what it returned).                                                      *)
(*                                                                         *)
(* Each round asks the model for one decision, or makes the call a person  *)
(* has approved, and records one step.  What the loop knows lives in       *)
(* memory until the slice hands it back; a slice that dies, or whose       *)
(* checkpoint is not written, is taken up from the last one.  A loop that  *)
(* has ended is deleted before its answer is delivered; when that fails,   *)
(* the stage is begun anew with none.                                      *)
(*                                                                         *)
(* Left out: what the model is told and says, beyond which kind of         *)
(* decision it takes; task lists, notes, schemas, artifacts and the task   *)
(* kernel, which change no count and make no call; and the wrap-up call    *)
(* after the loop.  A call stands for a tool and its exact input, which    *)
(* the code compares by a hash of 32 bits and the length.                  *)
(***************************************************************************)
EXTENDS Integers

CONSTANTS
    Calls,            \* tool calls the model may decide on
    Changes,          \* those whose tool does more than read
    Gated,            \* those a person has to approve
    MaxSteps, MaxModelCalls, MaxToolCalls, MaxConsecutiveFailures,   \* LoopBounds
    MaxFaults         \* the bound on aborts, dead slices, false failures and new beginnings

ASSUME LoopAssumption ==
    /\ Gated \subseteq Calls /\ Changes \subseteq Calls
    /\ {MaxSteps, MaxModelCalls, MaxToolCalls, MaxConsecutiveFailures} \subseteq Nat \ {0}
    /\ MaxFaults \in Nat

VARIABLES
    at,           \* where the stage is: in a slice (four places), between two,
                  \* ended with its answer not yet delivered, or over
    loop,         \* the LoopState in memory,
    saved,        \* and the one in the checkpoint
    streak,       \* consecutiveFailures of the slice
    call,         \* the call that was decided on
    abort,        \* the slice's signal: none, a pause or its deadline
    decided,      \* the approval request for each call, and what it was answered
    happened,     \* how often each call took effect,
    unrecorded,   \* and how often the record of that was lost, with its slice or with
                  \* the loop that is begun anew
    faults

ghosts == <<happened, unrecorded>>
lvars == <<at, loop, saved, streak, call, abort, decided, ghosts, faults>>

NoCall == "none"

\* CallRecord; a count of 0 is no record.
Unmade == [ok |-> FALSE, count |-> 0]
EmptyState == [steps |-> 0, modelCalls |-> 0, toolCalls |-> 0, pending |-> NoCall,
               log |-> [c \in Calls |-> Unmade]]

LInit ==
    /\ at = "between"
    /\ loop = EmptyState
    /\ saved = EmptyState
    /\ streak = 0
    /\ call = NoCall
    /\ abort = "none"
    /\ decided = [c \in Gated |-> "none"]
    /\ happened = [c \in Calls |-> 0]
    /\ unrecorded = [c \in Calls |-> 0]
    /\ faults = 0

Fault == faults < MaxFaults /\ faults' = faults + 1

Stepped(state) == [state EXCEPT !.steps = @ + 1]

\* The slice hands this state back, and it becomes the checkpoint.
Return(state) ==
    /\ at' = "between"
    /\ loop' = state
    /\ saved' = state
    /\ UNCHANGED <<streak, call>>

\* The loop finished, or gave up: its state is deleted, and its answer is still to
\* be delivered.
End(state) ==
    /\ at' = "ended"
    /\ loop' = state
    /\ UNCHANGED <<saved, streak, call>>

\* The stage fails for good, with the loop it has kept.
FailForGood(state, kept) ==
    /\ at' = "over"
    /\ loop' = state
    /\ saved' = kept
    /\ UNCHANGED <<streak, call>>

\* The round is recorded and the next one begins.
Succeed(state) == at' = "top" /\ loop' = Stepped(state) /\ streak' = 0
Stumble(state) == at' = "top" /\ loop' = Stepped(state) /\ streak' = streak + 1

-----------------------------------------------------------------------------
(* A slice begins, is aborted, dies *)

Resume ==
    /\ at = "between"
    /\ at' = "top"
    /\ loop' = saved
    /\ streak' = 0
    /\ abort' = "none"
    /\ UNCHANGED <<saved, call, decided, ghosts, faults>>

InSlice == at \in {"top", "asked", "decided", "invoke"}

\* The person pauses the run, or the slice's time is up.
Abort ==
    /\ InSlice
    /\ abort = "none"
    /\ Fault
    /\ abort' \in {"pause", "deadline"}
    /\ UNCHANGED <<at, loop, saved, streak, call, decided, ghosts>>

Approved == call \in Gated => decided[call] = "approved"

\* The record of a change that is lost when the stage goes on from this state.
Lost(c, state) == IF c \in Changes /\ loop.log[c].ok /\ ~state.log[c].ok THEN 1 ELSE 0

\* The slice leaves the checkpoint it was given: its process dies, its lease is
\* lost or a hook throws, perhaps in the middle of a call that takes effect all
\* the same.  What it recorded is lost with it.
Crash ==
    /\ InSlice \/ at = "ended"
    /\ Fault
    /\ at' = "between"
    /\ \E cut \in IF at = "invoke" /\ Approved THEN {{}, {call}} ELSE {{}} :
          LET more(c) == IF c \in cut THEN 1 ELSE 0 IN
          /\ happened' = [c \in Calls |-> happened[c] + more(c)]
          /\ unrecorded' = [c \in Calls |-> unrecorded[c] + more(c) + Lost(c, saved)]
    /\ UNCHANGED <<loop, saved, streak, call, abort, decided>>

\* The answer is delivered, or the stage has failed for good.
Deliver ==
    /\ at = "ended"
    /\ at' = "over"
    /\ saved' = EmptyState
    /\ UNCHANGED <<loop, streak, call, abort, decided, ghosts, faults>>

\* Reconciling, the review of the team or the message of the answer throws, or a
\* loop that was not exhausted has no answer: the checkpoint is written without the
\* loop, and the stage is tried again.
StartOver ==
    /\ at = "ended"
    /\ Fault
    /\ at' = "between"
    /\ saved' = EmptyState
    /\ unrecorded' = [c \in Calls |-> unrecorded[c] + Lost(c, EmptyState)]
    /\ UNCHANGED <<loop, streak, call, abort, decided, happened>>

\* A person decides on a request, whether or not the stage still waits for it; a
\* call that is with the registry has been through the gate already.
Decide(c) ==
    /\ decided[c] = "requested"
    /\ at # "over"
    /\ ~(at = "invoke" /\ call = c)
    /\ \E answer \in {"approved", "rejected"} : decided' = [decided EXCEPT ![c] = answer]
    /\ UNCHANGED <<at, loop, saved, streak, call, abort, ghosts, faults>>

-----------------------------------------------------------------------------
(* The top of a round *)

\* Either abort gives the slice back with all it did.
StopAborted ==
    /\ at = "top"
    /\ abort # "none"
    /\ Return(loop)
    /\ UNCHANGED <<abort, decided, ghosts, faults>>

\* Mutant: the steps of this slice alone are counted.
ExhaustedBySlice ==
    \/ loop.steps - saved.steps >= MaxSteps
    \/ loop.modelCalls >= MaxModelCalls
    \/ streak >= MaxConsecutiveFailures

Exhausted ==
    \/ loop.steps >= MaxSteps
    \/ loop.modelCalls >= MaxModelCalls
    \/ streak >= MaxConsecutiveFailures

Exhaust ==
    /\ at = "top"
    /\ abort = "none"
    /\ Exhausted
    /\ End(loop)
    /\ UNCHANGED <<abort, decided, ghosts, faults>>

\* The wall clock, which is looked at before the failures: a coding stage yields,
\* any other is exhausted.
OutOfTime ==
    /\ at = "top"
    /\ abort = "none"
    /\ loop.steps < MaxSteps /\ loop.modelCalls < MaxModelCalls
    /\ Return(loop) \/ End(loop)
    /\ UNCHANGED <<abort, decided, ghosts, faults>>

\* The call an approval was requested for is made without asking the model.
Replay ==
    /\ at = "top"
    /\ abort = "none"
    /\ ~Exhausted
    /\ loop.pending # NoCall
    /\ at' = "decided"
    /\ call' = loop.pending
    /\ loop' = [loop EXCEPT !.pending = NoCall]
    /\ UNCHANGED <<saved, streak, abort, decided, ghosts, faults>>

Ask ==
    /\ at = "top"
    /\ abort = "none"
    /\ ~Exhausted
    /\ loop.pending = NoCall
    /\ at' = "asked"
    /\ loop' = [loop EXCEPT !.modelCalls = @ + 1]
    /\ UNCHANGED <<saved, streak, call, abort, decided, ghosts, faults>>

-----------------------------------------------------------------------------
(* The decision *)

Uncharged == [loop EXCEPT !.modelCalls = @ - 1]

\* A pause cuts the model short, and the call is not counted.
AskPaused ==
    /\ at = "asked"
    /\ abort = "pause"
    /\ Return(Uncharged)
    /\ UNCHANGED <<abort, decided, ghosts, faults>>

\* The provider refuses: recorded, not counted, and taken up again or failed for
\* good; the loop is kept.
Refused ==
    /\ at = "asked"
    /\ abort # "pause"
    /\ LET state == Stepped(Uncharged) IN Return(state) \/ FailForGood(state, state)
    /\ UNCHANGED <<abort, decided, ghosts, faults>>

\* An unusable reply, one cut off by the deadline, an answer the finish gate
\* holds back, or a worker that cannot be had.
BadDecision ==
    /\ at = "asked"
    /\ Stumble(loop)
    /\ UNCHANGED <<saved, call, abort, decided, ghosts, faults>>

\* Schemas, workers, memory, artifacts, verification, a new plan.
OtherStep ==
    /\ at = "asked"
    /\ Succeed(loop)
    /\ UNCHANGED <<saved, call, abort, decided, ghosts, faults>>

\* A question, a wait or a yield.
Park ==
    /\ at = "asked"
    /\ Return(Stepped(loop))
    /\ UNCHANGED <<abort, decided, ghosts, faults>>

Finish ==
    /\ at = "asked"
    /\ End(Stepped(loop))
    /\ UNCHANGED <<abort, decided, ghosts, faults>>

UseTool(c) ==
    /\ at = "asked"
    /\ at' = "decided"
    /\ call' = c
    /\ UNCHANGED <<loop, saved, streak, abort, decided, ghosts, faults>>

-----------------------------------------------------------------------------
(* The call *)

\* Mutant: a change is repeated like a read.
RepeatedAsRead(c) ==
    LET prior == loop.log[c] IN
    /\ prior.count > 0
    /\ prior.count >= (IF prior.ok THEN 3 ELSE 2)

\* repeatedCallNote: a call that succeeded is not made again if it changes
\* something, and not more than three times if it reads; one that failed last is
\* made a second time at most.
Repeated(c) ==
    LET prior == loop.log[c] IN
    /\ prior.count > 0
    /\ prior.count >= (IF ~prior.ok THEN 2 ELSE IF c \in Changes THEN 1 ELSE 3)

Allowed(c) == ~Repeated(c) /\ loop.toolCalls < MaxToolCalls

\* A repetition, or the tool budget is spent: the model is told.
HoldCall ==
    /\ at = "decided"
    /\ ~Allowed(call)
    /\ Stumble(loop)
    /\ UNCHANGED <<saved, call, abort, decided, ghosts, faults>>

\* Mutant: a call is charged only by its answer, and refunded like any other.
InvokeUncharged ==
    /\ at = "decided"
    /\ Allowed(call)
    /\ at' = "invoke"
    /\ decided' = [c \in Gated |-> IF c = call /\ decided[c] = "none" THEN "requested"
                                  ELSE decided[c]]
    /\ UNCHANGED <<loop, saved, streak, call, abort, ghosts, faults>>

\* The call is charged and goes to the registry, whose gate files a request if
\* there is none.
Invoke ==
    /\ at = "decided"
    /\ Allowed(call)
    /\ at' = "invoke"
    /\ loop' = [loop EXCEPT !.toolCalls = @ + 1]
    /\ decided' = [c \in Gated |-> IF c = call /\ decided[c] = "none" THEN "requested"
                                  ELSE decided[c]]
    /\ UNCHANGED <<saved, streak, call, abort, ghosts, faults>>

\* The gate has no decision yet: the call waits, is not counted, and the stage
\* parks.
NeedsApproval ==
    /\ at = "invoke"
    /\ abort # "pause"
    /\ call \in Gated /\ decided[call] = "requested"
    /\ Return(Stepped([loop EXCEPT !.pending = call, !.toolCalls = @ - 1]))
    /\ UNCHANGED <<abort, decided, ghosts, faults>>

Noted(ok) == [loop EXCEPT !.log[call] = [ok |-> ok, count |-> @.count + 1]]
Happens == happened' = [happened EXCEPT ![call] = @ + 1]
HappensUnrecorded == Happens /\ unrecorded' = [unrecorded EXCEPT ![call] = @ + 1]

CallSucceeds ==
    /\ at = "invoke"
    /\ Approved
    /\ Succeed(Noted(TRUE))
    /\ Happens
    /\ UNCHANGED <<saved, call, abort, decided, unrecorded, faults>>

\* Rejected, refused or failed; a call that is cut off by the deadline, or whose
\* answer is lost, may have taken effect.
CallFails ==
    /\ at = "invoke"
    /\ call \in Gated => decided[call] # "requested"
    /\ Stumble(Noted(FALSE))
    /\ \/ UNCHANGED <<ghosts, faults>>
       \/ Approved /\ HappensUnrecorded /\ (IF abort = "deadline" THEN UNCHANGED faults ELSE Fault)
    /\ UNCHANGED <<saved, call, abort, decided>>

\* A pause cuts the call off: counted, but neither a step nor in the log.
CallPaused ==
    /\ at = "invoke"
    /\ abort = "pause"
    /\ Return(loop)
    /\ \/ UNCHANGED ghosts
       \/ Approved /\ HappensUnrecorded
    /\ UNCHANGED <<abort, decided, faults>>

\* The call leaves the task of a coding run, which ends the stage.
CallLeavesTask ==
    /\ at = "invoke"
    /\ FailForGood(loop, saved)
    /\ UNCHANGED <<abort, decided, ghosts, faults>>

Round ==
    \/ StopAborted \/ Exhaust \/ OutOfTime \/ Replay \/ Ask
    \/ AskPaused \/ Refused \/ BadDecision \/ OtherStep \/ Park \/ Finish
    \/ \E c \in Calls : UseTool(c)
    \/ HoldCall \/ Invoke \/ NeedsApproval \/ CallSucceeds \/ CallFails \/ CallPaused
    \/ CallLeavesTask

\* A stage that has completed, or failed for good, stays so.
Over == at = "over" /\ UNCHANGED lvars

LNext ==
    \/ Resume \/ Abort \/ Crash \/ Deliver \/ StartOver \/ Over
    \/ \E c \in Gated : Decide(c)
    \/ Round

LSpec == LInit /\ [][LNext]_lvars

-----------------------------------------------------------------------------
(* Properties *)

LoopStates == [steps : 0 .. MaxSteps, modelCalls : 0 .. MaxModelCalls,
               toolCalls : 0 .. MaxToolCalls, pending : Calls \cup {NoCall},
               log : [Calls -> [ok : BOOLEAN, count : Nat]]]

\* The types, among them the bounds: the steps, model calls and tool calls of a
\* LoopState hold across slices, whatever is refunded on the way
\* (LoopBounds.yieldOnWallClock: "still hold across slices").  A stage begun anew
\* after its loop ended counts from nothing.
LoopTypeOK ==
    /\ at \in {"between", "top", "asked", "decided", "invoke", "ended", "over"}
    /\ loop \in LoopStates
    /\ saved \in LoopStates
    /\ streak \in 0 .. MaxConsecutiveFailures
    /\ call \in Calls \cup {NoCall}
    /\ abort \in {"none", "pause", "deadline"}
    /\ decided \in [Gated -> {"none", "requested", "approved", "rejected"}]
    /\ happened \in [Calls -> Nat]
    /\ unrecorded \in [Calls -> Nat]
    /\ faults \in Nat

\* A change that took effect takes effect again only where the record of it was
\* lost: the call was cut off, failed falsely, its slice left no checkpoint, or the
\* loop that recorded it ended and the stage was begun anew.  As long as the log
\* is kept, repeatedCallNote holds the repetition back ("must not happen twice").
ChangesOnce == \A c \in Changes : happened[c] <= 1 + unrecorded[c]

NoLess(new, old) ==
    /\ old.steps <= new.steps /\ old.modelCalls <= new.modelCalls /\ old.toolCalls <= new.toolCalls
    /\ \A c \in Calls : old.log[c].count <= new.log[c].count

\* A slice never falls behind what it was given, and what it hands back is no less:
\* a refund for a model call that was paused or refused, or for a call that waits
\* for its approval, takes back a charge of that slice, and the log of calls only
\* grows.  So what a slice is charged is never cut off at nothing
\* (sliceBudgetDelta: "The delta is the new calls only").  Only a loop that has
\* ended is deleted, and its slice is charged for it all the same.
ChargesGoForward ==
    [][InSlice => /\ NoLess(saved', saved)
                  /\ at' # "between" => NoLess(loop', saved)]_lvars
===================================================================================
