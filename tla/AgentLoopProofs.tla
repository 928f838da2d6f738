----------------------------- MODULE AgentLoopProofs ------------------------------
(***************************************************************************)
(* What holds of an agent loop over any number of slices, aborts and lost  *)
(* checkpoints: its bounds, and that a change is made once, and once more  *)
(* for each record of it that was lost with a slice or a loop.             *)
(***************************************************************************)
EXTENDS AgentLoop, TLAPS

\* What a round has checked before it goes on.
Charged ==
    /\ at \in {"asked", "decided", "invoke"} =>
          loop.steps < MaxSteps /\ streak < MaxConsecutiveFailures
    /\ at = "asked" => loop.modelCalls > 0
    /\ at = "invoke" => loop.toolCalls > 0
    /\ at \in {"decided", "invoke"} => call \in Calls

WellLogged(state) == \A c \in Calls : state.log[c].ok => state.log[c].count > 0

Rec(state, c) == IF state.log[c].ok THEN 1 ELSE 0

\* The loop that counts: the one in memory, or the checkpoint between slices.
Current == IF at = "between" THEN saved ELSE loop

\* Each effect of a change is in the log or was lost.
Recorded ==
    \A c \in Changes :
        /\ happened[c] = unrecorded[c] + Rec(Current, c)
        /\ InSlice \/ at = "ended" => (saved.log[c].ok => loop.log[c].ok)
        /\ at = "invoke" /\ call = c => ~loop.log[c].ok

LInv == LoopTypeOK /\ Charged /\ WellLogged(loop) /\ WellLogged(saved) /\ Recorded

-----------------------------------------------------------------------------
(* The bounds are kept by what a round does to its state. *)

LEMMA SteppedIsState ==
    ASSUME LoopAssumption, NEW state \in LoopStates, state.steps < MaxSteps
    PROVE  Stepped(state) \in LoopStates /\ Stepped(state).log = state.log
  BY DEF LoopAssumption, LoopStates, Stepped

LEMMA UnchargedIsState ==
    ASSUME LoopAssumption, loop \in LoopStates, loop.modelCalls > 0
    PROVE  Uncharged \in LoopStates /\ Uncharged.log = loop.log /\ Uncharged.steps = loop.steps
  BY DEF LoopAssumption, LoopStates, Uncharged

\* What every step leaves typed that is not the loop.
Rest == /\ abort' \in {"none", "pause", "deadline"}
        /\ decided' \in [Gated -> {"none", "requested", "approved", "rejected"}]
        /\ faults' \in Nat

\* A slice hands back a state with the log it has.
LEMMA ReturnKeeps ==
    ASSUME LInv, InSlice, NEW state \in LoopStates, state.log = loop.log,
           Return(state), UNCHANGED ghosts, Rest
    PROVE  LInv'
  <1>1. LoopTypeOK'
    BY DEF LInv, LoopTypeOK, Return, Rest, ghosts
  <1>2. Charged'
    BY DEF Return, Charged
  <1>3. WellLogged(loop)' /\ WellLogged(saved)'
    BY DEF LInv, WellLogged, Return
  <1>4. Recorded'
    BY DEF LInv, Recorded, Return, Rec, Current, InSlice, ghosts
  <1>. QED
    BY <1>1, <1>2, <1>3, <1>4 DEF LInv

\* It ends.
LEMMA EndKeeps ==
    ASSUME LInv, InSlice, NEW state \in LoopStates, state.log = loop.log,
           End(state), UNCHANGED ghosts, Rest
    PROVE  LInv'
  <1>1. LoopTypeOK'
    BY DEF LInv, LoopTypeOK, End, Rest, ghosts
  <1>2. Charged'
    BY DEF End, Charged
  <1>3. WellLogged(loop)' /\ WellLogged(saved)'
    BY DEF LInv, WellLogged, End
  <1>4. Recorded'
    BY DEF LInv, Recorded, End, Rec, Current, InSlice, ghosts
  <1>. QED
    BY <1>1, <1>2, <1>3, <1>4 DEF LInv

\* The stage fails for good.
LEMMA FailKeeps ==
    ASSUME LInv, InSlice, NEW state \in LoopStates, state.log = loop.log,
           NEW kept \in {state, saved}, FailForGood(state, kept), UNCHANGED ghosts, Rest
    PROVE  LInv'
  <1>1. LoopTypeOK'
    BY DEF LInv, LoopTypeOK, FailForGood, Rest, ghosts
  <1>2. Charged'
    BY DEF FailForGood, Charged
  <1>3. WellLogged(loop)' /\ WellLogged(saved)'
    BY DEF LInv, WellLogged, FailForGood
  <1>4. Recorded'
    BY DEF LInv, Recorded, FailForGood, Rec, Current, InSlice, ghosts
  <1>. QED
    BY <1>1, <1>2, <1>3, <1>4 DEF LInv

\* A round goes on, or the next begins, with the log as it was.
LEMMA GoOnKeeps ==
    ASSUME LInv, InSlice, at' \in {"top", "asked", "decided"},
           loop' \in LoopStates, loop'.log = loop.log,
           streak' \in 0 .. MaxConsecutiveFailures, call' \in Calls \cup {NoCall},
           UNCHANGED <<saved, ghosts>>, Rest, Charged'
    PROVE  LInv'
  <1>1. LoopTypeOK'
    BY DEF LInv, LoopTypeOK, Rest, ghosts
  <1>2. WellLogged(loop)' /\ WellLogged(saved)'
    BY DEF LInv, WellLogged
  <1>3. Recorded'
    BY DEF LInv, Recorded, Rec, Current, InSlice, ghosts
  <1>. QED
    BY <1>1, <1>2, <1>3 DEF LInv

-----------------------------------------------------------------------------

LEMMA EmptyIsState ==
    /\ EmptyState \in LoopStates /\ WellLogged(EmptyState)
    /\ \A c \in Calls : EmptyState.log[c] = Unmade
  <1>1. EmptyState \in LoopStates
    BY LoopAssumption DEF LoopAssumption, EmptyState, LoopStates, Unmade
  <1>2. \A c \in Calls : EmptyState.log[c] = Unmade
    BY DEF EmptyState
  <1>. QED
    BY <1>1, <1>2 DEF WellLogged, Unmade

LEMMA InitLInv == LInit => LInv
  <1>. SUFFICES ASSUME LInit PROVE LInv
    OBVIOUS
  <1>1. EmptyState \in LoopStates
    BY EmptyIsState
  <1>2. \A c \in Calls : EmptyState.log[c] = Unmade
    BY EmptyIsState
  <1>3. LoopTypeOK
    BY <1>1, LoopAssumption DEF LInit, LoopTypeOK, LoopAssumption
  <1>4. Charged
    BY DEF LInit, Charged
  <1>5. WellLogged(loop) /\ WellLogged(saved)
    BY <1>2 DEF LInit, WellLogged, Unmade
  <1>6. Recorded
    <2>. SUFFICES ASSUME NEW c \in Changes
                  PROVE  happened[c] = unrecorded[c] + Rec(saved, c)
      BY DEF LInit, Recorded, Current, InSlice, Rec
    <2>1. c \in Calls
      BY LoopAssumption DEF LoopAssumption
    <2>2. happened[c] = 0 /\ unrecorded[c] = 0
      BY <2>1 DEF LInit
    <2>3. ~saved.log[c].ok
      BY <1>2, <2>1 DEF LInit, Unmade
    <2>. QED
      BY <2>2, <2>3 DEF Rec
  <1>. QED
    BY <1>3, <1>4, <1>5, <1>6 DEF LInv

LEMMA SliceSteps ==
    ASSUME LInv, Resume \/ Abort \/ \E c \in Gated : Decide(c)
    PROVE  LInv'
  <1>1. CASE Resume
    <2>1. LoopTypeOK'
      BY <1>1, LoopAssumption DEF Resume, LInv, LoopTypeOK, ghosts, LoopAssumption
    <2>2. Charged'
      BY <1>1 DEF Resume, Charged
    <2>3. WellLogged(loop)' /\ WellLogged(saved)'
      BY <1>1 DEF Resume, LInv, WellLogged
    <2>4. Recorded'
      BY <1>1 DEF Resume, LInv, Recorded, Rec, Current, InSlice, ghosts
    <2>. QED
      BY <2>1, <2>2, <2>3, <2>4 DEF LInv
  <1>2. CASE Abort \/ \E c \in Gated : Decide(c)
    <2>1. UNCHANGED <<at, loop, saved, streak, call, ghosts>> /\ Rest
      BY <1>2 DEF Abort, Decide, Fault, Rest, LInv, LoopTypeOK
    <2>2. LoopTypeOK'
      BY <2>1 DEF LInv, LoopTypeOK, Rest, ghosts
    <2>3. Charged' /\ WellLogged(loop)' /\ WellLogged(saved)'
      BY <2>1 DEF LInv, Charged, WellLogged
    <2>4. Recorded'
      BY <2>1 DEF LInv, Recorded, Rec, Current, InSlice, ghosts
    <2>. QED
      BY <2>2, <2>3, <2>4 DEF LInv
  <1>. QED
    BY <1>1, <1>2

\* What a dead slice recorded since the checkpoint is lost, and nothing else.
LEMMA CrashStep ==
    ASSUME LInv, Crash
    PROVE  LInv'
  <1>1. PICK cut \in IF at = "invoke" /\ Approved THEN {{}, {call}} ELSE {{}} :
          /\ happened' = [c \in Calls |-> happened[c] + (IF c \in cut THEN 1 ELSE 0)]
          /\ unrecorded' = [c \in Calls |-> unrecorded[c] + (IF c \in cut THEN 1 ELSE 0)
                                             + Lost(c, saved)]
    BY DEF Crash
  <1>2. (InSlice \/ at = "ended") /\ at' = "between" /\ faults' = faults + 1
        /\ UNCHANGED <<loop, saved, streak, call, abort, decided>>
    BY DEF Crash, Fault
  <1>3. LoopTypeOK'
    BY <1>1, <1>2 DEF LInv, LoopTypeOK, Lost
  <1>4. Charged' /\ WellLogged(loop)' /\ WellLogged(saved)'
    BY <1>2 DEF LInv, Charged, WellLogged
  <1>5. Recorded'
    <2>. SUFFICES ASSUME NEW c \in Changes
                  PROVE  happened'[c] = unrecorded'[c] + Rec(saved, c)
      BY <1>2 DEF Recorded, Current, InSlice, Rec
    <2>1. c \in Calls /\ happened[c] \in Nat /\ unrecorded[c] \in Nat
      BY LoopAssumption DEF LoopAssumption, LInv, LoopTypeOK
    <2>2. happened[c] = unrecorded[c] + Rec(loop, c) /\ (saved.log[c].ok => loop.log[c].ok)
      BY <1>2 DEF LInv, Recorded, Current, InSlice
    <2>3. Rec(loop, c) = Lost(c, saved) + Rec(saved, c)
      BY <2>2 DEF Rec, Lost
    <2>. QED
      BY <1>1, <2>1, <2>2, <2>3 DEF Rec, Lost
  <1>. QED
    BY <1>3, <1>4, <1>5 DEF LInv

\* A loop that is begun anew loses all it recorded.
LEMMA StartOverStep ==
    ASSUME LInv, StartOver
    PROVE  LInv'
  <1>1. /\ at = "ended" /\ at' = "between" /\ faults' = faults + 1 /\ saved' = EmptyState
        /\ unrecorded' = [c \in Calls |-> unrecorded[c] + Lost(c, EmptyState)]
        /\ UNCHANGED <<loop, streak, call, abort, decided, happened>>
    BY DEF StartOver, Fault
  <1>2. LoopTypeOK'
    BY <1>1, EmptyIsState DEF LInv, LoopTypeOK, Lost
  <1>3. Charged' /\ WellLogged(loop)' /\ WellLogged(saved)'
    BY <1>1, EmptyIsState DEF LInv, Charged, WellLogged
  <1>4. Recorded'
    <2>. SUFFICES ASSUME NEW c \in Changes
                  PROVE  happened'[c] = unrecorded'[c] + Rec(saved', c)
      BY <1>1 DEF Recorded, Current, InSlice, Rec
    <2>1. c \in Calls /\ happened[c] \in Nat /\ unrecorded[c] \in Nat
      BY LoopAssumption DEF LoopAssumption, LInv, LoopTypeOK
    <2>2. happened[c] = unrecorded[c] + Rec(loop, c)
      BY <1>1 DEF LInv, Recorded, Current
    <2>3. ~EmptyState.log[c].ok
      BY <2>1, EmptyIsState DEF Unmade
    <2>. QED
      BY <1>1, <2>1, <2>2, <2>3 DEF Rec, Lost
  <1>. QED
    BY <1>2, <1>3, <1>4 DEF LInv

LEMMA DeliverStep ==
    ASSUME LInv, Deliver
    PROVE  LInv'
  <1>1. /\ at = "ended" /\ at' = "over" /\ saved' = EmptyState
        /\ UNCHANGED <<loop, streak, call, abort, decided, happened, unrecorded, faults>>
    BY DEF Deliver, ghosts
  <1>2. LoopTypeOK'
    BY <1>1, EmptyIsState DEF LInv, LoopTypeOK
  <1>3. Charged' /\ WellLogged(loop)' /\ WellLogged(saved)'
    BY <1>1, EmptyIsState DEF LInv, Charged, WellLogged
  <1>4. Recorded'
    BY <1>1 DEF LInv, Recorded, Current, InSlice, Rec
  <1>. QED
    BY <1>2, <1>3, <1>4 DEF LInv

-----------------------------------------------------------------------------
\* The rounds that end the slice or the loop.
LEMMA StopSteps ==
    ASSUME LInv,
           \/ StopAborted \/ Exhaust \/ OutOfTime \/ AskPaused \/ Refused \/ Park \/ Finish
           \/ CallLeavesTask
    PROVE  LInv'
  <1>0. loop \in LoopStates /\ (at = "asked" => loop.modelCalls > 0 /\ loop.steps < MaxSteps)
    BY DEF LInv, LoopTypeOK, Charged
  <1>1. InSlice /\ UNCHANGED <<abort, decided, ghosts, faults>>
    BY DEF InSlice, StopAborted, Exhaust, OutOfTime, AskPaused, Refused, Park, Finish, CallLeavesTask
  <1>2. Rest
    BY <1>1 DEF Rest, LInv, LoopTypeOK
  <1>3. CASE StopAborted \/ Exhaust \/ OutOfTime \/ CallLeavesTask
    <2>1. Return(loop) \/ End(loop) \/ FailForGood(loop, saved)
      BY <1>3 DEF StopAborted, Exhaust, OutOfTime, CallLeavesTask
    <2>. QED
      BY <1>0, <1>1, <1>2, <2>1, ReturnKeeps, EndKeeps, FailKeeps
  <1>4. CASE AskPaused \/ Refused
    <2>1. Uncharged \in LoopStates /\ Uncharged.log = loop.log /\ Uncharged.steps < MaxSteps
      BY <1>0, <1>4, UnchargedIsState, LoopAssumption DEF AskPaused, Refused
    <2>2. Stepped(Uncharged) \in LoopStates /\ Stepped(Uncharged).log = loop.log
      BY <2>1, SteppedIsState, LoopAssumption
    <2>3. \/ Return(Uncharged) \/ Return(Stepped(Uncharged))
          \/ FailForGood(Stepped(Uncharged), Stepped(Uncharged))
      BY <1>4 DEF AskPaused, Refused
    <2>. QED
      BY <1>1, <1>2, <2>1, <2>2, <2>3, ReturnKeeps, FailKeeps
  <1>5. CASE Park \/ Finish
    <2>1. Stepped(loop) \in LoopStates /\ Stepped(loop).log = loop.log
      BY <1>0, <1>5, SteppedIsState, LoopAssumption DEF Park, Finish
    <2>2. Return(Stepped(loop)) \/ End(Stepped(loop))
      BY <1>5 DEF Park, Finish
    <2>. QED
      BY <1>1, <1>2, <2>1, <2>2, ReturnKeeps, EndKeeps
  <1>. QED
    BY <1>3, <1>4, <1>5

\* Those that ask, decide on a call, or go wrong before one.
LEMMA AskSteps ==
    ASSUME LInv,
           \/ Replay \/ Ask \/ BadDecision \/ OtherStep \/ HoldCall
           \/ \E c \in Calls : UseTool(c)
    PROVE  LInv'
  <1>0. /\ loop \in LoopStates /\ streak \in 0 .. MaxConsecutiveFailures
        /\ call \in Calls \cup {NoCall} /\ MaxConsecutiveFailures \in Nat \ {0}
        /\ MaxSteps \in Nat /\ MaxModelCalls \in Nat
    BY LoopAssumption DEF LInv, LoopTypeOK, LoopAssumption
  <1>1. InSlice /\ UNCHANGED <<saved, ghosts>> /\ Rest
    BY DEF InSlice, Rest, LInv, LoopTypeOK, Replay, Ask, BadDecision, OtherStep, HoldCall, UseTool
  <1>2. CASE Replay
    <2>1. /\ loop.steps < MaxSteps /\ streak < MaxConsecutiveFailures
          /\ loop.pending \in Calls
      BY <1>0, <1>2 DEF Replay, Exhausted, LoopStates
    <2>2. loop' \in LoopStates /\ loop'.log = loop.log /\ loop'.steps = loop.steps
      BY <1>0, <1>2 DEF Replay, LoopStates
    <2>3. Charged' /\ at' = "decided" /\ streak' = streak /\ call' \in Calls
      BY <1>2, <2>1, <2>2 DEF Replay, Charged
    <2>. QED
      BY <1>0, <1>1, <2>2, <2>3, GoOnKeeps
  <1>3. CASE Ask
    <2>1. loop.steps < MaxSteps /\ streak < MaxConsecutiveFailures /\ loop.modelCalls < MaxModelCalls
      BY <1>0, <1>3 DEF Ask, Exhausted, LoopStates
    <2>2. /\ loop' \in LoopStates /\ loop'.log = loop.log /\ loop'.steps = loop.steps
          /\ loop'.modelCalls > 0
      BY <1>0, <1>3, <2>1 DEF Ask, LoopStates
    <2>3. Charged' /\ at' = "asked" /\ streak' = streak /\ call' = call
      BY <1>3, <2>1, <2>2 DEF Ask, Charged
    <2>. QED
      BY <1>0, <1>1, <2>2, <2>3, GoOnKeeps
  <1>4. CASE BadDecision \/ OtherStep \/ HoldCall
    <2>1. loop.steps < MaxSteps /\ streak < MaxConsecutiveFailures
      BY <1>4 DEF LInv, Charged, BadDecision, OtherStep, HoldCall
    <2>2. Stepped(loop) \in LoopStates /\ Stepped(loop).log = loop.log
      BY <1>0, <2>1, SteppedIsState, LoopAssumption
    <2>3. /\ at' = "top" /\ loop' = Stepped(loop) /\ call' = call
          /\ streak' \in {0, streak + 1}
      BY <1>4 DEF BadDecision, OtherStep, HoldCall, Succeed, Stumble
    <2>4. Charged' /\ streak' \in 0 .. MaxConsecutiveFailures
      BY <1>0, <2>1, <2>3 DEF Charged
    <2>. QED
      BY <1>0, <1>1, <2>2, <2>3, <2>4, GoOnKeeps
  <1>5. CASE \E c \in Calls : UseTool(c)
    <2>1. at' = "decided" /\ call' \in Calls /\ UNCHANGED <<loop, streak>> /\ at = "asked"
      BY <1>5 DEF UseTool
    <2>2. Charged'
      BY <2>1 DEF LInv, Charged
    <2>. QED
      BY <1>0, <1>1, <2>1, <2>2, GoOnKeeps
  <1>. QED
    BY <1>2, <1>3, <1>4, <1>5

-----------------------------------------------------------------------------
(* The call *)

\* A change goes to the registry only if no success of it is in the log.
LEMMA InvokeStep ==
    ASSUME LInv, Invoke
    PROVE  LInv'
  <1>0. /\ loop \in LoopStates /\ call \in Calls
        /\ loop.steps < MaxSteps /\ streak < MaxConsecutiveFailures
        /\ ~Repeated(call) /\ loop.toolCalls < MaxToolCalls /\ MaxToolCalls \in Nat
        /\ at = "decided" /\ at' = "invoke" /\ loop' = [loop EXCEPT !.toolCalls = @ + 1]
        /\ UNCHANGED <<saved, streak, call, abort, ghosts, faults>>
    BY LoopAssumption DEF LInv, LoopTypeOK, Charged, Invoke, Allowed, LoopAssumption
  <1>1. loop' \in LoopStates /\ loop'.log = loop.log /\ loop'.toolCalls > 0 /\ loop'.steps = loop.steps
    BY <1>0 DEF LoopStates
  <1>2. decided' \in [Gated -> {"none", "requested", "approved", "rejected"}]
    BY DEF Invoke, LInv, LoopTypeOK
  <1>3. LoopTypeOK'
    BY <1>0, <1>1, <1>2 DEF LInv, LoopTypeOK, ghosts
  <1>4. Charged'
    BY <1>0, <1>1 DEF Charged
  <1>5. WellLogged(loop)' /\ WellLogged(saved)'
    BY <1>0, <1>1 DEF LInv, WellLogged
  <1>6. call \in Changes => ~loop.log[call].ok
    <2>1. loop.log[call] \in [ok : BOOLEAN, count : Nat]
      BY <1>0 DEF LoopStates
    <2>2. loop.log[call].ok => loop.log[call].count > 0
      BY <1>0 DEF LInv, WellLogged
    <2>. QED
      BY <1>0, <2>1, <2>2 DEF Repeated
  <1>7. Recorded'
    BY <1>0, <1>1, <1>6 DEF LInv, Recorded, Rec, Current, InSlice, ghosts
  <1>. QED
    BY <1>3, <1>4, <1>5, <1>7 DEF LInv

LEMMA ParkedCallSteps ==
    ASSUME LInv, NeedsApproval
    PROVE  LInv'
  <1>0. /\ loop \in LoopStates /\ call \in Calls /\ loop.steps < MaxSteps
        /\ loop.toolCalls > 0 /\ InSlice
    BY DEF LInv, LoopTypeOK, Charged, NeedsApproval, InSlice
  <1>. DEFINE state == [loop EXCEPT !.pending = call, !.toolCalls = @ - 1]
  <1>1. state \in LoopStates /\ state.log = loop.log /\ state.steps < MaxSteps
    <2>1. loop.toolCalls - 1 \in 0 .. MaxToolCalls
      BY <1>0, LoopAssumption DEF LoopStates, LoopAssumption
    <2>. DEFINE held == [loop EXCEPT !.pending = call]
    <2>2. held \in LoopStates /\ held.log = loop.log /\ held.steps = loop.steps
          /\ held.toolCalls = loop.toolCalls
      BY <1>0 DEF LoopStates
    <2>3. state = [held EXCEPT !.toolCalls = held.toolCalls - 1]
      OBVIOUS
    <2>. HIDE DEF held
    <2>. QED
      BY <1>0, <2>1, <2>2, <2>3 DEF LoopStates
  <1>2. Stepped(state) \in LoopStates /\ Stepped(state).log = loop.log
    BY <1>1, SteppedIsState, LoopAssumption
  <1>3. Return(Stepped(state)) /\ UNCHANGED ghosts /\ Rest
    BY DEF NeedsApproval, Rest, LInv, LoopTypeOK
  <1>. QED
    BY <1>0, <1>2, <1>3, ReturnKeeps

\* An effect without a success in the log is an effect unrecorded.
LEMMA CutCallSteps ==
    ASSUME LInv, CallPaused
    PROVE  LInv'
  <1>0. /\ loop \in LoopStates /\ call \in Calls /\ at = "invoke" /\ at' = "between"
        /\ loop' = loop /\ saved' = loop
        /\ UNCHANGED <<streak, call, abort, decided, faults>>
    BY DEF LInv, LoopTypeOK, Charged, CallPaused, Return
  <1>1. CASE UNCHANGED ghosts
    BY <1>0, <1>1, ReturnKeeps DEF CallPaused, InSlice, Rest, LInv, LoopTypeOK
  <1>2. CASE HappensUnrecorded
    <2>1. /\ happened' = [happened EXCEPT ![call] = @ + 1]
          /\ unrecorded' = [unrecorded EXCEPT ![call] = @ + 1]
          /\ happened \in [Calls -> Nat] /\ unrecorded \in [Calls -> Nat]
      BY <1>2 DEF HappensUnrecorded, Happens, LInv, LoopTypeOK
    <2>2. LoopTypeOK'
      BY <1>0, <2>1 DEF LInv, LoopTypeOK
    <2>3. Charged' /\ WellLogged(loop)' /\ WellLogged(saved)'
      BY <1>0 DEF LInv, Charged, WellLogged
    <2>4. Recorded'
      <3>. SUFFICES ASSUME NEW c \in Changes
                    PROVE  happened'[c] = unrecorded'[c] + Rec(loop, c)
        BY <1>0 DEF Recorded, Current, InSlice, Rec
      <3>1. c \in Calls /\ happened[c] = unrecorded[c] + Rec(loop, c)
        BY <1>0, LoopAssumption DEF LoopAssumption, LInv, Recorded, Current
      <3>. QED
        BY <2>1, <3>1 DEF Rec
    <2>. QED
      BY <2>2, <2>3, <2>4 DEF LInv
  <1>. QED
    BY <1>1, <1>2 DEF CallPaused

LEMMA NotedIsState ==
    ASSUME LoopAssumption, loop \in LoopStates, call \in Calls, NEW ok \in BOOLEAN
    PROVE  /\ Noted(ok) \in LoopStates /\ Noted(ok).steps = loop.steps
           /\ Noted(ok).log[call].ok = ok /\ Noted(ok).log[call].count > 0
           /\ \A c \in Calls \ {call} : Noted(ok).log[c] = loop.log[c]
  <1>1. /\ loop.log \in [Calls -> [ok : BOOLEAN, count : Nat]]
        /\ loop.log[call].count \in Nat
    BY DEF LoopStates
  <1>. DEFINE entry == [ok |-> ok, count |-> loop.log[call].count + 1]
  <1>2. entry \in [ok : BOOLEAN, count : Nat] /\ entry.ok = ok /\ entry.count > 0
    BY <1>1
  <1>3. Noted(ok) = [loop EXCEPT !.log = [loop.log EXCEPT ![call] = entry]]
    BY DEF Noted, LoopStates
  <1>. HIDE DEF entry
  <1>4. /\ [loop.log EXCEPT ![call] = entry] \in [Calls -> [ok : BOOLEAN, count : Nat]]
        /\ [loop.log EXCEPT ![call] = entry][call] = entry
        /\ \A c \in Calls \ {call} : [loop.log EXCEPT ![call] = entry][c] = loop.log[c]
    BY <1>1, <1>2
  <1>. QED
    BY <1>2, <1>3, <1>4 DEF LoopStates

\* The call came back, and the round is recorded with what came of it.
LEMMA EndCallSteps ==
    ASSUME LInv, CallSucceeds \/ CallFails
    PROVE  LInv'
  <1>0. /\ loop \in LoopStates /\ call \in Calls /\ at = "invoke" /\ at' = "top"
        /\ loop.steps < MaxSteps /\ streak < MaxConsecutiveFailures
        /\ UNCHANGED <<saved, call, abort, decided>> /\ faults' \in Nat
        /\ streak \in 0 .. MaxConsecutiveFailures /\ MaxConsecutiveFailures \in Nat
        /\ streak' \in {0, streak + 1}
    <2>1. /\ loop \in LoopStates /\ at = "invoke" /\ call \in Calls /\ faults \in Nat
          /\ loop.steps < MaxSteps /\ streak < MaxConsecutiveFailures
          /\ streak \in 0 .. MaxConsecutiveFailures /\ MaxConsecutiveFailures \in Nat
      BY LoopAssumption
         DEF LInv, LoopTypeOK, Charged, CallSucceeds, CallFails, LoopAssumption
    <2>2. at' = "top" /\ streak' \in {0, streak + 1} /\ UNCHANGED <<saved, call, abort, decided>>
      BY DEF CallSucceeds, CallFails, Succeed, Stumble
    <2>3. faults' \in {faults, faults + 1}
      BY DEF CallSucceeds, CallFails, Fault
    <2>. QED
      BY <2>1, <2>2, <2>3
  <1>1. PICK ok \in BOOLEAN :
           /\ loop' = Stepped(Noted(ok))
           /\ ok => happened' = [happened EXCEPT ![call] = @ + 1] /\ unrecorded' = unrecorded
           /\ ~ok => \/ UNCHANGED ghosts
                     \/ /\ happened' = [happened EXCEPT ![call] = @ + 1]
                        /\ unrecorded' = [unrecorded EXCEPT ![call] = @ + 1]
    <2>1. CASE CallSucceeds
      BY <2>1 DEF CallSucceeds, Succeed, Happens
    <2>2. CASE CallFails
      BY <2>2 DEF CallFails, Stumble, Happens, HappensUnrecorded
    <2>. QED
      BY <2>1, <2>2
  <1>2. /\ Noted(ok) \in LoopStates /\ Noted(ok).steps < MaxSteps
        /\ Noted(ok).log[call].ok = ok /\ Noted(ok).log[call].count > 0
        /\ \A c \in Calls \ {call} : Noted(ok).log[c] = loop.log[c]
    BY <1>0, NotedIsState, LoopAssumption
  <1>3. loop' \in LoopStates /\ loop'.log = Noted(ok).log
    BY <1>1, <1>2, SteppedIsState, LoopAssumption
  <1>. HIDE DEF Noted
  <1>4. happened \in [Calls -> Nat] /\ unrecorded \in [Calls -> Nat]
    BY DEF LInv, LoopTypeOK
  <1>5. LoopTypeOK'
    <2>1. happened' \in [Calls -> Nat] /\ unrecorded' \in [Calls -> Nat]
      BY <1>1, <1>4 DEF ghosts
    <2>2. streak' \in 0 .. MaxConsecutiveFailures
      BY <1>0
    <2>. QED
      BY <1>0, <1>3, <2>1, <2>2 DEF LInv, LoopTypeOK
  <1>6. Charged'
    BY <1>0 DEF Charged
  <1>7. WellLogged(loop)' /\ WellLogged(saved)'
    BY <1>0, <1>2, <1>3 DEF LInv, WellLogged
  <1>8. Recorded'
    <2>. SUFFICES ASSUME NEW c \in Changes
                  PROVE  /\ happened'[c] = unrecorded'[c] + Rec(loop', c)
                         /\ saved.log[c].ok => loop'.log[c].ok
      BY <1>0 DEF Recorded, Current, InSlice, Rec
    <2>1. /\ c \in Calls /\ happened[c] = unrecorded[c] + Rec(loop, c)
          /\ saved.log[c].ok => loop.log[c].ok
          /\ c = call => ~loop.log[c].ok
      BY <1>0, LoopAssumption DEF LoopAssumption, LInv, Recorded, Current, InSlice
    <2>2. CASE c = call
      BY <1>1, <1>2, <1>3, <1>4, <2>1, <2>2 DEF Rec, ghosts
    <2>3. CASE c # call
      BY <1>1, <1>2, <1>3, <1>4, <2>1, <2>3 DEF Rec, ghosts
    <2>. QED
      BY <2>2, <2>3
  <1>. QED
    BY <1>5, <1>6, <1>7, <1>8 DEF LInv

-----------------------------------------------------------------------------

LEMMA NextLInv == LInv /\ [LNext]_lvars => LInv'
  <1>. SUFFICES ASSUME LInv, [LNext]_lvars PROVE LInv'
    OBVIOUS
  <1>1. CASE UNCHANGED lvars
    BY <1>1 DEF lvars, ghosts, LInv, LoopTypeOK, Charged, WellLogged, Recorded, Rec, Current, InSlice
  <1>2. CASE \/ Resume \/ Abort \/ Crash \/ Deliver \/ StartOver \/ Over
             \/ \E c \in Gated : Decide(c)
    BY <1>1, <1>2, SliceSteps, CrashStep, DeliverStep, StartOverStep DEF Over
  <1>3. CASE Round
    BY <1>3, StopSteps, AskSteps, InvokeStep, ParkedCallSteps, EndCallSteps, CutCallSteps DEF Round
  <1>. QED
    BY <1>1, <1>2, <1>3 DEF LNext

\* A loop never has more steps, model calls or tool calls than its bounds say,
\* over all its slices (runAgentLoop, exhaustedBy); a stage begun anew has a new
\* loop.
THEOREM LoopsAreBounded == LSpec => []LoopTypeOK
  <1>1. LInv => LoopTypeOK
    BY DEF LInv
  <1>. QED
    BY <1>1, InitLInv, NextLInv, PTL DEF LSpec

\* A change takes effect once, and once more for each record of it that was lost:
\* with a call that was cut off or failed falsely, a slice that left no checkpoint,
\* or a loop that ended before the stage was begun anew (repeatedCallNote, noteCall,
\* loopAnswer).
THEOREM ChangesAreMadeOnce == LSpec => []ChangesOnce
  <1>1. LInv => ChangesOnce
    <2>. SUFFICES ASSUME LInv, NEW c \in Changes PROVE happened[c] <= 1 + unrecorded[c]
      BY DEF ChangesOnce
    <2>1. c \in Calls /\ unrecorded[c] \in Nat
      BY LoopAssumption DEF LoopAssumption, LInv, LoopTypeOK
    <2>2. happened[c] = unrecorded[c] + Rec(Current, c)
      BY DEF LInv, Recorded
    <2>. QED
      BY <2>1, <2>2 DEF Rec
  <1>. QED
    BY <1>1, InitLInv, NextLInv, PTL DEF LSpec

-----------------------------------------------------------------------------
(* What slices are charged *)

\* A slice is ahead of its checkpoint, by the call in flight at least.
Ahead ==
    /\ InSlice => NoLess(loop, saved)
    /\ at = "asked" => loop.modelCalls > saved.modelCalls
    /\ at = "invoke" => loop.toolCalls > saved.toolCalls

\* What a step of a slice leaves is no less than what it was given.
Forward == InSlice => NoLess(saved', saved) /\ (at' # "between" => NoLess(loop', saved))

LEMMA CountsAreNumbers ==
    ASSUME LInv, NEW state \in {loop, saved}
    PROVE  /\ state \in LoopStates
           /\ state.steps \in Nat /\ state.modelCalls \in Nat /\ state.toolCalls \in Nat
           /\ \A c \in Calls : state.log[c].count \in Nat
  <1>1. state \in LoopStates
    BY DEF LInv, LoopTypeOK
  <1>. QED
    BY <1>1, LoopAssumption DEF LoopStates, LoopAssumption

\* A step on the count, or a refund of the call in flight, loses nothing.
LEMMA RefundsAreOwn ==
    ASSUME LInv, Ahead, InSlice
    PROVE  /\ NoLess(loop, saved) /\ NoLess(Stepped(loop), saved)
           /\ at = "asked" => NoLess(Uncharged, saved) /\ NoLess(Stepped(Uncharged), saved)
  <1>1. /\ loop \in LoopStates /\ saved \in LoopStates
        /\ loop.steps \in Nat /\ loop.modelCalls \in Nat /\ saved.steps \in Nat
        /\ saved.modelCalls \in Nat
    BY CountsAreNumbers
  <1>2. NoLess(loop, saved)
    BY DEF Ahead
  <1>3. /\ Stepped(loop).steps = loop.steps + 1 /\ Stepped(loop).modelCalls = loop.modelCalls
        /\ Stepped(loop).toolCalls = loop.toolCalls /\ Stepped(loop).log = loop.log
    BY <1>1 DEF Stepped, LoopStates
  <1>4. NoLess(Stepped(loop), saved)
    BY <1>1, <1>2, <1>3 DEF NoLess
  <1>5. ASSUME at = "asked" PROVE NoLess(Uncharged, saved) /\ NoLess(Stepped(Uncharged), saved)
    <2>1. /\ Uncharged.steps = loop.steps /\ Uncharged.modelCalls = loop.modelCalls - 1
          /\ Uncharged.toolCalls = loop.toolCalls /\ Uncharged.log = loop.log
          /\ Stepped(Uncharged).steps = loop.steps + 1
          /\ Stepped(Uncharged).modelCalls = loop.modelCalls - 1
          /\ Stepped(Uncharged).toolCalls = loop.toolCalls /\ Stepped(Uncharged).log = loop.log
      BY <1>1 DEF Uncharged, Stepped, LoopStates
    <2>2. loop.modelCalls > saved.modelCalls
      BY <1>5 DEF Ahead
    <2>. QED
      BY <1>1, <1>2, <2>1, <2>2 DEF NoLess
  <1>. QED
    BY <1>2, <1>4, <1>5

\* The slice hands back, or ends with, a state that is ahead.
LEMMA LeavingIsAhead ==
    ASSUME LInv, NEW state, NoLess(state, saved),
           Return(state) \/ End(state) \/ FailForGood(state, state) \/ FailForGood(state, saved)
    PROVE  Ahead' /\ Forward
  <1>1. NoLess(saved, saved)
    BY CountsAreNumbers DEF NoLess
  <1>. QED
    BY <1>1 DEF Return, End, FailForGood, Ahead, Forward, InSlice

\* It goes on with one that is.
LEMMA GoingOnIsAhead ==
    ASSUME LInv, UNCHANGED saved, NoLess(loop', saved),
           at' = "asked" => loop'.modelCalls > saved.modelCalls,
           at' = "invoke" => loop'.toolCalls > saved.toolCalls
    PROVE  Ahead' /\ Forward
  <1>1. NoLess(saved, saved)
    BY CountsAreNumbers DEF NoLess
  <1>2. NoLess(saved', saved)
    BY <1>1
  <1>3. NoLess(loop, saved)'
    BY DEF NoLess
  <1>. QED
    BY <1>2, <1>3 DEF Ahead, Forward

LEMMA SlicesAreAhead ==
    ASSUME LInv, Ahead,
           \/ Resume \/ Abort \/ Crash \/ Deliver \/ StartOver \/ Over
           \/ (\E c \in Gated : Decide(c)) \/ UNCHANGED lvars
    PROVE  Ahead' /\ Forward
  <1>1. NoLess(saved, saved)
    BY CountsAreNumbers DEF NoLess
  <1>2. CASE Resume
    BY <1>1, <1>2, GoingOnIsAhead DEF Resume
  <1>3. CASE Crash \/ Deliver \/ StartOver
    BY <1>1, <1>3 DEF Crash, Deliver, StartOver, Ahead, Forward, InSlice
  <1>4. CASE Abort \/ Over \/ (\E c \in Gated : Decide(c)) \/ UNCHANGED lvars
    <2>1. UNCHANGED <<at, loop, saved>>
      BY <1>4 DEF Abort, Over, Decide, lvars
    <2>. QED
      BY <1>1, <2>1 DEF Ahead, Forward, InSlice, NoLess
  <1>. QED
    BY <1>2, <1>3, <1>4

LEMMA StopsAreAhead ==
    ASSUME LInv, Ahead,
           \/ StopAborted \/ Exhaust \/ OutOfTime \/ AskPaused \/ Refused \/ Park \/ Finish
           \/ CallLeavesTask \/ CallPaused
    PROVE  Ahead' /\ Forward
  <1>1. InSlice
    BY DEF InSlice, StopAborted, Exhaust, OutOfTime, AskPaused, Refused, Park, Finish,
           CallLeavesTask, CallPaused
  <1>2. CASE StopAborted \/ Exhaust \/ OutOfTime \/ CallLeavesTask \/ CallPaused
    <2>1. Return(loop) \/ End(loop) \/ FailForGood(loop, saved)
      BY <1>2 DEF StopAborted, Exhaust, OutOfTime, CallLeavesTask, CallPaused
    <2>. QED
      BY <1>1, <2>1, RefundsAreOwn, LeavingIsAhead
  <1>3. CASE AskPaused \/ Refused \/ Park \/ Finish
    <2>1. /\ at = "asked"
          /\ \E state \in {Uncharged, Stepped(Uncharged), Stepped(loop)} :
                Return(state) \/ End(state) \/ FailForGood(state, state)
      BY <1>3 DEF AskPaused, Refused, Park, Finish
    <2>. QED
      BY <1>1, <2>1, RefundsAreOwn, LeavingIsAhead
  <1>. QED
    BY <1>2, <1>3

LEMMA AsksAreAhead ==
    ASSUME LInv, Ahead,
           \/ Replay \/ Ask \/ BadDecision \/ OtherStep \/ HoldCall \/ Invoke
           \/ \E c \in Calls : UseTool(c)
    PROVE  Ahead' /\ Forward
  <1>1. /\ InSlice /\ UNCHANGED saved /\ loop \in LoopStates /\ NoLess(loop, saved)
        /\ loop.modelCalls \in Nat /\ loop.toolCalls \in Nat
        /\ saved.modelCalls \in Nat /\ saved.toolCalls \in Nat
    <2>1. InSlice /\ UNCHANGED saved
      BY DEF InSlice, Replay, Ask, BadDecision, OtherStep, HoldCall, Invoke, UseTool
    <2>. QED
      BY <2>1, CountsAreNumbers, RefundsAreOwn
  <1>2. CASE Replay \/ \E c \in Calls : UseTool(c)
    <2>1. at' = "decided" /\ (loop' = loop \/ loop' = [loop EXCEPT !.pending = NoCall])
      BY <1>2 DEF Replay, UseTool
    <2>2. NoLess(loop', saved)
      BY <1>1, <2>1 DEF NoLess, LoopStates
    <2>. QED
      BY <1>1, <2>1, <2>2, GoingOnIsAhead
  <1>3. CASE BadDecision \/ OtherStep \/ HoldCall
    <2>1. at' = "top" /\ loop' = Stepped(loop)
      BY <1>3 DEF BadDecision, OtherStep, HoldCall, Succeed, Stumble
    <2>. QED
      BY <1>1, <2>1, RefundsAreOwn, GoingOnIsAhead
  <1>4. CASE Ask
    <2>1. at' = "asked" /\ loop' = [loop EXCEPT !.modelCalls = @ + 1]
      BY <1>4 DEF Ask
    <2>2. /\ loop'.modelCalls = loop.modelCalls + 1 /\ loop'.steps = loop.steps
          /\ loop'.toolCalls = loop.toolCalls /\ loop'.log = loop.log
      BY <1>1, <2>1 DEF LoopStates
    <2>3. NoLess(loop', saved) /\ loop'.modelCalls > saved.modelCalls
      BY <1>1, <2>2 DEF NoLess
    <2>. QED
      BY <1>1, <2>1, <2>3, GoingOnIsAhead
  <1>5. CASE Invoke
    <2>1. at' = "invoke" /\ loop' = [loop EXCEPT !.toolCalls = @ + 1]
      BY <1>5 DEF Invoke
    <2>2. /\ loop'.toolCalls = loop.toolCalls + 1 /\ loop'.steps = loop.steps
          /\ loop'.modelCalls = loop.modelCalls /\ loop'.log = loop.log
      BY <1>1, <2>1 DEF LoopStates
    <2>3. NoLess(loop', saved) /\ loop'.toolCalls > saved.toolCalls
      BY <1>1, <2>2 DEF NoLess
    <2>. QED
      BY <1>1, <2>1, <2>3, GoingOnIsAhead
  <1>. QED
    BY <1>2, <1>3, <1>4, <1>5

\* The answer of a call is logged on top of what was; a call that waits is taken
\* back, and was charged in this slice.
LEMMA CallsAreAhead ==
    ASSUME LInv, Ahead, NeedsApproval \/ CallSucceeds \/ CallFails
    PROVE  Ahead' /\ Forward
  <1>1. /\ at = "invoke" /\ InSlice /\ loop \in LoopStates /\ call \in Calls
        /\ NoLess(loop, saved) /\ loop.toolCalls > saved.toolCalls
        /\ loop.steps \in Nat /\ loop.toolCalls \in Nat
        /\ saved.steps \in Nat /\ saved.toolCalls \in Nat
        /\ \A c \in Calls : loop.log[c].count \in Nat /\ saved.log[c].count \in Nat
    <2>1. at = "invoke" /\ InSlice
      BY DEF NeedsApproval, CallSucceeds, CallFails, InSlice
    <2>2. call \in Calls /\ NoLess(loop, saved) /\ loop.toolCalls > saved.toolCalls
      BY <2>1 DEF LInv, Charged, Ahead
    <2>. QED
      BY <2>1, <2>2, CountsAreNumbers
  <1>2. CASE NeedsApproval
    <2>. DEFINE state == [loop EXCEPT !.pending = call, !.toolCalls = @ - 1]
    <2>1. Return(Stepped(state))
      BY <1>2 DEF NeedsApproval
    <2>2. /\ Stepped(state).steps = loop.steps + 1 /\ Stepped(state).modelCalls = loop.modelCalls
          /\ Stepped(state).toolCalls = loop.toolCalls - 1 /\ Stepped(state).log = loop.log
      BY <1>1 DEF Stepped, LoopStates
    <2>. HIDE DEF state
    <2>3. NoLess(Stepped(state), saved)
      BY <1>1, <2>2 DEF NoLess
    <2>. QED
      BY <2>1, <2>3, LeavingIsAhead
  <1>3. CASE CallSucceeds \/ CallFails
    <2>1. PICK ok \in BOOLEAN : loop' = Stepped(Noted(ok))
      BY <1>3 DEF CallSucceeds, CallFails, Succeed, Stumble
    <2>2. at' = "top" /\ UNCHANGED saved
      BY <1>3 DEF CallSucceeds, CallFails, Succeed, Stumble
    <2>. DEFINE entry == [ok |-> ok, count |-> loop.log[call].count + 1]
                log == [loop.log EXCEPT ![call] = entry]
    <2>3. loop.log \in [Calls -> [ok : BOOLEAN, count : Nat]]
      BY <1>1 DEF LoopStates
    <2>4. Noted(ok) = [loop EXCEPT !.log = log]
      BY DEF Noted
    <2>5. log[call] = entry /\ \A c \in Calls \ {call} : log[c] = loop.log[c]
      BY <1>1, <2>3
    <2>6. entry.count = loop.log[call].count + 1
      OBVIOUS
    <2>. HIDE DEF entry, log
    <2>7. /\ loop'.steps = loop.steps + 1 /\ loop'.modelCalls = loop.modelCalls
          /\ loop'.toolCalls = loop.toolCalls /\ loop'.log = log
      BY <1>1, <2>1, <2>4 DEF Stepped, LoopStates
    <2>8. \A c \in Calls : saved.log[c].count <= log[c].count
      <3>. SUFFICES ASSUME NEW c \in Calls PROVE saved.log[c].count <= log[c].count
        OBVIOUS
      <3>1. saved.log[c].count <= loop.log[c].count
        BY <1>1 DEF NoLess
      <3>2. CASE c = call
        BY <1>1, <2>5, <2>6, <3>1, <3>2
      <3>3. CASE c # call
        BY <2>5, <3>1, <3>3
      <3>. QED
        BY <3>2, <3>3
    <2>9. NoLess(loop', saved)
      BY <1>1, <2>7, <2>8 DEF NoLess
    <2>. QED
      BY <2>2, <2>9, GoingOnIsAhead
  <1>. QED
    BY <1>2, <1>3

\* What a slice is charged is never less than nothing: no refund, pause or lost
\* checkpoint takes back what an earlier slice was charged (runAgentLoop,
\* sliceBudgetDelta).
THEOREM SlicesChargeForward == LSpec => ChargesGoForward
  <1>1. LInit => Ahead
    BY DEF LInit, Ahead, InSlice
  <1>2. LInv /\ Ahead /\ [LNext]_lvars => Ahead' /\ Forward
    BY SlicesAreAhead, StopsAreAhead, AsksAreAhead, CallsAreAhead DEF LNext, Round
  <1>3. LInv /\ Ahead /\ [LNext]_lvars =>
           (InSlice => /\ NoLess(saved', saved)
                       /\ at' # "between" => NoLess(loop', saved))
    BY <1>2 DEF Forward
  <1>. QED
    BY <1>1, <1>2, <1>3, InitLInv, NextLInv, PTL DEF LSpec, ChargesGoForward
===================================================================================
