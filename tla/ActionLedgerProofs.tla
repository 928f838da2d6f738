---------------------------- MODULE ActionLedgerProofs ----------------------------
(***************************************************************************)
(* What the ledger of external actions promises, whatever slices there are *)
(* and however their lookups and updates interleave: what is called was    *)
(* announced, and what is called again has a reason in the ledger.         *)
(***************************************************************************)
EXTENDS ActionLedger, TLAPS

\* What a slice carries between its steps, judged against the row as it stands:
\* a loaded row that still has the current version is the current row.
Sound(state, row) ==
    /\ state.at \in {"asked", "call"} => state.key \in Keys
    /\ state.at = "asked" => state.prior \in {"none", "failed"}
    /\ state.at \in {"load", "save"} =>
          /\ state.entry \in {"note", "intent", "done", "failed"}
          /\ state.entry # "note" => state.key \in Keys
          /\ state.entry = "intent" => state.prior \in {"none", "failed"}
          /\ state.entry # "note" => state.ledger
    /\ state.at = "save" =>
          /\ state.seen.version <= row.version
          /\ state.seen.version = row.version => state.seen = row

Open(k) == IF mission.actions[k] \in {"intent", "done"} THEN 1 ELSE 0

\* An open or done entry stands for one call that no failure and no overwritten
\* entry explains.
Explained == \A k \in Keys : calls[k] <= failures[k] + over[k] + Open(k)

AInv ==
    /\ ATypeOK
    /\ \A s \in Slices : Sound(slice[s], mission)
    /\ CalledIsRecorded
    /\ Explained

-----------------------------------------------------------------------------
LEMMA TriesStart == LedgerAssumption => 0 \in 0 .. MaxTries - 1
  BY DEF LedgerAssumption

LEMMA Typed ==
    ASSUME AInv, NEW s \in Slices
    PROVE  /\ slice[s] \in SliceState /\ Sound(slice[s], mission)
           /\ slice[s].ledger \in BOOLEAN
           /\ mission \in MissionRow /\ mission.version \in Nat
           /\ mission.actions \in [Keys -> Phases]
  <1>1. slice[s] \in SliceState /\ Sound(slice[s], mission) /\ mission \in MissionRow
    BY DEF AInv, ATypeOK
  <1>. QED
    BY <1>1 DEF SliceState, MissionRow, Entries

\* A step of one slice that leaves the row and its calls alone.
LEMMA MoveKeeps ==
    ASSUME AInv, NEW s \in Slices, NEW next \in SliceState, Sound(next, mission), Go(s, next),
           UNCHANGED <<mission, calls, failures, over, noted>>,
           effects' \in [Keys -> Nat], faults' \in Nat
    PROVE  AInv'
  <1>1. ATypeOK'
    BY DEF AInv, ATypeOK, Go
  <1>2. \A t \in Slices : Sound(slice'[t], mission')
    <2>. SUFFICES ASSUME NEW t \in Slices PROVE Sound(slice'[t], mission)
      OBVIOUS
    <2>1. slice'[t] = IF t = s THEN next ELSE slice[t]
      BY DEF AInv, ATypeOK, Go
    <2>. QED
      BY <2>1 DEF AInv
  <1>3. CalledIsRecorded' /\ Explained'
    BY DEF AInv, CalledIsRecorded, Explained, Open
  <1>. QED
    BY <1>1, <1>2, <1>3 DEF AInv

LEMMA AtIsState ==
    ASSUME LedgerAssumption, NEW point \in {"on", "off"}, NEW ledger \in BOOLEAN
    PROVE  /\ At(point, ledger) \in SliceState
           /\ \A row \in MissionRow : Sound(At(point, ledger), row)
  <1>1. Fresh \in MissionRow /\ 0 \in 0 .. MaxTries - 1
    BY DEF Fresh, MissionRow, Entries, Phases, LedgerAssumption
  <1>. QED
    BY <1>1 DEF At, SliceState, Sound, Points, Phases

\* What stays typed when a step spends a fault or none.
LEMMA FaultIsNat ==
    ASSUME AInv, Fault \/ UNCHANGED faults
    PROVE  faults' \in Nat
  BY DEF AInv, ATypeOK, Fault

\* Steps that end in a resting place and leave the row alone.
LEMMA RestingSteps ==
    ASSUME LedgerAssumption, AInv, NEW s \in Slices,
           \/ Begin(s) \/ BeginBare(s) \/ Die(s) \/ End(s) \/ NotApproved(s)
    PROVE  AInv'
  <1>1. PICK point \in {"on", "off"}, ledger \in BOOLEAN : Go(s, At(point, ledger))
    BY DEF Begin, BeginBare, Die, End, NotApproved, Back, AInv, ATypeOK, SliceState
  <1>2. UNCHANGED <<mission, counted>> /\ faults' \in Nat
    BY FaultIsNat DEF Begin, BeginBare, Die, End, NotApproved
  <1>3. At(point, ledger) \in SliceState /\ Sound(At(point, ledger), mission)
    BY AtIsState DEF AInv, ATypeOK
  <1>. QED
    BY <1>1, <1>2, <1>3, MoveKeeps DEF counted, AInv, ATypeOK

\* A slice goes for an update: an action's entry, or a note.
LEMMA UpdateKeeps ==
    ASSUME LedgerAssumption, AInv, NEW s \in Slices, NEW k \in Keys \cup {""},
           NEW entry \in {"note", "intent", "done", "failed"}, Update(s, k, entry),
           entry # "note" => k \in Keys /\ slice[s].ledger,
           entry = "intent" => slice[s].prior \in {"none", "failed"},
           UNCHANGED <<mission, calls, failures, over, noted>>,
           effects' \in [Keys -> Nat], faults' \in Nat
    PROVE  AInv'
  <1>0. 0 \in 0 .. MaxTries - 1
    BY TriesStart
  <1>1. slice[s] \in SliceState
    BY Typed
  <1>. DEFINE next == [slice[s] EXCEPT !.at = "load", !.key = k, !.entry = entry, !.tries = 0]
  <1>2. next \in SliceState /\ Sound(next, mission)
    BY <1>0, <1>1 DEF SliceState, Sound, Points
  <1>3. Go(s, next)
    BY DEF Update
  <1>. QED
    BY <1>2, <1>3, MoveKeeps

LEMMA ProceedKeeps ==
    ASSUME LedgerAssumption, AInv, NEW s \in Slices, NEW k \in Keys,
           NEW prior \in {"none", "failed"}, Proceed(s, k, prior),
           UNCHANGED <<mission, counted>>, faults' \in Nat
    PROVE  AInv'
  <1>. DEFINE call == [slice[s] EXCEPT !.key = k, !.prior = prior]
              asked == [call EXCEPT !.at = "asked"]
              load == [call EXCEPT !.at = "load", !.entry = "intent"]
              made == [call EXCEPT !.at = "call"]
  <1>1. slice[s] \in SliceState
    BY DEF AInv, ATypeOK
  <1>2. /\ call \in SliceState /\ call.key = k /\ call.prior = prior
        /\ call.ledger = slice[s].ledger
    BY <1>1 DEF SliceState, Phases
  <1>3. /\ asked \in SliceState /\ Sound(asked, mission)
        /\ slice[s].ledger => load \in SliceState /\ Sound(load, mission)
        /\ made \in SliceState /\ Sound(made, mission)
    <2>. HIDE DEF call
    <2>. QED
      BY <1>2 DEF SliceState, Sound, Points
  <1>4. Go(s, asked) \/ (slice[s].ledger /\ Go(s, load)) \/ Go(s, made)
    BY DEF Proceed
  <1>5. effects' \in [Keys -> Nat] /\ UNCHANGED <<mission, calls, failures, over, noted>>
    BY DEF counted, AInv, ATypeOK
  <1>. HIDE DEF asked, load, made
  <1>. QED
    BY <1>3, <1>4, <1>5, MoveKeeps

LEMMA CallingSteps ==
    ASSUME LedgerAssumption, AInv, NEW s \in Slices, NEW k \in Keys,
           Invoke(s, k) \/ InvokeBlind(s, k)
    PROVE  AInv'
  <1>1. CASE Invoke(s, k)
    BY <1>1, ProceedKeeps, FaultIsNat DEF Invoke
  <1>2. CASE InvokeBlind(s, k)
    BY <1>2, ProceedKeeps, FaultIsNat DEF InvokeBlind
  <1>. QED
    BY <1>1, <1>2

LEMMA ApprovedStep ==
    ASSUME LedgerAssumption, AInv, NEW s \in Slices, Approved(s)
    PROVE  AInv'
  <1>1. /\ slice[s] \in SliceState /\ slice[s].at = "asked" /\ Sound(slice[s], mission)
        /\ UNCHANGED <<mission, calls, failures, over, noted>>
        /\ effects' \in [Keys -> Nat] /\ faults' \in Nat
    BY DEF Approved, AInv, ATypeOK, counted
  <1>2. slice[s].key \in Keys /\ slice[s].prior \in {"none", "failed"}
    BY <1>1 DEF Sound
  <1>3. CASE slice[s].ledger
    BY <1>1, <1>2, <1>3, UpdateKeeps DEF Approved
  <1>4. CASE ~slice[s].ledger
    <2>. DEFINE next == [slice[s] EXCEPT !.at = "call"]
    <2>1. next \in SliceState /\ Sound(next, mission)
      BY <1>1, <1>2 DEF SliceState, Sound, Points
    <2>2. Go(s, next)
      BY <1>4 DEF Approved
    <2>. QED
      BY <1>1, <2>1, <2>2, MoveKeeps
  <1>. QED
    BY <1>3, <1>4

LEMMA NoteAndCallSteps ==
    ASSUME LedgerAssumption, AInv, NEW s \in Slices, Note(s) \/ Call(s)
    PROVE  AInv'
  <1>1. CASE Note(s)
    <2>1. UNCHANGED <<mission, calls, failures, over, noted>> /\ effects' \in [Keys -> Nat]
          /\ faults' \in Nat
      BY <1>1 DEF Note, counted, AInv, ATypeOK
    <2>. QED
      BY <1>1, <2>1, UpdateKeeps DEF Note
  <1>2. CASE Call(s)
    <2>1. slice[s].at = "call" /\ Sound(slice[s], mission) /\ faults' \in Nat
          /\ UNCHANGED <<mission, calls, failures, over, noted>>
      BY <1>2 DEF Call, AInv, ATypeOK
    <2>2. slice[s].key \in Keys
      BY <2>1 DEF Sound
    <2>3. PICK entry \in {"done", "failed"} :
             /\ effects' = IF entry = "done" THEN [effects EXCEPT ![slice[s].key] = @ + 1]
                           ELSE effects
             /\ IF slice[s].ledger THEN Update(s, slice[s].key, entry) ELSE Back(s)
      BY <1>2 DEF Call
    <2>4. effects' \in [Keys -> Nat]
      BY <2>2, <2>3 DEF AInv, ATypeOK
    <2>5. CASE slice[s].ledger
      BY <2>1, <2>2, <2>3, <2>4, <2>5, UpdateKeeps
    <2>6. CASE ~slice[s].ledger
      <3>1. Go(s, At("on", slice[s].ledger)) /\ slice[s].ledger \in BOOLEAN
        BY <2>3, <2>6, Typed DEF Back
      <3>2. /\ At("on", slice[s].ledger) \in SliceState
            /\ Sound(At("on", slice[s].ledger), mission)
        BY <3>1, AtIsState, Typed
      <3>. QED
        BY <2>1, <2>4, <3>1, <3>2, MoveKeeps
    <2>. QED
      BY <2>5, <2>6
  <1>. QED
    BY <1>1, <1>2

\* The row is loaded, to be written if nobody comes first.
LEMMA LoadStep ==
    ASSUME LedgerAssumption, AInv, NEW s \in Slices, Load(s)
    PROVE  AInv'
  <1>1. /\ slice[s] \in SliceState /\ slice[s].at = "load" /\ Sound(slice[s], mission)
        /\ UNCHANGED <<mission, calls, failures, over, noted>> /\ mission \in MissionRow
        /\ effects' \in [Keys -> Nat] /\ faults' \in Nat /\ mission.version \in Nat
    BY Typed DEF Load, AInv, ATypeOK, counted
  <1>. DEFINE next == [slice[s] EXCEPT !.at = "save", !.seen = mission]
  <1>2. next \in SliceState /\ Sound(next, mission)
    <2>1. /\ next \in SliceState /\ next.at = "save" /\ next.seen = mission
          /\ next.key = slice[s].key /\ next.entry = slice[s].entry
          /\ next.prior = slice[s].prior
      BY <1>1 DEF SliceState, Points
    <2>. QED
      BY <1>1, <2>1 DEF Sound
  <1>3. Go(s, next)
    BY DEF Load
  <1>. QED
    BY <1>1, <1>2, <1>3, MoveKeeps

LEMMA ConflictStep ==
    ASSUME LedgerAssumption, AInv, NEW s \in Slices, SaveConflicts(s)
    PROVE  AInv'
  <1>1. /\ slice[s] \in SliceState /\ slice[s].at = "save" /\ Sound(slice[s], mission)
        /\ UNCHANGED <<mission, calls, failures, over, noted>> /\ mission \in MissionRow
        /\ effects' \in [Keys -> Nat] /\ faults' \in Nat
    BY DEF SaveConflicts, AInv, ATypeOK, counted
  <1>2. CASE slice[s].tries + 1 < MaxTries
    <2>1. slice[s].tries + 1 \in 0 .. MaxTries - 1
      <3>1. slice[s].tries \in 0 .. MaxTries - 1
        BY <1>1 DEF SliceState
      <3>. QED
        BY <1>2, <3>1 DEF LedgerAssumption
    <2>. DEFINE next == [slice[s] EXCEPT !.at = "load", !.tries = @ + 1]
    <2>2. next \in SliceState /\ Sound(next, mission)
      BY <1>1, <2>1 DEF SliceState, Sound, Points
    <2>3. Go(s, next)
      BY <1>2 DEF SaveConflicts
    <2>. QED
      BY <1>1, <2>2, <2>3, MoveKeeps
  <1>3. CASE ~(slice[s].tries + 1 < MaxTries)
    <2>1. Go(s, At("on", slice[s].ledger)) /\ slice[s].ledger \in BOOLEAN
      BY <1>1, <1>3 DEF SaveConflicts, Back, SliceState
    <2>. QED
      BY <1>1, <2>1, AtIsState, MoveKeeps
  <1>. QED
    BY <1>2, <1>3

-----------------------------------------------------------------------------
(* The commit: nobody came between the load and the save. *)

\* The row a commit writes, and what it counts; an intent may let its call go.
LEMMA CommitCounts ==
    ASSUME LedgerAssumption, AInv, NEW s \in Slices, slice[s].at = "save", Commit(s),
           \/ calls' = calls
           \/ /\ slice[s].entry = "intent"
              /\ calls' = [calls EXCEPT ![slice[s].key] = @ + 1]
    PROVE  /\ mission' \in MissionRow /\ mission'.version = mission.version + 1
           /\ calls' \in [Keys -> Nat] /\ failures' \in [Keys -> Nat]
           /\ over' \in [Keys -> Nat] /\ noted' \in Nat
           /\ CalledIsRecorded' /\ Explained'
  <1>. DEFINE k == slice[s].key
              entry == slice[s].entry
  <1>1. /\ slice[s] \in SliceState /\ mission \in MissionRow
        /\ calls \in [Keys -> Nat] /\ failures \in [Keys -> Nat]
        /\ over \in [Keys -> Nat] /\ noted \in Nat
        /\ CalledIsRecorded /\ Explained /\ Sound(slice[s], mission)
    BY DEF AInv, ATypeOK
  <1>2. /\ entry \in {"note", "intent", "done", "failed"} /\ (entry # "note" => k \in Keys)
        /\ entry = "intent" => slice[s].prior \in {"none", "failed"}
        /\ slice[s].seen = mission
    BY <1>1 DEF Sound, Commit
  <1>3. mission' = Changed(mission, k, entry) /\ Count(s)
    BY <1>2 DEF Commit
  <1>4. mission.version \in Nat /\ mission.actions \in [Keys -> Phases]
    BY <1>1 DEF MissionRow, Entries
  <1>5. /\ mission'.version = mission.version + 1
        /\ mission'.actions = IF entry = "note" THEN mission.actions
                              ELSE [mission.actions EXCEPT ![k] = entry]
        /\ mission' = [version |-> mission'.version, actions |-> mission'.actions]
    BY <1>3 DEF Changed
  <1>6. mission'.actions \in [Keys -> Phases]
    BY <1>2, <1>4, <1>5 DEF Phases
  <1>7. mission' \in MissionRow
    BY <1>4, <1>5, <1>6 DEF MissionRow, Entries
  <1>8. failures' = IF entry = "failed" THEN [failures EXCEPT ![k] = @ + 1] ELSE failures
    BY <1>3 DEF Count
  <1>9. noted' \in Nat
    BY <1>1, <1>3 DEF Count
  <1>10. over' = IF entry = "intent" /\ mission.actions[k] \in {"intent", "done"}
                 THEN [over EXCEPT ![k] = @ + 1] ELSE over
    BY <1>2, <1>3 DEF Count
  <1>11. /\ failures' \in [Keys -> Nat] /\ over' \in [Keys -> Nat] /\ calls' \in [Keys -> Nat]
    BY <1>1, <1>2, <1>8, <1>10
  <1>. HIDE DEF k, entry
  <1>12. CalledIsRecorded'
    <2>. SUFFICES ASSUME NEW c \in Keys, calls'[c] > 0 PROVE mission'.actions[c] # "none"
      BY DEF CalledIsRecorded
    <2>1. CASE entry # "note" /\ c = k
      BY <1>2, <1>4, <1>5, <2>1
    <2>2. CASE ~(entry # "note" /\ c = k)
      <3>1. mission'.actions[c] = mission.actions[c]
        BY <1>2, <1>4, <1>5, <2>2
      <3>2. calls'[c] = calls[c]
        BY <1>1, <2>2 DEF k, entry
      <3>. QED
        BY <1>1, <3>1, <3>2 DEF CalledIsRecorded
    <2>. QED
      BY <2>1, <2>2
  <1>13. Explained'
    <2>. SUFFICES ASSUME NEW c \in Keys
                  PROVE  calls'[c] <= failures'[c] + over'[c] + Open(c)'
      BY DEF Explained
    <2>1. /\ calls[c] <= failures[c] + over[c] + Open(c)
          /\ calls[c] \in Nat /\ failures[c] \in Nat /\ over[c] \in Nat
      BY <1>1 DEF Explained
    <2>2. CASE entry = "note" \/ c # k
      <3>1. mission'.actions[c] = mission.actions[c]
        BY <1>2, <1>4, <1>5, <2>2
      <3>2. calls'[c] = calls[c]
        BY <1>1, <2>2 DEF k, entry
      <3>3. failures'[c] = failures[c] /\ over'[c] = over[c]
        BY <1>1, <1>2, <1>8, <1>10, <2>2
      <3>. QED
        BY <2>1, <3>1, <3>2, <3>3 DEF Open
    <2>3. CASE entry # "note" /\ c = k
      <3>1. mission'.actions[c] = entry
        BY <1>2, <1>4, <1>5, <2>3
      <3>2. CASE entry = "intent"
        <4>1. calls'[c] <= calls[c] + 1
          BY <1>1, <2>1, <2>3 DEF k, entry
        <4>2. failures'[c] = failures[c]
          BY <1>8, <3>2
        <4>3. over'[c] = over[c] + Open(c)
          BY <1>1, <1>10, <2>1, <2>3, <3>2 DEF Open
        <4>4. Open(c)' = 1
          BY <3>1, <3>2 DEF Open
        <4>5. calls'[c] \in Nat /\ Open(c) \in {0, 1}
          BY <1>11 DEF Open
        <4>. QED
          BY <2>1, <4>1, <4>2, <4>3, <4>4, <4>5
      <3>3. CASE entry # "intent"
        <4>1. calls'[c] = calls[c] /\ over'[c] = over[c]
          BY <1>10, <3>3 DEF k, entry
        <4>2. entry = "done" => failures'[c] = failures[c] /\ Open(c)' = 1
          BY <1>8, <3>1 DEF Open
        <4>3. entry = "failed" => failures'[c] = failures[c] + 1 /\ Open(c)' = 0
          BY <1>1, <1>8, <2>3, <3>1 DEF Open
        <4>4. Open(c) \in {0, 1}
          BY DEF Open
        <4>. QED
          BY <1>2, <2>1, <2>3, <3>3, <4>1, <4>2, <4>3, <4>4
      <3>. QED
        BY <3>2, <3>3
    <2>. QED
      BY <2>2, <2>3
  <1>. QED
    BY <1>5, <1>7, <1>9, <1>11, <1>12, <1>13

\* What others have loaded is out of date from now on.
LEMMA CommitKeeps ==
    ASSUME LedgerAssumption, AInv, NEW s \in Slices, slice[s].at = "save", Commit(s),
           \/ calls' = calls
           \/ /\ slice[s].entry = "intent"
              /\ calls' = [calls EXCEPT ![slice[s].key] = @ + 1],
           NEW next \in SliceState, next.at \in {"on", "call"},
           next.at = "call" => next.key \in Keys, Go(s, next),
           effects' \in [Keys -> Nat], faults' \in Nat
    PROVE  AInv'
  <1>1. /\ mission' \in MissionRow /\ mission'.version = mission.version + 1
        /\ calls' \in [Keys -> Nat] /\ failures' \in [Keys -> Nat]
        /\ over' \in [Keys -> Nat] /\ noted' \in Nat
        /\ CalledIsRecorded' /\ Explained'
    BY CommitCounts
  <1>2. slice' \in [Slices -> SliceState]
    BY DEF Go, AInv, ATypeOK
  <1>3. ATypeOK'
    BY <1>1, <1>2 DEF ATypeOK
  <1>4. ASSUME NEW t \in Slices PROVE Sound(slice'[t], mission')
    <2>1. slice'[t] = IF t = s THEN next ELSE slice[t]
      BY DEF Go, AInv, ATypeOK
    <2>2. CASE t = s
      BY <2>1, <2>2 DEF Sound
    <2>3. CASE t # s
      <3>1. Sound(slice[t], mission) /\ slice[t] \in SliceState /\ mission \in MissionRow
        BY DEF AInv, ATypeOK
      <3>2. slice[t].seen.version \in Nat /\ mission.version \in Nat
        BY <3>1 DEF SliceState, MissionRow
      <3>. QED
        BY <1>1, <2>1, <2>3, <3>1, <3>2 DEF Sound
    <2>. QED
      BY <2>2, <2>3
  <1>. QED
    BY <1>1, <1>3, <1>4 DEF AInv

LEMMA SaveStep ==
    ASSUME LedgerAssumption, AInv, NEW s \in Slices, Save(s)
    PROVE  AInv'
  <1>1. /\ slice[s] \in SliceState /\ slice[s].at = "save" /\ Commit(s)
        /\ Sound(slice[s], mission) /\ slice[s].ledger \in BOOLEAN
        /\ effects' \in [Keys -> Nat] /\ faults' \in Nat
    BY Typed DEF Save, AInv, ATypeOK
  <1>2. CASE slice[s].entry = "intent"
    <2>. DEFINE next == [slice[s] EXCEPT !.at = "call"]
    <2>1. slice[s].key \in Keys
      BY <1>1, <1>2 DEF Sound
    <2>2. next \in SliceState /\ next.at = "call" /\ next.key \in Keys
      BY <1>1, <2>1 DEF SliceState, Points
    <2>3. Go(s, next) /\ calls' = [calls EXCEPT ![slice[s].key] = @ + 1]
      BY <1>2 DEF Save, LetGo
    <2>. HIDE DEF next
    <2>. QED
      BY <1>1, <1>2, <2>2, <2>3, CommitKeeps
  <1>3. CASE slice[s].entry # "intent"
    <2>. DEFINE next == At("on", slice[s].ledger)
    <2>1. next \in SliceState
      BY <1>1, AtIsState
    <2>2. next.at = "on"
      BY DEF At
    <2>3. Go(s, next) /\ calls' = calls
      BY <1>3 DEF Save, Back
    <2>. HIDE DEF next
    <2>. QED
      BY <1>1, <2>1, <2>2, <2>3, CommitKeeps
  <1>. QED
    BY <1>2, <1>3

LEMMA FailingStep ==
    ASSUME LedgerAssumption, AInv, NEW s \in Slices, UpdateFails(s)
    PROVE  AInv'
  <1>. DEFINE next == At("on", slice[s].ledger)
  <1>1. /\ slice[s].ledger \in BOOLEAN /\ Go(s, next) /\ UNCHANGED <<calls, effects>>
        /\ effects' \in [Keys -> Nat] /\ faults' \in Nat
    BY Typed, FaultIsNat DEF UpdateFails, Back, AInv, ATypeOK
  <1>2. next \in SliceState /\ Sound(next, mission)
    BY <1>1, AtIsState, Typed
  <1>3. next.at = "on"
    BY DEF At
  <1>. HIDE DEF next
  <1>4. CASE UNCHANGED <<mission, failures, over, noted>>
    BY <1>1, <1>2, <1>4, MoveKeeps
  <1>5. CASE slice[s].at = "save" /\ Commit(s)
    BY <1>1, <1>2, <1>3, <1>5, CommitKeeps
  <1>. QED
    BY <1>4, <1>5 DEF UpdateFails

-----------------------------------------------------------------------------
LEMMA InitAInv == LedgerAssumption /\ AInit => AInv
  <1>. SUFFICES ASSUME LedgerAssumption, AInit PROVE AInv
    OBVIOUS
  <1>1. Fresh \in MissionRow
    BY DEF Fresh, MissionRow, Entries, Phases
  <1>2. At("off", FALSE) \in SliceState /\ Sound(At("off", FALSE), mission)
    BY <1>1, AtIsState DEF AInit
  <1>3. ATypeOK
    BY <1>1, <1>2 DEF AInit, ATypeOK
  <1>4. \A s \in Slices : Sound(slice[s], mission)
    BY <1>2 DEF AInit
  <1>5. CalledIsRecorded
    BY DEF AInit, CalledIsRecorded
  <1>6. Explained
    BY DEF AInit, Explained, Open
  <1>. QED
    BY <1>3, <1>4, <1>5, <1>6 DEF AInv

LEMMA NextAInv == LedgerAssumption /\ AInv /\ [ANext]_avars => AInv'
  <1>. SUFFICES ASSUME LedgerAssumption, AInv, [ANext]_avars PROVE AInv'
    OBVIOUS
  <1>1. CASE UNCHANGED avars
    BY <1>1 DEF avars, counted, AInv, ATypeOK, CalledIsRecorded, Explained, Open
  <1>2. CASE ANext
    <2>1. PICK s \in Slices :
             \/ Begin(s) \/ BeginBare(s) \/ Die(s) \/ End(s)
             \/ Approved(s) \/ NotApproved(s) \/ Note(s)
             \/ Load(s) \/ Save(s) \/ SaveConflicts(s) \/ UpdateFails(s) \/ Call(s)
             \/ \E k \in Keys : Invoke(s, k) \/ InvokeBlind(s, k)
      BY <1>2 DEF ANext
    <2>. QED
      BY <2>1, RestingSteps, CallingSteps, ApprovedStep, NoteAndCallSteps, LoadStep,
         SaveStep, ConflictStep, FailingStep
  <1>. QED
    BY <1>1, <1>2

LEMMA AInvHolds == ASpec => []AInv
  <1>1. LedgerAssumption
    BY LedgerAssumption DEF LedgerAssumption
  <1>. QED
    BY <1>1, InitAInv, NextAInv, PTL DEF ASpec

\* The mission row, the slices and the counts keep their types.
THEOREM LedgerIsTyped == ASpec => []ATypeOK
  <1>1. AInv => ATypeOK
    BY DEF AInv
  <1>. QED
    BY <1>1, AInvHolds, PTL

\* A call of a slice that has its ledger is in the ledger from before it is made
\* and for good, whatever else writes the mission (registry.ts: "fail closed").
THEOREM CallsAreRecorded == ASpec => []CalledIsRecorded
  <1>1. AInv => CalledIsRecorded
    BY DEF AInv
  <1>. QED
    BY <1>1, AInvHolds, PTL

\* Nothing is called again but for a recorded failure or a lookup that missed an
\* entry, however many slices, deaths, lost answers and lost races there are.
THEOREM RepeatsHaveReasons == ASpec => []RepeatsAreAccounted
  <1>1. AInv => RepeatsAreAccounted
    <2>. SUFFICES ASSUME AInv, NEW k \in Keys
                  PROVE  calls[k] <= 1 + failures[k] + over[k]
      BY DEF RepeatsAreAccounted
    <2>1. /\ calls[k] \in Nat /\ failures[k] \in Nat /\ over[k] \in Nat
          /\ calls[k] <= failures[k] + over[k] + Open(k)
      BY DEF AInv, ATypeOK, Explained
    <2>2. Open(k) \in {0, 1}
      BY DEF Open
    <2>. QED
      BY <2>1, <2>2
  <1>. QED
    BY <1>1, AInvHolds, PTL

-----------------------------------------------------------------------------
(* The ledger implements the book: only a commit changes an entry, and what *)
(* it commits was loaded from the row it replaces.                          *)

bookEntry == mission.actions
bookFlight == [s \in Slices |-> Flight(slice[s])]
bookVars == <<bookEntry, bookFlight, calls, over, failures>>

\* A step of one slice changes no other slice's calls in flight.
LEMMA FlightMoves ==
    ASSUME AInv, NEW s \in Slices, NEW next, Go(s, next)
    PROVE  bookFlight' = [bookFlight EXCEPT ![s] = Flight(next)]
  <1>1. slice' = [slice EXCEPT ![s] = next] /\ slice \in [Slices -> SliceState]
    BY DEF Go, AInv, ATypeOK
  <1>2. \A t \in Slices : slice'[t] = IF t = s THEN next ELSE slice[t]
    BY <1>1
  <1>. QED
    BY <1>2 DEF bookFlight

\* A slice moves without touching the row: at most it loses track of a call.
LEMMA BookMove ==
    ASSUME AInv, NEW s \in Slices, NEW next, Go(s, next),
           UNCHANGED <<mission, calls, failures, over>>,
           Flight(next) = Flight(slice[s]) \/ Flight(next) = {}
    PROVE  Book!Next \/ UNCHANGED bookVars
  <1>1. bookFlight' = [bookFlight EXCEPT ![s] = Flight(next)]
    BY FlightMoves
  <1>2. CASE Flight(next) = Flight(slice[s])
    <2>1. bookFlight' = bookFlight
      BY <1>1, <1>2 DEF bookFlight
    <2>. QED
      BY <2>1 DEF bookVars, bookEntry
  <1>3. CASE Flight(next) = {}
    <2>1. Book!Forget(s)
      BY <1>1, <1>3 DEF Book!Forget, bookFlight
    <2>. QED
      BY <2>1 DEF Book!Next
  <1>. QED
    BY <1>2, <1>3

\* A commit, by a slice that goes on to the call it announced or rests.
LEMMA BookCommit ==
    ASSUME AInv, NEW s \in Slices, slice[s].at = "save", Commit(s), NEW next, Go(s, next),
           \/ calls' = calls /\ Flight(next) = {}
           \/ /\ slice[s].entry = "intent"
              /\ calls' = [calls EXCEPT ![slice[s].key] = @ + 1]
              /\ Flight(next) = {slice[s].key}
    PROVE  Book!Next \/ UNCHANGED bookVars
  <1>. DEFINE k == slice[s].key
              end == slice[s].entry
  <1>1. /\ Sound(slice[s], mission) /\ mission.actions \in [Keys -> Phases]
        /\ calls \in [Keys -> Nat]
    BY Typed DEF AInv, ATypeOK
  <1>2. /\ end \in {"note", "intent", "done", "failed"} /\ (end # "note" => k \in Keys)
        /\ end = "intent" => slice[s].prior \in {"none", "failed"}
        /\ slice[s].seen = mission
    BY <1>1 DEF Sound, Commit
  <1>3. bookFlight' = [bookFlight EXCEPT ![s] = Flight(next)]
    BY FlightMoves
  <1>4. /\ mission'.actions = IF end = "note" THEN mission.actions
                              ELSE [mission.actions EXCEPT ![k] = end]
        /\ failures' = IF end = "failed" THEN [failures EXCEPT ![k] = @ + 1] ELSE failures
        /\ over' = IF end = "intent" /\ mission.actions[k] \in {"intent", "done"}
                   THEN [over EXCEPT ![k] = @ + 1] ELSE over
    BY <1>2 DEF Commit, Changed, Count
  <1>5. Flight(slice[s]) = IF end \in {"done", "failed"} THEN {k} ELSE {}
    BY DEF Flight
  <1>. HIDE DEF k, end
  <1>6. CASE end = "note"
    <2>1. calls' = calls /\ Flight(next) = {}
      BY <1>6 DEF end
    <2>2. bookFlight' = bookFlight
      BY <1>3, <1>5, <1>6, <2>1 DEF bookFlight
    <2>. QED
      BY <1>4, <1>6, <2>1, <2>2 DEF bookVars, bookEntry
  <1>7. CASE end = "intent"
    <2>1. k \in Keys /\ Book!Announce(k)
      BY <1>2, <1>4, <1>7 DEF Book!Announce
    <2>2. bookFlight[s] = {}
      BY <1>5, <1>7 DEF bookFlight
    <2>3. (\E w \in Slices : Book!LetGo(w, k)) \/ UNCHANGED <<bookFlight, calls>>
      <3>1. CASE calls' = calls /\ Flight(next) = {}
        <4>1. bookFlight' = bookFlight
          BY <1>3, <2>2, <3>1 DEF bookFlight
        <4>. QED
          BY <3>1, <4>1
      <3>2. CASE calls' = [calls EXCEPT ![k] = @ + 1] /\ Flight(next) = {k}
        <4>1. Book!LetGo(s, k)
          BY <1>3, <2>2, <3>2 DEF Book!LetGo, bookFlight
        <4>. QED
          BY <4>1
      <3>. QED
        BY <3>1, <3>2 DEF k
    <2>. QED
      BY <2>1, <2>3 DEF Book!Next, bookFlight
  <1>8. CASE end \in {"done", "failed"}
    <2>1. k \in Keys /\ calls' = calls /\ Flight(next) = {}
      BY <1>2, <1>8 DEF end
    <2>2. bookFlight[s] = {k}
      BY <1>5, <1>8 DEF bookFlight
    <2>3. Book!Close(s, k, end)
      BY <1>3, <1>4, <1>8, <2>1, <2>2 DEF Book!Close, bookFlight
    <2>. QED
      BY <1>8, <2>1, <2>3 DEF Book!Next
  <1>. QED
    BY <1>2, <1>6, <1>7, <1>8

\* The steps that leave the row alone.
LEMMA BookSlice ==
    ASSUME AInv, NEW s \in Slices,
           \/ Begin(s) \/ BeginBare(s) \/ Die(s) \/ End(s) \/ Approved(s) \/ NotApproved(s)
           \/ Note(s) \/ Load(s) \/ SaveConflicts(s) \/ Call(s)
           \/ \E k \in Keys : Invoke(s, k) \/ InvokeBlind(s, k)
    PROVE  Book!Next \/ UNCHANGED bookVars
  <1>. DEFINE Quiet(next) == /\ Go(s, next)
                             /\ Flight(next) = Flight(slice[s]) \/ Flight(next) = {}
  <1>1. slice[s] \in SliceState
    BY Typed
  <1>2. UNCHANGED <<mission, calls, failures, over>>
    BY DEF Begin, BeginBare, Die, End, Approved, NotApproved, Note, Load, SaveConflicts,
           Call, Invoke, InvokeBlind, counted
  <1>3. CASE Begin(s) \/ BeginBare(s) \/ Die(s) \/ End(s) \/ NotApproved(s)
    <2>1. Quiet(At("on", TRUE)) \/ Quiet(At("on", FALSE)) \/ Quiet(At("off", FALSE))
          \/ Quiet(At("on", slice[s].ledger))
      BY <1>3 DEF Begin, BeginBare, Die, End, NotApproved, Back, At, Flight
    <2>. QED
      BY <1>2, <2>1, BookMove
  <1>4. CASE Approved(s)
    <2>1. \/ Quiet([slice[s] EXCEPT !.at = "load", !.key = slice[s].key, !.entry = "intent",
                                    !.tries = 0])
          \/ ~slice[s].ledger /\ Quiet([slice[s] EXCEPT !.at = "call"])
      BY <1>1, <1>4 DEF Approved, Update, Flight, SliceState
    <2>. QED
      BY <1>2, <2>1, BookMove
  <1>5. CASE Note(s)
    <2>1. Quiet([slice[s] EXCEPT !.at = "load", !.key = "", !.entry = "note", !.tries = 0])
      BY <1>1, <1>5 DEF Note, Update, Flight, SliceState
    <2>. QED
      BY <1>2, <2>1, BookMove
  <1>6. CASE Load(s)
    <2>1. Quiet([slice[s] EXCEPT !.at = "save", !.seen = mission])
      BY <1>1, <1>6 DEF Load, Flight, SliceState
    <2>. QED
      BY <1>2, <2>1, BookMove
  <1>7. CASE SaveConflicts(s)
    <2>1. \/ Quiet([slice[s] EXCEPT !.at = "load", !.tries = @ + 1])
          \/ Quiet(At("on", slice[s].ledger))
      BY <1>1, <1>7 DEF SaveConflicts, Back, At, Flight, SliceState
    <2>. QED
      BY <1>2, <2>1, BookMove
  <1>8. CASE Call(s)
    <2>1. PICK entry \in {"done", "failed"} :
             IF slice[s].ledger THEN Update(s, slice[s].key, entry) ELSE Back(s)
      BY <1>8 DEF Call
    <2>2. \/ Quiet([slice[s] EXCEPT !.at = "load", !.key = slice[s].key, !.entry = entry,
                                    !.tries = 0])
          \/ Quiet(At("on", slice[s].ledger))
      BY <1>1, <1>8, <2>1 DEF Call, Update, Back, At, Flight, SliceState
    <2>. QED
      BY <1>2, <2>2, BookMove
  <1>9. ASSUME NEW k \in Keys, Invoke(s, k) \/ InvokeBlind(s, k)
        PROVE  Book!Next \/ UNCHANGED bookVars
    <2>1. PICK prior \in Phases : Proceed(s, k, prior)
      BY <1>9, Typed DEF Invoke, InvokeBlind, Phases
    <2>. DEFINE call == [slice[s] EXCEPT !.key = k, !.prior = prior]
    <2>2. call \in SliceState /\ call.ledger = slice[s].ledger
      BY <1>1 DEF SliceState
    <2>3. \/ Go(s, [call EXCEPT !.at = "asked"])
          \/ Go(s, [call EXCEPT !.at = "load", !.entry = "intent"])
          \/ ~slice[s].ledger /\ Go(s, [call EXCEPT !.at = "call"])
      BY <2>1 DEF Proceed
    <2>. HIDE DEF call
    <2>4. /\ Flight([call EXCEPT !.at = "asked"]) = {}
          /\ Flight([call EXCEPT !.at = "load", !.entry = "intent"]) = {}
          /\ ~slice[s].ledger => Flight([call EXCEPT !.at = "call"]) = {}
      BY <2>2 DEF Flight, SliceState
    <2>. QED
      BY <1>2, <2>3, <2>4, BookMove
  <1>. QED
    BY <1>3, <1>4, <1>5, <1>6, <1>7, <1>8, <1>9

\* The steps that may write it.
LEMMA BookSave ==
    ASSUME AInv, NEW s \in Slices, Save(s) \/ UpdateFails(s)
    PROVE  Book!Next \/ UNCHANGED bookVars
  <1>1. slice[s] \in SliceState /\ Sound(slice[s], mission)
    BY Typed
  <1>2. Flight(At("on", slice[s].ledger)) = {}
    BY DEF Flight, At
  <1>3. CASE Save(s) /\ slice[s].entry = "intent"
    <2>. DEFINE next == [slice[s] EXCEPT !.at = "call"]
    <2>1. /\ slice[s].at = "save" /\ Commit(s) /\ Go(s, next)
          /\ calls' = [calls EXCEPT ![slice[s].key] = @ + 1]
      BY <1>3 DEF Save, LetGo
    <2>2. Flight(next) = {slice[s].key}
      BY <1>1, <1>3, <2>1 DEF Flight, SliceState, Sound
    <2>. HIDE DEF next
    <2>. QED
      BY <1>3, <2>1, <2>2, BookCommit
  <1>4. CASE Save(s) /\ slice[s].entry # "intent"
    BY <1>2, <1>4, BookCommit DEF Save, Back
  <1>5. CASE UpdateFails(s)
    <2>1. Go(s, At("on", slice[s].ledger)) /\ calls' = calls
      BY <1>5 DEF UpdateFails, Back
    <2>2. CASE UNCHANGED <<mission, failures, over, noted>>
      BY <1>2, <2>1, <2>2, BookMove
    <2>3. CASE slice[s].at = "save" /\ Commit(s)
      BY <1>2, <2>1, <2>3, BookCommit
    <2>. QED
      BY <1>5, <2>2, <2>3 DEF UpdateFails
  <1>. QED
    BY <1>3, <1>4, <1>5

\* The versioned mission behaves like a book changed in one step at a time:
\* updateMission loses no entry of another slice, whatever lies between its load
\* and its save, and an end is written only for a call that is in flight.
THEOREM LedgerImplementsBook == ASpec => ImplementsBook
  <1>1. AInit => Book!Init
    <2>. SUFFICES ASSUME AInit PROVE Book!Init
      OBVIOUS
    <2>1. \A s \in Slices : Flight(slice[s]) = {}
      BY DEF AInit, At, Flight
    <2>2. mission.actions = [k \in Keys |-> "none"]
      BY DEF AInit, Fresh
    <2>. QED
      BY <2>1, <2>2 DEF AInit, Book!Init
  <1>2. AInv /\ [ANext]_avars => [Book!Next]_(Book!vars)
    <2>. SUFFICES ASSUME AInv, [ANext]_avars PROVE Book!Next \/ UNCHANGED bookVars
      BY DEF Book!vars, bookVars, bookEntry, bookFlight
    <2>1. CASE UNCHANGED avars
      BY <2>1 DEF avars, counted, bookVars, bookEntry, bookFlight
    <2>2. CASE ANext
      BY <2>2, BookSlice, BookSave DEF ANext
    <2>. QED
      BY <2>1, <2>2
  <1>. QED
    BY <1>1, <1>2, AInvHolds, PTL DEF ASpec, ImplementsBook, Book!Spec

\* What the book alone says about repetitions: calls and entries are in step.
BookAccounts ==
    /\ mission.actions \in [Keys -> Phases]
    /\ calls \in [Keys -> Nat] /\ over \in [Keys -> Nat] /\ failures \in [Keys -> Nat]
    /\ Explained

\* One step of the book keeps them so, whoever it is of.
LEMMA BookStepAccounts ==
    ASSUME BookAccounts, Book!Next
    PROVE  BookAccounts'
  <1>1. ASSUME NEW k \in Keys, Book!Announce(k),
               (\E w \in Slices : Book!LetGo(w, k)) \/ UNCHANGED calls
        PROVE  BookAccounts'
    <2>1. /\ mission'.actions = [mission.actions EXCEPT ![k] = "intent"]
          /\ over' = IF mission.actions[k] \in {"intent", "done"}
                     THEN [over EXCEPT ![k] = @ + 1] ELSE over
          /\ failures' = failures
          /\ calls' = [calls EXCEPT ![k] = @ + 1] \/ calls' = calls
      BY <1>1 DEF Book!Announce, Book!LetGo
    <2>2. /\ mission'.actions \in [Keys -> Phases] /\ calls' \in [Keys -> Nat]
          /\ over' \in [Keys -> Nat] /\ failures' \in [Keys -> Nat]
      BY <2>1 DEF BookAccounts, Phases
    <2>3. ASSUME NEW j \in Keys
          PROVE  calls'[j] <= failures'[j] + over'[j] + Open(j)'
      <3>1. CASE j = k
        BY <2>1, <3>1 DEF BookAccounts, Explained, Open
      <3>2. CASE j # k
        BY <2>1, <3>2 DEF BookAccounts, Explained, Open
      <3>. QED
        BY <3>1, <3>2
    <2>. QED
      BY <2>2, <2>3 DEF BookAccounts, Explained
  <1>2. ASSUME NEW w \in Slices, NEW k \in Keys, NEW end \in {"done", "failed"},
               Book!Close(w, k, end)
        PROVE  BookAccounts'
    <2>1. /\ mission'.actions = [mission.actions EXCEPT ![k] = end]
          /\ failures' = IF end = "failed" THEN [failures EXCEPT ![k] = @ + 1] ELSE failures
          /\ calls' = calls /\ over' = over
      BY <1>2 DEF Book!Close
    <2>2. /\ mission'.actions \in [Keys -> Phases] /\ calls' \in [Keys -> Nat]
          /\ over' \in [Keys -> Nat] /\ failures' \in [Keys -> Nat]
      BY <2>1 DEF BookAccounts, Phases
    <2>3. ASSUME NEW j \in Keys
          PROVE  calls'[j] <= failures'[j] + over'[j] + Open(j)'
      <3>1. CASE j = k
        BY <2>1, <3>1 DEF BookAccounts, Explained, Open
      <3>2. CASE j # k
        BY <2>1, <3>2 DEF BookAccounts, Explained, Open
      <3>. QED
        BY <3>1, <3>2
    <2>. QED
      BY <2>2, <2>3 DEF BookAccounts, Explained
  <1>3. ASSUME NEW w \in Slices, Book!Forget(w)
        PROVE  BookAccounts'
    BY <1>3 DEF Book!Forget, BookAccounts, Explained, Open
  <1>. QED
    BY <1>1, <1>2, <1>3 DEF Book!Next

\* Whatever implements the book repeats a call only for a failure written down or
\* an announcement made in ignorance: the protocol of lookups, versions and lost
\* answers adds no reason of its own (invoke, updateMission).
THEOREM BookRepeatsHaveReasons == ImplementsBook => []RepeatsAreAccounted
  <1>1. Book!Init => BookAccounts
    BY DEF Book!Init, BookAccounts, Explained, Open, Phases
  <1>2. BookAccounts /\ [Book!Next]_(Book!vars) => BookAccounts'
    <2>1. BookAccounts /\ UNCHANGED Book!vars => BookAccounts'
      BY DEF Book!vars, BookAccounts, Explained, Open
    <2>. QED
      BY <2>1, BookStepAccounts
  <1>3. BookAccounts => RepeatsAreAccounted
    BY DEF BookAccounts, Explained, Open, RepeatsAreAccounted
  <1>. QED
    BY <1>1, <1>2, <1>3, PTL DEF ImplementsBook, Book!Spec
===================================================================================
