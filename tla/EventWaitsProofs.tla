----------------------------- MODULE EventWaitsProofs -----------------------------
(***************************************************************************)
(* A parked stage misses no release, a wait is ended neither by old news   *)
(* nor over the head of new ones, and the stage keeps the board of the     *)
(* ledger, for any number of deliveries and waits, whatever fails and      *)
(* whenever what comes.                                                    *)
(***************************************************************************)
EXTENDS EventWaits, SequenceTheorems, TLAPS

Verdicts == {"none", "observed", "unobserved", "blind"}

VTypeOK ==
    /\ recorded \in Seq(Deliveries)
    /\ repeats \in 0 .. MaxRepeats
    /\ handler \in [Deliveries -> {"none", "recorded", "done", "failed"}]
    /\ stage \in StageRow
    /\ waits \in Seq(Wait) /\ Len(waits) <= MaxWaits
    /\ saved \in 0 .. Len(waits) /\ mem \in 0 .. Len(waits) /\ stage.shown \in 0 .. Len(waits)
    /\ worker \in {"off", "resume", "loop", "park", "save"}
    /\ verdict \in [wait : 0 .. Len(waits), how : Verdicts, at : 0 .. Len(recorded)]
    /\ faults \in 0 .. MaxFaults

\* A delivery is recorded at most once.
RecordedOnce == \A i, j \in 1 .. Len(recorded) : recorded[i] = recorded[j] => i = j

\* Where the slice is, its stage runs; and it looks at, or parks on, a wait it has.
SliceFits ==
    /\ worker \in {"resume", "loop", "park"} => stage.status = "running"
    /\ worker \in {"resume", "park"} => mem # 0

ParkedOnAWait == Parked => stage.shown # 0

\* The probe looks back to where the agent asked.
LooksBack == \A n \in 1 .. Len(waits) : waits[n].since = waits[n].asked

VerdictOfAWait == verdict.how \in {"observed", "unobserved"} => verdict.wait # 0

VInv ==
    /\ VTypeOK /\ RecordedOnce /\ SliceFits /\ ParkedOnAWait /\ LooksBack /\ VerdictOfAWait
    /\ NoLostWake /\ NothingOverlooked /\ ObservedIsNew

LEMMA InitVInv == WaitsAssumption /\ WInit => VInv
  <1>. SUFFICES ASSUME WaitsAssumption, WInit PROVE VInv
    OBVIOUS
  <1>1. recorded \in Seq(Deliveries) /\ Len(recorded) = 0 /\ waits \in Seq(Wait) /\ Len(waits) = 0
    BY EmptySeq DEF WInit
  <1>2. MaxWaits \in Nat /\ MaxSlices \in Nat /\ MaxRepeats \in Nat /\ MaxFaults \in Nat
    BY DEF WaitsAssumption
  <1>3. stage \in StageRow /\ stage.shown = 0 /\ stage.due /\ stage.status = "pending"
    BY <1>2 DEF WInit, StageRow
  <1>4. verdict \in [wait : 0 .. Len(waits), how : Verdicts, at : 0 .. Len(recorded)]
        /\ verdict.how = "none"
    BY <1>1 DEF WInit, NoVerdict, Verdicts
  <1>5. VTypeOK
    BY <1>1, <1>2, <1>3, <1>4 DEF WInit, VTypeOK
  <1>6. RecordedOnce /\ SliceFits /\ ParkedOnAWait /\ LooksBack /\ VerdictOfAWait
    BY <1>1, <1>3, <1>4 DEF WInit, RecordedOnce, SliceFits, ParkedOnAWait, Parked, LooksBack,
                            VerdictOfAWait
  <1>7. NoLostWake /\ NothingOverlooked /\ ObservedIsNew
    BY <1>3, <1>4 DEF NoLostWake, Parked, NothingOverlooked, ObservedIsNew
  <1>. QED
    BY <1>5, <1>6, <1>7 DEF VInv

-----------------------------------------------------------------------------
(* What steps leave as it is *)

LEMMA Lengths ==
    ASSUME VInv
    PROVE  /\ Len(recorded) \in Nat /\ Len(waits) \in Nat
           /\ \A i \in 1 .. Len(recorded) : recorded[i] \in Deliveries
           /\ \A n \in 1 .. Len(waits) : waits[n] \in Wait
  BY LenProperties, ElementOfSeq DEF VInv, VTypeOK

RecordGrows ==
    /\ recorded' \in Seq(Deliveries) /\ Len(recorded') \in Nat /\ Len(recorded) <= Len(recorded')
    /\ \A i \in 1 .. Len(recorded) : recorded'[i] = recorded[i]

WaitsGrow ==
    /\ waits' \in Seq(Wait) /\ Len(waits') \in Nat /\ Len(waits) <= Len(waits')
    /\ Len(waits') <= MaxWaits
    /\ \A n \in 1 .. Len(waits) : waits'[n].since = waits[n].since
                                  /\ waits'[n].asked = waits[n].asked

LEMMA SameGrows ==
    ASSUME VInv
    PROVE  (UNCHANGED recorded => RecordGrows) /\ (UNCHANGED waits => WaitsGrow)
  BY Lengths DEF VInv, VTypeOK, RecordGrows, WaitsGrow

\* What a verdict found stays true: the record only grows at its end.
LEMMA VerdictKept ==
    ASSUME VInv, RecordGrows, WaitsGrow, UNCHANGED verdict
    PROVE  /\ NothingOverlooked' /\ ObservedIsNew' /\ VerdictOfAWait'
           /\ verdict' \in [wait : 0 .. Len(waits'), how : Verdicts, at : 0 .. Len(recorded')]
  <1>1. /\ verdict.wait \in 0 .. Len(waits) /\ verdict.at \in 0 .. Len(recorded)
        /\ verdict.how \in Verdicts /\ Len(recorded) \in Nat /\ Len(waits) \in Nat
        /\ verdict \in [wait : 0 .. Len(waits), how : Verdicts, at : 0 .. Len(recorded)]
    BY Lengths DEF VInv, VTypeOK
  <1>2. verdict' \in [wait : 0 .. Len(waits'), how : Verdicts, at : 0 .. Len(recorded')]
    BY <1>1 DEF RecordGrows, WaitsGrow
  <1>3. VerdictOfAWait'
    BY DEF VInv, VerdictOfAWait
  <1>. DEFINE asked == waits[verdict.wait].asked
  <1>4. verdict.how \in {"observed", "unobserved"} =>
           waits'[verdict.wait].asked = asked /\ asked \in Nat
    <2>1. verdict.wait # 0 => verdict.wait \in 1 .. Len(waits)
      BY <1>1
    <2>2. verdict.wait # 0 => waits[verdict.wait] \in Wait
      BY <2>1, Lengths
    <2>. QED
      BY <2>1, <2>2 DEF WaitsGrow, VInv, VerdictOfAWait, Wait
  <1>5. \A i \in 1 .. verdict.at : recorded'[i] = recorded[i]
    BY <1>1 DEF RecordGrows
  <1>6. NothingOverlooked'
    <2>. SUFFICES ASSUME verdict.how = "unobserved",
                         NEW i \in asked + 1 .. verdict.at, recorded'[i] \in Matching
                  PROVE  verdict.at - i >= Window
      BY <1>4 DEF NothingOverlooked
    <2>1. i \in 1 .. verdict.at
      BY <1>1, <1>4
    <2>. QED
      BY <1>5, <2>1 DEF VInv, NothingOverlooked
  <1>7. ObservedIsNew'
    <2>. SUFFICES ASSUME verdict.how = "observed"
                  PROVE  \E i \in asked + 1 .. verdict.at :
                            /\ recorded'[i] \in Matching
                            /\ \A j \in 1 .. i - 1 : recorded'[j] # recorded'[i]
      BY <1>4 DEF ObservedIsNew
    <2>1. PICK i \in asked + 1 .. verdict.at :
             recorded[i] \in Matching /\ \A j \in 1 .. i - 1 : recorded[j] # recorded[i]
      BY DEF VInv, ObservedIsNew
    <2>2. i \in 1 .. verdict.at /\ \A j \in 1 .. i - 1 : j \in 1 .. verdict.at
      BY <1>1, <1>4
    <2>. QED
      BY <1>5, <2>1, <2>2
  <1>. QED
    BY <1>2, <1>3, <1>6, <1>7

\* A stage that is not parked anew misses nothing while nothing is handled.
LEMMA WakeKept ==
    ASSUME VInv, UNCHANGED <<recorded, handler>>,
           Parked' => Parked /\ stage'.shown = stage.shown,
           \A n \in 1 .. Len(waits) : waits'[n].parked = waits[n].parked
    PROVE  NoLostWake' /\ ParkedOnAWait'
  <1>1. ParkedOnAWait'
    BY DEF VInv, ParkedOnAWait
  <1>2. NoLostWake'
    <2>. SUFFICES ASSUME Parked',
                         NEW i \in waits'[stage'.shown].parked + 1 .. Len(recorded),
                         recorded[i] \in Matching
                  PROVE  handler[recorded[i]] \in {"recorded", "failed"}
      BY DEF NoLostWake
    <2>1. Parked /\ stage'.shown = stage.shown /\ stage.shown \in 1 .. Len(waits)
      BY Lengths DEF VInv, VTypeOK, ParkedOnAWait
    <2>2. waits'[stage'.shown].parked = waits[stage.shown].parked
      BY <2>1
    <2>. QED
      BY <2>1, <2>2 DEF VInv, NoLostWake
  <1>. QED
    BY <1>1, <1>2

LEMMA OrderKept ==
    ASSUME VInv, WaitsGrow, Len(waits') = Len(waits)
    PROVE  LooksBack'
  BY DEF VInv, LooksBack, WaitsGrow

-----------------------------------------------------------------------------
(* The webhook route *)

LEMMA DeliverStep ==
    ASSUME WaitsAssumption, VInv, NEW d \in Deliveries, Deliver(d)
    PROVE  VInv'
  <1>1. UNCHANGED <<stage, waits, saved, mem, worker, verdict, faults>>
    BY DEF Deliver, slice
  <1>2. /\ Len(recorded) \in Nat /\ recorded \in Seq(Deliveries)
        /\ handler \in [Deliveries -> {"none", "recorded", "done", "failed"}]
        /\ repeats \in 0 .. MaxRepeats /\ MaxRepeats \in Nat
    BY Lengths DEF VInv, VTypeOK, WaitsAssumption
  <1>3. repeats' \in 0 .. MaxRepeats
    BY <1>2 DEF Deliver, Repeat
  <1>4. CASE UNCHANGED <<recorded, handler>>
    <2>1. /\ RecordGrows /\ WaitsGrow
      BY <1>1, <1>4, SameGrows
    <2>2. NoLostWake' /\ ParkedOnAWait'
      BY <1>1, <1>4, WakeKept DEF Parked
    <2>3. VTypeOK'
      BY <1>1, <1>3, <1>4, <2>1, VerdictKept DEF VInv, VTypeOK
    <2>4. RecordedOnce' /\ SliceFits' /\ LooksBack'
      BY <1>1, <1>4 DEF VInv, RecordedOnce, SliceFits, LooksBack
    <2>. QED
      BY <1>1, <2>1, <2>2, <2>3, <2>4, VerdictKept DEF VInv
  <1>5. CASE ~Recorded(d) /\ Fresh(d)
    <2>1. /\ recorded' \in Seq(Deliveries) /\ Len(recorded') = Len(recorded) + 1
          /\ recorded'[Len(recorded) + 1] = d
          /\ \A i \in 1 .. Len(recorded) : recorded'[i] = recorded[i] /\ recorded[i] # d
      BY <1>2, <1>5, AppendProperties DEF Fresh, Recorded
    <2>2. /\ handler' \in [Deliveries -> {"none", "recorded", "done", "failed"}]
          /\ handler'[d] = "recorded" /\ \A e \in Deliveries \ {d} : handler'[e] = handler[e]
      BY <1>2, <1>5 DEF Fresh
    <2>3. RecordGrows /\ WaitsGrow
      BY <1>1, <1>2, <2>1, SameGrows DEF RecordGrows
    <2>4. VTypeOK'
      BY <1>1, <1>3, <2>1, <2>2, <2>3, VerdictKept DEF VInv, VTypeOK
    <2>5. RecordedOnce'
      <3>. SUFFICES ASSUME NEW i \in 1 .. Len(recorded) + 1, NEW j \in 1 .. Len(recorded) + 1,
                           recorded'[i] = recorded'[j]
                    PROVE  i = j
        BY <2>1 DEF RecordedOnce
      <3>1. CASE i \in 1 .. Len(recorded) /\ j \in 1 .. Len(recorded)
        BY <2>1, <3>1 DEF VInv, RecordedOnce
      <3>2. CASE i = Len(recorded) + 1 \/ j = Len(recorded) + 1
        BY <1>2, <2>1, <3>2
      <3>. QED
        BY <1>2, <3>1, <3>2
    <2>6. NoLostWake'
      <3>. SUFFICES ASSUME Parked, NEW i \in waits[stage.shown].parked + 1 .. Len(recorded'),
                           recorded'[i] \in Matching
                    PROVE  handler'[recorded'[i]] \in {"recorded", "failed"}
        BY <1>1 DEF NoLostWake, Parked
      <3>1. waits[stage.shown] \in Wait
        BY SMTT(20), Lengths DEF VInv, VTypeOK, ParkedOnAWait
      <3>2. CASE i = Len(recorded) + 1
        BY <2>1, <2>2, <3>2
      <3>3. CASE i # Len(recorded) + 1
        <4>1. i \in waits[stage.shown].parked + 1 .. Len(recorded) /\ i \in 1 .. Len(recorded)
          BY <1>2, <2>1, <3>1, <3>3 DEF Wait
        <4>2. recorded'[i] = recorded[i] /\ recorded[i] \in Deliveries \ {d}
          BY <2>1, <4>1, Lengths
        <4>. QED
          BY <2>2, <4>1, <4>2 DEF VInv, NoLostWake
      <3>. QED
        BY <3>2, <3>3
    <2>7. SliceFits' /\ LooksBack' /\ ParkedOnAWait'
      BY <1>1 DEF VInv, SliceFits, LooksBack, ParkedOnAWait, Parked
    <2>. QED
      BY <1>1, <2>3, <2>4, <2>5, <2>6, <2>7, VerdictKept DEF VInv
  <1>. QED
    BY <1>4, <1>5 DEF Deliver

\* A handler comes to its end; one that succeeded has made the stage due.
LEMMA HandlerStep ==
    ASSUME WaitsAssumption, VInv, NEW d \in Deliveries, Release(d) \/ ReleaseFails(d)
    PROVE  VInv'
  <1>1. /\ UNCHANGED <<recorded, repeats, waits, saved, mem, worker, verdict>>
        /\ handler' \in [Deliveries -> {"none", "recorded", "done", "failed"}]
        /\ \A e \in Deliveries \ {d} : handler'[e] = handler[e]
        /\ faults' \in 0 .. MaxFaults
    <2>1. /\ UNCHANGED <<recorded, repeats, waits, saved, mem, worker, verdict>>
          /\ handler' = [handler EXCEPT ![d] = "done"] \/ handler' = [handler EXCEPT ![d] = "failed"]
          /\ faults' = faults \/ Fault
      BY DEF Release, ReleaseFails, slice
    <2>2. faults' \in 0 .. MaxFaults
      BY <2>1 DEF Fault, VInv, VTypeOK, WaitsAssumption
    <2>. QED
      BY <2>1, <2>2 DEF VInv, VTypeOK
  <1>2. /\ stage' \in StageRow /\ stage'.shown = stage.shown /\ stage'.status = stage.status
        /\ stage.due => stage'.due
    <2>1. stage \in StageRow
      BY DEF VInv, VTypeOK
    <2>2. stage' = stage \/ stage' = [stage EXCEPT !.due = TRUE]
      BY DEF Release, ReleaseFails
    <2>. QED
      BY <2>1, <2>2 DEF StageRow
  <1>3. RecordGrows /\ WaitsGrow
    BY <1>1, SameGrows
  <1>4. VTypeOK'
    BY <1>1, <1>2, <1>3, VerdictKept DEF VInv, VTypeOK
  <1>5. NoLostWake'
    <2>. SUFFICES ASSUME Parked', NEW i \in waits[stage.shown].parked + 1 .. Len(recorded),
                         recorded[i] \in Matching
                  PROVE  handler'[recorded[i]] \in {"recorded", "failed"}
      BY <1>1, <1>2 DEF NoLostWake
    <2>1. Parked
      BY <1>2 DEF Parked, VInv, VTypeOK, StageRow
    <2>2. handler[recorded[i]] \in {"recorded", "failed"}
      BY <2>1 DEF VInv, NoLostWake
    <2>3. recorded[i] \in Deliveries
      <3>1. waits[stage.shown] \in Wait
        BY SMTT(20), <2>1, Lengths DEF VInv, VTypeOK, ParkedOnAWait
      <3>2. i \in 1 .. Len(recorded)
        BY SMTT(20), <3>1, Lengths DEF Wait
      <3>. QED
        BY <3>2, Lengths
    <2>4. CASE recorded[i] # d
      BY <1>1, <2>2, <2>3, <2>4
    <2>5. CASE recorded[i] = d /\ Release(d)
      <3>1. stage.status = "blocked" /\ stage.shown # 0
        BY <2>1 DEF Parked, VInv, ParkedOnAWait
      <3>2. stage' = [stage EXCEPT !.due = TRUE]
        BY <2>5, <3>1 DEF Release
      <3>3. stage'.due
        BY <3>2 DEF VInv, VTypeOK, StageRow
      <3>. QED
        BY <3>3 DEF Parked
    <2>6. CASE recorded[i] = d /\ ReleaseFails(d)
      BY <2>6 DEF ReleaseFails, VInv, VTypeOK
    <2>. QED
      BY <2>4, <2>5, <2>6
  <1>6. RecordedOnce' /\ SliceFits' /\ LooksBack' /\ ParkedOnAWait'
    <2>1. RecordedOnce' /\ LooksBack'
      BY <1>1 DEF VInv, RecordedOnce, LooksBack
    <2>2. SliceFits'
      BY <1>1, <1>2 DEF VInv, SliceFits
    <2>3. stage.due \in BOOLEAN /\ stage'.due \in BOOLEAN
      BY <1>2 DEF VInv, VTypeOK, StageRow
    <2>4. ParkedOnAWait'
      BY <1>2, <2>3 DEF VInv, ParkedOnAWait, Parked
    <2>. QED
      BY <2>1, <2>2, <2>4
  <1>. QED
    BY <1>1, <1>3, <1>4, <1>5, <1>6, VerdictKept DEF VInv

-----------------------------------------------------------------------------
(* Claims, time and the slice: nothing is recorded and nothing is handled *)

\* A step that parks nothing and ends no wait.
LEMMA QuietStep ==
    ASSUME VInv, UNCHANGED <<world, verdict>>, WaitsGrow, Len(waits') = Len(waits),
           \A n \in 1 .. Len(waits) : waits'[n].parked = waits[n].parked,
           stage' \in StageRow, stage'.shown \in 0 .. Len(waits),
           saved' \in 0 .. Len(waits), mem' \in 0 .. Len(waits),
           worker' \in {"off", "resume", "loop", "park", "save"}, faults' \in 0 .. MaxFaults,
           SliceFits', Parked' => Parked /\ stage'.shown = stage.shown
    PROVE  VInv'
  <1>1. UNCHANGED <<recorded, repeats, handler>> /\ RecordGrows
    BY SameGrows DEF world
  <1>2. NoLostWake' /\ ParkedOnAWait'
    BY <1>1, WakeKept
  <1>3. VTypeOK'
    BY <1>1, VerdictKept DEF VInv, VTypeOK, WaitsGrow
  <1>4. RecordedOnce' /\ LooksBack'
    BY <1>1, OrderKept DEF VInv, RecordedOnce
  <1>. QED
    BY <1>1, <1>2, <1>3, <1>4, VerdictKept DEF VInv

LEMMA Steady ==
    ASSUME VInv, UNCHANGED waits
    PROVE  /\ WaitsGrow /\ Len(waits') = Len(waits)
           /\ \A n \in 1 .. Len(waits) : waits'[n].parked = waits[n].parked
  BY SameGrows

\* The row, the memory and the checkpoint as they are before a step.
LEMMA Before ==
    ASSUME WaitsAssumption, VInv
    PROVE  /\ stage \in StageRow /\ stage.shown \in 0 .. Len(waits)
           /\ saved \in 0 .. Len(waits) /\ mem \in 0 .. Len(waits)
           /\ worker \in {"off", "resume", "loop", "park", "save"}
           /\ faults \in 0 .. MaxFaults /\ MaxFaults \in Nat /\ MaxSlices \in Nat
           /\ Len(waits) \in Nat /\ Len(recorded) \in Nat /\ Len(waits) <= MaxWaits
           /\ MaxWaits \in Nat /\ SliceFits /\ 0 \in 0 .. Len(waits)
           /\ Fault => faults' \in 0 .. MaxFaults
  <1>1. /\ stage \in StageRow /\ stage.shown \in 0 .. Len(waits)
        /\ saved \in 0 .. Len(waits) /\ mem \in 0 .. Len(waits)
        /\ worker \in {"off", "resume", "loop", "park", "save"}
        /\ faults \in 0 .. MaxFaults /\ Len(waits) <= MaxWaits /\ SliceFits
    BY DEF VInv, VTypeOK
  <1>2. MaxFaults \in Nat /\ MaxSlices \in Nat /\ MaxWaits \in Nat
    BY DEF WaitsAssumption
  <1>. QED
    BY <1>1, <1>2, Lengths DEF Fault

LEMMA ClaimStep ==
    ASSUME WaitsAssumption, VInv, Claim \/ Exhaust
    PROVE  VInv'
  <1>1. CASE Claim
    <2>1. /\ UNCHANGED <<world, waits, saved, verdict, faults>> /\ mem' = saved
          /\ worker' = IF saved = 0 THEN "loop" ELSE "resume"
          /\ stage' = [stage EXCEPT !.status = "running", !.slices = @ + 1]
          /\ stage.slices < MaxSlices
      BY <1>1 DEF Claim
    <2>2. /\ stage' \in StageRow /\ stage'.status = "running" /\ stage'.shown = stage.shown
      <3>1. stage \in StageRow /\ stage.slices \in 0 .. MaxSlices /\ MaxSlices \in Nat
        BY Before DEF StageRow
      <3>2. stage.slices + 1 \in 0 .. MaxSlices
        BY <2>1, <3>1
      <3>. QED
        BY <2>1, <3>1, <3>2 DEF StageRow
    <2>3. SliceFits' /\ ~Parked'
      BY <2>1, <2>2 DEF SliceFits, Parked
    <2>. QED
      BY <2>1, <2>2, <2>3, Before, Steady, QuietStep
  <1>2. CASE Exhaust
    <2>1. /\ UNCHANGED <<world, waits, saved, mem, worker, verdict, faults>>
          /\ stage' = [stage EXCEPT !.status = "failed"] /\ worker = "off"
      BY <1>2 DEF Exhaust, Claimable, slice
    <2>2. /\ stage' \in StageRow /\ stage'.status = "failed" /\ stage'.shown = stage.shown
      BY <2>1, Before DEF StageRow
    <2>3. SliceFits' /\ ~Parked'
      BY <2>1, <2>2 DEF SliceFits, Parked
    <2>. QED
      BY <2>1, <2>2, <2>3, Before, Steady, QuietStep
  <1>. QED
    BY <1>1, <1>2

LEMMA DieStep ==
    ASSUME WaitsAssumption, VInv, Die
    PROVE  VInv'
  <1>1. /\ UNCHANGED <<world, waits, saved, verdict>> /\ mem' = 0 /\ worker' = "off"
        /\ faults' \in 0 .. MaxFaults
        /\ \/ stage' = stage
           \/ stage' = [stage EXCEPT !.status = "blocked", !.due = TRUE]
    BY Before DEF Die
  <1>2. /\ stage' \in StageRow /\ stage'.shown = stage.shown
        /\ stage' = stage \/ stage'.due
    BY <1>1, Before DEF StageRow
  <1>3. SliceFits' /\ (Parked' => Parked)
    BY <1>1, <1>2 DEF SliceFits, Parked
  <1>. QED
    BY <1>1, <1>2, <1>3, Before, Steady, QuietStep

LEMMA PassStep ==
    ASSUME WaitsAssumption, VInv, Pass
    PROVE  VInv'
  <1>1. /\ UNCHANGED <<world, saved, mem, worker, verdict, faults>>
        /\ waits' = [n \in 1 .. Len(waits) |->
                       IF Late(n) THEN waits[n] ELSE [waits[n] EXCEPT !.age = @ + 1]]
        /\ stage' = [stage EXCEPT !.due = @ \/ ComesDue]
    BY DEF Pass
  <1>2. /\ stage' \in StageRow /\ stage'.shown = stage.shown /\ stage'.status = stage.status
        /\ stage.due => stage'.due
    <2>1. (stage.due \/ ComesDue) \in BOOLEAN
      BY Before DEF StageRow, ComesDue
    <2>. QED
      BY <1>1, <2>1, Before DEF StageRow
  <1>3. \A n \in 1 .. Len(waits) :
           /\ waits'[n] \in Wait /\ waits'[n].since = waits[n].since
           /\ waits'[n].asked = waits[n].asked /\ waits'[n].parked = waits[n].parked
    <2>. SUFFICES ASSUME NEW n \in 1 .. Len(waits)
                  PROVE  /\ waits'[n] \in Wait /\ waits'[n].since = waits[n].since
                         /\ waits'[n].asked = waits[n].asked
                         /\ waits'[n].parked = waits[n].parked
      OBVIOUS
    <2>1. waits[n] \in Wait /\ Patience \in Nat
      BY Lengths DEF WaitsAssumption
    <2>2. CASE Late(n)
      BY <1>1, <2>1, <2>2
    <2>3. CASE ~Late(n)
      <3>1. waits[n].age \in 0 .. Patience /\ waits[n].age # Patience
        BY <2>1, <2>3 DEF Late, Wait
      <3>2. waits[n].age + 1 \in 0 .. Patience
        BY <2>1, <3>1
      <3>3. waits'[n] = [waits[n] EXCEPT !.age = @ + 1]
        BY <1>1, <2>3
      <3>. QED
        BY <2>1, <3>2, <3>3 DEF Wait
    <2>. QED
      BY <2>2, <2>3
  <1>4. waits' \in Seq(Wait) /\ Len(waits') = Len(waits)
    <2>1. waits' \in [1 .. Len(waits) -> Wait] /\ Len(waits) \in Nat
      BY <1>1, <1>3, Before
    <2>2. waits' \in Seq(Wait)
      BY <2>1, SeqDef
    <2>3. DOMAIN waits' = 1 .. Len(waits') /\ Len(waits') \in Nat
      BY <2>2, LenProperties
    <2>. QED
      BY <2>1, <2>2, <2>3
  <1>5. WaitsGrow
    BY <1>3, <1>4, Before DEF WaitsGrow
  <1>6. SliceFits' /\ (Parked' => Parked)
    BY <1>1, <1>2, Before DEF SliceFits, Parked, StageRow
  <1>. QED
    BY <1>1, <1>2, <1>3, <1>4, <1>5, <1>6, Before, QuietStep

-----------------------------------------------------------------------------
(* The end of a wait, and a new one *)

\* A step of the slice that records nothing, parks nothing and leaves the waits.
Ended(how) ==
    /\ EndWait(how) /\ mem # 0 /\ UNCHANGED <<world, stage, waits, saved>>
    /\ faults' \in 0 .. MaxFaults /\ stage.status = "running"

LEMMA EndStep ==
    ASSUME WaitsAssumption, VInv,
           NEW how \in {"observed", "unobserved", "blind"}, Ended(how),
           how = "observed" => Met(mem), how = "unobserved" => ~Met(mem)
    PROVE  VInv'
  <1>1. /\ UNCHANGED <<recorded, repeats, handler, stage, waits, saved>>
        /\ verdict' = [wait |-> mem, how |-> how, at |-> Len(recorded)]
        /\ mem' = 0 /\ worker' = "loop" /\ stage.status = "running"
        /\ faults' \in 0 .. MaxFaults /\ mem # 0
    BY DEF Ended, EndWait, world
  <1>2. /\ mem \in 1 .. Len(waits) /\ waits[mem] \in Wait /\ waits[mem].since = waits[mem].asked
        /\ waits[mem].asked \in Nat
    <2>1. mem \in 1 .. Len(waits)
      BY <1>1, Before
    <2>. QED
      BY <2>1, Lengths DEF VInv, LooksBack, Wait
  <1>3. /\ verdict' \in [wait : 0 .. Len(waits), how : Verdicts, at : 0 .. Len(recorded)]
        /\ verdict'.wait = mem /\ verdict'.how = how /\ verdict'.at = Len(recorded)
    BY <1>1, Before DEF Verdicts
  <1>4. VTypeOK'
    BY <1>1, <1>3, Before DEF VInv, VTypeOK
  <1>5. RecordedOnce' /\ SliceFits' /\ ParkedOnAWait' /\ LooksBack' /\ VerdictOfAWait'
    BY <1>1, <1>3 DEF VInv, RecordedOnce, SliceFits, ParkedOnAWait, Parked, LooksBack,
                      VerdictOfAWait
  <1>6. NoLostWake'
    BY <1>1 DEF NoLostWake, Parked
  <1>7. NothingOverlooked'
    <2>. SUFFICES ASSUME how = "unobserved", NEW i \in waits[mem].asked + 1 .. Len(recorded),
                         recorded[i] \in Matching
                  PROVE  Len(recorded) - i >= Window
      BY <1>1, <1>3 DEF NothingOverlooked
    <2>1. ~(Len(recorded) - i < Window)
      BY <1>2 DEF Met
    <2>. QED
      BY <1>2, <2>1, Before DEF WaitsAssumption
  <1>8. ObservedIsNew'
    <2>. SUFFICES ASSUME how = "observed"
                  PROVE  \E i \in waits[mem].asked + 1 .. Len(recorded) :
                            /\ recorded[i] \in Matching
                            /\ \A j \in 1 .. i - 1 : recorded[j] # recorded[i]
      BY <1>1, <1>3 DEF ObservedIsNew
    <2>1. PICK i \in waits[mem].asked + 1 .. Len(recorded) : recorded[i] \in Matching
      BY <1>2 DEF Met
    <2>2. \A j \in 1 .. i - 1 : j \in 1 .. Len(recorded) /\ i \in 1 .. Len(recorded) /\ j # i
      BY <1>2, <2>1, Before
    <2>3. \A j \in 1 .. i - 1 : recorded[j] # recorded[i]
      BY <2>2 DEF VInv, RecordedOnce
    <2>. QED
      BY <2>1, <2>3
  <1>. QED
    BY <1>4, <1>5, <1>6, <1>7, <1>8 DEF VInv

\* The wait goes on: the slice parks the stage again.
LEMMA GoesOnStep ==
    ASSUME WaitsAssumption, VInv, worker = "resume", worker' = "park",
           UNCHANGED <<world, stage, waits, saved, mem, verdict>>, faults' \in 0 .. MaxFaults
    PROVE  VInv'
  <1>1. SliceFits' /\ (Parked' => Parked)
    BY Before DEF SliceFits, Parked
  <1>. QED
    BY <1>1, Before, Steady, QuietStep

LEMMA ResumeStep ==
    ASSUME WaitsAssumption, VInv, Resume \/ ResumeBlind
    PROVE  VInv'
  <1>1. /\ worker = "resume" /\ UNCHANGED <<world, stage, waits, saved>>
        /\ faults' \in 0 .. MaxFaults
    BY Before DEF Resume, ResumeBlind
  <1>2. mem # 0 /\ stage.status = "running"
    BY <1>1, Before DEF SliceFits
  <1>3. CASE Resume
    <2>1. CASE Met(mem)
      <3>1. Ended("observed")
        BY <1>1, <1>2, <1>3, <2>1 DEF Resume, Ended
      <3>. QED
        BY <2>1, <3>1, EndStep
    <2>2. CASE ~Met(mem) /\ Late(mem)
      <3>1. Ended("unobserved")
        BY <1>1, <1>2, <1>3, <2>2 DEF Resume, Ended
      <3>. QED
        BY <2>2, <3>1, EndStep
    <2>3. CASE ~Met(mem) /\ ~Late(mem)
      BY <1>1, <1>3, <2>3, GoesOnStep DEF Resume
    <2>. QED
      BY <2>1, <2>2, <2>3
  <1>4. CASE ResumeBlind
    <2>1. CASE Late(mem)
      <3>1. Ended("blind")
        BY <1>1, <1>2, <1>4, <2>1 DEF ResumeBlind, Ended
      <3>. QED
        BY <3>1, EndStep
    <2>2. CASE ~Late(mem)
      BY <1>1, <1>4, <2>2, GoesOnStep DEF ResumeBlind
    <2>. QED
      BY <2>1, <2>2
  <1>. QED
    BY <1>3, <1>4

LEMMA AskStep ==
    ASSUME WaitsAssumption, VInv, NEW kind \in Kinds, Ask(kind)
    PROVE  VInv'
  <1>. DEFINE new == [kind |-> kind, since |-> Len(recorded), asked |-> Len(recorded),
                      parked |-> Len(recorded), age |-> 0]
  <1>1. /\ UNCHANGED <<world, stage, saved, verdict, faults>>
        /\ Len(waits) < MaxWaits /\ waits' = Append(waits, new)
        /\ mem' = Len(waits') /\ worker' = "park" /\ worker = "loop"
    BY DEF Ask
  <1>2. UNCHANGED <<recorded, repeats, handler>>
    BY <1>1 DEF world
  <1>3. new \in Wait /\ new.since = new.asked
    <2>1. kind \in {"event", "poll"} /\ 0 \in 0 .. Patience
      BY DEF WaitsAssumption
    <2>. QED
      BY <2>1, Before DEF Wait
  <1>. HIDE DEF new
  <1>4. /\ waits' \in Seq(Wait) /\ Len(waits') = Len(waits) + 1
        /\ waits'[Len(waits) + 1] = new
        /\ \A n \in 1 .. Len(waits) : waits'[n] = waits[n]
    BY <1>1, <1>3, AppendProperties DEF VInv, VTypeOK
  <1>5. RecordGrows /\ WaitsGrow
    BY <1>1, <1>2, <1>4, Before, SameGrows DEF WaitsGrow
  <1>6. stage.status = "running"
    BY <1>1, Before DEF SliceFits
  <1>7. SliceFits' /\ ParkedOnAWait' /\ NoLostWake' /\ RecordedOnce'
    <2>1. mem' # 0
      BY <1>1, <1>4, Before
    <2>2. ~Parked'
      BY <1>1, <1>6 DEF Parked
    <2>. QED
      BY <1>1, <1>2, <1>6, <2>1, <2>2
         DEF SliceFits, ParkedOnAWait, NoLostWake, RecordedOnce, VInv
  <1>8. LooksBack'
    <2>. SUFFICES ASSUME NEW n \in 1 .. Len(waits) + 1
                  PROVE  waits'[n].since = waits'[n].asked
      BY <1>4 DEF LooksBack
    <2>1. CASE n = Len(waits) + 1
      BY <1>3, <1>4, <2>1
    <2>2. CASE n \in 1 .. Len(waits)
      BY <1>4, <2>2 DEF VInv, LooksBack
    <2>. QED
      BY <2>1, <2>2, Before
  <1>9. VTypeOK'
    <2>1. /\ saved' \in 0 .. Len(waits') /\ mem' \in 0 .. Len(waits')
          /\ stage'.shown \in 0 .. Len(waits') /\ Len(waits') <= MaxWaits
      BY <1>1, <1>4, Before
    <2>. QED
      BY <1>1, <1>2, <1>4, <1>5, <2>1, VerdictKept DEF VInv, VTypeOK
  <1>. QED
    BY <1>1, <1>5, <1>7, <1>8, <1>9, VerdictKept DEF VInv

\* A stage that parks has nothing behind it to miss.
LEMMA ParkStep ==
    ASSUME WaitsAssumption, VInv, Park
    PROVE  VInv'
  <1>1. /\ UNCHANGED <<world, saved, mem, verdict, faults>> /\ worker = "park" /\ worker' = "save"
        /\ stage' = [stage EXCEPT !.status = "blocked", !.due = FALSE, !.shown = mem]
        /\ waits' = [waits EXCEPT ![mem].parked = Len(recorded)]
    BY DEF Park
  <1>2. UNCHANGED <<recorded, repeats, handler>>
    BY <1>1 DEF world
  <1>3. mem \in 1 .. Len(waits) /\ Len(waits) \in Nat /\ Len(recorded) \in Nat
    BY <1>1, Before DEF SliceFits
  <1>4. /\ stage' \in StageRow /\ stage'.shown = mem
    <2>1. mem \in 0 .. MaxWaits
      BY <1>3, Before
    <2>. QED
      BY <1>1, <2>1, Before DEF StageRow
  <1>. DEFINE anew == [waits[mem] EXCEPT !.parked = Len(recorded)]
  <1>5. anew \in Wait /\ anew.since = waits[mem].since /\ anew.asked = waits[mem].asked
        /\ anew.parked = Len(recorded)
    BY <1>3, Lengths DEF Wait
  <1>6. waits' = [waits EXCEPT ![mem] = anew]
    BY <1>1
  <1>. HIDE DEF anew
  <1>7. /\ waits' \in Seq(Wait) /\ Len(waits') = Len(waits) /\ waits'[mem] = anew
        /\ \A n \in 1 .. Len(waits) : n # mem => waits'[n] = waits[n]
    BY <1>3, <1>5, <1>6, ExceptSeq DEF VInv, VTypeOK
  <1>8. RecordGrows /\ WaitsGrow
    BY SMTT(20), <1>2, <1>3, <1>5, <1>7, Before, SameGrows DEF WaitsGrow
  <1>9. NoLostWake'
    <2>1. waits'[stage'.shown].parked = Len(recorded)
      BY <1>4, <1>5, <1>7
    <2>2. Len(recorded) + 1 .. Len(recorded) = {}
      BY <1>3
    <2>. QED
      BY <1>2, <2>1, <2>2 DEF NoLostWake
  <1>10. SliceFits' /\ ParkedOnAWait' /\ LooksBack' /\ RecordedOnce'
    <2>1. SliceFits' /\ ParkedOnAWait'
      BY <1>1, <1>3, <1>4 DEF SliceFits, ParkedOnAWait
    <2>. QED
      BY <1>2, <1>7, <1>8, <2>1, OrderKept DEF RecordedOnce, VInv
  <1>11. VTypeOK'
    BY <1>1, <1>2, <1>3, <1>4, <1>7, <1>8, Before, VerdictKept DEF VInv, VTypeOK
  <1>. QED
    BY <1>1, <1>8, <1>9, <1>10, <1>11, VerdictKept DEF VInv

LEMMA HandInStep ==
    ASSUME WaitsAssumption, VInv, Yield \/ Save \/ Complete
    PROVE  VInv'
  <1>1. /\ UNCHANGED <<world, waits, verdict, faults>>
        /\ saved' \in 0 .. Len(waits) /\ mem' \in 0 .. Len(waits)
        /\ worker' \in {"off", "save"}
        /\ \/ stage' = stage
           \/ stage' = [stage EXCEPT !.status = "blocked", !.due = TRUE, !.shown = 0]
           \/ stage' = [stage EXCEPT !.status = "completed", !.shown = 0]
    BY Before DEF Yield, Save, Complete
  <1>2. /\ stage' \in StageRow /\ stage'.shown \in 0 .. Len(waits)
        /\ stage' = stage \/ stage'.due \/ stage'.status = "completed"
    <2>1. stage \in StageRow /\ stage.shown \in 0 .. Len(waits) /\ 0 \in 0 .. Len(waits)
          /\ 0 \in 0 .. MaxWaits
      BY Before
    <2>2. CASE stage' = stage
      BY <2>1, <2>2
    <2>3. CASE stage' = [stage EXCEPT !.status = "blocked", !.due = TRUE, !.shown = 0]
      BY <2>1, <2>3 DEF StageRow
    <2>4. CASE stage' = [stage EXCEPT !.status = "completed", !.shown = 0]
      BY <2>1, <2>4 DEF StageRow
    <2>. QED
      BY <1>1, <2>2, <2>3, <2>4
  <1>3. SliceFits' /\ (Parked' => Parked /\ stage'.shown = stage.shown)
    BY <1>1, <1>2 DEF SliceFits, Parked
  <1>. QED
    BY <1>1, <1>2, <1>3, Before, Steady, QuietStep

LEMMA RestStep ==
    ASSUME WaitsAssumption, VInv, UNCHANGED wvars
    PROVE  VInv'
  <1>1. UNCHANGED <<world, stage, waits, saved, mem, worker, verdict, faults>>
    BY DEF wvars, world
  <1>2. SliceFits' /\ (Parked' => Parked)
    BY <1>1, Before DEF SliceFits, Parked
  <1>. QED
    BY <1>1, <1>2, Before, Steady, QuietStep

LEMMA StepVInv ==
    ASSUME WaitsAssumption, VInv, [WNext]_wvars
    PROVE  VInv'
  <1>1. CASE Claim \/ Exhaust
    BY <1>1, ClaimStep
  <1>2. CASE Resume \/ ResumeBlind
    BY <1>2, ResumeStep
  <1>3. ASSUME NEW kind \in Kinds, Ask(kind) PROVE VInv'
    BY <1>3, AskStep
  <1>4. CASE Park
    BY <1>4, ParkStep
  <1>5. CASE Yield \/ Save \/ Complete
    BY <1>5, HandInStep
  <1>6. CASE Die
    BY <1>6, DieStep
  <1>7. CASE Pass
    BY <1>7, PassStep
  <1>8. CASE Settled \/ UNCHANGED wvars
    BY <1>8, RestStep DEF Settled
  <1>9. ASSUME NEW d \in Deliveries, Deliver(d) PROVE VInv'
    BY <1>9, DeliverStep
  <1>10. ASSUME NEW d \in Deliveries, Release(d) \/ ReleaseFails(d) PROVE VInv'
    BY <1>10, HandlerStep
  <1>. QED
    BY <1>1, <1>2, <1>3, <1>4, <1>5, <1>6, <1>7, <1>8, <1>9, <1>10 DEF WNext, Slice

LEMMA AlwaysVInv == ASSUME WaitsAssumption PROVE WSpec => []VInv
  <1>1. WInit => VInv
    BY InitVInv
  <1>2. VInv /\ [WNext]_wvars => VInv'
    BY StepVInv
  <1>. QED
    BY <1>1, <1>2, PTL DEF WSpec

-----------------------------------------------------------------------------
(* What follows *)

\* Every variable of the waits keeps its type and a delivery is recorded at most
\* once, however often its sender repeats it (recordDelivery).
THEOREM WaitsAreTyped == ASSUME WaitsAssumption PROVE WSpec => []WTypeOK
  <1>1. ASSUME VInv PROVE WTypeOK
    <2>1. verdict.wait \in 0 .. Len(waits) /\ verdict.how \in Verdicts
      BY <1>1 DEF VInv, VTypeOK
    <2>2. IsInjective(recorded)
      <3>1. DOMAIN recorded = 1 .. Len(recorded)
        BY <1>1, LenProperties DEF VInv, VTypeOK
      <3>. QED
        BY <1>1, <3>1 DEF IsInjective, VInv, RecordedOnce
    <2>. QED
      BY <1>1, <2>1, <2>2 DEF WTypeOK, VInv, VTypeOK, Verdicts
  <1>. QED
    BY <1>1, AlwaysVInv, PTL

\* A stage that stays parked has missed no release: what was recorded for it
\* since it parked is still to release it, or failed to (releaseWaits).
THEOREM ReleasesAreNotLost == ASSUME WaitsAssumption PROVE WSpec => []NoLostWake
  <1>1. VInv => NoLostWake
    BY DEF VInv
  <1>. QED
    BY <1>1, AlwaysVInv, PTL

\* A wait given up unobserved has overlooked nothing but what newer deliveries
\* crowded out of the probe (resumeStage, deliveryProbe).
THEOREM UnobservedIsUnmet == ASSUME WaitsAssumption PROVE WSpec => []NothingOverlooked
  <1>1. VInv => NothingOverlooked
    BY DEF VInv
  <1>. QED
    BY <1>1, AlwaysVInv, PTL

\* A wait is ended by a delivery first recorded after the agent asked, never by
\* the repetition of an older one (recordDelivery, deliveryProbe).
THEOREM NewsEndWaits == ASSUME WaitsAssumption PROVE WSpec => []ObservedIsNew
  <1>1. VInv => ObservedIsNew
    BY DEF VInv
  <1>. QED
    BY <1>1, AlwaysVInv, PTL

\* Whatever is repeated, late or lost, the verdict on a wait is just (resumeStage).
THEOREM WaitsEndJustly == ASSUME WaitsAssumption PROVE WSpec => []VerdictsAreJust
  BY UnobservedIsUnmet, NewsEndWaits, PTL DEF VerdictsAreJust

-----------------------------------------------------------------------------
(* The board of the ledger *)

\* What the board sees of a status.
LEMMA BoardSees ==
    /\ Phase("pending") = "idle" /\ Phase("blocked") = "idle" /\ Phase("running") = "held"
    /\ Phase("completed") = "completed" /\ Phase("failed") = "failed"
  BY DEF Phase

LEMMA BoardRests ==
    ASSUME Phase(stage'.status) = Phase(stage.status), stage'.slices = stage.slices
    PROVE  [Board!Next]_(Board!vars)
  BY DEF Board!vars

\* The slice that has the stage hands it in, or loses it.
LEMMA BoardHandsIn ==
    ASSUME NEW to \in {"completed", "failed", "idle"}, stage.status = "running",
           Phase(stage'.status) = to, stage'.slices = stage.slices
    PROVE  Board!Next
  <1>1. Phase(stage.status) = "held"
    BY BoardSees
  <1>2. Board!HandIn("stage", to)
    BY <1>1 DEF Board!HandIn, TheStage
  <1>. QED
    BY <1>2 DEF Board!Next, TheStage

LEMMA BoardClaims ==
    ASSUME WaitsAssumption, VInv, Claim \/ Exhaust
    PROVE  Board!Next
  <1>1. /\ stage \in StageRow /\ stage.slices \in Nat /\ Phase(stage.status) = "idle"
        /\ MaxSlices \in Nat \ {0}
    <2>1. stage \in StageRow /\ MaxSlices \in Nat \ {0}
      BY Before DEF WaitsAssumption
    <2>2. stage.status \in {"pending", "blocked"}
      BY DEF Claim, Exhaust, Claimable
    <2>. QED
      BY <2>1, <2>2, BoardSees DEF StageRow
  <1>2. CASE Claim
    <2>1. stage'.status = "running" /\ stage'.slices = stage.slices + 1
      BY <1>1, <1>2 DEF Claim, StageRow
    <2>2. Phase(stage'.status) = "held"
      BY <2>1, BoardSees
    <2>3. Board!Take("stage")
      BY <1>1, <2>1, <2>2 DEF Board!Take, TheStage
    <2>. QED
      BY <2>3 DEF Board!Next, TheStage
  <1>3. CASE Exhaust
    <2>1. stage'.status = "failed" /\ stage'.slices = stage.slices /\ stage.slices > 0
      BY <1>1, <1>3 DEF Exhaust, StageRow
    <2>2. Phase(stage'.status) = "failed"
      BY <2>1, BoardSees
    <2>3. Board!GiveUp("stage", "failed")
      BY <1>1, <2>1, <2>2 DEF Board!GiveUp, TheStage
    <2>. QED
      BY <2>3 DEF Board!Next, TheStage
  <1>. QED
    BY <1>2, <1>3

LEMMA BoardSlice ==
    ASSUME WaitsAssumption, VInv, Park \/ Yield \/ Complete \/ Die
    PROVE  [Board!Next]_(Board!vars)
  <1>1. stage \in StageRow
    BY Before
  <1>2. CASE Park \/ Yield \/ (Die /\ worker # "save")
    <2>1. stage.status = "running"
      BY <1>2, Before DEF Park, Yield, Die, SliceFits
    <2>2. stage'.status = "blocked" /\ stage'.slices = stage.slices
      BY <1>1, <1>2 DEF Park, Yield, Die, StageRow
    <2>3. Phase(stage'.status) = "idle"
      BY <2>2, BoardSees
    <2>. QED
      BY <2>1, <2>2, <2>3, BoardHandsIn
  <1>3. CASE Complete
    <2>1. stage.status = "running"
      BY <1>3, Before DEF Complete, SliceFits
    <2>2. stage'.status = "completed" /\ stage'.slices = stage.slices
      BY <1>1, <1>3 DEF Complete, StageRow
    <2>3. Phase(stage'.status) = "completed"
      BY <2>2, BoardSees
    <2>. QED
      BY <2>1, <2>2, <2>3, BoardHandsIn
  <1>4. CASE Die /\ worker = "save"
    BY <1>4, BoardRests DEF Die
  <1>. QED
    BY <1>2, <1>3, <1>4

\* Releases, polls and deadlines make a stage due, which the board does not see.
LEMMA BoardQuiet ==
    ASSUME WaitsAssumption, VInv,
           \/ Resume \/ ResumeBlind \/ Save \/ Pass \/ Settled \/ UNCHANGED wvars
           \/ \E kind \in Kinds : Ask(kind)
           \/ \E d \in Deliveries : Deliver(d) \/ Release(d) \/ ReleaseFails(d)
    PROVE  [Board!Next]_(Board!vars)
  <1>1. stage \in StageRow
    BY Before
  <1>2. \/ stage' = stage
        \/ \E due \in BOOLEAN : stage' = [stage EXCEPT !.due = due]
    <2>1. ASSUME NEW d \in Deliveries, Deliver(d) \/ Release(d) \/ ReleaseFails(d)
          PROVE  stage' = stage \/ stage' = [stage EXCEPT !.due = TRUE]
      BY <2>1 DEF Deliver, Release, ReleaseFails
    <2>2. CASE Pass
      <3>1. stage' = [stage EXCEPT !.due = stage.due \/ ComesDue]
        BY <2>2 DEF Pass
      <3>2. (stage.due \/ ComesDue) \in BOOLEAN
        BY <1>1 DEF StageRow, ComesDue
      <3>. QED
        BY <3>1, <3>2
    <2>3. CASE Resume \/ ResumeBlind \/ Save \/ Settled \/ UNCHANGED wvars
               \/ \E kind \in Kinds : Ask(kind)
      BY <2>3 DEF Resume, ResumeBlind, Save, Settled, Ask, wvars
    <2>. QED
      BY <2>1, <2>2, <2>3
  <1>3. stage'.status = stage.status /\ stage'.slices = stage.slices
    BY <1>1, <1>2 DEF StageRow
  <1>. QED
    BY <1>3, BoardRests

\* A stage that waits keeps the board of the ledger whatever comes from outside:
\* it is taken when idle, handed in by its holder, and no release, poll or
\* deadline reopens it (releaseWaits, claim_next_stage, finish_attempt).
THEOREM WaitsKeepTheBoard == ASSUME WaitsAssumption PROVE WSpec => WaitsKeepBoard
  <1>1. WInit => Board!Init
    BY BoardSees DEF WInit, Board!Init
  <1>2. VInv /\ [WNext]_wvars => [Board!Next]_(Board!vars)
    <2>. SUFFICES ASSUME VInv, [WNext]_wvars PROVE [Board!Next]_(Board!vars)
      OBVIOUS
    <2>1. CASE Claim \/ Exhaust
      BY <2>1, BoardClaims
    <2>2. CASE Park \/ Yield \/ Complete \/ Die
      BY <2>2, BoardSlice
    <2>3. CASE \/ Resume \/ ResumeBlind \/ Save \/ Pass \/ Settled \/ UNCHANGED wvars
               \/ \E kind \in Kinds : Ask(kind)
               \/ \E d \in Deliveries : Deliver(d) \/ Release(d) \/ ReleaseFails(d)
      BY <2>3, BoardQuiet
    <2>. QED
      BY <2>1, <2>2, <2>3 DEF WNext, Slice
  <1>. QED
    BY <1>1, <1>2, AlwaysVInv, PTL DEF WSpec, WaitsKeepBoard, Board!Spec
===================================================================================
