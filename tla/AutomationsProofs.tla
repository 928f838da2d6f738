---------------------------- MODULE AutomationsProofs -----------------------------
(***************************************************************************)
(* Automations do not set each other off, and a slot has one run that is   *)
(* planned once, schedules and last runs are kept right, for any number of *)
(* automations, starters, runs of people and faults.                       *)
(***************************************************************************)
EXTENDS Automations, FiniteSetTheorems, SequenceTheorems, TLAPS

ListItem == [auto : Autos, slot : Int]

Points == {"idle", "prepare", "mark", "plan", "queue", "budget", "record"}

StarterState == [at : Points, todo : Seq(ListItem), source : Nat, run : Nat]

\* The points between a run's creation and its planning.
Unplanned == {"mark", "plan"}

\* What the state s of a starter has to do with the runs rs, the schedules nx, the
\* automations' modes md and the time t: a list names windows that are still due,
\* or already moved on or cleared; the run at hand is of the slot at hand, and
\* marked before it is planned.
Sound(s, rs, nx, md, t) ==
    /\ s \in StarterState
    /\ s # Idle => s.todo # <<>>
    /\ s.source # 0 => /\ s.source \in 1 .. Len(rs)
                       /\ rs[s.source].auto = Nobody \/ md[rs[s.source].auto] = "gone"
    /\ \A i \in 1 .. Len(s.todo) :
          /\ md[s.todo[i].auto] # "new"
          /\ s.todo[i].auto \in Scheduled /\ ~(s.todo[i].slot < 0) =>
                nx[s.todo[i].auto] \in {0, s.todo[i].slot, t + 1}
    /\ s.run \in 0 .. Len(rs)
    /\ s.at \notin {"idle", "prepare"} => /\ s.run # 0
                                          /\ rs[s.run].auto = Head(s.todo).auto
                                          /\ rs[s.run].slot = Head(s.todo).slot
    /\ s.at \in {"plan", "queue"} => rs[s.run].marked
    /\ s.at \in Unplanned => rs[s.run].plans = 0

\* Nobody else plans the run a starter has created.
OwnRuns ==
    \A p, q \in Starters :
        p # q /\ starter[p].at \in Unplanned /\ starter[q].at \in Unplanned => Run(p) # Run(q)

\* A run that was closed had been queued.
SettledAreClosed ==
    \A r \in settled : /\ runs[r].status \in {"completed", "failed"}
                       /\ runs[r].auto # Nobody => runs[r].marked

\* A schedule has no window before its automation is created, and a switched one
\* has none, or already the next.
SchedulesAreSet ==
    /\ \A a \in Scheduled : mode[a] = "new" => next[a] = 0
    /\ \A a \in turning : mode[a] # "new" /\ next[a] \in {0, now + 1}

SourcesAreRuns == \A r \in 1 .. Len(runs) : runs[r].source \in 0 .. Len(runs)

UInv ==
    /\ UTypeOK /\ SourcesAreRuns /\ NoLoops /\ PlannedOnce /\ RunsAreRestricted
    /\ starter \in [Starters -> StarterState]
    /\ \A p \in Starters : Sound(starter[p], runs, next, mode, now)
    /\ OwnRuns /\ SettledAreClosed /\ SchedulesAreSet

-----------------------------------------------------------------------------
(* Lists of due automations *)

LEMMA NonEmptyList ==
    ASSUME NEW S, IsFiniteSet(S), S # {}, NEW s \in SetToSeqs(S)
    PROVE  s \in Seq(S) /\ Len(s) \in Nat /\ Len(s) # 0
  <1>1. Cardinality(S) \in Nat /\ Cardinality(S) # 0
    BY FS_CardinalityType, FS_EmptySet
  <1>2. s \in [1 .. Cardinality(S) -> S]
    BY DEF SetToSeqs
  <1>3. s \in Seq(S)
    BY <1>1, <1>2, SeqDef
  <1>4. Len(s) = Cardinality(S)
    <2>1. DOMAIN s = 1 .. Len(s) /\ Len(s) \in Nat
      BY <1>3, LenProperties
    <2>2. DOMAIN s = 1 .. Cardinality(S)
      BY <1>2
    <2>. QED
      BY <1>1, <2>1, <2>2
  <1>. QED
    BY <1>1, <1>3, <1>4

LEMMA ItemsAreFinite ==
    ASSUME NEW D, IsFiniteSet(D), NEW slots
    PROVE  IsFiniteSet({[auto |-> a, slot |-> slots[a]] : a \in D})
  <1>. DEFINE S == {[auto |-> a, slot |-> slots[a]] : a \in D}
              f == [a \in D |-> [auto |-> a, slot |-> slots[a]]]
  <1>1. f \in Surjection(D, S)
    BY DEF Surjection
  <1>. QED
    BY <1>1, FS_Surjection

LEMMA DueItems ==
    ASSUME AutomationsAssumption, UInv, NEW todo \in DueLists, NEW a0 \in Scheduled, Due(a0)
    PROVE  /\ todo \in Seq(ListItem) /\ todo # <<>>
           /\ \A i \in 1 .. Len(todo) : /\ todo[i].auto \in Scheduled
                                        /\ todo[i].slot = next[todo[i].auto]
                                        /\ mode[todo[i].auto] # "new"
  <1>. DEFINE D == {a \in Scheduled : Due(a)}
              S == {[auto |-> a, slot |-> next[a]] : a \in D}
  <1>1. IsFiniteSet(S) /\ S # {}
    <2>1. IsFiniteSet(D)
      BY FS_Subset DEF AutomationsAssumption
    <2>2. IsFiniteSet(S)
      BY <2>1, ItemsAreFinite
    <2>3. S # {}
      OBVIOUS
    <2>. QED
      BY <2>2, <2>3
  <1>2. S \subseteq ListItem
    BY DEF UInv, UTypeOK, ListItem, Autos
  <1>3. PICK s \in SetToSeqs(S) :
            todo = SubSeq(s, 1, IF Len(s) < Limit THEN Len(s) ELSE Limit)
    BY DEF DueLists
  <1>. DEFINE n == IF Len(s) < Limit THEN Len(s) ELSE Limit
  <1>4. s \in Seq(S) /\ Len(s) \in Nat \ {0}
    BY <1>1, NonEmptyList
  <1>5. n \in Nat /\ n # 0 /\ n <= Len(s)
    BY <1>4 DEF AutomationsAssumption
  <1>6. \A i \in 1 .. n : s[i] \in S
    BY <1>4, <1>5, ElementOfSeq
  <1>7. /\ todo \in Seq(S) /\ Len(todo) = n
        /\ \A i \in 1 .. n : todo[i] = s[i]
    <2>1. /\ SubSeq(s, 1, n) \in Seq(S) /\ Len(SubSeq(s, 1, n)) = IF 1 <= n THEN n - 1 + 1 ELSE 0
          /\ \A i \in 1 .. n - 1 + 1 : SubSeq(s, 1, n)[i] = s[1 + i - 1]
      <3>. HIDE DEF n
      <3>. QED
        BY <1>5, <1>6, SubSeqProperties
    <2>. QED
      BY <1>3, <1>5, <2>1
  <1>8. todo \in Seq(ListItem) /\ todo # <<>>
    BY <1>2, <1>5, <1>7, SeqMonotonic, EmptySeq
  <1>9. ASSUME NEW i \in 1 .. Len(todo)
        PROVE  /\ todo[i].auto \in Scheduled /\ todo[i].slot = next[todo[i].auto]
               /\ mode[todo[i].auto] # "new"
    <2>1. todo[i] \in S
      BY <1>6, <1>7
    <2>2. PICK a \in Scheduled : Due(a) /\ todo[i] = [auto |-> a, slot |-> next[a]]
      BY <2>1
    <2>. QED
      BY <2>2 DEF Due
  <1>. QED
    BY <1>8, <1>9

LEMMA EventItems ==
    ASSUME AutomationsAssumption, NEW kind \in {Evented, Hooked}, NEW r \in Int,
           Listening(kind) # {},
           NEW todo \in SetToSeqs({[auto |-> a, slot |-> r] : a \in Listening(kind)})
    PROVE  /\ todo \in Seq(ListItem) /\ todo # <<>>
           /\ \A i \in 1 .. Len(todo) : /\ todo[i].auto \notin Scheduled
                                        /\ mode[todo[i].auto] # "new"
  <1>. DEFINE S == {[auto |-> a, slot |-> r] : a \in Listening(kind)}
  <1>1. IsFiniteSet(S) /\ S # {}
    <2>. DEFINE D == Listening(kind)
                slots == [a \in D |-> r]
    <2>1. IsFiniteSet(D) /\ D # {}
      BY FS_Subset DEF AutomationsAssumption, Listening
    <2>2. S = {[auto |-> a, slot |-> slots[a]] : a \in D}
      OBVIOUS
    <2>3. S # {}
      <3>1. PICK a \in Listening(kind) : TRUE
        OBVIOUS
      <3>2. [auto |-> a, slot |-> r] \in S
        BY <3>1
      <3>. QED
        BY <3>2
    <2>. HIDE DEF D, slots, S
    <2>4. IsFiniteSet({[auto |-> a, slot |-> slots[a]] : a \in D})
      BY <2>1, ItemsAreFinite
    <2>. QED
      BY <2>2, <2>3, <2>4
  <1>2. S \subseteq ListItem
    BY DEF ListItem, Autos, Listening
  <1>3. todo \in Seq(S) /\ Len(todo) \in Nat \ {0}
    BY <1>1, NonEmptyList
  <1>4. todo \in Seq(ListItem) /\ todo # <<>>
    BY <1>2, <1>3, SeqMonotonic, EmptySeq
  <1>5. ASSUME NEW i \in 1 .. Len(todo)
        PROVE  todo[i].auto \notin Scheduled /\ mode[todo[i].auto] # "new"
    <2>1. todo[i] \in S
      BY <1>3, ElementOfSeq
    <2>2. todo[i].auto \in Listening(kind)
      BY <2>1
    <2>. QED
      BY <2>2 DEF AutomationsAssumption, Listening
  <1>. QED
    BY <1>4, <1>5

-----------------------------------------------------------------------------
(* States of a starter *)

LEMMA IdleIsSound ==
    ASSUME NEW rs, NEW nx, NEW md, NEW t, Len(rs) \in Nat
    PROVE  Sound(Idle, rs, nx, md, t)
  <1>1. Idle \in StarterState
    BY EmptySeq DEF Idle, StarterState, Points
  <1>2. Len(Idle.todo) = 0 /\ Idle.source = 0 /\ Idle.run = 0 /\ Idle.at = "idle"
    BY EmptySeq DEF Idle
  <1>. QED
    BY <1>1, <1>2 DEF Sound, Unplanned

\* Nothing that was deleted or created comes back or becomes new.
Onward(md, nd) ==
    \A a \in Autos : /\ md[a] = "gone" => nd[a] = "gone"
                     /\ md[a] # "new" => nd[a] # "new"

\* What a starter's state says stays true while rows are added or marked, and
\* schedules are cleared or move on to the next window.
LEMMA SoundStays ==
    ASSUME NEW s, NEW rs \in Seq(RunRows), NEW qs \in Seq(RunRows), NEW nx, NEW mx,
           NEW md, NEW nd, NEW t,
           Sound(s, rs, nx, md, t), Len(rs) <= Len(qs), Onward(md, nd),
           \A r \in 1 .. Len(rs) : /\ qs[r].auto = rs[r].auto /\ qs[r].slot = rs[r].slot
                                   /\ rs[r].marked => qs[r].marked,
           s.at \in Unplanned => qs[s.run].plans = rs[s.run].plans,
           \A a \in Scheduled : mx[a] \in {nx[a], 0, t + 1}
    PROVE  Sound(s, qs, mx, nd, t)
  <1>1. Len(rs) \in Nat /\ Len(qs) \in Nat
    BY LenProperties
  <1>2. /\ s \in StarterState /\ s.run \in 0 .. Len(rs)
        /\ \A i \in 1 .. Len(s.todo) : s.todo[i] \in ListItem
    <2>1. s \in StarterState /\ s.run \in 0 .. Len(rs)
      BY DEF Sound
    <2>2. s.todo \in Seq(ListItem)
      BY <2>1 DEF StarterState
    <2>. QED
      BY <2>1, <2>2, ElementOfSeq
  <1>3. s.source # 0 => /\ s.source \in 1 .. Len(qs)
                        /\ qs[s.source].auto = Nobody \/ nd[qs[s.source].auto] = "gone"
    <2>. SUFFICES ASSUME s.source # 0
                  PROVE  /\ s.source \in 1 .. Len(qs)
                         /\ qs[s.source].auto = Nobody \/ nd[qs[s.source].auto] = "gone"
      OBVIOUS
    <2>1. s.source \in 1 .. Len(rs) /\ (rs[s.source].auto = Nobody \/ md[rs[s.source].auto] = "gone")
      BY DEF Sound
    <2>2. rs[s.source] \in RunRows
      BY <2>1, ElementOfSeq
    <2>3. rs[s.source].auto \in Autos \cup {Nobody} /\ qs[s.source].auto = rs[s.source].auto
      BY <2>1, <2>2 DEF RunRows
    <2>. QED
      BY <1>1, <2>1, <2>3 DEF Onward
  <1>4. ASSUME NEW i \in 1 .. Len(s.todo)
        PROVE  /\ nd[s.todo[i].auto] # "new"
               /\ s.todo[i].auto \in Scheduled /\ ~(s.todo[i].slot < 0) =>
                     mx[s.todo[i].auto] \in {0, s.todo[i].slot, t + 1}
    <2>1. s.todo[i].auto \in Autos
      BY <1>2 DEF ListItem
    <2>. QED
      BY <2>1 DEF Sound, Onward
  <1>5. s.run # 0 => s.run \in 1 .. Len(rs)
    BY <1>1, <1>2
  <1>6. s.at \notin {"idle", "prepare"} => /\ s.run # 0
                                           /\ qs[s.run].auto = Head(s.todo).auto
                                           /\ qs[s.run].slot = Head(s.todo).slot
    BY <1>5 DEF Sound
  <1>7. s.at \in {"plan", "queue"} => qs[s.run].marked
    BY <1>5 DEF Sound
  <1>8. s.at \in Unplanned => qs[s.run].plans = 0
    BY DEF Sound
  <1>9. s # Idle => s.todo # <<>>
    BY DEF Sound
  <1>10. s.run \in 0 .. Len(qs)
    BY <1>1, <1>2
  <1>. QED
    BY <1>2, <1>3, <1>4, <1>6, <1>7, <1>8, <1>9, <1>10 DEF Sound

-----------------------------------------------------------------------------
LEMMA InitUInv == AutomationsAssumption /\ UInit => UInv
  <1>. SUFFICES ASSUME AutomationsAssumption, UInit PROVE UInv
    OBVIOUS
  <1>1. People \in Nat /\ MaxWindows \in Nat /\ MaxHands \in Nat
    BY DEF AutomationsAssumption
  <1>2. runs \in Seq(RunRows) /\ Len(runs) = People
    <2>1. RunRow(Nobody, 0, 0, "queued") \in RunRows
      BY DEF RunRow, RunRows
    <2>2. runs \in [1 .. People -> RunRows]
      BY <2>1 DEF UInit
    <2>3. runs \in Seq(RunRows)
      BY <1>1, <2>2, SeqDef
    <2>4. DOMAIN runs = 1 .. Len(runs) /\ Len(runs) \in Nat
      BY <2>3, LenProperties
    <2>. QED
      BY <1>1, <2>2, <2>3, <2>4
  <1>3. \A r \in 1 .. Len(runs) : /\ runs[r].auto = Nobody /\ runs[r].source = 0
                                  /\ runs[r].plans = 0 /\ ~runs[r].marked
    BY <1>2 DEF UInit, RunRow
  <1>4. settled = {} /\ \A p \in Starters : starter[p] = Idle
    BY DEF UInit
  <1>5. UTypeOK
    <2>1. /\ now \in 0 .. MaxWindows /\ next \in [Scheduled -> 0 .. MaxWindows + 1]
          /\ mode \in [Autos -> {"new", "on", "off", "gone"}]
          /\ turning \subseteq Scheduled /\ hands \in 0 .. MaxHands
          /\ last \in [Autos -> [run : 0 .. Len(runs),
                                 status : {"none", "running", "completed", "failed"}]]
      BY <1>1, <1>2 DEF UInit
    <2>2. \A p \in Starters : starter[p].at = "idle" /\ Run(p) = 0
      BY <1>4 DEF Idle, Run
    <2>. QED
      BY <1>1, <1>2, <1>3, <1>4, <2>1, <2>2 DEF UTypeOK
  <1>6. SourcesAreRuns /\ NoLoops /\ PlannedOnce /\ RunsAreRestricted /\ SettledAreClosed
    BY <1>1, <1>2, <1>3, <1>4 DEF SourcesAreRuns, NoLoops, PlannedOnce, RunsAreRestricted, SettledAreClosed
  <1>7. \A p \in Starters : Sound(starter[p], runs, next, mode, now)
    BY <1>1, <1>2, <1>4, IdleIsSound
  <1>8. starter \in [Starters -> StarterState]
    BY <1>4, <1>7 DEF UInit, Sound
  <1>9. OwnRuns
    BY <1>4 DEF OwnRuns, Idle, Unplanned
  <1>10. SchedulesAreSet
    BY DEF UInit, SchedulesAreSet, Autos
  <1>. QED
    BY <1>5, <1>6, <1>7, <1>8, <1>9, <1>10 DEF UInv

-----------------------------------------------------------------------------
(* What a step may do to the runs and to the starters *)

\* Rows that are there keep what names them and stay marked.
RowsStay ==
    /\ runs' \in Seq(RunRows)
    /\ Len(runs') = Len(runs)
    /\ \A r \in 1 .. Len(runs) :
          /\ runs'[r].auto = runs[r].auto /\ runs'[r].slot = runs[r].slot
          /\ runs'[r].source = runs[r].source
          /\ runs[r].marked => runs'[r].marked

\* A run is queued or completed only if it is marked, and planned at most once.
RowsAreFine ==
    \A r \in 1 .. Len(runs) :
        /\ runs'[r].plans <= 1
        /\ runs'[r].auto # Nobody /\ runs'[r].status \in {"queued", "completed"}
           => runs'[r].marked

\* Schedules move on to the next window; a starter clears none.
MovesOn ==
    /\ next' \in [Scheduled -> 0 .. MaxWindows + 1]
    /\ \A a \in Scheduled : next'[a] = next[a] \/ (mode[a] # "new" /\ next'[a] = now + 1)

UniqueSlots(rs) ==
    \A r, q \in 1 .. Len(rs) :
        r # q /\ rs[r].auto # Nobody => <<rs[r].auto, rs[r].slot>> # <<rs[q].auto, rs[q].slot>>

LEMMA Typed ==
    ASSUME UInv
    PROVE  /\ now \in 0 .. MaxWindows /\ next \in [Scheduled -> 0 .. MaxWindows + 1]
           /\ mode \in [Autos -> {"new", "on", "off", "gone"}]
           /\ turning \subseteq Scheduled /\ hands \in 0 .. MaxHands
           /\ last \in [Autos -> [run : 0 .. Len(runs),
                                  status : {"none", "running", "completed", "failed"}]]
           /\ runs \in Seq(RunRows) /\ settled \subseteq 1 .. Len(runs) /\ Len(runs) \in Nat
           /\ UniqueSlots(runs)
           /\ \A r \in 1 .. Len(runs) : runs[r] \in RunRows
           /\ starter \in [Starters -> StarterState]
           /\ \A p \in Starters : Sound(starter[p], runs, next, mode, now)
  <1>1. runs \in Seq(RunRows)
    BY DEF UInv, UTypeOK
  <1>2. Len(runs) \in Nat /\ \A r \in 1 .. Len(runs) : runs[r] \in RunRows
    BY <1>1, LenProperties, ElementOfSeq
  <1>. QED
    BY <1>1, <1>2 DEF UInv, UTypeOK, UniqueSlots

\* The runs stay in order.
LEMMA RowsKeep ==
    ASSUME UInv, RowsStay, RowsAreFine, Onward(mode, mode')
    PROVE  UniqueSlots(runs') /\ SourcesAreRuns' /\ NoLoops' /\ PlannedOnce' /\ RunsAreRestricted'
  <1>1. Len(runs) \in Nat /\ \A r \in 1 .. Len(runs) : runs[r] \in RunRows
    BY Typed
  <1>2. UniqueSlots(runs')
    BY Typed DEF RowsStay, UniqueSlots
  <1>3. NoLoops'
    <2>. SUFFICES ASSUME NEW r \in 1 .. Len(runs), runs'[r].source # 0
                  PROVE  \/ runs'[runs'[r].source].auto = Nobody
                         \/ mode'[runs'[runs'[r].source].auto] = "gone"
      BY DEF NoLoops, Ownerless, RowsStay
    <2>. DEFINE q == runs[r].source
    <2>1. /\ runs'[r].source = q
          /\ runs[q].auto = Nobody \/ mode[runs[q].auto] = "gone"
      BY DEF RowsStay, UInv, NoLoops, Ownerless
    <2>2. q \in 1 .. Len(runs)
      BY <1>1, <2>1 DEF UInv, SourcesAreRuns
    <2>3. runs[q].auto \in Autos \cup {Nobody} /\ runs'[q].auto = runs[q].auto
      BY <1>1, <2>2 DEF RowsStay, RunRows
    <2>. HIDE DEF q
    <2>. QED
      BY <2>1, <2>3 DEF Onward
  <1>4. PlannedOnce' /\ RunsAreRestricted'
    BY DEF RowsStay, RowsAreFine, PlannedOnce, RunsAreRestricted
  <1>5. SourcesAreRuns'
    BY DEF RowsStay, UInv, SourcesAreRuns
  <1>. QED
    BY <1>2, <1>3, <1>4, <1>5

\* The lists, where starters stand and what they know, after a step of p.
LEMMA StartersKeep ==
    ASSUME UInv, runs' \in Seq(RunRows), Len(runs) <= Len(runs'), now' = now,
           \A r \in 1 .. Len(runs) : /\ runs'[r].auto = runs[r].auto
                                     /\ runs'[r].slot = runs[r].slot
                                     /\ runs[r].marked => runs'[r].marked,
           Onward(mode, mode'), \A a \in Scheduled : next'[a] \in {next[a], 0, now + 1},
           NEW p \in Starters, NEW s, Go(p, s), Sound(s, runs', next', mode', now),
           \A q \in Starters \ {p} : starter[q].at \in Unplanned =>
               /\ runs'[Run(q)].plans = runs[Run(q)].plans
               /\ s.at \in Unplanned => s.run # Run(q)
    PROVE  /\ starter' \in [Starters -> StarterState]
           /\ \A q \in Starters : Sound(starter'[q], runs', next', mode', now')
           /\ OwnRuns'
           /\ \A q \in Starters : starter'[q] \in StarterState
                                  /\ starter'[q].run \in 0 .. Len(runs')
  <1>1. /\ starter \in [Starters -> StarterState] /\ runs \in Seq(RunRows)
        /\ \A q \in Starters : Sound(starter[q], runs, next, mode, now)
    BY Typed
  <1>2. starter' = [starter EXCEPT ![p] = s] /\ s \in StarterState
    BY DEF Go, Sound
  <1>3. /\ starter' \in [Starters -> StarterState] /\ starter'[p] = s
        /\ \A q \in Starters \ {p} : starter'[q] = starter[q]
    BY <1>1, <1>2
  <1>4. ASSUME NEW q \in Starters
        PROVE  Sound(starter'[q], runs', next', mode', now')
    <2>1. CASE q = p
      BY <1>3, <2>1
    <2>2. CASE q # p
      <3>. DEFINE sq == starter[q]
      <3>1. Sound(sq, runs, next, mode, now) /\ starter'[q] = sq
        BY <1>1, <1>3, <2>2
      <3>2. sq.at \in Unplanned => runs'[sq.run].plans = runs[sq.run].plans
        BY <2>2 DEF Run
      <3>. HIDE DEF sq
      <3>3. Sound(sq, runs', next', mode', now)
        BY <1>1, <3>1, <3>2, SoundStays
      <3>. QED
        BY <3>1, <3>3
    <2>. QED
      BY <2>1, <2>2
  <1>5. OwnRuns'
    <2>. SUFFICES ASSUME NEW q \in Starters, NEW o \in Starters, q # o,
                         starter'[q].at \in Unplanned, starter'[o].at \in Unplanned
                  PROVE  starter'[q].run # starter'[o].run
      BY DEF OwnRuns, Run
    <2>1. CASE q # p /\ o # p
      BY <1>3, <2>1 DEF UInv, OwnRuns, Run
    <2>2. CASE q = p \/ o = p
      BY <1>3, <2>2 DEF Run
    <2>. QED
      BY <2>1, <2>2
  <1>. QED
    BY <1>3, <1>4, <1>5 DEF Sound

LEMMA Together ==
    ASSUME now' \in 0 .. MaxWindows, next' \in [Scheduled -> 0 .. MaxWindows + 1],
           mode' \in [Autos -> {"new", "on", "off", "gone"}], turning' \subseteq Scheduled,
           hands' \in 0 .. MaxHands, SchedulesAreSet',
           last' \in [Autos -> [run : 0 .. Len(runs'),
                                status : {"none", "running", "completed", "failed"}]],
           runs' \in Seq(RunRows), settled' \subseteq 1 .. Len(runs'), UniqueSlots(runs'),
           SourcesAreRuns', NoLoops', PlannedOnce', RunsAreRestricted', SettledAreClosed', OwnRuns',
           starter' \in [Starters -> StarterState],
           \A q \in Starters : Sound(starter'[q], runs', next', mode', now')
    PROVE  UInv'
  <1>1. \A q \in Starters : /\ starter'[q].at \in {"idle"} \cup DOMAIN After \cup {"record"}
                            /\ starter'[q].run \in 0 .. Len(runs')
    <2>. SUFFICES ASSUME NEW q \in Starters
                  PROVE  /\ starter'[q].at \in {"idle"} \cup DOMAIN After \cup {"record"}
                         /\ starter'[q].run \in 0 .. Len(runs')
      OBVIOUS
    <2>1. starter'[q].at \in Points
      BY DEF StarterState
    <2>2. starter'[q].run \in 0 .. Len(runs')
      BY DEF Sound
    <2>3. DOMAIN After = {"prepare", "mark", "plan", "queue", "budget"}
      BY DEF After
    <2>. QED
      BY <2>1, <2>2, <2>3 DEF Points
  <1>2. UTypeOK'
    BY <1>1 DEF UTypeOK, UniqueSlots, Run
  <1>. QED
    BY <1>2 DEF UInv

LEMMA SameModes ==
    ASSUME UNCHANGED people
    PROVE  mode' = mode /\ turning' = turning /\ hands' = hands /\ Onward(mode, mode')
  BY DEF people, Onward

LEMMA SameSchedules ==
    ASSUME UInv, UNCHANGED people, now' = now, MovesOn
    PROVE  SchedulesAreSet'
  BY SameModes, Typed DEF SchedulesAreSet, UInv, MovesOn

LEMMA NextStays ==
    ASSUME UInv, UNCHANGED next
    PROVE  MovesOn
  BY Typed DEF MovesOn

\* A step of the runs themselves, or of the worker that closed one.
LEMMA RunStep ==
    ASSUME UInv, RowsStay, RowsAreFine, UNCHANGED <<now, people, next, starter>>,
           \A r \in 1 .. Len(runs) : runs'[r].plans = runs[r].plans,
           settled' \subseteq 1 .. Len(runs), SettledAreClosed',
           last' \in [Autos -> [run : 0 .. Len(runs),
                                status : {"none", "running", "completed", "failed"}]]
    PROVE  UInv'
  <1>1. UniqueSlots(runs') /\ SourcesAreRuns' /\ NoLoops' /\ PlannedOnce' /\ RunsAreRestricted'
    BY RowsKeep, SameModes
  <1>2. ASSUME NEW q \in Starters
        PROVE  Sound(starter[q], runs', next', mode', now')
    <2>. DEFINE s == starter[q]
    <2>1. Sound(s, runs, next, mode, now) /\ runs \in Seq(RunRows) /\ runs' \in Seq(RunRows)
      BY Typed DEF RowsStay
    <2>2. Len(runs) \in Nat /\ s.run \in 0 .. Len(runs)
      BY Typed, <2>1 DEF Sound
    <2>3. s.at \in Unplanned => s.run # 0
      BY <2>1 DEF Sound, Unplanned
    <2>4. s.at \in Unplanned => runs'[s.run].plans = runs[s.run].plans
      BY <2>2, <2>3
    <2>. HIDE DEF s
    <2>5. Sound(s, runs', next, mode, now)
      <3>1. \A a \in Scheduled : next[a] \in {next[a], 0, now + 1}
        OBVIOUS
      <3>2. Len(runs) <= Len(runs')
        BY <2>2 DEF RowsStay
      <3>3. Onward(mode, mode)
        BY DEF Onward
      <3>. QED
        BY <2>1, <2>4, <3>1, <3>2, <3>3, SoundStays DEF RowsStay
    <2>. QED
      BY <2>5, SameModes DEF s
  <1>3. OwnRuns'
    BY DEF UInv, OwnRuns, Run
  <1>4. Len(runs') = Len(runs) /\ runs' \in Seq(RunRows)
    BY DEF RowsStay
  <1>5. SchedulesAreSet'
    BY SameSchedules, NextStays
  <1>. QED
    BY <1>1, <1>2, <1>3, <1>4, <1>5, SameModes, Typed, Together

\* A step of a starter on rows that are there.
LEMMA StarterStep ==
    ASSUME UInv, RowsStay, RowsAreFine, UNCHANGED <<now, people, settled>>,
           MovesOn,
           last' \in [Autos -> [run : 0 .. Len(runs),
                                status : {"none", "running", "completed", "failed"}]],
           NEW p \in Starters, NEW s, Go(p, s), Sound(s, runs', next', mode', now),
           \A q \in Starters \ {p} : starter[q].at \in Unplanned =>
               /\ runs'[Run(q)].plans = runs[Run(q)].plans
               /\ s.at \in Unplanned => s.run # Run(q),
           \A r \in settled : runs'[r].status = runs[r].status
    PROVE  UInv'
  <1>1. UniqueSlots(runs') /\ SourcesAreRuns' /\ NoLoops' /\ PlannedOnce' /\ RunsAreRestricted'
    BY RowsKeep, SameModes
  <1>2. Len(runs) \in Nat /\ Len(runs') = Len(runs) /\ runs' \in Seq(RunRows)
    BY Typed DEF RowsStay
  <1>3. /\ starter' \in [Starters -> StarterState] /\ OwnRuns'
        /\ \A q \in Starters : Sound(starter'[q], runs', next', mode', now')
    <2>1. Len(runs) <= Len(runs')
      BY <1>2
    <2>2. \A a \in Scheduled : next'[a] \in {next[a], 0, now + 1}
      BY DEF MovesOn
    <2>. QED
      BY <1>2, <2>1, <2>2, SameModes, StartersKeep DEF RowsStay
  <1>4. SettledAreClosed'
    BY Typed DEF SettledAreClosed, UInv, RowsStay
  <1>5. SchedulesAreSet' /\ next' \in [Scheduled -> 0 .. MaxWindows + 1]
    BY SameSchedules DEF MovesOn
  <1>. QED
    BY <1>1, <1>2, <1>3, <1>4, <1>5, SameModes, Typed, Together

LEMMA SameRows ==
    ASSUME UInv, UNCHANGED runs
    PROVE  RowsStay /\ RowsAreFine
  BY Typed DEF RowsStay, RowsAreFine, UInv, PlannedOnce, RunsAreRestricted

-----------------------------------------------------------------------------
(* What starts automations, and what becomes of their runs *)

LEMMA WindowStep ==
    ASSUME AutomationsAssumption, UInv, Window
    PROVE  UInv'
  <1>1. /\ now' = now + 1 /\ now < MaxWindows
        /\ UNCHANGED <<people, next, last, runs, settled, starter>>
        /\ turning = {} /\ \A p \in Starters : starter[p] = Idle
    BY DEF Window
  <1>2. now' \in 0 .. MaxWindows
    BY <1>1, Typed DEF AutomationsAssumption
  <1>3. \A p \in Starters : Sound(starter'[p], runs', next', mode', now')
    BY <1>1, Typed, IdleIsSound
  <1>4. UniqueSlots(runs') /\ SourcesAreRuns' /\ NoLoops' /\ PlannedOnce' /\ RunsAreRestricted'
    BY <1>1, SameRows, SameModes, RowsKeep
  <1>5. SettledAreClosed' /\ OwnRuns'
    BY <1>1 DEF UInv, SettledAreClosed, OwnRuns, Run
  <1>6. SchedulesAreSet'
    BY <1>1, SameModes DEF SchedulesAreSet, UInv
  <1>. QED
    BY <1>1, <1>2, <1>3, <1>4, <1>5, <1>6, SameModes, Typed, Together

\* A starter begins with a list.
LEMMA BeginStep ==
    ASSUME AutomationsAssumption, UInv, UNCHANGED <<now, mode, turning, next, last, runs>>,
           hands' \in 0 .. MaxHands,
           settled' \subseteq settled, NEW p \in Starters, NEW s \in StarterState, Go(p, s),
           s.at = "prepare", s.run = 0, s.todo # <<>>,
           s.source # 0 => s.source \in 1 .. Len(runs) /\ Ownerless(runs[s.source].auto),
           \A i \in 1 .. Len(s.todo) :
              /\ mode[s.todo[i].auto] # "new"
              /\ s.todo[i].auto \in Scheduled /\ ~(s.todo[i].slot < 0) =>
                    s.todo[i].slot = next[s.todo[i].auto]
    PROVE  UInv'
  <1>0. Len(runs) \in Nat
    BY Typed
  <1>1. s # Idle
    BY DEF Idle
  <1>2. Sound(s, runs, next, mode, now) /\ s.at \notin Unplanned
    BY <1>0, <1>1 DEF Sound, Unplanned, Ownerless
  <1>3. /\ starter' \in [Starters -> StarterState] /\ OwnRuns'
        /\ \A q \in Starters : Sound(starter'[q], runs', next', mode', now')
    <2>1. /\ runs' \in Seq(RunRows) /\ Len(runs) <= Len(runs')
          /\ \A a \in Scheduled : next'[a] \in {next[a], 0, now + 1}
          /\ Sound(s, runs', next', mode', now)
      BY <1>0, <1>2, Typed
    <2>2. Onward(mode, mode')
      BY DEF Onward
    <2>. QED
      BY <1>2, <2>1, <2>2, StartersKeep
  <1>4. UniqueSlots(runs') /\ SourcesAreRuns' /\ NoLoops' /\ PlannedOnce' /\ RunsAreRestricted'
    <2>1. Onward(mode, mode')
      BY DEF Onward
    <2>. QED
      BY <2>1, SameRows, RowsKeep
  <1>5. SettledAreClosed' /\ settled' \subseteq 1 .. Len(runs')
    BY Typed DEF UInv, SettledAreClosed
  <1>6. SchedulesAreSet'
    BY DEF UInv, SchedulesAreSet
  <1>. QED
    BY <1>3, <1>4, <1>5, <1>6, Typed, Together

LEMMA TickStep ==
    ASSUME AutomationsAssumption, UInv, NEW p \in Starters, Tick(p)
    PROVE  UInv'
  <1>1. /\ UNCHANGED <<now, people, next, last, runs, settled>>
        /\ \E a \in Scheduled : Due(a)
    BY DEF Tick
  <1>2. PICK todo \in DueLists : Go(p, [Idle EXCEPT !.at = "prepare", !.todo = todo])
    BY DEF Tick
  <1>3. /\ todo \in Seq(ListItem) /\ todo # <<>>
        /\ \A i \in 1 .. Len(todo) : /\ todo[i].slot = next[todo[i].auto]
                                     /\ mode[todo[i].auto] # "new"
    BY <1>1, DueItems
  <1>. DEFINE s == [Idle EXCEPT !.at = "prepare", !.todo = todo]
  <1>4. s \in StarterState /\ s.at = "prepare" /\ s.run = 0 /\ s.todo = todo /\ s.source = 0
    <2>1. Idle \in StarterState /\ Idle.run = 0 /\ Idle.source = 0
      BY EmptySeq DEF Idle, StarterState, Points
    <2>. QED
      BY <1>3, <2>1 DEF StarterState, Points
  <1>. HIDE DEF s
  <1>5. Go(p, s)
    BY <1>2 DEF s
  <1>. QED
    BY <1>1, <1>3, <1>4, <1>5, SameModes, Typed, BeginStep

LEMMA TriggerStep ==
    ASSUME AutomationsAssumption, UInv, NEW p \in Starters, NEW r \in 1 .. Len(runs),
           Trigger(p, r)
    PROVE  UInv'
  <1>1. /\ UNCHANGED <<now, people, next, last, runs>> /\ settled' \subseteq settled
        /\ r \in settled /\ ~Owned(r)
    BY DEF Trigger
  <1>2. Ownerless(runs[r].auto) /\ r \in Nat /\ r \in Int
    BY <1>1, Typed DEF UInv, SettledAreClosed, Owned, Ownerless
  <1>3. CASE runs[r].status = "completed" /\ Listening(Evented) # {}
    <2>1. PICK todo \in SetToSeqs({[auto |-> a, slot |-> r] : a \in Listening(Evented)}) :
              Go(p, [Idle EXCEPT !.at = "prepare", !.todo = todo, !.source = r])
      BY <1>3 DEF Trigger
    <2>2. /\ todo \in Seq(ListItem) /\ todo # <<>>
          /\ \A i \in 1 .. Len(todo) : todo[i].auto \notin Scheduled /\ mode[todo[i].auto] # "new"
      BY <1>2, <1>3, EventItems
    <2>. DEFINE s == [Idle EXCEPT !.at = "prepare", !.todo = todo, !.source = r]
    <2>3. s \in StarterState /\ s.at = "prepare" /\ s.run = 0 /\ s.todo = todo /\ s.source = r
      <3>1. Idle \in StarterState /\ Idle.run = 0
        BY EmptySeq DEF Idle, StarterState, Points
      <3>. QED
        BY <1>2, <2>2, <3>1 DEF StarterState, Points
    <2>. HIDE DEF s
    <2>4. Go(p, s)
      BY <2>1 DEF s
    <2>. QED
      BY <1>1, <1>2, <2>2, <2>3, <2>4, SameModes, Typed, BeginStep
  <1>4. CASE ~(runs[r].status = "completed" /\ Listening(Evented) # {})
    <2>1. UNCHANGED starter
      BY <1>4 DEF Trigger
    <2>2. SettledAreClosed' /\ settled' \subseteq 1 .. Len(runs)
      BY <1>1, Typed DEF UInv, SettledAreClosed
    <2>. QED
      BY <1>1, <2>1, <2>2, SameRows, RunStep, Typed
  <1>. QED
    BY <1>3, <1>4

LEMMA SettleStep ==
    ASSUME UInv, NEW r \in 1 .. Len(runs), Settle(r)
    PROVE  UInv'
  <1>1. PICK status \in {"completed", "failed"} : runs' = [runs EXCEPT ![r].status = status]
    BY DEF Settle
  <1>2. /\ UNCHANGED <<now, people, next, last, starter>> /\ settled' = settled \cup {r}
        /\ runs[r].status = "queued"
    BY DEF Settle
  <1>3. runs[r].auto # Nobody => runs[r].marked
    BY <1>2 DEF UInv, RunsAreRestricted
  <1>4. /\ runs' \in Seq(RunRows) /\ Len(runs') = Len(runs)
        /\ \A q \in 1 .. Len(runs) : runs'[q] = IF q = r THEN [runs[r] EXCEPT !.status = status]
                                                ELSE runs[q]
    <2>. DEFINE row == [runs[r] EXCEPT !.status = status]
    <2>1. row \in RunRows /\ runs' = [runs EXCEPT ![r] = row]
      BY <1>1, Typed DEF RunRows
    <2>. HIDE DEF row
    <2>2. runs \in Seq(RunRows)
      BY Typed
    <2>3. /\ runs' \in Seq(RunRows) /\ Len(runs') = Len(runs)
          /\ \A q \in 1 .. Len(runs) : runs'[q] = IF q = r THEN row ELSE runs[q]
      BY <2>1, <2>2, ExceptSeq
    <2>. QED
      BY <2>3 DEF row
  <1>5. \A q \in 1 .. Len(runs) :
           /\ runs'[q].auto = runs[q].auto /\ runs'[q].slot = runs[q].slot
           /\ runs'[q].source = runs[q].source /\ runs'[q].marked = runs[q].marked
           /\ runs'[q].plans = runs[q].plans
           /\ runs'[q].status = IF q = r THEN status ELSE runs[q].status
    <2>1. runs[r] \in RunRows
      BY Typed
    <2>2. /\ runs'[r].auto = runs[r].auto /\ runs'[r].slot = runs[r].slot
          /\ runs'[r].source = runs[r].source /\ runs'[r].marked = runs[r].marked
          /\ runs'[r].plans = runs[r].plans /\ runs'[r].status = status
      BY <1>4, <2>1 DEF RunRows
    <2>. QED
      BY <1>4, <2>2
  <1>6. RowsStay
    BY <1>4, <1>5 DEF RowsStay
  <1>7. RowsAreFine
    BY <1>3, <1>5 DEF RowsAreFine, UInv, PlannedOnce, RunsAreRestricted
  <1>8. SettledAreClosed' /\ settled' \subseteq 1 .. Len(runs)
    BY SMTT(20), <1>2, <1>3, <1>5, Typed DEF UInv, SettledAreClosed
  <1>. QED
    BY <1>2, <1>5, <1>6, <1>7, <1>8, RunStep, Typed

LEMMA ReportStep ==
    ASSUME UInv, NEW r \in 1 .. Len(runs), ReportToAutomation(r) \/ ReportLost(r)
    PROVE  UInv'
  <1>1. UNCHANGED <<now, people, next, runs, starter>> /\ settled' \subseteq settled
    BY DEF ReportToAutomation, ReportLost
  <1>2. SettledAreClosed' /\ settled' \subseteq 1 .. Len(runs)
    BY <1>1, Typed DEF UInv, SettledAreClosed
  <1>3. last' \in [Autos -> [run : 0 .. Len(runs),
                             status : {"none", "running", "completed", "failed"}]]
    <2>1. CASE ReportToAutomation(r)
      <3>1. runs[r].status \in {"completed", "failed"}
        BY <2>1 DEF ReportToAutomation, UInv, SettledAreClosed
      <3>. QED
        BY <2>1, <3>1, Typed DEF ReportToAutomation
    <2>2. CASE ReportLost(r)
      BY <2>2, Typed DEF ReportLost
    <2>. QED
      BY <2>1, <2>2
  <1>. QED
    BY <1>1, <1>2, <1>3, SameRows, RunStep

\* The row of a run is replaced.
LEMMA RowReplaced ==
    ASSUME UInv, NEW r \in 1 .. Len(runs), NEW row \in RunRows, runs' = [runs EXCEPT ![r] = row],
           row.auto = runs[r].auto, row.slot = runs[r].slot, row.source = runs[r].source,
           runs[r].marked => row.marked, row.plans <= 1,
           row.auto # Nobody /\ row.status \in {"queued", "completed"} => row.marked
    PROVE  /\ RowsStay /\ RowsAreFine
           /\ \A q \in 1 .. Len(runs) : runs'[q] = IF q = r THEN row ELSE runs[q]
  <1>1. runs \in Seq(RunRows)
    BY Typed
  <1>2. /\ runs' \in Seq(RunRows) /\ Len(runs') = Len(runs)
        /\ \A q \in 1 .. Len(runs) : runs'[q] = IF q = r THEN row ELSE runs[q]
    BY <1>1, ExceptSeq
  <1>. QED
    BY <1>2 DEF RowsStay, RowsAreFine, UInv, PlannedOnce, RunsAreRestricted

LEMMA RecoverStep ==
    ASSUME UInv, NEW r \in 1 .. Len(runs), Recover(r)
    PROVE  UInv'
  <1>. DEFINE row == [runs[r] EXCEPT !.status = "failed"]
  <1>1. /\ UNCHANGED <<now, people, next, last, settled, starter>> /\ runs' = [runs EXCEPT ![r] = row]
        /\ runs[r].status \in {"created", "planning"}
    BY DEF Recover
  <1>2. runs[r] \in RunRows /\ runs[r].plans <= 1
    BY Typed DEF UInv, PlannedOnce
  <1>3. /\ row \in RunRows /\ row.auto = runs[r].auto /\ row.slot = runs[r].slot
        /\ row.source = runs[r].source /\ row.marked = runs[r].marked
        /\ row.plans = runs[r].plans /\ row.status = "failed"
    BY <1>2 DEF RunRows
  <1>. HIDE DEF row
  <1>4. /\ RowsStay /\ RowsAreFine
        /\ \A q \in 1 .. Len(runs) : runs'[q] = IF q = r THEN row ELSE runs[q]
    BY <1>1, <1>2, <1>3, RowReplaced
  <1>5. SettledAreClosed' /\ settled' \subseteq 1 .. Len(runs)
    BY <1>1, <1>3, <1>4, Typed DEF UInv, SettledAreClosed
  <1>. QED
    BY <1>1, <1>3, <1>4, <1>5, RunStep, Typed

-----------------------------------------------------------------------------
(* startAutomationRun *)

\* The list of a starter that is at work.
LEMMA ListIsThere ==
    ASSUME UInv, NEW p \in Starters, starter[p] # Idle
    PROVE  /\ starter[p] \in StarterState /\ starter[p].todo \in Seq(ListItem)
           /\ starter[p].todo # <<>> /\ Len(starter[p].todo) \in Nat \ {0}
           /\ Head(starter[p].todo) \in ListItem
           /\ Named(p) \in Autos /\ Slot(p) \in Int
           /\ Head(starter[p].todo) = starter[p].todo[1] /\ 1 \in 1 .. Len(starter[p].todo)
  <1>1. /\ starter[p] \in StarterState /\ starter[p].todo \in Seq(ListItem)
        /\ starter[p].todo # <<>>
    BY Typed DEF Sound, StarterState
  <1>2. Head(starter[p].todo) \in ListItem /\ Len(starter[p].todo) \in Nat \ {0}
    BY <1>1, HeadTailProperties, EmptySeq
  <1>3. Head(starter[p].todo) = starter[p].todo[1]
    BY <1>1
  <1>. QED
    BY <1>1, <1>2, <1>3 DEF ListItem, Named, Slot

\* The next of the list, or nothing.
LEMMA ContinueIsSound ==
    ASSUME UInv, NEW p \in Starters, starter[p] # Idle, Continue(p),
           NEW nx, \A a \in Scheduled : nx[a] \in {next[a], 0, now + 1}
    PROVE  \E s : Go(p, s) /\ Sound(s, runs, nx, mode, now) /\ s.at \notin Unplanned
  <1>. DEFINE rest == Tail(starter[p].todo)
              s == [starter[p] EXCEPT !.at = "prepare", !.todo = rest, !.run = 0]
  <1>1. /\ starter[p] \in StarterState /\ starter[p].todo \in Seq(ListItem)
        /\ starter[p].todo # <<>> /\ Sound(starter[p], runs, next, mode, now)
        /\ Len(runs) \in Nat
    BY ListIsThere, Typed
  <1>2. /\ rest \in Seq(ListItem) /\ Len(rest) = Len(starter[p].todo) - 1
        /\ \A i \in 1 .. Len(rest) : rest[i] = starter[p].todo[i + 1]
    BY <1>1, HeadTailProperties
  <1>3. CASE rest = <<>>
    <2>1. Go(p, Idle) /\ Idle.at = "idle"
      BY <1>3 DEF Continue, Idle
    <2>. QED
      BY <1>1, <2>1, IdleIsSound DEF Unplanned
  <1>4. CASE rest # <<>>
    <2>1. Go(p, s)
      BY <1>4 DEF Continue
    <2>2. /\ s \in StarterState /\ s.at = "prepare" /\ s.todo = rest /\ s.run = 0
          /\ s.source = starter[p].source
      BY <1>1, <1>2 DEF StarterState, Points
    <2>. HIDE DEF s
    <2>3. ASSUME NEW i \in 1 .. Len(rest)
          PROVE  /\ mode[rest[i].auto] # "new"
                 /\ rest[i].auto \in Scheduled /\ ~(rest[i].slot < 0) =>
                       nx[rest[i].auto] \in {0, rest[i].slot, now + 1}
      <3>1. i + 1 \in 1 .. Len(starter[p].todo) /\ rest[i] = starter[p].todo[i + 1]
        BY <1>1, <1>2, LenProperties
      <3>. HIDE DEF rest
      <3>2. /\ mode[rest[i].auto] # "new"
            /\ rest[i].auto \in Scheduled /\ ~(rest[i].slot < 0) =>
                  next[rest[i].auto] \in {0, rest[i].slot, now + 1}
        BY <1>1, <3>1 DEF Sound
      <3>. QED
        BY <3>2
    <2>4. Sound(s, runs, nx, mode, now)
      <3>. HIDE DEF rest
      <3>. QED
        BY <1>1, <1>4, <2>2, <2>3 DEF Sound, Unplanned
    <2>. QED
      BY <2>1, <2>2, <2>4 DEF Unplanned
  <1>. QED
    BY <1>3, <1>4

\* Starters that go on to the next of their list, without a change to the runs.
LEMMA ContinueStep ==
    ASSUME UInv, NEW p \in Starters, starter[p] # Idle, Continue(p),
           UNCHANGED <<now, people, runs, settled>>, MovesOn,
           last' \in [Autos -> [run : 0 .. Len(runs),
                                status : {"none", "running", "completed", "failed"}]]
    PROVE  UInv'
  <1>1. PICK s : Go(p, s) /\ Sound(s, runs, next', mode, now) /\ s.at \notin Unplanned
    <2>1. \A a \in Scheduled : next'[a] \in {next[a], 0, now + 1}
      BY DEF MovesOn
    <2>. QED
      BY <2>1, ContinueIsSound
  <1>2. RowsStay /\ RowsAreFine
    BY SameRows
  <1>3. Sound(s, runs', next', mode', now)
    BY <1>1, SameModes
  <1>. QED
    BY <1>1, <1>2, <1>3, StarterStep

LEMMA RefuseStep ==
    ASSUME UInv, NEW p \in Starters, Refuse(p) \/ MarkRefused(p) \/ StartFails(p)
    PROVE  UInv'
  <1>1. /\ UNCHANGED <<now, people, next, last, runs, settled>> /\ Continue(p)
    BY DEF Refuse, MarkRefused, StartFails
  <1>2. starter[p] # Idle
    BY DEF Refuse, MarkRefused, StartFails, Cannot, At, Idle
  <1>3. MovesOn
    BY <1>1, NextStays
  <1>. QED
    BY <1>1, <1>2, <1>3, ContinueStep, Typed

LEMMA DieStep ==
    ASSUME UInv, NEW p \in Starters, Die(p)
    PROVE  UInv'
  <1>1. UNCHANGED <<now, people, next, last, runs, settled>> /\ Go(p, Idle)
    BY DEF Die
  <1>2. Sound(Idle, runs', next', mode', now) /\ Idle.at \notin Unplanned
    BY <1>1, Typed, IdleIsSound DEF Idle, Unplanned
  <1>3. MovesOn
    BY <1>1, NextStays
  <1>. QED
    BY <1>1, <1>2, <1>3, SameRows, StarterStep, Typed

\* The row of the run at hand is replaced, and the starter goes on to the point at.
LEMMA RunMoves ==
    ASSUME UInv, NEW p \in Starters, UNCHANGED <<now, people, next, last, settled>>,
           NEW r \in 1 .. Len(runs), r = Run(p), NEW row \in RunRows,
           runs' = [runs EXCEPT ![r] = row],
           row.auto = runs[r].auto, row.slot = runs[r].slot, row.source = runs[r].source,
           runs[r].marked => row.marked, row.plans <= 1,
           row.auto # Nobody /\ row.status \in {"queued", "completed"} => row.marked,
           row.plans = runs[r].plans \/ starter[p].at \in Unplanned,
           r \in settled => row.status = runs[r].status,
           NEW at \in Points \ {"idle", "prepare"}, Go(p, [starter[p] EXCEPT !.at = at]),
           starter[p].at \notin {"idle", "prepare"},
           at \in Unplanned => starter[p].at \in Unplanned /\ row.plans = 0,
           at \in {"plan", "queue"} => row.marked
    PROVE  UInv'
  <1>. DEFINE s == [starter[p] EXCEPT !.at = at]
  <1>1. /\ RowsStay /\ RowsAreFine
        /\ \A q \in 1 .. Len(runs) : runs'[q] = IF q = r THEN row ELSE runs[q]
    BY RowReplaced
  <1>2. /\ starter[p] \in StarterState /\ Sound(starter[p], runs, next, mode, now)
        /\ runs \in Seq(RunRows) /\ runs' \in Seq(RunRows) /\ Len(runs') = Len(runs)
        /\ Len(runs) \in Nat
    BY <1>1, Typed DEF RowsStay
  <1>3. /\ s \in StarterState /\ s.at = at /\ s.todo = starter[p].todo
        /\ s.source = starter[p].source /\ s.run = r
    BY <1>2 DEF StarterState, Run
  <1>4. Go(p, s)
    OBVIOUS
  <1>. HIDE DEF s
  <1>5. Sound(s, runs', next', mode', now)
    <2>1. starter[p] # Idle
      BY DEF Idle
    <2>2. s.todo # <<>>
      BY <1>2, <1>3, <2>1 DEF Sound
    <2>3. s.source # 0 => /\ s.source \in 1 .. Len(runs')
                          /\ \/ runs'[s.source].auto = Nobody
                             \/ mode'[runs'[s.source].auto] = "gone"
      BY <1>1, <1>2, <1>3, SameModes DEF Sound
    <2>4. \A i \in 1 .. Len(s.todo) :
             /\ mode'[s.todo[i].auto] # "new"
             /\ s.todo[i].auto \in Scheduled /\ ~(s.todo[i].slot < 0) =>
                   next'[s.todo[i].auto] \in {0, s.todo[i].slot, now + 1}
      BY <1>2, <1>3, SameModes DEF Sound
    <2>5. runs'[s.run] = row /\ s.run # 0 /\ s.run \in 0 .. Len(runs')
      BY <1>1, <1>2, <1>3
    <2>6. runs[r].auto = Head(s.todo).auto /\ runs[r].slot = Head(s.todo).slot
      BY <1>2, <1>3 DEF Sound, Run
    <2>. QED
      BY <1>3, <2>2, <2>3, <2>4, <2>5, <2>6 DEF Sound, Unplanned
  <1>6. ASSUME NEW q \in Starters \ {p}, starter[q].at \in Unplanned
        PROVE  /\ runs'[Run(q)].plans = runs[Run(q)].plans
               /\ s.at \in Unplanned => s.run # Run(q)
    <2>1. Sound(starter[q], runs, next, mode, now)
      BY Typed
    <2>2. Run(q) \in 1 .. Len(runs)
      <3>1. starter[q].at \notin {"idle", "prepare"}
        BY <1>6 DEF Unplanned
      <3>2. starter[q].run \in 0 .. Len(runs) /\ starter[q].run # 0
        BY <2>1, <3>1 DEF Sound
      <3>3. Len(runs) \in Nat
        BY <1>2
      <3>. QED
        BY <3>2, <3>3 DEF Run
    <2>3. starter[p].at \in Unplanned => Run(p) # Run(q)
      BY <1>6 DEF UInv, OwnRuns
    <2>4. CASE starter[p].at \in Unplanned
      BY <1>1, <1>3, <2>2, <2>3, <2>4
    <2>5. CASE starter[p].at \notin Unplanned
      BY <1>1, <1>3, <2>2, <2>5
    <2>. QED
      BY <2>4, <2>5
  <1>7. \A q \in settled : runs'[q].status = runs[q].status
    BY <1>1, Typed
  <1>8. MovesOn
    BY NextStays
  <1>. QED
    BY <1>1, <1>4, <1>5, <1>6, <1>7, <1>8, StarterStep, Typed

\* The run at hand, between its creation and the last write of its start.
LEMMA AtHand ==
    ASSUME UInv, NEW p \in Starters, starter[p].at \notin {"idle", "prepare"}
    PROVE  /\ Run(p) \in 1 .. Len(runs) /\ runs[Run(p)] \in RunRows
           /\ runs[Run(p)].plans <= 1 /\ Sound(starter[p], runs, next, mode, now)
           /\ runs[Run(p)].auto = Named(p) /\ runs[Run(p)].slot = Slot(p)
           /\ runs[Run(p)].auto # Nobody /\ runs[Run(p)].status \in {"queued", "completed"}
              => runs[Run(p)].marked
           /\ Run(p) \in settled => runs[Run(p)].status \in {"completed", "failed"}
  <1>1. Sound(starter[p], runs, next, mode, now) /\ Len(runs) \in Nat
    BY Typed
  <1>2. Run(p) \in 1 .. Len(runs)
    BY <1>1 DEF Sound, Run
  <1>3. runs[Run(p)].auto = Named(p) /\ runs[Run(p)].slot = Slot(p)
    BY <1>1 DEF Sound, Run, Named, Slot
  <1>. QED
    BY <1>1, <1>2, <1>3, Typed DEF UInv, PlannedOnce, RunsAreRestricted, SettledAreClosed

LEMMA MarkStep ==
    ASSUME UInv, NEW p \in Starters, Mark(p)
    PROVE  UInv'
  <1>. DEFINE r == Run(p)
              row == [runs[r] EXCEPT !.marked = TRUE]
  <1>1. /\ starter[p].at = "mark" /\ UNCHANGED <<now, people, next, last, settled>>
        /\ runs' = [runs EXCEPT ![r] = row] /\ Go(p, [starter[p] EXCEPT !.at = "plan"])
    BY DEF Mark, At, Step, After
  <1>2. r \in 1 .. Len(runs) /\ runs[r] \in RunRows /\ runs[r].plans = 0
    BY <1>1, AtHand DEF Sound, Run, Unplanned
  <1>3. /\ row \in RunRows /\ row.auto = runs[r].auto /\ row.slot = runs[r].slot
        /\ row.source = runs[r].source /\ row.marked /\ row.plans = 0
        /\ row.status = runs[r].status
    BY <1>2 DEF RunRows
  <1>. HIDE DEF row
  <1>4. row.plans <= 1 /\ starter[p].at \in Unplanned /\ starter[p].at \notin {"idle", "prepare"}
    BY <1>1, <1>3 DEF Unplanned
  <1>. QED
    BY <1>1, <1>2, <1>3, <1>4, RunMoves DEF Unplanned, Points

LEMMA PlanStep ==
    ASSUME UInv, NEW p \in Starters, Plan(p)
    PROVE  UInv'
  <1>. DEFINE r == Run(p)
              row == [runs[r] EXCEPT !.status = "planning", !.plans = 1]
  <1>1. /\ starter[p].at = "plan" /\ UNCHANGED <<now, people, next, last, settled>>
        /\ runs' = [runs EXCEPT ![r].status = "planning", ![r].plans = @ + 1]
        /\ runs[r].status \in {"created", "planning"}
        /\ Go(p, [starter[p] EXCEPT !.at = "queue"])
    BY DEF Plan, At, Step, After
  <1>2. /\ r \in 1 .. Len(runs) /\ runs[r] \in RunRows /\ runs[r].plans = 0 /\ runs[r].marked
        /\ r \notin settled
    BY <1>1, AtHand DEF Sound, Run, Unplanned
  <1>3. runs' = [runs EXCEPT ![r] = row]
    <2>1. DOMAIN runs = 1 .. Len(runs)
      BY Typed, LenProperties
    <2>2. runs[r].plans + 1 = 1
      BY <1>2
    <2>. QED
      BY <1>1, <1>2, <2>1, <2>2
  <1>4. /\ row \in RunRows /\ row.auto = runs[r].auto /\ row.slot = runs[r].slot
        /\ row.source = runs[r].source /\ row.marked /\ row.plans = 1
        /\ row.status = "planning"
    BY <1>2 DEF RunRows
  <1>. HIDE DEF row
  <1>5. row.plans <= 1 /\ starter[p].at \in Unplanned /\ starter[p].at \notin {"idle", "prepare"}
    BY <1>1, <1>4 DEF Unplanned
  <1>. QED
    BY <1>1, <1>2, <1>3, <1>4, <1>5, RunMoves DEF Unplanned, Points

LEMMA QueueStep ==
    ASSUME UInv, NEW p \in Starters, Queue(p)
    PROVE  UInv'
  <1>. DEFINE r == Run(p)
              row == [runs[r] EXCEPT !.status = "queued"]
  <1>1. /\ starter[p].at = "queue" /\ UNCHANGED <<now, people, next, last, settled>>
        /\ runs' = [runs EXCEPT ![r] = row] /\ runs[r].status = "planning"
        /\ Go(p, [starter[p] EXCEPT !.at = "budget"])
    BY DEF Queue, At, Step, After
  <1>2. /\ r \in 1 .. Len(runs) /\ runs[r] \in RunRows /\ runs[r].plans <= 1 /\ runs[r].marked
        /\ r \notin settled
    BY <1>1, AtHand DEF Sound, Run
  <1>3. /\ row \in RunRows /\ row.auto = runs[r].auto /\ row.slot = runs[r].slot
        /\ row.source = runs[r].source /\ row.marked /\ row.plans = runs[r].plans
    BY <1>2 DEF RunRows
  <1>. HIDE DEF row
  <1>. QED
    BY <1>1, <1>2, <1>3, RunMoves DEF Unplanned, Points

LEMMA BudgetStep ==
    ASSUME UInv, NEW p \in Starters, Budget(p)
    PROVE  UInv'
  <1>. DEFINE r == Run(p)
  <1>1. /\ starter[p].at = "budget" /\ UNCHANGED <<now, people, next, last, runs, settled>>
        /\ Go(p, [starter[p] EXCEPT !.at = "record"])
    BY DEF Budget, At, Step, After
  <1>2. /\ r \in 1 .. Len(runs) /\ runs[r] \in RunRows /\ runs[r].plans <= 1
        /\ runs[r].auto # Nobody /\ runs[r].status \in {"queued", "completed"} => runs[r].marked
    BY <1>1, AtHand
  <1>3. runs' = [runs EXCEPT ![r] = runs[r]]
    <2>1. runs \in [1 .. Len(runs) -> RunRows]
      BY Typed, LenProperties
    <2>. QED
      BY <1>1, <2>1
  <1>. DEFINE row == runs[r]
  <1>4. row = runs[r] /\ row \in RunRows /\ runs' = [runs EXCEPT ![r] = row]
    BY <1>2, <1>3
  <1>. HIDE DEF row
  <1>. QED
    BY <1>1, <1>2, <1>4, RunMoves DEF Unplanned, Points

LEMMA RecordStep ==
    ASSUME AutomationsAssumption, UInv, NEW p \in Starters, Record(p)
    PROVE  UInv'
  <1>1. /\ starter[p].at = "record" /\ UNCHANGED <<now, people, runs, settled>>
        /\ Continue(p)
    BY DEF Record, At
  <1>2. starter[p] # Idle
    BY <1>1 DEF Idle
  <1>3. /\ Named(p) \in Autos /\ Run(p) \in 1 .. Len(runs)
        /\ mode[Named(p)] # "new"
    <2>1. Sound(starter[p], runs, next, mode, now)
      BY Typed
    <2>2. starter[p].todo # <<>> /\ Named(p) \in Autos
          /\ Head(starter[p].todo) = starter[p].todo[1] /\ 1 \in 1 .. Len(starter[p].todo)
      BY <1>2, ListIsThere
    <2>3. mode[starter[p].todo[1].auto] # "new"
      BY <2>1, <2>2 DEF Sound
    <2>4. Run(p) \in 1 .. Len(runs)
      BY <1>1, AtHand
    <2>. QED
      BY <2>2, <2>3, <2>4 DEF Named
  <1>4. /\ last' \in [Autos -> [run : 0 .. Len(runs),
                                status : {"none", "running", "completed", "failed"}]]
        /\ MovesOn
    <2>1. CASE mode[Named(p)] = "gone"
      BY <2>1, NextStays, Typed DEF Record
    <2>2. CASE mode[Named(p)] # "gone"
      <3>1. /\ last' = [last EXCEPT ![Named(p)] = [run |-> Run(p), status |-> "running"]]
            /\ MoveOn(Named(p))
        BY <2>2 DEF Record
      <3>2. /\ last' \in [Autos -> [run : 0 .. Len(runs),
                                    status : {"none", "running", "completed", "failed"}]]
        BY <1>3, <3>1, Typed
      <3>3. MovesOn
        BY SMTT(20), <1>3, <3>1, Typed DEF MoveOn, MovesOn, AutomationsAssumption
      <3>. QED
        BY <3>2, <3>3
    <2>. QED
      BY <2>1, <2>2
  <1>. QED
    BY <1>1, <1>2, <1>4, ContinueStep

\* The run of this request id is there already.
LEMMA FoundStep ==
    ASSUME UInv, NEW p \in Starters, starter[p].at = "prepare",
           UNCHANGED <<now, people, next, last, runs, settled>>,
           NEW r \in Existing(Named(p), Slot(p)),
           Go(p, [starter[p] EXCEPT !.at = "record", !.run = r])
    PROVE  UInv'
  <1>. DEFINE s == [starter[p] EXCEPT !.at = "record", !.run = r]
  <1>1. /\ starter[p] \in StarterState /\ Sound(starter[p], runs, next, mode, now)
        /\ Len(runs) \in Nat /\ starter[p] # Idle
    BY Typed DEF Idle
  <1>2. /\ r \in 1 .. Len(runs) /\ runs[r].auto = Head(starter[p].todo).auto
        /\ runs[r].slot = Head(starter[p].todo).slot
    BY DEF Existing, Named, Slot
  <1>3. /\ s \in StarterState /\ s.at = "record" /\ s.run = r
        /\ s.todo = starter[p].todo /\ s.source = starter[p].source
    <2>. DEFINE state == starter[p]
    <2>1. r \in Nat /\ "record" \in Points /\ state \in StarterState
      BY <1>1, <1>2 DEF Points
    <2>2. s = [state EXCEPT !.at = "record", !.run = r]
      OBVIOUS
    <2>. HIDE DEF s, state
    <2>3. /\ s \in StarterState /\ s.at = "record" /\ s.run = r
          /\ s.todo = state.todo /\ s.source = state.source
      BY <2>1, <2>2 DEF StarterState
    <2>. QED
      BY <2>3 DEF state
  <1>4. Go(p, s)
    OBVIOUS
  <1>. HIDE DEF s
  <1>5. Sound(s, runs', next', mode', now) /\ s.at \notin Unplanned
    <2>. DEFINE todo == starter[p].todo  source == starter[p].source
    <2>1. runs' = runs /\ next' = next /\ mode' = mode
      BY SameModes
    <2>2. /\ todo # <<>>
          /\ source # 0 => /\ source \in 1 .. Len(runs)
                           /\ runs[source].auto = Nobody \/ mode[runs[source].auto] = "gone"
          /\ \A i \in 1 .. Len(todo) :
                /\ mode[todo[i].auto] # "new"
                /\ todo[i].auto \in Scheduled /\ ~(todo[i].slot < 0) =>
                      next[todo[i].auto] \in {0, todo[i].slot, now + 1}
      BY <1>1 DEF Sound
    <2>3. r \in 0 .. Len(runs) /\ r # 0
      BY <1>1, <1>2
    <2>4. s.at \notin Unplanned /\ s.at \notin {"plan", "queue"}
      BY <1>3 DEF Unplanned
    <2>. QED
      BY <1>2, <1>3, <2>1, <2>2, <2>3, <2>4 DEF Sound
  <1>6. MovesOn
    BY NextStays
  <1>. QED
    BY <1>4, <1>5, <1>6, SameRows, StarterStep, Typed

\* A new run, which nobody else knows and no slot has yet.
LEMMA CreateStep ==
    ASSUME UInv, NEW p \in Starters, starter[p].at = "prepare", Existing(Named(p), Slot(p)) = {},
           UNCHANGED <<now, people, next, last, settled>>, Create(p)
    PROVE  UInv'
  <1>. DEFINE row == RunRow(Named(p), Slot(p), starter[p].source, "created")
              n == Len(runs)
              s == [starter[p] EXCEPT !.at = "mark", !.run = n + 1]
  <1>1. /\ starter[p] \in StarterState /\ Sound(starter[p], runs, next, mode, now)
        /\ runs \in Seq(RunRows) /\ n \in Nat /\ starter[p] # Idle
    BY Typed DEF Idle
  <1>2. Named(p) \in Autos /\ Slot(p) \in Int /\ starter[p].source \in Nat
    BY <1>1, ListIsThere DEF StarterState
  <1>3. /\ row \in RunRows /\ row.auto = Named(p) /\ row.slot = Slot(p)
        /\ row.source = starter[p].source /\ row.plans = 0 /\ row.status = "created"
    BY <1>2 DEF RunRow, RunRows
  <1>4. runs' = Append(runs, row)
    BY DEF Create
  <1>. HIDE DEF row
  <1>5. /\ runs' \in Seq(RunRows) /\ Len(runs') = n + 1 /\ runs'[n + 1] = row
        /\ \A r \in 1 .. n : runs'[r] = runs[r]
    BY <1>1, <1>3, <1>4, AppendProperties
  <1>6. Go(p, s)
    BY <1>5 DEF Create, After
  <1>7. /\ s \in StarterState /\ s.at = "mark" /\ s.run = n + 1
        /\ s.todo = starter[p].todo /\ s.source = starter[p].source
    <2>. DEFINE state == starter[p]
                r == n + 1
    <2>1. r \in Nat /\ "mark" \in Points /\ state \in StarterState
      BY <1>1 DEF Points
    <2>2. s = [state EXCEPT !.at = "mark", !.run = r]
      OBVIOUS
    <2>. HIDE DEF s, state, r
    <2>3. /\ s \in StarterState /\ s.at = "mark" /\ s.run = r
          /\ s.todo = state.todo /\ s.source = state.source
      BY <2>1, <2>2 DEF StarterState
    <2>. QED
      BY <2>3 DEF state, r
  <1>. HIDE DEF s, n
  <1>8. Sound(s, runs', next', mode', now)
    <2>1. s # Idle /\ s.todo # <<>>
      BY <1>1, <1>7 DEF Sound, Idle
    <2>2. s.source # 0 => /\ s.source \in 1 .. Len(runs')
                          /\ \/ runs'[s.source].auto = Nobody
                             \/ mode'[runs'[s.source].auto] = "gone"
      BY <1>1, <1>5, <1>7, SameModes DEF Sound, n
    <2>3. \A i \in 1 .. Len(s.todo) :
             /\ mode'[s.todo[i].auto] # "new"
             /\ s.todo[i].auto \in Scheduled /\ ~(s.todo[i].slot < 0) =>
                   next'[s.todo[i].auto] \in {0, s.todo[i].slot, now + 1}
      BY <1>1, <1>7, SameModes DEF Sound
    <2>4. /\ s.run \in 0 .. Len(runs') /\ s.run # 0 /\ runs'[s.run] = row
      BY <1>1, <1>5, <1>7
    <2>5. row.auto = Head(s.todo).auto /\ row.slot = Head(s.todo).slot
      BY <1>3, <1>7 DEF Named, Slot
    <2>. QED
      BY <1>3, <1>7, <2>1, <2>2, <2>3, <2>4, <2>5 DEF Sound, Unplanned
  <1>9. /\ starter' \in [Starters -> StarterState] /\ OwnRuns'
        /\ \A q \in Starters : Sound(starter'[q], runs', next', mode', now')
    <2>1. ASSUME NEW q \in Starters \ {p}, starter[q].at \in Unplanned
          PROVE  /\ runs'[Run(q)].plans = runs[Run(q)].plans
                 /\ s.at \in Unplanned => s.run # Run(q)
      <3>1. Sound(starter[q], runs, next, mode, now)
        BY Typed
      <3>2. Run(q) \in 1 .. n
        BY <1>1, <2>1, <3>1 DEF Sound, Run, Unplanned, n
      <3>. QED
        BY <1>1, <1>5, <1>7, <3>2
    <2>2. /\ \A a \in Scheduled : next'[a] \in {next[a], 0, now + 1}
          /\ Len(runs) <= Len(runs')
          /\ \A r \in 1 .. Len(runs) : /\ runs'[r].auto = runs[r].auto
                                       /\ runs'[r].slot = runs[r].slot
                                       /\ runs[r].marked => runs'[r].marked
      BY <1>1, <1>5 DEF n
    <2>. QED
      BY <1>5, <1>6, <1>8, <2>1, <2>2, SameModes, StartersKeep
  <1>10. UniqueSlots(runs')
    <2>1. \A r \in 1 .. n : <<runs[r].auto, runs[r].slot>> # <<row.auto, row.slot>>
      BY <1>3 DEF Existing, n
    <2>2. UniqueSlots(runs)
      BY Typed
    <2>. SUFFICES ASSUME NEW r \in 1 .. n + 1, NEW q \in 1 .. n + 1, r # q, runs'[r].auto # Nobody
                  PROVE  <<runs'[r].auto, runs'[r].slot>> # <<runs'[q].auto, runs'[q].slot>>
      BY <1>5 DEF UniqueSlots
    <2>3. CASE r \in 1 .. n /\ q \in 1 .. n
      BY <1>5, <2>2, <2>3 DEF UniqueSlots, n
    <2>4. CASE r = n + 1
      BY <1>1, <1>5, <2>1, <2>4
    <2>5. CASE q = n + 1
      BY <1>1, <1>5, <2>1, <2>5
    <2>. QED
      BY <1>1, <2>3, <2>4, <2>5
  <1>11. SourcesAreRuns' /\ NoLoops'
    <2>1. \A r \in 1 .. n : /\ runs[r].source \in 0 .. n
                            /\ runs[r].source # 0 => Ownerless(runs[runs[r].source].auto)
      BY DEF UInv, SourcesAreRuns, NoLoops, n
    <2>2. /\ row.source \in 0 .. n
          /\ row.source # 0 => Ownerless(runs[row.source].auto)
      BY <1>1, <1>3 DEF Sound, Ownerless, n
    <2>3. ASSUME NEW r \in 1 .. n + 1
          PROVE  /\ runs'[r].source \in 0 .. n
                 /\ runs'[r].source # 0 => Ownerless(runs[runs'[r].source].auto)
      <3>1. CASE r \in 1 .. n
        BY <1>5, <2>1, <3>1
      <3>2. CASE r = n + 1
        BY <1>5, <2>2, <3>2
      <3>. QED
        BY <1>1, <3>1, <3>2
    <2>4. ASSUME NEW r \in 1 .. n + 1, runs'[r].source # 0
          PROVE  \/ runs'[runs'[r].source].auto = Nobody
                 \/ mode'[runs'[runs'[r].source].auto] = "gone"
      <3>1. runs'[runs'[r].source] = runs[runs'[r].source]
        BY <1>1, <1>5, <2>3, <2>4
      <3>. QED
        BY <2>3, <2>4, <3>1, SameModes DEF Ownerless
    <2>. QED
      BY <1>1, <1>5, <2>3, <2>4 DEF SourcesAreRuns, NoLoops, Ownerless
  <1>12. PlannedOnce' /\ RunsAreRestricted'
    <2>1. \A r \in 1 .. n :
             /\ runs[r].plans <= 1
             /\ runs[r].auto # Nobody /\ runs[r].status \in {"queued", "completed"}
                => runs[r].marked
      BY DEF UInv, PlannedOnce, RunsAreRestricted, n
    <2>2. \A r \in 1 .. n + 1 :
             /\ runs'[r].plans <= 1
             /\ runs'[r].auto # Nobody /\ runs'[r].status \in {"queued", "completed"}
                => runs'[r].marked
      BY <1>1, <1>3, <1>5, <2>1
    <2>. QED
      BY <1>5, <2>2 DEF PlannedOnce, RunsAreRestricted
  <1>13. /\ SettledAreClosed' /\ settled' \subseteq 1 .. Len(runs')
         /\ last' \in [Autos -> [run : 0 .. Len(runs'),
                                 status : {"none", "running", "completed", "failed"}]]
    <2>1. settled \subseteq 1 .. n /\ SettledAreClosed
      BY Typed DEF UInv, n
    <2>2. \A r \in 0 .. n : r \in 0 .. Len(runs')
      BY <1>1, <1>5
    <2>3. last' \in [Autos -> [run : 0 .. Len(runs'),
                               status : {"none", "running", "completed", "failed"}]]
      BY <2>2, Typed DEF n
    <2>4. \A r \in settled' : r \in 1 .. n /\ r \in 1 .. Len(runs') /\ runs'[r] = runs[r]
      BY <1>1, <1>5, <2>1
    <2>5. SettledAreClosed'
      BY <2>1, <2>4 DEF SettledAreClosed
    <2>. QED
      BY <2>3, <2>4, <2>5
  <1>14. SchedulesAreSet'
    BY SameSchedules, NextStays
  <1>. QED
    BY <1>5, <1>9, <1>10, <1>11, <1>12, <1>13, <1>14, SameModes, Typed, Together

LEMMA PrepareStep ==
    ASSUME UInv, NEW p \in Starters, Prepare(p)
    PROVE  UInv'
  <1>1. /\ starter[p].at = "prepare" /\ UNCHANGED <<now, people, next, last, settled>>
    BY DEF Prepare, At
  <1>2. CASE Existing(Named(p), Slot(p)) = {} /\ Create(p)
    BY <1>1, <1>2, CreateStep
  <1>3. CASE ~(Existing(Named(p), Slot(p)) = {} /\ Create(p))
    <2>1. PICK r \in Existing(Named(p), Slot(p)) :
              UNCHANGED runs /\ Go(p, [starter[p] EXCEPT !.at = "record", !.run = r])
      BY <1>3 DEF Prepare
    <2>. QED
      BY <1>1, <2>1, FoundStep
  <1>. QED
    BY <1>2, <1>3

-----------------------------------------------------------------------------
(* What people do with automations *)

\* Schedules are cleared or set while starters work through their lists.
LEMMA PeopleStep ==
    ASSUME UInv, UNCHANGED <<now, last, runs, settled, starter>>, SchedulesAreSet',
           mode' \in [Autos -> {"new", "on", "off", "gone"}], Onward(mode, mode'),
           turning' \subseteq Scheduled, hands' \in 0 .. MaxHands,
           next' \in [Scheduled -> 0 .. MaxWindows + 1],
           \A a \in Scheduled : next'[a] \in {next[a], 0, now + 1}
    PROVE  UInv'
  <1>1. UniqueSlots(runs') /\ SourcesAreRuns' /\ NoLoops' /\ PlannedOnce' /\ RunsAreRestricted'
    BY SameRows, RowsKeep
  <1>2. ASSUME NEW q \in Starters
        PROVE  Sound(starter'[q], runs', next', mode', now')
    <2>. DEFINE s == starter[q]
    <2>1. Sound(s, runs, next, mode, now) /\ runs \in Seq(RunRows) /\ Len(runs) \in Nat
      BY Typed
    <2>. HIDE DEF s
    <2>2. Sound(s, runs, next', mode', now)
      BY SMTT(20), <2>1, SoundStays
    <2>. QED
      BY <2>2 DEF s
  <1>3. OwnRuns' /\ SettledAreClosed'
    BY DEF UInv, OwnRuns, SettledAreClosed, Run
  <1>. QED
    BY <1>1, <1>2, <1>3, Typed, Together

LEMMA HandIsBounded ==
    ASSUME AutomationsAssumption, UInv, Hand
    PROVE  hands' \in 0 .. MaxHands /\ hands' \in Nat \ {0}
  BY Typed DEF Hand, AutomationsAssumption

\* The next window is one of those that are kept.
LEMMA NextWindow ==
    ASSUME AutomationsAssumption, UInv
    PROVE  now \in Nat /\ now + 1 \in 0 .. MaxWindows + 1
  BY Typed DEF AutomationsAssumption

LEMMA SwitchStep ==
    ASSUME AutomationsAssumption, UInv, NEW a \in Autos,
           CreateAutomation(a) \/ SwitchOff(a) \/ SwitchOn(a) \/ DeleteAutomation(a)
    PROVE  UInv'
  <1>1. UNCHANGED <<now, last, runs, settled, starter>> /\ hands' \in 0 .. MaxHands
    BY HandIsBounded DEF CreateAutomation, SwitchOff, SwitchOn, DeleteAutomation
  <1>2. PICK m \in {"on", "off", "gone"} :
            /\ mode' = [mode EXCEPT ![a] = m]
            /\ mode[a] # "gone"
    BY DEF CreateAutomation, SwitchOff, SwitchOn, DeleteAutomation
  <1>3. /\ mode' \in [Autos -> {"new", "on", "off", "gone"}] /\ mode'[a] # "new"
        /\ \A b \in Autos : b # a => mode'[b] = mode[b]
        /\ Onward(mode, mode')
    BY <1>2, Typed DEF Onward
  <1>4. CASE CreateAutomation(a)
    <2>1. /\ mode[a] = "new" /\ turning' = turning
          /\ next' = IF a \in Scheduled THEN [next EXCEPT ![a] = now + 1] ELSE next
      BY <1>4 DEF CreateAutomation, MoveOn
    <2>2. /\ next' \in [Scheduled -> 0 .. MaxWindows + 1]
          /\ \A b \in Scheduled : next'[b] = IF b = a THEN now + 1 ELSE next[b]
      BY <2>1, NextWindow, Typed
    <2>3. SchedulesAreSet'
      <3>1. \A b \in turning : /\ b \in Scheduled /\ b \in Autos /\ mode[b] # "new"
                               /\ next[b] \in {0, now + 1} /\ b # a
        BY <2>1, Typed DEF SchedulesAreSet, UInv, Autos
      <3>2. \A b \in turning' : mode'[b] # "new" /\ next'[b] \in {0, now' + 1}
        BY <1>1, <1>3, <2>1, <2>2, <3>1
      <3>3. \A b \in Scheduled : mode'[b] = "new" => next'[b] = 0
        BY <1>3, <2>2 DEF SchedulesAreSet, UInv, Autos
      <3>. QED
        BY <3>2, <3>3 DEF SchedulesAreSet
    <2>. QED
      BY <1>1, <1>3, <2>1, <2>2, <2>3, Typed, PeopleStep
  <1>5. CASE SwitchOff(a) \/ DeleteAutomation(a)
    <2>1. turning' = turning /\ next' = next /\ mode[a] # "new"
      BY <1>5 DEF SwitchOff, DeleteAutomation
    <2>2. SchedulesAreSet'
      BY <1>1, <1>3, <2>1, Typed DEF SchedulesAreSet, UInv, Autos
    <2>. QED
      BY <1>1, <1>3, <2>1, <2>2, Typed, PeopleStep
  <1>6. CASE SwitchOn(a)
    <2>1. /\ turning' = turning \cup ({a} \cap Scheduled)
          /\ next' = [b \in Scheduled |-> IF b = a THEN 0 ELSE next[b]]
      BY <1>6 DEF SwitchOn
    <2>2. /\ next' \in [Scheduled -> 0 .. MaxWindows + 1] /\ turning' \subseteq Scheduled
          /\ \A b \in Scheduled : next'[b] = IF b = a THEN 0 ELSE next[b]
      BY <2>1, NextWindow, Typed
    <2>3. SchedulesAreSet'
      BY <1>1, <1>3, <2>1, <2>2, Typed DEF SchedulesAreSet, UInv, Autos
    <2>. QED
      BY <1>1, <1>3, <2>2, <2>3, PeopleStep
  <1>. QED
    BY <1>4, <1>5, <1>6

LEMMA SetNextStep ==
    ASSUME AutomationsAssumption, UInv, NEW a \in Autos, SetNext(a) \/ SetNextFails(a)
    PROVE  UInv'
  <1>1. /\ UNCHANGED <<now, mode, hands, last, runs, settled, starter>>
        /\ a \in turning /\ turning' = turning \ {a}
    BY DEF SetNext, SetNextFails
  <1>2. /\ Onward(mode, mode') /\ turning' \subseteq Scheduled /\ a \in Scheduled
        /\ mode[a] # "new"
    BY <1>1, Typed DEF Onward, UInv, SchedulesAreSet
  <1>3. /\ next' \in [Scheduled -> 0 .. MaxWindows + 1]
        /\ \A b \in Scheduled : next'[b] = next[b] \/ (b = a /\ next'[b] = now + 1)
    <2>1. next' = next \/ next' = [next EXCEPT ![a] = now + 1]
      BY <1>2 DEF SetNext, SetNextFails, MoveOn
    <2>2. CASE next' = next
      BY <2>2, Typed
    <2>3. CASE next' = [next EXCEPT ![a] = now + 1]
      BY <1>2, <2>3, NextWindow, Typed
    <2>. QED
      BY <2>1, <2>2, <2>3
  <1>4. SchedulesAreSet'
    BY <1>1, <1>2, <1>3 DEF SchedulesAreSet, UInv
  <1>. QED
    BY <1>1, <1>2, <1>3, <1>4, Typed, PeopleStep

LEMMA StartByHandStep ==
    ASSUME AutomationsAssumption, UInv, NEW a \in Autos, NEW p \in Starters, StartByHand(p, a)
    PROVE  UInv'
  <1>1. /\ UNCHANGED <<now, mode, turning, next, last, runs, settled>>
        /\ mode[a] # "new" /\ hands' \in 0 .. MaxHands /\ hands' \in Nat \ {0}
    BY HandIsBounded DEF StartByHand
  <1>. DEFINE item == [auto |-> a, slot |-> 0 - hands']
              todo == <<item>>
              s == [Idle EXCEPT !.at = "prepare", !.todo = todo]
  <1>2. Go(p, s)
    BY DEF StartByHand
  <1>3. /\ item \in ListItem /\ item.slot < 0 /\ item.auto = a
    <2>. DEFINE slot == 0 - hands'
    <2>1. slot \in Int /\ slot < 0
      <3>1. ASSUME NEW h \in Nat \ {0}
            PROVE  0 - h \in Int /\ 0 - h < 0
        OBVIOUS
      <3>2. hands' \in Nat \ {0}
        BY <1>1
      <3>. QED
        BY <3>1, <3>2
    <2>2. item = [auto |-> a, slot |-> slot]
      OBVIOUS
    <2>. HIDE DEF slot, item
    <2>. QED
      BY <2>1, <2>2 DEF ListItem
  <1>. HIDE DEF item
  <1>4. todo \in Seq(ListItem) /\ todo # <<>> /\ Len(todo) = 1 /\ todo[1] = item
    BY <1>3
  <1>. HIDE DEF todo
  <1>5. s \in StarterState /\ s.at = "prepare" /\ s.run = 0 /\ s.todo = todo /\ s.source = 0
    <2>1. Idle \in StarterState /\ Idle.run = 0 /\ Idle.source = 0
      BY EmptySeq DEF Idle, StarterState, Points
    <2>. QED
      BY <1>4, <2>1 DEF StarterState, Points
  <1>. HIDE DEF s
  <1>6. \A i \in 1 .. Len(s.todo) : s.todo[i] = item
    <2>1. \A i \in 1 .. Len(todo) : i = 1
      BY <1>4
    <2>. QED
      BY <1>4, <1>5, <2>1
  <1>. QED
    BY <1>1, <1>2, <1>3, <1>4, <1>5, <1>6, BeginStep

LEMMA DeliveryStep ==
    ASSUME AutomationsAssumption, UInv, NEW p \in Starters, Delivery(p)
    PROVE  UInv'
  <1>1. /\ UNCHANGED <<now, mode, turning, next, last, runs, settled>>
        /\ hands' \in 0 .. MaxHands /\ Listening(Hooked) # {}
    BY HandIsBounded DEF Delivery
  <1>2. PICK slot \in {0 - h : h \in 1 .. hands'} :
            \E todo \in SetToSeqs({[auto |-> a, slot |-> slot] : a \in Listening(Hooked)}) :
                Go(p, [Idle EXCEPT !.at = "prepare", !.todo = todo])
    BY DEF Delivery
  <1>6. PICK todo \in SetToSeqs({[auto |-> a, slot |-> slot] : a \in Listening(Hooked)}) :
            Go(p, [Idle EXCEPT !.at = "prepare", !.todo = todo])
    BY <1>2
  <1>3. /\ todo \in Seq(ListItem) /\ todo # <<>>
        /\ \A i \in 1 .. Len(todo) : todo[i].auto \notin Scheduled /\ mode[todo[i].auto] # "new"
    <2>1. slot \in Int
      BY <1>1
    <2>. QED
      BY <1>1, <2>1, EventItems
  <1>. DEFINE s == [Idle EXCEPT !.at = "prepare", !.todo = todo]
  <1>4. s \in StarterState /\ s.at = "prepare" /\ s.run = 0 /\ s.todo = todo /\ s.source = 0
    <2>1. Idle \in StarterState /\ Idle.run = 0 /\ Idle.source = 0
      BY EmptySeq DEF Idle, StarterState, Points
    <2>. QED
      BY <1>3, <2>1 DEF StarterState, Points
  <1>. HIDE DEF s
  <1>5. Go(p, s)
    BY <1>6 DEF s
  <1>. QED
    BY <1>1, <1>3, <1>4, <1>5, BeginStep

-----------------------------------------------------------------------------
LEMMA Step_UInv ==
    ASSUME AutomationsAssumption, UInv, [UNext]_uvars
    PROVE  UInv'
  <1>1. CASE UNCHANGED uvars
    <2>1. UNCHANGED <<now, people, next, last, runs, settled, starter>>
      BY <1>1 DEF uvars
    <2>2. SettledAreClosed' /\ settled' \subseteq 1 .. Len(runs)
      BY <2>1, Typed DEF UInv, SettledAreClosed
    <2>. QED
      BY <2>1, <2>2, SameRows, RunStep, Typed
  <1>2. CASE Window
    BY <1>2, WindowStep
  <1>3. Rest => UNCHANGED uvars
    BY DEF Rest
  <1>4. ASSUME NEW p \in Starters, Tick(p) \/ Delivery(p) \/ Start(p) \/ StartFails(p) \/ Die(p)
        PROVE  UInv'
    <2>1. CASE Tick(p)
      BY <2>1, TickStep
    <2>2. CASE Prepare(p)
      BY <2>2, PrepareStep
    <2>3. CASE Refuse(p) \/ MarkRefused(p) \/ StartFails(p)
      BY <2>3, RefuseStep
    <2>4. CASE Mark(p)
      BY <2>4, MarkStep
    <2>5. CASE Plan(p)
      BY <2>5, PlanStep
    <2>6. CASE Queue(p)
      BY <2>6, QueueStep
    <2>7. CASE Budget(p)
      BY <2>7, BudgetStep
    <2>8. CASE Record(p)
      BY <2>8, RecordStep
    <2>9. CASE Die(p)
      BY <2>9, DieStep
    <2>10. CASE Delivery(p)
      BY <2>10, DeliveryStep
    <2>. QED
      BY <1>4, <2>1, <2>2, <2>3, <2>4, <2>5, <2>6, <2>7, <2>8, <2>9, <2>10 DEF Start
  <1>5. ASSUME NEW r \in 1 .. Len(runs),
               \/ Settle(r) \/ ReportToAutomation(r) \/ ReportLost(r) \/ Recover(r)
               \/ \E p \in Starters : Trigger(p, r)
        PROVE  UInv'
    <2>1. CASE Settle(r)
      BY <2>1, SettleStep
    <2>2. CASE ReportToAutomation(r) \/ ReportLost(r)
      BY <2>2, ReportStep
    <2>3. CASE Recover(r)
      BY <2>3, RecoverStep
    <2>4. CASE \E p \in Starters : Trigger(p, r)
      BY <2>4, TriggerStep
    <2>. QED
      BY <1>5, <2>1, <2>2, <2>3, <2>4
  <1>6. ASSUME NEW a \in Autos, ByPeople(a)
        PROVE  UInv'
    <2>1. CASE CreateAutomation(a) \/ SwitchOff(a) \/ SwitchOn(a) \/ DeleteAutomation(a)
      BY <2>1, SwitchStep
    <2>2. CASE SetNext(a) \/ SetNextFails(a)
      BY <2>2, SetNextStep
    <2>3. CASE \E p \in Starters : StartByHand(p, a)
      BY <2>3, StartByHandStep
    <2>. QED
      BY <1>6, <2>1, <2>2, <2>3 DEF ByPeople
  <1>. QED
    BY <1>1, <1>2, <1>3, <1>4, <1>5, <1>6 DEF UNext

LEMMA AlwaysUInv == USpec => []UInv
  <1>1. UInit => UInv
    BY AutomationsAssumption, InitUInv
  <1>2. UInv /\ [UNext]_uvars => UInv'
    BY AutomationsAssumption, Step_UInv
  <1>. QED
    BY <1>1, <1>2, PTL DEF USpec

\* The rows of automations, runs and starters keep their types, and no two runs
\* have one request id, whatever starts at the same time (prepareRuntimeRun).
THEOREM AutomationsAreTyped == USpec => []UTypeOK
  <1>1. UInv => UTypeOK
    BY DEF UInv
  <1>. QED
    BY <1>1, AlwaysUInv, PTL

\* The run of an automation starts no automation while that automation is there: it
\* is marked before it can be planned, queued or closed (triggerAutomations,
\* onRunSettled).
THEOREM AutomationsDoNotLoop == USpec => []NoLoops
  <1>1. UInv => NoLoops
    BY DEF UInv
  <1>. QED
    BY <1>1, AlwaysUInv, PTL

\* The run of a slot is planned once, by the starter that created it.
THEOREM SlotsArePlannedOnce == USpec => []PlannedOnce
  <1>1. UInv => PlannedOnce
    BY DEF UInv
  <1>. QED
    BY <1>1, AlwaysUInv, PTL

\* A run of an automation that is queued or completed carries its automation's
\* mark, and so the policy that was written with it (startAutomationRun).
THEOREM AutomationRunsAreRestricted == USpec => []RunsAreRestricted
  <1>1. UInv => RunsAreRestricted
    BY DEF UInv
  <1>. QED
    BY <1>1, AlwaysUInv, PTL

-----------------------------------------------------------------------------
\* A window is passed by a starter that writes down its run.
LEMMA NextMoves ==
    ASSUME UInv, [UNext]_uvars, NEW a \in Scheduled, next[a] # 0, next'[a] \notin {0, next[a]}
    PROVE  \/ \E p \in Starters : Record(p) /\ Named(p) = a /\ mode[a] # "gone"
           \/ next[a] = now + 1 /\ next'[a] = now + 1
  <1>1. ASSUME next' = next
        PROVE  FALSE
    BY <1>1
  <1>2. \/ \E p \in Starters : Record(p)
        \/ \E b \in Autos : CreateAutomation(b) \/ SwitchOn(b) \/ SetNext(b)
    BY <1>1 DEF UNext, uvars, Window, Rest, Tick, Start, StartFails, Die, Prepare, Refuse, Mark,
               MarkRefused, Plan, Queue, Budget, Settle, ReportToAutomation, ReportLost, Recover,
               Trigger, Delivery, ByPeople, SwitchOff, SetNextFails, DeleteAutomation, StartByHand
  <1>3. CASE \E p \in Starters : Record(p)
    <2>1. PICK p \in Starters : Record(p)
      BY <1>3
    <2>2. mode[Named(p)] # "gone" /\ MoveOn(Named(p))
      BY <1>1, <2>1 DEF Record
    <2>3. Named(p) = a
      BY <2>2, Typed DEF MoveOn
    <2>. QED
      BY <2>1, <2>2, <2>3
  <1>4. ASSUME NEW b \in Autos, CreateAutomation(b)
        PROVE  FALSE
    <2>1. mode[b] = "new" /\ MoveOn(b)
      BY <1>4 DEF CreateAutomation
    <2>2. b = a
      BY <2>1, Typed DEF MoveOn
    <2>. QED
      BY <2>1, <2>2 DEF UInv, SchedulesAreSet
  <1>5. ASSUME NEW b \in Autos, SwitchOn(b)
        PROVE  FALSE
    BY <1>5 DEF SwitchOn
  <1>6. ASSUME NEW b \in Autos, SetNext(b)
        PROVE  next[a] = now + 1 /\ next'[a] = now + 1
    <2>1. b \in turning /\ MoveOn(b)
      BY <1>1, <1>6 DEF SetNext
    <2>2. b = a /\ next'[a] = now + 1
      BY <2>1, Typed DEF MoveOn
    <2>. QED
      BY <2>1, <2>2 DEF UInv, SchedulesAreSet
  <1>. QED
    BY <1>2, <1>3, <1>4, <1>5, <1>6

\* A schedule passes a window only when there is a run of it, or when somebody has
\* started the automation by hand, however many ticks work through overlapping
\* lists while people switch it off and on (startDueAutomations).
THEOREM WindowsHaveRuns == USpec => WindowHasRun
  <1>1. UInv /\ [UNext]_uvars =>
            [\A a \in Scheduled :
                next[a] # 0 /\ next'[a] \notin {0, next[a]} =>
                    \/ Existing(a, next[a]) # {}
                    \/ \E r \in 1 .. Len(runs) : last'[a].run = r /\ runs[r].slot < 0]_uvars
    <2>. SUFFICES ASSUME UInv, [UNext]_uvars, NEW a \in Scheduled, next[a] # 0,
                         next'[a] \notin {0, next[a]}
                  PROVE  \/ Existing(a, next[a]) # {}
                         \/ \E r \in 1 .. Len(runs) : last'[a].run = r /\ runs[r].slot < 0
      OBVIOUS
    <2>1. PICK p \in Starters : Record(p) /\ Named(p) = a /\ mode[a] # "gone"
      BY NextMoves
    <2>2. /\ starter[p].at = "record" /\ starter[p] # Idle /\ MoveOn(a)
          /\ last' = [last EXCEPT ![a] = [run |-> Run(p), status |-> "running"]]
      BY <2>1 DEF Record, At, Idle
    <2>3. /\ Run(p) \in 1 .. Len(runs) /\ runs[Run(p)].auto = a /\ runs[Run(p)].slot = Slot(p)
          /\ Sound(starter[p], runs, next, mode, now)
      BY <2>1, <2>2, AtHand
    <2>4. next'[a] = now + 1
      BY <2>2, Typed DEF MoveOn
    <2>5. ~(Slot(p) < 0) => next[a] \in {0, Slot(p), now + 1}
      <3>1. 1 \in 1 .. Len(starter[p].todo) /\ Head(starter[p].todo) = starter[p].todo[1]
        BY <2>2, ListIsThere
      <3>2. starter[p].todo[1].auto = a /\ starter[p].todo[1].slot = Slot(p)
        BY <2>1, <3>1 DEF Named, Slot
      <3>. QED
        BY <2>3, <3>1, <3>2 DEF Sound
    <2>6. CASE Slot(p) < 0
      <3>1. last'[a].run = Run(p)
        BY <2>2, Typed DEF Autos
      <3>. QED
        BY <2>3, <2>6, <3>1
    <2>7. CASE ~(Slot(p) < 0)
      <3>1. Run(p) \in Existing(a, next[a])
        BY <2>3, <2>4, <2>5, <2>7 DEF Existing
      <3>. QED
        BY <3>1
    <2>. QED
      BY <2>6, <2>7
  <1>. QED
    BY <1>1, AlwaysUInv, PTL DEF USpec, WindowHasRun

-----------------------------------------------------------------------------
(* What automations say of their last runs *)

Closed == {"completed", "failed"}

\* A run stays its automation's, and as it ended.
RunStands(r) ==
    /\ r \in 1 .. Len(runs') /\ runs'[r].auto = runs[r].auto
    /\ runs[r].status \in Closed => runs'[r].status = runs[r].status

\* One row changes, and no status of a closed run.
LEMMA RowStands ==
    ASSUME UInv, NEW q \in 1 .. Len(runs), NEW new,
           runs' = [runs EXCEPT ![q] = new], new.auto = runs[q].auto,
           runs[q].status \in Closed => new.status = runs[q].status
    PROVE  \A r \in 1 .. Len(runs) : RunStands(r)
  <1>1. /\ Len(runs') = Len(runs) /\ runs'[q] = new
        /\ \A r \in 1 .. Len(runs) \ {q} : runs'[r] = runs[r]
    <2>1. runs \in Seq(RunRows) /\ DOMAIN runs = 1 .. Len(runs) /\ Len(runs) \in Nat
      BY Typed, LenProperties
    <2>2. DOMAIN runs' = 1 .. Len(runs)
      BY <2>1
    <2>3. Len(runs') = Len(runs)
      BY <2>1, <2>2
    <2>. QED
      BY <2>1, <2>3
  <1>. SUFFICES ASSUME NEW r \in 1 .. Len(runs) PROVE RunStands(r)
    OBVIOUS
  <1>2. CASE r = q
    BY <1>1, <1>2 DEF RunStands
  <1>3. CASE r # q
    BY <1>1, <1>3 DEF RunStands
  <1>. QED
    BY <1>2, <1>3

\* The run at hand is marked, planned or queued, none of which reopens it.
LEMMA StarterStands ==
    ASSUME UInv, NEW p \in Starters, Mark(p) \/ Plan(p) \/ Queue(p)
    PROVE  \A r \in 1 .. Len(runs) : RunStands(r)
  <1>1. Run(p) \in 1 .. Len(runs) /\ runs[Run(p)] \in RunRows
    <2>1. Sound(starter[p], runs, next, mode, now) /\ Len(runs) \in Nat
      BY Typed
    <2>2. starter[p].at \in {"mark", "plan", "queue"}
      BY DEF Mark, Plan, Queue, At
    <2>3. Run(p) \in 0 .. Len(runs) /\ Run(p) # 0
      BY <2>1, <2>2 DEF Sound, Run
    <2>4. Run(p) \in 1 .. Len(runs)
      BY <2>1, <2>3
    <2>. QED
      BY <2>4, Typed
  <1>. DEFINE row == runs[Run(p)]
  <1>2. CASE Mark(p)
    <2>1. runs' = [runs EXCEPT ![Run(p)] = [row EXCEPT !.marked = TRUE]]
      BY <1>2 DEF Mark
    <2>2. [row EXCEPT !.marked = TRUE].auto = row.auto
          /\ [row EXCEPT !.marked = TRUE].status = row.status
      BY <1>1 DEF RunRows
    <2>. QED
      BY <1>1, <2>1, <2>2, RowStands
  <1>3. CASE Plan(p)
    <2>. DEFINE planned == [row EXCEPT !.status = "planning", !.plans = @ + 1]
    <2>1. runs' = [runs EXCEPT ![Run(p)] = planned] /\ row.status \notin Closed
      <3>1. row.status \in {"created", "planning"}
        BY <1>3 DEF Plan
      <3>2. runs' = [runs EXCEPT ![Run(p)] = planned]
        BY <1>1, <1>3, Typed DEF Plan, RunRows
      <3>. QED
        BY <3>1, <3>2 DEF Closed
    <2>2. planned.auto = row.auto
      BY <1>1 DEF RunRows
    <2>. HIDE DEF planned
    <2>. QED
      BY <1>1, <2>1, <2>2, RowStands
  <1>4. CASE Queue(p)
    <2>1. runs' = [runs EXCEPT ![Run(p)] = [row EXCEPT !.status = "queued"]]
          /\ row.status \notin Closed
      BY <1>4 DEF Queue, Closed
    <2>2. [row EXCEPT !.status = "queued"].auto = row.auto
      BY <1>1 DEF RunRows
    <2>. QED
      BY <1>1, <2>1, <2>2, RowStands
  <1>. QED
    BY <1>2, <1>3, <1>4

\* Whoever creates runs adds them at the end; whoever closes one finds it open.
LEMMA RunsStand ==
    ASSUME UInv, [UNext]_uvars
    PROVE  \A r \in 1 .. Len(runs) : RunStands(r)
  <1>1. CASE UNCHANGED runs
    BY <1>1 DEF RunStands
  <1>2. ASSUME NEW p \in Starters, Create(p)
        PROVE  \A r \in 1 .. Len(runs) : RunStands(r)
    <2>. DEFINE new == RunRow(Named(p), Slot(p), starter[p].source, "created")
    <2>1. runs' = Append(runs, new) /\ runs \in Seq(RunRows) /\ Len(runs) \in Nat
      BY <1>2, Typed DEF Create
    <2>. HIDE DEF new
    <2>2. Len(runs') = Len(runs) + 1 /\ \A r \in 1 .. Len(runs) : runs'[r] = runs[r]
      BY <2>1
    <2>. QED
      BY <2>1, <2>2 DEF RunStands
  <1>3. ASSUME NEW q \in 1 .. Len(runs), Settle(q) \/ Recover(q)
        PROVE  \A r \in 1 .. Len(runs) : RunStands(r)
    <2>1. PICK status : runs' = [runs EXCEPT ![q] = [runs[q] EXCEPT !.status = status]]
      BY <1>3 DEF Settle, Recover
    <2>2. runs[q].status \notin Closed
      BY <1>3 DEF Settle, Recover, Closed
    <2>3. [runs[q] EXCEPT !.status = status].auto = runs[q].auto
      BY Typed DEF RunRows
    <2>. QED
      BY <2>1, <2>2, <2>3, RowStands
  <1>4. \/ UNCHANGED runs
        \/ \E p \in Starters : Create(p) \/ Mark(p) \/ Plan(p) \/ Queue(p)
        \/ \E q \in 1 .. Len(runs) : Settle(q) \/ Recover(q)
    BY DEF UNext, uvars, Window, Rest, Tick, Start, StartFails, Die, Prepare, Refuse, MarkRefused,
           Budget, Record, ReportToAutomation, ReportLost, Trigger, Delivery, ByPeople,
           CreateAutomation, SwitchOff, SwitchOn, SetNext, SetNextFails, DeleteAutomation,
           StartByHand
  <1>. QED
    BY <1>1, <1>2, <1>3, <1>4, StarterStands

\* An automation's line changes when a start writes its run down or when that run
\* is reported, and then says what is so.
LEMMA LastMoves ==
    ASSUME UInv, LastIsTrue, [UNext]_uvars, NEW a \in Autos, last'[a] # last[a]
    PROVE  \E r \in 1 .. Len(runs) :
              /\ runs[r].auto = a /\ last'[a].run = r
              /\ \/ last'[a].status = "running"
                 \/ last'[a].status = runs[r].status /\ runs[r].status \in Closed
  <1>1. ASSUME last' = last
        PROVE  FALSE
    BY <1>1
  <1>2. \/ \E p \in Starters : Record(p)
        \/ \E r \in 1 .. Len(runs) : ReportToAutomation(r)
    BY <1>1 DEF UNext, uvars, Window, Rest, Tick, Start, StartFails, Die, Prepare, Refuse, Mark,
               MarkRefused, Plan, Queue, Budget, Settle, ReportLost, Recover, Trigger, Delivery,
               ByPeople, CreateAutomation, SwitchOff, SwitchOn, SetNext, SetNextFails,
               DeleteAutomation, StartByHand
  <1>3. ASSUME NEW p \in Starters, Record(p)
        PROVE  \E r \in 1 .. Len(runs) :
                  runs[r].auto = a /\ last'[a].run = r /\ last'[a].status = "running"
    <2>1. last' = [last EXCEPT ![Named(p)] = [run |-> Run(p), status |-> "running"]]
      BY <1>1, <1>3 DEF Record
    <2>2. a = Named(p) /\ last'[a].run = Run(p) /\ last'[a].status = "running"
      BY <2>1, Typed
    <2>3. Sound(starter[p], runs, next, mode, now) /\ Len(runs) \in Nat
      BY Typed
    <2>4. starter[p].at = "record"
      BY <1>3 DEF Record, At
    <2>5. Run(p) \in 1 .. Len(runs) /\ runs[Run(p)].auto = Named(p)
      BY <2>3, <2>4 DEF Sound, Run, Named
    <2>6. runs[Run(p)].auto = a
      BY <2>2, <2>5
    <2>. DEFINE r == Run(p)
    <2>7. /\ r \in 1 .. Len(runs) /\ runs[r].auto = a
          /\ last'[a].run = r /\ last'[a].status = "running"
      BY <2>2, <2>5, <2>6
    <2>. HIDE DEF r
    <2>. QED
      BY <2>7
  <1>4. ASSUME NEW r \in 1 .. Len(runs), ReportToAutomation(r)
        PROVE  /\ runs[r].auto = a /\ last'[a].run = r
               /\ last'[a].status = runs[r].status /\ runs[r].status \in Closed
    <2>1. last' = [b \in Autos |-> IF b = runs[r].auto /\ last[b].run = r
                                   THEN [last[b] EXCEPT !.status = runs[r].status] ELSE last[b]]
          /\ r \in settled
      BY <1>4 DEF ReportToAutomation
    <2>2. a = runs[r].auto /\ last[a].run = r
          /\ last'[a] = [last[a] EXCEPT !.status = runs[r].status]
      BY <2>1
    <2>3. last[a] \in [run : 0 .. Len(runs), status : {"none", "running", "completed", "failed"}]
      BY Typed
    <2>4. last'[a].run = r /\ last'[a].status = runs[r].status
      BY <2>2, <2>3
    <2>5. runs[r].status \in Closed
      BY <2>1 DEF UInv, SettledAreClosed, Closed
    <2>. QED
      BY <2>2, <2>4, <2>5
  <1>. QED
    BY <1>2, <1>3, <1>4

\* What an automation shows of its last run is true, for any number of automations,
\* starts, runs that end meanwhile and reports (startAutomationRun, onRunSettled).
THEOREM LastRunsAreTrue == USpec => []LastIsTrue
  <1>1. UInit => LastIsTrue
    BY DEF UInit, LastIsTrue
  <1>2. UInv /\ LastIsTrue /\ [UNext]_uvars => LastIsTrue'
    <2>. SUFFICES ASSUME UInv, LastIsTrue, [UNext]_uvars, NEW a \in Autos
                  PROVE  /\ last'[a].run # 0 => runs'[last'[a].run].auto = a
                         /\ last'[a].status \in Closed =>
                               last'[a].run # 0 /\ runs'[last'[a].run].status = last'[a].status
      BY DEF LastIsTrue, Closed
    <2>1. /\ \A r \in 1 .. Len(runs) : RunStands(r)
          /\ Len(runs) \in Nat /\ last[a].run \in 0 .. Len(runs)
      BY RunsStand, Typed
    <2>2. CASE last'[a] = last[a]
      <3>1. CASE last[a].run = 0
        BY <2>2, <3>1 DEF LastIsTrue, Closed
      <3>2. CASE last[a].run # 0
        <4>1. last[a].run \in 1 .. Len(runs)
          BY <2>1, <3>2
        <4>2. RunStands(last[a].run)
          BY <2>1, <4>1
        <4>. QED
          BY <2>2, <3>2, <4>1, <4>2 DEF RunStands, LastIsTrue, Closed
      <3>. QED
        BY <3>1, <3>2
    <2>3. CASE last'[a] # last[a]
      <3>1. PICK r \in 1 .. Len(runs) :
               /\ runs[r].auto = a /\ last'[a].run = r
               /\ \/ last'[a].status = "running"
                  \/ last'[a].status = runs[r].status /\ runs[r].status \in Closed
        BY <2>3, LastMoves
      <3>2. RunStands(r) /\ r # 0
        BY <2>1
      <3>. QED
        BY <3>1, <3>2 DEF RunStands, Closed
    <2>. QED
      BY <2>2, <2>3
  <1>. QED
    BY <1>1, <1>2, AlwaysUInv, PTL DEF USpec
===================================================================================
