--------------------------- MODULE SubscriptionsProofs ----------------------------
(***************************************************************************)
(* A subscription's row shows every event that was applied and mirrors the *)
(* subscription, for any number of events, endpoints, overlapping handlers *)
(* and failures.                                                           *)
(***************************************************************************)
EXTENDS Subscriptions, TLAPS

Busy == {"retrieve", "map", "upsert"}

\* Time does not go back at Stripe.
SecondsGrow == \A d, e \in Events : d <= e => Second(d) <= Second(e)

\* An event at work is one of Stripe's, open, and read no earlier than it was sent.
WorkIsOpen ==
    \A h \in Handlers : Working(h) =>
        /\ Event(h) \in Events
        /\ Event(h) \notin applied \cup unknown \cup abandoned
        /\ handler[h].endpoint \in Endpoints
        /\ handler[h].at # "retrieve" => handler[h].read \in Event(h) .. Len(changes)

\* Whoever wrote the row had an event of the second it is stamped with, and read
\* no earlier than that.
RowIsOfAnEvent ==
    row # NoRow => \E d \in Events : Second(d) = row.stamp /\ d <= row.version

StampsGrow == \A e \in applied : Second(e) <= row.stamp

BInv == BTypeOK /\ SecondsGrow /\ WorkIsOpen /\ RowIsOfAnEvent /\ StampsGrow

LEMMA InitBInv == BInit => BInv
  <1>. SUFFICES ASSUME BInit PROVE BInv
    OBVIOUS
  <1>0. changes \in Seq(Nat \ {0}) /\ Len(changes) = 0 /\ Events = {}
    BY DEF BInit, Events
  <1>a. \A h \in Handlers : handler[h] = Idle /\ ~Working(h)
    BY DEF BInit, Idle, Working
  <1>1. BTypeOK
    <2>1. handler \in [Handlers -> HandlerState]
      BY DEF BInit, Idle, HandlerState
    <2>2. row \in [version : 0 .. Len(changes), stamp : Nat] /\ known \in BOOLEAN
      BY <1>0 DEF BInit, NoRow
    <2>3. /\ pending = {} /\ claimed = {} /\ applied = {} /\ unknown = {} /\ abandoned = {}
          /\ faults \in Nat
      BY DEF BInit
    <2>. QED
      BY <1>0, <1>a, <2>1, <2>2, <2>3 DEF BTypeOK
  <1>2. SecondsGrow /\ WorkIsOpen /\ RowIsOfAnEvent /\ StampsGrow
    BY <1>0, <1>a DEF BInit, SecondsGrow, WorkIsOpen, RowIsOfAnEvent, StampsGrow
  <1>. QED
    BY <1>1, <1>2 DEF BInv

-----------------------------------------------------------------------------
\* Stripe's side: the events there are stay as they are.
LEMMA ChangeStep ==
    ASSUME BInv, Change
    PROVE  BInv'
  <1>. DEFINE n == Len(changes)
              second == changes'[n + 1]
  <1>1. changes \in Seq(Nat \ {0}) /\ n \in Nat
    BY DEF BInv, BTypeOK
  <1>2. PICK later \in {0, 1} :
           changes' = Append(changes, IF changes = <<>> THEN 1 ELSE Second(n) + later)
    BY DEF Change
  <1>3. n > 0 => Second(n) \in Nat \ {0}
    BY <1>1 DEF Second
  <1>4. /\ changes' \in Seq(Nat \ {0}) /\ Len(changes') = n + 1
        /\ \A e \in 1 .. n : changes'[e] = changes[e]
        /\ second = IF n = 0 THEN 1 ELSE Second(n) + later
    BY <1>1, <1>2, <1>3
  <1>5. UNCHANGED <<claimed, known, row, handler, applied, unknown, abandoned, faults>>
    BY DEF Change
  <1>6. Events' = Events \cup {n + 1} /\ \A e \in Events : Second(e)' = Second(e)
    BY <1>1, <1>4 DEF Events, Second
  <1>7. BTypeOK'
    <2>1. pending' \subseteq Endpoints \X Events'
      BY <1>4, <1>6 DEF Change, BInv, BTypeOK
    <2>2. row' \in [version : 0 .. Len(changes)', stamp : Nat]
      BY <1>1, <1>4, <1>5 DEF BInv, BTypeOK
    <2>3. claimed' \subseteq Events'
      BY <1>5, <1>6 DEF BInv, BTypeOK
    <2>. QED
      BY <1>4, <1>5, <2>1, <2>2, <2>3 DEF BInv, BTypeOK, Working, Event
  <1>8. SecondsGrow'
    <2>. SUFFICES ASSUME NEW d \in Events', NEW e \in Events', d <= e
                  PROVE  Second(d)' <= Second(e)'
      BY DEF SecondsGrow
    <2>1. CASE d \in Events /\ e \in Events
      BY <1>6, <2>1 DEF BInv, SecondsGrow
    <2>2. CASE e = n + 1 /\ d \in Events
      <3>1. d \in 1 .. n /\ n > 0 /\ n \in Events
        BY <1>1, <2>2 DEF Events
      <3>2. Second(d) \in Nat /\ Second(n) \in Nat
        BY <1>1, <3>1 DEF Second
      <3>a. Second(d) <= Second(n)
        BY <1>1, <2>2, <3>1 DEF BInv, SecondsGrow
      <3>3. Second(e)' = Second(n) + later /\ Second(d)' = Second(d)
        BY <1>4, <1>6, <2>2, <3>1 DEF Second
      <3>. QED
        BY <3>2, <3>a, <3>3
    <2>3. CASE d = n + 1
      <3>1. e = d
        BY <1>1, <1>6, <2>3 DEF Events
      <3>2. Second(d)' \in Nat
        BY <1>4, <2>3, <1>1 DEF Second
      <3>. QED
        BY <3>1, <3>2
    <2>. QED
      BY <1>6, <2>1, <2>2, <2>3
  <1>9. WorkIsOpen'
    BY <1>1, <1>4, <1>5, <1>6 DEF BInv, WorkIsOpen, Working, Event
  <1>10. RowIsOfAnEvent'
    BY <1>5, <1>6 DEF BInv, RowIsOfAnEvent
  <1>11. StampsGrow'
    BY <1>5, <1>6 DEF BInv, BTypeOK, StampsGrow
  <1>. QED
    BY <1>7, <1>8, <1>9, <1>10, <1>11 DEF BInv

\* What is left of the invariant when Stripe does nothing and the row stays.
LEMMA QuietKeeps ==
    ASSUME BInv, UNCHANGED <<changes, row>>, applied' = applied
    PROVE  SecondsGrow' /\ RowIsOfAnEvent' /\ StampsGrow' /\ Events' = Events
  BY DEF BInv, SecondsGrow, RowIsOfAnEvent, StampsGrow, Events, Second

LEMMA ArrivalSteps ==
    ASSUME BInv, NEW p \in Endpoints, NEW e \in Events,
           SaveCustomer \/ Duplicate(p, e) \/ ClaimUnanswered(p, e)
    PROVE  BInv'
  <1>1. SecondsGrow' /\ RowIsOfAnEvent' /\ StampsGrow' /\ Events' = Events
    BY QuietKeeps DEF SaveCustomer, Duplicate, ClaimUnanswered
  <1>2. /\ UNCHANGED <<changes, row, handler, applied, unknown>>
        /\ pending' \subseteq pending /\ known' \in BOOLEAN /\ faults' \in Nat
        /\ \/ UNCHANGED <<claimed, abandoned>>
           \/ /\ claimed' = claimed \cup {e} /\ abandoned' = abandoned \cup {e}
              /\ e \notin claimed
    <2>0. known \in BOOLEAN /\ faults \in Nat
      BY DEF BInv, BTypeOK
    <2>1. CASE SaveCustomer
      BY <2>0, <2>1 DEF SaveCustomer
    <2>2. CASE Duplicate(p, e)
      BY <2>0, <2>2 DEF Duplicate
    <2>3. CASE ClaimUnanswered(p, e)
      BY <2>0, <2>3 DEF ClaimUnanswered, Fault
    <2>. QED
      BY <2>1, <2>2, <2>3
  <1>3. BTypeOK'
    BY <1>1, <1>2 DEF BInv, BTypeOK, Working, Event
  <1>4. WorkIsOpen'
    BY <1>1, <1>2 DEF BInv, BTypeOK, WorkIsOpen, Working, Event
  <1>. QED
    BY <1>1, <1>3, <1>4 DEF BInv

LEMMA ClaimStep ==
    ASSUME BInv, NEW h \in Handlers, NEW p \in Endpoints, NEW e \in Events, Claim(h, p, e)
    PROVE  BInv'
  <1>. DEFINE next == [at |-> "retrieve", endpoint |-> p, event |-> e, read |-> 0]
  <1>1. SecondsGrow' /\ RowIsOfAnEvent' /\ StampsGrow' /\ Events' = Events
    BY QuietKeeps DEF Claim
  <1>2. /\ handler' = [handler EXCEPT ![h] = next] /\ handler \in [Handlers -> HandlerState]
        /\ e \in Nat /\ e \notin claimed /\ claimed' = claimed \cup {e}
        /\ pending' \subseteq pending
        /\ UNCHANGED <<changes, known, row, applied, unknown, abandoned, faults>>
    BY DEF Claim, Go, BInv, BTypeOK, Events
  <1>3. next \in HandlerState /\ handler' \in [Handlers -> HandlerState]
    BY <1>2 DEF HandlerState
  <1>4. /\ Working(h)' /\ Event(h)' = e
        /\ \A g \in Handlers \ {h} : handler'[g] = handler[g]
    BY <1>2 DEF Working, Event
  <1>5. \A g \in Handlers \ {h} : Working(g)' => Event(g)' \in claimed /\ Event(g)' # e
    BY <1>2, <1>4 DEF BInv, BTypeOK, Working, Event
  <1>6. BTypeOK'
    BY <1>1, <1>2, <1>3, <1>4, <1>5 DEF BInv, BTypeOK, Working, Event
  <1>7. WorkIsOpen'
    <2>. SUFFICES ASSUME NEW g \in Handlers, Working(g)'
                  PROVE  /\ Event(g)' \in Events
                         /\ Event(g)' \notin applied \cup unknown \cup abandoned
                         /\ handler'[g].endpoint \in Endpoints
                         /\ handler'[g].at # "retrieve" =>
                               handler'[g].read \in Event(g)' .. Len(changes)
      BY <1>1, <1>2 DEF WorkIsOpen
    <2>1. CASE g = h
      BY <1>2, <1>4, <2>1 DEF BInv, BTypeOK
    <2>2. CASE g # h
      BY <1>4, <2>2 DEF BInv, WorkIsOpen, Working, Event
    <2>. QED
      BY <2>1, <2>2
  <1>. QED
    BY <1>1, <1>6, <1>7 DEF BInv

-----------------------------------------------------------------------------
(* The steps of a handler *)

\* A handler gives its event up: whoever is left is at work as before.
LEMMA LeaveKeeps ==
    ASSUME BInv, NEW h \in Handlers, Working(h), Go(h, Idle),
           UNCHANGED changes, row' \in [version : 0 .. Len(changes), stamp : Nat],
           known' \in BOOLEAN, faults' \in Nat,
           pending' \subseteq pending \cup {<<handler[h].endpoint, Event(h)>>},
           applied' \subseteq applied \cup {Event(h)},
           unknown' \subseteq unknown \cup {Event(h)},
           abandoned' \subseteq abandoned \cup {Event(h)},
           \/ claimed' = claimed
           \/ /\ claimed' = claimed \ {Event(h)}
              /\ UNCHANGED <<applied, unknown, abandoned>>
    PROVE  BTypeOK' /\ WorkIsOpen'
  <1>1. /\ handler \in [Handlers -> HandlerState] /\ handler' = [handler EXCEPT ![h] = Idle]
        /\ Idle \in HandlerState
    BY DEF BInv, BTypeOK, Go, Idle, HandlerState
  <1>2. ~Working(h)' /\ \A g \in Handlers \ {h} : handler'[g] = handler[g]
    BY <1>1 DEF Working, Idle
  <1>3. Events' = Events
    BY DEF Events
  <1>4. \A g \in Handlers \ {h} : Working(g) => Event(g) \in claimed /\ Event(g) # Event(h)
    BY DEF BInv, BTypeOK
  <1>5. /\ Event(h) \in Events /\ Event(h) \in claimed /\ handler[h].endpoint \in Endpoints
        /\ Event(h) \notin applied \cup unknown \cup abandoned
    BY DEF BInv, BTypeOK, WorkIsOpen
  <1>6. BTypeOK'
    <2>1. handler' \in [Handlers -> HandlerState]
      BY <1>1
    <2>2. pending' \subseteq Endpoints \X Events
      BY <1>5 DEF BInv, BTypeOK
    <2>3. claimed' \subseteq Events /\ applied' \cup unknown' \cup abandoned' \subseteq claimed'
      BY <1>5 DEF BInv, BTypeOK
    <2>4. \A g \in Handlers : Working(g)' => g # h /\ Working(g) /\ Event(g)' = Event(g)
      BY <1>2 DEF Working, Event
    <2>5. \A g \in Handlers : Working(g)' => Event(g)' \in claimed'
      BY <1>4, <2>4
    <2>6. \A f, g \in Handlers : f # g /\ Working(f)' /\ Working(g)' => Event(f)' # Event(g)'
      BY <2>4 DEF BInv, BTypeOK
    <2>. QED
      BY <1>3, <2>1, <2>2, <2>3, <2>5, <2>6 DEF BInv, BTypeOK
  <1>7. WorkIsOpen'
    <2>. SUFFICES ASSUME NEW g \in Handlers, Working(g)'
                  PROVE  /\ Event(g)' \in Events
                         /\ Event(g)' \notin applied' \cup unknown' \cup abandoned'
                         /\ handler'[g].endpoint \in Endpoints
                         /\ handler'[g].at # "retrieve" =>
                               handler'[g].read \in Event(g)' .. Len(changes)
      BY <1>3 DEF WorkIsOpen
    <2>1. g # h /\ handler'[g] = handler[g] /\ Working(g) /\ Event(g)' = Event(g)
      BY <1>2 DEF Working, Event
    <2>2. Event(g) # Event(h)
      BY <1>4, <2>1
    <2>. QED
      BY <2>1, <2>2 DEF BInv, WorkIsOpen
  <1>. QED
    BY <1>6, <1>7

\* What a handler writes is of its event's second and not older than it.
LEMMA WrittenKeeps ==
    ASSUME BInv, NEW h \in Handlers, handler[h].at = "upsert", Written(h),
           UNCHANGED changes, applied' \subseteq applied \cup {Event(h)}
    PROVE  /\ row' \in [version : 0 .. Len(changes), stamp : Nat]
           /\ SecondsGrow' /\ RowIsOfAnEvent' /\ StampsGrow'
  <1>. DEFINE e == Event(h)
              next == [version |-> handler[h].read, stamp |-> Second(e)]
  <1>1. /\ changes \in Seq(Nat \ {0}) /\ row \in [version : 0 .. Len(changes), stamp : Nat]
        /\ e \in Events /\ handler[h].read \in e .. Len(changes) /\ Len(changes) \in Nat
    BY DEF BInv, BTypeOK, WorkIsOpen, Working
  <1>2. Second(e) \in Nat \ {0} /\ e \in Nat /\ \A d \in Events : Second(d) \in Nat
    BY <1>1 DEF Events, Second
  <1>3. Events' = Events /\ \A d \in Events : Second(d)' = Second(d)
    BY DEF Events, Second
  <1>4. next \in [version : 0 .. Len(changes), stamp : Nat]
    BY <1>1, <1>2
  <1>5. CASE row.stamp <= Second(e)
    <2>1. row' = next
      BY <1>5 DEF Written
    <2>2. RowIsOfAnEvent'
      BY <1>1, <1>2, <1>3, <2>1 DEF RowIsOfAnEvent
    <2>3. \A d \in applied : Second(d) <= row.stamp /\ d \in Events
      BY DEF BInv, StampsGrow, BTypeOK
    <2>4. StampsGrow'
      BY <1>1, <1>2, <1>3, <1>5, <2>1, <2>3 DEF StampsGrow
    <2>. QED
      BY <1>3, <1>4, <2>1, <2>2, <2>4 DEF BInv, SecondsGrow
  <1>6. CASE ~(row.stamp <= Second(e))
    <2>1. row' = row
      BY <1>6 DEF Written
    <2>2. RowIsOfAnEvent'
      BY <1>3, <2>1 DEF BInv, RowIsOfAnEvent
    <2>3. \A d \in applied : Second(d) <= row.stamp /\ d \in Events
      BY DEF BInv, StampsGrow, BTypeOK
    <2>4. Second(e) <= row.stamp
      BY <1>1, <1>2, <1>6
    <2>5. StampsGrow'
      BY <1>1, <1>3, <2>1, <2>3, <2>4 DEF StampsGrow
    <2>. QED
      BY <1>1, <1>3, <2>1, <2>2, <2>5 DEF BInv, SecondsGrow
  <1>. QED
    BY <1>5, <1>6

LEMMA LeavingSteps ==
    ASSUME BInv, NEW h \in Handlers, UnknownUser(h) \/ Upsert(h) \/ Fail(h) \/ Abandon(h)
    PROVE  BInv'
  <1>0. /\ row \in [version : 0 .. Len(changes), stamp : Nat] /\ known \in BOOLEAN
        /\ faults \in Nat
    BY DEF BInv, BTypeOK
  <1>1. Working(h) /\ Go(h, Idle) /\ UNCHANGED <<changes, known>>
    BY DEF UnknownUser, Upsert, Fail, Abandon, Working
  <1>2. \/ row' = row /\ applied' = applied
        \/ handler[h].at = "upsert" /\ Written(h)
    BY DEF UnknownUser, Upsert, Fail, Abandon
  <1>3. applied' \subseteq applied \cup {Event(h)}
    BY DEF UnknownUser, Upsert, Fail, Abandon
  <1>4. /\ row' \in [version : 0 .. Len(changes), stamp : Nat]
        /\ SecondsGrow' /\ RowIsOfAnEvent' /\ StampsGrow'
    BY <1>0, <1>1, <1>2, <1>3, WrittenKeeps, QuietKeeps
  <1>5. /\ faults' \in Nat
        /\ pending' \subseteq pending \cup {<<handler[h].endpoint, Event(h)>>}
        /\ unknown' \subseteq unknown \cup {Event(h)}
        /\ abandoned' \subseteq abandoned \cup {Event(h)}
        /\ \/ claimed' = claimed
           \/ /\ claimed' = claimed \ {Event(h)}
              /\ UNCHANGED <<applied, unknown, abandoned>>
    <2>1. CASE UnknownUser(h) \/ Upsert(h)
      BY <1>0, <2>1 DEF UnknownUser, Upsert
    <2>2. CASE Fail(h) \/ Abandon(h)
      BY <1>0, <2>2 DEF Fail, Abandon, Fault, Repeat
    <2>. QED
      BY <2>1, <2>2
  <1>6. BTypeOK' /\ WorkIsOpen'
    BY <1>0, <1>1, <1>3, <1>4, <1>5, LeaveKeeps
  <1>. QED
    BY <1>4, <1>6 DEF BInv

LEMMA WorkingSteps ==
    ASSUME BInv, NEW h \in Handlers, Retrieve(h) \/ FindUser(h)
    PROVE  BInv'
  <1>1. SecondsGrow' /\ RowIsOfAnEvent' /\ StampsGrow' /\ Events' = Events
    BY QuietKeeps DEF Retrieve, FindUser
  <1>2. /\ handler \in [Handlers -> HandlerState] /\ known \in BOOLEAN
        /\ Len(changes) \in Nat /\ Working(h) /\ Event(h) \in 1 .. Len(changes)
    BY DEF BInv, BTypeOK, WorkIsOpen, Working, Retrieve, FindUser, Events
  <1>. DEFINE next == handler'[h]
  <1>3. /\ next \in HandlerState /\ next.at \in {"map", "upsert"}
        /\ next.event = handler[h].event /\ next.endpoint = handler[h].endpoint
        /\ next.read \in Event(h) .. Len(changes)
        /\ handler' = [handler EXCEPT ![h] = next]
    <2>. DEFINE old == handler[h]
    <2>0. old \in HandlerState /\ old.event \in 1 .. Len(changes)
      BY <1>2 DEF Event
    <2>1. CASE Retrieve(h)
      <3>. DEFINE go == [old EXCEPT !.at = "map", !.read = Len(changes)]
      <3>1. handler' = [handler EXCEPT ![h] = go]
        BY <2>1 DEF Retrieve, Go
      <3>2. next = go
        BY <1>2, <3>1
      <3>3. /\ go \in HandlerState /\ go.at = "map" /\ go.event = old.event
            /\ go.endpoint = old.endpoint /\ go.read = Len(changes)
        BY <1>2, <2>0 DEF HandlerState
      <3>. QED
        BY <1>2, <2>0, <3>1, <3>2, <3>3 DEF Event
    <2>2. CASE FindUser(h)
      <3>. DEFINE go == [old EXCEPT !.at = "upsert"]
      <3>1. handler' = [handler EXCEPT ![h] = go] /\ old.at = "map"
        BY <2>2 DEF FindUser, Go
      <3>2. next = go
        BY <1>2, <3>1
      <3>3. /\ go \in HandlerState /\ go.at = "upsert" /\ go.event = old.event
            /\ go.endpoint = old.endpoint /\ go.read = old.read
        BY <2>0 DEF HandlerState
      <3>4. old.read \in Event(h) .. Len(changes)
        BY <1>2, <3>1 DEF BInv, WorkIsOpen
      <3>. QED
        BY <3>1, <3>2, <3>3, <3>4
    <2>. QED
      BY <2>1, <2>2
  <1>. HIDE DEF next
  <1>4. /\ UNCHANGED <<changes, pending, claimed, row, applied, unknown, abandoned, faults>>
        /\ known' \in {known, TRUE}
    BY DEF Retrieve, FindUser
  <1>5. \A g \in Handlers : Event(g)' = Event(g) /\ (Working(g)' => Working(g))
    BY <1>2, <1>3 DEF Event, Working, HandlerState
  <1>6. BTypeOK'
    <2>1. handler' \in [Handlers -> HandlerState] /\ known' \in BOOLEAN
      BY <1>2, <1>3, <1>4
    <2>. QED
      BY <1>1, <1>4, <1>5, <2>1 DEF BInv, BTypeOK
  <1>7. WorkIsOpen'
    <2>. SUFFICES ASSUME NEW g \in Handlers, Working(g)'
                  PROVE  /\ Event(g) \in Events
                         /\ Event(g) \notin applied \cup unknown \cup abandoned
                         /\ handler'[g].endpoint \in Endpoints
                         /\ handler'[g].at # "retrieve" =>
                               handler'[g].read \in Event(g) .. Len(changes)
      BY <1>1, <1>4, <1>5 DEF WorkIsOpen
    <2>1. CASE g = h
      BY <1>2, <1>3, <2>1 DEF BInv, WorkIsOpen
    <2>2. CASE g # h
      BY <1>2, <1>3, <1>5, <2>2 DEF BInv, WorkIsOpen
    <2>. QED
      BY <2>1, <2>2
  <1>. QED
    BY <1>1, <1>6, <1>7 DEF BInv

LEMMA NextBInv == BInv /\ [BNext]_bvars => BInv'
  <1>. SUFFICES ASSUME BInv, [BNext]_bvars PROVE BInv'
    OBVIOUS
  <1>1. CASE UNCHANGED bvars
    <2>1. SecondsGrow' /\ RowIsOfAnEvent' /\ StampsGrow' /\ Events' = Events
      BY <1>1, QuietKeeps DEF bvars
    <2>2. BTypeOK' /\ WorkIsOpen'
      BY <1>1, <2>1 DEF bvars, BInv, BTypeOK, WorkIsOpen, Working, Event
    <2>. QED
      BY <2>1, <2>2 DEF BInv
  <1>2. CASE Change
    BY <1>2, ChangeStep
  <1>3. CASE SaveCustomer \/ ReplaceCustomer
    <2>1. SecondsGrow' /\ RowIsOfAnEvent' /\ StampsGrow' /\ Events' = Events
      BY <1>3, QuietKeeps DEF SaveCustomer, ReplaceCustomer
    <2>2. BTypeOK' /\ WorkIsOpen'
      BY <1>3, <2>1 DEF SaveCustomer, ReplaceCustomer, BInv, BTypeOK, WorkIsOpen, Working, Event
    <2>. QED
      BY <2>1, <2>2 DEF BInv
  <1>4. CASE \E p \in Endpoints, e \in Events : Duplicate(p, e) \/ ClaimUnanswered(p, e)
    BY <1>4, ArrivalSteps
  <1>5. CASE \E p \in Endpoints, e \in Events, h \in Handlers : Claim(h, p, e)
    BY <1>5, ClaimStep
  <1>6. CASE \E h \in Handlers : Proceed(h) \/ Fail(h) \/ Abandon(h)
    BY <1>6, WorkingSteps, LeavingSteps DEF Proceed
  <1>. QED
    BY <1>1, <1>2, <1>3, <1>4, <1>5, <1>6 DEF BNext

\* An event is never at work twice, and its claim is given back only while it is
\* open (handleStripeEvent).
THEOREM EventsAreTyped == BSpec => []BTypeOK
  <1>1. BInv => BTypeOK
    BY DEF BInv
  <1>. QED
    BY <1>1, InitBInv, NextBInv, PTL DEF BSpec

-----------------------------------------------------------------------------
(* The mirror *)

\* A row that is written for an event at work is a copy, or is left as it is.
LEMMA WrittenIsACopy ==
    ASSUME BInv, NEW h \in Handlers, handler[h].at = "upsert", Written(h)
    PROVE  /\ Event(h) \in 1 .. Len(changes) \ applied
           /\ Mirror!Copy(Event(h)) \/ (row.stamp > changes[Event(h)] /\ UNCHANGED row)
  <1>1. /\ Event(h) \in Events /\ Event(h) \notin applied
        /\ handler[h].read \in Event(h) .. Len(changes)
        /\ changes \in Seq(Nat \ {0}) /\ row \in [version : 0 .. Len(changes), stamp : Nat]
    <2>1. Working(h)
      BY DEF Working
    <2>. QED
      BY <2>1 DEF BInv, BTypeOK, WorkIsOpen
  <1>2. changes[Event(h)] \in Nat /\ row.stamp \in Nat
    BY <1>1 DEF Events
  <1>3. CASE row.stamp <= Second(Event(h))
    <2>1. row' = [version |-> handler[h].read, stamp |-> changes[Event(h)]]
      BY <1>3 DEF Written, Second
    <2>. QED
      BY <1>1, <1>3, <2>1 DEF Mirror!Copy, Events, Second
  <1>4. CASE ~(row.stamp <= Second(Event(h)))
    BY <1>1, <1>2, <1>4 DEF Written, Events, Second
  <1>. QED
    BY <1>3, <1>4

LEMMA MirrorIsWritten ==
    ASSUME BInv, NEW h \in Handlers, Upsert(h) \/ Fail(h) \/ Abandon(h)
    PROVE  Mirror!Next \/ UNCHANGED <<changes, row, applied>>
  <1>1. CASE Upsert(h)
    <2>1. /\ UNCHANGED changes /\ applied' = applied \cup {Event(h)}
          /\ handler[h].at = "upsert" /\ Written(h)
      BY <1>1 DEF Upsert
    <2>2. Mirror!Acknowledge(Event(h))
      BY <2>1, WrittenIsACopy DEF Mirror!Acknowledge
    <2>. QED
      BY <2>1, <2>2, WrittenIsACopy DEF Mirror!Next
  <1>2. CASE Fail(h) \/ Abandon(h)
    <2>1. /\ UNCHANGED <<changes, applied>>
          /\ UNCHANGED row \/ (handler[h].at = "upsert" /\ Written(h))
      BY <1>2 DEF Fail, Abandon
    <2>2. CASE UNCHANGED row
      BY <2>1, <2>2
    <2>3. CASE handler[h].at = "upsert" /\ Written(h)
      BY <2>1, <2>3, WrittenIsACopy DEF Mirror!Next
    <2>. QED
      BY <2>1, <2>2, <2>3
  <1>. QED
    BY <1>1, <1>2

\* For any number of endpoints, handlers, repetitions and failures the row is a
\* mirror of the subscription: never put back to an earlier second, and not
\* written for an event that was answered as handled (handleStripeEvent,
\* claimEvent, upsertSubscription).
THEOREM SubscriptionsImplementMirror == BSpec => ImplementsMirror
  <1>1. BInit => Mirror!Init
    BY DEF BInit, NoRow, Mirror!Init
  <1>2. BInv /\ [BNext]_bvars => [Mirror!Next]_(Mirror!vars)
    <2>. SUFFICES ASSUME BInv, [BNext]_bvars
                  PROVE  Mirror!Next \/ UNCHANGED <<changes, row, applied>>
      BY DEF Mirror!vars
    <2>1. CASE Change
      BY <2>1 DEF Change, Second, Mirror!Next, Mirror!Change
    <2>2. ASSUME NEW h \in Handlers, Upsert(h) \/ Fail(h) \/ Abandon(h)
          PROVE  Mirror!Next \/ UNCHANGED <<changes, row, applied>>
      BY <2>2, MirrorIsWritten
    <2>3. CASE \/ SaveCustomer \/ ReplaceCustomer
               \/ \E p \in Endpoints, e \in Events : Duplicate(p, e) \/ ClaimUnanswered(p, e)
               \/ \E p \in Endpoints, e \in Events, h \in Handlers : Claim(h, p, e)
               \/ \E h \in Handlers : Retrieve(h) \/ FindUser(h) \/ UnknownUser(h)
      BY <2>3 DEF SaveCustomer, ReplaceCustomer, Duplicate, ClaimUnanswered, Claim, Retrieve,
                  FindUser, UnknownUser
    <2>4. CASE UNCHANGED bvars
      BY <2>4 DEF bvars
    <2>. QED
      BY <2>1, <2>2, <2>3, <2>4 DEF BNext, Proceed
  <1>. QED
    BY <1>1, <1>2, InitBInv, NextBInv, PTL DEF BSpec, ImplementsMirror, Mirror!Spec

\* What the mirror keeps by itself, without deliveries and handlers.
MirrorInv ==
    /\ changes \in Seq(Nat \ {0})
    /\ row \in [version : 0 .. Len(changes), stamp : Nat]
    /\ applied \subseteq Events
    /\ SecondsGrow /\ RowIsOfAnEvent /\ StampsGrow

LEMMA MirrorTyped ==
    ASSUME MirrorInv
    PROVE  /\ Len(changes) \in Nat /\ Events = 1 .. Len(changes)
           /\ \A e \in Events : e \in Nat \ {0} /\ Second(e) \in Nat \ {0}
           /\ row.stamp \in Nat /\ row.version \in 0 .. Len(changes)
  BY DEF MirrorInv, Events, Second

\* A change at Stripe is later than every other one, and newer than the row.
LEMMA MirrorChanges ==
    ASSUME MirrorInv, Mirror!Change
    PROVE  MirrorInv'
  <1>. DEFINE n == Len(changes)
  <1>1. /\ changes \in Seq(Nat \ {0}) /\ n \in Nat /\ UNCHANGED <<row, applied>>
        /\ row \in [version : 0 .. n, stamp : Nat]
    BY DEF MirrorInv, Mirror!Change
  <1>2. PICK later \in {0, 1} :
           changes' = Append(changes, IF changes = <<>> THEN 1 ELSE changes[n] + later)
    BY DEF Mirror!Change
  <1>3. n > 0 => changes[n] \in Nat \ {0}
    BY <1>1
  <1>4. /\ changes' \in Seq(Nat \ {0}) /\ Len(changes') = n + 1
        /\ \A e \in 1 .. n : changes'[e] = changes[e]
        /\ n > 0 => changes'[n + 1] = changes[n] + later
    BY <1>1, <1>2, <1>3
  <1>5. Events' = Events \cup {n + 1} /\ \A e \in Events : Second(e)' = Second(e)
    BY <1>1, <1>4 DEF Events, Second
  <1>6. SecondsGrow'
    <2>. SUFFICES ASSUME NEW d \in Events', NEW e \in Events', d <= e
                  PROVE  Second(d)' <= Second(e)'
      BY DEF SecondsGrow
    <2>1. CASE d \in Events /\ e \in Events
      BY <1>5, <2>1 DEF MirrorInv, SecondsGrow
    <2>2. CASE e = n + 1 /\ d \in Events
      <3>1. d \in 1 .. n /\ n > 0 /\ n \in Events
        BY <1>1, <2>2 DEF Events
      <3>2. Second(d) <= Second(n) /\ Second(d) \in Nat /\ Second(n) \in Nat
        BY <3>1, MirrorTyped DEF MirrorInv, SecondsGrow
      <3>3. Second(e)' = Second(n) + later /\ Second(d)' = Second(d)
        BY <1>4, <1>5, <2>2, <3>1 DEF Second
      <3>. QED
        BY <3>2, <3>3
    <2>3. CASE d = n + 1
      <3>1. e = d /\ e \in 1 .. n + 1
        BY <1>1, <1>5, <2>3 DEF Events
      <3>2. Second(d)' \in Nat
        BY <1>1, <1>4, <3>1 DEF Second
      <3>. QED
        BY <3>1, <3>2
    <2>. QED
      BY <1>5, <2>1, <2>2, <2>3
  <1>7. row' \in [version : 0 .. Len(changes'), stamp : Nat]
    BY <1>1, <1>4
  <1>8. applied' \subseteq Events' /\ RowIsOfAnEvent' /\ StampsGrow'
    BY <1>1, <1>5 DEF MirrorInv, RowIsOfAnEvent, StampsGrow
  <1>. QED
    BY <1>4, <1>6, <1>7, <1>8 DEF MirrorInv

\* Copying and acknowledging keep the row stamped with a change it shows.
LEMMA MirrorCopies ==
    ASSUME MirrorInv, NEW c \in Events, UNCHANGED changes,
           Mirror!Acknowledge(c) \/ (Mirror!Copy(c) /\ UNCHANGED applied)
    PROVE  MirrorInv'
  <1>1. /\ Len(changes) \in Nat /\ c \in 1 .. Len(changes) /\ changes[c] \in Nat \ {0}
        /\ row.stamp \in Nat
    BY MirrorTyped DEF Second
  <1>2. /\ Events' = Events /\ SecondsGrow' /\ changes' \in Seq(Nat \ {0})
        /\ \A e \in Events : Second(e)' = Second(e)
    BY DEF MirrorInv, Events, SecondsGrow, Second
  <1>3. /\ row' \in [version : 0 .. Len(changes'), stamp : Nat]
        /\ row.stamp <= row'.stamp /\ RowIsOfAnEvent'
        /\ applied' # applied => changes[c] <= row'.stamp
        /\ applied' = applied \/ applied' = applied \cup {c}
    <2>1. CASE Mirror!Copy(c)
      <3>1. PICK version \in c .. Len(changes) : row' = [version |-> version, stamp |-> changes[c]]
        BY <2>1 DEF Mirror!Copy
      <3>2. row'.stamp = changes[c] /\ row'.version = version /\ row.stamp <= row'.stamp
        BY <2>1, <3>1 DEF Mirror!Copy
      <3>3. row' \in [version : 0 .. Len(changes'), stamp : Nat]
        BY <1>1, <3>1
      <3>4. RowIsOfAnEvent'
        BY <1>1, <1>2, <3>1, <3>2 DEF RowIsOfAnEvent, Second
      <3>. QED
        BY <1>1, <3>2, <3>3, <3>4 DEF Mirror!Acknowledge
    <2>2. CASE row.stamp > changes[c] /\ UNCHANGED row
      BY <1>1, <1>2, <2>2 DEF MirrorInv, RowIsOfAnEvent, Mirror!Acknowledge, Mirror!Copy
    <2>. QED
      BY <2>1, <2>2 DEF Mirror!Acknowledge
  <1>4. row'.stamp \in Nat
    BY <1>3
  <1>5. StampsGrow'
    <2>. SUFFICES ASSUME NEW e \in applied' PROVE Second(e)' <= row'.stamp
      BY DEF StampsGrow
    <2>1. CASE e \in applied
      <3>1. e \in Events /\ Second(e) <= row.stamp /\ Second(e) \in Nat
        BY <2>1, MirrorTyped DEF MirrorInv, StampsGrow
      <3>. QED
        BY <1>1, <1>2, <1>3, <1>4, <3>1
    <2>2. CASE e \notin applied
      BY <1>2, <1>3, <2>2 DEF Second
    <2>. QED
      BY <2>1, <2>2
  <1>6. applied' \subseteq Events'
    BY <1>2, <1>3 DEF MirrorInv
  <1>. QED
    BY <1>2, <1>3, <1>5, <1>6 DEF MirrorInv

\* Whatever implements the mirror shows what it acknowledged, up to the order
\* within one second: that is a matter of the guard of the write and of reading
\* the current truth, not of deliveries and claims (upsertSubscription).
THEOREM MirrorShowsWhatIsHandled == ImplementsMirror => []AppliedIsShown
  <1>1. Mirror!Init => MirrorInv
    BY DEF Mirror!Init, MirrorInv, Events, SecondsGrow, RowIsOfAnEvent, StampsGrow, NoRow
  <1>2. MirrorInv /\ [Mirror!Next]_(Mirror!vars) => MirrorInv'
    <2>1. MirrorInv /\ UNCHANGED Mirror!vars => MirrorInv'
      BY DEF Mirror!vars, MirrorInv, Events, SecondsGrow, RowIsOfAnEvent, StampsGrow, Second
    <2>2. ASSUME MirrorInv, Mirror!Next PROVE MirrorInv'
      BY <2>2, MirrorChanges, MirrorCopies DEF Mirror!Next, Events
    <2>. QED
      BY <2>1, <2>2
  <1>3. MirrorInv => AppliedIsShown
    <2>. SUFFICES ASSUME MirrorInv, NEW e \in applied
                  PROVE  \E d \in 1 .. e : Second(d) = Second(e) /\ row.version >= d
      BY DEF AppliedIsShown
    <2>1. /\ e \in Events /\ Second(e) <= row.stamp
          /\ row.version \in 0 .. Len(changes) /\ Len(changes) \in Nat
      BY MirrorTyped DEF MirrorInv, StampsGrow
    <2>2. \A d \in Events : d \in Nat \ {0} /\ Second(d) \in Nat \ {0}
      BY MirrorTyped
    <2>3. row # NoRow
      BY <2>1, <2>2 DEF NoRow
    <2>4. PICK d \in Events : Second(d) = row.stamp /\ d <= row.version
      BY <2>3 DEF MirrorInv, RowIsOfAnEvent
    <2>5. CASE d <= e
      <3>1. Second(d) = Second(e) /\ d \in 1 .. e
        BY <2>1, <2>2, <2>4, <2>5 DEF MirrorInv, SecondsGrow
      <3>. QED
        BY <2>1, <2>2, <2>4, <3>1
    <2>6. CASE e < d
      BY <2>1, <2>2, <2>4, <2>6
    <2>. QED
      BY <2>2, <2>1, <2>5, <2>6
  <1>. QED
    BY <1>1, <1>2, <1>3, PTL DEF ImplementsMirror, Mirror!Spec

\* The row shows every event that was answered as handled, up to the order within
\* one second, because the handlers implement the mirror (handleStripeEvent).
THEOREM AppliedEventsAreShown == BSpec => []AppliedIsShown
  BY SubscriptionsImplementMirror, MirrorShowsWhatIsHandled, PTL
===================================================================================
