------------------------------ MODULE Subscriptions -------------------------------
(***************************************************************************)
(* A subscription at Stripe and its row here (lib/billing/webhook.ts:      *)
(* handleStripeEvent; lib/billing/store.ts; app/api/billing/webhook).      *)
(*                                                                         *)
(* Each change at Stripe sends an event to every endpoint that was set up. *)
(* A handler claims the event, reads the subscription from Stripe, finds   *)
(* whose it is, and writes the row, ordered by the second in which its     *)
(* event was created; if it fails it gives the claim back, and Stripe      *)
(* sends the event again.  Events arrive in any order, several times, and  *)
(* their handlers overlap.                                                 *)
(*                                                                         *)
(* Left out: prices and plans, which are read with the subscription and    *)
(* follow from it; event types that are not handled; and that Stripe stops *)
(* repeating an event after some days.                                     *)
(***************************************************************************)
EXTENDS Integers, Sequences

CONSTANTS
    Endpoints,    \* endpoints registered at Stripe for the one route
    Handlers,     \* requests that are served at once
    MaxChanges,   \* the bound on changes of the subscription
    MaxFaults     \* the bound on deaths and failed statements or calls

ASSUME SubscriptionsAssumption == MaxChanges \in Nat /\ MaxFaults \in Nat

VARIABLES
    changes,     \* the seconds of the changes at Stripe, each of them an event
    pending,     \* the deliveries Stripe is to make or to repeat
    claimed,     \* osirus.stripe_events
    known,       \* whether billing_customers names the customer's user
    row,         \* the row of osirus.billing_subscriptions
    handler,     \* where each handler is
    applied,     \* events that were answered as handled,
    unknown,     \* as of an unknown user,
    abandoned,   \* or whose claim nobody will give back
    faults

bvars == <<changes, pending, claimed, known, row, handler, applied, unknown, abandoned, faults>>

Events == 1 .. Len(changes)

\* The second an event was created in: event.created.
Second(e) == changes[e]

\* What Stripe says of the subscription after n changes is the version n; there
\* is no row before the first write.
NoRow == [version |-> 0, stamp |-> 0]
Idle == [at |-> "idle", endpoint |-> "", event |-> 0, read |-> 0]

BInit ==
    /\ changes = <<>>
    /\ pending = {}
    /\ claimed = {}
    /\ known \in BOOLEAN
    /\ row = NoRow
    /\ handler = [h \in Handlers |-> Idle]
    /\ applied = {}
    /\ unknown = {}
    /\ abandoned = {}
    /\ faults = 0

Fault == faults < MaxFaults /\ faults' = faults + 1
Go(h, next) == handler' = [handler EXCEPT ![h] = next]
Event(h) == handler[h].event

\* A 500, or no answer at all: Stripe makes the delivery again.
Repeat(h) == pending' = pending \cup {<<handler[h].endpoint, Event(h)>>}

-----------------------------------------------------------------------------
\* The subscription changes, in this second or a later one, and the event goes
\* to every endpoint.
Change ==
    /\ Len(changes) < MaxChanges
    /\ \E later \in {0, 1} :
          changes' = Append(changes,
                            IF changes = <<>> THEN 1 ELSE Second(Len(changes)) + later)
    /\ pending' = pending \cup {<<p, Len(changes')>> : p \in Endpoints}
    /\ UNCHANGED <<claimed, known, row, handler, applied, unknown, abandoned, faults>>

\* A checkout saves the customer of a user.
SaveCustomer ==
    /\ ~known
    /\ known' = TRUE
    /\ UNCHANGED <<changes, pending, claimed, row, handler, applied, unknown, abandoned, faults>>

\* Another customer of the same user is saved in its place: a user has one row.
ReplaceCustomer ==
    /\ known
    /\ known' = FALSE
    /\ UNCHANGED <<changes, pending, claimed, row, handler, applied, unknown, abandoned, faults>>

\* An event somebody has claimed is a duplicate and answered at once.
Duplicate(p, e) ==
    /\ <<p, e>> \in pending
    /\ e \in claimed
    /\ pending' = pending \ {<<p, e>>}
    /\ UNCHANGED <<changes, claimed, known, row, handler, applied, unknown, abandoned, faults>>

\* Mutant: events that are at work are not told from others.
ClaimAny(h, p, e) ==
    /\ handler[h] = Idle
    /\ <<p, e>> \in pending
    /\ claimed' = claimed \cup {e}
    /\ pending' = pending \ {<<p, e>>}
    /\ Go(h, [at |-> "retrieve", endpoint |-> p, event |-> e, read |-> 0])
    /\ UNCHANGED <<changes, known, row, applied, unknown, abandoned, faults>>

\* claimEvent inserts the event's id.
Claim(h, p, e) ==
    /\ handler[h] = Idle
    /\ <<p, e>> \in pending
    /\ e \notin claimed
    /\ claimed' = claimed \cup {e}
    /\ pending' = pending \ {<<p, e>>}
    /\ Go(h, [at |-> "retrieve", endpoint |-> p, event |-> e, read |-> 0])
    /\ UNCHANGED <<changes, known, row, applied, unknown, abandoned, faults>>

\* Its answer is lost, before the try that would give the claim back.
ClaimUnanswered(p, e) ==
    /\ <<p, e>> \in pending
    /\ e \notin claimed
    /\ Fault
    /\ claimed' = claimed \cup {e}
    /\ abandoned' = abandoned \cup {e}
    /\ UNCHANGED <<changes, pending, known, row, handler, applied, unknown>>

\* The current truth, not the event's snapshot.
Retrieve(h) ==
    /\ handler[h].at = "retrieve"
    /\ Go(h, [handler[h] EXCEPT !.at = "map", !.read = Len(changes)])
    /\ UNCHANGED <<changes, pending, claimed, known, row, applied, unknown, abandoned, faults>>

\* The customer's user is known, or the metadata names it and it is saved.
FindUser(h) ==
    /\ handler[h].at = "map"
    /\ known' = TRUE
    /\ Go(h, [handler[h] EXCEPT !.at = "upsert"])
    /\ UNCHANGED <<changes, pending, claimed, row, applied, unknown, abandoned, faults>>

\* Nobody's customer, and nobody is named: a 200, and the claim stays.
UnknownUser(h) ==
    /\ handler[h].at = "map"
    /\ ~known
    /\ unknown' = unknown \cup {Event(h)}
    /\ Go(h, Idle)
    /\ UNCHANGED <<changes, pending, claimed, known, row, applied, abandoned, faults>>

\* Mutant: whoever writes last wins.
WrittenAlways(h) == row' = [version |-> handler[h].read, stamp |-> Second(Event(h))]

\* upsertSubscription: skipped when the row is of a later second.
Written(h) ==
    row' = IF row.stamp <= Second(Event(h))
           THEN [version |-> handler[h].read, stamp |-> Second(Event(h))] ELSE row

Upsert(h) ==
    /\ handler[h].at = "upsert"
    /\ Written(h)
    /\ applied' = applied \cup {Event(h)}
    /\ Go(h, Idle)
    /\ UNCHANGED <<changes, pending, claimed, known, unknown, abandoned, faults>>

Working(h) == handler[h].at \in {"retrieve", "map", "upsert"}

\* Mutant: a failure keeps the claim.
FailClaimed(h) ==
    /\ Working(h)
    /\ Fault
    /\ Repeat(h)
    /\ Go(h, Idle)
    /\ \/ UNCHANGED row
       \/ handler[h].at = "upsert" /\ Written(h)
    /\ UNCHANGED <<changes, claimed, known, applied, unknown, abandoned>>

\* A call throws, perhaps after the row was written: the claim is given back, and
\* the 500 has the event sent again.
Fail(h) ==
    /\ Working(h)
    /\ Fault
    /\ Repeat(h)
    /\ Go(h, Idle)
    /\ claimed' = claimed \ {Event(h)}
    /\ \/ UNCHANGED row
       \/ handler[h].at = "upsert" /\ Written(h)
    /\ UNCHANGED <<changes, known, applied, unknown, abandoned>>

\* The request dies, or fails and cannot give the claim back: the event that is
\* sent again is a duplicate.
Abandon(h) ==
    /\ Working(h)
    /\ Fault
    /\ Repeat(h)
    /\ Go(h, Idle)
    /\ abandoned' = abandoned \cup {Event(h)}
    /\ \/ UNCHANGED row
       \/ handler[h].at = "upsert" /\ Written(h)
    /\ UNCHANGED <<changes, claimed, known, applied, unknown>>

Proceed(h) == Retrieve(h) \/ FindUser(h) \/ UnknownUser(h) \/ Upsert(h)

BNext ==
    \/ Change
    \/ SaveCustomer \/ ReplaceCustomer
    \/ \E p \in Endpoints, e \in Events :
          \/ Duplicate(p, e)
          \/ ClaimUnanswered(p, e)
          \/ \E h \in Handlers : Claim(h, p, e)
    \/ \E h \in Handlers : Proceed(h) \/ Fail(h) \/ Abandon(h)

BSpec == BInit /\ [][BNext]_bvars

\* Stripe repeats what was not answered, and a request that does not fail ends.
BFairSpec ==
    /\ BSpec
    /\ \A h \in Handlers : WF_bvars(Proceed(h))
    /\ \A e \in 1 .. MaxChanges :
          WF_bvars(e \in Events /\ \E p \in Endpoints, h \in Handlers : Claim(h, p, e))

-----------------------------------------------------------------------------
(* Properties *)

HandlerState == [at : {"idle", "retrieve", "map", "upsert"}, endpoint : Endpoints \cup {""},
                 event : Nat, read : Nat]

\* Rows keep their types, and an event at work is claimed by one handler alone.
BTypeOK ==
    /\ changes \in Seq(Nat \ {0})
    /\ pending \subseteq Endpoints \X Events
    /\ claimed \subseteq Events
    /\ known \in BOOLEAN
    /\ row \in [version : 0 .. Len(changes), stamp : Nat]
    /\ handler \in [Handlers -> HandlerState]
    /\ \A h \in Handlers : Working(h) => Event(h) \in claimed
    /\ \A h, g \in Handlers : h # g /\ Working(h) /\ Working(g) => Event(h) # Event(g)
    /\ applied \cup unknown \cup abandoned \subseteq claimed
    /\ faults \in Nat

\* The row shows every event that was answered as handled, whatever order the
\* events came in and however their handlers overlapped, up to the events of the
\* same second, which nothing orders (webhook.ts: "the current truth").
AppliedIsShown ==
    \A e \in applied : \E d \in 1 .. e : Second(d) = Second(e) /\ row.version >= d

\* Every event is applied in the end, unless nobody knows its user or its claim
\* was abandoned (webhook.ts: "let Stripe retry").
EventsApply ==
    \A e \in 1 .. MaxChanges : e \in Events ~> e \in applied \cup unknown \cup abandoned

-----------------------------------------------------------------------------
(* Refinement *)

Mirror == INSTANCE SubscriptionMirror WITH
    truth <- changes, shown <- row, acknowledged <- applied

\* However events are repeated, overtaken, claimed twice or lost, the row stays a
\* mirror of the subscription: it never goes back to an earlier second, and an
\* event that was answered as handled is not written again (webhook.ts:
\* "duplicate_event").
ImplementsMirror == Mirror!Spec
===================================================================================
