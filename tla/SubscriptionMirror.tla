--------------------------- MODULE SubscriptionMirror ---------------------------
(***************************************************************************)
(* What the row of a subscription promises of the subscription at Stripe:  *)
(* a copy that may lag but is never put back to an earlier second, and     *)
(* that is written for a change until that change is acknowledged, never   *)
(* after it.  There are no deliveries, claims, handlers, customers or      *)
(* failures here.                                                          *)
(***************************************************************************)
EXTENDS Naturals, Sequences

VARIABLES
    truth,         \* the seconds of the changes at Stripe
    shown,         \* how many changes the row shows, and the second it is stamped with
    acknowledged   \* the changes that were answered as handled

vars == <<truth, shown, acknowledged>>

Init ==
    /\ truth = <<>>
    /\ shown = [version |-> 0, stamp |-> 0]
    /\ acknowledged = {}

\* The subscription changes, in the second of its last change or a later one.
Change ==
    /\ \E later \in {0, 1} :
          truth' = Append(truth, IF truth = <<>> THEN 1 ELSE truth[Len(truth)] + later)
    /\ UNCHANGED <<shown, acknowledged>>

\* The row is written for a change: it shows that one and perhaps later ones.
Copy(c) ==
    /\ shown.stamp <= truth[c]
    /\ \E version \in c .. Len(truth) : shown' = [version |-> version, stamp |-> truth[c]]

\* The change is acknowledged once the row shows it or is of a later second.
Acknowledge(c) ==
    /\ Copy(c) \/ (shown.stamp > truth[c] /\ UNCHANGED shown)
    /\ acknowledged' = acknowledged \cup {c}

Next ==
    \/ Change
    \/ \E c \in 1 .. Len(truth) \ acknowledged :
          /\ UNCHANGED truth
          /\ Acknowledge(c) \/ (Copy(c) /\ UNCHANGED acknowledged)

Spec == Init /\ [][Next]_vars
=================================================================================
