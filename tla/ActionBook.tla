-------------------------------- MODULE ActionBook --------------------------------
(***************************************************************************)
(* What the ledger of external actions promises to its callers: a book     *)
(* with one entry per action, changed in one step each time.  A call goes  *)
(* out in the step that announces it, its end is written only by who has   *)
(* it in flight, and no entry is ever erased.  There are no versions, no   *)
(* loads and saves, no gate, no other updates and no faults here.          *)
(***************************************************************************)
EXTENDS Naturals

CONSTANTS Workers, Keys

VARIABLES
    entry,     \* the entry of each action
    flight,    \* the announced calls each worker has out: at most one
    made,      \* how often an action was called
    redone,    \* how often an entry was announced over that still stood
    failed     \* how often an action was written down as failed

vars == <<entry, flight, made, redone, failed>>

Init ==
    /\ entry = [k \in Keys |-> "none"]
    /\ flight = [w \in Workers |-> {}]
    /\ made = [k \in Keys |-> 0]
    /\ redone = [k \in Keys |-> 0]
    /\ failed = [k \in Keys |-> 0]

\* An announcement over an entry that is open or done is one made in ignorance
\* of it, and is counted.
Announce(k) ==
    /\ entry' = [entry EXCEPT ![k] = "intent"]
    /\ redone' = IF entry[k] \in {"intent", "done"} THEN [redone EXCEPT ![k] = @ + 1] ELSE redone
    /\ UNCHANGED failed

\* The announced call goes out, or its worker never hears that it may.
LetGo(w, k) ==
    /\ flight[w] = {}
    /\ flight' = [flight EXCEPT ![w] = {k}]
    /\ made' = [made EXCEPT ![k] = @ + 1]

\* A call in flight comes to its end.
Close(w, k, end) ==
    /\ flight[w] = {k}
    /\ flight' = [flight EXCEPT ![w] = {}]
    /\ entry' = [entry EXCEPT ![k] = end]
    /\ failed' = IF end = "failed" THEN [failed EXCEPT ![k] = @ + 1] ELSE failed
    /\ UNCHANGED <<made, redone>>

\* A worker loses track of its call: the entry stays as it is.
Forget(w) ==
    /\ flight' = [flight EXCEPT ![w] = {}]
    /\ UNCHANGED <<entry, made, redone, failed>>

Next ==
    \/ \E k \in Keys :
          /\ Announce(k)
          /\ (\E w \in Workers : LetGo(w, k)) \/ UNCHANGED <<flight, made>>
    \/ \E w \in Workers, k \in Keys, end \in {"done", "failed"} : Close(w, k, end)
    \/ \E w \in Workers : Forget(w)

Spec == Init /\ [][Next]_vars
===================================================================================
