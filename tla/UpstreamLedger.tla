--------------------------- MODULE UpstreamLedger ---------------------------
(***************************************************************************)
(* What the reconciliation of native and mirrored runs promises, with the  *)
(* tables abstracted away: an upstream run is first observed under some    *)
(* UUID, may move once to the native run it turns out to be, and then      *)
(* never moves again; no UUID stands for two upstream runs.                *)
(***************************************************************************)
CONSTANTS None, Ids, Uuids

VARIABLES
    holder,     \* the UUID that stands for an upstream id, or None
    settled     \* the ids that a native run holds

ledger == <<holder, settled>>

Init == holder = [x \in Ids |-> None] /\ settled = {}

Free(u) == \A x \in Ids : holder[x] # u

Observe(x, u) ==
    /\ holder[x] = None
    /\ Free(u)
    /\ holder' = [holder EXCEPT ![x] = u]
    /\ UNCHANGED settled

Settle(x, u) ==
    /\ x \notin settled
    /\ Free(u)
    /\ holder' = [holder EXCEPT ![x] = u]
    /\ settled' = settled \cup {x}

Next == \E x \in Ids, u \in Uuids : Observe(x, u) \/ Settle(x, u)

Spec == Init /\ [][Next]_ledger
=============================================================================
