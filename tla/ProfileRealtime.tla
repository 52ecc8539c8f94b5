-------------------------- MODULE ProfileRealtime --------------------------
(***************************************************************************)
(* A query of a profile that a socket keeps fresh: each message about the  *)
(* player invalidates it. The player's own records are also invalidated    *)
(* when the socket opens; the names and pictures from Steam are not.       *)
(***************************************************************************)
EXTENDS Naturals

CONSTANTS
    MaxChanges  \* bound on what happens to the profile and the network

VARIABLES
    kind,       \* "records" or "steam"
    version,    \* of the profile at the server
    told,       \* a change has been notified, not yet broadcast
    line,       \* "connecting", "open" or "waiting"
    hub,        \* "no", "accepted" or "joined"
    events,     \* messages under way
    shown,      \* the version in the cache, NoData before the first answer
    request,    \* the version in the answer under way, or what it waits for
    missed,     \* history: an update that nothing will bring any more
    changes     \* counts towards MaxChanges

NoData == MaxChanges + 1
Idle == NoData + 1
Asked == NoData + 2

socket == <<line, hub, events>>
query == <<shown, request>>
vars == <<kind, version, told, socket, query, missed, changes>>

Init ==
    /\ kind \in {"records", "steam"}
    /\ version = 0 /\ told = FALSE
    /\ line = "connecting" /\ hub = "no" /\ events = 0
    /\ shown = NoData /\ request = Asked
    /\ missed = FALSE /\ changes = 0

Changes == changes < MaxChanges /\ changes' = changes + 1

(* A record is stored, or the profile is fetched from Steam.                *)
Update ==
    /\ Changes
    /\ version' = version + 1 /\ told' = TRUE
    /\ UNCHANGED <<kind, socket, query, missed>>

(* A first answer that is under way is kept: only a query with data is      *)
(* cancelled and asked again.                                               *)
Invalidated ==
    IF shown = NoData THEN missed' = (missed \/ request # Idle) /\ UNCHANGED request
    ELSE missed' = FALSE /\ request' = Asked

LoseNotes ==
    /\ Changes
    /\ told /\ told' = FALSE /\ missed' = TRUE
    /\ UNCHANGED <<kind, version, socket, query>>

(* A socket that is accepted but not yet registered is passed over.         *)
Broadcast ==
    /\ told /\ told' = FALSE
    /\ events' = IF hub = "joined" THEN events + 1 ELSE events
    /\ missed' = (missed \/ hub = "accepted" \/ (hub = "no" /\ kind = "steam"))
    /\ UNCHANGED <<kind, version, line, hub, query, changes>>

Accept ==
    /\ line = "connecting" /\ hub = "no" /\ hub' = "accepted"
    /\ UNCHANGED <<kind, version, told, line, events, query, missed, changes>>

Register ==
    /\ hub = "accepted" /\ hub' = "joined"
    /\ UNCHANGED <<kind, version, told, line, events, query, missed, changes>>

BugOpen ==
    /\ line = "connecting" /\ hub # "no" /\ line' = "open"
    /\ UNCHANGED <<kind, version, told, hub, events, shown, changes, request, missed>>

(* onopen: "Reconcile records missed while this page had no subscription."  *)
Open ==
    /\ line = "connecting" /\ hub # "no" /\ line' = "open"
    /\ IF kind = "records" THEN Invalidated ELSE UNCHANGED <<request, missed>>
    /\ UNCHANGED <<kind, version, told, hub, events, shown, changes>>

Receive ==
    /\ line = "open" /\ events > 0 /\ events' = events - 1
    /\ Invalidated
    /\ UNCHANGED <<kind, version, told, line, hub, shown, changes>>

Drop ==
    /\ Changes
    /\ line # "waiting" /\ line' = "waiting" /\ hub' = "no" /\ events' = 0
    /\ missed' = (missed \/ (kind = "steam" /\ events > 0))
    /\ UNCHANGED <<kind, version, told, query>>

Retry ==
    /\ line = "waiting" /\ line' = "connecting"
    /\ UNCHANGED <<kind, version, told, hub, events, query, missed, changes>>

Respond ==
    /\ request = Asked /\ request' = version
    /\ UNCHANGED <<kind, version, told, socket, shown, missed, changes>>

Resolve ==
    /\ request < NoData /\ shown' = request /\ request' = Idle
    /\ UNCHANGED <<kind, version, told, socket, missed, changes>>

(* The query gives up.                                                      *)
Fail ==
    /\ Changes
    /\ request = Asked /\ request' = Idle /\ missed' = TRUE
    /\ UNCHANGED <<kind, version, told, socket, shown>>

Progress == Broadcast \/ Accept \/ Register \/ Open \/ Receive \/ Retry \/ Respond \/ Resolve
Next == Update \/ LoseNotes \/ Drop \/ Fail \/ Progress

Spec == Init /\ [][Next]_vars
FairSpec == Spec /\ WF_vars(Progress)
-----------------------------------------------------------------------------
TypeOK ==
    /\ version \in 0 .. MaxChanges
    /\ line = "open" => hub # "no"
    /\ shown \in 0 .. NoData /\ request \in 0 .. Asked

(* However often the connection is lost, a profile shows the last version in*)
(* the end, unless an update was lost: by the listener or a failed query, to*)
(* a socket not yet registered, to a first answer already under way, or, of *)
(* the data from Steam, while the socket was closed.                        *)
ProfileCatchesUp == <>[](missed \/ shown = version)
=============================================================================
