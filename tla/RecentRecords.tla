--------------------------- MODULE RecentRecords ---------------------------
(***************************************************************************)
(* The dashboard of recent runs of one scope: a query that is never        *)
(* refetched by itself, a socket that brings a snapshot and then single    *)
(* runs, filters applied on both, and the hub of the server that           *)
(* broadcasts a run when the database notifies it.                         *)
(***************************************************************************)
EXTENDS Naturals, Sequences, FiniteSets

CONSTANTS
    Runs,       \* numbers, a later run after an earlier one
    Limit,      \* RECENT_RECORDS_LIVE_LIMIT
    MaxWire,    \* bound on the messages under way
    MaxChanges  \* bound on what happens to the runs, the network and the filter

(* Points are "low" or "high"; one filter asks for high points.             *)
Filters == {"all", "high"}
Row == [run : Runs, points : {"low", "high"}]

VARIABLES
    db,         \* each run: "absent", "low", "high" or "deleted"
    notes,      \* runs that the database has notified, not yet broadcast
    changes,    \* counts towards MaxChanges
    filter,     \* the selected one
    rows,       \* the state of the panel
    cache,      \* results of the query, by filter
    asked,      \* requests under way, by filter
    socket,     \* "connecting", "open" or "waiting"
    joined,     \* what the hub has done for this socket
    wire,       \* messages under way to the panel
    lag         \* history: "no", or the panel may lag behind, "until" the
                \* snapshot under way is received, or "past" it

server == <<db, notes>>
query == <<cache, asked>>
connection == <<socket, joined, wire>>
vars == <<server, changes, filter, rows, query, connection, lag>>

Matches(f, x) == f = "all" \/ x.points = "high"

(* compareRecentRecords and slice                                           *)
Newest(S) == {x \in S : Cardinality({y \in S : y.run > x.run}) < Limit}

Stored == {x \in Row : x.points = db[x.run]}
Snapshot == Newest(Stored)
Answer(f) == Newest({x \in Stored : Matches(f, x)})

Visible == {x \in rows : Matches(filter, x)}

Joined(st, S) == [st |-> st, rows |-> S]
Asked(st, S) == [st |-> st, rows |-> S]
Cached(has, S) == [has |-> has, rows |-> S, stale |-> FALSE]
-----------------------------------------------------------------------------
Init ==
    /\ db = [r \in Runs |-> "absent"]
    /\ notes = {} /\ changes = 0
    /\ filter = "all" /\ rows = {}
    /\ cache = [f \in Filters |-> Cached(FALSE, {})]
    /\ asked = [f \in Filters |-> Asked(IF f = "all" THEN "sent" ELSE "no", {})]
    /\ socket = "connecting" /\ joined = Joined("no", {}) /\ wire = <<>>
    /\ lag = "until"

(* Whatever the next snapshot makes up for                                  *)
Lags == lag' = IF lag = "past" THEN lag ELSE "until"

Changes == changes < MaxChanges /\ changes' = changes + 1

(* A run is stored, or its points change; the database notifies the hub.    *)
Save(r, p) ==
    /\ Changes
    /\ db[r] \in {"absent", "low", "high"} \ {p}
    /\ db' = [db EXCEPT ![r] = p]
    /\ notes' = notes \cup {r}
    /\ UNCHANGED <<filter, rows, query, connection, lag>>

(* A run that an administrator deletes is not notified.                     *)
Delete(r) ==
    /\ Changes
    /\ db[r] \in {"low", "high"}
    /\ db' = [db EXCEPT ![r] = "deleted"]
    /\ lag' = "past"
    /\ UNCHANGED <<notes, filter, rows, query, connection>>

(* The listener's connection fails and is opened again after a second.      *)
LoseNotes ==
    /\ Changes
    /\ notes # {} /\ notes' = {}
    /\ lag' = "past"
    /\ UNCHANGED <<db, filter, rows, query, connection>>

-----------------------------------------------------------------------------
(* The hub has registered the socket; it reads the snapshot and then sends  *)
(* it, and a broadcast may come in between.                                 *)
ReadSnapshot ==
    /\ joined.st = "joined"
    /\ joined' = Joined("read", Snapshot)
    /\ lag' = "until"
    /\ UNCHANGED <<server, changes, filter, rows, query, socket, wire>>

SendSnapshot ==
    /\ joined.st = "read" /\ Len(wire) < MaxWire
    /\ joined' = Joined("sent", {})
    /\ wire' = Append(wire, [snapshot |-> TRUE, rows |-> joined.rows])
    /\ UNCHANGED <<server, changes, filter, rows, query, socket, lag>>

(* The run is read again when it is broadcast.                              *)
Broadcast(r) ==
    /\ r \in notes /\ Len(wire) < MaxWire
    /\ notes' = notes \ {r}
    /\ LET event == {x \in Stored : x.run = r}
       IN  IF joined.st = "no" \/ event = {} THEN UNCHANGED <<wire, lag>>
           ELSE /\ wire' = Append(wire, [snapshot |-> FALSE, rows |-> event])
                /\ lag' = IF joined.st = "read" THEN "past" ELSE lag
    /\ UNCHANGED <<db, changes, filter, rows, query, socket, joined>>

Open ==
    /\ socket = "connecting"
    /\ socket' = "open" /\ joined' = Joined("joined", {})
    /\ UNCHANGED <<server, changes, filter, rows, query, wire, lag>>

(* onclose: after onerror, a bad message or the loss of the connection      *)
Drop ==
    /\ Changes
    /\ socket \in {"connecting", "open"}
    /\ socket' = "waiting" /\ joined' = Joined("no", {}) /\ wire' = <<>>
    /\ Lags
    /\ UNCHANGED <<server, filter, rows, query>>

(* The timer of the next attempt                                            *)
Retry ==
    /\ socket = "waiting" /\ socket' = "connecting"
    /\ UNCHANGED <<server, changes, filter, rows, query, joined, wire, lag>>

(* A run that no longer matches stays.                                      *)
BugUpserted(x) ==
    IF Matches(filter, x) THEN Newest({y \in rows : y.run # x.run} \cup {x}) ELSE rows

(* The run takes the place of its older version, or of none.                *)
Upserted(x) ==
    LET others == {y \in rows : y.run # x.run}
    IN  IF Matches(filter, x) THEN Newest(others \cup {x}) ELSE others

(* handleRealtimeEvent                                                      *)
Receive ==
    /\ wire # <<>> /\ wire' = Tail(wire)
    /\ LET m == Head(wire)
       IN  IF m.snapshot
           THEN /\ rows' = Newest({x \in m.rows : Matches(filter, x)})
                /\ lag' = IF lag = "until" THEN "no" ELSE lag
           ELSE /\ rows' = UNION {Upserted(x) : x \in m.rows}
                /\ UNCHANGED lag
    /\ UNCHANGED <<server, changes, filter, query, socket, joined>>

-----------------------------------------------------------------------------
Respond(f) ==
    /\ asked[f].st = "sent"
    /\ asked' = [asked EXCEPT ![f] = Asked("answered", Answer(f))]
    /\ UNCHANGED <<server, changes, filter, rows, cache, connection, lag>>

(* The effect on the data of the mounted query puts the answer over         *)
(* whatever the socket has brought in the meantime.                         *)
Resolve(f) ==
    /\ asked[f].st = "answered"
    /\ asked' = [asked EXCEPT ![f] = Asked("no", {})]
    /\ cache' = [cache EXCEPT ![f] = Cached(TRUE, asked[f].rows)]
    /\ IF f = filter THEN rows' = Newest(asked[f].rows) /\ Lags
       ELSE UNCHANGED <<rows, lag>>
    /\ UNCHANGED <<server, changes, filter, connection>>

(* After one retry an error, which stays.                                   *)
Fail(f) ==
    /\ asked[f].st = "sent"
    /\ asked' = [asked EXCEPT ![f] = Asked("no", {})]
    /\ UNCHANGED <<server, changes, filter, rows, cache, connection, lag>>

Asks(f) == asked' = [asked EXCEPT ![f] = IF @.st = "no" THEN Asked("sent", {}) ELSE @]

(* A cached result is shown at once, however old.                           *)
Select(f) ==
    /\ Changes
    /\ f # filter /\ filter' = f
    /\ IF cache[f].has THEN rows' = Newest(cache[f].rows) ELSE UNCHANGED rows
    /\ IF cache[f].has /\ ~ cache[f].stale THEN UNCHANGED asked ELSE Asks(f)
    /\ Lags
    /\ UNCHANGED <<server, cache, connection>>

(* useRecordAdminActions, after a deletion: the mounted query is asked for  *)
(* again, the other when it is selected.                                    *)
Invalidate ==
    /\ Changes
    /\ Asks(filter)
    /\ cache' = [f \in Filters |-> [cache[f] EXCEPT !.stale = TRUE]]
    /\ UNCHANGED <<server, filter, rows, connection, lag>>

Next ==
    \/ \E r \in Runs : (\E p \in {"low", "high"} : Save(r, p)) \/ Delete(r) \/ Broadcast(r)
    \/ LoseNotes \/ ReadSnapshot \/ SendSnapshot
    \/ Open \/ Drop \/ Retry \/ Receive
    \/ \E f \in Filters : Respond(f) \/ Resolve(f) \/ Fail(f) \/ Select(f)
    \/ Invalidate

Spec == Init /\ [][Next]_vars
-----------------------------------------------------------------------------
TypeOK ==
    /\ db \in [Runs -> {"absent", "low", "high", "deleted"}]
    /\ notes \subseteq Runs
    /\ filter \in Filters /\ rows \subseteq Row
    /\ socket \in {"connecting", "open", "waiting"}
    /\ joined.st # "no" => socket = "open"
    /\ lag \in {"no", "until", "past"}

(* Nothing is under way.                                                    *)
Quiet == joined.st = "sent" /\ wire = <<>> /\ notes = {}

(* A panel in sync shows what is stored: only a lost connection, a deletion,*)
(* a lost notification, a snapshot overtaken by a run, a query result or a  *)
(* change of filter makes it lag behind, until the next snapshot.           *)
FeedIsCurrent ==
    Quiet /\ lag = "no" =>
        /\ Visible \subseteq Stored
        /\ \A x \in Snapshot : Matches(filter, x) => x \in Visible
=============================================================================
