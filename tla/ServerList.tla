----------------------------- MODULE ServerList -----------------------------
(***************************************************************************)
(* The game servers that the server browser knows: a seed that is asked    *)
(* for once, a socket with a snapshot and single changes, and the servers  *)
(* the user adds.                                                          *)
(***************************************************************************)
EXTENDS Naturals, Sequences, FiniteSets

CONSTANTS
    Servers,    \* the native ones
    MaxWire,    \* bound on the messages under way
    MaxChanges  \* bound on what happens to the servers and the network

VARIABLES
    truth,      \* each server: "absent", "on", "off", "private" or "deleted"
    told,       \* servers whose change has been notified, not yet broadcast
    list,       \* nativeServers
    seed,       \* the request of the seed
    line,       \* "off", "connecting", "open" or "waiting"
    hub,        \* what the hub has done for this socket
    post,       \* messages under way to the browser
    added,      \* the answer under way to a server that the user adds
    lag,        \* history: a loss that is not made up for
    changes     \* counts towards MaxChanges

backend == <<truth, told>>
connection == <<line, hub, post>>
vars == <<backend, list, seed, connection, added, lag, changes>>

(* to_server_public of the public servers                                   *)
Public == {[id |-> s, on |-> truth[s] = "on"] : s \in {s \in Servers : truth[s] \in {"on", "off"}}}

Step(st, S) == [st |-> st, rows |-> S]

(* The server takes the place of its older version, or comes last.          *)
With(rows, x) == {y \in rows : y.id # x.id} \cup {x}
Without(rows, s) == {y \in rows : y.id # s}

(* Nothing is under way to the browser.                                     *)
Quiet == hub.st = "sent" /\ post = <<>> /\ told = {} /\ added = {}
-----------------------------------------------------------------------------
Init ==
    /\ truth = [s \in Servers |-> "absent"] /\ told = {}
    /\ list = {} /\ seed = Step("sent", {})
    /\ line = "off" /\ hub = Step("no", {}) /\ post = <<>>
    /\ added = {}
    /\ lag = TRUE /\ changes = 0

Changes == changes < MaxChanges /\ changes' = changes + 1

(* The collector has seen the server, or an administrator changed it.       *)
Change(s, st) ==
    /\ Changes
    /\ truth[s] \in {"on", "off", "private"} \ {st}
    /\ truth' = [truth EXCEPT ![s] = st]
    /\ told' = told \cup {s}
    /\ UNCHANGED <<list, seed, connection, added, lag>>

(* The update event of a server that is gone is None.                       *)
Delete(s) ==
    /\ Changes
    /\ truth[s] \in {"on", "off"}
    /\ truth' = [truth EXCEPT ![s] = "deleted"]
    /\ lag' = TRUE
    /\ UNCHANGED <<told, list, seed, connection, added>>

LoseNotes ==
    /\ Changes
    /\ told # {} /\ told' = {} /\ lag' = TRUE
    /\ UNCHANGED <<truth, list, seed, connection, added>>

(* build_server_snapshot_event for the new socket, and then send_json       *)
ReadSnapshot ==
    /\ hub.st = "joined" /\ hub' = Step("read", Public)
    /\ UNCHANGED <<backend, list, seed, line, post, added, lag, changes>>

SendSnapshot ==
    /\ hub.st = "read" /\ Len(post) < MaxWire
    /\ hub' = Step("sent", {})
    /\ post' = Append(post, [type |-> "snapshot", rows |-> hub.rows])
    /\ UNCHANGED <<backend, list, seed, line, added, lag, changes>>

(* build_server_update_event reads the server again.                        *)
Event(s) ==
    IF truth[s] = "private" THEN [type |-> "removed", id |-> s]
    ELSE [type |-> "updated", rows |-> {x \in Public : x.id = s}]

Broadcast(s) ==
    /\ s \in told /\ Len(post) < MaxWire
    /\ told' = told \ {s}
    /\ IF hub.st = "no" \/ truth[s] = "deleted" THEN UNCHANGED <<post, lag>>
       ELSE /\ post' = Append(post, Event(s))
            /\ lag' = (lag \/ hub.st = "read")
    /\ UNCHANGED <<truth, list, seed, line, hub, added, changes>>
-----------------------------------------------------------------------------
(* The seed fills the list, once, and opens the socket.                     *)
AnswerSeed ==
    /\ seed.st = "sent" /\ seed' = Step("answered", Public)
    /\ UNCHANGED <<backend, list, connection, added, lag, changes>>

Seed ==
    /\ seed.st = "answered" /\ seed' = Step("done", {})
    /\ list' = seed.rows
    /\ line' = "connecting"
    /\ UNCHANGED <<backend, hub, post, added, lag, changes>>

Open ==
    /\ line = "connecting" /\ line' = "open" /\ hub' = Step("joined", {})
    /\ UNCHANGED <<backend, list, seed, post, added, lag, changes>>

Drop ==
    /\ Changes
    /\ line \in {"connecting", "open"}
    /\ line' = "waiting" /\ hub' = Step("no", {}) /\ post' = <<>> /\ lag' = TRUE
    /\ UNCHANGED <<backend, list, seed, added>>

Retry ==
    /\ line = "waiting" /\ line' = "connecting"
    /\ UNCHANGED <<backend, list, seed, hub, post, added, lag, changes>>

(* An update only adds.                                                     *)
BugUpdated(rows, x) == rows \cup {x}

Updated(rows, x) == With(rows, x)

(* handleRealtimeEvent; a snapshot after which nothing is under way makes   *)
(* up for every loss.                                                       *)
Receive ==
    /\ post # <<>> /\ post' = Tail(post)
    /\ LET m == Head(post)
       IN  /\ list' = CASE m.type = "snapshot" -> m.rows
                        [] m.type = "removed" -> Without(list, m.id)
                        [] m.type = "updated" -> UNION {Updated(list, x) : x \in m.rows}
           /\ lag' = (lag /\ ~ (m.type = "snapshot" /\ m.rows = Public
                                /\ Tail(post) = <<>> /\ told = {} /\ added = {}))
    /\ UNCHANGED <<backend, seed, line, hub, added, changes>>

(* createServer; the answer may come after a later message about the server.*)
Create(s) ==
    /\ Changes
    /\ truth[s] = "absent" /\ added = {}
    /\ truth' = [truth EXCEPT ![s] = "on"] /\ told' = told \cup {s}
    /\ added' = {[id |-> s, on |-> TRUE]}
    /\ UNCHANGED <<list, seed, connection, lag>>

(* handleServerAdded                                                        *)
ServerAdded ==
    /\ \E x \in added :
        /\ list' = With(list, x)
        /\ lag' = (lag \/ x \notin Public)
    /\ added' = {}
    /\ UNCHANGED <<backend, seed, connection, changes>>

Next ==
    \/ \E s \in Servers :
        \/ \E st \in {"on", "off", "private"} : Change(s, st)
        \/ Delete(s) \/ Broadcast(s) \/ Create(s)
    \/ LoseNotes \/ ReadSnapshot \/ SendSnapshot
    \/ AnswerSeed \/ Seed \/ Open \/ Drop \/ Retry \/ Receive \/ ServerAdded

Spec == Init /\ [][Next]_vars
-----------------------------------------------------------------------------
TypeOK ==
    /\ truth \in [Servers -> {"absent", "on", "off", "private", "deleted"}]
    /\ list \subseteq [id : Servers, on : BOOLEAN]
    /\ line \in {"off", "connecting", "open", "waiting"}
    /\ hub.st # "no" => line = "open"
    /\ line # "off" <=> seed.st = "done"

(* A browser that has received a snapshot lists each public server with its *)
(* last status and no other, however updates, removals and additions follow *)
(* each other, unless a server was deleted, a notification lost, a snapshot *)
(* or an answer overtaken.                                                  *)
ListIsCurrent == Quiet /\ ~ lag => list = Public
=============================================================================
