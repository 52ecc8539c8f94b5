----------------------------- MODULE RecentWrs -----------------------------
(***************************************************************************)
(* The wall of recent world records for one choice of filters: an infinite *)
(* query fetched page by page, whose first page a socket replaces whenever *)
(* the server broadcasts a snapshot.                                       *)
(***************************************************************************)
EXTENDS Naturals, Sequences, FiniteSets

CONSTANTS
    Wrs,        \* numbers, a later record after an earlier one
    Size,       \* RECENT_WRS_BATCH_SIZE
    Cap,        \* RECENT_WRS_MAX_CARDS, a multiple of Size
    MaxChanges  \* bound on what happens to the records and the network

VARIABLES
    feed,       \* the records the server lists
    owed,       \* a broadcast is due
    pages,      \* the cached pages, <<>> before there are any
    fetch,      \* the request under way: the pages it has and how many it
                \* wants, and whether it may be overtaken
    failed,     \* wrsQuery.isError
    socket,     \* "off", "connecting", "open" or "waiting"
    joined,     \* what the hub has done for this socket
    wire,       \* snapshots under way
    torn,       \* history: something the panel does not repair has happened
    changes     \* counts towards MaxChanges

server == <<feed, owed>>
query == <<pages, fetch, failed>>
connection == <<socket, joined, wire>>
vars == <<server, query, connection, torn, changes>>

(* n records after the first k, newest first                                *)
Slice(k, n) == {w \in feed : LET r == Cardinality({v \in feed : v > w}) IN k <= r /\ r < k + n}
Page(k) == [ids |-> Slice(k, Size), count |-> Cardinality(feed)]
First(page) == {w \in page.ids : \A v \in page.ids : v <= w}

(* getNextPageParam                                                         *)
HasNext(ps) ==
    LET last == ps[Len(ps)]  count == IF last.count < Cap THEN last.count ELSE Cap
    IN  last.ids # {} /\ Len(ps) * Size < count

(* The cards: every page's records, each once                               *)
Shown == IF failed THEN {} ELSE UNION {pages[i].ids : i \in DOMAIN pages}

NoPage == [ids |-> {}, count |-> 0]
Idle == fetch.want = 0
(* Nothing is under way to the panel.                                       *)
Quiet == joined.st = "sent" /\ wire = <<>> /\ ~ owed

-----------------------------------------------------------------------------
Init ==
    /\ feed = {} /\ owed = FALSE
    /\ pages = <<>> /\ fetch = [got |-> <<>>, want |-> 1, late |-> FALSE] /\ failed = FALSE
    /\ socket = "connecting" /\ joined = [st |-> "no", page |-> NoPage] /\ wire = <<>>
    /\ torn = TRUE /\ changes = 0

Changes == changes < MaxChanges /\ changes' = changes + 1

(* A world record is set; the server is notified. A page that is asked for   *)
(* meanwhile begins one record too early.                                   *)
Publish(w) ==
    /\ \A v \in feed : v < w
    /\ Changes
    /\ feed' = feed \cup {w} /\ owed' = TRUE
    /\ fetch' = [fetch EXCEPT !.late = ~ Idle]
    /\ UNCHANGED <<pages, failed, connection, torn>>

(* A record is deleted: of the cached pages only the first is replaced.     *)
Withdraw(w) ==
    /\ w \in feed /\ Changes
    /\ feed' = feed \ {w} /\ owed' = TRUE /\ torn' = TRUE
    /\ UNCHANGED <<query, connection>>

(* build_snapshot for the new socket, then send_json; a broadcast may come  *)
(* in between.                                                              *)
BuildSnapshot ==
    /\ joined.st = "joined"
    /\ joined' = [st |-> "built", page |-> Page(0)]
    /\ UNCHANGED <<server, query, socket, wire, torn, changes>>

SendSnapshot ==
    /\ joined.st = "built"
    /\ joined' = [st |-> "sent", page |-> NoPage]
    /\ wire' = Append(wire, joined.page)
    /\ UNCHANGED <<server, query, socket, torn, changes>>

(* broadcast_scope                                                          *)
Broadcast ==
    /\ owed /\ owed' = FALSE
    /\ IF joined.st = "no" THEN UNCHANGED <<wire, torn>>
       ELSE /\ wire' = Append(wire, Page(0))
            /\ torn' = (torn \/ joined.st = "built")
    /\ UNCHANGED <<feed, query, socket, joined, changes>>
-----------------------------------------------------------------------------
Open ==
    /\ socket = "connecting" /\ socket' = "open"
    /\ joined' = [st |-> "joined", page |-> NoPage]
    /\ UNCHANGED <<server, query, wire, torn, changes>>

Disconnected(s) == socket' = s /\ joined' = [st |-> "no", page |-> NoPage] /\ wire' = <<>>

Drop ==
    /\ socket \in {"connecting", "open"} /\ Changes
    /\ Disconnected("waiting") /\ torn' = TRUE
    /\ UNCHANGED <<server, query>>

Retry ==
    /\ socket = "waiting" /\ socket' = "connecting"
    /\ UNCHANGED <<server, query, joined, wire, torn, changes>>

(* The pages that follow are kept whatever has come first.                  *)
BugWithFirst(page) ==
    IF pages = <<>> THEN <<page>> ELSE <<page>> \o Tail(pages)

(* A snapshot with another newest record starts the list anew; otherwise it *)
(* takes the place of the first page.                                       *)
WithFirst(page) ==
    IF pages = <<>> \/ First(page) # First(pages[1]) THEN <<page>>
    ELSE <<page>> \o Tail(pages)

(* setQueryData ends an error, and does not stop a request under way.       *)
Receive ==
    /\ wire # <<>> /\ wire' = Tail(wire)
    /\ pages' = WithFirst(Head(wire)) /\ failed' = FALSE
    /\ fetch' = [fetch EXCEPT !.late = ~ Idle]
    /\ torn' = (torn /\ ~ (Len(pages') = 1 /\ pages'[1] = Page(0) /\ Idle
                        /\ Len(wire) = 1 /\ joined.st = "sent" /\ ~ owed))
    /\ UNCHANGED <<server, socket, joined, changes>>
-----------------------------------------------------------------------------
Asks(got, want) == fetch' = [got |-> got, want |-> want, late |-> FALSE]

(* The end of the list comes into view: fetchNextPage, if there is one.     *)
ScrollToEnd ==
    /\ Idle /\ ~ failed /\ pages # <<>> /\ HasNext(pages)
    /\ Asks(pages, Len(pages) + 1)
    /\ UNCHANGED <<server, pages, failed, connection, torn, changes>>

(* The window is focused again: every page is asked for in turn.            *)
Refetch ==
    /\ Idle /\ Changes
    /\ Asks(<<>>, IF pages = <<>> THEN 1 ELSE Len(pages))
    /\ UNCHANGED <<server, pages, failed, connection, torn>>

(* The result is what the request has collected, over whatever the socket   *)
(* has put into the cache since it began. An error before it is forgotten,  *)
(* and the socket opened again.                                             *)
Respond ==
    /\ ~ Idle
    /\ LET got == Append(fetch.got, Page(Len(fetch.got) * Size))
       IN  IF Len(got) < fetch.want /\ HasNext(got)
           THEN /\ fetch' = [fetch EXCEPT !.got = got]
                /\ UNCHANGED <<pages, failed, torn, socket>>
           ELSE /\ Asks(<<>>, 0)
                /\ pages' = got /\ failed' = FALSE
                /\ socket' = IF socket = "off" THEN "connecting" ELSE socket
                /\ torn' = (torn \/ fetch.late)
    /\ UNCHANGED <<server, joined, wire, changes>>

(* The error takes the place of the list, and the socket is closed.         *)
Fail ==
    /\ ~ Idle /\ Changes
    /\ Asks(<<>>, 0) /\ failed' = TRUE
    /\ Disconnected("off") /\ torn' = TRUE
    /\ UNCHANGED <<server, pages>>

Next ==
    \/ \E w \in Wrs : Publish(w) \/ Withdraw(w)
    \/ BuildSnapshot \/ SendSnapshot \/ Broadcast
    \/ Open \/ Drop \/ Retry \/ Receive
    \/ ScrollToEnd \/ Refetch \/ Respond \/ Fail

Spec == Init /\ [][Next]_vars
-----------------------------------------------------------------------------
TypeOK ==
    /\ feed \subseteq Wrs
    /\ Len(pages) * Size <= Cap
    /\ \A i \in DOMAIN pages : pages[i].ids \subseteq Wrs
    /\ socket \in {"off", "connecting", "open", "waiting"}
    /\ failed => socket = "off"

(* The wall shows the newest records without a gap, however snapshots and   *)
(* further pages follow each other: only a deletion, a lost connection, or a*)
(* page or a first snapshot that is overtaken leaves it torn, until a newer *)
(* record starts the list anew.                                             *)
WallHasNoGap ==
    Quiet /\ ~ torn =>
        /\ Shown = Slice(0, Cardinality(Shown))
        /\ Slice(0, Size) \subseteq Shown
=============================================================================
