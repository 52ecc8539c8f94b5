---------------------------- MODULE ProfileVisit ----------------------------
(***************************************************************************)
(* A visitor goes from profile to profile.  The page keeps its instance    *)
(* when only the player changes and gets a new one with another tab; what  *)
(* it has asked of the server is answered whenever, and the answer is filed*)
(* under the player the instance showed last.  One of the page's numbers is*)
(* followed at a time: the likes, the views, the friends, or the details,  *)
(* that is bans, pins and standing.                                        *)
(***************************************************************************)
EXTENDS Integers, FiniteSets

CONSTANTS
    Numbers,     \* the numbers followed, among "likes", "views", "friends" and "detail"
    Players,     \* 1 .. n, the first is the visitor
    MaxNumber,   \* bound of the numbers
    MaxCalls,    \* bound on the calls under way
    MaxActs      \* bound on what the visitor does and what goes wrong

VARIABLES
    number,      \* the number followed
    server,      \* [Players -> Nat]: its value
    liked,       \* players the visitor has liked today
    player, canonical, tab, \* the address: a player, its form and a tab
    known,       \* <<player, form>> whose player has been loaded
    shown,       \* [Players -> number cached or NoData]
    request,     \* [Players -> Idle, Asked or the value read]
    stale,       \* players whose number is to be read when they are shown next
    calls,       \* [op, of, filed, attached, out]: filed is the player last shown by
                 \* the instance it is of, if attached; out is Sent, Failed or a value
    viewed,      \* recordedProfileViewsRef
    synced,      \* autoSyncedFriendsRef
    firstOwner,  \* firstCompletionOwner
    enabled,     \* history: first completions have been asked for on this page
    counted,     \* history: players whose view this instance has counted
    twice,       \* history: ... and of one twice
    strayed,     \* history: players whose number an answer missed, or was filed wrongly under
    acts         \* counts towards MaxActs

address == <<player, canonical, tab>>
cache == <<shown, request, stale>>
refs == <<viewed, synced, firstOwner>>
history == <<enabled, counted, twice, strayed>>
vars == <<number, server, liked, address, known, cache, calls, refs, history, acts>>

NoData == -1
Idle == -2
Asked == -3
Sent == -2
Failed == -3
Nobody == 0
Me == 1
Tabs == {"home", "records", "friends"}

(* playerSteamid64: none until the player at the address has been loaded.   *)
Current(p, c, k) == IF <<p, c>> \in k THEN p ELSE Nobody
playerSteamid64 == Current(player, canonical, known)
Visible == canonical /\ playerSteamid64 # Nobody
isOwnProfile == playerSteamid64 = Me

Init ==
    /\ number \in Numbers
    /\ server = [p \in Players |-> 0] /\ liked = {}
    /\ player = 2 /\ canonical = FALSE /\ tab \in {"home", "records"} /\ known = {}
    /\ shown = [p \in Players |-> NoData] /\ request = [p \in Players |-> Idle] /\ stale = {}
    /\ calls = {}
    /\ viewed = {} /\ synced = FALSE /\ firstOwner = Nobody
    /\ enabled = FALSE /\ counted = {} /\ twice = FALSE /\ strayed = {}
    /\ acts = 0

Acts == acts < MaxActs /\ acts' = acts + 1

Call(op) == [op |-> op, of |-> player, filed |-> player, attached |-> TRUE, out |-> Sent]
Pending(op) == \E c \in calls : c.op = op /\ c.attached

(* The friends are read on their tab only.                                  *)
Wanted(p, t) == IF number = "friends" /\ t # "friends" THEN Nobody ELSE p

(* A query that turns to a player reads what it has not, or no longer.      *)
Turn(p) ==
    IF p # Nobody /\ request[p] = Idle /\ (shown[p] = NoData \/ p \in stale)
    THEN request' = [request EXCEPT ![p] = Asked] /\ stale' = stale \ {p} /\ UNCHANGED shown
    ELSE UNCHANGED cache

(* The callbacks of the calls under way are those of the last rendering.    *)
Rendered(p) == {IF c.attached THEN [c EXCEPT !.filed = p] ELSE c : c \in calls}

BugOwnerAt(p, c, t) == firstOwner

(* The effect forgets the owner when the tab or the player is another.      *)
OwnerAt(p, c, t) == IF t = "records" /\ c /\ firstOwner = p THEN firstOwner ELSE Nobody

Navigate(p, c, t) ==
    /\ <<p, c, t>> # address
    /\ player' = p /\ canonical' = c /\ tab' = t
    /\ enabled' = FALSE
    /\ IF t = tab
       THEN /\ calls' = Rendered(Current(p, c, known))
            /\ firstOwner' = OwnerAt(p, c, t)
            /\ UNCHANGED <<viewed, synced, counted>>
       ELSE /\ calls' = {[d EXCEPT !.attached = FALSE] : d \in calls}
            /\ viewed' = {} /\ synced' = FALSE /\ firstOwner' = Nobody /\ counted' = {}
    /\ Turn(Wanted(Current(p, c, known), t))
    /\ UNCHANGED <<number, server, liked, known, twice, strayed>>

BugUnrecorded(p) == TRUE

Unrecorded(p) == p \notin viewed

MayCount == number = "views" /\ Visible /\ ~isOwnProfile /\ Unrecorded(player)

(* Effects run before the visitor can do anything.                          *)
EffectsDone == Cardinality(calls) < MaxCalls => ~MayCount /\ (playerSteamid64 = Nobody \/ canonical)

(* A player chosen in the search or in the social dialog, back and forth    *)
(* between two players' runs, or another tab.                               *)
Visit ==
    /\ Acts /\ EffectsDone
    /\ \/ \E p \in Players, c \in BOOLEAN : Navigate(p, c, "home")
       \/ \E p \in Players : tab = "records" /\ Navigate(p, TRUE, tab)
       \/ \E t \in Tabs : Visible /\ Navigate(player, TRUE, t)

LoadPlayer ==
    /\ playerSteamid64 = Nobody
    /\ known' = known \cup {<<player, canonical>>}
    /\ calls' = Rendered(player)
    /\ Turn(Wanted(player, tab))
    /\ UNCHANGED <<number, server, liked, address, refs, history, acts>>

(* The address is rewritten to the player's own.                            *)
Redirect == playerSteamid64 # Nobody /\ ~canonical /\ Navigate(player, TRUE, tab) /\ UNCHANGED acts

Starts(op) ==
    /\ Cardinality(calls) < MaxCalls
    /\ calls' = calls \cup {Call(op)}
    /\ UNCHANGED <<number, server, liked, address, known, cache, history>>

(* The effect that counts the visit.                                        *)
createPlayerView ==
    /\ MayCount
    /\ viewed' = viewed \cup {player}
    /\ Starts("view") /\ UNCHANGED <<synced, firstOwner, acts>>

(* Nobody likes himself: his heart opens the list of those who do.          *)
handleLikeClick ==
    /\ Acts /\ number = "likes" /\ Visible /\ ~isOwnProfile /\ ~Pending("like")
    /\ Starts("like") /\ UNCHANGED refs

(* Pinning, the check of a ban, and the two recoveries of a moderator.      *)
Change ==
    /\ Acts /\ number = "detail" /\ Visible /\ ~Pending("change")
    /\ Starts("change") /\ UNCHANGED refs

MaySync == number = "friends" /\ Visible /\ isOwnProfile /\ tab = "friends" /\ ~Pending("sync")

syncFriends == Acts /\ MaySync /\ Starts("sync") /\ UNCHANGED refs

(* A list that was never read from Steam (0) is, without being asked, once. *)
AutoSync ==
    /\ MaySync /\ shown[Me] = 0 /\ ~synced /\ synced' = TRUE
    /\ Starts("sync") /\ UNCHANGED <<viewed, firstOwner, acts>>

ShowFirst ==
    /\ Acts /\ Visible /\ tab = "records"
    /\ firstOwner' = IF firstOwner = player THEN Nobody ELSE player
    /\ enabled' = (firstOwner' = player)
    /\ UNCHANGED <<number, server, liked, address, known, cache, calls, viewed, synced, counted, twice, strayed>>

showFirstCompletion == tab = "records" /\ canonical /\ firstOwner = player

(* The second like of a day counts nothing.                                 *)
After(c) ==
    IF (c.op = "like" /\ c.of \in liked) \/ server[c.of] = MaxNumber THEN server[c.of] ELSE server[c.of] + 1

Serve(c) ==
    /\ c.out = Sent
    /\ server' = [server EXCEPT ![c.of] = After(c)]
    /\ calls' = (calls \ {c}) \cup {[c EXCEPT !.out = After(c)]}
    /\ liked' = IF c.op = "like" THEN liked \cup {c.of} ELSE liked
    /\ LET counts == c.op = "view" /\ c.attached
       IN  /\ counted' = IF counts THEN counted \cup {c.of} ELSE counted
           /\ twice' = (twice \/ (counts /\ c.of \in counted))
    /\ UNCHANGED <<number, address, known, cache, refs, enabled, strayed, acts>>

(* A call is refused, or its answer is lost after it was carried out.       *)
Refuse(c) ==
    /\ Acts /\ c.out # Failed
    /\ calls' = (calls \ {c}) \cup {[c EXCEPT !.out = Failed]}
    /\ strayed' = IF c.out = Sent THEN strayed ELSE strayed \cup {c.of}
    /\ counted' = counted \ {c.of}
    /\ UNCHANGED <<number, server, liked, address, known, cache, refs, enabled, twice>>

(* The number is written into the cache; a query that has read an older one *)
(* will still overwrite it.                                                 *)
Write(p, value) == shown' = [shown EXCEPT ![p] = value] /\ UNCHANGED <<request, stale>>

(* Whoever is shown is read anew, but for a first read that is under way;   *)
(* others when they are shown next, unless a query that is under way for    *)
(* them arrives before.                                                     *)
Invalidate(p) ==
    /\ IF p = Wanted(playerSteamid64, tab)
       THEN IF shown[p] = NoData /\ request[p] >= 0 THEN UNCHANGED <<request, stale>>
            ELSE request' = [request EXCEPT ![p] = Asked] /\ UNCHANGED stale
       ELSE stale' = stale \cup {p} /\ UNCHANGED request
    /\ UNCHANGED shown

BugFiled(c) == c.filed

(* A view is filed under the player it was counted for, the rest under the  *)
(* player that the instance has shown last.                                 *)
Filed(c) == IF c.op = "view" THEN c.of ELSE c.filed

(* Nothing repairs the numbers of these: the answer has gone to another, is *)
(* older than the next one, or an older number is still to arrive.          *)
Strays(c) ==
    (IF c.op # "view" /\ c.filed # c.of THEN {c.of, c.filed} ELSE {})
        \cup (IF c.out # server[c.of] THEN {c.of} ELSE {})
        \cup (IF request[c.of] >= 0 THEN {c.of} ELSE {})

onSuccess(c) ==
    /\ c.out >= 0 /\ calls' = calls \ {c}
    /\ IF Filed(c) = Nobody THEN UNCHANGED cache
       ELSE IF c.op \in {"like", "view"} THEN Write(Filed(c), c.out) ELSE Invalidate(Filed(c))
    /\ strayed' = strayed \cup Strays(c)
    /\ UNCHANGED <<number, server, liked, address, known, refs, enabled, counted, twice, acts>>

(* A failed view is counted when the page turns to the player again; also a *)
(* failed synchronization has left its time at the server.                  *)
onError(c) ==
    /\ c.out = Failed /\ calls' = calls \ {c}
    /\ viewed' = IF c.op = "view" /\ c.attached THEN viewed \ {c.of} ELSE viewed
    /\ IF c.op = "sync" /\ c.filed # Nobody THEN Invalidate(c.filed) ELSE UNCHANGED cache
    /\ UNCHANGED <<number, server, liked, address, known, synced, firstOwner, history, acts>>

Read(p) ==
    /\ request[p] = Asked /\ request' = [request EXCEPT ![p] = server[p]]
    /\ UNCHANGED <<number, server, liked, address, known, shown, stale, calls, refs, history, acts>>

Arrive(p) ==
    /\ request[p] >= 0
    /\ shown' = [shown EXCEPT ![p] = request[p]]
    /\ request' = [request EXCEPT ![p] = Idle] /\ stale' = stale \ {p}
    /\ strayed' = IF request[p] = server[p] THEN strayed \ {p} ELSE strayed
    /\ UNCHANGED <<number, server, liked, address, known, calls, refs, enabled, counted, twice, acts>>

Fail(p) ==
    /\ Acts /\ request[p] = Asked
    /\ request' = [request EXCEPT ![p] = Idle] /\ stale' = stale \cup {p}
    /\ UNCHANGED <<number, server, liked, address, known, shown, calls, refs, history>>

(* The number is old, and the page is looked at again.                      *)
Refresh(p) ==
    /\ Acts /\ p = Wanted(playerSteamid64, tab) /\ request[p] = Idle
    /\ request' = [request EXCEPT ![p] = Asked] /\ stale' = stale \ {p}
    /\ UNCHANGED <<number, server, liked, address, known, shown, calls, refs, history>>

Next ==
    \/ Visit \/ LoadPlayer \/ Redirect
    \/ createPlayerView \/ handleLikeClick \/ Change \/ syncFriends \/ AutoSync \/ ShowFirst
    \/ \E c \in calls : Serve(c) \/ Refuse(c) \/ onSuccess(c) \/ onError(c)
    \/ \E p \in Players : Read(p) \/ Arrive(p) \/ Fail(p) \/ Refresh(p)

Spec == Init /\ [][Next]_vars

TypeOK ==
    /\ player \in Players /\ firstOwner \in Players \cup {Nobody}
    /\ \A p \in Players : server[p] \in 0 .. MaxNumber /\ shown[p] \in NoData .. MaxNumber /\ request[p] \in Asked .. MaxNumber
    /\ \A c \in calls : c.filed \in Players \cup {Nobody} /\ c.out \in Failed .. MaxNumber

(* A number in the cache is the one the server has for that player, unless *)
(* it is being read or an answer has strayed.                               *)
ShownIsTheirs ==
    \A p \in Players :
        \/ shown[p] = NoData \/ request[p] # Idle \/ p \in stale \cup strayed
        \/ \E c \in calls : p \in {c.of, c.filed}
        \/ shown[p] = server[p]

(* An instance of the page counts one view of a player, and first           *)
(* completions, which are costly, are read only where they were asked for.  *)
VisitIsCountedOnce == ~twice
FirstOnlyWhenAsked == showFirstCompletion => enabled
=============================================================================
