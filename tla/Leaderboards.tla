---------------------------- MODULE Leaderboards ----------------------------
(***************************************************************************)
(* The leaderboards, one tab at a time.  Players and jumps are paged by the *)
(* server, maps by the page itself; communities and countries have no      *)
(* pages.  The mode is chosen in the page's head and outlives everything.   *)
(* A player may be located, which asks the server for his rank and turns to *)
(* its page; two such calls may be under way.  The standings change while  *)
(* all this is read: each answer is of the standing it was read of.        *)
(***************************************************************************)
EXTENDS Integers, FiniteSets

CONSTANTS
    Tabs,        \* the tabs followed
    Filters,     \* [tab -> filters of the tab, "all" the one it starts with]
    Count,       \* [standing -> [mode -> [filter -> rows]]]
    Rank,        \* [standing -> [player -> [mode -> [filter -> rank by rating or 0]]]]
    Rated,       \* rows of maps and countries: [name, value], 0 for no value
    Sizes,       \* page sizes
    MaxCalls,    \* bound on the locations under way
    MaxActs      \* bound on what the reader does

VARIABLES
    tab,
    scope,       \* the mode
    view,        \* [filter, sort, desc, page, size]
    standing,    \* what the server has, 1 .. Len(Count)
    reads,       \* reads under way: [key, since], the standing when asked
    held,        \* answers held: [key, of]
    failed,      \* keys whose last read was given up: an error is shown
    lastKnown,   \* lastKnownTotalCount, of the jumps
    target,      \* targetPlayer of the address, or Nobody
    calls,       \* locations under way: [player, scope, filter, size, since]
    spotlight,   \* pendingSpotlightSteamid64
    locatedIn,   \* history: the standing of the rank the spotlight follows
    detail,      \* the dialog of a jump
    drifted,     \* history: a later page of the players is shown after the mode or
                 \* the standing was changed
    moved,       \* history: the view was changed after a location was asked for
    acts         \* counts towards MaxActs

search == <<calls, spotlight, locatedIn, moved>>
cache == <<reads, held, failed>>
vars == <<tab, scope, view, standing, cache, lastKnown, target, search, detail, drifted, acts>>

Nobody == 0
Standings == DOMAIN Count
Me == 1
Players == DOMAIN Rank[1]
Scopes == DOMAIN Count[1]

(* The first sort of each tab, and one for the others.                      *)
PlayerSorts == <<"rating", "points">>
MapSorts == <<"unique_nub_finishes", "name">>
CommunitySorts == <<"views_count", "platform_followers">>
CountrySorts == <<"top10_average_rating">>
JumpstatSorts == <<"distance", "block">>

Sorts == CASE tab = "players" -> PlayerSorts
           [] tab = "maps" -> MapSorts
           [] tab = "community" -> CommunitySorts
           [] tab = "countries" -> CountrySorts
           [] tab = "jumpstats" -> JumpstatSorts

(* What a query of the tab depends on: its key.                             *)
Unused == [filter |-> "all", sort |-> "", desc |-> TRUE, page |-> 0, size |-> 0]
Key(s, v) == <<s, CASE tab \in {"players", "jumpstats"} -> v
                    [] tab = "community" -> [Unused EXCEPT !.sort = v.sort]
                    [] tab \in {"maps", "countries"} -> Unused>>

(* The players are counted by a query of their own (size 0).                *)
CountKey(s, v) == <<s, [v EXCEPT !.page = 0, !.size = 0]>>
Keys(s, v) == {Key(s, v)} \cup (IF tab = "players" THEN {CountKey(s, v)} ELSE {})

Answered(k, h) == \E a \in h : a.key = k
Of(k, h) == (CHOOSE a \in h : a.key = k).of
isLoading == ~Answered(Key(scope, view), held)

LastPage(count, size) == IF count = 0 THEN 0 ELSE (count - 1) \div size

(* What the pager takes for the number of rows.                             *)
RowsOfPage(n, s, v) == Cardinality({i \in 1 .. Count[n][s][v.filter] : (i - 1) \div v.size = v.page})
totalPlayers(s, v, h) ==
    IF Answered(CountKey(s, v), h) THEN Count[Of(CountKey(s, v), h)][s][v.filter]
    ELSE v.page * v.size + (IF Answered(Key(s, v), h) THEN RowsOfPage(Of(Key(s, v), h), s, v) ELSE 0)
CountRead(s, v, h, otherwise) ==
    IF Answered(Key(s, v), h) THEN Count[Of(Key(s, v), h)][s][v.filter] ELSE otherwise
totalCount(s, v, h, last) ==
    CASE tab = "players" -> totalPlayers(s, v, h)
      [] tab = "maps" -> CountRead(s, v, h, 0)
      [] tab = "jumpstats" -> CountRead(s, v, h, last)
      [] OTHER -> 0

BugLeave(s, v, h, last) == v

(* The effect that leaves a page which is not there: among the maps always, *)
(* among the jumps once the page has been answered, among the players never.*)
Leave(s, v, h, last) ==
    IF tab = "maps" \/ (tab = "jumpstats" /\ Answered(Key(s, v), h))
    THEN [v EXCEPT !.page = LET p == LastPage(totalCount(s, v, h, last), v.size) IN IF @ > p THEN p ELSE @]
    ELSE v

(* The row of the spotlight is on the page shown.                           *)
OnPage(p, s, v, h) ==
    /\ tab = "players" /\ v.sort = "rating"
    /\ \E a \in h : a.key = Key(s, v) /\
        LET rank == Rank[a.of][p][s][v.filter] IN rank > 0 /\ (rank - 1) \div v.size = v.page
Ready(p, s, v, h) == IF p # Nobody /\ OnPage(p, s, v, h) THEN Nobody ELSE p

Ask(K) == {[key |-> k, since |-> standing] : k \in {l \in K : ~Answered(l, reads)}}

(* What is shown is read unless it is held; an answer of half a minute ago  *)
(* (staleTime) is shown and read anew.                                      *)
Show(s, w, mark) ==
    LET v == Leave(s, w, held, lastKnown)
        K == Keys(s, v)
    IN  /\ scope' = s /\ view' = v
        /\ spotlight' = Ready(mark, s, v, held)
        /\ \E old \in SUBSET {k \in K : Answered(k, held)} :
            reads' = reads \cup Ask({k \in K : ~Answered(k, held)} \cup old)
        /\ UNCHANGED <<tab, standing, held, failed>>

Init ==
    /\ tab \in Tabs /\ scope \in {1}
    /\ view = [filter |-> "all", sort |-> Sorts[1], desc |-> TRUE, page |-> 0, size |-> 1]
    /\ standing = 1 /\ held = {} /\ failed = {} /\ lastKnown = 0
    /\ reads = {[key |-> k, since |-> 1] : k \in Keys(scope, view)}
    /\ target \in IF tab = "players" THEN {Nobody, Me} ELSE {Nobody}
    /\ calls = IF target = Nobody THEN {} ELSE {[player |-> target, scope |-> scope, filter |-> "all", size |-> 1, since |-> 1]}
    /\ spotlight = Nobody /\ locatedIn = 1
    /\ detail = "closed"
    /\ drifted = FALSE /\ moved = FALSE
    /\ acts = Cardinality(calls)

Acts == acts < MaxActs /\ acts' = acts + 1
Searching == calls # {} \/ spotlight # Nobody

(* The reader changes what is shown; the player in the address is located   *)
(* anew for another mode or page size.                                      *)
Change(s, v) ==
    /\ Acts /\ detail = "closed" /\ Show(s, v, spotlight)
    /\ calls' = IF target # Nobody /\ Cardinality(calls) < MaxCalls /\ (s # scope \/ v.size # view.size)
                THEN calls \cup {[player |-> target, scope |-> s, filter |-> v.filter, size |-> v.size, since |-> standing]}
                ELSE calls
    /\ moved' = (moved \/ Searching)
    /\ UNCHANGED <<locatedIn, lastKnown, target, detail>>

SelectScope ==
    /\ tab # "community"
    /\ \E s \in Scopes \ {scope} : Change(s, view)
    /\ drifted' = (drifted \/ (tab = "players" /\ view.page > 0))

(* Of a country and a region, one goes when the other is chosen; friends    *)
(* exclude both, and disable them.                                          *)
PlayerFilter(f) == view.filter # "friends" \/ f = "all"

SelectFilter ==
    /\ tab \in DOMAIN Filters
    /\ \E f \in Filters[tab] \ {view.filter} :
        (tab = "players" => PlayerFilter(f)) /\ Change(scope, [view EXCEPT !.filter = f, !.page = 0])
    /\ drifted' = FALSE

resetFilters ==
    /\ tab = "maps" /\ view.filter # "all"
    /\ Change(scope, [view EXCEPT !.filter = "all", !.page = 0])
    /\ UNCHANGED drifted

(* The head of a column: always down among players and communities, the     *)
(* other way among maps and countries; the block button among the jumps.    *)
onSortingChange ==
    /\ \E i \in DOMAIN Sorts :
        LET down == tab \in {"players", "community", "jumpstats"} \/ Sorts[i] # view.sort \/ ~view.desc
            v == [view EXCEPT !.sort = Sorts[i], !.desc = down, !.page = IF tab \in {"community", "countries"} THEN @ ELSE 0]
        IN  v # view /\ Change(scope, v)
    /\ drifted' = FALSE

SetSize ==
    /\ tab \in {"players", "maps", "jumpstats"}
    /\ \E n \in Sizes \ {view.size} : Change(scope, [view EXCEPT !.size = n, !.page = 0])
    /\ drifted' = FALSE

(* The pager goes no further than the pages it knows of.                    *)
SetPage ==
    /\ tab \in {"players", "maps", "jumpstats"}
    /\ \E p \in 0 .. LastPage(totalCount(scope, view, held, lastKnown), view.size) :
        /\ p # view.page /\ Change(scope, [view EXCEPT !.page = p])
        /\ drifted' = (tab = "players" /\ p > 0 /\ \E a \in held : a.key \in Keys(scope, view) /\ a.of # standing)

(* Find me, whose button waits for the call before, or a player found by    *)
(* name, who does not.                                                      *)
Locate ==
    /\ Acts /\ tab = "players"
    /\ \E p \in Players :
        /\ Cardinality(calls) < MaxCalls /\ (p = Me => calls = {})
        /\ calls' = calls \cup
            {[player |-> p, scope |-> scope, filter |-> view.filter, size |-> view.size, since |-> standing]}
    /\ moved' = Searching
    /\ UNCHANGED <<tab, scope, view, standing, cache, lastKnown, target, spotlight, locatedIn, detail, drifted>>

BugPageOf(rank, size) == rank \div size

PageOf(rank, size) == (rank - 1) \div size

(* The server reads at some moment between the question and the answer: an  *)
(* answer is of any standing there was meanwhile.                           *)
ReadOf(q) == q.since .. standing

LocateAnswer ==
    \E c \in calls : \E n \in ReadOf(c) :
        LET rank == Rank[n][c.player][c.scope][c.filter]
        IN  /\ calls' = calls \ {c}
            /\ IF rank = 0
               THEN UNCHANGED <<tab, scope, view, standing, cache, spotlight, locatedIn, drifted>>
               ELSE /\ Show(scope, [view EXCEPT !.sort = "rating", !.desc = TRUE, !.page = PageOf(rank, c.size)], c.player)
                    /\ locatedIn' = n /\ drifted' = (drifted \/ n # standing)
            /\ UNCHANGED <<lastKnown, target, detail, moved, acts>>

LocateFails ==
    /\ Acts
    /\ \E c \in calls : calls' = calls \ {c}
    /\ UNCHANGED <<tab, scope, view, standing, cache, lastKnown, target, spotlight, locatedIn, detail, drifted, moved>>

Answer ==
    \E q \in reads : \E n \in ReadOf(q) :
        LET h == {a \in held : a.key # q.key} \cup {[key |-> q.key, of |-> n]}
            shown == q.key = Key(scope, view)
            last == IF tab = "jumpstats" /\ shown THEN Count[n][scope][view.filter] ELSE lastKnown
            v == Leave(scope, view, h, last)
            new == Keys(scope, v) \ Keys(scope, view)
        IN  /\ held' = h /\ failed' = failed \ {q.key} /\ lastKnown' = last /\ view' = v
            /\ \E old \in SUBSET {k \in new : Answered(k, h)} :
                reads' = (reads \ {q}) \cup Ask({k \in new : ~Answered(k, h)} \cup old)
            /\ spotlight' = Ready(spotlight, scope, v, h)
            /\ UNCHANGED <<tab, scope, standing, target, calls, locatedIn, moved, detail, drifted, acts>>

(* A read is given up: what was held stays, with an error.                  *)
ReadFails ==
    /\ Acts
    /\ \E q \in reads : reads' = reads \ {q} /\ failed' = failed \cup {q.key}
    /\ UNCHANGED <<tab, scope, view, standing, held, lastKnown, target, search, detail, drifted>>

(* Players come and go, and pass each other.                                *)
StandingChanges ==
    /\ Acts /\ standing + 1 \in Standings /\ standing' = standing + 1
    /\ drifted' = (drifted \/ (tab = "players" /\ view.page > 0))
    /\ UNCHANGED <<tab, scope, view, cache, lastKnown, target, search, detail>>

(* A jump's dialog: the details, and a drawing of the jump which may fail.   *)
OpenJump ==
    /\ Acts /\ tab = "jumpstats" /\ detail = "closed" /\ ~isLoading
    /\ RowsOfPage(Of(Key(scope, view), held), scope, view) > 0
    /\ detail' = "loading"
    /\ UNCHANGED <<tab, scope, view, standing, cache, lastKnown, target, search, drifted>>

JumpAnswers ==
    /\ \/ detail = "loading" /\ detail' \in {"text", "failed"}
       \/ detail = "text" /\ detail' = "drawing"
    /\ UNCHANGED <<tab, scope, view, standing, cache, lastKnown, target, search, drifted, acts>>

CloseJump ==
    /\ detail # "closed" /\ detail' = "closed"
    /\ UNCHANGED <<tab, scope, view, standing, cache, lastKnown, target, search, drifted, acts>>

Next ==
    \/ SelectScope \/ SelectFilter \/ resetFilters \/ onSortingChange \/ SetSize \/ SetPage
    \/ Locate \/ LocateAnswer \/ LocateFails
    \/ Answer \/ ReadFails \/ StandingChanges
    \/ OpenJump \/ JumpAnswers \/ CloseJump

Spec == Init /\ [][Next]_vars

BugMapBefore(a, b) ==
    LET v(r) == IF view.sort = "name" THEN r.name ELSE r.value
    IN  \/ v(a) # v(b) /\ (view.desc <=> v(a) > v(b))
        \/ v(a) = v(b) /\ a.name < b.name

(* The order of the maps, those without the value last in either direction, *)
(* and of the countries, where no rating is less than any.                  *)
MapBefore(a, b) ==
    LET v(r) == IF view.sort = "name" THEN r.name ELSE r.value
    IN  \/ v(a) > 0 /\ v(b) = 0
        \/ v(a) > 0 /\ v(b) > 0 /\ v(a) # v(b) /\ (view.desc <=> v(a) > v(b))
        \/ v(a) = v(b) /\ a.name < b.name

CountryBefore(a, b) ==
    \/ a.value # b.value /\ (view.desc <=> a.value > b.value)
    \/ a.value = b.value /\ a.name < b.name

MapPlace(r) == Cardinality({q \in Rated : MapBefore(q, r)}) + 1
CountryPlace(r) == Cardinality({q \in Rated : CountryBefore(q, r)}) + 1
CountryRank(r) == IF r.value = 0 THEN 0 ELSE Cardinality({q \in Rated : q.value > 0 /\ CountryBefore(q, r)}) + 1

TypeOK ==
    /\ tab \in Tabs /\ scope \in Scopes /\ view.page \in Nat /\ view.size \in Sizes
    /\ spotlight \in Players \cup {Nobody}
    /\ \A a, b \in held : a.key = b.key => a = b
    /\ \A q, r \in reads : q.key = r.key => q = r
    /\ \A k \in Keys(scope, view) : Answered(k, held) \/ Answered(k, reads) \/ k \in failed

Settled == reads = {} /\ calls = {}

(* A page has rows if its filter found any when it was read.  Only a later  *)
(* page of the players may be empty: it is kept although the other mode,    *)
(* or the standing that has changed meanwhile, has fewer rows.              *)
PageHasRows ==
    Settled /\ tab \in {"players", "maps", "jumpstats"} =>
        \A a \in held : a.key = Key(scope, view) /\ Count[a.of][scope][view.filter] > 0 =>
            RowsOfPage(a.of, scope, view) > 0 \/ (tab = "players" /\ (drifted \/ moved))

(* Who is located is on the page shown, unless the reader has moved on      *)
(* while the rank was asked for, the page was read of another standing than *)
(* the rank, or its read was given up.                                      *)
PlayerIsFound ==
    Settled /\ spotlight # Nobody =>
        \/ moved \/ Key(scope, view) \in failed
        \/ \E a \in held : a.key = Key(scope, view) /\ a.of # locatedIn

(* Every row has a place of its own; maps without the value come after      *)
(* those with it, and the ranks of the countries count the rated ones in    *)
(* the order they are shown in.                                             *)
RowsAreInOrder ==
    /\ tab = "maps" =>
        /\ {MapPlace(r) : r \in Rated} = 1 .. Cardinality(Rated)
        /\ view.sort # "name" => \A r, q \in Rated : r.value > 0 /\ q.value = 0 => MapPlace(r) < MapPlace(q)
    /\ tab = "countries" =>
        /\ {CountryRank(r) : r \in {q \in Rated : q.value > 0}} = 1 .. Cardinality({q \in Rated : q.value > 0})
        /\ \A r, q \in Rated : CountryRank(r) > 0 /\ CountryRank(q) > CountryRank(r) => CountryPlace(r) < CountryPlace(q)
=============================================================================
