------------------------------- MODULE MapTop -------------------------------
(***************************************************************************)
(* The leaderboard of a map: what is shown depends on the map, the type of *)
(* record, the stage, whose records are wanted and the page, and each such *)
(* view is a query of its own.  The player may ask where he stands, and a  *)
(* moderator may have the points computed anew, which takes two requests.  *)
(***************************************************************************)
EXTENDS Integers, FiniteSets

CONSTANTS
    Maps,        \* maps, 1 .. n
    Bonuses,     \* [Maps -> Nat]: bonus_count
    Standing,    \* [type -> [who -> [count, rank]]]: records and the player's rank, 0 for none
    Whose,       \* whose records: "all", "country", "region", "friends"
    Size,        \* records on a page
    MaxActs      \* bound on what the player and others do

VARIABLES
    view,        \* [map, type, stage, who, page]
    known,       \* maps that have been loaded
    passed,      \* another player has passed this one: ranks are one more
    points,      \* [type -> 0 .. 1]: how often they have been computed
    boards,      \* answers held: [key, count, rank, points, late]
    others,      \* answers about the other type: [key, rank]
    asked,       \* keys of both queries that are asked for and not read yet
    answers,     \* what the server has read for them and is under way; `late` is
                 \* history: the points were computed anew since
    stale,       \* keys of answers to be read anew when they are shown
    failed,      \* keys whose last read failed: the page says so
    spotlight,   \* pendingSpotlightSteamid64 is the player
    rebuild,     \* "idle", or the types whose points are still to be computed and the outcome
    wandered,    \* history: the player has turned the page before he was found
    partial,     \* history: one of the two requests of a rebuild has failed
    acts         \* counts towards MaxActs

server == <<passed, points>>
cache == <<boards, others, asked, answers, stale, failed>>
history == <<wandered, partial>>
vars == <<view, known, server, cache, spotlight, rebuild, history, acts>>

Types == {"NUB", "PRO"}
Other(type) == IF type = "NUB" THEN "PRO" ELSE "NUB"
Idle == [left |-> {}, phase |-> "idle"]

(* The key of the leaderboard has the page, that of the other type's rank   *)
(* has none (-1).                                                           *)
BugOtherKey(v) == [v EXCEPT !.type = Other(v.type), !.page = -1, !.who = "all"]

OtherKey(v) == [v EXCEPT !.type = Other(v.type), !.page = -1]

Board(v) == {b \in boards : b.key = v}
isLoading == Board(view) = {}

Rank(key) == LET r == Standing[key.type][key.who].rank IN IF r > 0 /\ passed THEN r + 1 ELSE r
Count(key) == LET s == Standing[key.type][key.who] IN IF s.rank > 0 /\ passed THEN s.count + 1 ELSE s.count
LastPage(count) == IF count = 0 THEN 0 ELSE (count - 1) \div Size

UnderWay == asked \cup {a.key : a \in answers}
HeldKeys(bs, os) == {b.key : b \in bs} \cup {o.key : o \in os}

(* The other type's rank is asked for when the page's answer says who asks. *)
Keys(v, bs) == {v} \cup {OtherKey(b.key) : b \in {c \in bs : c.key = v}}

(* The view v is shown: what is not held, or stale, is asked for once the   *)
(* map is known, unless it is under way.                                    *)
Wanted(v, bs, os) ==
    IF v.map \in known THEN Keys(v, bs) \ ((HeldKeys(bs, os) \ stale) \cup UnderWay) ELSE {}

(* The ranks a page of the table gives to its rows.                         *)
Rows(b) == {b.key.page * Size + i : i \in 1 .. Size} \cap 1 .. b.count

(* The player's row is on the page shown.                                   *)
Found(v, bs) == \E b \in bs : b.key = v /\ b.rank \in Rows(b)

BugClamped(v, bs) == v

(* A page that the answer about the view does not have becomes its last.    *)
Clamped(v, bs) ==
    IF \E b \in bs : b.key = v /\ v.page > LastPage(b.count)
    THEN [v EXCEPT !.page = CHOOSE p \in 0 .. v.page : \E b \in bs : b.key = v /\ p = LastPage(b.count)]
    ELSE v

Show(w, mark) ==
    LET v == Clamped(w, boards)
        W == Wanted(w, boards, others) \cup Wanted(v, boards, others)
    IN  /\ view' = v
        /\ asked' = asked \cup W
        /\ spotlight' = (mark /\ ~Found(v, boards))
        /\ UNCHANGED <<boards, others, answers, stale, failed>>

Init ==
    /\ view = [map |-> 1, type |-> "NUB", stage |-> 0, who |-> "all", page |-> 0]
    /\ known = {} /\ passed = FALSE /\ points = [t \in Types |-> 0]
    /\ boards = {} /\ others = {} /\ asked = {}
    /\ answers = {} /\ stale = {} /\ failed = {}
    /\ spotlight = FALSE /\ rebuild = Idle
    /\ wandered = FALSE /\ partial = FALSE
    /\ acts = 0

Acts == acts < MaxActs /\ acts' = acts + 1

(* The stage is dropped when the map has fewer bonuses, the one being       *)
(* loaded none.                                                             *)
Staged(v, k) == IF v.map \in k /\ v.stage <= Bonuses[v.map] THEN v ELSE [v EXCEPT !.stage = 0, !.page = IF v.stage = 0 THEN v.page ELSE 0]

OpenMap ==
    /\ Acts
    /\ \E m \in Maps \ {view.map} : Show(Staged([view EXCEPT !.map = m], known), spotlight)
    /\ wandered' = (wandered \/ spotlight')
    /\ UNCHANGED <<known, server, rebuild, partial>>

LoadMap ==
    /\ view.map \notin known /\ known' = known \cup {view.map}
    /\ asked' = asked \cup ({view} \ UnderWay)
    /\ UNCHANGED <<view, server, boards, others, answers, stale, failed, spotlight, rebuild, history, acts>>

Shown == Acts /\ view.map \in known

SelectStage ==
    /\ Shown
    /\ \E s \in 0 .. Bonuses[view.map] : s # view.stage /\ Show([view EXCEPT !.stage = s, !.page = 0], FALSE)
    /\ wandered' = FALSE
    /\ UNCHANGED <<known, server, rebuild, partial>>

(* A country takes the place of a region and the other way round; both are  *)
(* off among friends.  The page stays.                                      *)
SelectPlace ==
    /\ Shown /\ view.who # "friends"
    /\ \E w \in Whose \ {"friends", view.who} : Show([view EXCEPT !.who = w], FALSE)
    /\ wandered' = FALSE
    /\ UNCHANGED <<known, server, rebuild, partial>>

ToggleFriends ==
    /\ Shown
    /\ "friends" \in Whose
    /\ Show([view EXCEPT !.who = IF view.who = "friends" THEN "all" ELSE "friends", !.page = 0], FALSE)
    /\ wandered' = FALSE
    /\ UNCHANGED <<known, server, rebuild, partial>>

SelectType ==
    /\ Shown
    /\ Show([view EXCEPT !.type = Other(view.type)], FALSE)
    /\ wandered' = FALSE
    /\ UNCHANGED <<known, server, rebuild, partial>>

TurnPage ==
    /\ Shown /\ ~isLoading
    /\ \E b \in Board(view), p \in 0 .. LastPage(Count(view)) :
        p <= LastPage(b.count) /\ p # view.page /\ Show([view EXCEPT !.page = p], spotlight)
    /\ wandered' = (wandered \/ spotlight')
    /\ UNCHANGED <<known, server, rebuild, partial>>

BugPageOf(rank) == rank \div Size

PageOf(rank) == (rank - 1) \div Size

handleFindMe ==
    /\ Shown
    /\ \E b \in Board(view) : b.rank > 0 /\ Show([view EXCEPT !.page = PageOf(b.rank)], TRUE)
    /\ wandered' = FALSE
    /\ UNCHANGED <<known, server, rebuild, partial>>

(* The server reads what was asked for: the page and the rank, as they are  *)
(* at that moment.                                                          *)
Read ==
    \E key \in asked :
        /\ asked' = asked \ {key}
        /\ answers' = answers \cup
            {[key |-> key, count |-> Count(key), rank |-> Rank(key), points |-> points[key.type], late |-> FALSE]}
        /\ UNCHANGED <<view, known, server, boards, others, stale, failed, spotlight, rebuild, history, acts>>

(* An answer about a page arrives; what it says may take the reader to the  *)
(* last page, and who asks is known from it.                                *)
AnswerBoard ==
    \E a \in {c \in answers : c.key.page >= 0} :
        LET bs == {c \in boards : c.key # a.key} \cup {a}
            v == Clamped(view, bs)
        IN  /\ view' = v /\ boards' = bs /\ answers' = answers \ {a}
            /\ stale' = stale \ {a.key} /\ failed' = failed \ {a.key}
            /\ asked' = asked \cup (IF a.key = view THEN Wanted(v, bs, others) \ {a.key} ELSE {})
            /\ spotlight' = (spotlight /\ ~Found(v, bs))
            /\ UNCHANGED <<known, server, others, rebuild, history, acts>>

AnswerOther ==
    \E a \in {c \in answers : c.key.page = -1} :
        /\ others' = {o \in others : o.key # a.key} \cup {[key |-> a.key, rank |-> a.rank]}
        /\ answers' = answers \ {a} /\ stale' = stale \ {a.key} /\ failed' = failed \ {a.key}
        /\ UNCHANGED <<view, known, server, boards, asked, spotlight, rebuild, history, acts>>

(* A read fails and is not tried again (retry: false): what is held stays,  *)
(* under a warning.                                                         *)
ReadFails ==
    /\ Acts
    /\ \E key \in asked : asked' = asked \ {key} /\ failed' = failed \cup {key}
    /\ UNCHANGED <<view, known, server, boards, others, answers, stale, spotlight, rebuild, history>>

(* Recompute PB points: one request for each type, of which one may fail.   *)
Rebuild ==
    /\ Shown /\ rebuild = Idle
    /\ rebuild' = [left |-> Types, phase |-> "sent"]
    /\ UNCHANGED <<view, known, server, cache, spotlight, history>>

RebuildType ==
    /\ rebuild.phase = "sent"
    /\ \E t \in rebuild.left :
        /\ points[t] = 0 /\ points' = [points EXCEPT ![t] = 1]
        /\ rebuild' = [rebuild EXCEPT !.left = @ \ {t}]
    /\ UNCHANGED <<view, known, passed, cache, spotlight, history, acts>>

(* The mutation fails as soon as one request does; the other goes on, and   *)
(* nothing is read anew.                                                    *)
RebuildFails ==
    /\ Acts /\ rebuild.phase = "sent" /\ rebuild.left # {}
    /\ rebuild' = Idle /\ partial' = TRUE
    /\ \E t \in rebuild.left : points' \in {points, [u \in Types |-> IF u \in rebuild.left \ {t} THEN 1 ELSE points[u]]}
    /\ UNCHANGED <<view, known, passed, cache, spotlight, wandered>>

BugRefetched == {}

(* What is shown and held is read anew, a read under way given up for it; a *)
(* first read under way, with nothing held yet, goes on.                    *)
Refetched == {k \in Keys(view, boards) : k \in HeldKeys(boards, others) \/ k \notin UnderWay}

(* Everything that was read of the leaderboards is to be read anew, what is *)
(* not shown when it is.                                                    *)
RebuildDone ==
    /\ rebuild.phase = "sent" /\ rebuild.left = {} /\ rebuild' = Idle
    /\ asked' = asked \cup Refetched
    /\ answers' = {[a EXCEPT !.late = TRUE] : a \in {c \in answers : c.key \notin Refetched}}
    /\ stale' = stale \cup HeldKeys(boards, others)
    /\ UNCHANGED <<view, known, server, boards, others, failed, spotlight, history, acts>>

(* Another player's record puts this one a rank down.                       *)
Pass ==
    /\ Acts /\ ~passed /\ passed' = TRUE
    /\ UNCHANGED <<view, known, points, cache, spotlight, rebuild, history>>

Next ==
    \/ OpenMap \/ LoadMap \/ SelectStage \/ SelectPlace \/ ToggleFriends \/ SelectType \/ TurnPage \/ handleFindMe
    \/ Read \/ AnswerBoard \/ AnswerOther \/ ReadFails
    \/ Rebuild \/ RebuildType \/ RebuildFails \/ RebuildDone \/ Pass

Spec == Init /\ [][Next]_vars

(* nubRank and proRank: this type's from the page's answer, the other's from*)
(* a query of its own.                                                      *)
RankShown(type) ==
    IF type = view.type THEN {b.rank : b \in Board(view)} ELSE {o.rank : o \in {p \in others : p.key = OtherKey(view)}}

TypeOK ==
    /\ view.map \in Maps /\ view.type \in Types /\ view.who \in Whose /\ view.page \in 0 .. LastPage(10)
    /\ view.stage \in 0 .. Bonuses[view.map]
    /\ points \in [Types -> 0 .. 1]
    /\ \A a \in answers : a.key \notin asked /\ \A c \in answers : c.key = a.key => c = a
    /\ stale \subseteq HeldKeys(boards, others)

Settled == view.map \in known /\ asked = {} /\ answers = {}

(* Who asks where he is sees the page with his row, unless he was passed,   *)
(* has turned the page meanwhile, or the page could not be read, which is   *)
(* said.                                                                    *)
MeIsFound == Settled /\ spotlight => passed \/ wandered \/ view \in failed

(* The two ranks are those of their types under the filters shown.          *)
RanksAreMine ==
    Settled => \A t \in Types : \A r \in RankShown(t) : r = Rank([view EXCEPT !.type = t]) \/ passed

(* The page has records if the leaderboard has, and their points are those  *)
(* last computed, unless half a computation has failed, the page was read   *)
(* for the first time while they were computed, or it could not be read     *)
(* anew, which is said.                                                     *)
PageIsTrue ==
    Settled => \A b \in Board(view) :
        /\ view.page <= LastPage(b.count)
        /\ b.points = points[view.type] \/ partial \/ rebuild # Idle \/ b.late \/ view \in failed
=============================================================================
