--------------------------- MODULE ReviewsAndNews ---------------------------
(***************************************************************************)
(* What players write and what is new.  The dialog of a review is filled by *)
(* two queries and again whenever what they hold changes; the lists of      *)
(* reviews are moderated row by row; the comments of a profile are paged;   *)
(* the dots of the sidebar compare the newest of a kind with the last visit *)
(* of the browser; the wall of videos grows by cursor while its view counts *)
(* are refreshed behind it.                                                 *)
(***************************************************************************)
EXTENDS Integers, Sequences, FiniteSets, SequencesExt

CONSTANTS
    Reviews,     \* the reviews of the list, newest first: [id, lang, comment]
    PAGE_SIZE,
    Posts,       \* the videos, newest first, a natural each
    MaxActs      \* bound on what people do and what goes wrong

VARIABLES
    part,        \* "review", "desk", "comments", "news" or "media"
    site, game, newer,       \* the server: the reviews of the site and of the game, and which is the newer
    held, loading, broken,   \* the answers of the two queries, those under way, those that failed last
    open, form, saving, deleting, cleared,   \* the dialog, its fields, the payload, the deletion and its answer
    typed,       \* history: the fields as typed last, or as refilled for a reason named below
    list, view, answers, stale, reading, refused, confirming, removing,   \* the list of reviews, its page and reads
    shrunk, unheard,         \* history: rows went since the page was chosen; the pages that may be older
    wall, turn, told, asked, given, expired, failed, text, posting, killing,   \* the comments of a profile, its page
    passed,      \* history: the pages that may be older
    kind, skew, blocked, now, newest, got, visited, stored, memory, away,   \* the dots of the sidebar
    seen,        \* history: the time of the last visit this tab has to know of
    counts, sort, pages, fetching, submitted, refreshing,        \* the videos
    overtaken,   \* history: counts that came were lost again
    acts

review == <<site, game, newer, held, loading, broken, open, form, saving, deleting, cleared, typed>>
desk == <<list, view, answers, stale, reading, refused, confirming, removing, shrunk, unheard>>
comments == <<wall, turn, told, asked, given, expired, failed, text, posting, killing, passed>>
news == <<kind, skew, blocked, now, newest, got, visited, stored, memory, away, seen>>
media == <<counts, sort, pages, fetching, submitted, refreshing, overtaken>>
vars == <<part, review, desk, comments, news, media, acts>>

Acts(p) == part = p /\ acts < MaxActs /\ acts' = acts + 1 /\ UNCHANGED part
Only(p) == part = p /\ UNCHANGED <<part, acts>>
KeepReview == UNCHANGED <<desk, comments, news, media>>
KeepDesk == UNCHANGED <<review, comments, news, media>>
KeepComments == UNCHANGED <<review, desk, news, media>>
KeepNews == UNCHANGED <<review, desk, comments, media>>
KeepMedia == UNCHANGED <<review, desk, comments, news>>

-----------------------------------------------------------------------------
(* The dialog: a review is an overall rating and a comment, 0 for none.     *)

NoReview == [overall |-> 0, comment |-> 0]
Unknown == [overall |-> -1, comment |-> 0]
DEFAULT_FORM_VALUES == [overall |-> 3, comment |-> 0]
Queries == {"latest", "website"}

reviewToFormValues(r) == IF r = NoReview THEN DEFAULT_FORM_VALUES ELSE r

Latest(s, g, n) == IF s = NoReview THEN g ELSE IF g = NoReview THEN s ELSE IF n = "site" THEN s ELSE g
Answer(q) == IF q = "website" THEN site ELSE Latest(site, game, newer)

BugpreferredReview(h) == IF h["latest"] # NoReview THEN <<"latest", h["latest"]>> ELSE <<"website", h["website"]>>

preferredReview(h) == IF h["website"] # NoReview THEN <<"website", h["website"]>> ELSE <<"latest", h["latest"]>>

hasAnyExistingReview == held["latest"] # NoReview
reviewQueriesLoading(h, b) == \E q \in Queries : h[q] = Unknown /\ q \notin b

(* The effect fills the form when what it depends on is another object: the *)
(* equal answer of a refetch is the same one, that of the other query not.  *)
Dependencies(o, h, b) == <<o, preferredReview(h), b # {}, reviewQueriesLoading(h, b)>>

BugRefills(o, h, b, was) == o /\ ~reviewQueriesLoading(h, b) /\ b = {}

Refills(o, h, b, was) == o /\ ~reviewQueriesLoading(h, b) /\ b = {} /\ was # Dependencies(o, h, b)

(* The reasons for which what was typed is replaced: the review changed     *)
(* elsewhere, a query had failed, a save or a deletion was done.            *)
Replaced ==
    \/ broken # {} \/ saving = NoReview \/ deleting = "refreshing"
    \/ preferredReview(held) # preferredReview([q \in Queries |-> Answer(q)])

setFormValues(o, h, b, was) ==
    LET refill == Refills(o, h, b, was)
        f == reviewToFormValues(preferredReview(h)[2])
    IN /\ form' = IF ~o THEN DEFAULT_FORM_VALUES ELSE IF refill THEN f ELSE form
       /\ typed' = IF ~o THEN Unknown ELSE IF refill /\ typed # Unknown /\ Replaced THEN f ELSE typed

Deps == Dependencies(open, held, broken)

ReviewInit ==
    /\ site \in (IF part = "review" THEN {NoReview, [overall |-> 1, comment |-> 1]} ELSE {NoReview})
    /\ game \in (IF part = "review" THEN {NoReview, [overall |-> 2, comment |-> 2]} ELSE {NoReview})
    /\ newer \in (IF site # NoReview /\ game # NoReview THEN {"site", "game"} ELSE {"site"})
    /\ held = [q \in Queries |-> Unknown] /\ loading = {} /\ broken = {}
    /\ open = FALSE /\ form = DEFAULT_FORM_VALUES /\ saving = Unknown /\ deleting = "none" /\ cleared = Unknown
    /\ typed = Unknown

Server == <<site, game, newer>>

(* Opening enables the queries, which are stale at once.                    *)
onOpenChange ==
    /\ Acts("review") /\ KeepReview
    /\ open' = ~open /\ setFormValues(~open, held, broken, Deps)
    /\ loading' = (IF open THEN loading ELSE Queries)
    /\ deleting' = (IF deleting = "asked" THEN "none" ELSE deleting)
    /\ cleared' = (IF deleting = "refreshing" THEN cleared ELSE Unknown)
    /\ UNCHANGED <<Server, held, broken, saving>>

ReadReview ==
    /\ Only("review") /\ KeepReview
    /\ \E q \in loading :
        /\ held' = [held EXCEPT ![q] = Answer(q)] /\ loading' = loading \ {q} /\ broken' = broken \ {q}
        /\ setFormValues(open, held', broken', Deps)
    /\ UNCHANGED <<Server, open, saving, deleting, cleared>>

ReadFails ==
    /\ Acts("review") /\ KeepReview
    /\ \E q \in loading : loading' = loading \ {q} /\ broken' = broken \cup {q}
    /\ UNCHANGED <<Server, held, open, form, saving, deleting, cleared, typed>>

RefocusDialog ==
    /\ Acts("review") /\ KeepReview /\ open /\ loading = {} /\ loading' = Queries
    /\ UNCHANGED <<Server, held, broken, open, form, saving, deleting, cleared, typed>>

ShowsForm == open /\ broken = {} /\ ~reviewQueriesLoading(held, broken)

setRating ==
    /\ Acts("review") /\ KeepReview /\ ShowsForm
    /\ \/ form.overall # 5 /\ form' = [form EXCEPT !.overall = 5]
       \/ \E c \in {0, 3} : form.comment # c /\ form' = [form EXCEPT !.comment = c]
    /\ typed' = form'
    /\ UNCHANGED <<Server, held, loading, broken, open, saving, deleting, cleared>>

handleSubmit ==
    /\ Acts("review") /\ KeepReview /\ ShowsForm /\ saving = Unknown /\ deleting = "none" /\ saving' = form
    /\ UNCHANGED <<Server, held, loading, broken, open, form, deleting, cleared, typed>>

(* The success writes both answers, asks for them again and closes the      *)
(* dialog when they are there, whatever was typed or opened by then.        *)
SaveSucceeds ==
    /\ Only("review") /\ KeepReview /\ saving \notin {Unknown, NoReview}
    /\ site' = saving /\ newer' = "site" /\ held' = [q \in Queries |-> saving] /\ broken' = {}
    /\ loading' = (IF open THEN Queries ELSE loading) /\ saving' = (IF open THEN NoReview ELSE Unknown)
    /\ LET f == reviewToFormValues(saving) IN
        /\ form' = (IF open /\ Deps # Dependencies(open, held', {}) THEN f ELSE form)
        /\ typed' = (IF open /\ typed # Unknown THEN form' ELSE typed)
    /\ UNCHANGED <<game, open, deleting, cleared>>

SaveCloses ==
    /\ Only("review") /\ KeepReview /\ saving = NoReview /\ loading = {}
    /\ saving' = Unknown /\ open' = FALSE /\ setFormValues(FALSE, held, broken, Deps)
    /\ deleting' = (IF deleting = "asked" THEN "none" ELSE deleting)
    /\ UNCHANGED <<Server, held, loading, broken, cleared>>

SaveFails ==
    /\ Acts("review") /\ KeepReview /\ saving \notin {Unknown, NoReview} /\ saving' = Unknown
    /\ UNCHANGED <<Server, held, loading, broken, open, form, deleting, cleared, typed>>

setDeleteConfirmationOpen ==
    /\ Acts("review") /\ KeepReview /\ ShowsForm /\ hasAnyExistingReview /\ saving = Unknown
    /\ deleting \in {"none", "asked"} /\ deleting' = IF deleting = "none" THEN "asked" ELSE "none"
    /\ UNCHANGED <<Server, held, loading, broken, open, form, saving, cleared, typed>>

mutateDelete ==
    /\ Only("review") /\ KeepReview /\ deleting = "asked" /\ deleting' = "sent"
    /\ UNCHANGED <<Server, held, loading, broken, open, form, saving, cleared, typed>>

(* Every comment of the player on the map goes, the ratings stay, and what  *)
(* had a comment is the newest.                                             *)
Without(r) == [r EXCEPT !.comment = 0]
deleteMapReviewComments ==
    /\ Only("review") /\ KeepReview /\ deleting = "sent"
    /\ site' = Without(site) /\ game' = Without(game)
    /\ newer' \in (IF site.comment # 0 /\ game.comment # 0 THEN {"site", "game"} ELSE IF site.comment # 0 THEN {"site"} ELSE IF game.comment # 0 THEN {"game"} ELSE {newer})
    /\ cleared' = Latest(site', game', newer')
    /\ deleting' = (IF open THEN "refreshing" ELSE "none") /\ loading' = (IF open THEN Queries ELSE loading)
    /\ UNCHANGED <<held, broken, open, form, saving, typed>>

DeleteFails ==
    /\ Acts("review") /\ KeepReview /\ deleting = "sent" /\ deleting' = "none"
    /\ UNCHANGED <<Server, held, loading, broken, open, form, saving, cleared, typed>>

(* The form then takes the answer of the deletion, the newest of the two    *)
(* reviews, where it was filled by that of the site.                        *)
DeleteDone ==
    /\ Only("review") /\ KeepReview /\ deleting = "refreshing" /\ loading = {}
    /\ deleting' = "none" /\ form' = reviewToFormValues(cleared) /\ typed' = Unknown
    /\ UNCHANGED <<Server, held, loading, broken, open, saving, cleared>>

(* The player reviews in the game or in another tab.                        *)
ReviewedElsewhere ==
    /\ Acts("review") /\ KeepReview
    /\ \/ game' = [overall |-> 4, comment |-> 0] /\ newer' = "game" /\ game' # game /\ UNCHANGED site
       \/ site' = [overall |-> 4, comment |-> 0] /\ newer' = "site" /\ site' # site /\ UNCHANGED game
    /\ UNCHANGED <<held, loading, broken, open, form, saving, deleting, cleared, typed>>

-----------------------------------------------------------------------------
(* The lists of reviews: of the dashboard, with a language, and of a map.   *)

NoPage == [rows |-> <<>>, count |-> -1]
NoRow == 0
FirstView == [page |-> 0, only |-> TRUE, lang |-> "all"]

readMapReviews(v) ==
    LET s == SelectSeq(list, LAMBDA r : (v.only \/ v.lang # "all" => r.comment) /\ (v.lang # "all" => r.lang = v.lang))
        f == v.page * PAGE_SIZE + 1
    IN [rows |-> SubSeq(s, f, IF f + PAGE_SIZE - 1 < Len(s) THEN f + PAGE_SIZE - 1 ELSE Len(s)), count |-> Len(s)]

rows == IF view \in DOMAIN answers THEN answers[view].rows ELSE <<>>
totalCount == IF view \in DOMAIN answers THEN answers[view].count ELSE 0

DeskInit ==
    /\ list = Reviews /\ view = FirstView /\ answers = [v \in {} |-> NoPage] /\ stale = {} /\ refused = {}
    /\ reading = (IF part = "desk" THEN {[view |-> FirstView, page |-> NoPage]} ELSE {})
    /\ confirming = NoRow /\ removing = NoRow /\ shrunk = FALSE /\ unheard = {}

(* A page that could not be read shows the error alone.                     *)
ShowsRows == view \notin refused
Reads(v) == {r \in reading : r.view = v}

AskRows(v) ==
    /\ reading' = (IF Reads(v) = {} THEN reading \cup {[view |-> v, page |-> NoPage]} ELSE reading)
    /\ refused' = (IF v \in DOMAIN answers THEN refused ELSE refused \ {v})

Show(v) ==
    /\ ShowsRows /\ view' = v /\ v # view
    /\ IF v \notin DOMAIN answers \/ v \in stale \cup refused THEN AskRows(v) ELSE UNCHANGED <<reading, refused>>
    /\ confirming' = (IF v \in DOMAIN answers /\ \E i \in DOMAIN answers[v].rows : answers[v].rows[i].id = confirming THEN confirming ELSE NoRow)
    /\ shrunk' = (v.page > 0 /\ (shrunk \/ view \in unheard))
    /\ UNCHANGED <<list, answers, stale, removing, unheard>>

handleCommentsOnlyChange ==
    /\ Acts("desk") /\ KeepDesk
    /\ Show([page |-> 0, only |-> ~view.only, lang |-> IF view.only THEN "all" ELSE view.lang])

BughandleLanguageChange(l) == [view EXCEPT !.lang = l]

handleLanguageChange(l) == [view EXCEPT !.lang = l, !.page = 0]

setLanguagePreset ==
    /\ Acts("desk") /\ KeepDesk
    /\ \E l \in {"all", "en"} : Show(handleLanguageChange(l))

onPageChange ==
    /\ Acts("desk") /\ KeepDesk
    /\ \E p \in {view.page - 1, view.page + 1} : p >= 0 /\ p * PAGE_SIZE < totalCount /\ Show([view EXCEPT !.page = p])

ReadRows ==
    /\ Only("desk") /\ KeepDesk
    /\ \E r \in reading :
        /\ r.page = NoPage /\ reading' = (reading \ {r}) \cup {[r EXCEPT !.page = readMapReviews(r.view)]}
        /\ unheard' = unheard \ {r.view}
    /\ UNCHANGED <<list, view, answers, stale, refused, confirming, removing, shrunk>>

RowsArrive ==
    /\ Only("desk") /\ KeepDesk
    /\ \E r \in reading :
        /\ r.page # NoPage /\ reading' = reading \ {r}
        /\ answers' = [v \in DOMAIN answers \cup {r.view} |-> IF v = r.view THEN r.page ELSE answers[v]]
        /\ stale' = stale \ {r.view} /\ refused' = refused \ {r.view}
        /\ confirming' = IF r.view # view \/ \E i \in DOMAIN r.page.rows : r.page.rows[i].id = confirming /\ r.page.rows[i].comment THEN confirming ELSE NoRow
    /\ UNCHANGED <<list, view, removing, shrunk, unheard>>

RowsFail ==
    /\ Acts("desk") /\ KeepDesk
    /\ \E r \in reading :
        /\ reading' = reading \ {r} /\ refused' = refused \cup {r.view}
        /\ confirming' = IF r.view = view THEN NoRow ELSE confirming
    /\ UNCHANGED <<list, view, answers, stale, removing, shrunk, unheard>>

RefocusRows ==
    /\ Acts("desk") /\ KeepDesk /\ AskRows(view)
    /\ UNCHANGED <<list, view, answers, stale, confirming, removing, shrunk, unheard>>

(* The confirmation belongs to the row, and goes with it.                   *)
setConfirmationOpen ==
    /\ Acts("desk") /\ KeepDesk /\ ShowsRows /\ removing = NoRow
    /\ IF confirming # NoRow THEN confirming' = NoRow
       ELSE \E i \in DOMAIN rows : rows[i].comment /\ confirming' = rows[i].id
    /\ UNCHANGED <<list, view, answers, stale, reading, refused, removing, shrunk, unheard>>

mutateRemove ==
    /\ Only("desk") /\ KeepDesk /\ confirming # NoRow /\ removing = NoRow /\ removing' = confirming
    /\ UNCHANGED <<list, view, answers, stale, reading, refused, confirming, shrunk, unheard>>


Invalidate == DOMAIN answers

(* The page shown is read again; a first read, or that of a page not shown, *)
(* is kept with what the server may have read for it before.                *)
RemoveSucceeds ==
    /\ Only("desk") /\ KeepDesk /\ removing # NoRow /\ removing' = NoRow
    /\ list' = [i \in DOMAIN list |-> IF list[i].id = removing THEN [list[i] EXCEPT !.comment = FALSE] ELSE list[i]]
    /\ stale' = stale \cup Invalidate /\ confirming' = NoRow /\ shrunk' = TRUE
    /\ LET kept == IF view \in DOMAIN answers THEN reading \ Reads(view) ELSE reading IN
        /\ reading' = (IF \E r \in kept : r.view = view THEN kept ELSE kept \cup {[view |-> view, page |-> NoPage]})
        /\ unheard' = unheard \cup {r.view : r \in {x \in kept : x.page # NoPage}}
        /\ refused' = (IF view \in DOMAIN answers THEN refused ELSE refused \ {view})
    /\ UNCHANGED <<view, answers>>

RemoveFails ==
    /\ Acts("desk") /\ KeepDesk /\ removing # NoRow /\ removing' = NoRow
    /\ UNCHANGED <<list, view, answers, stale, reading, refused, confirming, shrunk, unheard>>

(* A player takes a comment back: nobody tells the list.                    *)
CommentedElsewhere ==
    /\ Acts("desk") /\ KeepDesk
    /\ \E i \in DOMAIN list : list[i].comment /\ list' = [list EXCEPT ![i].comment = FALSE]
    /\ unheard' = unheard \cup DOMAIN answers \cup {r.view : r \in reading} /\ shrunk' = TRUE
    /\ UNCHANGED <<view, answers, stale, reading, refused, confirming, removing>>

-----------------------------------------------------------------------------
(* The comments of a profile: a page not yet read counts no comments, so    *)
(* the clamp takes the reader back to the first page; the answer is kept    *)
(* for the next try.                                                        *)

CanDelete(c) == c > 0
offset(t) == t.page * t.size
getProfileComments(t) ==
    [rows |-> SubSeq(wall, offset(t) + 1, IF offset(t) + t.size < Len(wall) THEN offset(t) + t.size ELSE Len(wall)), count |-> Len(wall)]

wallCount(t, a) == IF t \in DOMAIN a THEN a[t].count ELSE 0
pageCount(t, a) == IF wallCount(t, a) = 0 THEN 1 ELSE (wallCount(t, a) + t.size - 1) \div t.size

BugClamped(t, a) == t

Clamped(t, a) ==
    LET last == [t EXCEPT !.page = pageCount(t, a) - 1] IN
    IF t.page < pageCount(t, a) THEN t ELSE IF last.page < pageCount(last, a) THEN last ELSE [t EXCEPT !.page = 0]

CommentsInit ==
    /\ wall = <<1, -2, 3>> /\ turn = [page |-> 0, size |-> 1] /\ told = [t \in {} |-> NoPage]
    /\ asked = (IF part = "comments" THEN {turn} ELSE {}) /\ given = [t \in {} |-> NoPage] /\ expired = {} /\ failed = {}
    /\ text = 0 /\ posting = 0 /\ killing = 0 /\ passed = {}

ShowsComments == turn \in DOMAIN told /\ turn \notin failed

(* A page that is shown is asked for unless its answer is still fresh; so   *)
(* are those that are shown only until the clamp.                           *)
Due(t) == t \notin DOMAIN told \/ t \in expired
Turn(t) ==
    LET u == Clamped(t, told)
        v == [t EXCEPT !.page = pageCount(t, told) - 1]
    IN turn' = u /\ asked' = asked \cup {x \in (IF u = t THEN {t} ELSE {t, u, v}) : Due(x)}

setPageIndex ==
    /\ Acts("comments") /\ KeepComments /\ ShowsComments
    /\ \E p \in {turn.page - 1, turn.page + 1} : p \in 0 .. pageCount(turn, told) - 1 /\ Turn([turn EXCEPT !.page = p])
    /\ UNCHANGED <<wall, told, given, expired, failed, text, posting, killing, passed>>

onPageSizeChange ==
    /\ Acts("comments") /\ KeepComments /\ ShowsComments /\ Turn([page |-> 0, size |-> 3 - turn.size])
    /\ UNCHANGED <<wall, told, given, expired, failed, text, posting, killing, passed>>

ReadComments ==
    /\ Only("comments") /\ KeepComments
    /\ \E t \in asked \ DOMAIN given :
        /\ given' = [v \in DOMAIN given \cup {t} |-> IF v = t THEN getProfileComments(t) ELSE given[v]]
        /\ passed' = passed \ {t}
    /\ UNCHANGED <<wall, turn, told, asked, expired, failed, text, posting, killing>>

CommentsArrive ==
    /\ Only("comments") /\ KeepComments
    /\ \E t \in DOMAIN given :
        LET a == [v \in DOMAIN told \cup {t} |-> IF v = t THEN given[t] ELSE told[v]]
            u == Clamped(turn, a)
        IN /\ told' = a /\ turn' = u /\ expired' = expired \ {t} /\ failed' = failed \ {t}
           /\ given' = [v \in DOMAIN given \ {t} |-> given[v]]
           /\ asked' = (asked \ {t}) \cup (IF u # turn /\ (u \notin DOMAIN a \/ u \in expired) THEN {u} ELSE {})
    /\ UNCHANGED <<wall, text, posting, killing, passed>>

ReadCommentsFails ==
    /\ Acts("comments") /\ KeepComments
    /\ \E t \in asked \ DOMAIN given : asked' = asked \ {t} /\ failed' = failed \cup {t}
    /\ UNCHANGED <<wall, turn, told, given, expired, text, posting, killing, passed>>

RefocusComments ==
    /\ Acts("comments") /\ KeepComments /\ asked' = asked \cup {turn}
    /\ UNCHANGED <<wall, turn, told, given, expired, failed, text, posting, killing, passed>>

setText ==
    /\ Acts("comments") /\ KeepComments /\ ShowsComments
    /\ \E x \in {7, 8} : x # text /\ text' = x
    /\ UNCHANGED <<wall, turn, told, asked, given, expired, failed, posting, killing, passed>>

submitComment ==
    /\ Only("comments") /\ KeepComments /\ ShowsComments /\ posting = 0 /\ text # 0 /\ posting' = text
    /\ UNCHANGED <<wall, turn, told, asked, given, expired, failed, text, killing, passed>>

(* The page shown is asked for anew; a first read, or that of another page, *)
(* is kept with what the server may have read for it before.                *)
Restarted ==
    /\ asked' = asked \cup {turn, turn'}
    /\ given' = [t \in {x \in DOMAIN given : x # turn \/ x \notin DOMAIN told} |-> given[t]]
    /\ passed' = passed \cup DOMAIN given'

BuginvalidateComments == Restarted /\ expired' = expired \cup {turn'}

(* Every page that was read expires.                                        *)
invalidateComments == Restarted /\ expired' = expired \cup DOMAIN told

(* The box is emptied of what it holds by then, sent or not.                *)
SubmitSucceeds ==
    /\ Only("comments") /\ KeepComments /\ posting # 0
    /\ wall' = <<posting>> \o wall /\ posting' = 0 /\ text' = 0
    /\ turn' = [turn EXCEPT !.page = 0] /\ invalidateComments
    /\ UNCHANGED <<told, failed, killing>>

SubmitFails ==
    /\ Acts("comments") /\ KeepComments /\ posting # 0 /\ posting' = 0
    /\ UNCHANGED <<wall, turn, told, asked, given, expired, failed, text, killing, passed>>

(* A comment is deleted by its author, one at a time.                       *)
onDelete ==
    /\ Acts("comments") /\ KeepComments /\ ShowsComments /\ killing = 0
    /\ \E i \in DOMAIN told[turn].rows : CanDelete(told[turn].rows[i]) /\ killing' = told[turn].rows[i]
    /\ UNCHANGED <<wall, turn, told, asked, given, expired, failed, text, posting, passed>>

DeleteSucceeds ==
    /\ Only("comments") /\ KeepComments /\ killing # 0 /\ killing' = 0
    /\ wall' = SelectSeq(wall, LAMBDA c : c # killing)
    /\ UNCHANGED turn /\ invalidateComments
    /\ UNCHANGED <<told, failed, text, posting>>

DeleteCommentFails ==
    /\ Acts("comments") /\ KeepComments /\ killing # 0 /\ killing' = 0
    /\ UNCHANGED <<wall, turn, told, asked, given, expired, failed, text, posting, passed>>

(* Another player takes a comment back.                                     *)
WallChanges ==
    /\ Acts("comments") /\ KeepComments /\ -2 \in ToSet(wall)
    /\ wall' = SelectSeq(wall, LAMBDA c : c # -2) /\ passed' = passed \cup DOMAIN told \cup DOMAIN given
    /\ UNCHANGED <<turn, told, asked, given, expired, failed, text, posting, killing>>

-----------------------------------------------------------------------------
(* The dots of the sidebar: when the newest of a kind was made, by the      *)
(* clock of the server, and when the browser last visited, by its own.      *)

Never == -1
Clock == now + skew
Remember(t) == /\ memory' = t /\ stored' = IF blocked THEN stored ELSE t

(* saveLastVisitedAt keeps the visit of the maps in memory too, and makes   *)
(* the first look a visit; the others forget where storage is blocked.      *)
BuggetLastVisitedAt(s, m) == IF m # Never THEN m ELSE IF kind = "maps" /\ s = Never THEN Clock ELSE s

getLastVisitedAt(s, m) ==
    CASE ~blocked /\ s # Never -> s
      [] kind # "maps" -> Never
      [] m # Never -> m
      [] OTHER -> Clock

NewsInit ==
    /\ kind \in (IF part = "news" THEN {"maps", "media", "polls"} ELSE {"maps"})
    /\ skew \in (IF part = "news" THEN {-1, 0, 1} ELSE {0}) /\ blocked \in (IF part = "news" THEN BOOLEAN ELSE {FALSE})
    /\ now = 2 /\ newest = 1 /\ got = Never /\ away = TRUE
    /\ stored \in (IF part # "news" THEN {0} ELSE IF kind = "maps" /\ ~blocked THEN {0, Clock} ELSE {Never, 0})
    /\ memory = (IF kind = "maps" THEN IF ~blocked THEN stored ELSE Clock ELSE Never)
    /\ visited = getLastVisitedAt(stored, memory) /\ seen = (IF visited = Clock THEN now ELSE visited)

Tick == now < 4 /\ now' = now + 1

(* Something is listed, made now or a while ago.                            *)
Listed ==
    /\ Acts("news") /\ KeepNews
    /\ \E t \in {now - 1, now} : newest' = (IF t > newest THEN t ELSE newest)
    /\ Tick \/ UNCHANGED now
    /\ UNCHANGED <<kind, skew, blocked, got, visited, stored, memory, away, seen>>

(* The maps are asked for since the last visit, the others for the newest.  *)
SidebarAnswer ==
    /\ Only("news") /\ KeepNews
    /\ got' = (IF kind = "maps" /\ newest <= visited THEN 0 ELSE newest)
    /\ UNCHANGED <<kind, skew, blocked, now, newest, visited, stored, memory, away, seen>>

SidebarFails ==
    /\ Acts("news") /\ KeepNews /\ got' = (IF kind = "maps" THEN Never ELSE got) /\ got' # got
    /\ UNCHANGED <<kind, skew, blocked, now, newest, visited, stored, memory, away, seen>>

(* A visit by the link of the sidebar or straight to the page: the event    *)
(* makes the sidebar read what was stored.                                  *)
markVisited ==
    /\ Acts("news") /\ KeepNews /\ away /\ away' = FALSE
    /\ LET last == getLastVisitedAt(stored, memory)
           t == IF kind = "maps" /\ last > Clock THEN last ELSE Clock
       IN
        /\ IF kind = "maps" THEN Remember(t) ELSE stored' = (IF blocked THEN stored ELSE t) /\ UNCHANGED memory
        /\ visited' = (IF blocked /\ kind # "maps" THEN Never ELSE t)
        /\ got' = (IF kind = "maps" /\ visited' # visited THEN Never ELSE got)
    /\ seen' = now
    /\ Tick \/ UNCHANGED now
    /\ UNCHANGED <<kind, skew, blocked, newest>>

leave ==
    /\ Only("news") /\ KeepNews /\ ~away /\ away' = TRUE
    /\ UNCHANGED <<kind, skew, blocked, now, newest, got, visited, stored, memory, seen>>

(* Another tab visits: only the maps listen to the storage.                 *)
handleStorage ==
    /\ Acts("news") /\ KeepNews /\ ~blocked
    /\ stored' = (IF kind = "maps" /\ stored > Clock THEN stored ELSE Clock)
    /\ IF kind = "maps"
       THEN visited' = getLastVisitedAt(stored', memory) /\ memory' = visited' /\ got' = (IF visited' # visited THEN Never ELSE got) /\ seen' = now
       ELSE UNCHANGED <<visited, memory, got, seen>>
    /\ Tick \/ UNCHANGED now
    /\ UNCHANGED <<kind, skew, blocked, newest, away>>

(* The page is loaded anew.                                                 *)
Reload ==
    /\ Acts("news") /\ KeepNews /\ ~blocked
    /\ visited' = getLastVisitedAt(stored, Never) /\ memory' = (IF kind = "maps" THEN stored ELSE Never) /\ got' = Never
    /\ seen' = (IF stored = Never THEN Never ELSE stored - skew)
    /\ UNCHANGED <<kind, skew, blocked, now, newest, stored, away>>

showDot == got # Never /\ got > 0 /\ (kind = "maps" \/ visited = Never \/ got > visited)
NotificationDot == showDot /\ away

-----------------------------------------------------------------------------
(* The videos, by time or by views, read page after page from a cursor.     *)

Keys == {"latest", "views"}
NoCursor == [count |-> -1, id |-> 0]
First == [count |-> 99, id |-> 99]
Before(k, a, b) == IF k = "latest" THEN a.id > b.id ELSE a.count > b.count \/ (a.count = b.count /\ a.id > b.id)
ServerPosts(c) == {[id |-> p, count |-> c[p]] : p \in DOMAIN c}

readMediaPosts(k, cursor) ==
    LET s == SetToSortSeq({p \in ServerPosts(counts) : cursor = First \/ Before(k, cursor, p)}, LAMBDA a, b : Before(k, a, b))
        n == IF Len(s) < PAGE_SIZE THEN Len(s) ELSE PAGE_SIZE
    IN [data |-> SubSeq(s, 1, n), next |-> IF Len(s) > n THEN s[n] ELSE NoCursor]

BuggetNextPageParam(ps) == ps[1].next

getNextPageParam(ps) == Last(ps).next

(* A refetch reads as many pages anew, each from the cursor before it.      *)
Again[k \in Keys, n \in 0 .. 4] ==
    IF n = 0 THEN <<>>
    ELSE LET ps == Again[k, n - 1] IN
         IF ps = <<>> THEN <<readMediaPosts(k, First)>>
         ELSE IF getNextPageParam(ps) = NoCursor THEN ps ELSE Append(ps, readMediaPosts(k, getNextPageParam(ps)))

IdsOf(ps) == UNION {{q.data[i].id : i \in DOMAIN q.data} : q \in ToSet(ps)}
Busy(k) == \E f \in fetching : f.key = k
NoPosts == <<>>

MediaInit ==
    /\ counts = [p \in Posts |-> 0] /\ sort = "latest" /\ pages = [k \in Keys |-> NoPosts]
    /\ fetching = (IF part = "media" THEN {[key |-> "latest", next |-> FALSE, base |-> NoPosts, got |-> NoPosts]} ELSE {})
    /\ submitted = {} /\ refreshing = {} /\ overtaken = FALSE

(* What is shown and was not yet asked about is asked about once.           *)
refreshEffect(k, ps) ==
    LET new == IdsOf(ps[k]) \ submitted IN
    /\ submitted' = submitted \cup new
    /\ refreshing' = IF new = {} THEN refreshing ELSE refreshing \cup {[key |-> k, ids |-> new]}

setSort ==
    /\ Acts("media") /\ KeepMedia
    /\ sort' = (IF sort = "latest" THEN "views" ELSE "latest")
    /\ fetching' = (IF Busy(sort') THEN fetching ELSE fetching \cup {[key |-> sort', next |-> FALSE, base |-> pages[sort'], got |-> NoPosts]})
    /\ refreshEffect(sort', pages)
    /\ UNCHANGED <<counts, pages, overtaken>>

(* The next page takes the place of a refetch under way.                    *)
fetchNextPage ==
    /\ Acts("media") /\ KeepMedia /\ pages[sort] # NoPosts /\ getNextPageParam(pages[sort]) # NoCursor
    /\ ~\E f \in fetching : f.key = sort /\ f.next
    /\ fetching' = {f \in fetching : f.key # sort} \cup {[key |-> sort, next |-> TRUE, base |-> pages[sort], got |-> NoPosts]}
    /\ UNCHANGED <<counts, sort, pages, submitted, refreshing, overtaken>>

RefocusMedia ==
    /\ Acts("media") /\ KeepMedia /\ ~Busy(sort)
    /\ fetching' = fetching \cup {[key |-> sort, next |-> FALSE, base |-> pages[sort], got |-> NoPosts]}
    /\ UNCHANGED <<counts, sort, pages, submitted, refreshing, overtaken>>

ReadPosts ==
    /\ Only("media") /\ KeepMedia
    /\ \E f \in fetching :
        LET ps == IF f.next THEN Append(f.base, readMediaPosts(f.key, getNextPageParam(f.base)))
                  ELSE Again[f.key, IF f.base = NoPosts THEN 1 ELSE Len(f.base)]
        IN f.got = NoPosts /\ fetching' = (fetching \ {f}) \cup {[f EXCEPT !.got = ps]}
    /\ UNCHANGED <<counts, sort, pages, submitted, refreshing, overtaken>>

(* A next page is added to the pages as they were when it was asked for:    *)
(* counts that came since are lost, and are not asked about again.          *)
PostsArrive ==
    /\ Only("media") /\ KeepMedia
    /\ \E f \in fetching :
        /\ f.got # NoPosts /\ fetching' = fetching \ {f} /\ pages' = [pages EXCEPT ![f.key] = f.got]
        /\ overtaken' = (overtaken \/ (f.next /\ f.base # pages[f.key]))
    /\ refreshEffect(sort, pages')
    /\ UNCHANGED <<counts, sort>>

ReadPostsFails ==
    /\ Acts("media") /\ KeepMedia
    /\ \E f \in fetching : f.got = NoPosts /\ fetching' = fetching \ {f}
    /\ UNCHANGED <<counts, sort, pages, submitted, refreshing, overtaken>>

BugWithCounts(ps, new) == [i \in DOMAIN ps |-> IF i > 1 THEN ps[i] ELSE [ps[i] EXCEPT !.data = [j \in DOMAIN @ |-> IF @[j].id \in new THEN [@[j] EXCEPT !.count = 1] ELSE @[j]]]]

WithCounts(ps, new) ==
    [i \in DOMAIN ps |-> [ps[i] EXCEPT !.data = [j \in DOMAIN @ |-> IF @[j].id \in new THEN [@[j] EXCEPT !.count = 1] ELSE @[j]]]]

(* The answer names only the posts that were due; it is written under the   *)
(* sort it was asked for, where the other may show the same posts, and where*)
(* a read under way may bring older counts.                                 *)
refreshMediaPostViewCounts ==
    /\ Only("media") /\ KeepMedia
    /\ \E r \in refreshing :
        LET due == {p \in r.ids : counts[p] = 0} IN
        /\ refreshing' = refreshing \ {r}
        /\ counts' = [p \in DOMAIN counts |-> IF p \in due THEN 1 ELSE counts[p]]
        /\ pages' = [pages EXCEPT ![r.key] = WithCounts(@, due)]
        /\ overtaken' = (overtaken \/ \E k \in Keys \ {r.key} : due \cap IdsOf(pages[k]) # {} \/ \E f \in fetching : due \cap IdsOf(f.got) # {})
    /\ UNCHANGED <<sort, fetching, submitted>>

RefreshFails ==
    /\ Acts("media") /\ KeepMedia
    /\ \E r \in refreshing : refreshing' = refreshing \ {r}
    /\ UNCHANGED <<counts, sort, pages, fetching, submitted, overtaken>>

(* A video is added.                                                        *)
Posted ==
    /\ Acts("media") /\ KeepMedia
    /\ counts' = [p \in DOMAIN counts \cup {Cardinality(DOMAIN counts) + 1} |-> IF p \in DOMAIN counts THEN counts[p] ELSE 0]
    /\ UNCHANGED <<sort, pages, fetching, submitted, refreshing, overtaken>>

-----------------------------------------------------------------------------
Init ==
    /\ part \in {"review", "desk", "comments", "news", "media"} /\ acts = 0
    /\ ReviewInit /\ DeskInit /\ CommentsInit /\ NewsInit /\ MediaInit

Next ==
    \/ onOpenChange \/ ReadReview \/ ReadFails \/ RefocusDialog \/ setRating \/ handleSubmit \/ SaveSucceeds \/ SaveCloses \/ SaveFails
    \/ setDeleteConfirmationOpen \/ mutateDelete \/ deleteMapReviewComments \/ DeleteFails \/ DeleteDone \/ ReviewedElsewhere
    \/ handleCommentsOnlyChange \/ setLanguagePreset \/ onPageChange \/ ReadRows \/ RowsArrive \/ RowsFail \/ RefocusRows \/ setConfirmationOpen \/ mutateRemove \/ RemoveSucceeds \/ RemoveFails \/ CommentedElsewhere
    \/ setPageIndex \/ onPageSizeChange \/ ReadComments \/ CommentsArrive \/ ReadCommentsFails \/ RefocusComments \/ setText \/ submitComment \/ SubmitSucceeds \/ SubmitFails
    \/ onDelete \/ DeleteSucceeds \/ DeleteCommentFails \/ WallChanges
    \/ Listed \/ SidebarAnswer \/ SidebarFails \/ markVisited \/ leave \/ handleStorage \/ Reload
    \/ setSort \/ fetchNextPage \/ RefocusMedia \/ ReadPosts \/ PostsArrive \/ ReadPostsFails \/ refreshMediaPostViewCounts \/ RefreshFails \/ Posted

Spec == Init /\ [][Next]_vars

-----------------------------------------------------------------------------
(* Every variable keeps its type.                                           *)
TypeOK ==
    /\ loading \subseteq Queries /\ broken \subseteq Queries /\ deleting \in {"none", "asked", "sent", "refreshing"}
    /\ form.overall \in 1 .. 5 /\ form.comment \in 0 .. 3
    /\ view.page \in Nat /\ DOMAIN given \subseteq asked /\ turn.page \in Nat /\ posting \in {0, 7, 8}
    /\ sort \in Keys /\ got \in -1 .. 4 /\ seen \in -1 .. 4

(* The fields of the review dialog hold what was typed last, until the      *)
(* review changes elsewhere, a query fails, or a save or a deletion is      *)
(* done: a refetch that brings nothing new does not touch them.             *)
TypedIsShown == ShowsForm /\ typed # Unknown => form = typed

(* With nothing under way and nothing changed elsewhere, the untouched      *)
(* dialog shows the review of the site, or else the newest; after the       *)
(* comments were deleted the newest takes the place of that of the site:    *)
(* saved then, its ratings replace those of the site.                       *)
FormIsMyReview ==
    ShowsForm /\ loading = {} /\ typed = Unknown /\ saving = Unknown /\ deleting = "none" /\ held = [q \in Queries |-> Answer(q)] =>
        \/ form = reviewToFormValues(IF site # NoReview THEN site ELSE Answer("latest"))
        \/ cleared # Unknown /\ form = reviewToFormValues(cleared)

(* A page of reviews is the one of the server once it is read, whichever    *)
(* page a comment was deleted from, unless players changed theirs or the    *)
(* deletion met a read of the page that it could not start anew.            *)
AtRest == part = "desk" /\ ShowsRows /\ Reads(view) = {}
ReviewsAreCurrent == AtRest /\ removing = NoRow /\ view \notin unheard => answers[view] = readMapReviews(view)

(* A page of reviews has rows, unless rows went since it was chosen.        *)
ReviewsPageHasRows == AtRest /\ ~shrunk => view.page = 0 \/ rows # <<>>

(* A page of comments is the one of the server once it is read, unless      *)
(* others changed theirs, the last read failed, or a change by the reader   *)
(* met a read of the page that it could not start anew.                     *)
CommentsAreCurrent ==
    ShowsComments /\ asked = {} /\ posting = 0 /\ killing = 0 /\ turn \notin passed => told[turn] = getProfileComments(turn)

(* A page of comments that was read has comments, whatever was deleted.     *)
CommentsPageHasRows == ShowsComments => turn.page = 0 \/ told[turn].rows # <<>>

(* With the clocks in step and storage allowed, the dot shows once the      *)
(* sidebar was answered exactly when something was made since the last      *)
(* visit of this tab, for the maps of any tab; what is listed later than it *)
(* was made, with a visit in between, has none.                             *)
DotTellsNews ==
    part = "news" /\ skew = 0 /\ (~blocked \/ kind = "maps") /\ away /\ got = (IF kind = "maps" /\ newest <= visited THEN 0 ELSE newest) =>
        (NotificationDot <=> newest > seen)

(* Sorted by time, scrolling and refetching show no video twice and leave   *)
(* none out in between.                                                     *)
VideosAppearOnce ==
    LET s == FlattenSeq([i \in DOMAIN pages["latest"] |-> pages["latest"][i].data]) IN
    \A i \in 1 .. Len(s) - 1 : s[i + 1].id = s[i].id - 1

(* Counts that came are shown once nothing is under way, unless a page was  *)
(* asked for before they came, or read before, or they came under the other *)
(* sort.                                                                    *)
CountsAreShown ==
    fetching = {} /\ refreshing = {} /\ ~overtaken =>
        \A i \in DOMAIN pages[sort] : \A j \in DOMAIN pages[sort][i].data : pages[sort][i].data[j].count = counts[pages[sort][i].data[j].id]
=============================================================================
