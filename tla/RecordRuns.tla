----------------------------- MODULE RecordRuns -----------------------------
(***************************************************************************)
(* What is done with the runs of a course: their history in a dialog, the  *)
(* deletion of the faster ones after a preview or of a whole course, the   *)
(* columns and rows of the table they are listed in, and the fields that   *)
(* narrow it by date and by time.                                          *)
(***************************************************************************)
EXTENDS Integers, Sequences, FiniteSets, SequencesExt

CONSTANTS
    Runs,       \* the runs of a course as the server sorts them: [day, at, time, pro, gap]
    NativeOnly, \* faster runs of servers that GlobalAPI does not know
    Columns,    \* the columns a preference shows or hides
    Texts,      \* what is typed into a field for a time: a sequence of numbers
    MaxActs     \* bound on what people do and what goes wrong

VARIABLES
    part,       \* "history", "delete", "table" or "fields"
    valid, open, recordType, showPbOnly, showBestPerDay, highlighted,  \* the history of runs
    answers, fetching, failed, aged, unseen,   \* its query, by type; history: changes since its answer
    alive, reference, target, shown, previewing, unread, sent,         \* faster runs and their preview
    refused, surprise,    \* history: the server refused the preview shown; it deleted what was not shown
    view, lists, asked, invalid, missed, course, erased,   \* the lists of records and the deletion of a course
    prefs, bonus, layer, runs, clicked, loggedIn,  \* the table and what is open over it
    from, to, drafts, focused, preset, low, high,  \* the fields
    acts

history == <<valid, open, recordType, showPbOnly, showBestPerDay, highlighted, answers, fetching, failed, aged, unseen>>
preview == <<target, shown, previewing, unread, sent, refused, surprise>>
delete == <<alive, reference, preview, view, lists, asked, invalid, missed, course, erased>>
table == <<prefs, bonus, layer, runs, clicked, loggedIn>>
fields == <<from, to, drafts, focused, preset, low, high>>
vars == <<part, history, delete, table, fields, acts>>

Acts(p) == part = p /\ acts < MaxActs /\ acts' = acts + 1 /\ UNCHANGED part
Only(p) == part = p /\ UNCHANGED <<part, acts>>
KeepHistory == UNCHANGED <<delete, table, fields>>
KeepDelete == UNCHANGED <<history, table, fields>>
KeepTable == UNCHANGED <<history, delete, fields>>
KeepFields == UNCHANGED <<history, delete, table>>

-----------------------------------------------------------------------------
(* The history: rows are [id, pb], a time is compared as it is.             *)

Types == {"NUB", "PRO"}
Unknown == <<[id |-> 0, pb |-> FALSE]>>
Time(row) == Runs[row.id].time
Stamp(row) == Runs[row.id].at
getRunDayKey(row) == Runs[row.id].day

OfType(t) == SelectSeq([i \in DOMAIN Runs |-> i], LAMBDA i : i \in valid /\ (t = "NUB" \/ Runs[i].pro))

read_record_run_history(t) ==
    LET ids == OfType(t)
    IN [k \in DOMAIN ids |-> [id |-> ids[k], pb |-> \A j \in 1 .. k - 1 : Runs[ids[k]].time < Runs[ids[j]].time]]

BugqueryKey(t) == "NUB"

queryKey(t) == t

BugcollapseRunsToBestPerDay(rows) == SelectSeq(rows, LAMBDA r : \A q \in ToSet(rows) : getRunDayKey(q) = getRunDayKey(r) => Stamp(q) <= Stamp(r))

collapseRunsToBestPerDay(rows) ==
    LET better(k, j) == Time(rows[k]) < Time(rows[j]) \/ (Time(rows[k]) = Time(rows[j]) /\ k <= j)
        kept == {k \in DOMAIN rows : \A j \in DOMAIN rows : getRunDayKey(rows[j]) = getRunDayKey(rows[k]) => better(k, j)}
        order == SetToSortSeq(kept, LAMBDA j, k : j < k)
    IN [k \in DOMAIN order |-> rows[order[k]]]

getChronologicalRows(rows) ==
    SortSeq(rows, LAMBDA q, r : Stamp(q) < Stamp(r) \/ (Stamp(q) = Stamp(r) /\ Time(q) < Time(r)))

BuggetPreviousPbDeltaByUuid(rows) == LET chron == getChronologicalRows(rows) IN [k \in 2 .. Len(chron) |-> [row |-> chron[k], delta |-> Time(chron[k]) - Time(chron[1])]]

getPreviousPbDeltaByUuid(rows) ==
    LET chron == getChronologicalRows(rows)
        before(k) == {j \in 1 .. k - 1 : chron[j].pb}
    IN [k \in {j \in DOMAIN chron : before(j) # {}} |-> [row |-> chron[k], delta |-> Time(chron[k]) - Time(chron[Max(before(k))])]]

BuggetCurrentPbRun(rows) == IF \E r \in ToSet(rows) : r.pb THEN SelectSeq(rows, LAMBDA r : r.pb)[1] ELSE Unknown[1]

getCurrentPbRun(rows) ==
    LET pbs == SelectSeq(getChronologicalRows(rows), LAMBDA r : r.pb)
    IN IF pbs = <<>> THEN Unknown[1] ELSE Last(pbs)

rowsOf(a, t) == IF a[queryKey(t)] = Unknown THEN <<>> ELSE a[queryKey(t)]
filteredRows(a, t, pb) == SelectSeq(rowsOf(a, t), LAMBDA r : pb => r.pb)
visibleRows(a, t, pb, day) ==
    IF day THEN collapseRunsToBestPerDay(filteredRows(a, t, pb)) ELSE filteredRows(a, t, pb)

(* The chart has the rows that are slower than the world record.  A pointer *)
(* says which by its place, or by its time: then the first of that time.    *)
chartRows(rows) == SelectSeq(rows, LAMBDA r : Runs[r.id].gap)
getAxisPointerDataIndex(rows, k) == {k, Min({j \in DOMAIN rows : Stamp(rows[j]) = Stamp(rows[k])})}

BugKept(h, rows) == h

(* The effect on the rows: a highlighted one that is gone is forgotten.     *)
Kept(h, rows) == IF \E r \in ToSet(rows) : r.id = h THEN h ELSE 0

Dialog == <<open, recordType, showPbOnly, showBestPerDay>>
Query == <<answers, fetching, failed, aged, unseen>>
Rows == visibleRows(answers, recordType, showPbOnly, showBestPerDay)
ShowsRows == open /\ queryKey(recordType) \notin failed /\ answers[queryKey(recordType)] # Unknown

HistoryInit ==
    /\ valid = 1 .. Len(Runs) - 1
    /\ open = FALSE /\ recordType = "NUB" /\ showPbOnly = FALSE /\ showBestPerDay = FALSE /\ highlighted = 0
    /\ answers = [t \in Types |-> Unknown] /\ fetching = {} /\ failed = {} /\ aged = {} /\ unseen = {}

(* A query that is observed anew is sent when it has no answer or an old    *)
(* one; its error stands until then if it has one.                          *)
Observe(t) ==
    LET q == queryKey(t)
    IN /\ fetching' = (IF answers[q] = Unknown \/ q \in aged THEN fetching \cup {q} ELSE fetching)
       /\ failed' = (IF answers[q] = Unknown THEN failed \ {q} ELSE failed)
       /\ UNCHANGED <<answers, aged, unseen>>

(* A click on a row of the list, which is of one type.                      *)
setHistoryRecord ==
    /\ Acts("history") /\ KeepHistory /\ ~open
    /\ open' = TRUE /\ recordType' \in Types /\ showPbOnly' = FALSE /\ showBestPerDay' = FALSE /\ highlighted' = 0
    /\ Observe(recordType') /\ UNCHANGED valid

closeHistory ==
    /\ Acts("history") /\ KeepHistory /\ open /\ open' = FALSE
    /\ UNCHANGED <<valid, recordType, showPbOnly, showBestPerDay, highlighted, Query>>

setRecordType ==
    /\ Acts("history") /\ KeepHistory /\ open
    /\ recordType' \in Types \ {recordType} /\ Observe(recordType')
    /\ highlighted' = Kept(highlighted, visibleRows(answers, recordType', showPbOnly, showBestPerDay))
    /\ UNCHANGED <<valid, open, showPbOnly, showBestPerDay>>

setShowPbOnly ==
    /\ Acts("history") /\ KeepHistory /\ open /\ showPbOnly' = ~showPbOnly
    /\ highlighted' = Kept(highlighted, visibleRows(answers, recordType, showPbOnly', showBestPerDay))
    /\ UNCHANGED <<valid, open, recordType, showBestPerDay, Query>>

setShowBestPerDayOnly ==
    /\ Acts("history") /\ KeepHistory /\ open /\ showBestPerDay' = ~showBestPerDay
    /\ highlighted' = Kept(highlighted, visibleRows(answers, recordType, showPbOnly, showBestPerDay'))
    /\ UNCHANGED <<valid, open, recordType, showPbOnly, Query>>

HoverRow ==
    /\ Acts("history") /\ KeepHistory /\ ShowsRows
    /\ \E r \in ToSet(Rows) : highlighted # r.id /\ highlighted' = r.id
    /\ UNCHANGED <<valid, Dialog, Query>>

handleAxisPointerUpdate ==
    /\ Acts("history") /\ KeepHistory /\ ShowsRows
    /\ LET rows == chartRows(Rows)
       IN \E k \in DOMAIN rows : \E j \in getAxisPointerDataIndex(rows, k) : highlighted # rows[j].id /\ highlighted' = rows[j].id
    /\ UNCHANGED <<valid, Dialog, Query>>

handleGlobalOut ==
    /\ Acts("history") /\ KeepHistory /\ highlighted # 0 /\ highlighted' = 0 /\ UNCHANGED <<valid, Dialog, Query>>

ReadHistory ==
    /\ Only("history") /\ KeepHistory
    /\ \E t \in {recordType} \cup Types : queryKey(t) \in fetching /\
        LET q == queryKey(t)
        IN /\ answers' = [answers EXCEPT ![q] = read_record_run_history(t)]
           /\ fetching' = fetching \ {q} /\ failed' = failed \ {q} /\ aged' = aged \ {q} /\ unseen' = unseen \ {q}
    /\ highlighted' = Kept(highlighted, visibleRows(answers', recordType, showPbOnly, showBestPerDay))
    /\ UNCHANGED <<valid, Dialog>>

HistoryFails ==
    /\ Acts("history") /\ KeepHistory
    /\ \E q \in fetching : fetching' = fetching \ {q} /\ failed' = failed \cup {q}
    /\ UNCHANGED <<valid, Dialog, highlighted, answers, aged, unseen>>

(* Thirty seconds pass, and the window may come back into focus.            *)
Ages ==
    /\ Acts("history") /\ KeepHistory /\ \E q \in Types : answers[q] # Unknown
    /\ aged' = {q \in Types : answers[q] # Unknown}
    /\ fetching' \in {fetching, IF open /\ queryKey(recordType) \in aged' THEN fetching \cup {queryKey(recordType)} ELSE fetching}
    /\ UNCHANGED <<valid, Dialog, highlighted, answers, failed, unseen>>

RunsChange ==
    /\ Acts("history") /\ KeepHistory
    /\ \/ \E i \in valid : valid' = valid \ {i}
       \/ valid # 1 .. Len(Runs) /\ valid' = valid \cup {Len(Runs)}
    /\ unseen' = {q \in Types : answers[q] # Unknown}
    /\ UNCHANGED <<Dialog, highlighted, answers, fetching, failed, aged>>

-----------------------------------------------------------------------------
(* The deletion of the runs of others that are faster than the reference,   *)
(* and of a course of one player (the run 1).  A preview is a set of runs,  *)
(* and stands for its token.                                                *)

NoPreview == {-1}
Lists == {"feed", "profile", "board"}

preview_bulk_delete_faster == alive \ NativeOnly

BugMatches(token) == TRUE

Matches(token) == token = alive

BugcanDelete == target /\ ~unread /\ shown \notin {NoPreview, {}}

canDelete == target /\ ~unread /\ ~previewing /\ shown \notin {NoPreview, {}}

DeleteInit ==
    /\ alive = {1} /\ reference = TRUE /\ target = FALSE /\ shown = NoPreview /\ previewing = FALSE /\ unread = FALSE
    /\ sent = NoPreview /\ refused = FALSE /\ surprise = FALSE
    /\ view = "profile" /\ lists = [l \in Lists |-> IF l = "feed" THEN NoPreview ELSE {1}] /\ asked = {}
    /\ invalid = {} /\ missed = {} /\ course = "none" /\ erased = {}

Mirror == <<alive, reference>>
Pages == <<view, lists, asked, invalid, missed, course, erased>>

setDeleteFasterTarget ==
    /\ Acts("delete") /\ KeepDelete /\ view = "board" /\ ~target /\ sent = NoPreview
    /\ target' = TRUE /\ previewing' = TRUE
    /\ UNCHANGED <<Mirror, shown, unread, sent, refused, surprise, Pages>>

onClose ==
    /\ Acts("delete") /\ KeepDelete /\ target /\ sent = NoPreview /\ target' = FALSE
    /\ UNCHANGED <<Mirror, shown, previewing, unread, sent, refused, surprise, Pages>>

ReadPreview ==
    /\ Only("delete") /\ KeepDelete /\ previewing /\ previewing' = FALSE
    /\ IF reference
       THEN shown' = preview_bulk_delete_faster /\ unread' = FALSE /\ refused' = FALSE
       ELSE unread' = TRUE /\ UNCHANGED <<shown, refused>>
    /\ UNCHANGED <<Mirror, target, sent, surprise, Pages>>

PreviewFails ==
    /\ Acts("delete") /\ KeepDelete /\ previewing /\ previewing' = FALSE /\ unread' = TRUE
    /\ UNCHANGED <<Mirror, target, shown, sent, refused, surprise, Pages>>

refetchPreview ==
    /\ Acts("delete") /\ KeepDelete /\ target /\ unread /\ ~previewing /\ previewing' = TRUE
    /\ UNCHANGED <<Mirror, target, shown, unread, sent, refused, surprise, Pages>>

mutateFaster ==
    /\ Acts("delete") /\ KeepDelete /\ canDelete /\ sent = NoPreview /\ sent' = shown
    /\ UNCHANGED <<Mirror, target, shown, previewing, unread, refused, surprise, Pages>>

BuginvalidateAll == {"feed", "board"}

invalidateAll == {"feed", "profile", "board"}

BugrefetchPreviewAfter == FALSE

(* A refusal as changed asks for the preview again.                         *)
refetchPreviewAfter == target

(* What is on screen is asked for again, what is cached is marked.          *)
Invalidated ==
    /\ invalid' = invalid \cup {l \in invalidateAll : lists[l] # NoPreview}
    /\ asked' = asked \cup ({view} \cap invalidateAll)

FasterAnswer ==
    /\ Only("delete") /\ KeepDelete /\ sent # NoPreview /\ sent' = NoPreview
    /\ IF reference /\ Matches(sent)
       THEN /\ alive' = {} /\ erased' = erased \cup alive /\ surprise' = (surprise \/ ~(alive \subseteq sent))
            /\ target' = FALSE /\ Invalidated /\ UNCHANGED <<previewing, refused>>
       ELSE /\ refused' = TRUE /\ previewing' = (previewing \/ refetchPreviewAfter)
            /\ UNCHANGED <<alive, erased, surprise, target, invalid, asked>>
    /\ UNCHANGED <<reference, shown, unread, view, lists, missed, course>>

(* The request or its answer is lost: the deletion may have been done.      *)
FasterFails ==
    /\ Acts("delete") /\ KeepDelete /\ sent # NoPreview /\ sent' = NoPreview
    /\ alive' \in {alive, IF reference /\ Matches(sent) THEN {} ELSE alive}
    /\ UNCHANGED <<reference, target, shown, previewing, unread, refused, surprise, Pages>>

Moderated ==
    /\ Acts("delete") /\ KeepDelete
    /\ \/ \E r \in (1 .. 3) \ (alive \cup erased) : alive' = alive \cup {r} /\ UNCHANGED reference
       \/ \E r \in alive : alive' = alive \ {r} /\ UNCHANGED reference
       \/ reference /\ reference' = FALSE /\ UNCHANGED alive
    /\ UNCHANGED <<preview, Pages>>

BugrefetchOnMount(l) == FALSE

(* The records of a profile are never asked for again because a page opens. *)
refetchOnMount(l) == l # "profile"

Navigate ==
    /\ Acts("delete") /\ KeepDelete
    /\ view' \in Lists \ {view} /\ target' = FALSE
    /\ course' = (IF course = "sent" THEN "away" ELSE IF course = "asked" THEN "none" ELSE course)
    /\ asked' = (IF lists[view'] = NoPreview \/ (refetchOnMount(view') /\ (view' = "board" \/ view' \in invalid)) THEN asked \cup {view'} ELSE asked)
    /\ UNCHANGED <<Mirror, shown, previewing, unread, sent, refused, surprise, lists, invalid, missed, erased>>

ReadList ==
    /\ Only("delete") /\ KeepDelete
    /\ \E l \in asked : lists' = [lists EXCEPT ![l] = alive] /\ asked' = asked \ {l} /\ invalid' = invalid \ {l} /\ missed' = missed \ {l}
    /\ UNCHANGED <<Mirror, preview, view, course, erased>>

ReadListFails ==
    /\ Acts("delete") /\ KeepDelete /\ \E l \in asked : asked' = asked \ {l} /\ missed' = missed \cup {l}
    /\ UNCHANGED <<Mirror, preview, view, lists, invalid, course, erased>>

(* The dialog of a course may be closed while it deletes.                   *)
setCourseOpen ==
    /\ Acts("delete") /\ KeepDelete
    /\ \/ course = "none" /\ 1 \in lists[view] /\ course' = "asked"
       \/ course = "asked" /\ course' \in {"none", "sent"}
       \/ course = "sent" /\ course' = "away"
    /\ UNCHANGED <<Mirror, preview, view, lists, asked, invalid, missed, erased>>

bulkDeleteCourse ==
    /\ Only("delete") /\ KeepDelete /\ course \in {"sent", "away"} /\ course' = "none"
    /\ alive' = alive \ {1} /\ erased' = erased \cup {1} /\ Invalidated
    /\ UNCHANGED <<reference, preview, view, lists, missed>>

CourseFails ==
    /\ Acts("delete") /\ KeepDelete /\ course \in {"sent", "away"}
    /\ course' = (IF course = "sent" THEN "asked" ELSE "none")
    /\ UNCHANGED <<Mirror, preview, view, lists, asked, invalid, missed, erased>>

-----------------------------------------------------------------------------
(* The table: its columns as the page lists them, the headings as the table *)
(* orders them; and the row, with what is open over it.                     *)

Shown(c) == IF c \in prefs THEN <<c>> ELSE <<>>
Unless(b, c) == IF b THEN <<>> ELSE <<c>>

Bugcolumns == <<"map">> \o Unless(bonus, "tier") \o Unless(~bonus, "stage") \o Shown("mode") \o <<"tps">> \o Shown("wrTime") \o <<"time">> \o Shown("rank") \o <<"points">> \o Unless(bonus, "rating") \o Shown("server")

columns ==
    <<"map">> \o Unless(bonus, "tier") \o Shown("mode") \o Unless(~bonus, "stage") \o <<"tps">>
    \o Shown("wrTime") \o <<"time">> \o Shown("rank") \o <<"points">> \o Unless(bonus, "rating") \o Shown("server")

columnWidths ==
    <<"player", "map", "tier", "mode", "stage", "tps", "wrTime", "time", "rank", "wrGap", "points", "rating", "server", "datetime", "firstCompletion">>
filterCells == columns
orderedColumns == SelectSeq(columnWidths, LAMBDA c : c \in ToSet(columns))

BugisInteractiveRowTarget(t) == t = "link"

isInteractiveRowTarget(t) == t \in {"link", "button"}

menuContent == loggedIn
ShownLayer == IF menuContent \/ layer = "course" THEN layer ELSE "none"

TableInit ==
    /\ prefs \in (IF part = "table" THEN SUBSET Columns ELSE {{}}) /\ bonus = FALSE
    /\ layer = "none" /\ runs = FALSE /\ clicked = "none" /\ loggedIn = TRUE

Listing == <<prefs, bonus>>

setPreference ==
    /\ Acts("table") /\ KeepTable
    /\ \/ bonus' = ~bonus /\ UNCHANGED prefs
       \/ \E c \in Columns : prefs' = (prefs \ {c}) \cup ({c} \ prefs) /\ UNCHANGED bonus
    /\ UNCHANGED <<layer, runs, clicked, loggedIn>>

(* What is rendered inside a row hands its clicks to the row, the dialog of *)
(* the course that is shown over the page too.                              *)
onRowClick ==
    /\ Acts("table") /\ KeepTable /\ ~runs /\ ShownLayer # "report"
    /\ \E t \in {"cell", "link", "button", "dialog"} :
        /\ (t = "dialog") = (layer = "course")
        /\ runs' = ~isInteractiveRowTarget(t) /\ clicked' = (IF runs' THEN t ELSE "none")
        /\ layer' = (IF layer = "menu" THEN "none" ELSE layer)
    /\ UNCHANGED <<Listing, loggedIn>>

onContextMenu ==
    /\ Acts("table") /\ KeepTable /\ ~runs /\ menuContent /\ ShownLayer \in {"none", "menu"} /\ layer' = "menu"
    /\ UNCHANGED <<Listing, runs, clicked, loggedIn>>

onSelectReport ==
    /\ Acts("table") /\ KeepTable /\ ShownLayer = "menu" /\ layer' = "report"
    /\ UNCHANGED <<Listing, runs, clicked, loggedIn>>

openCourse ==
    /\ Acts("table") /\ KeepTable /\ ~runs /\ ShownLayer = "none" /\ layer' = "course"
    /\ UNCHANGED <<Listing, runs, clicked, loggedIn>>

onOpenChange ==
    /\ Acts("table") /\ KeepTable
    /\ IF runs THEN runs' = FALSE /\ clicked' = "none" /\ UNCHANGED layer
       ELSE ShownLayer # "none" /\ layer' = "none" /\ UNCHANGED <<runs, clicked>>
    /\ UNCHANGED <<Listing, loggedIn>>

(* The user logs out, or in again, in another window.                       *)
isLoggedIn ==
    /\ Acts("table") /\ KeepTable /\ loggedIn' = ~loggedIn /\ UNCHANGED <<Listing, layer, runs, clicked>>

-----------------------------------------------------------------------------
(* The fields.  A date is <<month, day>>, the digits of a field are two     *)
(* numbers in the order of the preset; 0 stands for what is not typed.      *)

NoDate == <<0, 0>>
Dates == {<<1, 2>>, <<2, 1>>, <<2, 2>>}
Drafts == {NoDate, <<1, 0>>, <<1, 2>>, <<2, 1>>}
Ends == {"from", "to"}
Presets == {"us", "euro"}

getDateInputPattern(p) == IF p = "us" THEN <<1, 2>> ELSE <<2, 1>>
formatDateInputValue(v, p) == [k \in 1 .. 2 |-> v[getDateInputPattern(p)[k]]]
Complete(d) == d[1] # 0 /\ d[2] # 0

BugparseDateInputValue(d, p) == IF Complete(d) THEN d ELSE NoDate

parseDateInputValue(d, p) == IF Complete(d) THEN [k \in 1 .. 2 |-> d[getDateInputPattern(p)[k]]] ELSE NoDate

Later(d, e) == d[1] > e[1] \/ (d[1] = e[1] /\ d[2] > e[2])

BugDragged(v, other, over) == other

(* An end that passes the other takes it along.                             *)
Dragged(v, other, over) == IF v # NoDate /\ other # NoDate /\ over THEN v ELSE other

onFromDateChange(v) == from' = v /\ to' = Dragged(v, to, Later(v, to))
onToDateChange(v) == to' = v /\ from' = Dragged(v, from, Later(from, v))
onValueChange(e, v) == IF e = "from" THEN onFromDateChange(v) ELSE onToDateChange(v)

(* The effect on the value and the preset writes the field.                 *)
setDraftValue == drafts' = [e \in Ends |-> formatDateInputValue(IF e = "from" THEN from' ELSE to', preset')]

Null == -1

parseWholeSecondTime(t) ==
    LET part3 == IF Len(t) = 3 THEN t ELSE IF Len(t) = 2 THEN <<0>> \o t ELSE <<0, 0, 0>>
    IN CASE Len(t) = 0 -> Null
         [] Len(t) = 1 -> t[1]
         [] part3[2] >= 60 \/ part3[3] >= 60 -> Null
         [] OTHER -> part3[1] * 3600 + part3[2] * 60 + part3[3]

BugformatWholeSecondTime(s) == IF s >= 3600 THEN <<s \div 3600, s \div 60, s % 60>> ELSE <<s \div 60, s % 60>>

formatWholeSecondTime(s) ==
    IF s >= 3600 THEN <<s \div 3600, (s % 3600) \div 60, s % 60>> ELSE <<s \div 60, s % 60>>

rangeLabel == [e \in Ends |-> LET s == parseWholeSecondTime(IF e = "from" THEN low ELSE high) IN IF s = Null THEN <<>> ELSE formatWholeSecondTime(s)]

FieldsInit ==
    /\ from = NoDate /\ to = NoDate /\ drafts = [e \in Ends |-> NoDate] /\ focused = "none"
    /\ preset \in (IF part = "fields" THEN Presets ELSE {"us"}) /\ low = <<>> /\ high = <<>>

Times == <<low, high>>

formatPartialDateInputValue ==
    /\ Acts("fields") /\ KeepFields /\ focused \in Ends
    /\ \E d \in Drafts \ {drafts[focused]} : drafts' = [drafts EXCEPT ![focused] = d]
    /\ UNCHANGED <<from, to, focused, preset, Times>>

Focus ==
    /\ Acts("fields") /\ KeepFields /\ focused = "none" /\ focused' \in Ends
    /\ UNCHANGED <<from, to, drafts, preset, Times>>

(* What is no date is taken back; an empty field clears the end.            *)
commitValue ==
    /\ Only("fields") /\ KeepFields /\ focused \in Ends /\ focused' = "none"
    /\ LET d == drafts[focused]
       IN IF d = NoDate \/ Complete(d) THEN onValueChange(focused, parseDateInputValue(d, preset)) ELSE UNCHANGED <<from, to>>
    /\ UNCHANGED <<preset, Times>> /\ setDraftValue

(* The menu is closed over a field: it goes without being left.             *)
Escape ==
    /\ Acts("fields") /\ KeepFields /\ focused \in Ends /\ focused' = "none"
    /\ UNCHANGED <<from, to, preset, Times>> /\ setDraftValue

showPicker ==
    /\ Acts("fields") /\ KeepFields /\ focused = "none"
    /\ \E e \in Ends : \E v \in Dates : onValueChange(e, v)
    /\ UNCHANGED <<focused, preset, Times>> /\ setDraftValue

ResetDates ==
    /\ Acts("fields") /\ KeepFields /\ focused = "none" /\ (from # NoDate \/ to # NoDate)
    /\ from' = NoDate /\ to' = NoDate
    /\ UNCHANGED <<focused, preset, Times>> /\ setDraftValue

setPreset ==
    /\ Acts("fields") /\ KeepFields /\ preset' \in Presets \ {preset}
    /\ UNCHANGED <<from, to, focused, Times>> /\ setDraftValue

setTimes ==
    /\ Acts("fields") /\ KeepFields
    /\ \/ \E t \in Texts : low # t /\ low' = t /\ UNCHANGED high
       \/ \E t \in Texts : high # t /\ high' = t /\ UNCHANGED low
    /\ UNCHANGED <<from, to, drafts, focused, preset>>

-----------------------------------------------------------------------------
Init ==
    /\ part \in {"history", "delete", "table", "fields"}
    /\ HistoryInit /\ DeleteInit /\ TableInit /\ FieldsInit /\ acts = 0

Next ==
    \/ setHistoryRecord \/ closeHistory \/ setRecordType \/ setShowPbOnly \/ setShowBestPerDayOnly
    \/ HoverRow \/ handleAxisPointerUpdate \/ handleGlobalOut \/ ReadHistory \/ HistoryFails \/ Ages \/ RunsChange
    \/ setDeleteFasterTarget \/ onClose \/ ReadPreview \/ PreviewFails \/ refetchPreview \/ mutateFaster \/ FasterAnswer \/ FasterFails
    \/ Moderated \/ Navigate \/ ReadList \/ ReadListFails \/ setCourseOpen \/ bulkDeleteCourse \/ CourseFails
    \/ setPreference \/ onRowClick \/ onContextMenu \/ onSelectReport \/ openCourse \/ onOpenChange \/ isLoggedIn
    \/ formatPartialDateInputValue \/ Focus \/ commitValue \/ Escape \/ showPicker \/ ResetDates \/ setPreset \/ setTimes

Spec == Init /\ [][Next]_vars

-----------------------------------------------------------------------------
(* Every variable keeps its type.                                           *)
TypeOK ==
    /\ valid \subseteq 1 .. Len(Runs) /\ recordType \in Types /\ fetching \cup failed \cup aged \cup unseen \subseteq Types
    /\ highlighted \in 0 .. Len(Runs) /\ alive \subseteq 1 .. 3 /\ view \in Lists /\ asked \cup invalid \cup missed \subseteq Lists
    /\ course \in {"none", "asked", "sent", "away"} /\ layer \in {"none", "menu", "report", "course"}
    /\ prefs \subseteq Columns /\ {from, to} \subseteq Dates \cup {NoDate} /\ focused \in Ends \cup {"none"}

(* The run that is highlighted in the chart and the list is one of those    *)
(* shown, whichever rows a switch, a type or an answer takes away.          *)
HighlightIsVisible == open /\ highlighted # 0 => \E r \in ToSet(Rows) : r.id = highlighted

(* The history on screen is the one of the server for its type, unless runs *)
(* were added or deleted since it was asked for.                            *)
HistoryIsCurrent ==
    ShowsRows /\ queryKey(recordType) \notin fetching \cup unseen => answers[queryKey(recordType)] = read_record_run_history(recordType)

(* A personal best shows how much it was faster than the one before, any    *)
(* other run how much slower; two runs of the same time stamp may be taken  *)
(* in the wrong order.                                                      *)
Apart(rows) == \A j, k \in DOMAIN rows : Stamp(rows[j]) = Stamp(rows[k]) => j = k

DeltasTellProgress ==
    ShowsRows /\ Apart(rowsOf(answers, recordType)) =>
        LET deltas == getPreviousPbDeltaByUuid(filteredRows(answers, recordType, showPbOnly))
        IN \A k \in DOMAIN deltas : deltas[k].row.pb <=> deltas[k].delta < 0

(* The run marked as the current best is the fastest of all, and it is in   *)
(* the list whatever the switches are.                                      *)
CurrentPbIsBest ==
    ShowsRows /\ rowsOf(answers, recordType) # <<>> /\ Apart(rowsOf(answers, recordType)) =>
        LET pb == getCurrentPbRun(filteredRows(answers, recordType, showPbOnly))
        IN pb \in ToSet(Rows) /\ \A r \in ToSet(rowsOf(answers, recordType)) : Time(pb) <= Time(r)

(* The server deletes no faster run but those of the preview confirmed.     *)
DeletedWasShown == ~surprise

(* A preview that the server has refused is read again before it can be     *)
(* confirmed.                                                               *)
RefusedIsReadAgain == canDelete => ~refused

(* A list on screen has none of the runs this user has deleted, once it is  *)
(* read again; that of a profile opened earlier is not read again when the  *)
(* deletion was made on another page.                                       *)
ListsForgetDeleted ==
    view \notin asked \cup missed /\ ~(view = "profile" /\ view \in invalid) => lists[view] \cap erased = {}

(* Every filter of the table is below the heading of its column.            *)
FiltersUnderHeadings == filterCells = orderedColumns

(* The history of runs opens by a click on a cell, never by one on a link   *)
(* or a button of the row; by one on the text of a dialog the row holds, it *)
(* does.                                                                    *)
RowClickIsMeant == runs => clicked \in {"cell", "dialog"}

(* Fields that nobody is typing in show the range in force in the preset in *)
(* force, and the range is in order.                                        *)
DatesAreInOrder ==
    /\ focused = "none" => \A e \in Ends : parseDateInputValue(drafts[e], preset) = (IF e = "from" THEN from ELSE to)
    /\ from # NoDate /\ to # NoDate => ~Later(from, to)

(* The label of a range of times reads back as the times in force.          *)
TimesReadBack ==
    \A e \in Ends : parseWholeSecondTime(rangeLabel[e]) = parseWholeSecondTime(IF e = "from" THEN low ELSE high)

=============================================================================
