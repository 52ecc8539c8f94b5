---------------------------- MODULE RecordsTable ----------------------------
(***************************************************************************)
(* The table of a player's records: filtered and sorted in the browser,    *)
(* shown in pages or loaded as the reader scrolls. The rank of a record is *)
(* asked of the server for the rows shown only, at most RankPage of them.  *)
(***************************************************************************)
EXTENDS Integers, Sequences, FiniteSets, SequencesExt

CONSTANTS
    N,          \* the player's records are 1 .. N, by date
    Value,      \* [1 .. N -> 0 .. MaxValue]: what the range filters (points)
    MaxValue,   \* the bound of the filter (SCORE_RANGE_MAX)
    Step,       \* PROFILE_RECORDS_PAGE_SIZE
    RankPage,   \* records in one request for ranks (50)
    MaxActs     \* bound on the reader's actions

VARIABLES
    records,    \* the records in the cache
    hidden,     \* records of maps the player has hidden
    minimum, maximum, \* texts of the range filter: a number or Empty
    field,      \* the field being typed in: "none", "min" or "max"
    sort,       \* [column, direction]
    pageSort,   \* pageSortRef: the last sort that is not by rank
    options,    \* showHidden, showRanks, showFirst, scroll: view preferences
    firsts,     \* the first completions have arrived
    pageSize, pageIndex, visibleCount,
    armed,      \* the observer below the table has still to call back
    acts        \* counts towards MaxActs

Empty == -1
range == <<minimum, maximum, field>>
view == <<sort, options, pageSize>>
data == <<records, hidden, firsts>>
position == <<pageIndex, visibleCount>>
vars == <<range, view, data, pageSort, position, armed, acts>>

larger(a, b) == IF a < b THEN b ELSE a
smaller(a, b) == IF a < b THEN a ELSE b

BugautoLoadMore == "scroll" \in options

autoLoadMore == "scroll" \in options /\ "showRanks" \notin options

size == IF "showRanks" \in options THEN smaller(pageSize, RankPage) ELSE pageSize

Filtered ==
    {r \in records :
        /\ "showHidden" \in options \/ r \notin hidden
        /\ minimum = Empty \/ Value[r] >= minimum
        /\ maximum = Empty \/ Value[r] <= maximum}

Key(column, r) ==
    CASE column = "value" -> Value[r]
      [] column = "first" -> -r
      [] OTHER -> r

sortPbRecords(rows, by) ==
    LET below(a, b) == Key(by.column, a) < Key(by.column, b)
                       \/ (Key(by.column, a) = Key(by.column, b) /\ a < b)
    IN  SetToSortSeq(rows, LAMBDA a, b : IF by.direction = "asc" THEN below(a, b) ELSE below(b, a))

ByDate == [column |-> "date", direction |-> "desc"]

sortedRecords ==
    sortPbRecords(Filtered, IF pageSort.column = "first" /\ ~ firsts THEN ByDate ELSE pageSort)

pageCount == larger(1, (Cardinality(Filtered) + size - 1) \div size)

BugcurrentPageIndex == pageIndex

currentPageIndex == smaller(pageIndex, pageCount - 1)

visibleRecords ==
    LET s == sortedRecords
    IN  IF autoLoadMore THEN SubSeq(s, 1, smaller(visibleCount, Len(s)))
        ELSE SubSeq(s, currentPageIndex * size + 1, smaller((currentPageIndex + 1) * size, Len(s)))

navigationKey == <<minimum, maximum, pageSort, "showHidden" \in options, autoLoadMore, size>>
loading == <<autoLoadMore, Cardinality(Filtered), visibleCount>>

Init ==
    /\ records = 1 .. N /\ hidden = {}
    /\ minimum = Empty /\ maximum = Empty /\ field = "none"
    /\ sort = ByDate /\ pageSort = ByDate
    /\ options = {} /\ firsts = FALSE
    /\ pageSize = 1 /\ pageIndex = 0 /\ visibleCount = Step
    /\ armed = FALSE /\ acts = 0

BugRenderSort == pageSort' = IF "showFirst" \notin options' /\ sort'.column = "first" THEN ByDate ELSE sort'

(* A sort by rank keeps the order that chose the rows of the page.          *)
RenderSort ==
    LET last == IF sort'.column = "rank" THEN pageSort ELSE sort'
    IN  pageSort' = IF "showFirst" \notin options' /\ last.column = "first" THEN ByDate ELSE last

BugArm == armed' = IF autoLoadMore' # autoLoadMore THEN autoLoadMore' ELSE armed

(* The effect of the observer runs again when what it depends on changes.   *)
Arm ==
    armed' = IF loading' # loading THEN autoLoadMore' /\ visibleCount' < Cardinality(Filtered') ELSE armed

(* Another key starts at the first page again, in the same render.          *)
Render ==
    /\ RenderSort
    /\ IF navigationKey' # navigationKey
       THEN pageIndex' = 0 /\ visibleCount' = Step
       ELSE UNCHANGED position
    /\ Arm

Acts == acts < MaxActs /\ acts' = acts + 1

Type(text) ==
    /\ Acts
    /\ \/ field \in {"none", "min"} /\ minimum' = text /\ field' = "min" /\ UNCHANGED maximum
       \/ field \in {"none", "max"} /\ maximum' = text /\ field' = "max" /\ UNCHANGED minimum
    /\ UNCHANGED <<view, data>> /\ Render

(* The smallest minimum and the largest maximum are the empty text.         *)
commitRange(low, high) ==
    /\ minimum' = IF low = 0 THEN Empty ELSE low
    /\ maximum' = IF larger(low, high) = MaxValue THEN Empty ELSE larger(low, high)
    /\ field' = "none"

low == IF minimum = Empty THEN 0 ELSE smaller(minimum, MaxValue)
high == IF maximum = Empty THEN MaxValue ELSE smaller(maximum, MaxValue)

Blur ==
    /\ field # "none" /\ commitRange(low, high)
    /\ UNCHANGED <<view, data, acts>> /\ Render

(* A slider, a preset range, or Reset (the whole range).                    *)
PickRange ==
    /\ Acts
    /\ field = "none"
    /\ \/ \E v \in 0 .. high : commitRange(v, high)
       \/ \E v \in low .. MaxValue : commitRange(low, v)
       \/ commitRange(0, MaxValue)
    /\ UNCHANGED <<view, data>> /\ Render

handleSortChange(column) ==
    /\ Acts
    /\ column = "rank" => "showRanks" \in options
    /\ column = "first" => "showFirst" \in options /\ firsts
    /\ sort' = [column |-> column,
                direction |-> IF sort.column = column
                              THEN IF sort.direction = "desc" THEN "asc" ELSE "desc"
                              ELSE IF column = "rank" THEN "asc" ELSE "desc"]
    /\ UNCHANGED <<range, options, pageSize, data>> /\ Render

SetOption(o) ==
    /\ Acts
    /\ options' = IF o \in options THEN options \ {o} ELSE options \cup {o}
    /\ UNCHANGED <<range, sort, pageSize, data>> /\ Render

(* The effect that gives up a sort whose column is gone.                    *)
SortEffect ==
    /\ "showFirst" \notin options /\ sort.column = "first" /\ sort' = ByDate
    /\ UNCHANGED <<range, options, pageSize, data, acts>> /\ Render

FirstsArrive ==
    /\ "showFirst" \in options /\ ~ firsts /\ firsts' = TRUE
    /\ UNCHANGED <<range, view, records, hidden, acts>> /\ Render

setPageSize(n) ==
    /\ Acts
    /\ n # pageSize /\ ~ autoLoadMore /\ pageSize' = n
    /\ UNCHANGED <<range, sort, options, data>> /\ Render

(* A record is deleted, or its map hidden or shown again.                   *)
ChangeRecords ==
    /\ Acts
    /\ \E r \in records :
        \/ records' = records \ {r} /\ UNCHANGED hidden
        \/ hidden' = (IF r \in hidden THEN hidden \ {r} ELSE hidden \cup {r}) /\ UNCHANGED records
    /\ UNCHANGED <<range, view, firsts>> /\ Render

setPageIndex(i) ==
    /\ Acts
    /\ ~ autoLoadMore /\ i # currentPageIndex /\ pageIndex' = i
    /\ UNCHANGED <<range, view, data, pageSort, visibleCount, armed>>

(* The effect on pageCount; until it runs the page shown is the last one.   *)
ClampEffect ==
    /\ pageIndex > pageCount - 1 /\ pageIndex' = pageCount - 1
    /\ UNCHANGED <<range, view, data, pageSort, visibleCount, armed, acts>>

(* The end of the table is in sight.                                        *)
LoadMore ==
    /\ armed
    /\ visibleCount' = smaller(visibleCount + Step, Cardinality(Filtered))
    /\ UNCHANGED <<range, view, data, pageSort, pageIndex, acts>>
    /\ armed' = (visibleCount' < Cardinality(Filtered) /\ visibleCount' # visibleCount)

ReaderActs ==
    \/ \E text \in {Empty} \cup 0 .. MaxValue + 1 : Type(text)
    \/ PickRange \/ ChangeRecords
    \/ \E c \in {"date", "value", "rank", "first"} : handleSortChange(c)
    \/ \E o \in {"showHidden", "showRanks", "showFirst", "scroll"} : SetOption(o)
    \/ \E n \in {1, 2, 3} : setPageSize(n)
    \/ \E i \in 0 .. pageCount - 1 : setPageIndex(i)
Progress == SortEffect \/ FirstsArrive \/ ClampEffect \/ LoadMore
Next == ReaderActs \/ Blur \/ Progress

Spec == Init /\ [][Next]_vars
FairSpec == Spec /\ WF_vars(Progress)
-----------------------------------------------------------------------------
TypeOK ==
    /\ records \subseteq 1 .. N /\ hidden \subseteq 1 .. N
    /\ minimum \in Empty .. MaxValue + 1 /\ maximum \in Empty .. MaxValue + 1
    /\ pageSort.column # "rank"
    /\ pageIndex \in 0 .. N /\ visibleCount \in 0 .. N

(* Whatever is deleted, hidden or filtered away on the last page, a table   *)
(* with records shows some of them.                                         *)
PageHasRows == Filtered # {} => visibleRecords # <<>>

(* The request for ranks of the rows shown is never larger than the server  *)
(* takes.                                                                   *)
RanksFitOneRequest == "showRanks" \in options => Len(visibleRecords) <= RankPage

(* Sorting by rank orders the rows of the page: it brings no others.        *)
RankSortKeepsPage ==
    [][(sort'.column = "rank" /\ sort' # sort) => visibleRecords' = visibleRecords]_vars

(* A reader who scrolls sees every record in the end.                       *)
EveryRecordAppears ==
    []<>(autoLoadMore => Len(visibleRecords) = Cardinality(Filtered))
=============================================================================
