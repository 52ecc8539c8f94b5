----------------------------- MODULE PagedTable -----------------------------
(***************************************************************************)
(* A table read from the server page by page, with its footer: the buttons,*)
(* the keys A and D, the box that takes a page number, the rows per page.  *)
(* How many pages there are is known from an answer, and every page and    *)
(* size is a query of its own; the tables differ in what they take the     *)
(* count for while an answer is awaited or has failed, and in how they      *)
(* leave a page that no longer exists.  The count may be another one each   *)
(* time it is read: others add rows and delete them.                        *)
(***************************************************************************)
EXTENDS Integers, FiniteSets

CONSTANTS
    Kinds,       \* tables among "servers", "groups", "jumpstats", "gear", "comments"
    MaxItems,    \* bound on the rows the server has
    Sizes,       \* rows per page
    MaxActs      \* bound on what the reader and others do

VARIABLES
    kind,        \* the table shown
    cache,       \* [page index, size] -> count of the answer held, or Unknown
    fetching,    \* keys of requests under way
    failed,      \* keys whose last request was given up
    pageIndex, pageSize,
    lastKnown,   \* the count of the last data shown (lastKnownTotalCount, placeholderData)
    pageInput, typed, focused, \* the box: its number, whether the reader typed it, and focus
    synced,      \* <<pageCount, pageIndex, pageSize>> of the last effects
    chosen,      \* history: the page the reader asked for
    slipped,     \* history: the box was left while the count was not known, or
                 \*   the groups were left for a page that could not be read
    acts         \* counts towards MaxActs

data == <<cache, fetching, failed, lastKnown>>
box == <<pageInput, typed, focused>>
place == <<pageIndex, pageSize>>
history == <<chosen, slipped>>
vars == <<kind, data, place, box, synced, history, acts>>

Unknown == -1
smaller(a, b) == IF a < b THEN a ELSE b
larger(a, b) == IF a < b THEN b ELSE a

queryKey == <<pageIndex, pageSize>>
loaded == cache[queryKey] # Unknown

inError == queryKey \in failed

(* Two kinds keep the last count while loading, and one of them also when   *)
(* the page could not be read; the others count nothing.                    *)
totalCount ==
    IF loaded THEN cache[queryKey]
    ELSE IF kind = "jumpstats" \/ (kind = "groups" /\ ~inError) THEN lastKnown
    ELSE 0

Pages(total) == larger(1, (total + pageSize - 1) \div pageSize)
pageCount == Pages(totalCount)

(* jumpstats: only an answer takes the reader off a page.                   *)
jumpstatsLeave == loaded

BuggearLeave == TRUE

gearLeave == loaded

(* groups: by the count of the data shown, of this page or of the last one, *)
(* and a page that could not be read counts none.                           *)
groupsLeave == TRUE

(* comments: also while nothing is known of the page.                       *)
commentsLeave == TRUE

Overshoots ==
    /\ pageIndex > pageCount - 1
    /\ CASE kind = "servers" -> FALSE
         [] kind = "groups" -> groupsLeave
         [] kind = "jumpstats" -> jumpstatsLeave
         [] kind = "gear" -> gearLeave
         [] kind = "comments" -> commentsLeave

(* React runs the effects of a change before the next event.                *)
Settled == synced = <<pageCount, pageIndex, pageSize>> /\ ~Overshoots

Rows == IF loaded THEN larger(0, smaller(pageSize, cache[queryKey] - pageIndex * pageSize)) ELSE 0

(* The comments show a skeleton without a footer until they are loaded, and *)
(* no footer when there are none; an error takes the place of the jumpstats *)
(* with their footer.                                                       *)
HasFooter ==
    /\ kind = "comments" => loaded /\ totalCount > 0
    /\ kind = "jumpstats" => ~inError

Init ==
    /\ kind \in Kinds
    /\ pageIndex = 0 /\ pageSize = 1
    /\ cache = [k \in (0 .. MaxItems) \X Sizes |-> Unknown]
    /\ fetching = {<<0, 1>>} /\ failed = {} /\ lastKnown = 0
    /\ pageInput = 1 /\ typed = FALSE /\ focused = FALSE
    /\ synced = <<1, 0, 1>>
    /\ chosen = 0 /\ slipped = FALSE /\ acts = 0

Acts == acts < MaxActs /\ acts' = acts + 1

(* A query without data forgets its error when it is asked again.           *)
Ask ==
    /\ fetching' = fetching \cup {queryKey}
    /\ failed' = IF loaded THEN failed ELSE failed \ {queryKey}

(* The effects: the box follows the page, a new key is asked for, a page    *)
(* that does not exist is left.                                             *)
Effects ==
    /\ ~Settled
    /\ LET to == IF Overshoots THEN pageCount - 1 ELSE pageIndex
       IN  /\ pageIndex' = to
           /\ chosen' = IF Overshoots /\ loaded THEN to ELSE chosen
           /\ slipped' = (slipped \/ (Overshoots /\ kind = "groups" /\ inError))
    /\ IF <<pageCount, pageIndex>> # <<synced[1], synced[2]>>
       THEN pageInput' = smaller(pageIndex + 1, pageCount) /\ typed' = FALSE
       ELSE UNCHANGED <<pageInput, typed>>
    /\ synced' = <<pageCount, pageIndex, pageSize>>
    /\ IF queryKey # <<synced[2], synced[3]>> THEN Ask ELSE UNCHANGED <<fetching, failed>>
    /\ focused' = (focused /\ HasFooter)
    /\ lastKnown' = IF loaded THEN cache[queryKey] ELSE lastKnown
    /\ UNCHANGED <<kind, cache, pageSize, acts>>

Answer ==
    \E k \in fetching, count \in 0 .. MaxItems :
        /\ fetching' = fetching \ {k} /\ failed' = failed \ {k}
        /\ cache' = [cache EXCEPT ![k] = count]
        /\ lastKnown' = IF k = queryKey THEN count ELSE lastKnown
        /\ UNCHANGED <<kind, place, box, synced, history, acts>>

Fail ==
    /\ Acts
    /\ \E k \in fetching :
        /\ fetching' = fetching \ {k} /\ failed' = failed \cup {k}
        /\ IF kind = "jumpstats" /\ k = queryKey
           THEN pageInput' = smaller(pageIndex + 1, pageCount) /\ typed' = FALSE /\ focused' = FALSE
           ELSE UNCHANGED box
    /\ UNCHANGED <<kind, cache, lastKnown, place, synced, history>>

(* The window gains focus, a retry is asked for, or an edit invalidates the *)
(* list.                                                                    *)
Refetch ==
    /\ Settled /\ Acts
    /\ queryKey \notin fetching /\ Ask
    /\ UNCHANGED <<kind, cache, lastKnown, place, box, synced, history>>

Turn(to) ==
    /\ Settled /\ HasFooter /\ Acts
    /\ pageIndex' = to /\ pageIndex' # pageIndex /\ chosen' = to
    /\ UNCHANGED <<kind, data, pageSize, box, synced, slipped>>

toFirst == pageIndex # 0 /\ Turn(0)

BugtoPrevious == Turn(pageIndex - 1)

toPrevious == pageIndex # 0 /\ Turn(larger(0, pageIndex - 1))

toNext == pageIndex < pageCount - 1 /\ Turn(smaller(pageCount - 1, pageIndex + 1))
toLast == pageIndex < pageCount - 1 /\ loaded /\ Turn(pageCount - 1)

setPageSize ==
    /\ Settled /\ HasFooter /\ Acts
    /\ pageSize' \in Sizes \ {pageSize} /\ pageIndex' = 0 /\ chosen' = 0
    /\ UNCHANGED <<kind, data, box, synced, slipped>>

setPageInputValue ==
    /\ Settled /\ HasFooter /\ Acts
    /\ pageInput' \in 0 .. MaxItems + 1 /\ typed' = TRUE /\ focused' = TRUE
    /\ UNCHANGED <<kind, data, place, synced, history>>

(* By Enter, and once more when the box loses the focus.  An empty box      *)
(* counts as zero.                                                          *)
commitPageInputValue(blur) ==
    /\ Settled /\ HasFooter /\ focused
    /\ LET nextPage == smaller(larger(pageInput, 1), pageCount)
       IN  /\ pageInput' = nextPage /\ pageIndex' = nextPage - 1
           /\ chosen' = IF typed \/ loaded THEN nextPage - 1 ELSE chosen
    /\ slipped' = (slipped \/ (~loaded /\ ~typed))
    /\ focused' = ~blur /\ typed' = FALSE
    /\ UNCHANGED <<kind, data, pageSize, synced, acts>>

Next ==
    \/ Effects \/ Answer \/ Fail \/ Refetch
    \/ toFirst \/ toPrevious \/ toNext \/ toLast \/ setPageSize
    \/ setPageInputValue \/ \E blur \in BOOLEAN : commitPageInputValue(blur)

Spec == Init /\ [][Next]_vars

TypeOK ==
    /\ pageIndex \in 0 .. MaxItems /\ pageSize \in Sizes
    /\ cache \in [(0 .. MaxItems) \X Sizes -> {Unknown} \cup (0 .. MaxItems)]
    /\ fetching \cup failed \subseteq DOMAIN cache /\ pageInput \in 0 .. MaxItems + 1
    /\ chosen \in 0 .. MaxItems

(* The reader stays on the page asked for, however late its answer is; only *)
(* an answer that has no such page moves the reader, to the last page.  The *)
(* groups also leave a page that cannot be read, and the comments leave any *)
(* page not read before.                                                    *)
ReaderKeepsPage == kind # "comments" => slipped \/ pageIndex = chosen
=============================================================================
