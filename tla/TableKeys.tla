----------------------------- MODULE TableKeys -----------------------------
(***************************************************************************)
(* What the tables share: the keys that turn the page of one of them and   *)
(* scroll the window, the header that stays in view, and the rows with     *)
(* their menus, the expanded row, the box for a page, the widths of the    *)
(* columns, and the table that is dragged sideways.                        *)
(***************************************************************************)
EXTENDS Integers, Sequences, FiniteSets, SequencesExt

CONSTANTS
    Panels,       \* tables in the order of the document: [footer |-> BOOLEAN, area |-> what is seen of it]
    MaxPages,     \* bound on the pages of one
    innerHeight, Step, Offset, Heights, StickyOffset, HeaderHeight,  \* the window, in steps of scrolling
    Newest,       \* records are 1 .. Newest, the newest first
    Sizes,        \* rows per page
    Typed,        \* what is typed into the box: numbers, or NaN
    Columns, Widths, \* sets of sequences of columns, of widths of the container
    Room,         \* how far a wide table scrolls sideways, in steps of 8 pixels
    MaxActs       \* bound on what people do and what changes

VARIABLES
    part,         \* "keys", "scroll", "rows" or "drag"
    mounted, registered, count, page, told, focus, hover, seen, shrunk,  \* keys
    y, target, startY, moving, tall, scheduled, isStickyHeaderPinned, wanted, disturbed, unseen, \* scroll
    known, pageIndex, pageSize, pageInputValue, editing, menus, expanded, \* rows
    byKey, slid, acted, gone,  \* history: a second menu opened by key; the row under a menu changed; what items acted on; the page ceased to exist
    wide, held, at, hook, scrollLeft, suppressClick, clicking, \* drag; held: what the button is held on; hook: what handlers share
    pulled, moved, lost, reached, \* history: this press scrolled, moved; a drag ended without a click; what became of clicks
    acts

keys == <<mounted, registered, count, page, told, focus, hover, seen, shrunk>>
scroll == <<y, target, startY, moving, tall, scheduled, isStickyHeaderPinned, wanted, disturbed, unseen>>
rows == <<known, pageIndex, pageSize, pageInputValue, editing, menus, expanded, byKey, slid, acted, gone>>
drag == <<wide, held, at, hook, scrollLeft, suppressClick, clicking, pulled, moved, lost, reached>>
vars == <<part, keys, scroll, rows, drag, acts>>

Acts(p) == part = p /\ acts < MaxActs /\ acts' = acts + 1 /\ UNCHANGED part
Only(p) == part = p /\ UNCHANGED <<part, acts>>
KeepKeys == UNCHANGED <<scroll, rows, drag>>
KeepScroll == UNCHANGED <<keys, rows, drag>>
KeepRows == UNCHANGED <<keys, scroll, drag>>
KeepDrag == UNCHANGED <<keys, scroll, rows>>

None == 0
Clamp(v, low, high) == Max({low, Min({v, high})})

-----------------------------------------------------------------------------
(* The keys A and D.  A table tells what it can do in an effect, after the  *)
(* rendering; it is registered and unregistered in effects, too.            *)

Tables == DOMAIN Panels
Options(t, n, p) == [enabled |-> Panels[t].footer, previous |-> p > 0, next |-> p < n - 1]

BugisConnected(t) == TRUE

isConnected(t) == t \in mounted

BugcanHandleDirection(snapshot, direction) == TRUE

canHandleDirection(snapshot, direction) == IF direction = "previous" THEN snapshot.previous ELSE snapshot.next

enabledRegistrations(direction) ==
    SelectSeq(registered, LAMBDA t : /\ isConnected(t) /\ told[t].enabled
                                     /\ canHandleDirection(told[t], direction))

getVisibleViewportArea(t) == IF t \in seen THEN Panels[t].area ELSE 0

(* The largest area; of equal ones the first in the document.               *)
Largest(S) ==
    LET best == {t \in S : \A u \in S : getVisibleViewportArea(u) <= getVisibleViewportArea(t)}
    IN Min(best)

findActivePagination(direction) ==
    LET able == enabledRegistrations(direction)
        visible == SelectSeq(able, LAMBDA t : t \in seen)
    IN IF able = <<>> THEN None
       ELSE IF focus \in ToSet(able) THEN focus
       ELSE IF Len(able) = 1 THEN able[1]
       ELSE IF hover \in ToSet(visible) THEN hover
       ELSE IF visible = <<>> THEN Last(able)
       ELSE Largest(ToSet(visible))

BugsetPageIndex(n, p) == p

(* previousPage and nextPage stay within the pages known by now.            *)
setPageIndex(n, p) == Clamp(p, 0, n - 1)

KeysInit ==
    /\ mounted = {} /\ registered = <<>> /\ focus = None /\ hover = None /\ seen = {} /\ shrunk = {}
    /\ count = [t \in Tables |-> MaxPages] /\ page = [t \in Tables |-> 0]
    /\ told = [t \in Tables |-> Options(t, MaxPages, 0)]

Mount(t) ==
    /\ Acts("keys") /\ KeepKeys /\ t \notin mounted /\ t \notin ToSet(registered)
    /\ mounted' = mounted \cup {t} /\ seen' \in {seen, seen \cup {t}}
    /\ page' = [page EXCEPT ![t] = 0] /\ told' = [told EXCEPT ![t] = Options(t, count[t], 0)]
    /\ shrunk' = shrunk \ {t} /\ UNCHANGED <<registered, count, focus, hover>>

register(t) ==
    /\ Only("keys") /\ KeepKeys /\ t \in mounted \ ToSet(registered) /\ registered' = Append(registered, t)
    /\ UNCHANGED <<mounted, count, page, told, focus, hover, seen, shrunk>>

Unmount(t) ==
    /\ Acts("keys") /\ KeepKeys /\ t \in mounted /\ mounted' = mounted \ {t} /\ seen' = seen \ {t}
    /\ focus' = (IF focus = t THEN None ELSE focus) /\ hover' = (IF hover = t THEN None ELSE hover)
    /\ UNCHANGED <<registered, count, page, told, shrunk>>

unregister(t) ==
    /\ Only("keys") /\ KeepKeys /\ t \in ToSet(registered) \ mounted
    /\ registered' = SelectSeq(registered, LAMBDA u : u # t)
    /\ UNCHANGED <<mounted, count, page, told, focus, hover, seen, shrunk>>

(* An answer with another count, and the effect that follows.               *)
CountChanges(t) ==
    /\ Acts("keys") /\ KeepKeys /\ t \in mounted /\ \E n \in 1 .. MaxPages : n # count[t] /\ count' = [count EXCEPT ![t] = n]
    /\ shrunk' = (IF page[t] >= count'[t] THEN shrunk \cup {t} ELSE shrunk \ {t})
    /\ UNCHANGED <<mounted, registered, page, told, focus, hover, seen>>

Tell(t) ==
    /\ Only("keys") /\ KeepKeys /\ t \in mounted /\ told[t] # Options(t, count[t], page[t])
    /\ told' = [told EXCEPT ![t] = Options(t, count[t], page[t])]
    /\ UNCHANGED <<mounted, registered, count, page, focus, hover, seen, shrunk>>

handleKeyDown(direction) ==
    LET t == findActivePagination(direction)
    IN /\ Acts("keys") /\ KeepKeys /\ t # None
       /\ page' = [page EXCEPT ![t] = setPageIndex(count[t], IF direction = "next" THEN @ + 1 ELSE @ - 1)]
       /\ told' = [told EXCEPT ![t] = Options(t, count[t], page'[t])]
       /\ shrunk' = shrunk \ {t} /\ UNCHANGED <<mounted, registered, count, focus, hover, seen>>

Look ==
    /\ Acts("keys") /\ KeepKeys
    /\ \/ focus' \in (mounted \cup {None}) \ {focus} /\ UNCHANGED <<hover, seen>>
       \/ hover' \in (seen \cup {None}) \ {hover} /\ UNCHANGED <<focus, seen>>
       \/ \E t \in mounted : seen' = SymDiff(seen, {t}) /\ hover' = (IF hover \in seen' THEN hover ELSE None) /\ UNCHANGED focus
    /\ UNCHANGED <<mounted, registered, count, page, told, shrunk>>

-----------------------------------------------------------------------------
(* The keys W and S, and the header of a table Offset steps down the page.    *)

maxScrollTop(h) == Max({0, Offset + h - innerHeight})

BugbaseScrollTop == y

baseScrollTop == IF moving THEN target ELSE y

containerTop == Offset - y
translateY == Max({0, StickyOffset - Max({containerTop, 0})})

isPinned(h) ==
    LET top == containerTop
        within == top + h > StickyOffset + HeaderHeight
    IN within /\ (top <= 0 \/ translateY > 0)

ScrollInit ==
    /\ y = 0 /\ target = 0 /\ startY = 0 /\ moving = FALSE /\ tall \in Heights /\ scheduled = FALSE
    /\ isStickyHeaderPinned = isPinned(tall) /\ wanted = 0 /\ disturbed = FALSE /\ unseen = FALSE

scrollWithAnimation(deltaY) ==
    LET next == Clamp(baseScrollTop + deltaY, 0, maxScrollTop(tall))
    IN /\ Acts("scroll") /\ KeepScroll
       /\ wanted' = Clamp(wanted + deltaY, 0, maxScrollTop(tall))
       /\ IF next = baseScrollTop THEN UNCHANGED <<target, startY, moving>>
          ELSE target' = next /\ startY' = y /\ moving' = TRUE
       /\ UNCHANGED <<y, tall, scheduled, isStickyHeaderPinned, disturbed, unseen>>

BugscheduleStickyHeaderUpdate == scheduled \/ ~isStickyHeaderPinned

(* A scroll event asks for a frame, unless one is asked for already.        *)
scheduleStickyHeaderUpdate == TRUE

Halfway == (startY + target) \div 2

animateScroll ==
    /\ Only("scroll") /\ KeepScroll /\ moving
    /\ \/ y # Halfway /\ y' = Min({Halfway, maxScrollTop(tall)}) /\ moving' = TRUE /\ UNCHANGED <<target, startY>>
       \/ y' = Min({target, maxScrollTop(tall)}) /\ moving' = FALSE /\ target' = 0 /\ startY' = 0
    /\ scheduled' = IF y' = y THEN scheduled ELSE scheduleStickyHeaderUpdate
    /\ UNCHANGED <<tall, isStickyHeaderPinned, wanted, disturbed, unseen>>

updateStickyHeaderPinnedState ==
    /\ Only("scroll") /\ KeepScroll /\ scheduled /\ scheduled' = FALSE /\ isStickyHeaderPinned' = isPinned(tall)
    /\ unseen' = FALSE /\ UNCHANGED <<y, target, startY, moving, tall, wanted, disturbed>>

(* The wheel; a frame of the animation undoes it.                           *)
Wheel ==
    /\ Acts("scroll") /\ KeepScroll /\ y' \in {0, maxScrollTop(tall)} \ {y} /\ scheduled' = scheduleStickyHeaderUpdate
    /\ disturbed' = (disturbed \/ moving) /\ wanted' = (IF moving THEN wanted ELSE y')
    /\ UNCHANGED <<target, startY, moving, tall, isStickyHeaderPinned, unseen>>

(* Rows come or go: nothing is heard of it, unless the window has to scroll.*)
HeightChanges ==
    /\ Acts("scroll") /\ KeepScroll /\ tall' \in Heights \ {tall} /\ y' = Min({y, maxScrollTop(tall')})
    /\ scheduled' = (IF y' = y THEN scheduled ELSE scheduleStickyHeaderUpdate) /\ unseen' = TRUE
    /\ disturbed' = (disturbed \/ moving) /\ wanted' = (IF moving THEN wanted ELSE y')
    /\ UNCHANGED <<target, startY, moving, isStickyHeaderPinned>>

-----------------------------------------------------------------------------
(* The rows of the page that is shown.                                      *)

NaN == -1
NoRow == 0
pageCountOf(n, size) == Max({1, (n + size - 1) \div size})
pageCount == pageCountOf(known, pageSize)

RowsOf(n, p, size) == [i \in 1 .. Clamp(n - p * size, 0, size) |-> n + 1 - (p * size + i)]
Shown == RowsOf(known, pageIndex, pageSize)
MenusOpen == {i \in DOMAIN menus : menus[i] # NoRow}
NoMenus == [i \in 1 .. Max(Sizes) |-> NoRow]

RowsInit ==
    /\ known \in {Newest - 1, Newest} /\ pageIndex = 0 /\ pageSize = Min(Sizes) /\ pageInputValue = 1 /\ editing = FALSE
    /\ menus = NoMenus /\ expanded = NoRow /\ byKey = FALSE /\ slid = {} /\ acted = {} /\ gone = FALSE

(* The rows are keyed by their place: a menu stays with the place, and goes *)
(* with it.                                                                 *)
Moved(n, p) ==
    LET now == RowsOf(n, p, pageSize)
        left == MenusOpen \cap DOMAIN now
    IN /\ menus' = [i \in DOMAIN menus |-> IF i \in left THEN menus[i] ELSE NoRow]
       /\ slid' = {i \in left : now[i] # menus[i]}

BughandlePointerDown(i) == menus

(* A press outside of a menu closes it, before the press does anything.     *)
handlePointerDown(i) == [j \in DOMAIN menus |-> IF j = i THEN menus[j] ELSE NoRow]

Pressed == menus' = handlePointerDown(NoRow) /\ byKey' = FALSE /\ slid' = {}

(* Whoever leaves the box commits it, and a press on a row leaves it.       *)
onContextMenu(i) ==
    /\ Acts("rows") /\ KeepRows /\ ~editing /\ i \in DOMAIN Shown
    /\ menus' = [handlePointerDown(NoRow) EXCEPT ![i] = Shown[i]] /\ byKey' = FALSE /\ slid' = {}
    /\ UNCHANGED <<known, pageIndex, pageSize, pageInputValue, editing, expanded, acted, gone>>

(* Shift and F10 open a menu without a press.                               *)
openByKey(i) ==
    /\ Acts("rows") /\ KeepRows /\ ~editing /\ i \in DOMAIN Shown \ MenusOpen
    /\ menus' = [menus EXCEPT ![i] = Shown[i]] /\ byKey' = (byKey \/ MenusOpen # {})
    /\ UNCHANGED <<known, pageIndex, pageSize, pageInputValue, editing, expanded, slid, acted, gone>>

Escape ==
    /\ Acts("rows") /\ KeepRows /\ MenusOpen # {} /\ menus' = NoMenus /\ byKey' = FALSE /\ slid' = {}
    /\ UNCHANGED <<known, pageIndex, pageSize, pageInputValue, editing, expanded, acted, gone>>

(* The item acts on the row there is now.                                   *)
onSelect(i) ==
    /\ Acts("rows") /\ KeepRows /\ i \in MenusOpen
    /\ acted' = (IF i \in slid THEN acted ELSE acted \cup {<<menus[i], Shown[i]>>})
    /\ menus' = NoMenus /\ byKey' = FALSE /\ slid' = {}
    /\ UNCHANGED <<known, pageIndex, pageSize, pageInputValue, editing, expanded, gone>>

onClick(i) ==
    /\ Acts("rows") /\ KeepRows /\ ~editing /\ i \in DOMAIN Shown /\ Pressed
    /\ expanded' = (IF expanded = Shown[i] THEN NoRow ELSE Shown[i])
    /\ UNCHANGED <<known, pageIndex, pageSize, pageInputValue, editing, acted, gone>>

BugresolvedRowId(i) == i

resolvedRowId(i) == Shown[i]

isExpanded(i) == expanded # NoRow /\ expanded = resolvedRowId(i)

(* A newer record is listed, or the newest is deleted.                      *)
RowsChange ==
    /\ Acts("rows") /\ KeepRows /\ known' \in {known - 1, known + 1} \cap (0 .. Newest)
    /\ Moved(known', pageIndex) /\ gone' = (pageIndex >= pageCountOf(known', pageSize))
    /\ UNCHANGED <<pageIndex, pageSize, pageInputValue, editing, expanded, byKey, acted>>

nextPage ==
    /\ pageIndex < pageCount - 1 /\ pageIndex' = pageIndex + 1 /\ pageInputValue' = pageIndex + 2
    /\ UNCHANGED <<known, pageSize, editing, expanded, acted, gone>>

(* The button, or the key D, which closes no menu.                          *)
nextByButton == Acts("rows") /\ KeepRows /\ ~editing /\ nextPage /\ Pressed
nextByKey == Acts("rows") /\ KeepRows /\ ~editing /\ nextPage /\ Moved(known, pageIndex') /\ UNCHANGED byKey

BugpageOfSize(p) == p

(* The size is set, then the first page.                                    *)
pageOfSize(p) == 0

handlePaginationChange ==
    /\ Acts("rows") /\ KeepRows /\ ~editing /\ Pressed /\ pageSize' \in Sizes \ {pageSize}
    /\ pageIndex' = pageOfSize(pageIndex) /\ pageInputValue' = pageIndex' + 1 /\ gone' = FALSE
    /\ UNCHANGED <<known, editing, expanded, acted>>

setPageInputValue ==
    /\ Acts("rows") /\ KeepRows /\ pageInputValue' \in Typed \ {pageInputValue} /\ editing' = TRUE /\ Pressed
    /\ UNCHANGED <<known, pageIndex, pageSize, expanded, acted, gone>>

BugcommittedPage(v) == IF v = NaN THEN pageIndex + 1 ELSE v

committedPage(v) == IF v = NaN THEN pageIndex + 1 ELSE Clamp(v, 1, pageCount)

commitPageInputValue ==
    /\ Only("rows") /\ KeepRows /\ editing /\ editing' = FALSE
    /\ LET p == committedPage(pageInputValue)
       IN pageIndex' = p - 1 /\ pageInputValue' = p /\ gone' = (gone /\ p - 1 = pageIndex)
    /\ UNCHANGED <<known, pageSize, menus, expanded, byKey, slid, acted>>

-----------------------------------------------------------------------------
(* The widths of the columns, in shares of which Unit make a pixel.         *)

Total(columns, f) == FoldLeft(LAMBDA sum, i : sum + f[i], 0, [i \in DOMAIN columns |-> i])
capacity(c) == Max({0, c.maxWidth - c.width})
minimumWidth(columns) == Total(columns, [i \in DOMAIN columns |-> columns[i].width])
cappedGrowth(columns) == Total(columns, [i \in DOMAIN columns |-> capacity(columns[i])])
growCount(columns) == Cardinality({i \in DOMAIN columns : columns[i].grow})
Unit(columns) == Max({1, cappedGrowth(columns)}) * Max({1, growCount(columns)})
surplus(columns, available) == Max({0, available - minimumWidth(columns)})

BugtextGrowth(columns, available) == cappedGrowth(columns)

textGrowth(columns, available) == Min({surplus(columns, available), cappedGrowth(columns)})

distributeTableColumnWidths(columns, available) ==
    LET text == textGrowth(columns, available)
        shared == (surplus(columns, available) - text) * (Unit(columns) \div Max({1, growCount(columns)}))
        ofText(c) == text * capacity(c) * (Unit(columns) \div Max({1, cappedGrowth(columns)}))
    IN [i \in DOMAIN columns |-> columns[i].width * Unit(columns) + ofText(columns[i]) + (IF columns[i].grow THEN shared ELSE 0)]

-----------------------------------------------------------------------------
(* A wide table is dragged sideways; the click that ends the drag is not    *)
(* for the row.  One pointer, its place in steps of 8 pixels.               *)

NoDrag == [pointerId |-> FALSE, startX |-> 0, startScrollLeft |-> 0, isDragging |-> FALSE, didDrag |-> FALSE]

DragInit ==
    /\ wide = TRUE /\ held = "no" /\ at = 0 /\ hook = NoDrag /\ scrollLeft = 0 /\ suppressClick = FALSE
    /\ clicking = FALSE /\ pulled = FALSE /\ moved = FALSE /\ lost = FALSE /\ reached = {}

(* Whether there was a drag stays known, until the next press.              *)
resetDragState == [NoDrag EXCEPT !.didDrag = hook.didDrag]

BugpressedHook(on) == [hook EXCEPT !.pointerId = on = "row" /\ wide, !.startX = at', !.startScrollLeft = scrollLeft]

pressedHook(on) ==
    IF on = "row" /\ wide THEN [NoDrag EXCEPT !.pointerId = TRUE, !.startX = at', !.startScrollLeft = scrollLeft] ELSE hook

(* The button goes down on a row, or on a link, a box or a button in it.    *)
dragPointerDown(on) ==
    /\ Acts("drag") /\ KeepDrag /\ held = "no" /\ ~clicking /\ held' = on /\ at' \in 0 .. Room /\ hook' = pressedHook(on)
    /\ pulled' = FALSE /\ moved' = FALSE /\ UNCHANGED <<wide, scrollLeft, suppressClick, clicking, lost, reached>>

(* off is the way up or down, range whether text is selected by now.        *)
startsDrag(off, range) ==
    LET way == Max({at' - hook.startX, hook.startX - at'}) IN way >= 1 /\ way > off /\ ~range

dragPointerMove(off, range) ==
    /\ Only("drag") /\ KeepDrag /\ held # "no" /\ at' \in 0 .. Room /\ (at' # at \/ off > 0) /\ moved' = TRUE
    /\ IF hook.pointerId /\ (hook.isDragging \/ startsDrag(off, range))
       THEN /\ hook' = [hook EXCEPT !.isDragging = TRUE, !.didDrag = TRUE]
            /\ scrollLeft' = Clamp(hook.startScrollLeft - (at' - hook.startX), 0, IF wide THEN Room ELSE 0)
       ELSE UNCHANGED <<hook, scrollLeft>>
    /\ pulled' = (pulled \/ scrollLeft' # scrollLeft) /\ UNCHANGED <<wide, held, suppressClick, clicking, lost, reached>>

Bugsuppresses == hook.isDragging /\ scrollLeft # hook.startScrollLeft

suppresses == hook.pointerId /\ hook.didDrag

(* A click follows, unless the browser took the pointer for something else  *)
(* or the button went up where there is nothing in common.                  *)
dragPointerEnd ==
    /\ Only("drag") /\ KeepDrag /\ held # "no" /\ held' = "no" /\ hook' = resetDragState
    /\ suppressClick' = (suppressClick \/ suppresses) /\ clicking' \in BOOLEAN /\ lost' = (lost \/ (suppressClick' /\ ~clicking'))
    /\ UNCHANGED <<wide, at, scrollLeft, pulled, moved, reached>>

BugclickSpent == suppressClick

clickSpent == FALSE

(* The click comes to the table first.                                      *)
handleClickCapture ==
    /\ Only("drag") /\ KeepDrag /\ clicking /\ clicking' = FALSE /\ suppressClick' = clickSpent /\ lost' = FALSE
    /\ reached' = (IF lost THEN reached ELSE reached \cup {[pulled |-> pulled, moved |-> moved, heard |-> ~suppressClick]})
    /\ UNCHANGED <<wide, held, at, hook, scrollLeft, pulled, moved>>

(* The window or the columns change.                                        *)
WidthChanges ==
    /\ Acts("drag") /\ KeepDrag /\ wide' = ~wide /\ scrollLeft' = 0
    /\ UNCHANGED <<held, at, hook, suppressClick, clicking, pulled, moved, lost, reached>>

-----------------------------------------------------------------------------
Init ==
    /\ part \in {"keys", "scroll", "rows", "drag"} /\ KeysInit /\ ScrollInit /\ RowsInit /\ DragInit /\ acts = 0
    /\ part = "scroll" \/ tall = Max(Heights)
    /\ part = "rows" \/ known = Newest

Next ==
    \/ \E t \in Tables : Mount(t) \/ register(t) \/ Unmount(t) \/ unregister(t) \/ CountChanges(t) \/ Tell(t)
    \/ \E direction \in {"previous", "next"} : handleKeyDown(direction)
    \/ Look
    \/ \E deltaY \in {-Step, Step} : scrollWithAnimation(deltaY)
    \/ animateScroll \/ updateStickyHeaderPinnedState \/ Wheel \/ HeightChanges
    \/ \E i \in 1 .. Max(Sizes) : onContextMenu(i) \/ openByKey(i) \/ onSelect(i) \/ onClick(i)
    \/ Escape \/ RowsChange \/ nextByButton \/ nextByKey \/ handlePaginationChange \/ setPageInputValue \/ commitPageInputValue
    \/ \E on \in {"row", "link"} : dragPointerDown(on)
    \/ \E off \in {0, 2}, range \in BOOLEAN : dragPointerMove(off, range)
    \/ dragPointerEnd \/ handleClickCapture \/ WidthChanges

Progress ==
    \/ \E t \in Tables : register(t) \/ unregister(t) \/ Tell(t)
    \/ animateScroll \/ updateStickyHeaderPinnedState

Spec == Init /\ [][Next]_vars

-----------------------------------------------------------------------------
(* The variables keep their types.                                          *)
TypeOK ==
    /\ part \in {"keys", "scroll", "rows", "drag"} /\ mounted \subseteq Tables /\ seen \subseteq mounted
    /\ focus \in mounted \cup {None} /\ hover \in seen \cup {None} /\ ToSet(registered) \subseteq Tables
    /\ tall \in Heights /\ y \in 0 .. maxScrollTop(Max(Heights)) /\ known \in 0 .. Newest /\ pageSize \in Sizes
    /\ held \in {"no", "row", "link"} /\ at \in 0 .. Room /\ scrollLeft \in 0 .. Room /\ suppressClick \in BOOLEAN /\ acts \in 0 .. MaxActs

(* What of the tables on the page could be turned, when all have told what  *)
(* they can do.                                                             *)
Turnable(direction) ==
    {t \in mounted : Panels[t].footer /\ IF direction = "previous" THEN page[t] > 0 ELSE page[t] < count[t] - 1}

Settled == ToSet(registered) = mounted /\ \A t \in mounted : told[t] = Options(t, count[t], page[t])

(* A key turns a table on the page and with a footer; it is not lost on one *)
(* at its end while another one could be turned, the one with the focus     *)
(* comes first, and none out of view is turned instead of one in view.      *)
KeysTurnWhatIsSeen ==
    part = "keys" => \A direction \in {"previous", "next"} :
        LET t == findActivePagination(direction)
        IN /\ t # None => t \in mounted /\ Panels[t].footer
           /\ Settled => /\ t \in Turnable(direction) \/ (t = None /\ Turnable(direction) = {})
                         /\ focus \in Turnable(direction) => t = focus
                         /\ t \in {focus} \cup seen \/ Turnable(direction) \cap seen = {}

(* However old what a table told is, a key takes it to a page it has; only  *)
(* an answer may leave it beyond its last page.                             *)
PagesExist == \A t \in mounted : page[t] < count[t] \/ t \in shrunk

(* The keys add up: whatever was pressed during the scrolling, it ends      *)
(* where the presses lead one after the other, within the page.             *)
PressesAddUp == part = "scroll" /\ ~moving /\ ~disturbed => y = wanted

(* The header is pinned exactly while its table runs under it, once the     *)
(* frame of the last scroll event is over.                                  *)
HeaderFollowsScroll == part = "scroll" /\ ~scheduled /\ ~unseen => isStickyHeaderPinned = isPinned(tall)

(* A menu acts on the row it was opened for, and the expanded row is the    *)
(* one that was clicked, wherever it is listed by now; two menus are open   *)
(* only if the second was opened by key.                                    *)
RowsKeepTheirOwn ==
    part = "rows" => /\ \A a \in acted : a[1] = a[2]
                     /\ \A i \in DOMAIN Shown : isExpanded(i) => Shown[i] = expanded
                     /\ Cardinality(MenusOpen) > 1 => byKey

(* The box tells the page that is shown, unless somebody types in it, and   *)
(* nothing that is typed or chosen leads to a page that does not exist.     *)
BoxTellsPage ==
    part = "rows" => (pageIndex < pageCount \/ gone) /\ (~editing => pageInputValue = pageIndex + 1)

(* A click that ends a drag never opens the row under it, even if the table *)
(* is back where it was; a press that did not move always does, unless an   *)
(* earlier drag ended without a click: then it is taken for that one.       *)
ClickIsMeant ==
    part = "drag" => /\ \A c \in reached : (c.pulled => ~c.heard) /\ (~c.moved => c.heard)
                     /\ suppressClick => clicking \/ lost

(* The columns share the container: no pixel is given twice or left over    *)
(* while one may grow, no column is under its width, none over its limit.   *)
WidthsAddUp ==
    part = "rows" /\ acts = 0 => \A columns \in Columns, available \in Widths :
        LET w == distributeTableColumnWidths(columns, available)
            c == Unit(columns)
            room == Max({available, minimumWidth(columns)})
        IN /\ Total(columns, w) <= c * room
           /\ growCount(columns) > 0 => Total(columns, w) = c * room
           /\ \A i \in DOMAIN columns : /\ w[i] >= c * columns[i].width
                                         /\ ~columns[i].grow => w[i] <= c * columns[i].maxWidth
=============================================================================
