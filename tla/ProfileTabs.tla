---------------------------- MODULE ProfileTabs ----------------------------
(***************************************************************************)
(* The tabs of a profile: the statistics by period with their playback and *)
(* the field for a year, the calendar of activity, the pinned records with *)
(* their menu, and the maps the player has not finished.  Periods and days *)
(* are numbers; a year is a positive one.                                  *)
(***************************************************************************)
EXTENDS Integers, Sequences, FiniteSets, SequencesExt

CONSTANTS
    Stats,        \* what may be answered: functions from periods to the metrics they have data of
    CurrentYear,  \* the year the server takes for the current one
    Typed,        \* what is typed into the field for a year, 0 for nothing
    Seconds,      \* [day |-> seconds]: the activity of a day, if the player plays on it
    YearDays, MonthDays, WindowDays, MinWeekGap,  \* the calendar
    Days,         \* the days that pass
    Pinnable,     \* runs that may be pinned
    Maps,         \* a sequence of [name, tier, metric, wr], metric NoValue if unknown
    Filters,      \* what the search and the tier let through: sets of maps
    PageSize,     \* rows that are added at a time
    MaxActs       \* bound on what people do and what goes wrong

VARIABLES
    part,         \* "stats", "activity", "pins" or "unfinished"
    stat, activeViewId, isPlaying, lastYear, lastYearId, yearInputValue, metric, chart,  \* statistics
    picked,       \* history: the period a person chose, NoYear when it is not up to them
    today, played, allDays, activeView, lastCalendarYear, range,   \* activity
    pinned, cards, ranked, reading, mutation, menu, requested,     \* pins
    missed, unasked, twice,     \* history: the cards are not known to be right; a menu opened unasked; a run unpinned twice
    mounted, hiddenMaps, answered, failing, completed, filter, proOnly, sorts, counts, observer, kept, \* unfinished
    left, lost, stuck,          \* history: the view when it was left; it was not restored; rows appeared unobserved
    acts

stats == <<stat, activeViewId, isPlaying, lastYear, lastYearId, yearInputValue, metric, chart, picked>>
activity == <<today, played, allDays, activeView, lastCalendarYear, range>>
pins == <<pinned, cards, ranked, reading, mutation, menu, requested, missed, unasked, twice>>
unfinished == <<mounted, hiddenMaps, answered, failing, completed, filter, proOnly, sorts, counts, observer, kept, left, lost, stuck>>
vars == <<part, stats, activity, pins, unfinished, acts>>

Acts(p) == part = p /\ acts < MaxActs /\ acts' = acts + 1 /\ UNCHANGED part
Only(p) == part = p /\ UNCHANGED <<part, acts>>
KeepStats == UNCHANGED <<activity, pins, unfinished>>
KeepActivity == UNCHANGED <<stats, pins, unfinished>>
KeepPins == UNCHANGED <<stats, activity, unfinished>>
KeepUnfinished == UNCHANGED <<stats, activity, pins>>

-----------------------------------------------------------------------------
(* Statistics: the card of the maps; that of the servers has hours only.    *)

AllTime == -1
Last365Days == -2
NoYear == 0
NoChart == <<NoYear, "none">>

getMapViewEntry(s, v) == IF v \in DOMAIN s THEN s[v] ELSE {}
yearsWith(s) == {y \in DOMAIN s : y > 0 /\ getMapViewEntry(s, y) # {}}
yearViewIds(s) == SetToSortSeq(yearsWith(s), LAMBDA y, z : y < z)

defaultYearId(s) ==
    IF CurrentYear \in yearsWith(s) THEN CurrentYear
    ELSE IF yearsWith(s) = {} THEN NoYear ELSE Max(yearsWith(s))

BugallowedViews(s, v) == v

(* The view that is not of the answer any more is given up.                 *)
allowedViews(s, v) == IF v \in yearsWith(s) \cup {AllTime, Last365Days} THEN v ELSE AllTime

BugstopsPlaying(s) == yearsWith(s) = {}

stopsPlaying(s) == Cardinality(yearsWith(s)) < 2

hasChartData(s, v, m) == m \in getMapViewEntry(s, v)

BuginitChart(s, v, m) == chart # NoChart /\ hasChartData(s, v, m)

(* The chart is made when there is something to draw and drawn anew with it.*)
initChart(s, v, m) == hasChartData(s, v, m)

option(v, m) == <<v, m>>
Drawn(s, v, m) == chart' = (IF initChart(s, v, m) THEN option(v, m) ELSE NoChart)

isCalendarYear == activeViewId \in yearsWith(stat)
Committed == yearInputValue = lastYearId

(* A view is shown, and the fields follow it if it is a year.               *)
Show(v) ==
    LET year == v \in yearsWith(stat)
    IN /\ activeViewId' = v
       /\ lastYear' = (IF year THEN v ELSE lastYear) /\ lastYearId' = (IF year THEN v ELSE lastYearId)
       /\ yearInputValue' = (IF year THEN v ELSE yearInputValue)
       /\ Drawn(stat, v, metric) /\ UNCHANGED <<stat, metric>>

StatsInit ==
    /\ stat \in Stats /\ activeViewId = AllTime /\ isPlaying = FALSE /\ picked = AllTime /\ metric = "hours"
    /\ lastYear = defaultYearId(stat) /\ lastYearId = defaultYearId(stat) /\ yearInputValue = defaultYearId(stat)
    /\ chart = (IF hasChartData(stat, AllTime, "hours") THEN <<AllTime, "hours">> ELSE NoChart)

(* Another answer, or another player whose answer is cached: first the      *)
(* effects of the field, then those of the card.                            *)
StatChanges ==
    /\ Acts("stats") /\ KeepStats /\ stat' \in Stats \ {stat}
    /\ LET known == lastYearId \in yearsWith(stat')
           shown == activeViewId \in yearsWith(stat')
       IN /\ lastYearId' = (IF shown THEN activeViewId ELSE IF known THEN lastYearId ELSE defaultYearId(stat'))
          /\ yearInputValue' = (IF shown THEN activeViewId ELSE IF known THEN yearInputValue ELSE defaultYearId(stat'))
          /\ lastYear' = (IF shown THEN activeViewId ELSE lastYear)
    /\ activeViewId' = allowedViews(stat', activeViewId)
    /\ isPlaying' = (isPlaying /\ ~stopsPlaying(stat'))
    /\ picked' = (IF activeViewId' = activeViewId THEN picked ELSE NoYear)
    /\ Drawn(stat', activeViewId', metric) /\ UNCHANGED metric

later(s, v) == {y \in yearsWith(s) : y > v}

nextYear(s, v) ==
    IF v \notin yearsWith(s) THEN defaultYearId(s)
    ELSE Min(IF later(s, v) = {} THEN yearsWith(s) ELSE later(s, v))

(* Two seconds of playback.                                                 *)
Tick ==
    /\ Only("stats") /\ KeepStats /\ isPlaying /\ yearsWith(stat) # {}
    /\ Show(nextYear(stat, activeViewId)) /\ UNCHANGED <<isPlaying, picked>>

togglePlayback ==
    /\ Acts("stats") /\ KeepStats /\ Committed /\ isCalendarYear /\ Cardinality(yearsWith(stat)) >= 2
    /\ isPlaying' = ~isPlaying /\ picked' = (IF isPlaying THEN activeViewId ELSE NoYear)
    /\ UNCHANGED <<stat, activeViewId, lastYear, lastYearId, yearInputValue, metric, chart>>

BugplayingAfterTab == isPlaying

playingAfterTab == FALSE

BugyearOfTab == lastYear

yearOfTab == IF lastYear \in yearsWith(stat) THEN lastYear ELSE defaultYearId(stat)

onValueChange ==
    /\ Acts("stats") /\ KeepStats /\ Committed /\ isPlaying' = playingAfterTab
    /\ \/ \E v \in {AllTime, Last365Days} : v # activeViewId /\ Show(v) /\ picked' = v
       \/ ~isCalendarYear /\ yearsWith(stat) # {} /\ Show(yearOfTab) /\ picked' = yearOfTab

setMetric ==
    /\ Acts("stats") /\ KeepStats /\ Committed /\ metric' = (IF metric = "hours" THEN "records" ELSE "hours")
    /\ Drawn(stat, activeViewId, metric')
    /\ UNCHANGED <<stat, activeViewId, isPlaying, lastYear, lastYearId, yearInputValue, picked>>

setYearInputValue ==
    /\ Acts("stats") /\ KeepStats /\ isCalendarYear /\ yearInputValue' \in Typed \ {yearInputValue}
    /\ UNCHANGED <<stat, activeViewId, isPlaying, lastYear, lastYearId, metric, chart, picked>>

BugclosestYearId(s, typed) == IF typed \in yearsWith(s) THEN typed ELSE Last(yearViewIds(s))

(* The first year that is not before the typed one, within those there are. *)
closestYearId(s, typed) ==
    LET ids == yearViewIds(s)
        clamped == IF typed < ids[1] THEN ids[1] ELSE IF typed > Last(ids) THEN Last(ids) ELSE typed
    IN SelectSeq(ids, LAMBDA y : y >= clamped)[1]

activateYear(y) == Show(y) /\ isPlaying' = FALSE /\ picked' = y

commitYearInputValue ==
    /\ Acts("stats") /\ KeepStats /\ isCalendarYear /\ activateYear(closestYearId(stat, yearInputValue))

activateYearByIndex ==
    /\ Acts("stats") /\ KeepStats /\ Committed /\ isCalendarYear
    /\ \E y \in yearsWith(stat) \ {lastYearId} :
        /\ \A z \in yearsWith(stat) : ~(y < z /\ z < lastYearId) /\ ~(lastYearId < z /\ z < y)
        /\ activateYear(y)

-----------------------------------------------------------------------------
(* Activity.  Days are numbered from a Sunday; a cell is a day or Empty.    *)

Empty == -1
Rolling == 0
Weekday(d) == d % 7
YearOf(d) == 1 + (d \div YearDays)
MonthOf(d) == d \div MonthDays

BugstartDayOfWeek(start) == (Weekday(start) + 6) % 7

startDayOfWeek(start) == Weekday(start)

currentWeek(n) == [i \in 1 .. n |-> Empty]

weeks(start, end) ==
    LET days == currentWeek(startDayOfWeek(start)) \o [i \in 1 .. end - start + 1 |-> start + i - 1]
        cells == days \o currentWeek((7 - (Len(days) % 7)) % 7)
    IN [w \in 1 .. Len(cells) \div 7 |-> SubSeq(cells, 7 * w - 6, 7 * w)]

(* The weeks whose first day is of another month than that of the week before.*)
monthLabels(rows) ==
    LET first == [w \in DOMAIN rows |-> MonthOf(SelectSeq(rows[w], LAMBDA c : c # Empty)[1])]
        starts == {w \in DOMAIN rows : w = 1 \/ first[w] # first[w - 1]}
        order == SetToSortSeq(starts, LAMBDA v, w : v < w)
    IN [k \in DOMAIN order |-> [month |-> first[order[k]], week |-> order[k]]]

BugtooNear(previous, label) == label.week - previous.week < MinWeekGap - 1

tooNear(previous, label) == label.week - previous.week < MinWeekGap

spacedMonthLabels(rows) ==
    FoldLeft(LAMBDA labels, label :
                IF labels = <<>> \/ ~tooNear(Last(labels), label) THEN Append(labels, label)
                ELSE IF Last(labels).week = 1 THEN Append(Front(labels), label) ELSE labels,
             <<>>, monthLabels(rows))

(* Quartiles of what was played, times four.                                *)
activityThresholds(values) ==
    LET sorted == SortSeq(SelectSeq(values, LAMBDA v : v > 0), LAMBDA v, w : v < w)
        at(p) == LET lower == ((Len(sorted) - 1) * p) \div 4
                     rest == ((Len(sorted) - 1) * p) % 4
                 IN 4 * sorted[lower + 1] + (IF rest = 0 THEN 0 ELSE (sorted[lower + 2] - sorted[lower + 1]) * rest)
    IN IF sorted = <<>> THEN <<>> ELSE <<at(1), at(2), at(3)>>

BuggetActivityLevel(seconds, thresholds) == IF seconds <= 0 THEN 0 ELSE 1 + Cardinality({k \in DOMAIN thresholds : 4 * seconds > thresholds[k]})

getActivityLevel(seconds, thresholds) ==
    IF seconds <= 0 THEN 0 ELSE 1 + Cardinality({k \in DOMAIN thresholds : 4 * seconds >= thresholds[k]})

countsByDate(days, r) == {d \in days : d \in r[1] .. r[2]}
Thresholds(days, r) == LET ds == SetToSeq(countsByDate(days, r)) IN activityThresholds([k \in DOMAIN ds |-> Seconds[ds[k]]])

activityYears(days, now) == IF days = {} THEN {YearOf(now)} ELSE {YearOf(d) : d \in days}
lastActivityYear(days, now) == Max(activityYears(days, now))

rangeOf(v, now) ==
    IF v = Rolling THEN <<now - WindowDays + 1, now>> ELSE <<(v - 1) * YearDays, v * YearDays - 1>>

ActivityInit ==
    /\ today = Days[1] /\ played = {} /\ allDays = {} /\ activeView = Rolling
    /\ lastCalendarYear = YearOf(Days[1]) /\ range = rangeOf(Rolling, Days[1])

(* The answer does not come with days after its own.                        *)
Play ==
    /\ Acts("activity") /\ KeepActivity /\ today \notin played /\ played' = played \cup {today}
    /\ UNCHANGED <<today, allDays, activeView, lastCalendarYear, range>>

Midnight ==
    /\ Acts("activity") /\ KeepActivity /\ \E k \in 1 .. Len(Days) - 1 : Days[k] = today /\ today' = Days[k + 1]
    /\ UNCHANGED <<played, allDays, activeView, lastCalendarYear, range>>

BugdependsOnDays == FALSE

dependsOnDays == TRUE

(* The calendar is made again for another view or other days, and the year  *)
(* that has none is given up.                                               *)
ReadActivity ==
    /\ Acts("activity") /\ KeepActivity /\ allDays' = played /\ allDays' # allDays
    /\ activeView' = (IF activeView \in {Rolling} \cup activityYears(allDays', today) THEN activeView ELSE Rolling)
    /\ range' = (IF dependsOnDays \/ activeView' # activeView THEN rangeOf(activeView', today) ELSE range)
    /\ UNCHANGED <<today, played, lastCalendarYear>>

setActiveView ==
    /\ Acts("activity") /\ KeepActivity
    /\ \/ activeView # Rolling /\ activeView' = Rolling /\ UNCHANGED lastCalendarYear
       \/ /\ activeView = Rolling
          /\ activeView' = (IF lastCalendarYear \in activityYears(allDays, today) THEN lastCalendarYear ELSE lastActivityYear(allDays, today))
          /\ lastCalendarYear' = activeView'
       \/ /\ activeView # Rolling /\ activeView' \in activityYears(allDays, today) \ {activeView}
          /\ lastCalendarYear' = activeView'
    /\ range' = rangeOf(activeView', today) /\ UNCHANGED <<today, played, allDays>>

-----------------------------------------------------------------------------
(* Pins: runs with their ranks, which are kept for the set they are of.     *)

NoRun == 0
Idle == [op |-> "none", run |-> NoRun, out |-> "none"]

(* The ranks of another set are asked for; until then there are no cards.   *)
CardsShown == cards \in ranked
mutating == mutation # Idle

(* A card that is not rendered any more takes its menu with it.             *)
Unmounted(shown) ==
    /\ menu' = (IF menu \in shown THEN menu ELSE NoRun)
    /\ requested' = requested \cap shown

PinsInit ==
    /\ pinned \in {{}, Pinnable} /\ cards = pinned /\ ranked = {{}, pinned} /\ reading = FALSE /\ mutation = Idle
    /\ menu = NoRun /\ requested = {} /\ missed = FALSE /\ unasked = FALSE /\ twice = FALSE

onContextMenu ==
    /\ Acts("pins") /\ KeepPins /\ CardsShown
    /\ \E r \in cards \ {menu} : menu' = r /\ requested' = (requested \ {menu}) \cup {r}
    /\ UNCHANGED <<pinned, cards, ranked, reading, mutation, missed, unasked, twice>>

BugrequestAfterClose(r) == requested

requestAfterClose(r) == requested \ {r}

(* A press closes the menu that is open; it opens one only that is awaited. *)
onOpenChange ==
    /\ Acts("pins") /\ KeepPins /\ CardsShown
    /\ \/ menu # NoRun /\ menu' = NoRun /\ requested' = requestAfterClose(menu) /\ UNCHANGED unasked
       \/ /\ menu = NoRun /\ UNCHANGED requested
          /\ \E r \in cards : menu' = (IF r \in requested THEN r ELSE NoRun) /\ unasked' = (unasked \/ r \in requested)
    /\ UNCHANGED <<pinned, cards, ranked, reading, mutation, missed, twice>>

mutatePin ==
    /\ Acts("pins") /\ KeepPins /\ ~mutating
    /\ \/ /\ CardsShown /\ menu # NoRun /\ mutation' = [op |-> "unpin", run |-> menu, out |-> "sent"]
          /\ twice' = (twice \/ (~missed /\ menu \notin pinned))
       \/ \E r \in Pinnable \ cards : mutation' = [op |-> "pin", run |-> r, out |-> "sent"] /\ UNCHANGED twice
    /\ UNCHANGED <<pinned, cards, ranked, reading, menu, requested, missed, unasked>>

BugawaitInvalidation == Idle

(* The mutation is under way until the list has been read again.            *)
awaitInvalidation == [mutation EXCEPT !.out = "reading"]

PinAnswer ==
    /\ Only("pins") /\ KeepPins /\ mutation.out = "sent"
    /\ pinned' = (IF mutation.op = "pin" THEN pinned \cup {mutation.run} ELSE pinned \ {mutation.run})
    /\ mutation' = awaitInvalidation /\ reading' = TRUE
    /\ UNCHANGED <<cards, ranked, menu, requested, missed, unasked, twice>>

PinFails ==
    /\ Acts("pins") /\ KeepPins /\ mutation.out = "sent" /\ mutation' = Idle
    /\ pinned' \in {pinned, IF mutation.op = "pin" THEN pinned \cup {mutation.run} ELSE pinned \ {mutation.run}}
    /\ missed' = TRUE
    /\ UNCHANGED <<cards, ranked, reading, menu, requested, unasked, twice>>

ReadPins ==
    /\ Only("pins") /\ KeepPins /\ reading /\ reading' = FALSE /\ cards' = pinned /\ missed' = FALSE
    /\ mutation' = (IF mutation.out = "reading" THEN Idle ELSE mutation)
    /\ Unmounted(IF cards' \in ranked THEN cards' ELSE {}) /\ UNCHANGED <<pinned, ranked, unasked, twice>>

ReadPinsFails ==
    /\ Acts("pins") /\ KeepPins /\ reading /\ reading' = FALSE /\ missed' = TRUE
    /\ mutation' = (IF mutation.out = "reading" THEN Idle ELSE mutation)
    /\ UNCHANGED <<pinned, cards, ranked, menu, requested, unasked, twice>>

(* Ranks that cannot be read leave the cards without.                       *)
ReadRanks ==
    /\ Only("pins") /\ KeepPins /\ ~CardsShown /\ ranked' = ranked \cup {cards}
    /\ UNCHANGED <<pinned, cards, reading, mutation, menu, requested, missed, unasked, twice>>

PinnedElsewhere ==
    /\ Acts("pins") /\ KeepPins /\ \E r \in Pinnable : pinned' = (IF r \in pinned THEN pinned \ {r} ELSE pinned \cup {r})
    /\ missed' = TRUE /\ reading' \in {reading, TRUE}
    /\ UNCHANGED <<cards, ranked, mutation, menu, requested, unasked, twice>>

-----------------------------------------------------------------------------
(* Unfinished maps.                                                         *)

NoValue == -1
Types == {"NUB", "PRO"}
NoView == <<>>
MapIds == DOMAIN Maps

getTier(m) == IF Maps[m].tier = NoValue THEN NoValue ELSE Min({Max({Maps[m].tier, 0}), 8})

BugrequireWrAvailability(t) == FALSE

requireWrAvailability(t) == t = "PRO"

buildProfileUnfinishedRows(maps, records, t) ==
    {m \in maps : (requireWrAvailability(t) => Maps[m].wr) /\ getTier(m) \notin {NoValue, 0} /\ m \notin records}

(* The cards of completion: what they count and how much of it is done.     *)
tierByMapId(maps, t) == {m \in maps : (t = "PRO" => Maps[m].wr) /\ getTier(m) \notin {NoValue, 0}}

BugbuildCompletionCard(maps, records, t) == [completed |-> Cardinality(records), total |-> Cardinality(tierByMapId(maps, t))]

buildCompletionCard(maps, records, t) ==
    [completed |-> Cardinality(records \cap tierByMapId(maps, t)), total |-> Cardinality(tierByMapId(maps, t))]

compareText(m, n) == Maps[m].name - Maps[n].name
ValueIn(column, m) == IF column = "tier" THEN getTier(m) ELSE Maps[m].metric

BugisBefore(sort, m, n) == LET c == IF sort.column = "map" THEN compareText(m, n) ELSE ValueIn(sort.column, m) - ValueIn(sort.column, n) IN IF sort.direction = "asc" THEN c < 0 ELSE c > 0

isBefore(sort, m, n) ==
    LET unknown(k) == sort.column = "metric" /\ Maps[k].metric = NoValue
        difference == IF sort.column = "map" \/ (unknown(m) /\ unknown(n)) THEN 0 ELSE ValueIn(sort.column, m) - ValueIn(sort.column, n)
        comparison == IF difference = 0 THEN compareText(m, n) ELSE difference
    IN IF unknown(m) # unknown(n) THEN unknown(n)
       ELSE IF sort.direction = "asc" THEN comparison < 0 ELSE comparison > 0

sortProfileUnfinishedRows(rows, sort) == SetToSortSeq(rows, LAMBDA m, n : isBefore(sort, m, n))

visibleMaps(hidden, answer) == IF answer THEN MapIds \ hidden ELSE MapIds
rowsOf(t, h, a, c, f) == buildProfileUnfinishedRows(visibleMaps(h, a), c, t) \cap f
Size(t) == Cardinality(rowsOf(t, hiddenMaps, answered, completed, filter))

Selected(pro) == IF pro THEN "PRO" ELSE "NUB"
NewSize(t) == Cardinality(rowsOf(t, hiddenMaps', answered', completed', filter'))

SectionShown == mounted /\ answered /\ ~failing
View == <<filter, sorts, proOnly>>

BugdependsOn(t, pro) == counts'[t] # counts[t] \/ NewSize(t) # Size(t)

(* What makes the observer of a type be set up again.                       *)
dependsOn(t, pro) == counts'[t] # counts[t] \/ NewSize(t) # Size(t) \/ pro # proOnly'

(* The effects after rows or counts have changed: the counts start anew with*)
(* another number of rows, and the rows of the selected type are observed   *)
(* if there are more of them and they are on screen.                        *)
Reset == counts' = (IF \E t \in Types : NewSize(t) # Size(t) THEN [t \in Types |-> IF NewSize(t) < PageSize THEN NewSize(t) ELSE PageSize] ELSE counts)
Target(t) == SectionShown' /\ Selected(proOnly') = t /\ counts'[t] < NewSize(t)
Observed ==
    /\ observer' = [t \in Types |-> IF dependsOn(t, proOnly) THEN (IF Target(t) THEN "live" ELSE "none")
                                    ELSE IF observer[t] = "live" /\ ~SectionShown' THEN "dead" ELSE observer[t]]
    /\ stuck' = (Target(Selected(proOnly')) /\ observer'[Selected(proOnly')] # "live" /\ (stuck \/ ~SectionShown))

Kept == UNCHANGED <<kept, left, lost>>

UnfinishedInit ==
    /\ mounted = FALSE /\ hiddenMaps = {1} /\ answered \in BOOLEAN /\ failing = FALSE /\ completed = {2}
    /\ filter = MapIds /\ proOnly = FALSE /\ sorts = [t \in Types |-> [column |-> "map", direction |-> "asc"]]
    /\ counts = [t \in Types |-> PageSize] /\ observer = [t \in Types |-> "none"]
    /\ kept = NoView /\ left = NoView /\ lost = FALSE /\ stuck = FALSE

(* The tab is opened: with the view that was left, and all effects run.     *)
Mount ==
    /\ Acts("unfinished") /\ KeepUnfinished /\ ~mounted /\ mounted' = TRUE
    /\ UNCHANGED <<hiddenMaps, answered, failing, completed, kept, left>>
    /\ IF kept = NoView
       THEN filter' = MapIds /\ sorts' = [t \in Types |-> [column |-> "map", direction |-> "asc"]] /\ UNCHANGED proOnly
       ELSE filter' = kept[1] /\ sorts' = kept[2] /\ proOnly' = kept[3]
    /\ counts' = [t \in Types |-> IF NewSize(t) < PageSize THEN NewSize(t) ELSE PageSize]
    /\ observer' = [t \in Types |-> IF Target(t) THEN "live" ELSE "none"]
    /\ lost' = (lost \/ (left # NoView /\ View' # left)) /\ stuck' = FALSE

BugcurrentView == IF kept = NoView THEN <<MapIds, [t \in Types |-> [column |-> "map", direction |-> "asc"]], FALSE>> ELSE kept

currentView == View

Unmount ==
    /\ Acts("unfinished") /\ KeepUnfinished /\ mounted /\ mounted' = FALSE
    /\ kept' = currentView /\ left' = View /\ observer' = [t \in Types |-> "none"] /\ stuck' = FALSE
    /\ UNCHANGED <<hiddenMaps, answered, failing, completed, filter, proOnly, sorts, counts, lost>>

(* The tab of the records has the same switch.                              *)
onIsProOnlyChange ==
    /\ Acts("unfinished") /\ KeepUnfinished /\ proOnly' = ~proOnly /\ (mounted => SectionShown)
    /\ UNCHANGED <<mounted, hiddenMaps, answered, failing, completed, filter, sorts, counts>> /\ Kept
    /\ IF mounted THEN Observed ELSE UNCHANGED <<observer, stuck>>

setFilter ==
    /\ Acts("unfinished") /\ KeepUnfinished /\ SectionShown /\ filter' \in Filters \ {filter}
    /\ UNCHANGED <<mounted, hiddenMaps, answered, failing, completed, proOnly, sorts>> /\ Kept /\ Reset /\ Observed

nextSort(sort, column) ==
    [column |-> column,
     direction |-> IF sort.column = column THEN (IF sort.direction = "asc" THEN "desc" ELSE "asc")
                   ELSE IF column = "map" THEN "asc" ELSE "desc"]

handleSortChange ==
    /\ Acts("unfinished") /\ KeepUnfinished /\ SectionShown
    /\ \E column \in {"map", "tier", "metric"} : sorts' = [sorts EXCEPT ![Selected(proOnly)] = nextSort(@, column)]
    /\ UNCHANGED <<mounted, hiddenMaps, answered, failing, completed, filter, proOnly, counts, observer, stuck>> /\ Kept

LoadMore ==
    /\ Only("unfinished") /\ KeepUnfinished /\ SectionShown
    /\ LET t == Selected(proOnly)
       IN /\ observer[t] = "live" /\ counts[t] < Size(t)
          /\ counts' = [counts EXCEPT ![t] = IF @ + PageSize < Size(t) THEN @ + PageSize ELSE Size(t)]
    /\ UNCHANGED <<mounted, hiddenMaps, answered, failing, completed, filter, proOnly, sorts>> /\ Kept /\ Observed

(* The hidden maps are known, a map is hidden or shown, or one is finished. *)
RowsChange ==
    /\ Acts("unfinished") /\ KeepUnfinished /\ mounted
    /\ \/ ~answered /\ answered' = TRUE /\ UNCHANGED <<hiddenMaps, completed>>
       \/ SectionShown /\ \E m \in {1, 3} : hiddenMaps' = (IF m \in hiddenMaps THEN hiddenMaps \ {m} ELSE hiddenMaps \cup {m}) /\ UNCHANGED <<answered, completed>>
       \/ \E m \in MapIds \ completed : completed' = completed \cup {m} /\ UNCHANGED <<hiddenMaps, answered>>
    /\ UNCHANGED <<mounted, failing, filter, proOnly, sorts>> /\ Kept /\ Reset /\ Observed

(* One of its queries fails or recovers: an alert stands in the rows' place.*)
QueryFails ==
    /\ Acts("unfinished") /\ KeepUnfinished /\ mounted /\ failing' = ~failing
    /\ UNCHANGED <<mounted, hiddenMaps, answered, completed, filter, proOnly, sorts, counts>> /\ Kept /\ Observed

-----------------------------------------------------------------------------
Init ==
    /\ part \in {"stats", "activity", "pins", "unfinished"} /\ acts = 0
    /\ StatsInit /\ ActivityInit /\ PinsInit /\ UnfinishedInit
    /\ part # "stats" => stat = CHOOSE s \in Stats : TRUE
    /\ part # "pins" => pinned = {}
    /\ part # "unfinished" => ~answered

Next ==
    \/ StatChanges \/ Tick \/ togglePlayback \/ onValueChange \/ setMetric
    \/ setYearInputValue \/ commitYearInputValue \/ activateYearByIndex
    \/ Play \/ Midnight \/ ReadActivity \/ setActiveView
    \/ onContextMenu \/ onOpenChange \/ mutatePin \/ PinAnswer \/ PinFails
    \/ ReadPins \/ ReadPinsFails \/ ReadRanks \/ PinnedElsewhere
    \/ Mount \/ Unmount \/ onIsProOnlyChange \/ setFilter \/ handleSortChange
    \/ LoadMore \/ RowsChange \/ QueryFails

Spec == Init /\ [][Next]_vars

-----------------------------------------------------------------------------
TypeOK ==
    /\ stat \in Stats /\ isPlaying \in BOOLEAN /\ metric \in {"hours", "records"} /\ lastYearId \in Nat
    /\ played \subseteq Range(Days) /\ allDays \subseteq played /\ activeView \in Nat
    /\ pinned \subseteq Pinnable /\ cards \subseteq Pinnable /\ menu \in Pinnable \cup {NoRun} /\ requested \subseteq Pinnable
    /\ completed \subseteq MapIds /\ hiddenMaps \subseteq MapIds /\ observer \in [Types -> {"none", "live", "dead"}]

(* The period on screen is the one the person chose, whatever has been      *)
(* played back before and whichever answer came since; if the answer does   *)
(* not have it any more another takes its place.                            *)
ViewIsPicked == picked # NoYear => activeViewId = picked

(* What is on screen is a period of the answer, playback goes on only among *)
(* several years, and a year that is given up is not returned to.           *)
PlaysAmongYears ==
    /\ activeViewId \in yearsWith(stat) \cup {AllTime, Last365Days}
    /\ isPlaying => Cardinality(yearsWith(stat)) >= 2

(* The chart shows the period and metric on screen, and there is one        *)
(* whenever there is something to show, also after there was nothing.       *)
ChartIsOfView == chart = (IF hasChartData(stat, activeViewId, metric) THEN <<activeViewId, metric>> ELSE NoChart)

(* A typed year leads to a year there is, to itself if it is one, and a     *)
(* later one never leads to an earlier year; nothing leads to the first.    *)
TypedYearsLead ==
    part = "stats" /\ acts = 0 => \A s \in {r \in Stats : yearsWith(r) # {}}, typed, more \in Typed :
        /\ closestYearId(s, typed) \in yearsWith(s)
        /\ typed \in yearsWith(s) => closestYearId(s, typed) = typed
        /\ typed <= more => closestYearId(s, typed) <= closestYearId(s, more)

(* Every day of a range has one cell, in the row of its day of the week,    *)
(* and the labels of the months do not overlap.                             *)
CalendarIsWhole ==
    part = "activity" /\ acts = 0 => \A start \in 0 .. 8, size \in 1 .. 40 :
        LET rows == weeks(start, start + size - 1)
            labels == spacedMonthLabels(rows)
        IN /\ \A d \in start .. start + size - 1 : Cardinality({w \in DOMAIN rows : rows[w][Weekday(d) + 1] = d}) = 1
           /\ \A k \in 2 .. Len(labels) : labels[k].week - labels[k - 1].week >= MinWeekGap
           /\ \A k \in DOMAIN labels : \E d \in Range(rows[labels[k].week]) : d # Empty /\ MonthOf(d) = labels[k].month

(* The level of a day tells how it compares: none only if nothing was       *)
(* played, more for more, and the highest for the most.                     *)
LevelsTellActivity ==
    LET shown == countsByDate(allDays, range)
        level(d) == getActivityLevel(Seconds[d], Thresholds(allDays, range))
    IN \A d \in shown :
        /\ (level(d) = 0) = (Seconds[d] = 0)
        /\ \A e \in shown : Seconds[e] <= Seconds[d] => level(e) <= level(d)
        /\ (Seconds[d] > 0 /\ \A e \in shown : Seconds[e] <= Seconds[d]) => level(d) = 4

(* Every day the answer has is on the calendar of its year, which can be    *)
(* chosen, and no answered day comes after the end of the rolling calendar. *)
AnsweredDaysAreShown ==
    /\ allDays # {} => activeView \in {Rolling} \cup activityYears(allDays, today)
    /\ \A d \in allDays : activeView = Rolling => d <= range[2]
    /\ \A d \in allDays : activeView = YearOf(d) => d \in range[1] .. range[2]

(* A run is unpinned once, and its menu opens only where it is asked for: a *)
(* press on the card follows its link.  Cards are the runs that are pinned. *)
PinsAreTrue ==
    /\ ~unasked /\ ~twice /\ (menu # NoRun => menu \in cards)
    /\ (~missed /\ ~mutating /\ ~reading) => cards = pinned

(* The maps that are listed as unfinished and those the cards of completion *)
(* count as done make up the maps they count, for both types.               *)
CompletionAddsUp ==
    part = "unfinished" => \A t \in Types :
        LET card == buildCompletionCard(visibleMaps(hiddenMaps, answered), completed, t)
        IN card.completed + Cardinality(rowsOf(t, hiddenMaps, answered, completed, MapIds)) = card.total

(* In both directions the maps without a value come last, and the other     *)
(* direction lists those with one in reverse.                               *)
UnknownComesLast ==
    part = "unfinished" /\ acts = 0 => \A column \in {"tier", "metric"} :
        LET up == sortProfileUnfinishedRows(MapIds, [column |-> column, direction |-> "asc"])
            down == sortProfileUnfinishedRows(MapIds, [column |-> column, direction |-> "desc"])
            has(m) == column = "tier" \/ Maps[m].metric # NoValue
        IN /\ \A i, j \in MapIds : i < j /\ has(up[j]) => has(up[i])
           /\ \A i, j \in MapIds : i < j /\ has(down[j]) => has(down[i])
           /\ SelectSeq(down, has) = Reverse(SelectSeq(up, has))

(* Wherever more rows can be listed their end is observed, unless they      *)
(* appeared when no effect was due; what was chosen on the tab is there     *)
(* again when the player comes back to it.                                  *)
MoreIsLoaded ==
    /\ (SectionShown /\ counts[Selected(proOnly)] < Size(Selected(proOnly)) /\ ~stuck) => observer[Selected(proOnly)] = "live"
    /\ ~lost
=============================================================================
