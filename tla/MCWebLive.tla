----------------------------- MODULE MCWebLive -----------------------------
(***************************************************************************)
(* The pages of the frontend, one open at a time.  Each runs on its own    *)
(* between the moment it is opened and the moment it is left: one run      *)
(* checks them all, each on the small instance given here.                 *)
(***************************************************************************)
EXTENDS Integers, FiniteSets, Sequences

VARIABLES
    page,        \* the page that is open
    profileKind, profileVersion, profileTold, profileLine, profileHub,
    profileEvents, profileShown, profileRequest, profileMissed, profileChanges,
    recordsRecords, recordsHidden, recordsMinimum, recordsMaximum,
    recordsField, recordsSort, recordsPageSort, recordsOptions, recordsFirsts,
    recordsPageSize, recordsPageIndex, recordsVisibleCount, recordsArmed,
    recordsActs,
    catalogScope, catalogType, catalogCompletion, catalogStatus,
    catalogSearchInput, catalogDeferredSearch, catalogMinimumTier,
    catalogMaximumTier, catalogPage, catalogArrived, catalogFailed,
    catalogActs,
    historyPart, historyValid, historyOpen, historyRecordType,
    historyShowPbOnly, historyShowBestPerDay, historyHighlighted,
    historyAnswers, historyFetching, historyFailed, historyAged,
    historyUnseen, historyAlive, historyReference, historyTarget,
    historyShown, historyPreviewing, historyUnread, historySent,
    historyRefused, historySurprise, historyView, historyLists, historyAsked,
    historyInvalid, historyMissed, historyCourse, historyErased, historyPrefs,
    historyBonus, historyLayer, historyRuns, historyClicked, historyLoggedIn,
    historyFrom, historyTo, historyDrafts, historyFocused, historyPreset,
    historyLow, historyHigh, historyActs,
    tabsPart, tabsStat, tabsActiveViewId, tabsIsPlaying, tabsLastYear,
    tabsLastYearId, tabsYearInputValue, tabsMetric, tabsChart, tabsPicked,
    tabsToday, tabsPlayed, tabsAllDays, tabsActiveView, tabsLastCalendarYear,
    tabsRange, tabsPinned, tabsCards, tabsRanked, tabsReading, tabsMutation,
    tabsMenu, tabsRequested, tabsMissed, tabsUnasked, tabsTwice, tabsMounted,
    tabsHiddenMaps, tabsAnswered, tabsFailing, tabsCompleted, tabsFilter,
    tabsProOnly, tabsSorts, tabsCounts, tabsObserver, tabsKept, tabsLeft,
    tabsLost, tabsStuck, tabsActs,
    keysPart, keysMounted, keysRegistered, keysCount, keysPage, keysTold,
    keysFocus, keysHover, keysSeen, keysShrunk, keysY, keysTarget, keysStartY,
    keysMoving, keysTall, keysScheduled, keysIsStickyHeaderPinned, keysWanted,
    keysDisturbed, keysUnseen, keysKnown, keysPageIndex, keysPageSize,
    keysPageInputValue, keysEditing, keysMenus, keysExpanded, keysByKey,
    keysSlid, keysActed, keysGone, keysWide, keysHeld, keysAt, keysHook,
    keysScrollLeft, keysSuppressClick, keysClicking, keysPulled, keysMoved,
    keysLost, keysReached, keysActs,
    browserPart, browserOnline, browserCrowd, browserSearch,
    browserSearchInput, browserSelected, browserConfig, browserConnected,
    browserMapDialogOpen, browserChartElement, browserChart, browserCharts,
    browserMapView, browserTheme, browserInitDeps, browserUpdateDeps,
    browserRoamed, browserOpened, browserPlayers, browserFailed,
    browserHydrated, browserReused, browserActs,
    namesPart, namesVersion, namesMounted, namesData, namesWaits, namesFailed,
    namesCached, namesOld, namesAged, namesInflight, namesBatches,
    namesEvents, namesMissed, namesRaced, namesDropped, namesWiped,
    namesFollowing, namesSummary, namesInvalid, namesFetching, namesMenuOpen,
    namesSent, namesElsewhere, namesOvertaken, namesPlayback, namesCalls,
    namesActiveAudio, namesToast, namesText, namesWanted, namesOutdated,
    namesListed, namesNow, namesXAxisMode, namesHighlightedUuid, namesTip,
    namesRedrawn, namesActs

profile == <<profileKind, profileVersion, profileTold, profileLine,
             profileHub, profileEvents, profileShown, profileRequest,
             profileMissed, profileChanges>>
records == <<recordsRecords, recordsHidden, recordsMinimum, recordsMaximum,
             recordsField, recordsSort, recordsPageSort, recordsOptions,
             recordsFirsts, recordsPageSize, recordsPageIndex,
             recordsVisibleCount, recordsArmed, recordsActs>>
catalog == <<catalogScope, catalogType, catalogCompletion, catalogStatus,
             catalogSearchInput, catalogDeferredSearch, catalogMinimumTier,
             catalogMaximumTier, catalogPage, catalogArrived, catalogFailed,
             catalogActs>>
history == <<historyPart, historyValid, historyOpen, historyRecordType,
             historyShowPbOnly, historyShowBestPerDay, historyHighlighted,
             historyAnswers, historyFetching, historyFailed, historyAged,
             historyUnseen, historyAlive, historyReference, historyTarget,
             historyShown, historyPreviewing, historyUnread, historySent,
             historyRefused, historySurprise, historyView, historyLists,
             historyAsked, historyInvalid, historyMissed, historyCourse,
             historyErased, historyPrefs, historyBonus, historyLayer,
             historyRuns, historyClicked, historyLoggedIn, historyFrom,
             historyTo, historyDrafts, historyFocused, historyPreset,
             historyLow, historyHigh, historyActs>>
tabs == <<tabsPart, tabsStat, tabsActiveViewId, tabsIsPlaying, tabsLastYear,
          tabsLastYearId, tabsYearInputValue, tabsMetric, tabsChart,
          tabsPicked, tabsToday, tabsPlayed, tabsAllDays, tabsActiveView,
          tabsLastCalendarYear, tabsRange, tabsPinned, tabsCards, tabsRanked,
          tabsReading, tabsMutation, tabsMenu, tabsRequested, tabsMissed,
          tabsUnasked, tabsTwice, tabsMounted, tabsHiddenMaps, tabsAnswered,
          tabsFailing, tabsCompleted, tabsFilter, tabsProOnly, tabsSorts,
          tabsCounts, tabsObserver, tabsKept, tabsLeft, tabsLost, tabsStuck,
          tabsActs>>
keys == <<keysPart, keysMounted, keysRegistered, keysCount, keysPage,
          keysTold, keysFocus, keysHover, keysSeen, keysShrunk, keysY,
          keysTarget, keysStartY, keysMoving, keysTall, keysScheduled,
          keysIsStickyHeaderPinned, keysWanted, keysDisturbed, keysUnseen,
          keysKnown, keysPageIndex, keysPageSize, keysPageInputValue,
          keysEditing, keysMenus, keysExpanded, keysByKey, keysSlid,
          keysActed, keysGone, keysWide, keysHeld, keysAt, keysHook,
          keysScrollLeft, keysSuppressClick, keysClicking, keysPulled,
          keysMoved, keysLost, keysReached, keysActs>>
browser == <<browserPart, browserOnline, browserCrowd, browserSearch,
             browserSearchInput, browserSelected, browserConfig,
             browserConnected, browserMapDialogOpen, browserChartElement,
             browserChart, browserCharts, browserMapView, browserTheme,
             browserInitDeps, browserUpdateDeps, browserRoamed, browserOpened,
             browserPlayers, browserFailed, browserHydrated, browserReused,
             browserActs>>
names == <<namesPart, namesVersion, namesMounted, namesData, namesWaits,
           namesFailed, namesCached, namesOld, namesAged, namesInflight,
           namesBatches, namesEvents, namesMissed, namesRaced, namesDropped,
           namesWiped, namesFollowing, namesSummary, namesInvalid,
           namesFetching, namesMenuOpen, namesSent, namesElsewhere,
           namesOvertaken, namesPlayback, namesCalls, namesActiveAudio,
           namesToast, namesText, namesWanted, namesOutdated, namesListed,
           namesNow, namesXAxisMode, namesHighlightedUuid, namesTip,
           namesRedrawn, namesActs>>

Profile == INSTANCE ProfileRealtime WITH kind <- profileKind, version <-
    profileVersion, told <- profileTold, line <- profileLine, hub <-
    profileHub, events <- profileEvents, shown <- profileShown, request <-
    profileRequest, missed <- profileMissed, changes <- profileChanges,
    MaxChanges <- 4

Records == INSTANCE RecordsTable WITH records <- recordsRecords, hidden <-
    recordsHidden, minimum <- recordsMinimum, maximum <- recordsMaximum, field
    <- recordsField, sort <- recordsSort, pageSort <- recordsPageSort, options
    <- recordsOptions, firsts <- recordsFirsts, pageSize <- recordsPageSize,
    pageIndex <- recordsPageIndex, visibleCount <- recordsVisibleCount, armed
    <- recordsArmed, acts <- recordsActs, N <- 3, Value <- <<2, 1, 2>>,
    MaxValue <- 2, Step <- 1, RankPage <- 1, MaxActs <- 4

CatalogFinished ==
    [s \in {"OVR", "KZT"} |-> [t \in {"NUB", "PRO"} |-> IF s = "KZT" THEN {2} ELSE IF t
    = "PRO" THEN {1} ELSE {1, 2}]]

Catalog == INSTANCE MapsCatalog WITH scope <- catalogScope, type <-
    catalogType, completion <- catalogCompletion, status <- catalogStatus,
    searchInput <- catalogSearchInput, deferredSearch <-
    catalogDeferredSearch, minimumTier <- catalogMinimumTier, maximumTier <-
    catalogMaximumTier, page <- catalogPage, arrived <- catalogArrived, failed
    <- catalogFailed, acts <- catalogActs, Maps <- 1 .. 3, Validated <- {1,
    2}, Tier <- <<1, 2, 1>>, Finished <- CatalogFinished, ProWrs <- {1, 2},
    PAGE_SIZE <- 1, MaxActs <- 2

HistoryRuns ==
    <<[day |-> 1, at |-> 1, time |-> 5, pro |-> FALSE, gap |-> TRUE], [day |->
    1, at |-> 2, time |-> 3, pro |-> TRUE, gap |-> TRUE], [day |-> 1, at |->
    3, time |-> 4, pro |-> TRUE, gap |-> TRUE], [day |-> 2, at |-> 3, time |->
    2, pro |-> TRUE, gap |-> FALSE]>>

HistoryColumns ==
    {"mode", "wrTime", "rank", "server"}

HistoryTexts ==
    {<<>>, <<90>>, <<1, 90>>, <<1, 5>>, <<3700>>, <<1, 5, 30>>}

History == INSTANCE RecordRuns WITH part <- historyPart, valid <-
    historyValid, open <- historyOpen, recordType <- historyRecordType,
    showPbOnly <- historyShowPbOnly, showBestPerDay <- historyShowBestPerDay,
    highlighted <- historyHighlighted, answers <- historyAnswers, fetching <-
    historyFetching, failed <- historyFailed, aged <- historyAged, unseen <-
    historyUnseen, alive <- historyAlive, reference <- historyReference,
    target <- historyTarget, shown <- historyShown, previewing <-
    historyPreviewing, unread <- historyUnread, sent <- historySent, refused
    <- historyRefused, surprise <- historySurprise, view <- historyView, lists
    <- historyLists, asked <- historyAsked, invalid <- historyInvalid, missed
    <- historyMissed, course <- historyCourse, erased <- historyErased, prefs
    <- historyPrefs, bonus <- historyBonus, layer <- historyLayer, runs <-
    historyRuns, clicked <- historyClicked, loggedIn <- historyLoggedIn, from
    <- historyFrom, to <- historyTo, drafts <- historyDrafts, focused <-
    historyFocused, preset <- historyPreset, low <- historyLow, high <-
    historyHigh, acts <- historyActs, Runs <- HistoryRuns, NativeOnly <- {3},
    Columns <- HistoryColumns, Texts <- HistoryTexts, MaxActs <- 4

TabsStats ==
    {[y \in {-2, -1, 1, 3, 4} |-> {"hours", "records"}], [y \in {-1, 1, 2, 3} |-> IF y =
    2 THEN {} ELSE IF y = 3 THEN {"records"} ELSE {"hours", "records"}], [y \in {-1, 3}
    |-> {"hours"}], [y \in {-2} |-> {}]}

TabsSeconds ==
    [d \in 20 .. 100 |-> (d % 5) * 2 + (IF d = 41 THEN 9 ELSE 1)]

TabsMaps ==
    <<[name |-> 2, tier |-> 1, metric |-> 5, wr |-> TRUE], [name |-> 1, tier
    |-> 2, metric |-> -1, wr |-> TRUE], [name |-> 5, tier |-> 1, metric |-> 7,
    wr |-> TRUE], [name |-> 3, tier |-> 2, metric |-> -1, wr |-> TRUE], [name
    |-> 4, tier |-> 1, metric |-> 5, wr |-> FALSE], [name |-> 6, tier |-> 0,
    metric |-> 1, wr |-> TRUE]>>

Tabs == INSTANCE ProfileTabs WITH part <- tabsPart, stat <- tabsStat,
    activeViewId <- tabsActiveViewId, isPlaying <- tabsIsPlaying, lastYear <-
    tabsLastYear, lastYearId <- tabsLastYearId, yearInputValue <-
    tabsYearInputValue, metric <- tabsMetric, chart <- tabsChart, picked <-
    tabsPicked, today <- tabsToday, played <- tabsPlayed, allDays <-
    tabsAllDays, activeView <- tabsActiveView, lastCalendarYear <-
    tabsLastCalendarYear, range <- tabsRange, pinned <- tabsPinned, cards <-
    tabsCards, ranked <- tabsRanked, reading <- tabsReading, mutation <-
    tabsMutation, menu <- tabsMenu, requested <- tabsRequested, missed <-
    tabsMissed, unasked <- tabsUnasked, twice <- tabsTwice, mounted <-
    tabsMounted, hiddenMaps <- tabsHiddenMaps, answered <- tabsAnswered,
    failing <- tabsFailing, completed <- tabsCompleted, filter <- tabsFilter,
    proOnly <- tabsProOnly, sorts <- tabsSorts, counts <- tabsCounts, observer
    <- tabsObserver, kept <- tabsKept, left <- tabsLeft, lost <- tabsLost,
    stuck <- tabsStuck, acts <- tabsActs, Stats <- TabsStats, CurrentYear <-
    4, Typed <- {0, 2, 3, 9}, Seconds <- TabsSeconds, YearDays <- 42,
    MonthDays <- 9, WindowDays <- 20, MinWeekGap <- 3, Days <- <<40, 41, 42,
    44>>, Pinnable <- {1, 2}, Maps <- TabsMaps, Filters <- {1 .. 6, {1, 3,
    4}}, PageSize <- 1, MaxActs <- 4

KeysPanels ==
    <<[footer |-> TRUE, area |-> 2], [footer |-> TRUE, area |-> 3], [footer
    |-> FALSE, area |-> 9]>>

KeysColumns ==
    {<<[width |-> 6, maxWidth |-> 9, grow |-> FALSE], [width |-> 5, maxWidth
    |-> 6, grow |-> FALSE], [width |-> 3, maxWidth |-> 3, grow |-> TRUE],
    [width |-> 4, maxWidth |-> 4, grow |-> TRUE], [width |-> 2, maxWidth |->
    2, grow |-> FALSE]>>, <<[width |-> 4, maxWidth |-> 4, grow |-> TRUE],
    [width |-> 2, maxWidth |-> 2, grow |-> FALSE]>>, <<[width |-> 5, maxWidth
    |-> 8, grow |-> FALSE]>>}

Keys == INSTANCE TableKeys WITH part <- keysPart, mounted <- keysMounted,
    registered <- keysRegistered, count <- keysCount, page <- keysPage, told
    <- keysTold, focus <- keysFocus, hover <- keysHover, seen <- keysSeen,
    shrunk <- keysShrunk, y <- keysY, target <- keysTarget, startY <-
    keysStartY, moving <- keysMoving, tall <- keysTall, scheduled <-
    keysScheduled, isStickyHeaderPinned <- keysIsStickyHeaderPinned, wanted <-
    keysWanted, disturbed <- keysDisturbed, unseen <- keysUnseen, known <-
    keysKnown, pageIndex <- keysPageIndex, pageSize <- keysPageSize,
    pageInputValue <- keysPageInputValue, editing <- keysEditing, menus <-
    keysMenus, expanded <- keysExpanded, byKey <- keysByKey, slid <- keysSlid,
    acted <- keysActed, gone <- keysGone, wide <- keysWide, held <- keysHeld,
    at <- keysAt, hook <- keysHook, scrollLeft <- keysScrollLeft,
    suppressClick <- keysSuppressClick, clicking <- keysClicking, pulled <-
    keysPulled, moved <- keysMoved, lost <- keysLost, reached <- keysReached,
    acts <- keysActs, Panels <- KeysPanels, MaxPages <- 3, innerHeight <- 5,
    Step <- 4, Offset <- 2, Heights <- {4, 12}, StickyOffset <- 1,
    HeaderHeight <- 1, Newest <- 5, Sizes <- {2, 3}, Typed <- {-1, 0, 2, 9},
    Columns <- KeysColumns, Widths <- {0, 6, 20, 22, 24, 31}, Room <- 2,
    MaxActs <- 4

BrowserFleet ==
    {[address |-> 1, name |-> 3, map |-> 1, tier |-> 2, group |-> "A", region |-> "EU",
    web |-> FALSE, steam |-> TRUE, max |-> 4, place |-> 1, at |-> 1], [address |-> 2,
    name |-> 1, map |-> 2, tier |-> -1, group |-> "A", region |-> "RU", web |-> FALSE,
    steam |-> FALSE, max |-> 4, place |-> 1, at |-> 2], [address |-> 3, name |-> 2, map
    |-> 1, tier |-> 2, group |-> "B", region |-> "EU", web |-> TRUE, steam |-> FALSE,
    max |-> 0, place |-> 0, at |-> 0], [address |-> 4, name |-> 4, map |-> 3, tier |->
    5, group |-> "B", region |-> "EU", web |-> FALSE, steam |-> TRUE, max |-> 4, place
    |-> 0, at |-> 3]}

BrowserCrowds ==
    {[s \in {[address |-> 1, name |-> 3, map |-> 1, tier |-> 2, group |-> "A", region
    |-> "EU", web |-> FALSE, steam |-> TRUE, max |-> 4, place |-> 1, at |-> 1], [address
    |-> 2, name |-> 1, map |-> 2, tier |-> -1, group |-> "A", region |-> "RU", web |->
    FALSE, steam |-> FALSE, max |-> 4, place |-> 1, at |-> 2], [address |-> 3, name |->
    2, map |-> 1, tier |-> 2, group |-> "B", region |-> "EU", web |-> TRUE, steam |->
    FALSE, max |-> 0, place |-> 0, at |-> 0], [address |-> 4, name |-> 4, map |-> 3,
    tier |-> 5, group |-> "B", region |-> "EU", web |-> FALSE, steam |-> TRUE, max |->
    4, place |-> 0, at |-> 3]} |-> IF s.address = 1 THEN 0 ELSE 4], [s \in {[address |->
    1, name |-> 3, map |-> 1, tier |-> 2, group |-> "A", region |-> "EU", web |-> FALSE,
    steam |-> TRUE, max |-> 4, place |-> 1, at |-> 1], [address |-> 2, name |-> 1, map
    |-> 2, tier |-> -1, group |-> "A", region |-> "RU", web |-> FALSE, steam |-> FALSE,
    max |-> 4, place |-> 1, at |-> 2], [address |-> 3, name |-> 2, map |-> 1, tier |->
    2, group |-> "B", region |-> "EU", web |-> TRUE, steam |-> FALSE, max |-> 0, place
    |-> 0, at |-> 0], [address |-> 4, name |-> 4, map |-> 3, tier |-> 5, group |-> "B",
    region |-> "EU", web |-> FALSE, steam |-> TRUE, max |-> 4, place |-> 0, at |-> 3]}
    |-> s.address % 3]}

BrowserWords ==
    [w \in {1} |-> {[address |-> 1, name |-> 3, map |-> 1, tier |-> 2, group |-> "A",
    region |-> "EU", web |-> FALSE, steam |-> TRUE, max |-> 4, place |-> 1, at |-> 1],
    [address |-> 3, name |-> 2, map |-> 1, tier |-> 2, group |-> "B", region |-> "EU",
    web |-> TRUE, steam |-> FALSE, max |-> 0, place |-> 0, at |-> 0]}]

BrowserLinks ==
    {[q |-> 0, status |-> "unsaid", hide_empty |-> "unsaid", hide_occupied |-> "unsaid",
    group |-> "unsaid", region |-> "unsaid", view |-> "unsaid", sort |-> "unsaid", dir
    |-> "unsaid"], [q |-> 0, status |-> "all", hide_empty |-> "true", hide_occupied |->
    "true", group |-> "A", region |-> "unsaid", view |-> "table", sort |-> "tier", dir
    |-> "unsaid"], [q |-> 0, status |-> "other", hide_empty |-> "false", hide_occupied
    |-> "true", group |-> "gone", region |-> "unsaid", view |-> "other", sort |->
    "other", dir |-> "unsaid"]}

BrowserLobbies ==
    {<<[name |-> 1, steamid64 |-> 11, avatar |-> 0, score |-> 300, timer |->
    20], [name |-> 2, steamid64 |-> 13, avatar |-> 7, score |-> 1400, timer
    |-> -1]>>, <<[name |-> 3, steamid64 |-> 0, avatar |-> 0, score |-> -1,
    timer |-> -1], [name |-> 1, steamid64 |-> 12, avatar |-> 0, score |-> 300,
    timer |-> -1], [name |-> 2, steamid64 |-> 13, avatar |-> 7, score |->
    1400, timer |-> -1]>>, <<[name |-> 3, steamid64 |-> 0, avatar |-> 0, score
    |-> -1, timer |-> -1]>>, <<>>, <<[name |-> 1, steamid64 |-> 12, avatar |->
    0, score |-> 300, timer |-> -1], [name |-> 2, steamid64 |-> 13, avatar |->
    7, score |-> 1400, timer |-> -1]>>}

BrowserAvatars ==
    [s \in {11, 12, 13} |-> s - 10]

BrowserTimes ==
    {0, 59, 60, 3599, 3600, 3661, 86399}

Browser == INSTANCE ServerViews WITH part <- browserPart, online <-
    browserOnline, crowd <- browserCrowd, search <- browserSearch, searchInput
    <- browserSearchInput, selected <- browserSelected, config <-
    browserConfig, connected <- browserConnected, mapDialogOpen <-
    browserMapDialogOpen, chartElement <- browserChartElement, chart <-
    browserChart, charts <- browserCharts, mapView <- browserMapView, theme <-
    browserTheme, initDeps <- browserInitDeps, updateDeps <-
    browserUpdateDeps, roamed <- browserRoamed, opened <- browserOpened,
    players <- browserPlayers, failed <- browserFailed, hydrated <-
    browserHydrated, reused <- browserReused, acts <- browserActs, Fleet <-
    BrowserFleet, Crowds <- BrowserCrowds, Words <- BrowserWords, Links <-
    BrowserLinks, Views <- {1, 2}, Lobbies <- BrowserLobbies, Avatars <-
    BrowserAvatars, Times <- BrowserTimes, MaxActs <- 3

NamesQueries ==
    <<[players |-> <<1>>, scope |-> 1, timed |-> TRUE], [players |-> <<2>>,
    scope |-> 2, timed |-> FALSE], [players |-> <<1, 2>>, scope |-> 1, timed
    |-> FALSE]>>

NamesWorldRecords ==
    <<[id |-> 1, holder |-> 1, time |-> 90, at |-> 1], [id |-> 2, holder |->
    1, time |-> 60, at |-> 3], [id |-> 3, holder |-> 2, time |-> 50, at |->
    3], [id |-> 4, holder |-> 1, time |-> 40, at |-> 7], [id |-> 5, holder |->
    3, time |-> 35, at |-> 9]>>

NamesAges ==
    {-90, -1, 0, 1, 59, 60, 3599, 3600, 7199, 7200, 7330, 7331, 86400, 93730,
    93731, 7 * 86400, 29 * 86400, 30 * 86400, 364 * 86400, 365 * 86400}

NamesMaxActs ==
    [names |-> 1, follow |-> 5, voice |-> 2, chart |-> 3]

Names == INSTANCE SharedDisplays WITH part <- namesPart, version <-
    namesVersion, mounted <- namesMounted, data <- namesData, waits <-
    namesWaits, failed <- namesFailed, cached <- namesCached, old <- namesOld,
    aged <- namesAged, inflight <- namesInflight, batches <- namesBatches,
    events <- namesEvents, missed <- namesMissed, raced <- namesRaced, dropped
    <- namesDropped, wiped <- namesWiped, following <- namesFollowing, summary
    <- namesSummary, invalid <- namesInvalid, fetching <- namesFetching,
    menuOpen <- namesMenuOpen, sent <- namesSent, elsewhere <- namesElsewhere,
    overtaken <- namesOvertaken, playback <- namesPlayback, calls <-
    namesCalls, activeAudio <- namesActiveAudio, toast <- namesToast, text <-
    namesText, wanted <- namesWanted, outdated <- namesOutdated, listed <-
    namesListed, now <- namesNow, xAxisMode <- namesXAxisMode, highlightedUuid
    <- namesHighlightedUuid, tip <- namesTip, redrawn <- namesRedrawn, acts <-
    namesActs, Queries <- NamesQueries, MaxBatches <- 2, Changing <- {1},
    WorldRecords <- NamesWorldRecords, Clocks <- {5, 9, 12}, Colours <- 2,
    BinWidth <- 2, Span <- 6, Bins <- {-8, -6, -2, 0, 2, 6}, Medians <- {-7,
    -6, -1, 0, 3, 6}, Plot <- 40, Markers <- {0, 3, 9, 14, 20, 30, 38, 40},
    LabelWidths <- {4, 9, 12}, Gap <- 2, Minute <- 60, Hour <- 3600, Day <-
    86400, Now <- 20000 * 86400 + 7200 + 130, Ages <- NamesAges, MaxActs <-
    NamesMaxActs, Spoken <- <<FALSE, TRUE>>, MaxPolls <- 1

Pages == {"profile", "records", "catalog", "history", "tabs", "keys",
          "browser", "names"}

Others ==
    /\ UNCHANGED page
    /\ IF page = "profile" THEN TRUE ELSE UNCHANGED profile
    /\ IF page = "records" THEN TRUE ELSE UNCHANGED records
    /\ IF page = "catalog" THEN TRUE ELSE UNCHANGED catalog
    /\ IF page = "history" THEN TRUE ELSE UNCHANGED history
    /\ IF page = "tabs" THEN TRUE ELSE UNCHANGED tabs
    /\ IF page = "keys" THEN TRUE ELSE UNCHANGED keys
    /\ IF page = "browser" THEN TRUE ELSE UNCHANGED browser
    /\ IF page = "names" THEN TRUE ELSE UNCHANGED names

Init ==
    /\ page \in Pages
    /\ Profile!Init
    /\ page # "profile" => profileKind = "steam"
    /\ Records!Init
    /\ Catalog!Init
    /\ History!Init
    /\ page # "history" => historyPart = "delete"
    /\ Tabs!Init
    /\ page # "tabs" => tabsPart = "activity"
    /\ Keys!Init
    /\ page # "keys" => keysPart = "rows" /\ keysKnown = 5
    /\ Browser!Init
    /\ page # "browser" => browserPart = "worldmap"
    /\ Names!Init
    /\ page # "names" => namesPart = "names"

Next ==
    \/ page = "profile" /\ Profile!Next /\ Others
    \/ page = "records" /\ Records!Next /\ Others
    \/ page = "catalog" /\ Catalog!Next /\ Others
    \/ page = "history" /\ History!Next /\ Others
    \/ page = "tabs" /\ Tabs!Next /\ Others
    \/ page = "keys" /\ Keys!Next /\ Others
    \/ page = "browser" /\ Browser!Next /\ Others
    \/ page = "names" /\ Names!Next /\ Others

vars == <<page, profile, records, catalog, history, tabs, keys, browser, names>>

Spec == Init /\ [][Next]_vars

FairSpec ==
    /\ Spec
    /\ WF_vars(page = "profile" /\ Profile!Progress /\ Others)
    /\ WF_vars(page = "records" /\ Records!Progress /\ Others)
    /\ WF_vars(page = "catalog" /\ Catalog!Progress /\ Others)
    /\ WF_vars(page = "names" /\ Names!Progress /\ Others)

(* Every variable of the pages keeps its type. *)
TypeOK ==
    /\ page = "profile" => Profile!TypeOK
    /\ page = "records" => Records!TypeOK
    /\ page = "catalog" => Catalog!TypeOK
    /\ page = "history" => History!TypeOK
    /\ page = "tabs" => Tabs!TypeOK
    /\ page = "keys" => Keys!TypeOK
    /\ page = "browser" => Browser!TypeOK
    /\ page = "names" => Names!TypeOK

(* What the tables, charts and lists show once nothing is under way is what
   the server has, or the loss is one of those named in their modules; what
   is pressed acts on what was meant; a page that is shown has rows;
   headings, sums, ticks, dates and filters agree with the rows under them:
   the records of a profile and their runs, the tabs of a profile, the
   catalog of maps, the servers, the keys and rows of every table, names,
   voices, dates and the charts of a map. *)
TablesAreTrue ==
    /\ page = "records" => Records!PageHasRows
    /\ page = "records" => Records!RanksFitOneRequest
    /\ page = "catalog" => Catalog!CompletionIsTrue
    /\ page = "catalog" => Catalog!SearchFindsMap
    /\ page = "history" => History!HistoryIsCurrent
    /\ page = "history" => History!HighlightIsVisible
    /\ page = "history" => History!CurrentPbIsBest
    /\ page = "history" => History!ListsForgetDeleted
    /\ page = "history" => History!DatesAreInOrder
    /\ page = "history" => History!DeltasTellProgress
    /\ page = "history" => History!FiltersUnderHeadings
    /\ page = "history" => History!TimesReadBack
    /\ page = "history" => History!DeletedWasShown
    /\ page = "history" => History!RefusedIsReadAgain
    /\ page = "history" => History!RowClickIsMeant
    /\ page = "tabs" => Tabs!ViewIsPicked
    /\ page = "tabs" => Tabs!PlaysAmongYears
    /\ page = "tabs" => Tabs!ChartIsOfView
    /\ page = "tabs" => Tabs!TypedYearsLead
    /\ page = "tabs" => Tabs!CalendarIsWhole
    /\ page = "tabs" => Tabs!LevelsTellActivity
    /\ page = "tabs" => Tabs!AnsweredDaysAreShown
    /\ page = "tabs" => Tabs!PinsAreTrue
    /\ page = "tabs" => Tabs!CompletionAddsUp
    /\ page = "tabs" => Tabs!UnknownComesLast
    /\ page = "tabs" => Tabs!MoreIsLoaded
    /\ page = "keys" => Keys!KeysTurnWhatIsSeen
    /\ page = "keys" => Keys!PagesExist
    /\ page = "keys" => Keys!PressesAddUp
    /\ page = "keys" => Keys!HeaderFollowsScroll
    /\ page = "keys" => Keys!RowsKeepTheirOwn
    /\ page = "keys" => Keys!ClickIsMeant
    /\ page = "keys" => Keys!BoxTellsPage
    /\ page = "keys" => Keys!WidthsAddUp
    /\ page = "browser" => Browser!SharedLinkShowsSame
    /\ page = "browser" => Browser!SomeMayBeShown
    /\ page = "browser" => Browser!OrderIsStable
    /\ page = "browser" => Browser!RegionsTellPlayers
    /\ page = "browser" => Browser!AliasesAreCounted
    /\ page = "browser" => Browser!BadgesAgree
    /\ page = "browser" => Browser!PointsAddUp
    /\ page = "browser" => Browser!MapIsCurrent
    /\ page = "browser" => Browser!ViewIsKept
    /\ page = "browser" => Browser!AvatarsAreTheirs
    /\ page = "browser" => Browser!PlayersInOrder
    /\ page = "names" => Names!NamesAreTheirs
    /\ page = "names" => Names!OneRequestAtATime
    /\ page = "names" => Names!NamesAreCurrent
    /\ page = "names" => Names!FollowIsTrue
    /\ page = "names" => Names!OnlyTheLastIsHeard
    /\ page = "names" => Names!TipIsTheRow
    /\ page = "names" => Names!LineTellsHolders
    /\ page = "names" => Names!ChartTellsRecords
    /\ page = "names" => Names!GapsAreOnAxis
    /\ page = "names" => Names!DatesTellTruth

(* A profile shows the last change it was told of in the end; scrolling
   brings every record; a sort by rank orders the page in hand and never
   turns it; a catalog page past the end is left for one that has maps; a
   name whose change was not heard of is read again; a press to hear a name
   is answered. *)
PagesCatchUp ==
    /\ page = "profile" => Profile!ProfileCatchesUp
    /\ page = "records" => Records!EveryRecordAppears
    /\ Records!RankSortKeepsPage
    /\ page = "catalog" => Catalog!PageComesBack
    /\ page = "names" => Names!NamesCatchUp

=============================================================================
