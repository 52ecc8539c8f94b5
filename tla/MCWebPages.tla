---------------------------- MODULE MCWebPages -----------------------------
(***************************************************************************)
(* The pages of the frontend, one open at a time.  Each runs on its own    *)
(* between the moment it is opened and the moment it is left: one run      *)
(* checks them all, each on the small instance given here.                 *)
(***************************************************************************)
EXTENDS Integers, FiniteSets, Sequences

VARIABLES
    page,        \* the page that is open
    s1, s2, s3, s4, s5, s6, s7, s8, s9, s10, s11, s12, s13, s14, s15, s16,
    s17, s18, s19, s20, s21, s22, s23, s24, s25, s26, s27, s28, s29, s30,
    s31, s32, s33, s34, s35, s36, s37, s38, s39, s40, s41, s42, s43, s44,
    s45, s46, s47, s48, s49, s50, s51, s52, s53

(* The variables of the open page are s1, s2, ... in the order in which its
   module declares them; those it does not need are 0. *)
after50 == <<s51, s52, s53>>
after46 == <<s47, s48, s49, s50, after50>>
after24 == <<s25, s26, s27, s28, s29, s30, s31, s32, s33, s34, s35, s36, s37,
    s38, s39, s40, s41, s42, s43, s44, s45, s46, after46>>
after23 == <<s24, after24>>
after20 == <<s21, s22, s23, after23>>
after19 == <<s20, after20>>
after18 == <<s19, after19>>
after16 == <<s17, s18, after18>>
after15 == <<s16, after16>>
after14 == <<s15, after15>>
after11 == <<s12, s13, s14, after14>>
after10 == <<s11, after11>>
after7 == <<s8, s9, s10, after10>>

Feed == INSTANCE RecentRecords WITH db <- s1, notes <- s2, changes <- s3,
    filter <- s4, rows <- s5, cache <- s6, asked <- s7, socket <- s8, joined
    <- s9, wire <- s10, lag <- s11, Runs <- 1 .. 2, Limit <- 1, MaxWire <-
    1, MaxChanges <- 3

Wall == INSTANCE RecentWrs WITH feed <- s1, owed <- s2, pages <- s3, fetch
    <- s4, failed <- s5, socket <- s6, joined <- s7, wire <- s8, torn <- s9,
    changes <- s10, Wrs <- 1 .. 3, Size <- 1, Cap <- 2, MaxChanges <- 3

Servers == INSTANCE ServerList WITH truth <- s1, told <- s2, list <- s3,
    seed <- s4, line <- s5, hub <- s6, post <- s7, added <- s8, lag <- s9,
    changes <- s10, Servers <- 1 .. 2, MaxWire <- 1, MaxChanges <- 3

FilteringFleet ==
    {[id |-> 1, group |-> "a", region |-> "EU", web |-> FALSE], [id |-> 2, group |->
    "b", region |-> "RU", web |-> FALSE], [id |-> 3, group |-> "b", region |-> "EU", web
    |-> TRUE]}

Filtering == INSTANCE ServerFilters WITH online <- s1, seeded <- s2, polled
    <- s3, search <- s4, route <- s5, saved <- s6, acts <- s7, Fleet <-
    FilteringFleet, MaxChanges <- 3

Reactions == INSTANCE ReactionBar WITH mine <- s1, others <- s2, wire <- s3,
    summary <- s4, given <- s7, overtaken <- s8, reverted <- s9, previous <-
    s5, mutation <- s6, astray <- s10, acts <- s11, Emojis <- 1 .. 2,
    MaxActs <- 4

Social == INSTANCE SocialLinks WITH links <- s1, created <- s2, shown <- s3,
    request <- s4, dialog <- s5, mismatch <- s6, bilibili <- s7, calls <-
    s8, crossed <- s9, astray <- s10, acts <- s11, Sites <- {"twitch"},
    Accounts <- {1, 2}, MaxStored <- 1, MaxLinks <- 2, MaxActs <- 3,
    MaxCalls <- 2

Presets == INSTANCE SavedPresets WITH stored <- s1, default <- s2, presets
    <- s3, view <- s4, open <- s5, presetName <- s6, hasDefault <- s7,
    wanted <- s8, overrun <- s9, dropped <- s10, acts <- s11, Tabs <- {1,
    2}, Names <- 1 .. 3, Views <- 0 .. 1, MAX_PRESETS <- 2, MaxActs <- 3

PagedKinds ==
    {"servers", "groups", "jumpstats", "gear", "comments"}

Paged == INSTANCE PagedTable WITH kind <- s1, failed <- s4, cache <- s2,
    fetching <- s3, pageIndex <- s5, pageSize <- s6, lastKnown <- s7,
    pageInput <- s8, typed <- s9, focused <- s10, synced <- s11, chosen <-
    s12, slipped <- s13, acts <- s14, Kinds <- PagedKinds, MaxItems <- 2,
    Sizes <- {1, 2}, MaxActs <- 3

ServerAdminTabs ==
    {"globalapi", "public", "groups"}

ServerAdmin == INSTANCE ServerAdmin WITH tab <- s1, mayApprove <- s2, server
    <- s3, list <- s4, loaded <- s5, request <- s6, answer <- s7, editing <-
    s8, draft <- s9, regenerating <- s10, selected <- s11, calls <- s12,
    copied <- s13, typed <- s14, unseen <- s15, unread <- s16, crossed <-
    s17, acts <- s18, Tabs <- ServerAdminTabs, Ids <- {1, 2}, MaxMark <- 2,
    MaxActs <- 3

VisitNumbers ==
    {"likes", "views", "friends", "detail"}

Visit == INSTANCE ProfileVisit WITH number <- s1, server <- s2, liked <- s3,
    player <- s4, canonical <- s5, tab <- s6, known <- s7, shown <- s8,
    request <- s9, stale <- s10, calls <- s11, viewed <- s12, synced <- s13,
    firstOwner <- s14, enabled <- s15, counted <- s16, twice <- s17, strayed
    <- s18, acts <- s19, Numbers <- VisitNumbers, Players <- 1 .. 2,
    MaxNumber <- 2, MaxCalls <- 2, MaxActs <- 3

TopStanding ==
    [t \in {"NUB", "PRO"} |-> [w \in {"all", "country", "friends"} |->
    IF w = "friends" THEN [count |-> 1, rank |-> 1]
    ELSE IF t = "PRO" THEN [count |-> 2, rank |-> 2]
    ELSE [count |-> 4, rank |-> IF w = "all" THEN 3 ELSE 2]]]

Top == INSTANCE MapTop WITH view <- s1, known <- s2, passed <- s3, points <-
    s4, boards <- s5, others <- s6, asked <- s7, answers <- s8, failed <-
    s10, stale <- s9, spotlight <- s11, rebuild <- s12, wandered <- s13,
    partial <- s14, acts <- s15, Maps <- 1 .. 2, Bonuses <- <<1, 0>>,
    Standing <- TopStanding, Whose <- {"all", "country", "friends"}, Size <-
    2, MaxActs <- 3

BoardsTabs ==
    {"players", "maps", "jumpstats", "community", "countries"}

BoardsFilters ==
    [t \in {"players", "maps", "jumpstats"} |-> IF t = "players" THEN {"all", "friends"}
    ELSE {"all", "other"}]

BoardsByFilter(all, others) == [f \in {"all", "country", "friends", "other"} |-> IF f = "all" THEN all ELSE others]

BoardsCount ==
    <<<<BoardsByFilter(3, 1), BoardsByFilter(2, 1)>>, <<BoardsByFilter(4, 1), BoardsByFilter(1, 1)>>>>

BoardsRank ==
    <<<<<<BoardsByFilter(2, 1), BoardsByFilter(2, 1)>>, <<BoardsByFilter(1, 0), BoardsByFilter(1, 0)>>>>,
      <<<<BoardsByFilter(3, 1), BoardsByFilter(1, 1)>>, <<BoardsByFilter(1, 0), BoardsByFilter(0, 0)>>>>>>

BoardsRated ==
    {[name |-> 1, value |-> 0], [name |-> 2, value |-> 1], [name |-> 3, value
    |-> 2], [name |-> 4, value |-> 2]}

Boards == INSTANCE Leaderboards WITH tab <- s1, scope <- s2, view <- s3,
    standing <- s4, reads <- s5, held <- s6, failed <- s7, locatedIn <- s12,
    lastKnown <- s8, target <- s9, calls <- s10, spotlight <- s11, detail <-
    s13, drifted <- s14, moved <- s15, acts <- s16, Tabs <- BoardsTabs,
    Filters <- BoardsFilters, Count <- BoardsCount, Rank <- BoardsRank,
    Rated <- BoardsRated, Sizes <- {1, 2}, MaxCalls <- 2, MaxActs <- 3

Bans == INSTANCE BanDesk WITH part <- s1, bans <- s2, status <- s3,
    pageIndex <- s4, list <- s5, request <- s6, failed <- s7, edit <- s8,
    saving <- s9, add <- s10, creating <- s11, report <- s12, sending <-
    s13, sent <- s14, slipped <- s15, unseen <- s16, emptied <- s17, acts <-
    s18, Ids <- 1 .. 3, MaxActs <- 4

SortsValue ==
    [m \in 1 .. 3 |-> [f \in {"bestRated", "overall", "reviewCount", "commentsCount",
    "name", "tier", "wr", "nub", "bonus", "pbTime", "pbDate", "ladder", "bhop",
    "created"} |-> IF f = "name" THEN m ELSE IF f \in {"bonus", "ladder", "created",
    "commentsCount"} THEN (m + 1) % 2 ELSE IF m = 1 THEN -1 ELSE IF f = "reviewCount"
    THEN 2 ELSE IF f \in {"wr", "nub", "tier"} THEN 3 - m ELSE 1]]

Sorts == INSTANCE MapSorts WITH signedIn <- s1, sortField <- s2,
    sortDirection <- s3, selectedSkill <- s4, selectedReviewSort <- s5,
    mapFilters <- s6, page <- s7, pageInputValue <- s8, stored <- s9,
    default <- s10, acts <- s11, Maps <- 1 .. 3, Value <- SortsValue, Bounds
    <- {-2, 0, 1, 2}, PAGE_SIZE <- 2, MaxActs <- 3

AdminMaps == INSTANCE AdminMaps WITH part <- s1, server <- s2,
    validatedFilter <- s3, pageIndex <- s4, data <- s5, request <- s6,
    editingMapId <- s7, tiers <- s8, mapValidationDrafts <- s9,
    mapAuthorDrafts <- s10, courseTierDrafts <- s11, isPending <- s12, calls
    <- s13, wish <- s14, excused <- s15, open <- s16, voice <- s17, fetching
    <- s18, held <- s19, text <- s20, asked <- s21, edited <- s22, acts <-
    s23, Maps <- {1, 2}, PAGE_SIZE <- 1, MaxActs <- 5

Polls_ == INSTANCE Polls WITH part <- s1, offset <- s2, server <- s3,
    openPoll <- s4, request <- s5, selections <- s6, pendingVote <- s7, vote
    <- s8, editor <- s9, options <- s10, endsAt <- s11, save <- s12,
    pendingAction <- s13, lifecycle <- s14, sent <- s15, missed <- s16,
    meant <- s17, wishedEnd <- s18, excused <- s19, acts <- s20,
    MAX_POLL_OPTIONS <- 3, MaxActs <- 4

Desk == INSTANCE AdminDesk WITH part <- s1, server <- s2, data <- s3,
    request <- s4, searching <- s5, missed <- s6, open <- s7, captured <-
    s8, form <- s9, touched <- s10, typed <- s11, stale <- s12, calls <-
    s13, wish <- s14, excused <- s15, altsOpen <- s16, selectedPlayer <-
    s17, searchInput <- s18, box <- s19, days <- s20, lookup <- s21, result
    <- s22, dropped <- s23, acts <- s24, Rows <- {1, 2}, MaxActs <- 3

Account == INSTANCE AccountSettings WITH part <- s1, profile <- s2, settings
    <- s3, reading <- s4, inputs <- s5, isEditing <- s6, typed <- s7, saving
    <- s8, answer <- s9, newest <- s10, unread <- s11, notes <- s12, bell <-
    s13, pageIndex <- s14, pageSize <- s15, asked <- s16, brought <- s17,
    known <- s18, behind <- s19, marks <- s20, hooks <- s21, cachedHooks <-
    s22, ids <- s23, add <- s24, editing <- s25, hookCalls <- s26, test <-
    s27, hooksRead <- s28, mine <- s29, stray <- s30, stored <- s31, tabs <-
    s32, chosen <- s33, reverted <- s34, theme <- s35, dark <- s36, worn <-
    s37, press <- s38, secret <- s39, shownSecret <- s40, status <- s41,
    confirm <- s42, secretCalls <- s43, usurped <- s44, app <- s45,
    cachedApp <- s46, appRead <- s47, appCalls <- s48, overlap <- s49, acts
    <- s50, MaxActs <- 3

PairTimes ==
    [NUB |-> <<<<10, 12, 11>>, <<11, 12, 0>>, <<0, 0, 0>>>>, PRO |-> <<<<12,
    0, 14>>, <<13, 0, 0>>, <<0, 0, 0>>>>]

Pair == INSTANCE CompareAndSetup WITH part <- s1, url <- s2, earlier <- s3,
    selectionError <- s4, aliased <- s5, added <- s6, answers <- s7, asked
    <- s8, failed <- s9, runType <- s10, onlyBoth <- s11, filters <- s12,
    sort <- s13, pageIndex <- s14, pageSize <- s15, wanted <- s16, setting
    <- s17, settingHeld <- s18, wrs <- s19, mapsHeld <- s20, setup <- s21,
    held <- s22, form <- s23, disks <- s24, save <- s25, clean <- s26, size
    <- s27, removed <- s28, product <- s29, query <- s30, search <- s31,
    timer <- s32, expanded <- s33, active <- s34, products <- s35, results
    <- s36, custom <- s37, create <- s38, chosen <- s39, late <- s40,
    category <- s41, gearPage <- s42, gearSize <- s43, used <- s44, gear <-
    s45, acts <- s46, Times <- PairTimes, Tiers <- <<1, 2, 1, 0, -1>>,
    MaxActs <- 3

NewsReviews ==
    <<[id |-> 1, lang |-> "en", comment |-> TRUE], [id |-> 2, lang |-> "ru", comment |->
    TRUE], [id |-> 3, lang |-> "en", comment |-> FALSE], [id |-> 4, lang |-> "en",
    comment |-> TRUE]>>

News == INSTANCE ReviewsAndNews WITH part <- s1, site <- s2, game <- s3,
    newer <- s4, held <- s5, loading <- s6, broken <- s7, open <- s8, form
    <- s9, saving <- s10, deleting <- s11, cleared <- s12, typed <- s13,
    list <- s14, view <- s15, answers <- s16, stale <- s17, reading <- s18,
    refused <- s19, confirming <- s20, removing <- s21, shrunk <- s22,
    unheard <- s23, wall <- s24, turn <- s25, told <- s26, asked <- s27,
    given <- s28, expired <- s29, failed <- s30, text <- s31, posting <-
    s32, killing <- s33, passed <- s34, kind <- s35, skew <- s36, blocked <-
    s37, now <- s38, newest <- s39, got <- s40, visited <- s41, stored <-
    s42, memory <- s43, away <- s44, seen <- s45, counts <- s46, sort <-
    s47, pages <- s48, fetching <- s49, submitted <- s50, refreshing <- s51,
    overtaken <- s52, acts <- s53, Reviews <- NewsReviews, PAGE_SIZE <- 1,
    Posts <- 1..3, MaxActs <- 3

Unused50 == s51 = 0 /\ s52 = 0 /\ s53 = 0
Unused46 == s47 = 0 /\ s48 = 0 /\ s49 = 0 /\ s50 = 0 /\ Unused50
Unused24 == s25 = 0 /\ s26 = 0 /\ s27 = 0 /\ s28 = 0 /\ s29 = 0 /\ s30 = 0 /\
    s31 = 0 /\ s32 = 0 /\ s33 = 0 /\ s34 = 0 /\ s35 = 0 /\ s36 = 0 /\ s37 = 0
    /\ s38 = 0 /\ s39 = 0 /\ s40 = 0 /\ s41 = 0 /\ s42 = 0 /\ s43 = 0 /\ s44 =
    0 /\ s45 = 0 /\ s46 = 0 /\ Unused46
Unused23 == s24 = 0 /\ Unused24
Unused20 == s21 = 0 /\ s22 = 0 /\ s23 = 0 /\ Unused23
Unused19 == s20 = 0 /\ Unused20
Unused18 == s19 = 0 /\ Unused19
Unused16 == s17 = 0 /\ s18 = 0 /\ Unused18
Unused15 == s16 = 0 /\ Unused16
Unused14 == s15 = 0 /\ Unused15
Unused11 == s12 = 0 /\ s13 = 0 /\ s14 = 0 /\ Unused14
Unused10 == s11 = 0 /\ Unused11
Unused7 == s8 = 0 /\ s9 = 0 /\ s10 = 0 /\ Unused10

Init ==
    \/ page = "feed" /\ Feed!Init /\ Unused11
    \/ page = "wall" /\ Wall!Init /\ Unused10
    \/ page = "servers" /\ Servers!Init /\ Unused10
    \/ page = "filtering" /\ Filtering!Init /\ Unused7
    \/ page = "reactions" /\ Reactions!Init /\ Unused11
    \/ page = "social" /\ Social!Init /\ Unused11
    \/ page = "presets" /\ Presets!Init /\ Unused11
    \/ page = "paged" /\ Paged!Init /\ Unused14
    \/ page = "serverAdmin" /\ ServerAdmin!Init /\ Unused18
    \/ page = "visit" /\ Visit!Init /\ Unused19
    \/ page = "top" /\ Top!Init /\ Unused15
    \/ page = "boards" /\ Boards!Init /\ Unused16
    \/ page = "bans" /\ Bans!Init /\ Unused18
    \/ page = "sorts" /\ Sorts!Init /\ Unused11
    \/ page = "adminMaps" /\ AdminMaps!Init /\ Unused23
    \/ page = "polls_" /\ Polls_!Init /\ Unused20
    \/ page = "desk" /\ Desk!Init /\ Unused24
    \/ page = "account" /\ Account!Init /\ Unused50
    \/ page = "pair" /\ Pair!Init /\ Unused46
    \/ page = "news" /\ News!Init

Next ==
    /\ UNCHANGED page
    /\ \/ page = "feed" /\ Feed!Next /\ UNCHANGED after11
       \/ page = "wall" /\ Wall!Next /\ UNCHANGED after10
       \/ page = "servers" /\ Servers!Next /\ UNCHANGED after10
       \/ page = "filtering" /\ Filtering!Next /\ UNCHANGED after7
       \/ page = "reactions" /\ Reactions!Next /\ UNCHANGED after11
       \/ page = "social" /\ Social!Next /\ UNCHANGED after11
       \/ page = "presets" /\ Presets!Next /\ UNCHANGED after11
       \/ page = "paged" /\ Paged!Next /\ UNCHANGED after14
       \/ page = "serverAdmin" /\ ServerAdmin!Next /\ UNCHANGED after18
       \/ page = "visit" /\ Visit!Next /\ UNCHANGED after19
       \/ page = "top" /\ Top!Next /\ UNCHANGED after15
       \/ page = "boards" /\ Boards!Next /\ UNCHANGED after16
       \/ page = "bans" /\ Bans!Next /\ UNCHANGED after18
       \/ page = "sorts" /\ Sorts!Next /\ UNCHANGED after11
       \/ page = "adminMaps" /\ AdminMaps!Next /\ UNCHANGED after23
       \/ page = "polls_" /\ Polls_!Next /\ UNCHANGED after20
       \/ page = "desk" /\ Desk!Next /\ UNCHANGED after24
       \/ page = "account" /\ Account!Next /\ UNCHANGED after50
       \/ page = "pair" /\ Pair!Next /\ UNCHANGED after46
       \/ page = "news" /\ News!Next

vars == <<page, s1, s2, s3, s4, s5, s6, s7, after7>>

Spec == Init /\ [][Next]_vars

(* Every variable of the pages keeps its type. *)
TypeOK ==
    /\ page = "feed" => Feed!TypeOK
    /\ page = "wall" => Wall!TypeOK
    /\ page = "servers" => Servers!TypeOK
    /\ page = "filtering" => Filtering!TypeOK
    /\ page = "reactions" => Reactions!TypeOK
    /\ page = "social" => Social!TypeOK
    /\ page = "presets" => Presets!TypeOK
    /\ page = "paged" => Paged!TypeOK
    /\ page = "serverAdmin" => ServerAdmin!TypeOK
    /\ page = "visit" => Visit!TypeOK
    /\ page = "top" => Top!TypeOK
    /\ page = "boards" => Boards!TypeOK
    /\ page = "bans" => Bans!TypeOK
    /\ page = "sorts" => Sorts!TypeOK
    /\ page = "adminMaps" => AdminMaps!TypeOK
    /\ page = "polls_" => Polls_!TypeOK
    /\ page = "desk" => Desk!TypeOK
    /\ page = "account" => Account!TypeOK
    /\ page = "pair" => Pair!TypeOK
    /\ page = "news" => News!TypeOK

(* Once nothing is under way, a page shows what the server last told it of,
   or the loss is one of those named in its module: the feed of runs, the
   wall of world records, the servers, reactions and how often each was
   given, the numbers of a profile, the page of a map, polls, second
   accounts, the card of the account, the bell, the theme, the secret of the
   bot, a comparison, the review of the user, the dots and counts of what is
   new. *)
ShownIsCurrent ==
    /\ page = "feed" => Feed!FeedIsCurrent
    /\ page = "wall" => Wall!WallHasNoGap
    /\ page = "servers" => Servers!ListIsCurrent
    /\ page = "reactions" => Reactions!MyReactionsAreShown
    /\ page = "reactions" => Reactions!CountsAreServed
    /\ page = "visit" => Visit!ShownIsTheirs
    /\ page = "top" => Top!PageIsTrue
    /\ page = "polls_" => Polls_!MyVoteIsShown
    /\ page = "desk" => Desk!AltsMatchInputs
    /\ page = "account" => Account!CardTellsTruth
    /\ page = "account" => Account!BellIsTrue
    /\ page = "account" => Account!PageWearsTheme
    /\ page = "account" => Account!HoldingKeepsTheme
    /\ page = "account" => Account!ShownSecretIsLive
    /\ page = "account" => Account!TestsItsOwn
    /\ page = "pair" => Pair!PairIsTwo
    /\ page = "pair" => Pair!CompletionTellsTruth
    /\ page = "pair" => Pair!FieldShowsProduct
    /\ page = "news" => News!FormIsMyReview
    /\ page = "news" => News!DotTellsNews
    /\ page = "news" => News!CountsAreShown


(* What was typed or chosen is saved as it was meant, or still a draft,
   unless the dialog it is in was closed by another save: the expiry of a
   ban, the fields of a server, presets, the status, authors and tiers of
   maps, the text of a pronunciation, the ticks, options and end of a poll,
   the fields of players and users, the profile and the appearance, a setup
   with its sizes, a review. *)
WorkIsKept ==
    /\ page = "bans" => Bans!ExpiryIsKept
    /\ page = "serverAdmin" => ServerAdmin!DraftIsKept
    /\ page = "presets" => Presets!PresetsAreKept
    /\ page = "adminMaps" => AdminMaps!WishesAreKept
    /\ page = "adminMaps" => AdminMaps!LeavingAsks
    /\ page = "adminMaps" => AdminMaps!TextIsFresh
    /\ page = "polls_" => Polls_!TicksAreAllowed
    /\ page = "polls_" => Polls_!LabelsFollowVotes
    /\ page = "polls_" => Polls_!EndIsKept
    /\ page = "desk" => Desk!FieldsAreKept
    /\ page = "desk" => Desk!TypedIsKept
    /\ page = "account" => Account!SavesAreMine
    /\ page = "account" => Account!ChoicesAreKept
    /\ page = "pair" => Pair!SetupIsKept
    /\ page = "pair" => Pair!SizeIsKept
    /\ page = "pair" => Pair!SpeedIsKept
    /\ page = "pair" => Pair!ChosenIsKept
    /\ page = "pair" => Pair!FiltersAreKept
    /\ page = "news" => News!TypedIsShown

(* A reader is on the page that was chosen, or on the one of the player
   looked for, and it has rows, unless the standings or the chosen view
   changed meanwhile or a page could not be read. *)
ReaderKeepsPage ==
    /\ page = "paged" => Paged!ReaderKeepsPage
    /\ page = "boards" => Boards!PageHasRows
    /\ page = "boards" => Boards!PlayerIsFound
    /\ page = "top" => Top!MeIsFound
    /\ page = "top" => Top!RanksAreMine
    /\ page = "pair" => Pair!RunsPageHasRows
    /\ page = "pair" => Pair!GearPageHasRows
    /\ page = "news" => News!ReviewsPageHasRows
    /\ page = "news" => News!CommentsPageHasRows

(* Sorting and filtering agree with what the headings say, whatever is
   unknown of a row. *)
OrdersAreRight ==
    /\ page = "sorts" => Sorts!OrderIsTotal
    /\ page = "sorts" => Sorts!RangesTellTruth
    /\ page = "boards" => Boards!RowsAreInOrder
    /\ page = "polls_" => Polls_!ResultsAreInOrder
    /\ page = "pair" => Pair!RunsAreInOrder
    /\ page = "pair" => Pair!WinsMatchGaps

(* A visit is counted once, an expensive query is asked only when it is
   wanted, and a report is sent once. *)
OnceIsEnough ==
    /\ page = "bans" => Bans!OneReport
    /\ page = "visit" => Visit!VisitIsCountedOnce
    /\ page = "visit" => Visit!FirstOnlyWhenAsked
    /\ page = "news" => News!VideosAppearOnce

(* No stored or combined filter hides everything without a control to take
   it back. *)
FiltersCanBeUndone ==
    /\ page = "filtering" => Filtering!FiltersLeaveSomething
    /\ page = "sorts" => Sorts!SettingsComeBack
    /\ page = "desk" => Desk!BoxIsTrue

(* The effects of the server filters do not set each other off for ever. *)
EffectsSettle ==
    [][page = "filtering" => Filtering!Settles]_vars

=============================================================================
