---------------------------- MODULE ServerViews ----------------------------
(***************************************************************************)
(* What the server browser shows of the servers it knows: the list with    *)
(* its search, order, numbers, link to share and file of aliases, the      *)
(* sheet of one server, the dialog with the world map, and the players on  *)
(* a card.  How the group and the region are tidied is in ServerFilters.   *)
(***************************************************************************)
EXTENDS Integers, Sequences, FiniteSets, SequencesExt

CONSTANTS
    Fleet,        \* servers: [address, name, map, tier, group, region, web, steam, max, place, at], names and maps being numbers
    Crowds,       \* functions from Fleet to the players on each
    Words,        \* what is searched for: functions from words to sets of servers that have them, 0 for nothing
    Links,        \* searches as they come with an address, a field that is not there being "unsaid"
    Views,        \* where the map may be looked at
    Lobbies,      \* sequences of players: [name, steamid64, avatar, score, timer]
    Avatars,      \* [steamid64 |-> the avatar that is looked up]
    Times,        \* seconds to be shown
    MaxActs       \* bound on what people do and what changes

VARIABLES
    part,         \* "browse", "worldmap" or "card"
    online, crowd, search, searchInput, selected, config, connected,  \* browse
    mapDialogOpen, chartElement, chart, charts, mapView, theme, initDeps, updateDeps, roamed, opened, \* worldmap
    players, failed, hydrated, reused,  \* card; reused: chips whose picture failed for somebody else
    acts

browse == <<search, searchInput, selected, config, connected>>
worldmap == <<mapDialogOpen, chartElement, chart, charts, mapView, theme, initDeps, updateDeps, roamed, opened>>
card == <<players, failed, hydrated, reused>>
vars == <<part, online, crowd, browse, worldmap, card, acts>>

Acts(p) == part = p /\ acts < MaxActs /\ acts' = acts + 1 /\ UNCHANGED part
Only(p) == part = p /\ UNCHANGED <<part, acts>>
KeepBrowse == UNCHANGED <<worldmap, card>>
KeepMap == UNCHANGED <<browse, card>>
KeepCard == UNCHANGED <<online, crowd, browse, worldmap>>

None == 0
isServerOnline(s) == s \in online
getServerPlayerCount(s) == crowd[s]

-----------------------------------------------------------------------------
(* The search, as the address has it and as the page has it.                *)

DEFAULT_SERVERS_SEARCH ==
    [q |-> None, status |-> "online", hide_empty |-> FALSE, hide_occupied |-> FALSE, group |-> "all",
     region |-> "all", view |-> "grid", sort |-> "players", dir |-> "desc"]

Allowed == [status |-> {"online", "offline"}, group |-> {s.group : s \in Fleet} \cup {"all"},
            region |-> {s.region : s \in Fleet} \cup {"all"}, view |-> {"grid", "table"},
            sort |-> {"players", "hostname", "map", "tier"}, dir |-> {"asc", "desc"}]

BughideOccupied(raw) == raw.hide_occupied = "true"

(* The occupied servers are not hidden together with the empty ones.        *)
hideOccupied(raw) == raw.hide_occupied = "true" /\ raw.hide_empty # "true"

normalizeServersSearch(raw) ==
    LET valid(field) == IF raw[field] \in Allowed[field] THEN raw[field] ELSE DEFAULT_SERVERS_SEARCH[field]
    IN [q |-> raw.q, status |-> IF raw.status = "all" THEN "offline" ELSE valid("status"),
        hide_empty |-> raw.hide_empty = "true", hide_occupied |-> hideOccupied(raw),
        group |-> valid("group"), region |-> valid("region"), view |-> valid("view"), sort |-> valid("sort"), dir |-> valid("dir")]

Flag(b) == IF b THEN "true" ELSE "false"
Raw(s) == [s EXCEPT !.hide_empty = Flag(s.hide_empty), !.hide_occupied = Flag(s.hide_occupied)]
Patched(s) == normalizeServersSearch(Raw(s))

BugincludeDefaults == FALSE

(* A link to share tells the defaults, too.                                 *)
includeDefaults == TRUE

createServersSearchParams(s) ==
    [field \in DOMAIN s |-> IF includeDefaults \/ s[field] # DEFAULT_SERVERS_SEARCH[field] \/ field = "q" THEN Raw(s)[field] ELSE "unsaid"]

(* What the address does not say is as the visitor last had it.             *)
hydratedInitialSearch(url, preferences) ==
    normalizeServersSearch([field \in DOMAIN url |->
        IF field \in DOMAIN preferences /\ url[field] = "unsaid" THEN preferences[field] ELSE url[field]])

Preferences == {[group |-> g, region |-> r, sort |-> k, dir |-> d] :
                   g \in Allowed.group, r \in Allowed.region, k \in {"players", "map"}, d \in Allowed.dir}

-----------------------------------------------------------------------------
(* The list.                                                                *)

matchesServerSearch(s, q) == q = None \/ s \in Words[q]
matchesServerStatusFilter(s, status) == (status = "online") = isServerOnline(s)
matchesServerGroupFilter(s, group) == group = "all" \/ s.group = group
matchesRegion(s, region) == region = "all" \/ s.region = region

filteredServers ==
    {s \in Fleet : /\ matchesServerStatusFilter(s, search.status)
                   /\ ~(search.hide_empty /\ getServerPlayerCount(s) = 0)
                   /\ ~(search.hide_occupied /\ getServerPlayerCount(s) > 0)
                   /\ matchesServerGroupFilter(s, search.group) /\ matchesRegion(s, search.region)
                   /\ matchesServerSearch(s, searchInput)}

SortValue(s, key) ==
    CASE key = "hostname" -> s.name
      [] key = "map" -> s.map
      [] key = "tier" -> s.tier
      [] OTHER -> getServerPlayerCount(s)

BugisBefore(s, t, key, dir) ==
    LET v == SortValue(s, key)  w == SortValue(t, key)
    IN IF v # w THEN (v < w) = (dir = "asc") ELSE (s.name < t.name) = (dir = "asc")

(* Servers that are equal are in the order of their names, either way.      *)
isBefore(s, t, key, dir) ==
    LET v == SortValue(s, key)  w == SortValue(t, key)
    IN IF v # w THEN (v < w) = (dir = "asc") ELSE s.name < t.name

sortServers(S, key, dir) == SetToSortSeq(S, LAMBDA s, t : isBefore(s, t, key, dir))

Sum(S) == FoldLeft(LAMBDA total, s : total + getServerPlayerCount(s), 0, SetToSeq(S))
countOnlinePlayers(S) == Sum({s \in S : isServerOnline(s)})

BugregionSource(group) == Fleet

(* The numbers on the buttons of the regions are of the chosen group.       *)
regionSource(group) == {s \in Fleet : matchesServerGroupFilter(s, group)}

InRegion(r) == {s \in regionSource(search.group) : matchesServerStatusFilter(s, search.status) /\ s.region = r}
getRegionCounts == [r \in Allowed.region \ {"all"} |-> [count |-> Cardinality(InRegion(r)), playerCount |-> countOnlinePlayers(InRegion(r))]]

BugconfigServers(list) == list

(* The aliases are numbered by name, without the servers of the browser.    *)
configServers(list) == SetToSortSeq({s \in ToSet(list) : ~s.web}, LAMBDA s, t : s.name < t.name)

buildServerConfigFile(list) == [i \in DOMAIN configServers(list) |-> configServers(list)[i].address]

BrowseInit ==
    /\ search = DEFAULT_SERVERS_SEARCH /\ searchInput = None /\ selected = None
    /\ config = [aliases |-> <<>>, told |-> 0] /\ connected = {}

KeepRest == UNCHANGED <<online, crowd, selected, config, connected>>

Load ==
    /\ Acts("browse") /\ KeepBrowse /\ KeepRest /\ \E url \in Links, p \in Preferences :
        /\ p.region = "all" /\ p.sort = "map"
        /\ search' = hydratedInitialSearch(url, p) /\ searchInput' = search'.q

setSearchInput ==
    /\ Acts("browse") /\ KeepBrowse /\ KeepRest /\ searchInput' \in (DOMAIN Words \cup {None}) \ {searchInput}
    /\ UNCHANGED search

(* The effect after the deferred rendering.                                 *)
deferredSearchInput ==
    /\ Only("browse") /\ KeepBrowse /\ KeepRest /\ searchInput # search.q
    /\ search' = Patched([search EXCEPT !.q = searchInput]) /\ UNCHANGED searchInput

handleSearchPatch(s) == Acts("browse") /\ KeepBrowse /\ KeepRest /\ search' = Patched(s) /\ UNCHANGED searchInput

Other(v, a, b) == IF v = a THEN b ELSE a

handleSortChange(key) ==
    handleSearchPatch([search EXCEPT !.sort = key,
        !.dir = IF search.sort = key THEN Other(@, "asc", "desc") ELSE IF key = "players" THEN "desc" ELSE "asc"])

setView == handleSearchPatch([search EXCEPT !.view = Other(@, "grid", "table")])
setStatus == handleSearchPatch([search EXCEPT !.status = Other(@, "online", "offline")])

toggleHideEmpty == handleSearchPatch([search EXCEPT !.hide_empty = ~@, !.hide_occupied = FALSE])
toggleHideOccupied == handleSearchPatch([search EXCEPT !.hide_occupied = ~@, !.hide_empty = FALSE])
setGroup == \E g \in Allowed.group \ {search.group} : handleSearchPatch([search EXCEPT !.group = g])
setRegion == \E r \in Allowed.region \ {search.region} : handleSearchPatch([search EXCEPT !.region = r])

sortedServers == sortServers(filteredServers, search.sort, search.dir)

handleDownloadConfig ==
    LET native == {s \in filteredServers : ~s.web}
    IN /\ Acts("browse") /\ KeepBrowse /\ native # {}
       /\ config' = [aliases |-> buildServerConfigFile(sortedServers), told |-> Cardinality(native)]
       /\ UNCHANGED <<online, crowd, search, searchInput, selected, connected>>

handleSelectServer ==
    /\ Acts("browse") /\ KeepBrowse /\ selected = None /\ \E s \in filteredServers : selected' = s.address
    /\ UNCHANGED <<online, crowd, search, searchInput, config, connected>>

(* The sheet is of whatever server has the address of the page.             *)
selectedServer == {s \in Fleet : s.address = selected}

closeSheet ==
    /\ Acts("browse") /\ KeepBrowse /\ selected # None /\ selected' = None
    /\ UNCHANGED <<online, crowd, search, searchInput, config, connected>>

Joinable == IF selected = None THEN filteredServers ELSE selectedServer
canConnectToServer(s) == s.web \/ s.steam
Offered(s) == canConnectToServer(s) /\ isServerOnline(s)

(* From a card, a row or the sheet; a web server opens a room.              *)
handleSteamConnect ==
    /\ Acts("browse") /\ KeepBrowse /\ \E s \in Joinable :
        Offered(s) /\ connected' = connected \cup {<<IF s.web THEN "room" ELSE "steam", s>>}
    /\ UNCHANGED <<online, crowd, search, searchInput, selected, config>>

isFull(s) == s.max > 0 /\ getServerPlayerCount(s) >= s.max
isEmpty(s) == getServerPlayerCount(s) = 0

(* The badge of a card.                                                     *)
CardVariant(s) == CASE ~isServerOnline(s) -> "offline" [] isFull(s) /\ isServerOnline(s) -> "full"
                    [] OTHER -> IF isEmpty(s) THEN "empty" ELSE "occupied"

BuggetOccupancyVariant(s) ==
    IF ~isServerOnline(s) THEN "offline"
    ELSE IF getServerPlayerCount(s) >= s.max THEN "full"
    ELSE IF getServerPlayerCount(s) = 0 THEN "empty" ELSE "occupied"

(* The badge of a row and of the sheet.                                     *)
getOccupancyVariant(s) ==
    IF ~isServerOnline(s) THEN "offline"
    ELSE IF s.max > 0 /\ getServerPlayerCount(s) >= s.max THEN "full"
    ELSE IF getServerPlayerCount(s) = 0 THEN "empty" ELSE "occupied"

-----------------------------------------------------------------------------
(* The world map.  A point is [place, at, servers].                         *)

Nowhere == 0
NoChart == [points |-> {}, view |-> None, theme |-> "none"]
Mapped == {s \in online : s.at # Nowhere}
unmappedCount == Cardinality(online \ Mapped)

BuggetLocationKey(s) == s.at

(* By city and country, if they are known, else by the coordinates.         *)
getLocationKey(s) == IF s.place # Nowhere THEN <<"place", s.place>> ELSE <<"at", s.at>>

(* The point is where the first of its servers is.                          *)
Listed == SelectSeq(SetToSortSeq(Fleet, LAMBDA s, t : s.address < t.address), LAMBDA s : s \in Mapped)

aggregates ==
    {LET there == SelectSeq(Listed, LAMBDA t : getLocationKey(t) = k)
     IN [place |-> there[1].place, at |-> there[1].at, servers |-> ToSet(there)] : k \in {getLocationKey(s) : s \in Mapped}}

hasMapPoints == aggregates # {}

InitDeps == <<chartElement, hasMapPoints, mapDialogOpen>>

BugUpdateDeps == <<mapDialogOpen, theme>>

UpdateDeps == <<mapDialogOpen, aggregates, theme>>

Drawable == mapDialogOpen /\ hasMapPoints /\ chartElement
Rendered == InitDeps = initDeps /\ UpdateDeps = updateDeps /\ (chartElement = (mapDialogOpen /\ hasMapPoints))

(* The dialog has just been opened.                                         *)
WorldmapInit ==
    /\ mapDialogOpen = TRUE /\ chartElement = FALSE /\ chart = NoChart /\ charts = 0 /\ mapView = None /\ theme = "dark"
    /\ initDeps = InitDeps /\ updateDeps = UpdateDeps /\ roamed = None /\ opened = {}

setMapDialogOpen ==
    /\ Acts("worldmap") /\ KeepMap /\ Rendered /\ mapDialogOpen' = ~mapDialogOpen
    /\ UNCHANGED <<online, crowd, chartElement, chart, charts, mapView, theme, initDeps, updateDeps, roamed, opened>>

setTheme ==
    /\ Acts("worldmap") /\ KeepMap /\ Rendered /\ theme' = Other(theme, "dark", "light")
    /\ UNCHANGED <<online, crowd, mapDialogOpen, chartElement, chart, charts, mapView, initDeps, updateDeps, roamed, opened>>

(* The element of the map comes and goes with the dialog and the points.    *)
setChartElement ==
    /\ Only("worldmap") /\ KeepMap /\ chartElement # (mapDialogOpen /\ hasMapPoints) /\ chartElement' = ~chartElement
    /\ UNCHANGED <<online, crowd, mapDialogOpen, chart, charts, mapView, theme, initDeps, updateDeps, roamed, opened>>

BuginitialView == None

initialView == mapView

disposed == IF chart = NoChart THEN 0 ELSE 1

(* First the effect that makes the chart anew, then the one that draws.     *)
Effects ==
    LET anew == InitDeps # initDeps
        made == IF ~anew THEN chart
                ELSE IF Drawable THEN [points |-> aggregates, view |-> initialView, theme |-> theme] ELSE NoChart
        draws == UpdateDeps # updateDeps /\ mapDialogOpen /\ made # NoChart
    IN /\ Only("worldmap") /\ KeepMap /\ (anew \/ UpdateDeps # updateDeps)
       /\ charts' = (IF anew THEN charts - disposed + (IF made # NoChart THEN 1 ELSE 0) ELSE charts)
       /\ chart' = (IF draws THEN [points |-> aggregates, view |-> made.view, theme |-> theme] ELSE made)
       /\ mapView' = (IF draws THEN made.view ELSE mapView)
       /\ initDeps' = InitDeps /\ updateDeps' = UpdateDeps
       /\ UNCHANGED <<online, crowd, mapDialogOpen, chartElement, theme, roamed, opened>>

georoam ==
    /\ Acts("worldmap") /\ KeepMap /\ chart # NoChart /\ mapDialogOpen /\ \E v \in Views \ {chart.view} :
        /\ chart' = [chart EXCEPT !.view = v] /\ mapView' = v /\ roamed' = v
    /\ UNCHANGED <<online, crowd, mapDialogOpen, chartElement, charts, theme, initDeps, updateDeps, opened>>

(* Only a point with one server opens its sheet; the dialog closes.         *)
clickPoint ==
    /\ Acts("worldmap") /\ KeepMap /\ Rendered /\ chart # NoChart /\ \E p \in chart.points :
        /\ Cardinality(p.servers) = 1 /\ opened' = opened \cup p.servers
    /\ mapDialogOpen' = FALSE
    /\ UNCHANGED <<online, crowd, chartElement, chart, charts, mapView, theme, initDeps, updateDeps, roamed>>

(* The servers change, under the list or under the map.                     *)
ServersChange ==
    /\ part \in {"browse", "worldmap"} /\ Acts(part) /\ (part = "worldmap" => Rendered)
    /\ \/ \E s \in Fleet : online' = SymDiff(online, {s}) /\ UNCHANGED crowd
       \/ crowd' \in Crowds \ {crowd} /\ UNCHANGED online
    /\ UNCHANGED <<browse, worldmap, card>>

-----------------------------------------------------------------------------
(* The players on a card, and in the list of the sheet.                     *)

NoAvatar == 0
Unknown == -1
getPlayerNumberValue(v) == IF v = Unknown THEN 0 ELSE v
sortPlayersByProgress(list) ==
    LET order == SetToSortSeq(DOMAIN list, LAMBDA i, j : LET a == getPlayerNumberValue(list[i].score)
                                                             b == getPlayerNumberValue(list[j].score)
                                                         IN a > b \/ (a = b /\ i < j))
    IN [k \in DOMAIN list |-> list[order[k]]]

BuggetPlayerProgressPercent(score) == score \div 10

getPlayerProgressPercent(score) == IF score = Unknown THEN Unknown ELSE Max({0, Min({100, score \div 10})})

(* A column is shown if somebody has something in it.                       *)
showsColumn(list, field) == \E i \in DOMAIN list : list[i][field] # Unknown

BugwholeMinutes(seconds) == seconds \div 60

wholeMinutes(seconds) == (seconds % 3600) \div 60

formatTimerTime(seconds) == [hours |-> seconds \div 3600, minutes |-> wholeMinutes(seconds), seconds |-> seconds % 60]

sortedPlayers == sortPlayersByProgress(players)
ChipKey(list, i) == <<list[i].name, i>>
ChipKeys(list) == {ChipKey(list, i) : i \in DOMAIN list}

BughydrationKey(p) == p.name

(* The avatar is looked up once for every player.                           *)
hydrationKey(p) == p.steamid64

avatarSrc(p) ==
    IF p.avatar # NoAvatar THEN p.avatar
    ELSE IF \E h \in hydrated : h[1] = hydrationKey(p) THEN (CHOOSE h \in hydrated : h[1] = hydrationKey(p))[2]
    ELSE NoAvatar

AvatarShown(i) ==
    IF ChipKey(sortedPlayers, i) \in failed \/ sortedPlayers[i].steamid64 = None THEN NoAvatar ELSE avatarSrc(sortedPlayers[i])

CardInit == players \in Lobbies /\ failed = {} /\ hydrated = {} /\ reused = {}

(* A chip stays with its name and place, and with it that a picture failed. *)
PlayersChange ==
    /\ Acts("card") /\ KeepCard /\ players' \in Lobbies \ {players}
    /\ LET old == sortedPlayers
           new == sortPlayersByProgress(players')
           kept == failed \cap ChipKeys(new)
           others == {ChipKey(new, i) : i \in {j \in DOMAIN new : j \in DOMAIN old /\ new[j] # old[j]}}
       IN failed' = kept /\ reused' = (reused \cap kept) \cup (kept \cap others)
    /\ UNCHANGED hydrated

loadPlayerForDisplay ==
    /\ Only("card") /\ KeepCard /\ \E i \in DOMAIN players :
        LET p == players[i]
        IN /\ p.steamid64 # None /\ p.avatar = NoAvatar /\ \A h \in hydrated : h[1] # hydrationKey(p)
           /\ hydrated' = hydrated \cup {<<hydrationKey(p), Avatars[p.steamid64]>>}
    /\ UNCHANGED <<players, failed, reused>>

setAvatarLoadFailed ==
    /\ Acts("card") /\ KeepCard /\ \E i \in DOMAIN players :
        AvatarShown(i) # NoAvatar /\ failed' = failed \cup {ChipKey(sortedPlayers, i)}
    /\ UNCHANGED <<players, hydrated, reused>>

-----------------------------------------------------------------------------
Init ==
    /\ part \in {"browse", "worldmap", "card"} /\ online = Fleet /\ crowd \in Crowds /\ acts = 0
    /\ BrowseInit /\ WorldmapInit /\ CardInit
    /\ part = "browse" \/ crowd = CHOOSE c \in Crowds : TRUE
    /\ part = "card" \/ players = CHOOSE l \in Lobbies : TRUE

Next ==
    \/ Load \/ setSearchInput \/ deferredSearchInput \/ setView \/ setStatus \/ toggleHideEmpty \/ toggleHideOccupied
    \/ \E key \in Allowed.sort : handleSortChange(key)
    \/ setGroup \/ setRegion \/ handleDownloadConfig \/ handleSelectServer \/ closeSheet \/ handleSteamConnect
    \/ setMapDialogOpen \/ setTheme \/ setChartElement \/ Effects \/ georoam \/ clickPoint \/ ServersChange
    \/ PlayersChange \/ loadPlayerForDisplay \/ setAvatarLoadFailed

Progress == deferredSearchInput \/ setChartElement \/ Effects

Spec == Init /\ [][Next]_vars

-----------------------------------------------------------------------------
(* The variables keep their types.                                          *)
TypeOK ==
    /\ part \in {"browse", "worldmap", "card"} /\ online \subseteq Fleet /\ crowd \in Crowds /\ acts \in 0 .. MaxActs
    /\ \A field \in DOMAIN Allowed : search[field] \in Allowed[field]
    /\ {search.hide_empty, search.hide_occupied} \subseteq BOOLEAN /\ players \in Lobbies
    /\ chart.view \in Views \cup {None} /\ mapView \in Views \cup {None}

(* A link that is shared shows everybody the same choice, whatever filters  *)
(* they used last.                                                          *)
SharedLinkShowsSame ==
    part = "browse" => \A p \in Preferences : hydratedInitialSearch(createServersSearchParams(search), p) = search

(* No way of switching, and no address, hides the empty and the occupied    *)
(* servers at once: that would hide all.                                    *)
SomeMayBeShown == ~(search.hide_empty /\ search.hide_occupied)

(* The list is in one order that does not depend on the order the servers   *)
(* arrive in, and the other direction turns round all but the equal ones,   *)
(* which stay by name.                                                      *)
OrderIsStable ==
    part = "browse" =>
        LET up == sortServers(filteredServers, search.sort, "asc")
            down == sortServers(filteredServers, search.sort, "desc")
            v(s) == SortValue(s, search.sort)
        IN \A i, j \in DOMAIN up : i < j =>
               LET there(s) == CHOOSE k \in DOMAIN down : down[k] = s
               IN (there(up[i]) < there(up[j])) = (v(up[i]) = v(up[j]))

(* The number on the button of a region is that of the players listed once  *)
(* it is pressed, with nothing searched for and nothing hidden.             *)
RegionsTellPlayers ==
    part = "browse" /\ searchInput = None /\ ~search.hide_empty /\ ~search.hide_occupied /\ search.region # "all" =>
        /\ getRegionCounts[search.region].playerCount = countOnlinePlayers(filteredServers)
        /\ getRegionCounts[search.region].count = Cardinality(filteredServers)

(* The file has an alias for every server that was listed and can be joined *)
(* by the game, each once, as many as the reader is told.                   *)
AliasesAreCounted ==
    /\ Len(config.aliases) = config.told /\ IsInjective(config.aliases)
    /\ \A i \in DOMAIN config.aliases : \E s \in Fleet : s.address = config.aliases[i] /\ ~s.web

(* A server has the same badge on its card, in its row and in its sheet; no *)
(* empty one is listed while they are hidden, nor an occupied one.          *)
BadgesAgree ==
    part = "browse" => /\ \A s \in Fleet : CardVariant(s) = getOccupancyVariant(s)
                       /\ search.hide_empty => \A s \in filteredServers : getOccupancyVariant(s) # "empty"
                       /\ search.hide_occupied => \A s \in filteredServers : getOccupancyVariant(s) \notin {"full", "occupied"}

(* Every server that is up is at exactly one point of the map or counted as *)
(* unmapped, and servers of one city share a point.                         *)
PointsAddUp ==
    part = "worldmap" =>
        /\ \A s \in Mapped : Cardinality({p \in aggregates : s \in p.servers}) = 1
        /\ \A s, t \in Mapped : s.place = t.place /\ s.place # Nowhere => \E p \in aggregates : {s, t} \subseteq p.servers
        /\ unmappedCount + Cardinality(UNION {p.servers : p \in aggregates}) = Cardinality(online)

(* Once the effects have run the dialog has one chart with the servers of   *)
(* now, in the theme of now; without points or closed it has none.          *)
MapIsCurrent ==
    part = "worldmap" /\ Rendered =>
        /\ charts = (IF Drawable THEN 1 ELSE 0) /\ (chart # NoChart) = Drawable
        /\ Drawable => chart.points = aggregates /\ chart.theme = theme

(* The map is looked at where the reader left it, also after the servers,   *)
(* the theme or the dialog changed.                                         *)
ViewIsKept == part = "worldmap" /\ chart # NoChart => chart.view = roamed

(* A chip shows the picture of its own player or none; none of a known one  *)
(* only if it failed, or failed before for somebody else in that place.     *)
AvatarsAreTheirs ==
    part = "card" => \A i \in DOMAIN sortedPlayers :
        LET p == sortedPlayers[i]
            theirs == IF p.avatar # NoAvatar THEN p.avatar ELSE Avatars[p.steamid64]
        IN p.steamid64 # None => /\ AvatarShown(i) \in {NoAvatar, theirs}
                                 /\ avatarSrc(p) # NoAvatar /\ AvatarShown(i) = NoAvatar => ChipKey(sortedPlayers, i) \in failed

(* The further somebody is the earlier they are listed, the bars stay in    *)
(* their boxes, and what is shown of a time adds up to it.                  *)
PlayersInOrder ==
    part = "card" =>
        /\ \A i, j \in DOMAIN sortedPlayers : i < j => getPlayerNumberValue(sortedPlayers[i].score) >= getPlayerNumberValue(sortedPlayers[j].score)
        /\ \A p \in ToSet(players) : getPlayerProgressPercent(p.score) \in {Unknown} \cup (0 .. 100)
        /\ ~showsColumn(players, "timer") => \A p \in ToSet(players) : p.timer = Unknown
        /\ acts = 0 => \A s \in Times : LET f == formatTimerTime(s)
                                        IN f.hours * 3600 + f.minutes * 60 + f.seconds = s /\ f.minutes < 60 /\ f.seconds < 60
=============================================================================
