-------------------------- MODULE CompareAndSetup --------------------------
(***************************************************************************)
(* Two players side by side, with their runs and their completion, and the  *)
(* gear of a player: the form it is saved with, the field a product is       *)
(* chosen in, and the list of what others use.                               *)
(***************************************************************************)
EXTENDS Integers, FiniteSets, FiniteSetsExt, Sequences, SequencesExt, TLC

CONSTANTS
    Times,   \* type -> player -> map -> the time of the best run, 0 without one
    Tiers,   \* the tier of each map of the completion: 0 when it has none, NotListed when it is not validated
    MaxActs  \* bound on what people do and what goes wrong

VARIABLES
    part,        \* "compare", "completion", "setup", "pick" or "gear"
    url, earlier, selectionError, aliased,   \* the players in the address and the addresses before; history: named by an alias or a link
    added, answers, asked, failed,           \* whether player 2 has finished the last map; comparisons held, under way and failed
    runType, onlyBoth, filters, sort, pageIndex, pageSize, wanted, \* the table; history: the filters typed in it
    setting, settingHeld, wrs, mapsHeld,     \* completion: the choice of the reader, as held; the records and maps held
    setup, held, form, disks, save, clean, size, removed,   \* the setup, in the cache, in the form; history
    product, query, search, timer, expanded, active, products, results, custom, create, chosen, late, \* the field of a product
    category, gearPage, gearSize, used, gear,   \* the list of gear, and its answer
    acts

compareVars == <<url, earlier, selectionError, aliased, added, answers, asked, failed>>
tableVars == <<runType, onlyBoth, filters, sort, pageIndex, pageSize, wanted>>
completionVars == <<setting, settingHeld, wrs, mapsHeld>>
setupVars == <<setup, held, form, disks, save, clean, size, removed>>
pickVars == <<product, query, search, timer, expanded, active, products, results, custom, create, chosen, late>>
gearVars == <<category, gearPage, gearSize, used, gear>>
vars == <<part, compareVars, tableVars, completionVars, setupVars, pickVars, gearVars, acts>>

Maps == 1..3
Players == {1, 2, 3}
Alias == 11
Idents == {0, Alias} \cup Players
Keys == Idents \X Idents
EMPTY_FILTERS == [target |-> "either", minTime |-> 0, map |-> 0]
DefaultSort == [key |-> "created_on", slot |-> 1, desc |-> TRUE]
NotListed == -1
NoForm == [monitor |-> 0, size |-> 0, capacity |-> 0, dpi |-> 0]
NoSetup == [monitor |-> 0, size |-> 0, capacity |-> 0, speed |-> 0, dpi |-> 0, disks |-> <<>>]
NoCreate == [model |-> 0, sent |-> FALSE]
NoGear == [category |-> 0, page |-> 0, size |-> 0, rows |-> 0, count |-> 0]
Speed == 3200

Init ==
    /\ part \in {"compare", "completion", "setup", "pick", "gear"}
    /\ url \in {<<1, 2>>, <<Alias, 2>>} /\ earlier = <<>> /\ selectionError = FALSE /\ aliased = (url[1] = Alias)
    /\ added = FALSE /\ answers = [k \in {} |-> FALSE] /\ failed = {}
    /\ asked = IF 0 \in {url[1], url[2]} THEN {} ELSE {url}
    /\ runType = "NUB" /\ onlyBoth = TRUE /\ filters = EMPTY_FILTERS /\ sort = DefaultSort
    /\ pageIndex = 0 /\ pageSize = 1 /\ wanted = EMPTY_FILTERS
    /\ setting \in BOOLEAN /\ (part # "completion" => setting) /\ settingHeld = "asked" /\ wrs = "none" /\ mapsHeld = "asked"
    /\ setup = [NoSetup EXCEPT !.monitor = 1, !.size = 27, !.capacity = 16, !.speed = Speed,
                               !.disks = <<[product |-> 1, gb |-> 2, unit |-> "TB"]>>]
    /\ held = NoSetup /\ form = NoForm /\ disks = <<>> /\ save = "unread" /\ clean = FALSE /\ size = [k \in {} |-> 0]
    /\ removed = FALSE
    /\ product = 1 /\ query = 0 /\ search = 0 /\ timer = FALSE /\ expanded = FALSE /\ active = 0 /\ products = {1, 2}
    /\ results = [q \in {} |-> <<>>] /\ custom = FALSE /\ create = NoCreate /\ chosen = 1 /\ late = FALSE
    /\ category = 1 /\ gearPage = 0 /\ gearSize = 1 /\ used = <<3, 1>> /\ gear = NoGear
    /\ acts = 0

Acts(p) == part = p /\ acts < MaxActs /\ acts' = acts + 1
Only(p) == part = p /\ UNCHANGED acts
Compare == UNCHANGED <<part, completionVars, setupVars, pickVars, gearVars>>
Completion == UNCHANGED <<part, compareVars, tableVars, setupVars, pickVars, gearVars>>
Setup == UNCHANGED <<part, compareVars, tableVars, completionVars, pickVars, gearVars>>
Pick == UNCHANGED <<part, compareVars, tableVars, completionVars, setupVars, gearVars>>
Gear == UNCHANGED <<part, compareVars, tableVars, completionVars, setupVars, pickVars>>

-----------------------------------------------------------------------------
(* The pair.  The address names each player, by the id or by an alias, and   *)
(* the comparison of the two is read for it.  The table lives as long as a   *)
(* comparison is shown: it forgets its filters when a pair comes that is not *)
(* held, and when a second reading fails.                                    *)

PlayerOf(i) == IF i = Alias THEN 1 ELSE i
Named(u) == u[1] # 0 /\ u[2] # 0

comparison(u, ans, bad) == Named(u) /\ u \in DOMAIN ans /\ u \notin bad
ShowsTable == comparison(url, answers, failed)

BugTable(u, ans, bad) == (IF comparison(u, ans, bad) /\ ans = answers THEN UNCHANGED <<filters, sort>> ELSE filters' = EMPTY_FILTERS /\ sort' = DefaultSort) /\ UNCHANGED <<runType, onlyBoth, pageSize>>

(* What the table is after a step: as it was, or new.                        *)
Table(u, ans, bad) ==
    /\ IF comparison(u, ans, bad)
       THEN UNCHANGED <<filters, sort>>
       ELSE filters' = EMPTY_FILTERS /\ sort' = DefaultSort
    /\ UNCHANGED <<runType, onlyBoth, pageSize>>

navigate(u) ==
    /\ url' = u /\ asked' = IF Named(u) THEN asked \cup {u} ELSE asked
    /\ failed' = failed \cap DOMAIN answers
    /\ Table(u, answers, failed') /\ pageIndex' = 0
    /\ wanted' = IF u \in DOMAIN answers \ failed THEN wanted ELSE EMPTY_FILTERS

Other(slot) == 3 - slot

BugsetPlayer(slot, p) == Acts("compare") /\ p # PlayerOf(url[slot])
    /\ IF p = url[slot] THEN selectionError' = TRUE /\ UNCHANGED <<url, earlier, asked, failed, tableVars>>
       ELSE selectionError' = FALSE /\ earlier' = Append(earlier, url) /\ navigate([url EXCEPT ![slot] = p])
    /\ UNCHANGED <<added, answers, aliased>> /\ Compare

setPlayer(slot, p) ==
    /\ Acts("compare") /\ p # PlayerOf(url[slot])
    /\ IF p = url[Other(slot)]
       THEN selectionError' = TRUE /\ UNCHANGED <<url, earlier, asked, failed, tableVars>>
       ELSE selectionError' = FALSE /\ earlier' = Append(earlier, url) /\ navigate([url EXCEPT ![slot] = p])
    /\ UNCHANGED <<added, answers, aliased>> /\ Compare

clearPlayer(slot) ==
    /\ Acts("compare") /\ url[slot] # 0
    /\ selectionError' = FALSE /\ earlier' = Append(earlier, url) /\ navigate([url EXCEPT ![slot] = 0])
    /\ UNCHANGED <<added, answers, aliased>> /\ Compare

swapPlayers ==
    /\ Acts("compare") /\ Named(url)
    /\ selectionError' = FALSE /\ earlier' = Append(earlier, url) /\ navigate(<<url[2], url[1]>>)
    /\ UNCHANGED <<added, answers, aliased>> /\ Compare

Back ==
    /\ Acts("compare") /\ earlier # <<>>
    /\ navigate(Last(earlier)) /\ earlier' = Front(earlier)
    /\ UNCHANGED <<selectionError, added, answers, aliased>> /\ Compare

fetchComparison ==
    /\ Only("compare")
    /\ \E k \in asked :
        /\ answers' = (k :> added) @@ answers /\ asked' = asked \ {k} /\ failed' = failed \ {k}
        /\ Table(url, answers', failed')
        /\ pageIndex' = IF k = url /\ (k \notin DOMAIN answers \/ answers[k] # added) THEN 0 ELSE pageIndex
    /\ UNCHANGED <<url, earlier, selectionError, added, aliased, wanted>> /\ Compare

ComparisonFails ==
    /\ Acts("compare")
    /\ \E k \in asked :
        /\ asked' = asked \ {k} /\ failed' = failed \cup {k}
        /\ Table(url, answers, failed')
        /\ pageIndex' = IF k = url THEN 0 ELSE pageIndex
        /\ wanted' = IF k = url THEN EMPTY_FILTERS ELSE wanted
    /\ UNCHANGED <<url, earlier, selectionError, added, answers, aliased>> /\ Compare

RefocusCompare ==
    /\ Acts("compare") /\ Named(url) /\ url \notin asked /\ asked' = asked \cup {url}
    /\ failed' = IF url \in DOMAIN answers THEN failed ELSE failed \ {url}
    /\ Table(url, answers, failed')
    /\ UNCHANGED <<url, earlier, selectionError, added, answers, aliased, pageIndex, wanted>> /\ Compare

RunFinished ==
    /\ Acts("compare") /\ ~added /\ added' = TRUE
    /\ UNCHANGED <<url, earlier, selectionError, answers, asked, failed, aliased, tableVars>> /\ Compare

-----------------------------------------------------------------------------
(* The runs of the pair, filtered, sorted and cut into pages.                *)

Time(p, m, more) == IF p = 2 /\ m = 3 /\ more THEN 9 ELSE Times[runType][p][m]
AllRows ==
    LET row(m) == [map |-> m, time |-> [s \in 1..2 |-> Time(PlayerOf(url[s]), m, answers[url])]]
    IN {r \in {row(m) : m \in Maps} : r.time[1] # 0 \/ r.time[2] # 0}

matches(time) == time # 0 /\ time >= filters.minTime

filtered(r) ==
    /\ onlyBoth => r.time[1] # 0 /\ r.time[2] # 0
    /\ filters.map \in {0, r.map}
    /\ filters.minTime # 0 =>
        CASE filters.target = "player1" -> matches(r.time[1])
          [] filters.target = "player2" -> matches(r.time[2])
          [] filters.target = "both" -> matches(r.time[1]) /\ matches(r.time[2])
          [] OTHER -> matches(r.time[1]) \/ matches(r.time[2])

(* A run on a map with a greater number is the older one here.               *)
valueFor(r) ==
    CASE sort.key = "map" -> r.map
      [] sort.key = "time" -> r.time[sort.slot]
      [] OTHER -> IF r.time[sort.slot] = 0 THEN 0 ELSE 10 - r.map

BugBefore(a, b) ==
    LET left == valueFor(a) right == valueFor(b) IN IF left = right THEN a.map < b.map ELSE IF sort.desc THEN left > right ELSE left < right

Before(a, b) ==
    LET left == valueFor(a)
        right == valueFor(b)
    IN IF left = 0 \/ right = 0
       THEN IF left = right THEN a.map < b.map ELSE right = 0
       ELSE IF left = right THEN a.map < b.map
       ELSE IF sort.desc THEN left > right ELSE left < right

filteredRows == SetToSortSeq({r \in AllRows : filtered(r)}, Before)

Bugwins(slot) == Cardinality({r \in {x \in AllRows : filtered(x)} : r.time[1] # 0 /\ r.time[2] # 0 /\ r.time[slot] <= r.time[Other(slot)]})

wins(slot) == Cardinality({r \in {x \in AllRows : filtered(x)} :
    r.time[1] # 0 /\ r.time[2] # 0 /\ r.time[slot] < r.time[Other(slot)]})

(* The gap shown behind the slower of two times.                             *)
delta(r, slot) == r.time[slot] # 0 /\ r.time[Other(slot)] # 0 /\ r.time[slot] > r.time[Other(slot)]

pageCount == Max({1, (Len(filteredRows) + pageSize - 1) \div pageSize})
currentPage == Min({pageIndex, pageCount - 1})
PageRows == SubSeq(filteredRows, currentPage * pageSize + 1, Min({Len(filteredRows), (currentPage + 1) * pageSize}))

Turning == Acts("compare") /\ ShowsTable /\ UNCHANGED compareVars /\ Compare

update ==
    /\ Turning /\ \E f \in [target : {"either", "both", "player1", "player2"}, minTime : {0, 10}, map : {0, 2}] :
        /\ Cardinality({n \in DOMAIN f : f[n] # filters[n]}) = 1
        /\ filters' = f /\ wanted' = f
    /\ pageIndex' = 0 /\ UNCHANGED <<runType, onlyBoth, sort, pageSize>>

clearFilters ==
    /\ Turning /\ filters # EMPTY_FILTERS /\ filters' = EMPTY_FILTERS /\ wanted' = EMPTY_FILTERS
    /\ pageIndex' = 0 /\ UNCHANGED <<runType, onlyBoth, sort, pageSize>>

header ==
    /\ Turning /\ sort' = [key |-> "map", slot |-> 1, desc |-> sort.key = "map" /\ ~sort.desc]
    /\ pageIndex' = 0 /\ UNCHANGED <<runType, onlyBoth, filters, pageSize, wanted>>

recordHeader ==
    /\ Turning
    /\ \E field \in {"time", "created_on"} :
        sort' = IF sort.key # field THEN [key |-> field, slot |-> 1, desc |-> FALSE]
                ELSE IF ~sort.desc THEN [sort EXCEPT !.desc = TRUE]
                ELSE [key |-> field, slot |-> Other(sort.slot), desc |-> FALSE]
    /\ pageIndex' = 0 /\ UNCHANGED <<runType, onlyBoth, filters, pageSize, wanted>>

TurnPage ==
    /\ Turning /\ \E p \in 0..pageCount - 1 : p # currentPage /\ pageIndex' = p
    /\ UNCHANGED <<runType, onlyBoth, filters, sort, pageSize, wanted>>

setPageSize ==
    /\ Turning /\ pageSize' = 3 - pageSize /\ pageIndex' = 0
    /\ UNCHANGED <<runType, onlyBoth, filters, sort, wanted>>

setRunType ==
    /\ Turning /\ runType' = (IF runType = "NUB" THEN "PRO" ELSE "NUB") /\ pageIndex' = 0
    /\ UNCHANGED <<onlyBoth, filters, sort, pageSize, wanted>>

setOnlyBoth ==
    /\ Turning /\ onlyBoth' = ~onlyBoth /\ pageIndex' = 0
    /\ UNCHANGED <<runType, filters, sort, pageSize, wanted>>

-----------------------------------------------------------------------------
(* The completion of the pair, against all maps or, when the reader wants it *)
(* so, against those that someone finished without teleports.                *)

useWrBasedProCompletion == settingHeld # "no"
CompletionIsLoading == mapsHeld = "asked" \/ (useWrBasedProCompletion /\ wrs \in {"none", "asked"})
CompletionIsError == mapsHeld = "failed" \/ (useWrBasedProCompletion /\ wrs = "failed")

(* The list of records without teleports has maps 1 and 2; it may be older   *)
(* than a first run on map 3.                                                *)
proAvailableMapIds == IF useWrBasedProCompletion THEN {1, 2} ELSE DOMAIN Tiers

Counted(ids) == {m \in DOMAIN Tiers : Tiers[m] > 0 /\ m \in ids}

BugCompleted(p, type, ids) == {m \in DOMAIN Tiers : Tiers[m] > 0 /\ Times[type][p][m] # 0}

Completed(p, type, ids) == {m \in Counted(ids) : Times[type][p][m] # 0}

buildCompletionCard(p, type, ids) ==
    [t \in 1..2 |-> [total |-> Cardinality({m \in Counted(ids) : Tiers[m] = t}),
                     complete |-> Cardinality({m \in Completed(p, type, ids) : Tiers[m] = t})]]

buildProfileCompletionData(p) ==
    [nub |-> buildCompletionCard(p, "NUB", DOMAIN Tiers), pro |-> buildCompletionCard(p, "PRO", proAvailableMapIds)]

readCurrentPlayerSettings ==
    /\ Only("completion") /\ settingHeld = "asked" /\ settingHeld' = (IF setting THEN "yes" ELSE "no")
    /\ UNCHANGED <<setting, wrs, mapsHeld>> /\ Completion

getProfileMapWrs ==
    /\ Only("completion") /\ useWrBasedProCompletion /\ wrs = "none" /\ wrs' = "asked"
    /\ UNCHANGED <<setting, settingHeld, mapsHeld>> /\ Completion

WrsAnswer ==
    /\ Only("completion") /\ wrs = "asked" /\ wrs' = "held"
    /\ UNCHANGED <<setting, settingHeld, mapsHeld>> /\ Completion

getProfileValidatedMaps ==
    /\ Only("completion") /\ mapsHeld = "asked" /\ mapsHeld' = "held"
    /\ UNCHANGED <<setting, settingHeld, wrs>> /\ Completion

CompletionFails ==
    /\ Acts("completion")
    /\ \/ wrs = "asked" /\ wrs' = "failed" /\ UNCHANGED <<mapsHeld, settingHeld>>
       \/ mapsHeld = "asked" /\ mapsHeld' = "failed" /\ UNCHANGED <<wrs, settingHeld>>
       \/ settingHeld = "asked" /\ settingHeld' = "failed" /\ UNCHANGED <<wrs, mapsHeld>>
    /\ UNCHANGED setting /\ Completion

-----------------------------------------------------------------------------
(* The form of the setup.  It is filled from the first answer, and no later  *)
(* one is put into it.  The capacity of a disk is a number of its unit, here *)
(* counted in half thousandths.                                              *)

Amount(gb, unit) == IF unit = "TB" THEN gb * 2 ELSE gb * 2000
RoundedTo(amount, step) == ((amount + step \div 2) \div step) * step

BugConverted(disk, unit) == [disk EXCEPT !.unit = unit]

Converted(disk, unit) ==
    LET exact == IF disk.unit = unit THEN disk.amount
                 ELSE IF unit = "TB" THEN disk.amount \div 1000 ELSE disk.amount * 1000
    IN [disk EXCEPT !.unit = unit, !.amount = RoundedTo(exact, 2)]

SavedGb(disk) == RoundedTo(IF disk.unit = "TB" THEN disk.amount * 1000 ELSE disk.amount, 2000) \div 2000

SetupForm(data) ==
    /\ form' = [monitor |-> data.monitor, size |-> data.size, capacity |-> data.capacity, dpi |-> data.dpi]
    /\ disks' = IF data.disks = <<>> THEN <<[key |-> 1, product |-> 0, amount |-> 0, unit |-> "GB"]>>
                ELSE [i \in DOMAIN data.disks |->
                        [key |-> i, product |-> data.disks[i].product, unit |-> data.disks[i].unit,
                         amount |-> Amount(data.disks[i].gb, data.disks[i].unit)]]
    /\ size' = [i \in DOMAIN disks' |-> SavedGb(disks'[i])]

readMySetup ==
    /\ Only("setup") /\ save \in {"unread", "reread"} /\ save' = "none" /\ held' = setup
    /\ IF save = "unread" THEN SetupForm(setup) ELSE UNCHANGED <<form, disks, size>>
    /\ UNCHANGED <<setup, clean, removed>> /\ Setup

RefocusSetup ==
    /\ Acts("setup") /\ save = "none" /\ save' = "reread"
    /\ UNCHANGED <<setup, held, form, disks, clean, size, removed>> /\ Setup

(* A reading that fails takes the form away, with all that was typed in it.  *)
RereadFails ==
    /\ Acts("setup") /\ save = "reread" /\ save' = "unread" /\ clean' = FALSE
    /\ UNCHANGED <<setup, held, form, disks, size, removed>> /\ Setup

Editing == Acts("setup") /\ save = "none" /\ UNCHANGED <<setup, held, save, removed>> /\ clean' = FALSE /\ Setup

setSelected ==
    /\ Editing /\ form' = [form EXCEPT !.monitor = 1 - @]
    /\ UNCHANGED <<disks, size>>

setMonitorSize ==
    /\ Editing /\ form.monitor # 0 /\ form' = [form EXCEPT !.size = IF @ = 27 THEN 24 ELSE 27]
    /\ UNCHANGED <<disks, size>>

setCapacity ==
    /\ Editing /\ form' = [form EXCEPT !.capacity = 16 - @]
    /\ UNCHANGED <<disks, size>>

setDpi ==
    /\ Editing /\ \E v \in {0, 400, -1} : v # form.dpi /\ form' = [form EXCEPT !.dpi = v]
    /\ UNCHANGED <<disks, size>>

updateDisk ==
    /\ Editing
    /\ \E i \in DOMAIN disks :
        \/ /\ \E a \in {0, 3000, 4000} :
                /\ disks[i].unit = "GB" /\ a # disks[i].amount
                /\ disks' = [disks EXCEPT ![i].amount = a]
                /\ size' = [size EXCEPT ![disks[i].key] = SavedGb(disks'[i])]
        \/ /\ disks' = [disks EXCEPT ![i] = Converted(@, IF @.unit = "TB" THEN "GB" ELSE "TB")]
           /\ UNCHANGED size
        \/ disks' = [disks EXCEPT ![i].product = 1 - @] /\ UNCHANGED size
    /\ UNCHANGED form

addDisk ==
    /\ Editing /\ Len(disks) < 2
    /\ LET key == Max({0} \cup DOMAIN size) + 1
       IN disks' = Append(disks, [key |-> key, product |-> 0, amount |-> 0, unit |-> "GB"]) /\ size' = (key :> 0) @@ size
    /\ UNCHANGED form

removeDisk ==
    /\ Editing /\ \E k \in DOMAIN size : disks' = SelectSeq(disks, LAMBDA d : d.key # k) /\ disks' # disks
    /\ UNCHANGED <<form, size>>

edpi == form.dpi # -1
HasMemory(f) == f.capacity # 0

BugPayload == [NoSetup EXCEPT !.monitor = form.monitor, !.size = IF form.monitor = 0 THEN 0 ELSE form.size, !.capacity = form.capacity, !.dpi = form.dpi, !.disks = [i \in DOMAIN disks |-> [product |-> disks[i].product, gb |-> SavedGb(disks[i]), unit |-> disks[i].unit]]]

(* The monitor without a product, and a disk with neither product nor        *)
(* capacity, are left out with all their details.  The speed of the memory   *)
(* has no field: it is sent back as it was last read.                        *)
Payload ==
    LET named == SelectSeq(disks, LAMBDA d : d.product # 0 \/ d.amount # 0)
    IN [monitor |-> form.monitor, size |-> IF form.monitor = 0 THEN 0 ELSE form.size,
        capacity |-> form.capacity, speed |-> IF HasMemory(form) THEN held.speed ELSE 0, dpi |-> form.dpi,
        disks |-> [i \in DOMAIN named |-> [product |-> named[i].product, gb |-> SavedGb(named[i]), unit |-> named[i].unit]]]

mutateSave ==
    /\ Acts("setup") /\ save = "none" /\ edpi /\ save' = "sent"
    /\ UNCHANGED <<setup, held, form, disks, clean, size, removed>> /\ Setup

saveMySetup ==
    /\ Only("setup") /\ save = "sent" /\ save' = "saved" /\ setup' = Payload /\ removed' = (removed \/ ~HasMemory(form))
    /\ UNCHANGED <<held, form, disks, clean, size>> /\ Setup

onSuccessSave ==
    /\ Only("setup") /\ save = "saved" /\ save' = "none" /\ held' = setup /\ clean' = TRUE
    /\ UNCHANGED <<setup, form, disks, size, removed>> /\ Setup

SaveFails ==
    /\ Acts("setup") /\ save \in {"sent", "saved"} /\ save' = "none"
    /\ UNCHANGED <<setup, held, form, disks, clean, size, removed>> /\ Setup

SavedElsewhere ==
    /\ Acts("setup") /\ save \in {"none", "reread"} /\ clean' = FALSE
    /\ \/ setup' = [setup EXCEPT !.dpi = 800] /\ UNCHANGED removed
       \/ setup' = [setup EXCEPT !.capacity = 0, !.speed = 0] /\ removed' = TRUE
    /\ UNCHANGED <<held, form, disks, save, size>> /\ Setup

-----------------------------------------------------------------------------
(* The field of a product.  A text is a number; product n is found by the    *)
(* text n, and every product by none.                                        *)

Found(q) == SetToSortSeq({p \in products : q \in {0, p}}, <)
Listed == IF search \in DOMAIN results THEN results[search] ELSE <<>>

InField == Acts("pick") /\ ~custom /\ Pick

onFocus ==
    /\ Only("pick") /\ Pick /\ ~custom /\ ~expanded /\ expanded' = TRUE
    /\ UNCHANGED <<product, query, search, timer, active, products, results, custom, create, chosen, late>>

dismiss ==
    /\ InField /\ expanded /\ expanded' = FALSE
    /\ UNCHANGED <<product, query, search, timer, active, products, results, custom, create, chosen, late>>

BugonChange == InField /\ \E q \in 0..3 : q # query /\ query' = q /\ timer' = TRUE /\ expanded' = TRUE /\ chosen' = 0 /\ UNCHANGED <<product, search, active, products, results, custom, create, late>>

onChange ==
    /\ InField /\ \E q \in 0..3 : q # query /\ query' = q
    /\ product' = 0 /\ chosen' = 0 /\ timer' = TRUE /\ expanded' = TRUE
    /\ UNCHANGED <<search, active, products, results, custom, create, late>>

setSearch ==
    /\ Only("pick") /\ timer /\ timer' = FALSE /\ search' = query /\ active' = 0
    /\ UNCHANGED <<product, query, expanded, products, results, custom, create, chosen, late>> /\ Pick

searchProducts ==
    /\ Only("pick") /\ expanded /\ search \notin DOMAIN results /\ results' = (search :> Found(search)) @@ results
    /\ UNCHANGED <<product, query, search, timer, expanded, active, products, custom, create, chosen, late>> /\ Pick

ArrowDown ==
    /\ InField /\ active' = Min({active + 1, (IF search \in DOMAIN results THEN Len(Listed) ELSE 1) - 1}) /\ expanded' = TRUE
    /\ active' # active
    /\ UNCHANGED <<product, query, search, timer, products, results, custom, create, chosen, late>>

ArrowUp ==
    /\ InField /\ active' = Max({0, active - 1}) /\ active' # active
    /\ UNCHANGED <<product, query, search, timer, expanded, products, results, custom, create, chosen, late>>

Taken(p) == product' = p /\ chosen' = p /\ expanded' = FALSE /\ query' = 0 /\ timer' = (timer \/ query # 0)

Enter ==
    /\ InField /\ expanded /\ active + 1 \in DOMAIN Listed /\ Taken(Listed[active + 1])
    /\ UNCHANGED <<search, active, products, results, custom, create, late>>

select ==
    /\ InField /\ expanded /\ \E i \in DOMAIN Listed : Taken(Listed[i])
    /\ UNCHANGED <<search, active, products, results, custom, create, late>>

clearProduct ==
    /\ InField /\ (product # 0 \/ query # 0) /\ product' = 0 /\ chosen' = 0 /\ query' = 0
    /\ timer' = (timer \/ query # 0) /\ expanded' = FALSE
    /\ UNCHANGED <<search, active, products, results, custom, create, late>>

(* Opening the dialog again forgets a creation under way, which goes on.     *)
addCustom ==
    /\ InField /\ expanded /\ custom' = TRUE /\ expanded' = FALSE
    /\ UNCHANGED <<product, query, search, timer, active, products, results, create, chosen, late>>

closeCustom ==
    /\ Acts("pick") /\ custom /\ custom' = FALSE
    /\ UNCHANGED <<product, query, search, timer, expanded, active, products, results, create, chosen, late>> /\ Pick

selectMatch ==
    /\ Acts("pick") /\ custom /\ \E p \in products : Taken(p) /\ custom' = FALSE
    /\ UNCHANGED <<search, active, products, results, create, late>> /\ Pick

createProduct ==
    /\ Acts("pick") /\ custom /\ create = NoCreate /\ \E m \in 1..3 : create' = [model |-> m, sent |-> TRUE]
    /\ UNCHANGED <<product, query, search, timer, expanded, active, products, results, custom, chosen, late>> /\ Pick

CreateFails ==
    /\ Acts("pick") /\ create.sent /\ create' = NoCreate
    /\ UNCHANGED <<product, query, search, timer, expanded, active, products, results, custom, chosen, late>> /\ Pick

(* The answer takes the field, even when another product was chosen since.   *)
onSuccessCreate ==
    /\ Only("pick") /\ create.sent /\ create' = NoCreate
    /\ product' = create.model /\ products' = products \cup {create.model} /\ results' = [q \in {} |-> <<>>]
    /\ custom' = FALSE /\ expanded' = FALSE /\ query' = 0 /\ timer' = (timer \/ query # 0)
    /\ chosen' = IF custom THEN create.model ELSE chosen
    /\ late' = (late \/ ~custom)
    /\ UNCHANGED <<search, active>> /\ Pick

-----------------------------------------------------------------------------
(* The gear that players use, a page at a time.                              *)

gearPageCount == Max({1, (gear.count + gearSize - 1) \div gearSize})
GearShown == gear.category = category /\ gear.page = gearPage /\ gear.size = gearSize

readGearLeaderboard ==
    /\ Only("gear") /\ ~GearShown
    /\ LET count == used[category]
           pages == Max({1, (count + gearSize - 1) \div gearSize})
       IN /\ gear' = [category |-> category, page |-> gearPage, size |-> gearSize, count |-> count,
                      rows |-> Max({0, Min({gearSize, count - gearPage * gearSize})})]
          /\ gearPage' = Min({gearPage, pages - 1})
    /\ UNCHANGED <<category, gearSize, used>> /\ Gear

setCategory ==
    /\ Acts("gear") /\ category' = 3 - category /\ gearPage' = 0
    /\ UNCHANGED <<gearSize, used, gear>> /\ Gear

setGearPage ==
    /\ Acts("gear") /\ GearShown /\ \E p \in 0..gearPageCount - 1 : p # gearPage /\ gearPage' = p
    /\ UNCHANGED <<category, gearSize, used, gear>> /\ Gear

resize ==
    /\ Acts("gear") /\ gearSize' = 3 - gearSize /\ gearPage' = 0
    /\ UNCHANGED <<category, used, gear>> /\ Gear

GearDropped ==
    /\ Acts("gear") /\ \E c \in 1..2 : used[c] > 0 /\ used' = [used EXCEPT ![c] = @ - 1]
    /\ UNCHANGED <<category, gearPage, gearSize, gear>> /\ Gear

-----------------------------------------------------------------------------
Progress ==
    \/ fetchComparison
    \/ readCurrentPlayerSettings \/ getProfileMapWrs \/ WrsAnswer \/ getProfileValidatedMaps
    \/ readMySetup \/ saveMySetup \/ onSuccessSave
    \/ setSearch \/ searchProducts \/ onSuccessCreate
    \/ readGearLeaderboard

Next ==
    \/ Progress
    \/ \E slot \in 1..2 : clearPlayer(slot) \/ \E p \in Players : setPlayer(slot, p)
    \/ swapPlayers \/ Back \/ ComparisonFails \/ RefocusCompare \/ RunFinished
    \/ update \/ clearFilters \/ header \/ recordHeader \/ TurnPage \/ setPageSize \/ setRunType \/ setOnlyBoth
    \/ CompletionFails
    \/ RefocusSetup \/ RereadFails \/ setSelected \/ setMonitorSize \/ setCapacity \/ setDpi \/ updateDisk \/ addDisk \/ removeDisk
    \/ mutateSave \/ SaveFails \/ SavedElsewhere
    \/ onFocus \/ dismiss \/ onChange \/ ArrowDown \/ ArrowUp \/ Enter \/ select \/ clearProduct
    \/ addCustom \/ closeCustom \/ selectMatch \/ createProduct \/ CreateFails
    \/ setCategory \/ setGearPage \/ resize \/ GearDropped

Spec == Init /\ [][Next]_vars

-----------------------------------------------------------------------------
(* Every variable keeps its type.                                            *)
TypeOK ==
    /\ url \in Idents \X Idents /\ earlier \in Seq(Idents \X Idents) /\ DOMAIN answers \subseteq Keys /\ asked \subseteq Keys
    /\ {selectionError, aliased, added, onlyBoth, setting, clean, removed, timer, expanded, custom, late} \subseteq BOOLEAN
    /\ filters \in [target : {"either", "both", "player1", "player2"}, minTime : {0, 10}, map : {0, 2}]
    /\ sort \in [key : {"map", "time", "created_on"}, slot : 1..2, desc : BOOLEAN] /\ pageIndex \in 0..2 /\ pageSize \in 1..2
    /\ settingHeld \in {"asked", "failed", "yes", "no"} /\ save \in {"unread", "none", "reread", "sent", "saved"}
    /\ DOMAIN setup = DOMAIN NoSetup /\ Len(disks) <= 2
    /\ product \in 0..3 /\ query \in 0..3 /\ search \in 0..3 /\ active \in -1..2 /\ products \subseteq 1..3
    /\ gearPage \in 0..2 /\ gear.rows \in 0..2

(* Nobody is compared with himself, unless an address named him by an alias. *)
PairIsTwo == Named(url) /\ ~aliased => PlayerOf(url[1]) # PlayerOf(url[2])

(* The filters typed in the table are those it has: they are lost only when  *)
(* a pair is chosen that is not held, or when a second reading fails.        *)
FiltersAreKept == ShowsTable => filters = wanted

(* The rows are in a strict order, and those without the run sorted by come  *)
(* last whichever way it goes.                                               *)
RunsAreInOrder ==
    ShowsTable =>
        /\ \A a, b \in AllRows : a # b => (Before(a, b) <=> ~Before(b, a))
        /\ \A i, j \in DOMAIN filteredRows : i < j /\ valueFor(filteredRows[i]) = 0 => valueFor(filteredRows[j]) = 0

(* The page of the table has rows, and turning it starts from the page shown.*)
RunsPageHasRows == ShowsTable => (PageRows = <<>> <=> filteredRows = <<>>) /\ pageIndex = currentPage

(* A win counted for one player is a gap shown behind the time of the other. *)
WinsMatchGaps ==
    ShowsTable => \A s \in 1..2 : wins(s) = Cardinality({i \in DOMAIN filteredRows : delta(filteredRows[i], Other(s))})

(* No more is completed than there is, and once the choice of the reader is  *)
(* known, the maps counted are those it means.                               *)
CompletionTellsTruth ==
    ~CompletionIsLoading /\ ~CompletionIsError => \A p \in 1..2 : LET data == buildProfileCompletionData(p) IN
        /\ \A t \in 1..2 : data.nub[t].complete <= data.nub[t].total /\ data.pro[t].complete <= data.pro[t].total
        /\ settingHeld \in {"yes", "no"} /\ ~setting => \A t \in 1..2 : data.pro[t].total = data.nub[t].total

(* A setup just saved is what the form shows, except for the size of a       *)
(* monitor that was taken out.                                               *)
SetupIsKept ==
    clean =>
        /\ setup.monitor = form.monitor /\ setup.capacity = form.capacity /\ setup.dpi = form.dpi
        /\ form.monitor # 0 => setup.size = form.size
        /\ \A i \in DOMAIN disks : disks[i].product # 0 \/ disks[i].amount # 0 =>
            \E j \in DOMAIN setup.disks : setup.disks[j].product = disks[i].product /\ setup.disks[j].gb = size[disks[i].key]

(* Changing the unit of a disk does not change its size.                     *)
SizeIsKept == \A i \in DOMAIN disks : SavedGb(disks[i]) = size[disks[i].key]

(* The speed of the memory, which no field shows, survives every save that   *)
(* keeps the memory.                                                         *)
SpeedIsKept == setup.speed = Speed \/ removed

(* The field shows the product that is going to be saved.                    *)
FieldShowsProduct == product # 0 => query = 0

(* The product is the one chosen last, unless a creation answered after its  *)
(* dialog was closed.                                                        *)
ChosenIsKept == ~late => product = chosen

(* A page of the gear has rows, once it is shown.                            *)
GearPageHasRows == GearShown => (gear.rows = 0 <=> gear.count = 0)

=============================================================================
