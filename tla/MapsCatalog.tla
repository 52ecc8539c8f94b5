---------------------------- MODULE MapsCatalog ----------------------------
(***************************************************************************)
(* The catalog of maps: all maps of a scope are read at once and filtered  *)
(* in the browser, also by what the player has finished, which is known    *)
(* only when other queries have answered.                                  *)
(***************************************************************************)
EXTENDS Integers, Sequences, FiniteSets, SequencesExt

CONSTANTS
    Maps,       \* map ids, a finite set of numbers
    Validated,  \* the validated ones
    Tier,       \* [Maps -> Nat], 0 for none
    Finished,   \* [{"OVR", "KZT"} -> [{"NUB", "PRO"} -> SUBSET Maps]]: the player's records
    ProWrs,     \* maps with a PRO world record
    PAGE_SIZE,
    MaxActs     \* bound on what the visitor does and on the failed queries

VARIABLES
    scope, type,        \* "OVR" or "KZT"; "NUB" or "PRO"
    completion,         \* "all", "finished" or "unfinished"
    status,             \* validationStatus: "validated" or "invalid"
    searchInput,        \* NoSearch, NoMatch, or the id of the one map whose name matches
    deferredSearch,     \* the search the list is computed for
    minimumTier, maximumTier, \* 0 for all
    page,
    arrived, failed,    \* queries that have answered, or given up
    acts                \* counts towards MaxActs

NoSearch == 0
NoMatch == -1
filters == <<scope, type, completion, status, minimumTier, maximumTier>>
search == <<searchInput, deferredSearch>>
queries == <<arrived, failed>>
vars == <<filters, search, page, queries, acts>>

Query(name, t) == [name |-> name, scope |-> scope, type |-> t]
Settings == [name |-> "settings", scope |-> "", type |-> ""]
mapsQuery == Query("maps", "")
pbsQuery == Query("pbs", type)
proWrsQuery == Query("wrs", "PRO")

(* The queries the page mounts; PRO world records only for the PRO view.    *)
Enabled ==
    {mapsQuery, Settings, Query("pbs", "NUB"), Query("pbs", "PRO")}
        \cup (IF type = "PRO" THEN {proWrsQuery} ELSE {})

requiresProWr == type = "PRO" /\ Settings \in arrived

BugPersonalFilterLoading == {mapsQuery} \ (arrived \cup failed) # {}

personalFilterLoading ==
    ({pbsQuery, Settings} \cup (IF type = "PRO" THEN {proWrsQuery} ELSE {})) \ (arrived \cup failed) # {}

personalFilterError ==
    ({pbsQuery, Settings} \cup (IF type = "PRO" THEN {proWrsQuery} ELSE {})) \cap failed # {}

pbs == IF pbsQuery \in arrived THEN Finished[scope][type] ELSE {}
wrs == IF proWrsQuery \in arrived THEN ProWrs ELSE {}

unfinishedMapIds ==
    {m \in Validated : Tier[m] # 0 /\ m \notin pbs /\ (requiresProWr => m \in wrs)}

Known == IF mapsQuery \in arrived THEN Maps ELSE {}
Named(ms) == {m \in ms : deferredSearch \in {NoSearch, m}}

BugactiveMaps == IF status = "validated" THEN Known \cap Validated ELSE Known \ Validated

(* A name that only maps not validated have is shown among those.           *)
activeMaps ==
    IF status = "invalid" \/ (deferredSearch # NoSearch /\ Named(Known \cap Validated) = {} /\ Named(Known \ Validated) # {})
    THEN Known \ Validated
    ELSE Known \cap Validated

mapFilterErrors == minimumTier # 0 /\ maximumTier # 0 /\ minimumTier > maximumTier

(* A reversed range is reported and not applied.                            *)
filteredMaps ==
    {m \in Named(activeMaps) :
        mapFilterErrors
        \/ (minimumTier = 0 /\ maximumTier = 0)
        \/ (Tier[m] # 0 /\ Tier[m] >= minimumTier /\ (maximumTier # 0 => Tier[m] <= maximumTier))}

personalFilteredMaps ==
    IF completion = "all" THEN filteredMaps
    ELSE IF personalFilterLoading \/ personalFilterError THEN {}
    ELSE IF completion = "unfinished" THEN filteredMaps \cap unfinishedMapIds
    ELSE {m \in filteredMaps : m \in Validated /\ Tier[m] # 0 /\ m \in pbs /\ (requiresProWr => m \in wrs)}

sortedMaps == SetToSortSeq(personalFilteredMaps, LAMBDA a, b : a < b)
totalPages == IF sortedMaps = <<>> THEN 1 ELSE (Len(sortedMaps) + PAGE_SIZE - 1) \div PAGE_SIZE
visibleMaps ==
    SubSeq(sortedMaps, (page - 1) * PAGE_SIZE + 1, IF page * PAGE_SIZE < Len(sortedMaps) THEN page * PAGE_SIZE ELSE Len(sortedMaps))

Init ==
    /\ scope = "OVR" /\ type = "NUB" /\ completion = "all" /\ status = "validated"
    /\ searchInput = NoSearch /\ deferredSearch = NoSearch
    /\ minimumTier = 0 /\ maximumTier = 0
    /\ page = 1 /\ arrived = {} /\ failed = {} /\ acts = 0

Acts == acts < MaxActs /\ acts' = acts + 1

(* Every control goes back to the first page.                               *)
setSearchInput ==
    /\ Acts
    /\ searchInput' \in Maps \cup {NoSearch, NoMatch} /\ page' = 1
    /\ UNCHANGED <<filters, deferredSearch, queries>>

SetFilter ==
    /\ Acts
    /\ page' = 1
    /\ \/ completion' \in {"all", "finished", "unfinished"} /\ UNCHANGED <<scope, type, status, minimumTier, maximumTier>>
       \/ type' \in {"NUB", "PRO"} /\ UNCHANGED <<scope, completion, status, minimumTier, maximumTier>>
       \/ status' \in {"validated", "invalid"} /\ UNCHANGED <<scope, type, completion, minimumTier, maximumTier>>
       \/ minimumTier' \in 0 .. 2 /\ UNCHANGED <<scope, type, completion, status, maximumTier>>
       \/ maximumTier' \in 0 .. 2 /\ UNCHANGED <<scope, type, completion, status, minimumTier>>
    /\ UNCHANGED <<search, queries>>

clearMapFilters ==
    /\ Acts
    /\ minimumTier' = 0 /\ maximumTier' = 0 /\ page' = 1
    /\ UNCHANGED <<scope, type, completion, status, search, queries>>

(* A preset holds the filters, the search, the type and the scope.          *)
applyPreset ==
    /\ Acts
    /\ \E c \in {"all", "unfinished"} : completion' = c /\ type' = IF c = "all" THEN "NUB" ELSE "PRO"
    /\ scope' = "OVR" /\ status' = "validated" /\ searchInput' = NoSearch
    /\ minimumTier' = 0 /\ maximumTier' = 0 /\ page' = 1
    /\ UNCHANGED <<deferredSearch, queries>>

(* The scope is chosen for the whole site: the page number stays.           *)
setScope ==
    /\ Acts
    /\ scope' \in {"OVR", "KZT"}
    /\ UNCHANGED <<type, completion, status, minimumTier, maximumTier, search, page, queries>>

handlePageChange ==
    /\ Acts
    /\ page' \in 1 .. totalPages /\ page' # page
    /\ UNCHANGED <<filters, search, queries>>

(* The list follows what is typed at a lower priority.                      *)
Defer ==
    /\ deferredSearch # searchInput /\ deferredSearch' = searchInput
    /\ UNCHANGED <<filters, searchInput, page, queries, acts>>

BugPageEffect ==
    /\ mapsQuery \notin arrived /\ page > totalPages /\ page' = totalPages
    /\ UNCHANGED <<filters, search, queries, acts>>

PageEffect ==
    /\ page > totalPages /\ page' = totalPages
    /\ UNCHANGED <<filters, search, queries, acts>>

Arrive ==
    /\ \E q \in Enabled \ (arrived \cup failed) : arrived' = arrived \cup {q}
    /\ UNCHANGED <<filters, search, page, failed, acts>>

Fail ==
    /\ Acts
    /\ \E q \in Enabled \ (arrived \cup failed) : failed' = failed \cup {q}
    /\ UNCHANGED <<filters, search, page, arrived>>

(* The retry buttons: of the maps, or of the queries of the player.         *)
Retry ==
    /\ \/ mapsQuery \in failed /\ failed' = failed \ {mapsQuery}
       \/ /\ completion # "all" /\ personalFilterError
          /\ failed' = failed \ ({pbsQuery, Settings} \cup (IF requiresProWr THEN {proWrsQuery} ELSE {}))
    /\ UNCHANGED <<filters, search, page, arrived, acts>>

(* The page is left and opened again: what it stored comes back, the        *)
(* queries keep their answers.                                              *)
Return ==
    /\ Acts
    /\ deferredSearch' = searchInput
    /\ failed' = {}
    /\ UNCHANGED <<filters, searchInput, page, arrived>>

Progress == Defer \/ PageEffect \/ Arrive
Next == setSearchInput \/ SetFilter \/ clearMapFilters \/ applyPreset \/ setScope \/ handlePageChange \/ Fail \/ Retry \/ Return \/ Progress

Spec == Init /\ [][Next]_vars
FairSpec == Spec /\ WF_vars(Progress)
-----------------------------------------------------------------------------
TypeOK ==
    /\ searchInput \in Maps \cup {NoSearch, NoMatch}
    /\ page \in 1 .. Cardinality(Maps)
    /\ arrived \cap failed = {}

Visible == {visibleMaps[i] : i \in DOMAIN visibleMaps}

(* A map shown as finished has a record of the player in the scope and the  *)
(* type chosen, one shown as unfinished has none, whichever queries have    *)
(* answered so far.                                                         *)
CompletionIsTrue ==
    /\ completion = "finished" => Visible \subseteq Finished[scope][type]
    /\ completion = "unfinished" => Visible \cap Finished[scope][type] = {}

(* Once the maps are there, a name that some map has finds a map, validated *)
(* or not, when no other filter is set.                                     *)
SearchFindsMap ==
    (/\ mapsQuery \in arrived /\ status = "validated" /\ completion = "all"
     /\ minimumTier = 0 /\ maximumTier = 0
     /\ deferredSearch \in Maps) => deferredSearch \in personalFilteredMaps

(* The page never stays past the end of a list that became shorter.         *)
PageComesBack == []<>(sortedMaps # <<>> => visibleMaps # <<>>)
=============================================================================
