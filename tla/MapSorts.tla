------------------------------ MODULE MapSorts ------------------------------
(***************************************************************************)
(* How the catalog of maps is ordered, narrowed by ranges and turned page   *)
(* by page, and how these settings come back from the storage of the tab,   *)
(* from a preset or from the default view.                                  *)
(***************************************************************************)
EXTENDS Integers, FiniteSets

CONSTANTS
    Maps,       \* map ids, 1 .. n, in the order of their names
    Value,      \* [Maps -> [Fields -> Nat \cup {None}]]
    Bounds,     \* what may be written into a range: numbers, Empty, Wrong
    PAGE_SIZE,
    MaxActs     \* bound on what the visitor does

VARIABLES
    signedIn,
    sortField, sortDirection, selectedSkill, selectedReviewSort,
    mapFilters,     \* [Ranges -> [min, max]]: what is written into the ranges
    page, pageInputValue,
    stored,         \* the settings in the storage of the tab
    default,        \* the settings of the default view, or NoSettings
    acts            \* counts towards MaxActs

sorting == <<sortField, sortDirection, selectedSkill, selectedReviewSort>>
paging == <<page, pageInputValue>>
vars == <<signedIn, sorting, mapFilters, paging, stored, default, acts>>

None == -1
Empty == 0
Wrong == -2

REVIEW_SORT_OPTIONS == {"overall", "reviewCount", "commentsCount"}

MAP_METRICS == {"nub", "bonus"}

PERSONAL_SORTS == {"pbTime", "pbDate"}

MAP_SORT_OPTIONS == {"bestRated", "name", "tier", "wr", "skill"}

MAP_SORTABLE_SKILLS == {"ladder", "bhop"}

Ranges == {"wr", "created", "rating"}

(* Best rated orders by the adjusted average, overall by the plain one; each*)
(* stands for the other averages of the reviews.                            *)
Averages == {"bestRated", "overall"}

EMPTY_MAP_FILTERS == [r \in Ranges |-> [min |-> Empty, max |-> Empty]]

Settings(f, d, s, r, m, p) == [field |-> f, direction |-> d, skill |-> s, review |-> r, filters |-> m, page |-> p]
DEFAULT_MAPS_PRESET_SETTINGS == Settings("bestRated", "desc", "ladder", "overall", EMPTY_MAP_FILTERS, 1)
NoSettings == Settings("", "", "", "", EMPTY_MAP_FILTERS, 0)
presetSettings == Settings(sortField, sortDirection, selectedSkill, selectedReviewSort, mapFilters, 1)

BugisMapsSortField(f) == f \in MAP_SORT_OPTIONS \cup REVIEW_SORT_OPTIONS \cup PERSONAL_SORTS

isMapsSortField(f) == f \in MAP_SORT_OPTIONS \cup REVIEW_SORT_OPTIONS \cup MAP_METRICS \cup PERSONAL_SORTS

isSortableSkillKey(s) == s \in MAP_SORTABLE_SKILLS

isReviewSortField(f) == f \in REVIEW_SORT_OPTIONS

(* A preset is taken as a whole or not at all; what the tab stored is taken *)
(* field by field, each replaced by its default when it is not one.         *)
parseMapsPresetSettings(v) ==
    IF isMapsSortField(v.field) /\ v.direction \in {"asc", "desc"} /\ isSortableSkillKey(v.skill) /\ isReviewSortField(v.review)
    THEN v ELSE NoSettings

readPersistedMapsCatalogState(v) ==
    LET d == DEFAULT_MAPS_PRESET_SETTINGS
    IN  Settings(IF isMapsSortField(v.field) THEN v.field ELSE d.field,
                 IF v.direction \in {"asc", "desc"} THEN v.direction ELSE d.direction,
                 IF isSortableSkillKey(v.skill) THEN v.skill ELSE d.skill,
                 IF isReviewSortField(v.review) THEN v.review ELSE d.review,
                 v.filters, IF v.page >= 1 THEN v.page ELSE 1)

-----------------------------------------------------------------------------
(* Ranges.  A bound that is no value, or a reversed range, is reported and  *)
(* the whole range is not applied; a map without the value is not in a range.*)

parseNumber(b) == IF b \in {Empty, Wrong} THEN None ELSE b

hasValue(b) == b # Empty

isInvalidValue(b) == hasValue(b) /\ parseNumber(b) = None

isRangeReversed(r) ==
    hasValue(r.min) /\ hasValue(r.max) /\ parseNumber(r.min) # None /\ parseNumber(r.max) # None
        /\ parseNumber(r.min) > parseNumber(r.max)

Wrongly(r) == isInvalidValue(r.min) \/ isInvalidValue(r.max) \/ isRangeReversed(r)
mapFilterErrors == {k \in Ranges : Wrongly(mapFilters[k])}

RangeField(k) == CASE k = "wr" -> "wr" [] k = "created" -> "created" [] k = "rating" -> "overall"

BugInRange(v, r) ==
    /\ parseNumber(r.min) # None => v >= parseNumber(r.min)
    /\ parseNumber(r.max) # None => v <= parseNumber(r.max)

InRange(v, r) ==
    hasValue(r.min) \/ hasValue(r.max) =>
        /\ v # None
        /\ parseNumber(r.min) # None => v >= parseNumber(r.min)
        /\ parseNumber(r.max) # None => v <= parseNumber(r.max)

filteredMaps ==
    {m \in Maps : \A k \in Ranges \ mapFilterErrors : InRange(Value[m][RangeField(k)], mapFilters[k])}

-----------------------------------------------------------------------------
(* The order.                                                               *)

effectiveSortField == IF ~signedIn /\ sortField \in PERSONAL_SORTS THEN "bestRated" ELSE sortField

compareNullableNumbers(l, r, direction) ==
    CASE l = None /\ r = None -> 0
      [] l = None /\ r # None -> 1
      [] l # None /\ r = None -> -1
      [] l # None /\ r # None -> IF direction = "asc" THEN l - r ELSE r - l

FieldOf(f) == IF f = "skill" THEN selectedSkill ELSE f

(* These fields are compared in the direction asked for, so that maps       *)
(* without the value come last in both; the others are turned round at the  *)
(* end, together with the order of names that decides between equals.       *)
Directed == Averages \cup {"reviewCount", "commentsCount", "wr", "nub"} \cup PERSONAL_SORTS

Compared(l, r) ==
    LET f == effectiveSortField
        of(g, d) == compareNullableNumbers(Value[l][g], Value[r][g], d)
    IN  of(FieldOf(f), IF f \in Directed THEN sortDirection ELSE "asc")

BugTieBreak(l, r) == 0

TieBreak(l, r) ==
    LET f == effectiveSortField
        of(g) == compareNullableNumbers(Value[l][g], Value[r][g], sortDirection)
        first == IF f \in Averages THEN of("reviewCount") ELSE IF f = "commentsCount" THEN of("reviewCount") ELSE 0
        next == IF first = 0 /\ f \in Averages \cup {"reviewCount"} THEN of("commentsCount") ELSE first
    IN  IF next = 0 THEN l - r ELSE next

sortMaps(l, r) ==
    LET c == IF Compared(l, r) = 0 THEN TieBreak(l, r) ELSE Compared(l, r)
    IN  IF effectiveSortField \in Directed \/ sortDirection = "asc" THEN c ELSE -c

Place(m) == 1 + Cardinality({o \in filteredMaps : sortMaps(o, m) < 0})

totalPages == LET n == Cardinality(filteredMaps) IN IF n = 0 THEN 1 ELSE (n + PAGE_SIZE - 1) \div PAGE_SIZE
visibleMaps == {m \in filteredMaps : Place(m) > (page - 1) * PAGE_SIZE /\ Place(m) <= page * PAGE_SIZE}

-----------------------------------------------------------------------------
Load(v) ==
    /\ sortField = v.field /\ sortDirection = v.direction
    /\ selectedSkill = v.skill /\ selectedReviewSort = v.review
    /\ mapFilters = v.filters /\ page = v.page /\ pageInputValue = v.page

Init ==
    /\ signedIn \in BOOLEAN
    /\ stored = DEFAULT_MAPS_PRESET_SETTINGS /\ default = NoSettings
    /\ Load(DEFAULT_MAPS_PRESET_SETTINGS)
    /\ acts = 0

Acts == acts < MaxActs /\ acts' = acts + 1

(* The effects of a rendering: the page goes back when there are fewer, the *)
(* number beside the buttons follows the page, the tab stores the settings. *)
Rendered(p) ==
    /\ page' = IF p > totalPages' THEN totalPages' ELSE p
    /\ pageInputValue' = IF page' # page THEN page' ELSE pageInputValue
    /\ stored' = Settings(sortField', sortDirection', selectedSkill', selectedReviewSort', mapFilters', page')
    /\ UNCHANGED default

Toggled == IF sortDirection = "asc" THEN "desc" ELSE "asc"

SortBy(f, d) == sortField' = f /\ sortDirection' = d

(* The row of sorts; the grouped ones stand for the sort last chosen in them.*)
handleSortChange ==
    /\ Acts
    /\ \/ SortBy("skill", "desc")
       \/ SortBy("wr", IF sortField = "wr" THEN Toggled ELSE "asc")
       \/ SortBy("bestRated", IF sortField = "bestRated" THEN Toggled ELSE "desc")
       \/ SortBy(IF isReviewSortField(sortField) THEN sortField ELSE selectedReviewSort,
                 IF isReviewSortField(sortField) THEN Toggled ELSE "desc")
       \/ signedIn /\ SortBy(IF sortField \in PERSONAL_SORTS THEN sortField ELSE "pbDate",
                             IF sortField \in PERSONAL_SORTS /\ sortDirection = "desc" THEN "asc" ELSE "desc")
       \/ SortBy(IF sortField \in MAP_METRICS THEN sortField ELSE "nub",
                 IF sortField \in MAP_METRICS THEN Toggled ELSE "desc")
       \/ \E f \in {"name", "tier"} : SortBy(f, IF sortField = f THEN Toggled ELSE "asc")
    /\ UNCHANGED <<signedIn, selectedSkill, selectedReviewSort, mapFilters>>
    /\ Rendered(1)

handleSkillSortSelection ==
    /\ Acts /\ sortField = "skill"
    /\ selectedSkill' \in MAP_SORTABLE_SKILLS
    /\ SortBy("skill", "desc")
    /\ UNCHANGED <<signedIn, selectedReviewSort, mapFilters>>
    /\ Rendered(1)

handleMetricSortSelection ==
    /\ Acts /\ sortField \in MAP_METRICS
    /\ \E f \in MAP_METRICS : SortBy(f, IF sortField = f THEN Toggled ELSE "desc")
    /\ UNCHANGED <<signedIn, selectedSkill, selectedReviewSort, mapFilters>>
    /\ Rendered(1)

handleReviewSortSelection ==
    /\ Acts /\ isReviewSortField(sortField)
    /\ \E f \in REVIEW_SORT_OPTIONS :
        /\ selectedReviewSort' = f
        /\ SortBy(f, IF sortField = f THEN Toggled ELSE "desc")
    /\ UNCHANGED <<signedIn, selectedSkill, mapFilters>>
    /\ Rendered(1)

SelectPersonalSort ==
    /\ Acts /\ signedIn /\ sortField \in PERSONAL_SORTS
    /\ \E f \in PERSONAL_SORTS : SortBy(f, IF sortField = f THEN Toggled ELSE IF f = "pbTime" THEN "asc" ELSE "desc")
    /\ UNCHANGED <<signedIn, selectedSkill, selectedReviewSort, mapFilters>>
    /\ Rendered(1)

updateMapFilter ==
    /\ Acts
    /\ \E k \in Ranges, b \in Bounds :
        \/ mapFilters' = [mapFilters EXCEPT ![k].min = b]
        \/ mapFilters' = [mapFilters EXCEPT ![k].max = b]
    /\ UNCHANGED <<signedIn, sorting>>
    /\ Rendered(1)

clearMapFilters ==
    /\ mapFilters # EMPTY_MAP_FILTERS /\ mapFilters' = EMPTY_MAP_FILTERS
    /\ UNCHANGED <<signedIn, sorting, acts>>
    /\ Rendered(1)

handlePageChange ==
    /\ Acts
    /\ \E p \in {1, page - 1, page + 1, totalPages} : p \in 1 .. totalPages /\ UNCHANGED <<signedIn, sorting, mapFilters>> /\ Rendered(p)

TypePage ==
    /\ Acts
    /\ pageInputValue' \in {0, totalPages + 1, Wrong}
    /\ UNCHANGED <<signedIn, sorting, mapFilters, page, stored, default>>

(* What was typed is turned into a page there is, or into the page shown.   *)
commitPageInputValue ==
    /\ pageInputValue # page
    /\ LET p == IF pageInputValue = Wrong THEN page
                ELSE IF pageInputValue < 1 THEN 1
                ELSE IF pageInputValue > totalPages THEN totalPages ELSE pageInputValue
       IN  page' = p /\ pageInputValue' = p /\ stored' = [stored EXCEPT !.page = p]
    /\ UNCHANGED <<signedIn, sorting, mapFilters, default, acts>>

SaveDefault ==
    /\ Acts /\ default' = IF default = NoSettings THEN presetSettings ELSE NoSettings
    /\ UNCHANGED <<signedIn, sorting, mapFilters, paging, stored>>

applyPreset ==
    /\ Acts
    /\ LET v == IF parseMapsPresetSettings(default) = NoSettings THEN DEFAULT_MAPS_PRESET_SETTINGS ELSE default
       IN  /\ SortBy(v.field, v.direction) /\ selectedSkill' = v.skill /\ selectedReviewSort' = v.review
           /\ mapFilters' = v.filters
    /\ UNCHANGED signedIn
    /\ Rendered(1)

(* The page is opened again, by the same visitor or by one not signed in.   *)
Reload ==
    /\ Acts /\ signedIn' \in {signedIn, FALSE}
    /\ LET v == IF parseMapsPresetSettings(default) # NoSettings THEN default ELSE readPersistedMapsCatalogState(stored)
       IN  /\ SortBy(v.field, v.direction) /\ selectedSkill' = v.skill /\ selectedReviewSort' = v.review
           /\ mapFilters' = v.filters /\ page' = v.page /\ pageInputValue' = v.page
           /\ stored' = v
    /\ UNCHANGED default

Next ==
    \/ handleSortChange \/ handleSkillSortSelection \/ handleMetricSortSelection \/ handleReviewSortSelection \/ SelectPersonalSort
    \/ updateMapFilter \/ clearMapFilters \/ handlePageChange \/ TypePage \/ commitPageInputValue
    \/ SaveDefault \/ applyPreset \/ Reload

Spec == Init /\ [][Next]_vars

TypeOK ==
    /\ signedIn \in BOOLEAN /\ sortDirection \in {"asc", "desc"}
    /\ sortField \in MAP_SORT_OPTIONS \cup REVIEW_SORT_OPTIONS \cup MAP_METRICS \cup PERSONAL_SORTS
    /\ selectedSkill \in MAP_SORTABLE_SKILLS /\ selectedReviewSort \in REVIEW_SORT_OPTIONS
    /\ mapFilters \in [Ranges -> [min : Bounds \cup {Empty}, max : Bounds \cup {Empty}]]
    /\ page \in 1 .. Cardinality(Maps) /\ pageInputValue \in -2 .. Cardinality(Maps) + 1

(* The order is total, whatever the maps have and have not; where it follows*)
(* the direction by itself, maps without the value come last; every map that*)
(* is found is on one page.                                                 *)
OrderIsTotal ==
    /\ \A l, r \in filteredMaps : l # r => Place(l) # Place(r)
    /\ effectiveSortField \in Directed =>
        \A l, r \in filteredMaps :
            Value[l][effectiveSortField] # None /\ Value[r][effectiveSortField] = None => Place(l) < Place(r)
    /\ filteredMaps # {} => visibleMaps # {}

(* A bound that is written narrows the list as it says or is complained     *)
(* about; nothing else narrows it.                                          *)
RangesTellTruth ==
    mapFilterErrors = {} =>
        filteredMaps = {m \in Maps : \A k \in Ranges :
            LET v == Value[m][RangeField(k)]
            IN  /\ mapFilters[k].min # Empty => v # None /\ v >= mapFilters[k].min
                /\ mapFilters[k].max # Empty => v # None /\ v <= mapFilters[k].max}

(* Whatever is chosen passes the checks that read it back, so that neither  *)
(* a return to the tab nor a preset changes the view; and the arrow beside  *)
(* a skill, which always points down, tells the truth.                      *)
SettingsComeBack ==
    /\ readPersistedMapsCatalogState(stored) = [presetSettings EXCEPT !.page = page]
    /\ parseMapsPresetSettings(presetSettings) = presetSettings
    /\ sortField = "skill" => sortDirection = "desc"
=============================================================================
