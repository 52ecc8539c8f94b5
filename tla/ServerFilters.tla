--------------------------- MODULE ServerFilters ---------------------------
(***************************************************************************)
(* The filters of the server browser: taken from the address, the saved    *)
(* preferences or the defaults, overridden by the route of a group, saved  *)
(* and tidied by effects whenever the servers or the choice change.        *)
(***************************************************************************)
EXTENDS Naturals, FiniteSets

CONSTANTS
    Fleet,      \* servers: [id, group, region, web]; group "none" has no group
    MaxChanges  \* bound on what the user and the servers do

Groups == {s.group : s \in Fleet}
Regions == {s.region : s \in Fleet}

VARIABLES
    online,     \* the servers that are up, as far as the browser knows
    seeded,     \* serversSeeded: the native ones have arrived
    polled,     \* webServersQuery: "no", "ok" or "error"
    search,     \* group, region and status
    route,      \* "list", "server" or a group's page
    saved,      \* the preferences in the storage
    acts        \* counts towards MaxChanges

vars == <<online, seeded, polled, search, route, saved, acts>>

All == [group |-> "all", region |-> "all"]

servers == {s \in Fleet : IF s.web THEN polled # "no" ELSE seeded}
IsOnline(s) == s \in online /\ (s.web => polled # "error")
MatchesStatus(s, status) == (status = "online") <=> IsOnline(s)
MatchesGroup(s, g) == g = "all" \/ s.group = g
MatchesRegion(s, r) == r = "all" \/ s.region = r

(* A group's page overrides the choice as soon as one of its servers is     *)
(* known.                                                                   *)
Override == {s.group : s \in {s \in servers : route = [group |-> s.group]}}
activeSearch ==
    IF Override = {} THEN search ELSE [search EXCEPT !.group = CHOOSE g \in Override : TRUE]

(* getServerGroupCounts and getRegionCounts: what there is a button for     *)
GroupOptions == {s.group : s \in {s \in servers : MatchesStatus(s, activeSearch.status)}}
BugRegionsOf(g) == {s.region : s \in {s \in servers : MatchesStatus(s, activeSearch.status)}}

RegionsOf(g) ==
    {s.region : s \in {s \in servers : MatchesStatus(s, activeSearch.status) /\ MatchesGroup(s, g)}}

filteredServers ==
    {s \in servers : /\ MatchesStatus(s, activeSearch.status)
                     /\ MatchesGroup(s, activeSearch.group)
                     /\ MatchesRegion(s, activeSearch.region)}
-----------------------------------------------------------------------------
Init ==
    /\ online = Fleet /\ seeded = FALSE /\ polled = "no"
    /\ search = [group |-> "all", region |-> "all", status |-> "online"]
    /\ route = [group |-> "list"] /\ saved = All /\ acts = 0

Acts == acts < MaxChanges /\ acts' = acts + 1

(* The page is loaded again, perhaps by a shared link: what the address does*)
(* not say is taken from the preferences.                                   *)
Load(g, r) ==
    /\ Acts
    /\ search' = [group |-> IF g = "unsaid" THEN saved.group ELSE g,
                  region |-> IF r = "unsaid" THEN saved.region ELSE r,
                  status |-> "online"]
    /\ seeded' = FALSE /\ polled' = "no"
    /\ UNCHANGED <<online, route, saved>>

Seed == ~ seeded /\ seeded' = TRUE /\ UNCHANGED <<online, polled, search, route, saved, acts>>

(* The poll of the web servers; its last data stay when it fails.           *)
Poll(result) ==
    /\ result # polled /\ (result = "error" => polled = "ok")
    /\ polled' = result
    /\ UNCHANGED <<online, seeded, search, route, saved, acts>>

Flip(s) ==
    /\ Acts
    /\ online' = IF s \in online THEN online \ {s} ELSE online \cup {s}
    /\ UNCHANGED <<seeded, polled, search, route, saved>>

-----------------------------------------------------------------------------
(* A group without a button is given up, and a region without one in the    *)
(* group that is left.                                                      *)
BugTidied(s) ==
    LET g == activeSearch.group  offered == g = "all" \/ g \in GroupOptions
    IN  IF ~ offered THEN [s EXCEPT !.group = "all"]
        ELSE IF activeSearch.region \notin RegionsOf(g) THEN [s EXCEPT !.region = "all"] ELSE s

Tidied(s) ==
    LET g == IF activeSearch.group \in GroupOptions THEN activeSearch.group ELSE "all"
        r == IF activeSearch.region \in RegionsOf(g) THEN activeSearch.region ELSE "all"
    IN  [s EXCEPT !.group = IF g = activeSearch.group THEN @ ELSE g, !.region = r]

Chosen == [group |-> activeSearch.group, region |-> activeSearch.region]
Settled == saved = Chosen /\ (seeded => Tidied(search) = search)

(* The effects that follow a render                                         *)
Effects ==
    /\ ~ Settled
    /\ saved' = Chosen
    /\ search' = IF seeded THEN Tidied(search) ELSE search
    /\ UNCHANGED <<online, seeded, polled, route, acts>>

-----------------------------------------------------------------------------
(* handleGroupChange                                                        *)
ClickGroup(g) ==
    /\ Acts
    /\ g \in GroupOptions
    /\ LET next == IF activeSearch.group = g THEN "all" ELSE g
           keeps == next = "all" \/ activeSearch.region \in RegionsOf(next)
       IN  /\ search' = [search EXCEPT !.group = next, !.region = IF keeps THEN @ ELSE "all"]
           /\ route' = [group |-> IF next = "all" THEN "list" ELSE g]
    /\ UNCHANGED <<online, seeded, polled, saved>>

(* handleRegionChange                                                       *)
ClickRegion(r) ==
    /\ Acts
    /\ r \in RegionsOf(activeSearch.group)
    /\ search' = [search EXCEPT !.region = IF activeSearch.region = r THEN "all" ELSE r]
    /\ UNCHANGED <<online, seeded, polled, route, saved>>

ToggleStatus ==
    /\ Acts
    /\ search' = [search EXCEPT !.status = IF @ = "online" THEN "offline" ELSE "online"]
    /\ UNCHANGED <<online, seeded, polled, route, saved>>

(* handleSelectServer leaves a group's page; closing the sheet goes back to *)
(* the page of the chosen group, if there is a button for it.               *)
SelectServer ==
    /\ Acts
    /\ filteredServers # {} /\ route # [group |-> "server"]
    /\ route' = [group |-> "server"]
    /\ UNCHANGED <<online, seeded, polled, search, saved>>

CloseSheet ==
    /\ route = [group |-> "server"]
    /\ route' = [group |-> IF search.group \in GroupOptions THEN search.group ELSE "list"]
    /\ UNCHANGED <<online, seeded, polled, search, saved, acts>>

Next ==
    \/ \E g \in Groups \cup {"unsaid", "all"}, r \in Regions \cup {"unsaid"} : Load(g, r)
    \/ Seed \/ \E result \in {"ok", "error"} : Poll(result)
    \/ \E s \in Fleet : Flip(s)
    \/ Effects
    \/ \E g \in Groups : ClickGroup(g)
    \/ \E r \in Regions : ClickRegion(r)
    \/ ToggleStatus \/ SelectServer \/ CloseSheet

Spec == Init /\ [][Next]_vars
-----------------------------------------------------------------------------
TypeOK ==
    /\ online \subseteq Fleet /\ polled \in {"no", "ok", "error"}
    /\ saved.group \in Groups \cup {"all"} /\ saved.region \in Regions \cup {"all"}
    /\ route.group \in Groups \cup {"list", "server"}

(* Once the effects have run, the filters never leave an empty list while a *)
(* server with the wanted status is known: no choice stays that hides       *)
(* everything and has no button to undo it. (On the page of a group the     *)
(* group stays.)                                                            *)
FiltersLeaveSomething ==
    Settled /\ seeded /\ Override = {} /\ filteredServers = {} =>
        \A s \in servers : ~ MatchesStatus(s, search.status)

(* The effects set state that they depend on; one pass is enough, so that   *)
(* they never run in a circle.                                              *)
Settles == Effects /\ seeded => Tidied(search)' = search'

EffectsSettle == [][Settles]_vars
=============================================================================
