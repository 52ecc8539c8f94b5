--------------------------- MODULE RecordMatching ---------------------------
(***************************************************************************)
(* When a run uploaded by a game server (a "native" record) and a run      *)
(* mirrored from the GlobalAPI (a "mirror") are taken to be the same run   *)
(* although neither names the other: services/record_matching.py.          *)
(*                                                                         *)
(* A record row is reduced to what the matching tells apart:               *)
(*   id      the GlobalAPI id, or None                                     *)
(*   native  the group of native_server_id, or None                        *)
(*   source  the group of the GlobalAPI server in server_id, or None       *)
(*   run     steamid64, map, stage, mode and teleports, compared as a whole*)
(*   time    the run's duration in milliseconds                            *)
(*   at      created_at in seconds                                         *)
(* The operators take the table `records` (uuid -> row or None) and        *)
(* `natives`, the join of the native rows with their receipts: a set of    *)
(* [uuid, row, received].                                                  *)
(***************************************************************************)
EXTENDS Integers, FiniteSets

CONSTANTS
    None,                   \* SQL NULL, and the absence of a row
    Validated,              \* groups whose status is VALIDATED
    MATCH_WINDOW,           \* seconds
    RECEIPT_DELAY_WINDOW,   \* seconds
    LEGACY_PRECISION,       \* milliseconds
    MIRROR_LIMIT,           \* .limit(3)
    CANDIDATE_LIMIT         \* .limit(100)

ASSUME WindowsAssumption ==
    /\ MATCH_WINDOW \in Nat
    /\ RECEIPT_DELAY_WINDOW \in Nat
    /\ LEGACY_PRECISION \in Nat
    /\ MIRROR_LIMIT \in Nat
    /\ CANDIDATE_LIMIT \in Nat

Earlier(a, b) == IF a <= b THEN a ELSE b

near(a, b) == a - b <= LEGACY_PRECISION /\ b - a <= LEGACY_PRECISION

same_owner(native, upstream) ==
    /\ native.native # None
    /\ upstream.source # None
    /\ native.native = upstream.source
    /\ native.native \in Validated

statistics_match(native, upstream) ==
    native.run = upstream.run /\ near(native.time, upstream.time)

(* Definitions named Bug... are wrong on purpose: each is put in the place  *)
(* of the definition after it to see that a property notices.               *)
(* A disbelieved clock widens the interval on both sides.                   *)
BugFinishWindowWide(at, received) ==
    IF at > received + MATCH_WINDOW
    THEN received - RECEIPT_DELAY_WINDOW .. received + RECEIPT_DELAY_WINDOW
    ELSE Earlier(at, received) - MATCH_WINDOW .. Earlier(at, received) + MATCH_WINDOW

(* A clock more than MATCH_WINDOW ahead of the receipt is not believed: the *)
(* receipt anchors the interval, stretched back by the allowed delay.       *)
finish_window(at, received) ==
    IF at > received + MATCH_WINDOW
    THEN received - RECEIPT_DELAY_WINDOW .. received + MATCH_WINDOW
    ELSE Earlier(at, received) - MATCH_WINDOW .. Earlier(at, received) + MATCH_WINDOW

(* The guard on short runs forgets the long interval of a disbelieved clock. *)
BugWindowSecondsShort(at, received) == 2 * MATCH_WINDOW

window_seconds(at, received) ==
    IF at > received + MATCH_WINDOW
    THEN RECEIPT_DELAY_WINDOW + MATCH_WINDOW
    ELSE 2 * MATCH_WINDOW

(* Native rows the query of lines 109-127 returns for an upstream run.      *)
natives_near(natives, upstream) ==
    {n \in natives :
        /\ statistics_match(n.row, upstream)
        /\ Earlier(n.row.at, n.received) \in
              upstream.at - MATCH_WINDOW .. upstream.at + RECEIPT_DELAY_WINDOW}

(* Rows with a GlobalAPI id the query of lines 89-102 returns.              *)
mirrors_near(records, native, upstream) ==
    {u \in DOMAIN records :
        /\ records[u] # None
        /\ records[u].id # None
        /\ records[u].run = upstream.run
        /\ near(records[u].time, native.row.time)
        /\ records[u].at \in finish_window(native.row.at, native.received)}

unique_compatible_pair(records, natives, native, upstream) ==
    LET window  == finish_window(native.row.at, native.received)
        mirrors == mirrors_near(records, native, upstream)
        others  == natives_near(natives, upstream)
    IN  /\ Earlier(native.row.time, upstream.time)
              > 1000 * window_seconds(native.row.at, native.received)
        /\ statistics_match(native.row, upstream)
        /\ same_owner(native.row, upstream)
        /\ upstream.at \in window
        /\ Cardinality(mirrors) < MIRROR_LIMIT
        /\ \A u \in mirrors :
              records[u].id # upstream.id => ~ same_owner(native.row, records[u])
        /\ \A n \in others :
              n.uuid # native.uuid =>
                  ~ (/\ upstream.at \in finish_window(n.row.at, n.received)
                     /\ same_owner(n.row, upstream))
        /\ Cardinality(others) < CANDIDATE_LIMIT

(* The mirrors an arriving native run may be merged with: at most one, or   *)
(* none when the choice is not forced.                                      *)
upstream_match(records, natives, native) ==
    LET candidates ==
            {u \in DOMAIN records :
                /\ records[u] # None
                /\ records[u].id # None
                /\ records[u].native = None
                /\ statistics_match(native.row, records[u])
                /\ records[u].at \in finish_window(native.row.at, native.received)}
        matches == {u \in candidates :
                      unique_compatible_pair(records, natives, native, records[u])}
    IN  IF Cardinality(candidates) < CANDIDATE_LIMIT /\ Cardinality(matches) = 1
        THEN matches ELSE {}

(* The native runs an arriving upstream run may be linked to.               *)
native_match(records, natives, upstream) ==
    LET candidates == {n \in natives_near(natives, upstream) : n.row.id = None}
        matches == {n \in candidates :
                      unique_compatible_pair(records, natives, n, upstream)}
    IN  IF Cardinality(candidates) < CANDIDATE_LIMIT /\ Cardinality(matches) = 1
        THEN {n.uuid : n \in matches} ELSE {}
=============================================================================
