----------------------------- MODULE RecordSync -----------------------------
(***************************************************************************)
(* How the records of the GlobalAPI are walked, one id at a time:          *)
(* sync_records_from_globalapi (services/globalapi_record_sync.py).        *)
(*                                                                         *)
(* A round first revisits the ids missing below the largest stored one     *)
(* (the backfill), then asks for new ids.  GlobalAPI answers 404 both for  *)
(* an id that will never exist and for one it does not show yet.  A round  *)
(* may be cut short anywhere; what survives is what was committed.         *)
(***************************************************************************)
EXTENDS Integers, FiniteSets

CONSTANTS
    None,
    DEFAULT_RECORD_START_ID,
    NULL_PROBE_WINDOW,
    MISSING_IDS_BATCH_SIZE,
    MISSING_ID_ATTEMPT_LIMIT,
    Ids,            \* bound: ids that GlobalAPI may ever show
    Holes,          \* ids it never shows
    Malformed       \* ids whose body raises ValueError

ASSUME SyncAssumption ==
    /\ DEFAULT_RECORD_START_ID \in Nat
    /\ NULL_PROBE_WINDOW \in Nat \ {0}
    /\ MISSING_IDS_BATCH_SIZE \in Nat \ {0}
    /\ MISSING_ID_ATTEMPT_LIMIT \in Nat \ {0}
    /\ Ids \subseteq {x \in Nat : x >= DEFAULT_RECORD_START_ID}
    /\ IsFiniteSet(Ids)
    /\ None \notin Nat

VARIABLES
    published,  \* ids GlobalAPI shows
    stored,     \* ids of the rows of table record
    cursor,     \* globalapi_sync_state.cursor
    pending,    \* globalapi_sync_state.pending_backfill_cursor, or None
    deferred,   \* keys of _missing_record_retry_after not yet due
    at,         \* where the round is
    tip,        \* max_record_id as the round read it
    here,       \* the round's local cursor
    batch,      \* ids of the current batch still to be asked for
    attempts,   \* attempted_missing_ids
    probe,      \* the id being probed
    refused,    \* history: ids ever answered 404 or with a malformed body
    missed      \* history: ids jumped over to a record, until asked for again

table   == <<stored, cursor, pending>>
locals  == <<at, tip, here, batch, attempts, probe>>
history == <<refused, missed>>
vars    == <<published, table, deferred, locals, history>>

Larger(a, b)  == IF a >= b THEN a ELSE b
Smaller(a, b) == IF a <= b THEN a ELSE b

-----------------------------------------------------------------------------
Init ==
    /\ published = {}
    /\ stored = {}
    /\ cursor = DEFAULT_RECORD_START_ID
    /\ pending = None
    /\ deferred = {}
    /\ at = "idle"
    /\ tip = DEFAULT_RECORD_START_ID
    /\ here = DEFAULT_RECORD_START_ID
    /\ batch = {}
    /\ attempts = 0
    /\ probe = DEFAULT_RECORD_START_ID
    /\ refused = {}
    /\ missed = {}

(* The round returns or raises: nothing of it is left but what it committed.*)
RoundOver ==
    /\ at' = "idle"
    /\ tip' = DEFAULT_RECORD_START_ID
    /\ here' = DEFAULT_RECORD_START_ID
    /\ batch' = {}
    /\ attempts' = 0
    /\ probe' = DEFAULT_RECORD_START_ID

(* Where a round started now would look first.                              *)
backfill_cursor ==
    IF pending = None THEN cursor ELSE Smaller(pending, cursor)

Start ==
    /\ at = "idle"
    /\ \/ \E m \in stored :
            /\ \A x \in stored : x <= m
            /\ tip' = m
            /\ \/ /\ backfill_cursor <= m
                  /\ at' = "scan"
                  /\ here' = backfill_cursor
               \/ /\ backfill_cursor > m
                  /\ at' = "forward"
                  /\ here' = cursor
       \/ /\ stored = {}
          /\ tip' = DEFAULT_RECORD_START_ID
          /\ at' = "forward"
          /\ here' = cursor
    /\ attempts' = 0
    /\ UNCHANGED <<published, table, deferred, batch, probe, history>>

(* The k smallest members of S, or all of them.                             *)
Firsts(S, k) ==
    {B \in SUBSET S : /\ \A x \in B, y \in S \ B : x < y
                      /\ Cardinality(B) <= k
                      /\ B = S \/ Cardinality(B) = k}

(* pending_backfill_cursor is given up when a sweep reaches the tip.        *)
PendingSwept == IF pending # None /\ pending <= tip THEN None ELSE pending

(* A batch, or what the attempts of the round leave of it.                 *)
BatchLimit == Smaller(MISSING_IDS_BATCH_SIZE, MISSING_ID_ATTEMPT_LIMIT - attempts)

(* The query asks for as many more ids as are deferred, so that skipping    *)
(* those does not hide one that is due.  (Definitions named Bug... are      *)
(* wrong on purpose: each is put in the place of the definition after it to *)
(* see that a property notices.)                                            *)
BugQueryLimit == BatchLimit

QueryLimit == BatchLimit + Cardinality(deferred)

BugDue(found) == Firsts(found, BatchLimit)

Due(found) == Firsts(found \ deferred, BatchLimit)

(* The next batch, or none when every id still missing is deferred.         *)
Scan ==
    /\ at = "scan"
    /\ here <= tip
    /\ attempts < MISSING_ID_ATTEMPT_LIMIT
    /\ \E found \in Firsts((here .. tip) \ stored, QueryLimit) :
          /\ batch' \in Due(found)
          /\ at' = IF batch' = {} THEN "tip" ELSE "backfill"
          /\ pending' = IF found = {} THEN PendingSwept ELSE pending
    /\ UNCHANGED <<published, stored, cursor, deferred, tip, here, attempts, probe, history>>

(* _set_records_cursor_to_local_tip                                         *)
ToTip ==
    /\ at = "tip"
    /\ here' = Larger(here, tip + 1)
    /\ cursor' = Larger(here, tip + 1)
    /\ at' = "forward"
    /\ UNCHANGED <<published, stored, pending, deferred, tip, batch, attempts, probe, history>>

(* Out of attempts, the round is over.  (The loop's other exit, here > tip, *)
(* is never taken: the id at the tip is stored.)                            *)
EndScan ==
    /\ at = "scan"
    /\ here <= tip
    /\ attempts >= MISSING_ID_ATTEMPT_LIMIT
    /\ RoundOver
    /\ UNCHANGED <<published, table, deferred, history>>

-----------------------------------------------------------------------------
(* The id the round is asking GlobalAPI for.                                *)
Asked(x) ==
    \/ at = "backfill" /\ x \in batch /\ \A y \in batch : x <= y
    \/ at = "forward" /\ x = here
    \/ at = "probe" /\ x = probe

IsNull(x)   == x \notin published
IsRecord(x) == x \in published /\ x \notin Malformed

(* An id of the batch: its answer, whatever it is, moves the cursor past it.*)
Backfill(x) ==
    /\ at = "backfill"
    /\ Asked(x)
    /\ here' = x + 1
    /\ cursor' = x + 1
    /\ attempts' = attempts + 1
    /\ batch' = batch \ {x}
    /\ at' = IF batch = {x} THEN "scan" ELSE "backfill"
    /\ \/ /\ IsNull(x)
          /\ deferred' = deferred \cup {x}
          /\ UNCHANGED stored
       \/ /\ IsRecord(x)
          /\ stored' = stored \cup {x}
          /\ deferred' = deferred \ {x}
       \/ /\ ~ IsNull(x) /\ ~ IsRecord(x)
          /\ UNCHANGED <<stored, deferred>>
    /\ refused' = IF IsRecord(x) THEN refused ELSE refused \cup {x}
    /\ missed' = missed \ {x}
    /\ UNCHANGED <<published, pending, tip, probe>>

(* A new id: the record and the cursor are committed together.              *)
Forward(x) ==
    /\ at = "forward"
    /\ Asked(x)
    /\ \/ /\ IsNull(x)
          /\ at' = "probe"
          /\ probe' = x + 1
          /\ UNCHANGED <<stored, cursor, here>>
       \/ /\ ~ IsNull(x)
          /\ stored' = IF IsRecord(x) THEN stored \cup {x} ELSE stored
          /\ cursor' = x + 1
          /\ here' = x + 1
          /\ UNCHANGED <<at, probe>>
    /\ refused' = IF IsRecord(x) THEN refused ELSE refused \cup {x}
    /\ missed' = IF IsNull(x) THEN missed ELSE missed \ {x}
    /\ UNCHANGED <<published, pending, deferred, tip, batch, attempts>>

BugGapStart == here

GapStart == IF pending = None THEN here ELSE Smaller(pending, here)

(* The ids after a 404.  A hit leaves a gap behind, which the next round    *)
(* starts from; without one the round is over.                              *)
Probe(x) ==
    /\ at = "probe"
    /\ Asked(x)
    /\ \/ /\ IsNull(x)
          /\ \/ /\ x < here + NULL_PROBE_WINDOW
                /\ probe' = x + 1
                /\ UNCHANGED <<at, tip, here, batch, attempts, cursor>>
             \/ x = here + NULL_PROBE_WINDOW /\ cursor' = here /\ RoundOver
          /\ UNCHANGED <<stored, pending>>
       \/ /\ ~ IsNull(x)
          /\ stored' = IF IsRecord(x) THEN stored \cup {x} ELSE stored
          /\ pending' = GapStart
          /\ cursor' = x + 1
          /\ here' = x + 1
          /\ at' = "forward"
          /\ UNCHANGED <<tip, batch, attempts, probe>>
    /\ refused' = IF IsRecord(x) THEN refused ELSE refused \cup {x}
    /\ missed' = IF IsRecord(x) THEN missed \cup here .. x - 1 ELSE missed
    /\ UNCHANGED <<published, deferred>>

Answered(x) == Backfill(x) \/ Forward(x) \/ Probe(x)

(* The busy record counts as done.                                          *)
BugBusy(x) ==
    /\ Asked(x)
    /\ IsRecord(x)
    /\ RoundOver
    /\ cursor' = x + 1
    /\ UNCHANGED <<published, stored, pending, deferred, history>>

(* RecordTransactionBusy: the round ends where it last committed.           *)
Busy(x) ==
    /\ Asked(x)
    /\ IsRecord(x)
    /\ RoundOver
    /\ UNCHANGED <<published, table, deferred, history>>

(* Any other error, five transport errors on one id among them.             *)
Fail ==
    /\ at # "idle"
    /\ RoundOver
    /\ UNCHANGED <<published, table, deferred, history>>

(* A restart forgets the retry cache, which is only in memory.              *)
Restart ==
    /\ RoundOver
    /\ deferred' = {}
    /\ UNCHANGED <<published, table, history>>

-----------------------------------------------------------------------------
(* GlobalAPI shows an id, in any order.                                     *)
Publish(x) ==
    /\ x \notin published \cup Holes
    /\ published' = published \cup {x}
    /\ UNCHANGED <<table, deferred, locals, history>>

(* MISSING_RECORD_RETRY_SECONDS have passed since x was deferred.           *)
RetryDue(x) ==
    /\ x \in deferred
    /\ deferred' = deferred \ {x}
    /\ UNCHANGED <<published, table, locals, history>>

(* importers/records_archive.py stores a record from an archive.            *)
Import(x) ==
    /\ x \notin stored
    /\ stored' = stored \cup {x}
    /\ UNCHANGED <<published, cursor, pending, deferred, locals, history>>

Step  == Start \/ Scan \/ ToTip \/ EndScan \/ \E x \in batch \cup {here, probe} : Answered(x)
Cut   == Fail \/ Restart \/ \E x \in batch \cup {here, probe} : Busy(x)
World == \E x \in Ids : Publish(x) \/ RetryDue(x) \/ Import(x)

Next == Step \/ Cut \/ World
Spec == Init /\ [][Next]_vars

(* A round that is not cut goes on, round follows round, and GlobalAPI      *)
(* shows in the end what it has.  No step is cut every time: no course is   *)
(* busy, and no id unanswered, forever.                                     *)
Fairness ==
    /\ WF_vars(Step)
    /\ SF_vars(Scan) /\ SF_vars(ToTip)
    /\ \A x \in Ids : SF_vars(Answered(x))
    /\ \A x \in Ids \ Holes : WF_vars(Publish(x))

FairSpec == Spec /\ Fairness
-----------------------------------------------------------------------------
TypeOK ==
    /\ published \subseteq Ids
    /\ stored \subseteq Nat
    /\ cursor \in Nat
    /\ pending \in Nat \cup {None}
    /\ deferred \subseteq Nat
    /\ at \in {"idle", "scan", "backfill", "tip", "forward", "probe"}
    /\ tip \in Nat
    /\ here \in Nat
    /\ batch \subseteq Nat
    /\ attempts \in 0 .. MISSING_ID_ATTEMPT_LIMIT
    /\ probe \in Nat
    /\ refused \subseteq Nat
    /\ missed \subseteq Nat

(* The committed cursor never passes an id that was not asked for: neither  *)
(* a busy record, nor an error, a restart, an import or the skipping of     *)
(* deferred ids makes the sync jump over one.                               *)
NothingSkipped ==
    \A x \in DEFAULT_RECORD_START_ID .. cursor - 1 : x \in stored \cup refused

(* An id a probe jumped over to store a later one is asked for once more:   *)
(* until then it stays at or above pending_backfill_cursor, across rounds,  *)
(* errors and restarts.                                                     *)
SecondChance ==
    \A x \in missed :
        x \in stored \/ cursor <= x \/ (pending # None /\ pending <= x)

(* An id is left alone while its retry is deferred: the walk of new ids     *)
(* never comes back to one.                                                 *)
DeferredRests == \A x \in deferred : ~ Asked(x)

(* An id that GlobalAPI shows by the time it is first asked for is stored,  *)
(* whatever the order ids become visible in.                                *)
SeenIsStored ==
    \A x \in Ids \ Malformed :
        (x \in published /\ x \notin refused) ~> x \in stored

(* "backfills delayed gap via pending backfill cursor": an id that becomes  *)
(* visible late is stored all the same.                                     *)
DelayedIsBackfilled ==
    \A x \in Ids \ Malformed : x \in published ~> x \in stored
=============================================================================
