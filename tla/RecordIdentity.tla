--------------------------- MODULE RecordIdentity ---------------------------
(***************************************************************************)
(* The identity of a run: native uploads (services/record_ingestion.py),   *)
(* GlobalAPI mirrors (services/globalapi_record_sync.py), the claims and   *)
(* merges that join the two (services/record_reconciliation.py) and the    *)
(* moderation of a run (crud/record.py).                                   *)
(*                                                                         *)
(* Each action is one committed database transaction.  Transactions that   *)
(* touch one course are serialised by its advisory lock, except those of   *)
(* moderators, which do not take it: RecordModeration shows what that      *)
(* leaves of ModerationStands when they overlap a merge.  A transaction    *)
(* that is refused (4xx, 503) or rolled back leaves every table as it was  *)
(* and is a stuttering step.                                               *)
(***************************************************************************)
EXTENDS RecordMatching

CONSTANTS
    Ids,             \* GlobalAPI record ids
    Uuids,           \* record UUIDs, supplied or generated
    Slots,           \* <<server, idempotency key>> pairs
    Groups,          \* server groups
    Runs,            \* steamid64/map/stage/mode/teleports combinations
    Finishes,        \* bodies a game server may POST to /v1/records
    Payloads,        \* bodies the GlobalAPI may return for a record id
    Delays,          \* seconds from the end of a run to its receipt
    FUTURE_LIMIT     \* seconds a finish may claim to be in the future

Finish == [slot : Slots, uuid : Uuids \cup {None}, group : Groups, run : Runs,
           time : Nat, at : Nat, done : Nat]

Payload == [id : Ids, source : Groups \cup {None}, run : Runs, time : Nat, at : Nat]

(* Columns of `record` that identity depends on; a mirror has native = None. *)
Row == [id : Ids \cup {None}, native : Groups \cup {None},
        source : Groups \cup {None}, run : Runs, time : Nat, at : Nat,
        valid : BOOLEAN]

(* `frozen` and `qualifying` stand for the map of alternatives kept in the  *)
(* receipt's payload; `result` is replay_eligible in the stored response.   *)
Receipt == [finish : Finish, uuid : Uuids, received : Nat, eligible : BOOLEAN,
            result : BOOLEAN, frozen : SUBSET Ids, qualifying : SUBSET Ids]

ClaimState == {"none", "pending", "review", "verified"}

ASSUME IdentityAssumption ==
    /\ None \notin Ids \cup Uuids \cup Groups
    /\ None \notin Row
    /\ None \notin Receipt
    /\ Finishes \subseteq Finish
    /\ Payloads \subseteq Payload
    /\ Delays \subseteq Nat
    /\ FUTURE_LIMIT \in Nat

VARIABLES
    records,     \* table record: uuid -> row or None
    aliases,     \* table record_uuid_alias: uuid -> uuid or None
    receipts,    \* table record_upload_receipt: slot -> receipt or None
    claims       \* table record_source_claim: <<uuid, id>> -> state

vars == <<records, aliases, receipts, claims>>

-----------------------------------------------------------------------------
Live(u)     == records[u] # None
IsNative(u) == Live(u) /\ records[u].native # None
Holds(u, x) == Live(u) /\ records[u].id = x
Unused(u)   == records[u] = None /\ aliases[u] = None

(* Every receipt joined with its row.                                       *)
Natives ==
    {[uuid |-> receipts[s].uuid, received |-> receipts[s].received,
      row  |-> records[receipts[s].uuid]] : s \in {s \in Slots : receipts[s] # None}}

MirrorOf(p) == [id |-> p.id, native |-> None, source |-> p.source, run |-> p.run,
                time |-> p.time, at |-> p.at, valid |-> TRUE]

(* Definitions named Bug... are wrong on purpose: each is put in the place  *)
(* of the definition after it to see that a property notices.               *)
(* upstream.id read after it was cleared.                                   *)
BugMergedRowIdCleared(n, m) ==
    [n EXCEPT !.source = m.source, !.time = m.time, !.valid = n.valid /\ m.valid]

(* The mirror's moderation is lost.                                         *)
BugMergedRowRevives(n, m) ==
    [n EXCEPT !.id = m.id, !.source = m.source, !.time = m.time]

(* merge_records: the native row takes over the mirror's identity, is valid *)
(* only if both were, and everything that referred to the mirror follows.   *)
MergedRow(n, m) ==
    [n EXCEPT !.id = m.id, !.source = m.source, !.time = m.time,
              !.valid = n.valid /\ m.valid]

(* The mirror's row survives, not the native one.                           *)
BugMergedRecordsKeepMirror(R, n, m) ==
    [R EXCEPT ![m] = [MergedRow(R[n], R[m]) EXCEPT !.native = None], ![n] = None]

MergedRecords(R, n, m) == [R EXCEPT ![n] = MergedRow(R[n], R[m]), ![m] = None]

BugMergedAliasesSwapped(n, m) ==
    [a \in Uuids |-> IF a = n \/ aliases[a] = n THEN m ELSE aliases[a]]

MergedAliases(n, m) ==
    [a \in Uuids |-> IF a = m \/ aliases[a] = m THEN n ELSE aliases[a]]

(* The claims of the mirror are re-pointed at the native row...             *)
MergedClaims(C, n, m) ==
    [c \in Uuids \X Ids |->
        IF c[1] = m THEN "none"
        ELSE IF c[1] = n /\ C[<<m, c[2]>>] # "none" THEN C[<<m, c[2]>>]
        ELSE C[c]]

(* ... which the unique constraint (record_uuid, globalapi_id) refuses when *)
(* the native row has, or is being given, a claim on the same id; the       *)
(* transaction then fails.                                                  *)
MergeAllowed(C, n, m, added) ==
    \A x \in Ids : C[<<m, x>>] = "none" \/ (C[<<n, x>>] = "none" /\ x \notin added)

MovedReceipts(Q, n, m) ==
    [s \in Slots |-> IF Q[s] # None /\ Q[s].uuid = m
                     THEN [Q[s] EXCEPT !.uuid = n] ELSE Q[s]]

(* alternatives.get(id, False) for an id that was not frozen.               *)
BugRequalifiedAlways(r, x) == [r EXCEPT !.eligible = x \in r.qualifying]

(* The receipt's frozen decision for the id that turned out to be the run's.*)
Requalified(r, x) ==
    IF x \in r.frozen THEN [r EXCEPT !.eligible = x \in r.qualifying] ELSE r

RequalifiedReceipts(Q, n, x) ==
    [s \in Slots |-> IF Q[s] # None /\ Q[s].uuid = n
                     THEN Requalified(Q[s], x) ELSE Q[s]]
-----------------------------------------------------------------------------
Init ==
    /\ records  = [u \in Uuids |-> None]
    /\ aliases  = [u \in Uuids |-> None]
    /\ receipts = [s \in Slots |-> None]
    /\ claims   = [c \in Uuids \X Ids |-> "none"]

(* accept_record commits a finish seen for the first time: the row, the     *)
(* receipt, and, when exactly one mirror is compatible, the merge with it   *)
(* and its verified claim.  Every other mirror with equal statistics is     *)
(* noted for review, and the replay decision for each is frozen.            *)
Submission(f, received) ==
    [uuid |-> f.uuid, received |-> received,
     row |-> [id |-> None, native |-> f.group, source |-> None, run |-> f.run,
              time |-> f.time, at |-> f.at, valid |-> TRUE]]

Lookalikes(row) ==
    {m \in Uuids : /\ Live(m)
                   /\ records[m].id # None
                   /\ records[m].native = None
                   /\ statistics_match(row, records[m])}

IdsOf(S) == {records[m].id : m \in S}

AcceptGuard(f, u, received) ==
    /\ f.group \in Validated
    /\ receipts[f.slot] = None
    /\ f.at <= received + FUTURE_LIMIT
    /\ f.uuid \in {None, u}
    /\ Unused(u)

ReceiptFor(f, u, received, eligible, frozen, qualifying) ==
    [finish |-> f, uuid |-> u, received |-> received, eligible |-> eligible,
     result |-> eligible, frozen |-> frozen, qualifying |-> qualifying]

Accept(f, d, u, eligible, qualifying) ==
    LET native   == Submission(f, f.done + d)
        matched  == upstream_match(records, Natives, native)
        noted    == IdsOf(Lookalikes(native.row))
        inserted == [records EXCEPT ![u] = native.row]
        receipted == [receipts EXCEPT ![f.slot] =
                        ReceiptFor(f, u, f.done + d, eligible, noted, qualifying)]
    IN  /\ AcceptGuard(f, u, f.done + d)
        /\ qualifying \subseteq noted
        /\ \A m \in matched : eligible <=> records[m].id \in qualifying
        /\ \/ /\ matched = {}
              /\ records' = inserted
              /\ receipts' = receipted
              /\ claims' = [c \in Uuids \X Ids |->
                    IF c[1] = u /\ c[2] \in noted THEN "review" ELSE claims[c]]
              /\ UNCHANGED aliases
           \/ \E m \in matched :
              /\ MergeAllowed(claims, u, m, noted)
              /\ records' = MergedRecords(inserted, u, m)
              /\ aliases' = MergedAliases(u, m)
              /\ receipts' = MovedReceipts(receipted, u, m)
              /\ claims'  = [c \in Uuids \X Ids |->
                    IF c = <<u, records[m].id>> THEN "verified"
                    ELSE IF c[1] = u /\ c[2] \in noted THEN "review"
                    ELSE MergedClaims(claims, u, m)[c]]

(* reconcile_claim on a claim of row n to id x, when u is the row that      *)
(* holds x.                                                                 *)
same_source(native, upstream) ==
    statistics_match(native, upstream) /\ same_owner(native, upstream)

BugLinkedElsewhereIgnored(R, n, x) == FALSE

LinkedElsewhere(R, n, x) == R[n].id \notin {None, x}

(* A native run already linked takes a second identity.                     *)
BugMergeableTwice(R, n, u, x) ==
    n # u /\ R[n] # None /\ R[u].native = None /\ same_source(R[n], R[u])

Mergeable(R, n, u, x) ==
    /\ n # u
    /\ R[n] # None
    /\ ~ LinkedElsewhere(R, n, x)
    /\ R[u].native = None
    /\ same_source(R[n], R[u])

(* The claim is not marked after the merge.                                 *)
BugMergeUnclaimed(R, C, n, u, x) ==
    /\ MergeAllowed(C, n, u, {x})
    /\ records'  = MergedRecords(R, n, u)
    /\ aliases'  = MergedAliases(n, u)
    /\ receipts' = RequalifiedReceipts(MovedReceipts(receipts, n, u), n, x)
    /\ claims'   = MergedClaims(C, n, u)

Merge(R, C, n, u, x) ==
    /\ MergeAllowed(C, n, u, {x})
    /\ records'  = MergedRecords(R, n, u)
    /\ aliases'  = MergedAliases(n, u)
    /\ receipts' = RequalifiedReceipts(MovedReceipts(receipts, n, u), n, x)
    /\ claims'   = [MergedClaims(C, n, u) EXCEPT ![<<n, x>>] = "verified"]

ReconcileNone(n, x) ==
    /\ \A u \in Uuids : ~ Holds(u, x)
    /\ claims' = [claims EXCEPT ![<<n, x>>] =
                    IF LinkedElsewhere(records, n, x) THEN "review" ELSE "pending"]
    /\ UNCHANGED <<records, aliases, receipts>>

ReconcileSelf(n, x) ==
    /\ Holds(n, x)
    /\ claims'   = [claims EXCEPT ![<<n, x>>] = "verified"]
    /\ receipts' = RequalifiedReceipts(receipts, n, x)
    /\ UNCHANGED <<records, aliases>>

ReconcileMerge(n, u, x) ==
    /\ Holds(u, x)
    /\ Mergeable(records, n, u, x)
    /\ Merge(records, claims, n, u, x)

ReconcileReview(n, u, x) ==
    /\ Holds(u, x)
    /\ n # u
    /\ ~ Mergeable(records, n, u, x)
    /\ claims' = [claims EXCEPT ![<<n, x>>] = "review"]
    /\ UNCHANGED <<records, aliases, receipts>>

reconcile_claim(n, x) ==
    \/ ReconcileNone(n, x)
    \/ ReconcileSelf(n, x)
    \/ \E u \in Uuids : ReconcileMerge(n, u, x) \/ ReconcileReview(n, u, x)

(* PUT /v1/records/{uuid}/globalapi: the UUID may be an alias, and must     *)
(* lead to a native row of the caller's group.                              *)
SubmitClaim(a, x) ==
    LET n == IF aliases[a] # None THEN aliases[a] ELSE a
    IN  IsNative(n) /\ reconcile_claim(n, x)

(* app.record_identities --record n --verify-upstream x, on any row.        *)
VerifyUpstream(n, x) == Live(n) /\ reconcile_claim(n, x)

(* app.record_identities --reconcile-compatible --apply, for one receipt.   *)
Backfill(s) ==
    /\ receipts[s] # None
    /\ LET n == receipts[s].uuid
            native == [uuid |-> n, received |-> receipts[s].received, row |-> records[n]]
       IN  /\ Live(n)
           /\ records[n].id = None
           /\ \E m \in upstream_match(records, Natives, native) :
                LET x == records[m].id
                    moved == MovedReceipts(receipts, n, m)
                    r == Requalified(moved[s], x)
                IN  /\ MergeAllowed(claims, n, m, {x})
                    /\ records' = MergedRecords(records, n, m)
                    /\ aliases' = MergedAliases(n, m)
                    /\ receipts' = [moved EXCEPT ![s] =
                            IF x \in r.frozen THEN [r EXCEPT !.result = r.eligible] ELSE r]
                    /\ claims' = [MergedClaims(claims, n, m) EXCEPT ![<<n, x>>] = "verified"]

-----------------------------------------------------------------------------
(* The sync of one upstream body.  Nothing happens to identity when a       *)
(* native row already holds the id.                                         *)
Claimants(p) ==
    {n \in Uuids : /\ claims[<<n, p.id>>] = "pending"
                   /\ Live(n)
                   /\ same_source(records[n], MirrorOf(p))}

Candidates(p) ==
    IF Claimants(p) # {} THEN Claimants(p)
    ELSE native_match(records, Natives, MirrorOf(p))

(* The check that no row holds the id is dropped.                           *)
BugSyncLinkDoubles(p) ==
    /\ Cardinality(Candidates(p)) = 1
    /\ \E n \in Candidates(p) :
        /\ ~ LinkedElsewhere(records, n, p.id)
        /\ records' = [records EXCEPT ![n].id = p.id, ![n].source = p.source,
                                      ![n].time = p.time]
        /\ claims' = [claims EXCEPT ![<<n, p.id>>] = "verified"]
    /\ UNCHANGED <<aliases, receipts>>

(* resolve_before_sync links the only candidate when no row holds the id.   *)
SyncLink(p) ==
    /\ \A u \in Uuids : ~ Holds(u, p.id)
    /\ Cardinality(Candidates(p)) = 1
    /\ \E n \in Candidates(p) :
        /\ ~ LinkedElsewhere(records, n, p.id)
        /\ records' = [records EXCEPT ![n].id = p.id, ![n].source = p.source,
                                      ![n].time = p.time]
        /\ claims' = [claims EXCEPT ![<<n, p.id>>] = "verified"]
    /\ UNCHANGED <<aliases, receipts>>

(* Otherwise it may set claims to review, and gives up.                     *)
ResolvedClaims(p) ==
    [c \in Uuids \X Ids |->
        IF /\ c[2] = p.id
           /\ c[1] \in Candidates(p)
           /\ \/ Cardinality(Candidates(p)) # 1
              \/ LinkedElsewhere(records, c[1], p.id)
        THEN "review" ELSE claims[c]]

(* upsert_record at uuid u: a new mirror, or the refresh of one, which      *)
(* never makes an invalid row valid.                                        *)
Upserted(p, u) ==
    [records EXCEPT ![u] =
        [MirrorOf(p) EXCEPT !.valid = (records[u] = None \/ records[u].valid)]]

SyncMirrorGuard(p, u) ==
    /\ \/ Holds(u, p.id) /\ records[u].native = None
       \/ Unused(u) /\ \A v \in Uuids : ~ Holds(v, p.id)
    /\ \/ Holds(u, p.id)
       \/ Cardinality(Candidates(p)) # 1
       \/ \E n \in Candidates(p) : LinkedElsewhere(records, n, p.id)

(* ... and reconcile_upstream then settles every claim still pending.       *)
SyncMirror(p, u) ==
    LET R == Upserted(p, u)
        C == ResolvedClaims(p)
        waiting == {n \in Uuids : C[<<n, p.id>>] = "pending"}
        winners == {n \in waiting : Mergeable(R, n, u, p.id)}
        settled == [c \in Uuids \X Ids |->
                      IF c[2] # p.id \/ c[1] \notin waiting THEN C[c]
                      ELSE IF c[1] = u THEN "verified" ELSE "review"]
    IN  /\ SyncMirrorGuard(p, u)
        /\ \/ /\ winners = {}
              /\ records' = R
              /\ claims' = settled
              /\ UNCHANGED <<aliases, receipts>>
           \/ \E n \in winners : Merge(R, settled, n, u, p.id)

(* crud/record.py, update_record_validity.                                  *)
Invalidate(u) ==
    /\ Live(u)
    /\ records[u].valid
    /\ records' = [records EXCEPT ![u].valid = FALSE]
    /\ UNCHANGED <<aliases, receipts, claims>>

Reenable(u) ==
    /\ Live(u)
    /\ ~ records[u].valid
    /\ records' = [records EXCEPT ![u].valid = TRUE]
    /\ UNCHANGED <<aliases, receipts, claims>>

Upload   == \E f \in Finishes, d \in Delays, u \in Uuids, e \in BOOLEAN, q \in SUBSET Ids :
                Accept(f, d, u, e, q)
Sync     == \E p \in Payloads : SyncLink(p) \/ \E u \in Uuids : SyncMirror(p, u)
Claim    == \E a \in Uuids, x \in Ids : SubmitClaim(a, x)
Operate  == \/ \E n \in Uuids, x \in Ids : VerifyUpstream(n, x)
            \/ \E s \in Slots : Backfill(s)
Moderate == \E u \in Uuids : Invalidate(u) \/ Reenable(u)

Next == Upload \/ Sync \/ Claim \/ Operate \/ Moderate

Spec == Init /\ [][Next]_vars
-----------------------------------------------------------------------------
(* Every table holds rows of its shape.                                     *)
TypeOK ==
    /\ records  \in [Uuids -> Row \cup {None}]
    /\ aliases  \in [Uuids -> Uuids \cup {None}]
    /\ receipts \in [Slots -> Receipt \cup {None}]
    /\ claims   \in [Uuids \X Ids -> ClaimState]

(* No two rows carry the same GlobalAPI id.  No transaction therefore runs  *)
(* into the unique index on record.id, whatever order uploads, syncs,       *)
(* claims and operators come in: record_reconciliation.py 72-75, 326-330.   *)
UniqueUpstreamId ==
    \A u, v \in Uuids, x \in Ids : Holds(u, x) /\ Holds(v, x) => u = v

(* A verified claim is true, so one id has at most one verified claim:      *)
(* nothing that happens after verification moves the id elsewhere.          *)
VerifiedMeansHeld ==
    \A n \in Uuids, x \in Ids : claims[<<n, x>>] = "verified" => Holds(n, x)

(* Every link of a native run to an upstream id, by whichever of the five   *)
(* paths it was made, has its verified claim as provenance.                 *)
LinkIsAudited ==
    \A n \in Uuids, x \in Ids :
        IsNative(n) /\ Holds(n, x) => claims[<<n, x>>] = "verified"

(* The UUID a game server was answered is a live native row of its group    *)
(* and run, and no receipt shares it with another.                          *)
ReceiptResolves ==
    \A s \in Slots : receipts[s] # None =>
        LET r == receipts[s]
        IN  /\ IsNative(r.uuid)
            /\ records[r.uuid].native = r.finish.group
            /\ records[r.uuid].run = r.finish.run
            /\ \A t \in Slots : receipts[t] # None /\ receipts[t].uuid = r.uuid => t = s

(* A UUID retired by a merge leads in one hop to a live native row, which   *)
(* is all owned_record follows.                                             *)
AliasResolves ==
    \A a \in Uuids : aliases[a] # None => ~ Live(a) /\ IsNative(aliases[a])

(* A native run keeps its upstream id forever once it has one.              *)
LinkIsPermanent ==
    [][\A n \in Uuids, x \in Ids :
        IsNative(n) /\ Holds(n, x) => IsNative(n)' /\ Holds(n, x)']_vars

(* An upstream run is never dropped: its row stays, or is merged into one   *)
(* that its old UUID is an alias of.                                        *)
UpstreamIsKept ==
    [][\A u \in Uuids, x \in Ids :
        Holds(u, x) => \E v \in {u, aliases'[u]} \cap Uuids : Holds(v, x)']_vars

(* Only a moderator's re-enable makes an invalid run valid; no upload,      *)
(* refresh, claim or merge does, on the run's UUID or the one it becomes,   *)
(* once the invalidation is committed.                                      *)
ModerationStands ==
    [][\A u \in Uuids :
        Live(u) /\ ~ records[u].valid /\ ~ Reenable(u) =>
            \E v \in {u, aliases'[u]} \cap Uuids :
                records'[v] # None /\ ~ records'[v].valid]_vars

(* A receipt is written once, and its replay decision is final once the run *)
(* has its upstream identity.                                               *)
QualificationStands ==
    [][\A s \in Slots : receipts[s] # None =>
        LET r == receipts[s]
        IN  /\ receipts'[s] # None
            /\ receipts'[s].finish = r.finish
            /\ receipts'[s].uuid = r.uuid
            /\ records[r.uuid].id # None => receipts'[s].eligible = r.eligible]_vars

(* The tables implement the ledger: each transaction observes an upstream   *)
(* run, settles one on a native run, or leaves every identity where it was. *)
HolderOf ==
    [x \in Ids |-> IF \E u \in Uuids : Holds(u, x)
                   THEN CHOOSE u \in Uuids : Holds(u, x) ELSE None]

SettledIds == {x \in Ids : \E u \in Uuids : IsNative(u) /\ Holds(u, x)}

Ledger == INSTANCE UpstreamLedger WITH holder <- HolderOf, settled <- SettledIds

ImplementsLedger == Ledger!Spec
=============================================================================
