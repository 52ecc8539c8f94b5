-------------------------- MODULE RecordModeration --------------------------
(***************************************************************************)
(* A moderator's verdict on a run while its two rows are being merged, one *)
(* statement at a time: merge_records and its callers                      *)
(* (services/record_reconciliation.py, services/record_ingestion.py)       *)
(* against the moderation of crud/record.py and api/v1/records.py.         *)
(*                                                                         *)
(* The merging transaction holds the course lock; moderation does not take *)
(* it.  All that stands between the two are PostgreSQL's row locks, at     *)
(* isolation level READ COMMITTED: a plain SELECT sees what is committed   *)
(* and takes no lock, an UPDATE, a DELETE and a SELECT FOR UPDATE wait for *)
(* the row and then see its newest version.                                *)
(*                                                                         *)
(* The proofs, for any number of moderating transactions, are in           *)
(* RowLocks_proofs.                                                        *)
(***************************************************************************)

CONSTANT Moderators     \* administrators with a request under way

Rows == {"native", "mirror"}

(* The transactions, and what stands for none of them.                      *)
Merge    == <<"merge">>
Requests == {"moderator"} \X Moderators
Nobody   == <<"none">>

VARIABLES
    live,       \* rows that are committed and not deleted
    valid,      \* rows whose committed is_valid is true
    owner,      \* row -> the transaction that has locked it, or Nobody
    merge,      \* the merging transaction: its step, what it read
    moderator,  \* the moderating transactions: step, verb, rows to do and held
    judged      \* rows whose latest entry in the moderation log says invalid

mergeVars == <<live, valid, owner, merge, moderator, judged>>

Free(r) == owner[r] = Nobody

Release(t) == owner' = [r \in Rows |-> IF owner[r] = t THEN Nobody ELSE owner[r]]

Acquire(r, t) == owner[r] \in {Nobody, t} /\ owner' = [owner EXCEPT ![r] = t]

NoMerge == [at |-> "idle", upload |-> FALSE, saw |-> {}, before |-> {}]

Idle == [at |-> "idle", todo |-> {}, held |-> {}, saw |-> {}]

(* The mirror is there; the native run is, or is still to be uploaded.      *)
MergeInit ==
    /\ live \in {{"mirror"}, Rows}
    /\ valid = live
    /\ owner = [r \in Rows |-> Nobody]
    /\ merge = NoMerge
    /\ moderator = [m \in Requests |-> Idle]
    /\ judged = {}

-----------------------------------------------------------------------------
(* reconcile_claim refreshes the native row under the course lock; an       *)
(* upload brings its own, valid one.                                        *)
LoadNative ==
    /\ merge.at = "idle"
    /\ "mirror" \in live
    /\ merge' = [at |-> "loaded", upload |-> "native" \notin live,
                 saw |-> IF "native" \in live THEN valid \cap {"native"} ELSE {"native"},
                 before |-> {}]
    /\ UNCHANGED <<live, valid, owner, moderator, judged>>

(* The upstream row is selected, without a lock.                            *)
LoadMirror ==
    /\ merge.at = "loaded"
    /\ merge' = [merge EXCEPT !.at = "matched",
                              !.saw = merge.saw \cup (valid \cap {"mirror"}),
                              !.before = judged]
    /\ UNCHANGED <<live, valid, owner, moderator, judged>>

(* The mirror's verdict is forgotten.                                      *)
BugVerdict == merge.saw \cap {"native"} # {}

(* native.is_valid and upstream.is_valid, as they were read.                *)
Verdict == Rows \subseteq merge.saw

(* The ORM writes a column only when its value changes.                     *)
Rewritten == "native" \in merge.saw /\ ~ Verdict

(* upstream.id = None is flushed...                                         *)
Detach ==
    /\ merge.at = "matched"
    /\ Acquire("mirror", Merge)
    /\ UNCHANGED <<live, valid, merge, moderator, judged>>

(* ... and native.id is set, or first of all is_valid: the flush writes the *)
(* rows in the order of their UUIDs.                                        *)
Attach ==
    /\ merge.at = "matched"
    /\ owner["mirror"] = Merge \/ Rewritten
    /\ Acquire("native", Merge)
    /\ UNCHANGED <<live, valid, merge, moderator, judged>>

(* Every column is written, as it was read.                                 *)
BugNativeValid == IF Verdict THEN {"native"} ELSE {}

NativeValid ==
    IF merge.upload THEN IF Verdict THEN {"native"} ELSE {}
    ELSE IF Rewritten THEN {} ELSE valid \cap {"native"}

CommitMerge ==
    /\ merge.at = "matched"
    /\ \A r \in Rows : owner[r] = Merge
    /\ live' = {"native"}
    /\ valid' = NativeValid
    /\ merge' = [merge EXCEPT !.at = "merged"]
    /\ Release(Merge)
    /\ UNCHANGED <<moderator, judged>>

(* A lock timeout, a deadlock, any other error: the next attempt starts     *)
(* from the beginning.                                                      *)
AbortMerge ==
    /\ merge.at \in {"loaded", "matched"}
    /\ merge' = NoMerge
    /\ Release(Merge)
    /\ UNCHANGED <<live, valid, moderator, judged>>

-----------------------------------------------------------------------------
Becomes(m, state) == moderator' = [moderator EXCEPT ![m] = state]

(* PATCH with is_valid false: the row was found, and is now read again FOR  *)
(* UPDATE.                                                                  *)
Invalidate(m, r) ==
    /\ moderator[m].at = "idle"
    /\ r \in live
    /\ Becomes(m, [Idle EXCEPT !.at = "locking", !.todo = {r}])
    /\ UNCHANGED <<live, valid, owner, merge, judged>>

(* A bulk delete selects the valid runs FOR UPDATE.                         *)
BulkDelete(m) ==
    /\ moderator[m].at = "idle"
    /\ Becomes(m, [Idle EXCEPT !.at = "locking", !.todo = valid])
    /\ UNCHANGED <<live, valid, owner, merge, judged>>

(* A row that was deleted or invalidated in the meantime is left out.       *)
LockRow(m, r) ==
    /\ moderator[m].at = "locking"
    /\ r \in moderator[m].todo
    /\ Free(r)
    /\ IF r \in valid
       THEN /\ Acquire(r, m)
            /\ Becomes(m, [moderator[m] EXCEPT !.todo = @ \ {r}, !.held = @ \cup {r}])
       ELSE /\ Becomes(m, [moderator[m] EXCEPT !.todo = @ \ {r}])
            /\ UNCHANGED owner
    /\ UNCHANGED <<live, valid, merge, judged>>

soft_delete_records_with_audit(m) ==
    /\ moderator[m].at = "locking"
    /\ moderator[m].todo = {}
    /\ valid' = valid \ moderator[m].held
    /\ judged' = judged \cup moderator[m].held
    /\ Becomes(m, Idle)
    /\ Release(m)
    /\ UNCHANGED <<live, merge>>

(* PATCH with is_valid true reads the row without a lock.                   *)
LoadReenable(m, r) ==
    /\ moderator[m].at = "idle"
    /\ r \in live
    /\ Becomes(m, [Idle EXCEPT !.at = "loaded", !.todo = {r}, !.saw = valid \cap {r}])
    /\ UNCHANGED <<live, valid, owner, merge, judged>>

(* The row still exists, or the update fails.  A merged run is judged once. *)
Reenable(m, r) ==
    /\ moderator[m].at = "loaded"
    /\ r \in moderator[m].todo \cap live
    /\ Free(r)
    /\ valid' = IF r \in moderator[m].saw THEN valid ELSE valid \cup {r}
    /\ judged' = (judged \cap live) \ {r}
    /\ Becomes(m, Idle)
    /\ UNCHANGED <<live, owner, merge>>

AbortModeration(m) ==
    /\ moderator[m].at # "idle"
    /\ Becomes(m, Idle)
    /\ Release(m)
    /\ UNCHANGED <<live, valid, merge, judged>>

Merging == LoadNative \/ LoadMirror \/ Detach \/ Attach \/ CommitMerge \/ AbortMerge

Moderating(m) ==
    \/ BulkDelete(m)
    \/ soft_delete_records_with_audit(m)
    \/ AbortModeration(m)
    \/ \E r \in Rows : Invalidate(m, r) \/ LockRow(m, r) \/ LoadReenable(m, r) \/ Reenable(m, r)

MergeNext == Merging \/ \E m \in Requests : Moderating(m)

MergeSpec == MergeInit /\ [][MergeNext]_mergeVars
-----------------------------------------------------------------------------
MergeTypes ==
    /\ live \subseteq Rows
    /\ valid \subseteq live
    /\ owner \in [Rows -> Requests \cup {Merge, Nobody}]
    /\ merge \in [at : {"idle", "loaded", "matched", "merged"}, upload : BOOLEAN,
                  saw : SUBSET Rows, before : SUBSET Rows]
    /\ moderator \in [Requests -> [at : {"idle", "locking", "loaded"}, todo : SUBSET Rows,
                                   held : SUBSET Rows, saw : SUBSET Rows]]
    /\ judged \subseteq Rows

(* A native run that a moderator invalidated stays invalid, however many    *)
(* merges have read it before and write it after.                           *)
NativeVerdictStands == "native" \in judged => "native" \notin valid

(* A mirror that was invalid when the merge read it makes the run invalid,  *)
(* if that was valid when it was read.  (A run read as invalid may be       *)
(* re-enabled in the meantime, and is then valid: the merge has nothing to  *)
(* write.)                                                                  *)
EarlierVerdictStands ==
    [][CommitMerge /\ "mirror" \in merge.before /\ "native" \in merge.saw
        => "native" \notin valid']_mergeVars

(* "Reconciliation preserves ... moderation": a run is not valid when       *)
(* either of its rows was invalidated.                                      *)
VerdictSurvives == "mirror" \in judged \ live => "native" \notin valid
=============================================================================
