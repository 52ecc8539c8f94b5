------------------------------ MODULE PbRebuild ------------------------------
(***************************************************************************)
(* One player's row of record_pb while transactions overlap, statement by  *)
(* statement at READ COMMITTED.  PbReadModel has them one after the other. *)
(*                                                                         *)
(* Uploads rebuild the bucket under the lock of their course, whoever's    *)
(* run they bring.  A re-enabling administrator rebuilds it without that   *)
(* lock, and a deleting one locks the runs and neither reads nor rebuilds  *)
(* the bucket.                                                             *)
(*                                                                         *)
(* Row locks: a deletion holds FOR UPDATE, which the foreign key check of  *)
(* a written row (FOR KEY SHARE) waits for; an UPDATE of a run lets that   *)
(* check through.                                                          *)
(*                                                                         *)
(* The proofs, for any runs, uploads, re-enables and deletions, are in     *)
(* RowLocks_proofs.                                                        *)
(***************************************************************************)
EXTENDS Integers

CONSTANTS
    None,
    Runs,           \* numbers, a faster run before a slower one
    Mine,           \* the player's
    Uploads,        \* the runs that game servers bring
    Reenables,      \* the runs an administrator may re-enable
    Deletions,      \* administrators' deletions
    Targets         \* the runs of each

Writers == Uploads \cup Reenables

(* An uncommitted write of the row.                                         *)
Change == [by : Writers \cup Deletions, to : Mine \cup {None}]

ASSUME PbRebuildAssumption ==
    /\ Runs \subseteq Nat
    /\ Mine \subseteq Runs /\ Uploads \subseteq Runs
    /\ Reenables \subseteq Mine \ Uploads
    /\ Targets \in [Deletions -> SUBSET Mine]
    /\ Runs \cap Deletions = {}
    /\ None \notin Runs /\ None \notin Change

VARIABLES
    status,     \* committed: "absent", "valid" or "invalid"
    row,        \* committed: the run of the player's record_pb row, or None
    pending,    \* the uncommitted write of the row, or None
    pc,         \* how far each transaction is
    seen,       \* what a writer has read: the row, and the best run
    held,       \* the runs that a deletion has locked
    crossed     \* history: has a re-enable overlapped another writer?

vars == <<status, row, pending, pc, seen, held, crossed>>

Active(p) == pc[p] # "idle"

-----------------------------------------------------------------------------
Init ==
    /\ status = [r \in Runs |-> IF r \in Uploads THEN "absent" ELSE "valid"]
    /\ row \in {r \in Mine \ Uploads : \A s \in Mine \ Uploads : r <= s}
    /\ pending = None
    /\ pc = [p \in Writers \cup Deletions |-> "idle"]
    /\ seen = [w \in Writers |-> [row |-> None, best |-> None]]
    /\ held = [D \in Deletions |-> {}]
    /\ crossed = FALSE

Deleting(r) == \E D \in Deletions : r \in held[D]

Keyed(r) == \E w \in Writers : pc[w] = "keyed" /\ pending = [by |-> w, to |-> r]

(* The course is not locked.                                                *)
BugCourseFree == TRUE

CourseFree == \A u \in Uploads : ~ Active(u)

Goes(p, at, to) == pc[p] = at /\ pc' = [pc EXCEPT ![p] = to]

(* The run is inserted, or made valid, and flushed.                         *)
Begin(w) ==
    /\ Goes(w, "idle", "begun")
    /\ IF w \in Uploads THEN status[w] = "absent" /\ CourseFree
       ELSE status[w] = "invalid"
    /\ crossed' = \/ crossed
                  \/ \E v \in Writers : Active(v) /\ {v, w} \cap Reenables # {}
    /\ UNCHANGED <<status, row, pending, seen, held>>

(* _sync_record_pb_bucket reads the rows of the bucket...                   *)
ReadRow(w) ==
    /\ Goes(w, "begun", "row")
    /\ seen' = [seen EXCEPT ![w].row = row]
    /\ UNCHANGED <<status, row, pending, held, crossed>>

Visible(w) == {r \in Mine : status[r] = "valid" \/ r = w}

(* ... and then the winners.                                                *)
ReadBest(w) ==
    /\ Goes(w, "row", "best")
    /\ \E b \in Runs \cup {None} :
          /\ IF Visible(w) = {} THEN b = None
             ELSE b \in Visible(w) /\ \A r \in Visible(w) : b <= r
          /\ seen' = [seen EXCEPT ![w].best = b]
    /\ UNCHANGED <<status, row, pending, held, crossed>>

Replaces(w) == seen[w].best # seen[w].row

(* An UPDATE or DELETE needs the row, an INSERT its absence; the DELETE of  *)
(* a row that is gone does nothing.                                         *)
Written(w) ==
    /\ pending = None
    /\ seen[w].best # None => ((row = None) <=> (seen[w].row = None))

Write(w) ==
    /\ Goes(w, "best", "written")
    /\ IF Replaces(w) THEN Written(w) /\ pending' = [by |-> w, to |-> seen[w].best]
       ELSE UNCHANGED pending
    /\ UNCHANGED <<status, row, seen, held, crossed>>

(* The deletion's lock lets the foreign key check through.                  *)
BugKeyFree(r) == TRUE

KeyFree(r) == ~ Deleting(r)

CheckKey(w) ==
    /\ Goes(w, "written", "keyed")
    /\ pending # None /\ pending.by = w /\ pending.to # None => KeyFree(pending.to)
    /\ UNCHANGED <<status, row, pending, seen, held, crossed>>

Landed(p) == IF pending # None /\ pending.by = p THEN pending.to ELSE row

Released(p) == IF pending # None /\ pending.by = p THEN None ELSE pending

Commit(w) ==
    /\ Goes(w, "keyed", "idle")
    /\ status' = [status EXCEPT ![w] = "valid"]
    /\ row' = Landed(w)
    /\ pending' = Released(w)
    /\ UNCHANGED <<seen, held, crossed>>

-----------------------------------------------------------------------------
(* SELECT ... FOR UPDATE of the valid runs                                  *)
Lock(D) ==
    /\ Goes(D, "idle", "locked")
    /\ LET L == {r \in Targets[D] : status[r] = "valid"}
       IN  /\ L # {}
           /\ \A r \in L : ~ Deleting(r) /\ ~ Keyed(r)
           /\ held' = [held EXCEPT ![D] = L]
    /\ UNCHANGED <<status, row, pending, seen, crossed>>

(* soft_delete_records_with_audit: the runs, and the row that names one.    *)
Delete(D) ==
    /\ Goes(D, "locked", "deleted")
    /\ IF row \in held[D] THEN pending = None /\ pending' = [by |-> D, to |-> None]
       ELSE UNCHANGED pending
    /\ UNCHANGED <<status, row, seen, held, crossed>>

CommitDelete(D) ==
    /\ Goes(D, "deleted", "idle")
    /\ status' = [r \in Runs |-> IF r \in held[D] THEN "invalid" ELSE status[r]]
    /\ row' = Landed(D)
    /\ pending' = Released(D)
    /\ held' = [held EXCEPT ![D] = {}]
    /\ UNCHANGED <<seen, crossed>>

(* A deadlock, a timeout, a lost connection, and the StaleDataError or the  *)
(* duplicate key of a Write that finds the row gone, or there.              *)
Abort(p) ==
    /\ Active(p)
    /\ pc' = [pc EXCEPT ![p] = "idle"]
    /\ pending' = Released(p)
    /\ held' = [D \in Deletions |-> IF D = p THEN {} ELSE held[D]]
    /\ UNCHANGED <<status, row, seen, crossed>>

Next ==
    \/ \E w \in Writers :
          \/ Begin(w) \/ ReadRow(w) \/ ReadBest(w) \/ Write(w) \/ CheckKey(w) \/ Commit(w)
    \/ \E D \in Deletions : Lock(D) \/ Delete(D) \/ CommitDelete(D)
    \/ \E p \in Writers \cup Deletions : Abort(p)

Spec == Init /\ [][Next]_vars
-----------------------------------------------------------------------------
(* Nothing stays locked by a transaction that has ended.                    *)
TypeOK ==
    /\ status \in [Runs -> {"absent", "valid", "invalid"}]
    /\ row \in Mine \cup {None}
    /\ pc \in [Writers \cup Deletions ->
                {"idle", "begun", "row", "best", "written", "keyed", "locked", "deleted"}]
    /\ seen \in [Writers -> [row : Mine \cup {None}, best : Mine \cup {None}]]
    /\ pending \in Change \cup {None}
    /\ pending # None => pc[pending.by] \in {"written", "keyed", "deleted"}
    /\ \A D \in Deletions : held[D] \subseteq Targets[D] /\ (held[D] # {} <=> Active(D))

(* Two writers never put a slower run over a faster valid one: the course   *)
(* lock sees to it, except with a re-enable, which does not take it.        *)
SlowerNeedsReenable ==
    row # None /\ ~ crossed => \A r \in Mine : status[r] = "valid" => row <= r

(* When a deletion commits, none of its runs is on the leaderboard: a       *)
(* rebuild that already wrote one had locked it, and one that has yet to    *)
(* write it waits.                                                          *)
DeletionRemoves ==
    [][\A D \in Deletions : CommitDelete(D) => row' \notin held[D]]_vars

(* "Admin deletion invalidates raw runs and removes referencing PB          *)
(* entries": no row of a leaderboard names an invalid run.                  *)
PbIsValid == row # None => status[row] = "valid"
-----------------------------------------------------------------------------
(* For model checking: every deletion takes run 1, all but one run 3 too.   *)
MCTargets ==
    [D \in Deletions |-> IF D = (CHOOSE E \in Deletions : TRUE) THEN {1} ELSE {1, 3}]
=============================================================================
