----------------------------- MODULE RecordLocks -----------------------------
(***************************************************************************)
(* The locks of a run's identity (identity_lock, services/                 *)
(* record_ingestion.py) and the attempts of a transaction that meets a     *)
(* busy one (services/record_transactions.py, accept_record).  In          *)
(* RecordIdentity each transaction is one step; here they interleave lock  *)
(* by lock, and of the rows only what the locks protect is kept.           *)
(*                                                                         *)
(* Isolation level READ COMMITTED: a transaction reads what is committed   *)
(* at that moment, and what it writes appears when it commits.  Besides    *)
(* the advisory locks two locks of the database matter: the player's row,  *)
(* and the entry of the unique index on (record_uuid, globalapi_id) that   *)
(* an uncommitted claim has taken.                                         *)
(***************************************************************************)
EXTENDS Naturals

CONSTANTS
    None,
    Mirror,         \* the row of an upstream run that no native run holds
    Requests,
    Keys,           \* idempotency keys of one server
    Uuids,
    Courses,        \* map and stage
    Players,
    Ids,            \* GlobalAPI record ids
    ATTEMPTS

(* A finish that is uploaded, an upstream body that is mirrored, an id that *)
(* a plugin claims for a run or an operator verifies, and the operator's    *)
(* backfill of one receipt.  A finish without a UUID is one whose UUID      *)
(* nobody else names.                                                       *)
Upload   == [kind : {"upload"}, key : Keys, uuid : Uuids, course : Courses,
             player : Players, id : {None}]
Sync     == [kind : {"sync"}, key : {None}, uuid : {None}, course : {None},
             player : Players, id : Ids]
Claim    == [kind : {"claim", "verify"}, key : {None}, uuid : Uuids, course : {None},
             player : {None}, id : Ids]
Backfill == [kind : {"backfill"}, key : {None}, uuid : Uuids, course : {None},
             player : {None}, id : {None}]

Job == Upload \cup Sync \cup Claim \cup Backfill

(* The payload that a receipt remembers by its hash.                        *)
Receipt == [uuid : Uuids, course : Courses, player : Players]

Locks == ({"receipt"} \X Keys) \cup ({"uuid"} \X Uuids) \cup ({"course"} \X Courses)
           \cup ({"id"} \X Ids) \cup ({"player"} \X Players)
           \cup ({"entry"} \X (Uuids \X Ids))

ASSUME LocksAssumption ==
    /\ None \notin Requests /\ None \notin Uuids /\ None \notin Courses
    /\ None \notin Ids /\ None \notin Receipt
    /\ Mirror \notin Uuids /\ Mirror # None
    /\ ATTEMPTS \in Nat \ {0}

VARIABLES
    job,        \* what each request asks; never changes
    home,       \* the course of each upstream id; never changes
    runs,       \* native runs: uuid -> course or None
    receipts,   \* table record_upload_receipt: key -> receipt or None
    claims,     \* table record_source_claim: <<uuid, id>>
    pending,    \* the claims that wait for their upstream row
    source,     \* the row that carries the id: None, Mirror or a native run
    owner,      \* lock -> the request that holds it, or None
    at,         \* the step of each request
    attempt,    \* how many attempts it has given up
    work,       \* what its attempt has chosen and not committed
    answer

Tables == <<runs, receipts, claims, pending, source>>

vars == <<job, home, Tables, owner, at, attempt, work, answer>>

Lockings == {"receipt", "uuid", "course", "id", "player", "entry", "claimed"}

Steps == Lockings \cup {"start", "decide", "resolve", "claims", "commit", "backoff", "done"}

Answers == {"none", "ok", "refused", "busy", "error", "clash"}

(* run: the native run at hand; to: the run that will carry the id; insert: *)
(* the ids it gets new claims for; settle: the runs whose claims on the id  *)
(* are decided; reopen: its claim has to wait; fresh: the id has no row     *)
(* yet; todo: the runs that reconcile_upstream has still to visit.          *)
Work == [run : Uuids \cup {None}, id : Ids \cup {None}, to : Uuids \cup {None},
         insert : SUBSET Ids, settle : SUBSET Uuids, reopen : BOOLEAN,
         fresh : BOOLEAN, todo : SUBSET Uuids]

NoWork(j) == [run |-> j.uuid, id |-> j.id, to |-> None, insert |-> {}, settle |-> {},
              reopen |-> FALSE, fresh |-> FALSE, todo |-> {}]

(* Runs uploaded before, some with a claim whose upstream run has not been  *)
(* mirrored yet.                                                            *)
Init ==
    /\ job \in [Requests -> Job]
    /\ home \in [Ids -> Courses]
    /\ runs \in [Uuids -> Courses \cup {None}]
    /\ receipts = [k \in Keys |-> None]
    /\ source \in [Ids -> {None, Mirror}]
    /\ claims \in SUBSET {p \in Uuids \X Ids : runs[p[1]] # None /\ source[p[2]] = None}
    /\ pending = claims
    /\ owner = [l \in Locks |-> None]
    /\ at = [t \in Requests |-> "start"]
    /\ attempt = [t \in Requests |-> 0]
    /\ work = [t \in Requests |-> NoWork(job[t])]
    /\ answer = [t \in Requests |-> "none"]

-----------------------------------------------------------------------------
Kind(t) == job[t].kind

Body(t) == [uuid |-> job[t].uuid, course |-> job[t].course, player |-> job[t].player]

CourseOf(t) ==
    IF Kind(t) = "upload" THEN job[t].course
    ELSE IF Kind(t) = "sync" THEN home[job[t].id] ELSE runs[job[t].uuid]

(* A sync asks for the upstream id before the course.                       *)
BugWantedInverse(t) ==
    CASE at[t] = "receipt" -> <<"receipt", job[t].key>>
      [] at[t] = "uuid"    -> <<"uuid", work[t].run>>
      [] at[t] = "course"  -> IF Kind(t) = "sync" THEN <<"id", work[t].id>>
                              ELSE <<"course", CourseOf(t)>>
      [] at[t] = "id"      -> IF Kind(t) = "sync" THEN <<"course", CourseOf(t)>>
                              ELSE <<"id", work[t].id>>
      [] at[t] = "player"  -> <<"player", job[t].player>>
      [] at[t] = "entry"   -> <<"entry", <<work[t].run, work[t].id>>>>
      [] at[t] = "claimed" -> <<"course", runs[work[t].run]>>

(* The lock that a request needs for its step.                              *)
Wanted(t) ==
    CASE at[t] = "receipt" -> <<"receipt", job[t].key>>
      [] at[t] = "uuid"    -> <<"uuid", work[t].run>>
      [] at[t] = "course"  -> <<"course", CourseOf(t)>>
      [] at[t] = "id"      -> <<"id", work[t].id>>
      [] at[t] = "player"  -> <<"player", job[t].player>>
      [] at[t] = "entry"   -> <<"entry", <<work[t].run, work[t].id>>>>
      [] at[t] = "claimed" -> <<"course", runs[work[t].run]>>

(* identity_lock(wait=False)                                                *)
Tries(t) == at[t] = "course" /\ Kind(t) \in {"claim", "sync"}

(* What pg_try_advisory_xact_lock returns is not looked at.                 *)
BugBusyUnheeded(t) == owner[Wanted(t)] \notin {None, t} /\ ~ Tries(t)

Busy(t) == owner[Wanted(t)] \notin {None, t}

Go(t, step) == at' = [at EXCEPT ![t] = step]

Choose(t, w) == work' = [work EXCEPT ![t] = w]

(* The claiming run's course is not locked.                                 *)
BugTakeUnclaimed(t) ==
    /\ ~ Busy(t)
    /\ IF at[t] = "claimed" THEN UNCHANGED owner
       ELSE owner' = [owner EXCEPT ![Wanted(t)] = t]

(* The upstream id is locked for a moment only.                             *)
BugTakeIdBriefly(t) ==
    /\ ~ Busy(t)
    /\ IF at[t] = "id" THEN UNCHANGED owner
       ELSE owner' = [owner EXCEPT ![Wanted(t)] = t]

Take(t) ==
    /\ ~ Busy(t)
    /\ owner' = [owner EXCEPT ![Wanted(t)] = t]

(* The end of a transaction, committed or rolled back.                      *)
Release(t) == owner' = [l \in Locks |-> IF owner[l] = t THEN None ELSE owner[l]]

Finish(t, result) ==
    /\ Release(t)
    /\ Go(t, "done")
    /\ Choose(t, NoWork(job[t]))
    /\ answer' = [answer EXCEPT ![t] = result]

Keep == UNCHANGED <<job, home, Tables, attempt>>

Unlinked(u) == \A x \in Ids : source[x] # u

(* What a merge asks of the two rows, their statistics apart.               *)
Mergeable(u, x) == source[x] = Mirror /\ home[x] = runs[u] /\ Unlinked(u)

Missing(t) == <<work[t].run, work[t].id>> \notin claims

-----------------------------------------------------------------------------
(* owned_record.  The operator's claim is read, and inserted, before any    *)
(* lock.                                                                    *)
Begin(t) ==
    /\ at[t] = "start"
    /\ IF Kind(t) \in {"claim", "verify", "backfill"} /\ runs[job[t].uuid] = None
       THEN Finish(t, "refused")
       ELSE /\ IF Kind(t) = "verify" /\ Missing(t)
               THEN Go(t, "entry") /\ Choose(t, [work[t] EXCEPT !.insert = {work[t].id}])
               ELSE /\ Go(t, IF Kind(t) = "upload" THEN "receipt" ELSE "course")
                    /\ UNCHANGED work
            /\ UNCHANGED <<owner, answer>>
    /\ Keep

LockReceipt(t) ==
    /\ at[t] = "receipt"
    /\ IF receipts[job[t].key] = None
       THEN Take(t) /\ Go(t, "uuid") /\ UNCHANGED <<work, answer>>
       ELSE /\ ~ Busy(t)
            /\ Finish(t, IF receipts[job[t].key] = Body(t) THEN "ok" ELSE "refused")
    /\ Keep

LockUuid(t) ==
    /\ at[t] = "uuid"
    /\ IF runs[work[t].run] = None
       THEN Take(t) /\ Go(t, "course") /\ UNCHANGED <<work, answer>>
       ELSE ~ Busy(t) /\ Finish(t, "refused")
    /\ Keep

(* An upload reads which mirrors look like its run, and which of them is.   *)
LockCourseUpload(t) ==
    /\ at[t] = "course" /\ Kind(t) = "upload"
    /\ Take(t)
    /\ \E M \in SUBSET {x \in Ids : source[x] = Mirror /\ home[x] = job[t].course} :
       \E x \in M \cup {None} :
          Choose(t, [work[t] EXCEPT !.insert = M, !.id = x,
                                    !.to = IF x = None THEN None ELSE work[t].run])
    /\ Go(t, "player")
    /\ UNCHANGED answer
    /\ Keep

LockCourse(t) ==
    /\ at[t] = "course" /\ Kind(t) \in {"claim", "sync", "verify"}
    /\ Take(t)
    /\ Go(t, "id")
    /\ UNCHANGED <<work, answer>>
    /\ Keep

(* reconcile_compatible_receipt: a run that has an id, or no match, is left *)
(* alone.                                                                   *)
LockCourseBackfill(t) ==
    /\ at[t] = "course" /\ Kind(t) = "backfill"
    /\ \/ /\ Take(t)
          /\ \E x \in Ids :
                /\ Mergeable(work[t].run, x)
                /\ Choose(t, [work[t] EXCEPT !.id = x, !.to = work[t].run,
                                             !.settle = {work[t].run}])
          /\ Go(t, "id")
          /\ UNCHANGED answer
       \/ ~ Busy(t) /\ Finish(t, "ok")
    /\ Keep

(* What follows the lock of the upstream id and the insertion of a claim.   *)
AfterId(t) == CASE Kind(t) = "sync" -> "player"
                [] Kind(t) \in {"claim", "verify"} -> "decide"
                [] OTHER -> "commit"

LockId(t) ==
    /\ at[t] = "id"
    /\ Take(t)
    /\ IF Kind(t) \in {"claim", "backfill"} /\ Missing(t)
       THEN Go(t, "entry") /\ Choose(t, [work[t] EXCEPT !.insert = {work[t].id}])
       ELSE Go(t, AfterId(t)) /\ UNCHANGED work
    /\ UNCHANGED answer
    /\ Keep

(* The INSERT of a claim waits for an uncommitted one of the same key, and  *)
(* fails on a committed one.                                                *)
LockEntry(t) ==
    /\ at[t] = "entry"
    /\ IF Missing(t)
       THEN /\ Take(t)
            /\ Go(t, IF Kind(t) = "verify" THEN "course"
                     ELSE IF Kind(t) = "claim" THEN "decide" ELSE "commit")
            /\ UNCHANGED <<work, answer>>
       ELSE ~ Busy(t) /\ Finish(t, "clash")
    /\ Keep

(* reconcile_claim: the claim waits, or is decided, with or without a merge.*)
Decide(t) ==
    /\ at[t] = "decide"
    /\ LET u == work[t].run
           x == work[t].id
       IN  IF source[x] = None /\ Unlinked(u)
           THEN Choose(t, [work[t] EXCEPT !.reopen = TRUE])
           ELSE \E v \in {None, u} :
                   /\ v = u => Mergeable(u, x)
                   /\ Choose(t, [work[t] EXCEPT !.settle = {u}, !.to = v])
    /\ Go(t, "commit")
    /\ UNCHANGED <<owner, answer>>
    /\ Keep

LockPlayer(t) ==
    /\ at[t] = "player"
    /\ Take(t)
    /\ Go(t, IF Kind(t) = "upload" THEN "commit" ELSE "resolve")
    /\ UNCHANGED <<work, answer>>
    /\ Keep

(* resolve_before_sync: the id has a native row already, or goes to a       *)
(* native run that has none.                                                *)
ResolveNative(t) ==
    /\ at[t] = "resolve"
    /\ LET x == work[t].id IN
       \/ source[x] \in Uuids /\ Go(t, "commit") /\ UNCHANGED work
       \/ /\ source[x] = None
          /\ \E u \in Uuids :
                /\ runs[u] = home[x] /\ Unlinked(u)
                /\ \E new \in SUBSET {x} :
                      /\ new = {x} <=> <<u, x>> \notin claims
                      /\ Choose(t, [work[t] EXCEPT !.run = u, !.to = u, !.settle = {u},
                                                   !.fresh = TRUE, !.insert = new])
                      /\ Go(t, IF new = {} THEN "commit" ELSE "entry")
    /\ UNCHANGED <<owner, answer>>
    /\ Keep

(* Otherwise upsert_record writes the mirror, and reconcile_upstream visits *)
(* the claims that are still pending.                                       *)
ResolveMirror(t) ==
    /\ at[t] = "resolve"
    /\ LET x == work[t].id
           waiting == {u \in Uuids : <<u, x>> \in pending}
       IN  /\ source[x] \in {None, Mirror}
           /\ \E S \in SUBSET {u \in waiting : runs[u] = home[x]} :
                 Choose(t, [work[t] EXCEPT !.settle = S, !.todo = waiting \ S,
                                           !.fresh = (source[x] = None)])
    /\ Go(t, "claims")
    /\ UNCHANGED <<owner, answer>>
    /\ Keep

NextClaim(t) ==
    /\ at[t] = "claims"
    /\ \/ work[t].todo = {} /\ Go(t, "commit") /\ UNCHANGED work
       \/ /\ \E u \in work[t].todo :
                Choose(t, [work[t] EXCEPT !.run = u, !.todo = work[t].todo \ {u}])
          /\ Go(t, "claimed")
    /\ UNCHANGED <<owner, answer>>
    /\ Keep

(* Here the course of the claiming run is asked for, which need not be that *)
(* of the upstream body, with the body's course, id and player held.        *)
LockClaimed(t) ==
    /\ at[t] = "claimed"
    /\ Take(t)
    /\ LET u == work[t].run IN
       \E v \in {work[t].to, u} :
          /\ v # work[t].to =>
               work[t].to = None /\ home[work[t].id] = runs[u] /\ Unlinked(u)
          /\ Choose(t, [work[t] EXCEPT !.settle = work[t].settle \cup {u}, !.to = v])
    /\ Go(t, "claims")
    /\ UNCHANGED answer
    /\ Keep

-----------------------------------------------------------------------------
(* Since this transaction looked another one has committed a row with the   *)
(* same key, or has linked the same run or the same id.                     *)
Clash(t) ==
    LET w == work[t] IN
    \/ /\ Kind(t) = "upload"
       /\ receipts[job[t].key] # None \/ runs[w.run] # None
    \/ \E x \in w.insert : <<w.run, x>> \in claims
    \/ w.fresh /\ source[w.id] # None
    \/ /\ w.to # None
       /\ \/ ~ Unlinked(w.to)
          \/ ~ w.fresh /\ source[w.id] # Mirror

Written(t) ==
    LET w == work[t] IN
    /\ IF Kind(t) = "upload"
       THEN /\ runs' = [runs EXCEPT ![w.run] = job[t].course]
            /\ receipts' = [receipts EXCEPT ![job[t].key] = Body(t)]
       ELSE UNCHANGED <<runs, receipts>>
    /\ claims' = claims \cup {<<w.run, x>> : x \in w.insert}
    /\ pending' = (IF w.reopen THEN pending \cup {<<w.run, w.id>>} ELSE pending)
                     \ {<<u, w.id>> : u \in w.settle}
    /\ source' = IF w.to # None THEN [source EXCEPT ![w.id] = w.to]
                 ELSE IF w.fresh THEN [source EXCEPT ![w.id] = Mirror] ELSE source

Commit(t) ==
    /\ at[t] = "commit"
    /\ IF Clash(t) THEN Finish(t, "clash") /\ UNCHANGED Tables
       ELSE Finish(t, "ok") /\ Written(t)
    /\ UNCHANGED <<job, home, attempt>>

(* The operator's insert comes before the first SET LOCAL lock_timeout.     *)
MayTimeOut(t) == ~ (at[t] = "entry" /\ Kind(t) = "verify")

(* Refused at once (wait=False), after lock_timeout, or as the victim of    *)
(* a deadlock.  An operator's command is not retried.                       *)
GiveUp(t) ==
    /\ at[t] \in Lockings
    /\ Busy(t) /\ MayTimeOut(t)
    /\ \/ Kind(t) \in {"verify", "backfill"} /\ Finish(t, "error") /\ UNCHANGED attempt
       \/ /\ Kind(t) \in {"upload", "claim", "sync"}
          /\ attempt[t] = ATTEMPTS - 1
          /\ Finish(t, "busy")
          /\ UNCHANGED attempt
       \/ /\ Kind(t) \in {"upload", "claim", "sync"}
          /\ attempt[t] < ATTEMPTS - 1
          /\ attempt' = [attempt EXCEPT ![t] = attempt[t] + 1]
          /\ Release(t)
          /\ Go(t, "backoff")
          /\ Choose(t, NoWork(job[t]))
          /\ UNCHANGED answer
    /\ UNCHANGED <<job, home, Tables>>

(* One attempt less is made than is waited for, and nothing is answered.    *)
BugRetryEarly(t) ==
    /\ at[t] = "backoff"
    /\ attempt[t] < ATTEMPTS - 1
    /\ Go(t, "start")
    /\ UNCHANGED <<owner, work, answer>>
    /\ Keep

Retry(t) ==
    /\ at[t] = "backoff"
    /\ Go(t, "start")
    /\ UNCHANGED <<owner, work, answer>>
    /\ Keep

(* No connection in the pool, an error of another kind, a process that dies.*)
Break(t) ==
    /\ at[t] \notin {"backoff", "done"}
    /\ Finish(t, IF at[t] = "start" THEN "busy" ELSE "error")
    /\ Keep

Goes(t) ==
    \/ Begin(t) \/ LockReceipt(t) \/ LockUuid(t)
    \/ LockCourseUpload(t) \/ LockCourse(t) \/ LockCourseBackfill(t)
    \/ LockId(t) \/ LockEntry(t) \/ Decide(t) \/ LockPlayer(t)
    \/ ResolveNative(t) \/ ResolveMirror(t) \/ NextClaim(t) \/ LockClaimed(t)
    \/ Commit(t) \/ GiveUp(t) \/ Retry(t)

Next == \E t \in Requests : Goes(t) \/ Break(t)

Spec == Init /\ [][Next]_vars /\ \A t \in Requests : WF_vars(Goes(t))

-----------------------------------------------------------------------------
(* The types of the variables; what is pending is a claim.                  *)
TypeOK ==
    /\ job \in [Requests -> Job]
    /\ home \in [Ids -> Courses]
    /\ runs \in [Uuids -> Courses \cup {None}]
    /\ receipts \in [Keys -> Receipt \cup {None}]
    /\ claims \in SUBSET (Uuids \X Ids)
    /\ pending \in SUBSET claims
    /\ source \in [Ids -> Uuids \cup {None, Mirror}]
    /\ owner \in [Locks -> Requests \cup {None}]
    /\ at \in [Requests -> Steps]
    /\ attempt \in [Requests -> 0 .. ATTEMPTS - 1]
    /\ work \in [Requests -> Work]
    /\ answer \in [Requests -> Answers]

(* What a request of a plugin or a sync has read is still so when it        *)
(* commits: it never runs into a unique constraint and never overwrites a   *)
(* link.  The operator's claim, which is inserted before any lock, may.     *)
NoDuplicate == \A t \in Requests : answer[t] = "clash" => Kind(t) = "verify"

(* A claim says that it waits for the upstream row only while that row is   *)
(* not there: no claim is filed unseen while the row is being written.      *)
PendingAwaitsRow == \A p \in pending : source[p[2]] # Mirror

Waits(t) == at[t] \in Lockings /\ Busy(t) /\ ~ Tries(t)

Deadlocked(D) == D # {} /\ \A t \in D : Waits(t) /\ owner[Wanted(t)] \in D

(* The two places that ask for a lock while they hold a later one.          *)
Detour(t) == at[t] = "claimed" \/ (Kind(t) = "verify" /\ at[t] \in {"course", "id"})

(* Requests that all wait on each other include a sync that asks for the    *)
(* course of a claiming run, or an operator who verifies a claim: nothing   *)
(* else breaks the order receipt, UUID, course, id, player, claim.          *)
DeadlockNeedsDetour ==
    \A D \in SUBSET Requests : Deadlocked(D) => \E t \in D : Detour(t)

Touched(u) ==
    \/ runs'[u] # runs[u]
    \/ \E x \in Ids : \/ (<<u, x>> \in claims') # (<<u, x>> \in claims)
                      \/ (<<u, x>> \in pending') # (<<u, x>> \in pending)
                      \/ (source'[x] = u) # (source[x] = u)

(* A run, its claims, whether they wait, and its upstream id change only in *)
(* the commit of a request that holds the run's course.                     *)
ChangesAreLocked ==
    [][\A u \in Uuids : Touched(u) =>
          \E t \in Requests : at[t] = "commit" /\ owner[<<"course", runs'[u]>>] = t]_vars

(* Whatever waits on whatever: every request is answered.                   *)
EveryRequestEnds == \A t \in Requests : <>(at[t] = "done")
=============================================================================
