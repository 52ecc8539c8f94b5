-------------------------- MODULE RecordLocks_proofs --------------------------
(***************************************************************************)
(* The proofs about RecordLocks.  The inductive invariant says of every    *)
(* request which locks it holds at its step, and that what it has read     *)
(* under them is still so; there is one lemma per action, and one about a  *)
(* commit as the others see it: it changes nothing whose lock they hold.   *)
(***************************************************************************)
EXTENDS RecordLocks, TLAPS

-----------------------------------------------------------------------------
(* The request has the lock of its course; of its upstream id.              *)
InCourse(t) ==
    \/ at[t] \in {"id", "decide", "resolve", "claims", "claimed", "player", "commit"}
    \/ at[t] = "entry" /\ Kind(t) # "verify"

InId(t) == InCourse(t) /\ at[t] # "id" /\ Kind(t) # "upload"

(* Which steps each kind of request passes through.                         *)
OnPath(t) ==
    /\ at[t] \in {"receipt", "uuid"} => Kind(t) = "upload"
    /\ at[t] = "player" => Kind(t) \in {"upload", "sync"}
    /\ at[t] \in {"id", "entry"} => Kind(t) # "upload"
    /\ at[t] = "decide" => Kind(t) \in {"claim", "verify"}
    /\ at[t] \in {"resolve", "claims", "claimed"} => Kind(t) = "sync"

(* The run and the id it works on exist.                                    *)
Named(t) ==
    /\ Kind(t) # "sync" => work[t].run = job[t].uuid
    /\ Kind(t) \in {"claim", "verify", "sync"} => work[t].id = job[t].id
    /\ InCourse(t) /\ Kind(t) # "upload" => work[t].id \in Ids
    /\ at[t] \in {"entry", "claimed"} => work[t].run \in Uuids
    /\ at[t] = "claimed" => runs[work[t].run] # None
    /\ \A v \in work[t].todo : runs[v] # None
    /\ work[t].todo # {} => at[t] \in {"claims", "claimed"}

(* Nothing is chosen before the locks it depends on are held.               *)
Undecided(t) ==
    /\ ~ InCourse(t) =>
         /\ work[t].to = None /\ work[t].settle = {}
         /\ work[t].insert = {} \/ Kind(t) = "verify"
    /\ ~ InId(t) => ~ work[t].fresh
    /\ work[t].reopen => at[t] = "commit"
    /\ Kind(t) = "sync" /\ work[t].insert # {} => at[t] \in {"entry", "commit"}

(* The locks a request has for certain.                                     *)
Holding(t) ==
    /\ Kind(t) = "upload" /\ at[t] \in {"uuid", "course", "player", "commit"} =>
         owner[<<"receipt", job[t].key>>] = t
    /\ Kind(t) = "upload" /\ at[t] \in {"course", "player", "commit"} =>
         owner[<<"uuid", job[t].uuid>>] = t
    /\ InCourse(t) => owner[<<"course", CourseOf(t)>>] = t
    /\ InId(t) => owner[<<"id", work[t].id>>] = t
    /\ \A v \in work[t].settle : runs[v] # None /\ owner[<<"course", runs[v]>>] = t

(* The locks it may have: but for the detours, earlier ones than it asks    *)
(* for.                                                                     *)
OwnsBelow(t) ==
    \A l \in Locks : owner[l] = t =>
       /\ at[t] \notin {"start", "backoff", "done", "receipt"}
       /\ at[t] = "uuid" => l[1] = "receipt"
       /\ at[t] = "course" =>
            (Kind(t) = "upload" /\ l[1] \in {"receipt", "uuid"}) \/ Kind(t) = "verify"
       /\ at[t] = "id" => l[1] = "course" \/ Kind(t) = "verify"
       /\ at[t] = "player" => l[1] # "player"
       /\ at[t] \in {"player", "resolve", "entry"} => l[1] # "entry"

(* The receipt and the run an upload brings are not there; the others' runs *)
(* are.                                                                     *)
RunsRead(t) ==
    /\ Kind(t) = "upload" =>
         /\ at[t] \in {"uuid", "course", "player", "commit"} => receipts[job[t].key] = None
         /\ at[t] \in {"course", "player", "commit"} => runs[job[t].uuid] = None
    /\ Kind(t) \in {"claim", "verify", "backfill"}
         /\ at[t] \notin {"start", "backoff", "done"} => runs[job[t].uuid] # None

(* The claim that is to be inserted is not there, the one that is to be     *)
(* decided is there or will be.                                             *)
ClaimRead(t) ==
    /\ Kind(t) # "upload" /\ work[t].insert # {} =>
         /\ work[t].insert = {work[t].id}
         /\ work[t].run \in Uuids
         /\ runs[work[t].run] = CourseOf(t)
         /\ Kind(t) # "verify" => <<work[t].run, work[t].id>> \notin claims
    /\ at[t] = "entry" => work[t].insert = {work[t].id}
    /\ (\/ Kind(t) = "claim" /\ at[t] \in {"decide", "commit"}
        \/ Kind(t) = "verify" /\ at[t] \in {"course", "id", "decide", "commit"}) =>
         <<work[t].run, work[t].id>> \in claims \/ work[t].insert # {}

(* The id that is to get a row has none; the one whose claims are visited   *)
(* is a mirror, or will be.                                                 *)
RowRead(t) ==
    /\ work[t].fresh => Kind(t) = "sync" /\ source[work[t].id] = None
    /\ at[t] \in {"claims", "claimed"} => work[t].fresh \/ source[work[t].id] = Mirror

(* The run that is to get the id has none, and the id no native run.        *)
LinkRead(t) ==
    work[t].to # None =>
       /\ work[t].id \in Ids /\ home[work[t].id] = CourseOf(t)
       /\ Unlinked(work[t].to)
       /\ work[t].fresh \/ source[work[t].id] = Mirror
       /\ Kind(t) = "upload" => work[t].to = job[t].uuid
       /\ Kind(t) # "upload" => runs[work[t].to] = home[work[t].id]

(* The claim that is to wait has no upstream row; a sync that is to write   *)
(* one has visited, or is to visit, every claim that waits for it.          *)
WaitRead(t) ==
    /\ work[t].reopen =>
         /\ Kind(t) \in {"claim", "verify"}
         /\ source[work[t].id] = None
    /\ work[t].fresh /\ work[t].to = None =>
         \A v \in Uuids : <<v, work[t].id>> \in pending =>
            \/ v \in work[t].settle \cup work[t].todo
            \/ at[t] = "claimed" /\ v = work[t].run

ReadsHold(t) ==
    RunsRead(t) /\ ClaimRead(t) /\ RowRead(t) /\ LinkRead(t) /\ WaitRead(t)

RequestOK(t) ==
    /\ OnPath(t) /\ Named(t) /\ Undecided(t) /\ Holding(t) /\ OwnsBelow(t)
    /\ ReadsHold(t)

(* Claims are on runs that exist, links stay on the course.                 *)
References ==
    /\ \A u \in Uuids, x \in Ids : <<u, x>> \in claims => runs[u] # None
    /\ \A x \in Ids : source[x] \in Uuids => runs[source[x]] = home[x]

Inv ==
    /\ TypeOK /\ References /\ NoDuplicate /\ PendingAwaitsRow
    /\ \A t \in Requests : RequestOK(t)

-----------------------------------------------------------------------------
(* What the fields of a request may be.                                     *)
LEMMA JobShape ==
    ASSUME NEW j \in Job
    PROVE  /\ j.kind \in {"upload", "sync", "claim", "verify", "backfill"}
           /\ j.kind = "upload" =>
                /\ j.key \in Keys /\ j.uuid \in Uuids /\ j.course \in Courses
                /\ j.player \in Players /\ j.id = None
           /\ j.kind = "sync" => j.uuid = None /\ j.id \in Ids /\ j.player \in Players
           /\ j.kind \in {"claim", "verify"} => j.uuid \in Uuids /\ j.id \in Ids
           /\ j.kind = "backfill" => j.uuid \in Uuids /\ j.id = None
           /\ NoWork(j) \in Work
<1>1. CASE j \in Upload
  BY <1>1 DEF Upload, NoWork, Work
<1>2. CASE j \in Sync
  BY <1>2 DEF Sync, NoWork, Work
<1>3. CASE j \in Claim
  BY <1>3 DEF Claim, NoWork, Work
<1>4. CASE j \in Backfill
  BY <1>4 DEF Backfill, NoWork, Work
<1> QED
  BY <1>1, <1>2, <1>3, <1>4 DEF Job

LEMMA InitInv == Init => Inv
<1> SUFFICES ASSUME Init PROVE Inv
  OBVIOUS
<1>1. \A t \in Requests : NoWork(job[t]) \in Work
  BY JobShape DEF Init
<1>2. TypeOK
  <2>1. claims \in SUBSET (Uuids \X Ids) /\ source \in [Ids -> Uuids \cup {None, Mirror}]
    BY DEF Init
  <2>2. attempt \in [Requests -> 0 .. ATTEMPTS - 1]
    BY LocksAssumption DEF Init
  <2>3. work \in [Requests -> Work]
    BY <1>1 DEF Init
  <2> QED
    BY <2>1, <2>2, <2>3 DEF Init, TypeOK, Steps, Answers
<1>3. References
  <2>1. \A u \in Uuids, x \in Ids : <<u, x>> \in claims => runs[u] # None
    BY DEF Init
  <2>2. \A x \in Ids : source[x] \notin Uuids
    BY LocksAssumption DEF Init
  <2> QED
    BY <2>1, <2>2 DEF References
<1>4. NoDuplicate
  BY DEF Init, NoDuplicate
<1>5. PendingAwaitsRow
  BY LocksAssumption DEF Init, PendingAwaitsRow
<1>6. ASSUME NEW t \in Requests PROVE RequestOK(t)
  <2>1. /\ at[t] = "start" /\ work[t] = NoWork(job[t])
        /\ \A l \in Locks : owner[l] # t
    BY LocksAssumption DEF Init
  <2>2. OnPath(t) /\ Undecided(t) /\ OwnsBelow(t)
    BY <2>1 DEF OnPath, Undecided, OwnsBelow, NoWork, InCourse, InId
  <2>3. Named(t) /\ Holding(t)
    BY <2>1 DEF Named, Holding, NoWork, InCourse, InId
  <2>4. ReadsHold(t)
    BY <2>1 DEF ReadsHold, RunsRead, ClaimRead, RowRead, LinkRead, WaitRead, NoWork
  <2> QED
    BY <2>2, <2>3, <2>4 DEF RequestOK
<1> QED
  BY <1>2, <1>3, <1>4, <1>5, <1>6 DEF Inv

-----------------------------------------------------------------------------
(* What a request asks for at each step, and that it is a lock.             *)
LEMMA WantedIs ==
    ASSUME Inv, NEW t \in Requests
    PROVE  /\ at[t] = "receipt" => Wanted(t) = <<"receipt", job[t].key>>
           /\ at[t] = "uuid"    => Wanted(t) = <<"uuid", job[t].uuid>>
           /\ at[t] = "course"  => Wanted(t) = <<"course", CourseOf(t)>>
           /\ at[t] = "id"      => Wanted(t) = <<"id", work[t].id>>
           /\ at[t] = "player"  => Wanted(t) = <<"player", job[t].player>>
           /\ at[t] = "entry"   => Wanted(t) = <<"entry", <<work[t].run, work[t].id>>>>
           /\ at[t] = "claimed" => Wanted(t) = <<"course", runs[work[t].run]>>
           /\ at[t] \in Lockings => Wanted(t) \in Locks
<1>1. /\ TypeOK /\ OnPath(t) /\ Named(t) /\ RunsRead(t)
  BY DEF Inv, RequestOK, ReadsHold
<1>2. /\ at[t] = "receipt" => Wanted(t) = <<"receipt", job[t].key>>
      /\ at[t] = "uuid"    => Wanted(t) = <<"uuid", job[t].uuid>>
      /\ at[t] = "course"  => Wanted(t) = <<"course", CourseOf(t)>>
      /\ at[t] = "id"      => Wanted(t) = <<"id", work[t].id>>
      /\ at[t] = "player"  => Wanted(t) = <<"player", job[t].player>>
      /\ at[t] = "entry"   => Wanted(t) = <<"entry", <<work[t].run, work[t].id>>>>
      /\ at[t] = "claimed" => Wanted(t) = <<"course", runs[work[t].run]>>
  BY <1>1 DEF Wanted, OnPath, Named, Kind
<1>3. job[t] \in Job
  BY <1>1 DEF TypeOK
<1>4. at[t] = "receipt" => Wanted(t) \in Locks
  BY <1>1, <1>2, <1>3, JobShape DEF Locks, OnPath, Kind
<1>5. at[t] = "uuid" => Wanted(t) \in Locks
  BY <1>1, <1>2, <1>3, JobShape DEF Locks, OnPath, Kind
<1>6. at[t] = "course" => CourseOf(t) \in Courses
  BY <1>1, <1>3, JobShape DEF CourseOf, RunsRead, TypeOK, Kind
<1>7. at[t] = "course" => Wanted(t) \in Locks
  BY <1>2, <1>6 DEF Locks
<1>8. at[t] = "id" => Wanted(t) \in Locks
  BY <1>1, <1>2 DEF Locks, Named, OnPath, InCourse
<1>9. at[t] = "player" => Wanted(t) \in Locks
  BY <1>1, <1>2, <1>3, JobShape DEF Locks, OnPath, Kind
<1>10. at[t] = "entry" => work[t].run \in Uuids /\ work[t].id \in Ids
  <2>1. at[t] = "entry" /\ Kind(t) # "verify" => work[t].id \in Ids
    BY <1>1 DEF Named, OnPath, InCourse
  <2>2. Kind(t) = "verify" => work[t].id \in Ids
    BY <1>1, <1>3, JobShape DEF Named, Kind
  <2> QED
    BY <1>1, <2>1, <2>2 DEF Named
<1>11. at[t] = "entry" => Wanted(t) \in Locks
  BY <1>2, <1>10 DEF Locks
<1>12. at[t] = "claimed" => runs[work[t].run] \in Courses
  BY <1>1 DEF Named, TypeOK
<1>13. at[t] = "claimed" => Wanted(t) \in Locks
  BY <1>2, <1>12 DEF Locks
<1> QED
  BY <1>2, <1>4, <1>5, <1>7, <1>8, <1>9, <1>11, <1>13 DEF Lockings

(* A step of one request that commits nothing and leaves the others' locks  *)
(* alone.                                                                   *)
Local(t) ==
    /\ UNCHANGED <<job, home, Tables>>
    /\ \A r \in Requests : r # t =>
         at'[r] = at[r] /\ work'[r] = work[r] /\ answer'[r] = answer[r]
    /\ \A l \in Locks : \A r \in Requests : r # t => (owner'[l] = r <=> owner[l] = r)

(* A lock that has been taken is had, and nobody loses one by it.           *)
LEMMA TakeTakes ==
    ASSUME Inv, NEW t \in Requests, Take(t), at[t] \in Lockings
    PROVE  /\ owner' \in [Locks -> Requests \cup {None}]
           /\ owner'[Wanted(t)] = t
           /\ \A l \in Locks : l # Wanted(t) => owner'[l] = owner[l]
           /\ \A l \in Locks : \A r \in Requests : r # t => (owner'[l] = r <=> owner[l] = r)
<1>1. Wanted(t) \in Locks /\ owner \in [Locks -> Requests \cup {None}]
  BY WantedIs DEF Inv, TypeOK
<1> DEFINE m == Wanted(t)
<1>2. m \in Locks /\ owner' = [owner EXCEPT ![m] = t] /\ owner[m] \in {None, t}
  BY <1>1 DEF Take, Busy
<1> HIDE DEF m
<1>3. /\ owner' \in [Locks -> Requests \cup {None}]
      /\ owner'[m] = t
      /\ \A l \in Locks : l # m => owner'[l] = owner[l]
  BY <1>1, <1>2
<1>4. \A l \in Locks : \A r \in Requests : r # t => (owner'[l] = r <=> owner[l] = r)
  BY <1>2, <1>3, LocksAssumption
<1> QED
  BY <1>3, <1>4 DEF m

(* The locks that a request is said to have are locks; to have more of them *)
(* does no harm.                                                            *)
LEMMA HeldAreLocks ==
    ASSUME Inv, NEW t \in Requests
    PROVE  /\ Kind(t) = "upload" => <<"receipt", job[t].key>> \in Locks
           /\ Kind(t) = "upload" => <<"uuid", job[t].uuid>> \in Locks
           /\ InCourse(t) => CourseOf(t) \in Courses /\ <<"course", CourseOf(t)>> \in Locks
           /\ InId(t) => <<"id", work[t].id>> \in Locks
           /\ \A v \in work[t].settle : <<"course", runs[v]>> \in Locks
<1>1. /\ job[t] \in Job /\ RequestOK(t) /\ work[t] \in Work
      /\ home \in [Ids -> Courses] /\ runs \in [Uuids -> Courses \cup {None}]
  BY DEF Inv, TypeOK
<1>2. Kind(t) = "upload" => <<"receipt", job[t].key>> \in Locks /\ <<"uuid", job[t].uuid>> \in Locks
  BY <1>1, JobShape DEF Locks, Kind
<1>3. InCourse(t) => CourseOf(t) \in Courses
  <2>1. InCourse(t) /\ Kind(t) \in {"claim", "verify", "backfill"} => runs[job[t].uuid] # None
    BY <1>1 DEF RequestOK, ReadsHold, RunsRead, InCourse
  <2> QED
    BY <1>1, <2>1, JobShape DEF CourseOf, Kind
<1>4. InCourse(t) => <<"course", CourseOf(t)>> \in Locks
  BY <1>3 DEF Locks
<1>5. InId(t) => <<"id", work[t].id>> \in Locks
  BY <1>1 DEF Locks, InId, RequestOK, Named
<1>6. \A v \in work[t].settle : <<"course", runs[v]>> \in Locks
  BY <1>1 DEF Locks, RequestOK, Holding, Work
<1> QED
  BY <1>2, <1>3, <1>4, <1>5, <1>6

(* The others find what they have read as it was.                           *)
LEMMA LocalKeeps ==
    ASSUME Inv, NEW t \in Requests, Local(t), TypeOK', RequestOK(t)',
           answer'[t] = "clash" => Kind(t) = "verify"
    PROVE  Inv'
<1>1. job' = job /\ home' = home /\ runs' = runs /\ receipts' = receipts
      /\ claims' = claims /\ pending' = pending /\ source' = source
  BY DEF Local, Tables
<1>2. References' /\ PendingAwaitsRow'
  BY <1>1 DEF Inv, References, PendingAwaitsRow
<1>3. NoDuplicate'
  BY <1>1 DEF Inv, Local, NoDuplicate, Kind
<1>4. ASSUME NEW r \in Requests, r # t PROVE RequestOK(r)'
  <2>1. /\ at'[r] = at[r] /\ work'[r] = work[r]
        /\ \A l \in Locks : owner'[l] = r <=> owner[l] = r
        /\ RequestOK(r)
        /\ job[r] \in Job
    BY <1>4 DEF Local, Inv, TypeOK
  <2>2. /\ Kind(r)' = Kind(r) /\ CourseOf(r)' = CourseOf(r)
        /\ InCourse(r)' = InCourse(r) /\ InId(r)' = InId(r)
    BY <1>1, <2>1 DEF Kind, CourseOf, InCourse, InId
  <2>3. OnPath(r)' /\ Named(r)' /\ Undecided(r)'
    BY <1>1, <2>1, <2>2 DEF RequestOK, OnPath, Named, Undecided
  <2>4. OwnsBelow(r)'
    BY <2>1, <2>2 DEF RequestOK, OwnsBelow
  <2>5. ReadsHold(r)'
    BY <1>1, <2>1, <2>2 DEF RequestOK, ReadsHold, RunsRead, ClaimRead, RowRead, LinkRead,
      WaitRead, Unlinked
  <2>6. Holding(r)'
    <3>1. /\ Kind(r) = "upload" => <<"receipt", job[r].key>> \in Locks
          /\ Kind(r) = "upload" => <<"uuid", job[r].uuid>> \in Locks
          /\ InCourse(r) => <<"course", CourseOf(r)>> \in Locks
          /\ InId(r) => <<"id", work[r].id>> \in Locks
          /\ \A v \in work[r].settle : <<"course", runs[v]>> \in Locks
      BY HeldAreLocks
    <3> QED
      BY <1>1, <2>1, <2>2, <3>1 DEF RequestOK, Holding
  <2> QED
    BY <2>3, <2>4, <2>5, <2>6 DEF RequestOK
<1>5. \A r \in Requests : RequestOK(r)'
  BY <1>4
<1> QED
  BY <1>2, <1>3, <1>5 DEF Inv


(* A request that ends, or gives up its attempt, holds and has chosen       *)
(* nothing any more.                                                        *)
Leaves(t) ==
    /\ Release(t)
    /\ Go(t, "done") \/ Go(t, "backoff")
    /\ Choose(t, NoWork(job[t]))
    /\ UNCHANGED <<job, home>>

LEMMA LeavesClean ==
    ASSUME Inv, NEW t \in Requests, Leaves(t)
    PROVE  /\ RequestOK(t)'
           /\ at' \in [Requests -> Steps] /\ work' \in [Requests -> Work]
           /\ owner' \in [Locks -> Requests \cup {None}]
           /\ \A r \in Requests : r # t => at'[r] = at[r] /\ work'[r] = work[r]
           /\ \A l \in Locks : \A r \in Requests : r # t => (owner'[l] = r <=> owner[l] = r)
<1>1. /\ TypeOK /\ job' = job
      /\ job[t] \in Job /\ NoWork(job[t]) \in Work
  BY JobShape DEF Inv, TypeOK, Leaves
<1>2. /\ at' \in [Requests -> Steps] /\ at'[t] \in {"done", "backoff"}
      /\ \A r \in Requests : r # t => at'[r] = at[r]
  BY <1>1 DEF Leaves, Go, TypeOK, Steps, Lockings
<1>3. /\ work' \in [Requests -> Work] /\ work'[t] = NoWork(job[t])
      /\ \A r \in Requests : r # t => work'[r] = work[r]
  <2> DEFINE w == NoWork(job[t])
  <2>1. w \in Work /\ work' = [work EXCEPT ![t] = w] /\ work \in [Requests -> Work]
    BY <1>1 DEF Leaves, Choose, TypeOK
  <2> HIDE DEF w
  <2>2. /\ work' \in [Requests -> Work] /\ work'[t] = w
        /\ \A r \in Requests : r # t => work'[r] = work[r]
    BY <2>1
  <2> QED
    BY <2>2 DEF w
<1>4. /\ owner' \in [Locks -> Requests \cup {None}]
      /\ \A l \in Locks : owner'[l] # t
      /\ \A l \in Locks : \A r \in Requests : r # t => (owner'[l] = r <=> owner[l] = r)
  BY <1>1, LocksAssumption DEF Leaves, Release, TypeOK
<1>5. /\ work'[t].run = job[t].uuid /\ work'[t].id = job[t].id /\ work'[t].to = None
      /\ work'[t].insert = {} /\ work'[t].settle = {} /\ work'[t].todo = {}
      /\ work'[t].reopen = FALSE /\ work'[t].fresh = FALSE
  BY <1>3 DEF NoWork
<1>6. OnPath(t)' /\ Named(t)' /\ Undecided(t)'
  BY <1>1, <1>2, <1>5 DEF OnPath, Named, Undecided, InCourse, InId, Kind
<1>7. Holding(t)' /\ OwnsBelow(t)'
  BY <1>2, <1>4, <1>5 DEF Holding, OwnsBelow, InCourse, InId
<1>8. ReadsHold(t)'
  BY <1>2, <1>5 DEF ReadsHold, RunsRead, ClaimRead, RowRead, LinkRead, WaitRead
<1> QED
  BY <1>2, <1>3, <1>4, <1>6, <1>7, <1>8 DEF RequestOK

(* The end of a request that commits nothing.                               *)
LEMMA FinishKeeps ==
    ASSUME Inv, NEW t \in Requests, NEW result \in Answers, Finish(t, result), Keep,
           result = "clash" => Kind(t) = "verify"
    PROVE  Inv'
<1>1. /\ Leaves(t) /\ answer' \in [Requests -> Answers] /\ answer'[t] = result
      /\ \A r \in Requests : r # t => answer'[r] = answer[r]
  BY DEF Finish, Leaves, Keep, Inv, TypeOK
<1>2. Local(t)
  BY <1>1, LeavesClean DEF Local, Keep
<1>3. TypeOK'
  BY <1>1, LeavesClean DEF Inv, TypeOK, Keep, Tables
<1> QED
  BY <1>1, <1>2, <1>3, LeavesClean, LocalKeeps

(* A request that goes on to another step, with a lock more or none.        *)
LEMMA Moves ==
    ASSUME Inv, NEW t \in Requests, NEW s \in Steps, NEW w \in Work,
           Go(t, s), Choose(t, w), UNCHANGED answer, Keep,
           UNCHANGED owner \/ (Take(t) /\ at[t] \in Lockings)
    PROVE  /\ Local(t) /\ TypeOK'
           /\ at'[t] = s /\ work'[t] = w /\ answer'[t] = answer[t]
           /\ Kind(t)' = Kind(t) /\ CourseOf(t)' = CourseOf(t)
<1>1. TypeOK
  BY DEF Inv
<1>2. /\ at' \in [Requests -> Steps] /\ at'[t] = s
      /\ \A r \in Requests : r # t => at'[r] = at[r]
  BY <1>1 DEF Go, TypeOK
<1>3. /\ work' \in [Requests -> Work] /\ work'[t] = w
      /\ \A r \in Requests : r # t => work'[r] = work[r]
  BY <1>1 DEF Choose, TypeOK
<1>4. /\ owner' \in [Locks -> Requests \cup {None}]
      /\ \A l \in Locks : \A r \in Requests : r # t => (owner'[l] = r <=> owner[l] = r)
  BY <1>1, TakeTakes DEF TypeOK
<1>5. Local(t)
  BY <1>2, <1>3, <1>4 DEF Local, Keep
<1>6. TypeOK'
  BY <1>1, <1>2, <1>3, <1>4 DEF TypeOK, Keep, Tables
<1>7. Kind(t)' = Kind(t) /\ CourseOf(t)' = CourseOf(t)
  BY DEF Keep, Tables, Kind, CourseOf
<1> QED
  BY <1>2, <1>3, <1>5, <1>6, <1>7

(* A request that goes on with what it has chosen.                          *)
LEMMA Continues ==
    ASSUME Inv, NEW t \in Requests, NEW s \in Steps,
           Go(t, s), UNCHANGED <<work, answer>>, Keep,
           UNCHANGED owner \/ (Take(t) /\ at[t] \in Lockings)
    PROVE  /\ Local(t) /\ TypeOK'
           /\ at'[t] = s /\ work'[t] = work[t] /\ answer'[t] = answer[t]
           /\ Kind(t)' = Kind(t) /\ CourseOf(t)' = CourseOf(t)
<1> DEFINE w == work[t]
<1>1. w \in Work /\ Choose(t, w)
  BY DEF Inv, TypeOK, Choose
<1> HIDE DEF w
<1>2. /\ Local(t) /\ TypeOK'
      /\ at'[t] = s /\ work'[t] = w /\ answer'[t] = answer[t]
      /\ Kind(t)' = Kind(t) /\ CourseOf(t)' = CourseOf(t)
  BY <1>1, Moves
<1> QED
  BY <1>2 DEF w

-----------------------------------------------------------------------------
(* The steps that take a lock or read, one by one.                          *)
LEMMA BeginKeeps ==
    ASSUME Inv, NEW t \in Requests, Begin(t)
    PROVE  Inv'
<1>1. TypeOK /\ at[t] = "start" /\ RequestOK(t) /\ job[t] \in Job /\ Keep
  BY DEF Begin, Inv, TypeOK
<1>2. /\ \A l \in Locks : owner[l] # t
      /\ work[t] \in Work /\ work[t].to = None /\ work[t].settle = {} /\ work[t].todo = {}
      /\ ~ work[t].reopen /\ ~ work[t].fresh
      /\ work[t].insert = {} \/ Kind(t) = "verify"
  BY <1>1 DEF RequestOK, OwnsBelow, Undecided, Named, InCourse, InId, TypeOK
<1>3. CASE Finish(t, "refused")
  BY <1>1, <1>3, FinishKeeps DEF Answers
<1>4. CASE /\ Kind(t) = "verify" /\ runs[job[t].uuid] # None /\ Missing(t)
           /\ Go(t, "entry") /\ Choose(t, [work[t] EXCEPT !.insert = {work[t].id}])
           /\ UNCHANGED <<owner, answer>>
  <2> DEFINE w == [work[t] EXCEPT !.insert = {work[t].id}]
  <2>1. work[t].id = job[t].id /\ work[t].run = job[t].uuid
        /\ job[t].id \in Ids /\ job[t].uuid \in Uuids
    BY <1>1, <1>4, JobShape DEF RequestOK, Named, Kind
  <2>2. /\ w \in Work /\ w.insert = {work[t].id} /\ w.run = work[t].run /\ w.id = work[t].id
        /\ w.to = None /\ w.settle = {} /\ w.todo = {} /\ ~ w.reopen /\ ~ w.fresh
    BY <1>2, <2>1 DEF Work
  <2>3. "entry" \in Steps
    BY DEF Steps, Lockings
  <2>4. Choose(t, w)
    BY <1>4
  <2> HIDE DEF w
  <2>5. /\ Local(t) /\ TypeOK'
        /\ at'[t] = "entry" /\ work'[t] = w /\ answer'[t] = answer[t]
        /\ Kind(t)' = Kind(t) /\ CourseOf(t)' = CourseOf(t)
    BY <1>1, <1>4, <2>2, <2>3, <2>4, Moves
  <2>6. job' = job /\ runs' = runs /\ owner' = owner /\ source' = source
    BY <1>1, <1>4 DEF Keep, Tables
  <2>7. OnPath(t)' /\ Named(t)' /\ Undecided(t)'
    BY <1>4, <2>1, <2>2, <2>5, <2>6 DEF OnPath, Named, Undecided, InCourse, InId
  <2>8. Holding(t)' /\ OwnsBelow(t)'
    BY <1>2, <1>4, <2>2, <2>5, <2>6 DEF Holding, OwnsBelow, InCourse, InId
  <2>9. CourseOf(t) = runs[job[t].uuid]
    BY <1>4 DEF CourseOf
  <2>10. ReadsHold(t)'
    BY <1>4, <2>1, <2>2, <2>5, <2>6, <2>9 DEF ReadsHold, RunsRead, ClaimRead, RowRead,
      LinkRead, WaitRead
  <2>11. answer'[t] = "clash" => Kind(t) = "verify"
    BY <1>4
  <2> QED
    BY <2>5, <2>7, <2>8, <2>10, <2>11, LocalKeeps DEF RequestOK
<1>5. CASE /\ ~ (Kind(t) \in {"claim", "verify", "backfill"} /\ runs[job[t].uuid] = None)
           /\ ~ (Kind(t) = "verify" /\ Missing(t))
           /\ Go(t, IF Kind(t) = "upload" THEN "receipt" ELSE "course")
           /\ UNCHANGED <<work, owner, answer>>
  <2> DEFINE s == IF Kind(t) = "upload" THEN "receipt" ELSE "course"
  <2>1. s \in Steps /\ Go(t, s) /\ UNCHANGED <<work, answer>> /\ UNCHANGED owner
    BY <1>5 DEF Steps, Lockings
  <2>2. /\ s = "receipt" => Kind(t) = "upload"
        /\ s = "course" => Kind(t) # "upload"
        /\ s \in {"receipt", "course"}
    OBVIOUS
  <2> HIDE DEF s
  <2>3. /\ Local(t) /\ TypeOK'
        /\ at'[t] = s /\ work'[t] = work[t] /\ answer'[t] = answer[t]
        /\ Kind(t)' = Kind(t) /\ CourseOf(t)' = CourseOf(t)
    BY <1>1, <2>1, Continues
  <2>4. job' = job /\ runs' = runs /\ owner' = owner /\ source' = source /\ claims' = claims
    BY <1>1, <1>5 DEF Keep, Tables
  <2>5. OnPath(t)' /\ Named(t)' /\ Undecided(t)'
    BY <1>1, <1>2, <2>2, <2>3, <2>4 DEF RequestOK, OnPath, Named, Undecided, InCourse, InId
  <2>6. Holding(t)' /\ OwnsBelow(t)'
    BY <1>2, <2>2, <2>3, <2>4 DEF Holding, OwnsBelow, InCourse, InId
  <2>7. ReadsHold(t)'
    BY <1>1, <1>2, <1>5, <2>2, <2>3, <2>4 DEF RequestOK, ReadsHold, RunsRead, ClaimRead,
      RowRead, LinkRead, WaitRead, Missing
  <2>8. answer'[t] = "clash" => Kind(t) = "verify"
    BY <2>3 DEF Inv, NoDuplicate
  <2> QED
    BY <2>3, <2>5, <2>6, <2>7, <2>8, LocalKeeps DEF RequestOK
<1> QED
  BY <1>3, <1>4, <1>5 DEF Begin

LEMMA LockReceiptKeeps ==
    ASSUME Inv, NEW t \in Requests, LockReceipt(t)
    PROVE  Inv'
<1>1. TypeOK /\ at[t] = "receipt" /\ RequestOK(t) /\ job[t] \in Job /\ Keep
      /\ Kind(t) = "upload"
  BY DEF LockReceipt, Inv, TypeOK, RequestOK, OnPath
<1>2. CASE \E r \in {"ok", "refused"} : Finish(t, r)
  BY <1>1, <1>2, FinishKeeps DEF Answers
<1>3. CASE /\ receipts[job[t].key] = None
           /\ Take(t) /\ Go(t, "uuid") /\ UNCHANGED <<work, answer>>
  <2>1. "uuid" \in Steps /\ at[t] \in Lockings
    BY <1>1 DEF Steps, Lockings
  <2>2. /\ Local(t) /\ TypeOK'
        /\ at'[t] = "uuid" /\ work'[t] = work[t] /\ answer'[t] = answer[t]
        /\ Kind(t)' = Kind(t) /\ CourseOf(t)' = CourseOf(t)
    BY <1>1, <1>3, <2>1, Continues
  <2>3. job' = job /\ runs' = runs /\ receipts' = receipts
    BY <1>1 DEF Keep, Tables
  <2>4. /\ owner'[Wanted(t)] = t /\ Wanted(t) = <<"receipt", job[t].key>>
        /\ \A l \in Locks : l # Wanted(t) => owner'[l] = owner[l]
    BY <1>1, <1>3, <2>1, TakeTakes, WantedIs
  <2>5. /\ \A l \in Locks : owner[l] # t
        /\ work[t].to = None /\ work[t].settle = {} /\ work[t].todo = {}
        /\ ~ work[t].reopen /\ ~ work[t].fresh /\ work[t].insert = {}
    BY <1>1 DEF RequestOK, OwnsBelow, Undecided, Named, InCourse, InId
  <2>6. OnPath(t)' /\ Named(t)' /\ Undecided(t)'
    BY <1>1, <2>2, <2>3, <2>5 DEF RequestOK, OnPath, Named, Undecided, InCourse, InId
  <2>7. Holding(t)' /\ OwnsBelow(t)'
    BY <1>1, <2>2, <2>3, <2>4, <2>5 DEF Holding, OwnsBelow, InCourse, InId
  <2>8. ReadsHold(t)'
    BY <1>1, <1>3, <2>2, <2>3, <2>5 DEF ReadsHold, RunsRead, ClaimRead,
      RowRead, LinkRead, WaitRead
  <2>9. answer'[t] = "clash" => Kind(t) = "verify"
    BY <2>2 DEF Inv, NoDuplicate
  <2> QED
    BY <2>2, <2>6, <2>7, <2>8, <2>9, LocalKeeps DEF RequestOK
<1> QED
  BY <1>2, <1>3 DEF LockReceipt

LEMMA LockUuidKeeps ==
    ASSUME Inv, NEW t \in Requests, LockUuid(t)
    PROVE  Inv'
<1>1. TypeOK /\ at[t] = "uuid" /\ RequestOK(t) /\ job[t] \in Job /\ Keep
      /\ Kind(t) = "upload"
  BY DEF LockUuid, Inv, TypeOK, RequestOK, OnPath
<1>2. CASE Finish(t, "refused")
  BY <1>1, <1>2, FinishKeeps DEF Answers
<1>3. CASE /\ runs[work[t].run] = None
           /\ Take(t) /\ Go(t, "course") /\ UNCHANGED <<work, answer>>
  <2>1. "course" \in Steps /\ at[t] \in Lockings
    BY <1>1 DEF Steps, Lockings
  <2>2. /\ Local(t) /\ TypeOK'
        /\ at'[t] = "course" /\ work'[t] = work[t] /\ answer'[t] = answer[t]
        /\ Kind(t)' = Kind(t) /\ CourseOf(t)' = CourseOf(t)
    BY <1>1, <1>3, <2>1, Continues
  <2>3. job' = job /\ runs' = runs /\ receipts' = receipts
    BY <1>1 DEF Keep, Tables
  <2>4. /\ owner'[Wanted(t)] = t /\ Wanted(t) = <<"uuid", job[t].uuid>>
        /\ \A l \in Locks : l # Wanted(t) => owner'[l] = owner[l]
    BY <1>1, <1>3, <2>1, TakeTakes, WantedIs
  <2>5. /\ \A l \in Locks : owner[l] = t => l[1] = "receipt"
        /\ work[t].to = None /\ work[t].settle = {} /\ work[t].todo = {}
        /\ ~ work[t].reopen /\ ~ work[t].fresh /\ work[t].insert = {}
        /\ work[t].run = job[t].uuid
        /\ receipts[job[t].key] = None /\ owner[<<"receipt", job[t].key>>] = t
    BY <1>1 DEF RequestOK, OwnsBelow, Undecided, InCourse, InId, Named, Holding, ReadsHold,
      RunsRead
  <2>6. OnPath(t)' /\ Named(t)' /\ Undecided(t)'
    BY <1>1, <2>2, <2>3, <2>5 DEF RequestOK, OnPath, Named, Undecided, InCourse, InId
  <2>7. OwnsBelow(t)'
    BY <1>1, <2>2, <2>4, <2>5 DEF OwnsBelow
  <2>8. Holding(t)'
    <3>1. <<"receipt", job[t].key>> \in Locks
      BY <1>1, JobShape DEF Locks, Kind
    <3>2. owner'[<<"receipt", job[t].key>>] = t
      BY <2>4, <2>5, <3>1
    <3> QED
      BY <2>2, <2>3, <2>4, <2>5, <3>2 DEF Holding, InCourse, InId
  <2>9. ReadsHold(t)'
    BY <1>1, <1>3, <2>2, <2>3, <2>5 DEF ReadsHold, RunsRead, ClaimRead,
      RowRead, LinkRead, WaitRead
  <2>10. answer'[t] = "clash" => Kind(t) = "verify"
    BY <2>2 DEF Inv, NoDuplicate
  <2> QED
    BY <2>2, <2>6, <2>7, <2>8, <2>9, <2>10, LocalKeeps DEF RequestOK
<1> QED
  BY <1>2, <1>3 DEF LockUuid


LEMMA LockCourseUploadKeeps ==
    ASSUME Inv, NEW t \in Requests, LockCourseUpload(t)
    PROVE  Inv'
<1>1. TypeOK /\ at[t] = "course" /\ RequestOK(t) /\ job[t] \in Job /\ Keep
      /\ Kind(t) = "upload" /\ job[t].uuid \in Uuids /\ job[t].key \in Keys
      /\ work[t] \in Work
  BY JobShape DEF LockCourseUpload, Inv, TypeOK, RequestOK, Kind
<1>a. PICK M \in SUBSET {y \in Ids : source[y] = Mirror /\ home[y] = job[t].course} :
        \E y \in M \cup {None} :
           Choose(t, [work[t] EXCEPT !.insert = M, !.id = y,
                                     !.to = IF y = None THEN None ELSE work[t].run])
  BY DEF LockCourseUpload
<1>2. PICK x \in M \cup {None} :
        Choose(t, [work[t] EXCEPT !.insert = M, !.id = x,
                                  !.to = IF x = None THEN None ELSE work[t].run])
  BY <1>a
<1> DEFINE w == [work[t] EXCEPT !.insert = M, !.id = x,
                                !.to = IF x = None THEN None ELSE work[t].run]
<1>3. /\ work[t].to = None /\ work[t].settle = {} /\ work[t].todo = {}
      /\ ~ work[t].reopen /\ ~ work[t].fresh /\ work[t].run = job[t].uuid
      /\ runs[job[t].uuid] = None /\ receipts[job[t].key] = None
      /\ owner[<<"receipt", job[t].key>>] = t /\ owner[<<"uuid", job[t].uuid>>] = t
      /\ \A l \in Locks : owner[l] = t => l[1] \in {"receipt", "uuid"}
  BY <1>1 DEF RequestOK, OwnsBelow, Undecided, InCourse, InId, Named, Holding, ReadsHold,
    RunsRead
<1>4. /\ w \in Work /\ w.insert = M /\ w.run = work[t].run /\ w.id = x
      /\ w.to = (IF x = None THEN None ELSE work[t].run)
      /\ w.settle = {} /\ w.todo = {} /\ ~ w.reopen /\ ~ w.fresh
  <2>1. M \in SUBSET Ids /\ x \in Ids \cup {None}
    OBVIOUS
  <2> QED
    BY <1>1, <1>3, <2>1 DEF Work
<1>5. Choose(t, w)
  BY <1>2
<1> HIDE DEF w
<1>6. "player" \in Steps /\ at[t] \in Lockings
  BY <1>1 DEF Steps, Lockings
<1>7. Take(t) /\ Go(t, "player") /\ UNCHANGED answer
  BY DEF LockCourseUpload
<1>8. /\ Local(t) /\ TypeOK'
      /\ at'[t] = "player" /\ work'[t] = w /\ answer'[t] = answer[t]
      /\ Kind(t)' = Kind(t) /\ CourseOf(t)' = CourseOf(t)
  BY <1>1, <1>4, <1>5, <1>6, <1>7, Moves
<1>9. /\ job' = job /\ home' = home /\ runs' = runs /\ receipts' = receipts
      /\ source' = source /\ claims' = claims /\ pending' = pending
  BY <1>1 DEF Keep, Tables
<1>10. /\ owner'[Wanted(t)] = t /\ Wanted(t) = <<"course", CourseOf(t)>>
       /\ \A l \in Locks : l # Wanted(t) => owner'[l] = owner[l]
  BY <1>1, <1>6, <1>7, TakeTakes, WantedIs
<1>11. OnPath(t)' /\ Named(t)' /\ Undecided(t)'
  BY <1>1, <1>3, <1>4, <1>8, <1>9 DEF OnPath, Named, Undecided, InCourse, InId
<1>12. OwnsBelow(t)'
  BY <1>3, <1>8, <1>10 DEF OwnsBelow
<1>13. Holding(t)'
  <2>1. <<"receipt", job[t].key>> \in Locks /\ <<"uuid", job[t].uuid>> \in Locks
    BY <1>1 DEF Locks
  <2>2. owner'[<<"receipt", job[t].key>>] = t /\ owner'[<<"uuid", job[t].uuid>>] = t
    BY <1>3, <1>10, <2>1
  <2> QED
    BY <1>1, <1>4, <1>8, <1>9, <1>10, <2>2 DEF Holding, InId
<1>14. LinkRead(t)'
  <2>1. CASE x = None
    BY <1>4, <1>8, <2>1 DEF LinkRead
  <2>2. CASE x # None
    <3>1. x \in Ids /\ source[x] = Mirror /\ home[x] = job[t].course
      BY <2>2
    <3>2. CourseOf(t) = job[t].course
      BY <1>1 DEF CourseOf
    <3>3. \A y \in Ids : source[y] # job[t].uuid
      BY <1>1, <1>3, LocksAssumption DEF Inv, References, TypeOK
    <3>4. work'[t].to = job[t].uuid /\ work'[t].id = x
      BY <1>3, <1>4, <1>8, <2>2
    <3> QED
      BY <1>1, <1>8, <1>9, <3>1, <3>2, <3>3, <3>4 DEF LinkRead, Unlinked
  <2> QED
    BY <2>1, <2>2
<1>15. ReadsHold(t)'
  BY <1>1, <1>3, <1>4, <1>8, <1>9, <1>14 DEF ReadsHold, RunsRead, ClaimRead, RowRead, WaitRead
<1>16. answer'[t] = "clash" => Kind(t) = "verify"
  BY <1>8 DEF Inv, NoDuplicate
<1> QED
  BY <1>8, <1>11, <1>12, <1>13, <1>15, <1>16, LocalKeeps DEF RequestOK

LEMMA LockCourseKeeps ==
    ASSUME Inv, NEW t \in Requests, LockCourse(t)
    PROVE  Inv'
<1>1. TypeOK /\ at[t] = "course" /\ RequestOK(t) /\ job[t] \in Job /\ Keep
      /\ Kind(t) \in {"claim", "sync", "verify"} /\ work[t] \in Work
      /\ work[t].id = job[t].id /\ job[t].id \in Ids
  BY JobShape DEF LockCourse, Inv, TypeOK, RequestOK, Kind, Named
<1>2. "id" \in Steps /\ at[t] \in Lockings
  BY <1>1 DEF Steps, Lockings
<1>3. Take(t) /\ Go(t, "id") /\ UNCHANGED <<work, answer>>
  BY DEF LockCourse
<1>4. /\ Local(t) /\ TypeOK'
      /\ at'[t] = "id" /\ work'[t] = work[t] /\ answer'[t] = answer[t]
      /\ Kind(t)' = Kind(t) /\ CourseOf(t)' = CourseOf(t)
  BY <1>1, <1>2, <1>3, Continues
<1>5. /\ job' = job /\ home' = home /\ runs' = runs /\ receipts' = receipts
      /\ source' = source /\ claims' = claims /\ pending' = pending
  BY <1>1 DEF Keep, Tables
<1>6. /\ owner'[Wanted(t)] = t /\ Wanted(t) = <<"course", CourseOf(t)>>
      /\ \A l \in Locks : l # Wanted(t) => owner'[l] = owner[l]
  BY <1>1, <1>2, <1>3, TakeTakes, WantedIs
<1>7. /\ work[t].to = None /\ work[t].settle = {} /\ work[t].todo = {}
      /\ ~ work[t].reopen /\ ~ work[t].fresh
      /\ Kind(t) # "verify" => work[t].insert = {} /\ \A l \in Locks : owner[l] # t
  BY <1>1 DEF RequestOK, OwnsBelow, Undecided, Named, InCourse, InId
<1>8. OnPath(t)' /\ Named(t)' /\ Undecided(t)'
  BY <1>1, <1>4, <1>5, <1>7 DEF RequestOK, OnPath, Named, Undecided, InCourse, InId
<1>9. OwnsBelow(t)'
  BY <1>4, <1>6, <1>7 DEF OwnsBelow
<1>10. Holding(t)'
  BY <1>1, <1>4, <1>5, <1>6, <1>7 DEF Holding, InId
<1>11. ReadsHold(t)'
  BY <1>1, <1>4, <1>5, <1>7 DEF RequestOK, ReadsHold, RunsRead, ClaimRead,
      RowRead, LinkRead, WaitRead
<1>12. answer'[t] = "clash" => Kind(t) = "verify"
  BY <1>4 DEF Inv, NoDuplicate
<1> QED
  BY <1>4, <1>8, <1>9, <1>10, <1>11, <1>12, LocalKeeps DEF RequestOK

LEMMA LockCourseBackfillKeeps ==
    ASSUME Inv, NEW t \in Requests, LockCourseBackfill(t)
    PROVE  Inv'
<1>1. TypeOK /\ at[t] = "course" /\ RequestOK(t) /\ job[t] \in Job /\ Keep
      /\ Kind(t) = "backfill" /\ work[t] \in Work
      /\ work[t].run = job[t].uuid /\ job[t].uuid \in Uuids /\ runs[job[t].uuid] # None
  BY JobShape DEF LockCourseBackfill, Inv, TypeOK, RequestOK, Kind, Named, ReadsHold, RunsRead
<1>2. CASE Finish(t, "ok")
  BY <1>1, <1>2, FinishKeeps DEF Answers
<1>3. ASSUME Take(t), Go(t, "id"), UNCHANGED answer,
             NEW x \in Ids, Mergeable(work[t].run, x),
             Choose(t, [work[t] EXCEPT !.id = x, !.to = work[t].run,
                                       !.settle = {work[t].run}])
      PROVE  Inv'
  <2> DEFINE w == [work[t] EXCEPT !.id = x, !.to = work[t].run, !.settle = {work[t].run}]
  <2>1. /\ work[t].todo = {} /\ work[t].insert = {}
        /\ ~ work[t].reopen /\ ~ work[t].fresh /\ \A l \in Locks : owner[l] # t
    BY <1>1 DEF RequestOK, OwnsBelow, Undecided, Named, InCourse, InId
  <2>2. /\ w \in Work /\ w.insert = {} /\ w.run = job[t].uuid /\ w.id = x
        /\ w.to = job[t].uuid /\ w.settle = {job[t].uuid} /\ w.todo = {}
        /\ ~ w.reopen /\ ~ w.fresh
    BY <1>1, <2>1 DEF Work
  <2>3. Choose(t, w)
    BY <1>3
  <2> HIDE DEF w
  <2>4. "id" \in Steps /\ at[t] \in Lockings
    BY <1>1 DEF Steps, Lockings
  <2>5. /\ Local(t) /\ TypeOK'
        /\ at'[t] = "id" /\ work'[t] = w /\ answer'[t] = answer[t]
        /\ Kind(t)' = Kind(t) /\ CourseOf(t)' = CourseOf(t)
    BY <1>1, <1>3, <2>2, <2>3, <2>4, Moves
  <2>6. /\ job' = job /\ home' = home /\ runs' = runs /\ receipts' = receipts
        /\ source' = source /\ claims' = claims /\ pending' = pending
    BY <1>1 DEF Keep, Tables
  <2>7. /\ owner'[Wanted(t)] = t /\ Wanted(t) = <<"course", CourseOf(t)>>
        /\ \A l \in Locks : l # Wanted(t) => owner'[l] = owner[l]
    BY <1>1, <1>3, <2>4, TakeTakes, WantedIs
  <2>8. OnPath(t)' /\ Named(t)' /\ Undecided(t)'
    BY <1>1, <2>2, <2>5, <2>6 DEF OnPath, Named, Undecided, InCourse, InId
  <2>9. OwnsBelow(t)'
    BY <2>1, <2>5, <2>7 DEF OwnsBelow
  <2>10. CourseOf(t) = runs[job[t].uuid]
    BY <1>1 DEF CourseOf
  <2>11. Holding(t)'
    BY <1>1, <2>2, <2>5, <2>6, <2>7, <2>10 DEF Holding, InId
  <2>12. ReadsHold(t)'
    BY <1>1, <1>3, <2>2, <2>5, <2>6, <2>10 DEF ReadsHold, RunsRead, ClaimRead,
        RowRead, LinkRead, WaitRead, Mergeable, Unlinked
  <2>13. answer'[t] = "clash" => Kind(t) = "verify"
    BY <2>5 DEF Inv, NoDuplicate
  <2> QED
    BY <2>5, <2>8, <2>9, <2>11, <2>12, <2>13, LocalKeeps DEF RequestOK
<1> QED
  BY <1>2, <1>3 DEF LockCourseBackfill


LEMMA LockIdKeeps ==
    ASSUME Inv, NEW t \in Requests, LockId(t)
    PROVE  Inv'
<1>1. /\ TypeOK /\ at[t] = "id" /\ RequestOK(t) /\ job[t] \in Job /\ Keep
      /\ work[t] \in Work /\ work[t].id \in Ids
      /\ Kind(t) \in {"claim", "verify", "backfill", "sync"}
      /\ Kind(t) \in {"claim", "verify", "backfill"} =>
           work[t].run = job[t].uuid /\ job[t].uuid \in Uuids
  <2>1. /\ TypeOK /\ at[t] = "id" /\ RequestOK(t) /\ job[t] \in Job /\ Keep
        /\ work[t] \in Work
    BY DEF LockId, Inv, TypeOK
  <2>2. Kind(t) \in {"claim", "verify", "backfill", "sync"}
    BY <2>1, JobShape DEF RequestOK, Kind, OnPath
  <2>3. Kind(t) # "sync" => job[t].uuid \in Uuids
    BY <2>1, <2>2, JobShape DEF Kind
  <2>4. work[t].id \in Ids /\ (Kind(t) # "sync" => work[t].run = job[t].uuid)
    BY <2>1, <2>2 DEF RequestOK, Named, InCourse
  <2> QED
    BY <2>1, <2>2, <2>3, <2>4
<1>2. at[t] \in Lockings /\ Take(t) /\ UNCHANGED answer
  BY <1>1 DEF Lockings, LockId
<1>3. /\ job' = job /\ home' = home /\ runs' = runs /\ receipts' = receipts
      /\ source' = source /\ claims' = claims /\ pending' = pending
  BY <1>1 DEF Keep, Tables
<1>4. /\ owner'[Wanted(t)] = t /\ Wanted(t) = <<"id", work[t].id>>
      /\ \A l \in Locks : l # Wanted(t) => owner'[l] = owner[l]
  BY <1>1, <1>2, TakeTakes, WantedIs
<1>5. /\ work[t].todo = {} /\ ~ work[t].reopen /\ ~ work[t].fresh
      /\ Kind(t) # "verify" => \A l \in Locks : owner[l] = t => l[1] = "course"
      /\ owner'[<<"course", CourseOf(t)>>] = t
      /\ \A v \in work[t].settle : runs[v] # None /\ owner'[<<"course", runs[v]>>] = t
  BY <1>1, <1>4, HeldAreLocks DEF RequestOK, OwnsBelow, Undecided, Named, InCourse, InId, Holding
<1>6. CASE /\ Kind(t) \in {"claim", "backfill"} /\ Missing(t)
           /\ Go(t, "entry") /\ Choose(t, [work[t] EXCEPT !.insert = {work[t].id}])
  <2> DEFINE w == [work[t] EXCEPT !.insert = {work[t].id}]
  <2>1. /\ w \in Work /\ w.insert = {work[t].id} /\ w.run = work[t].run /\ w.id = work[t].id
        /\ w.to = work[t].to /\ w.settle = work[t].settle /\ w.todo = {}
        /\ ~ w.reopen /\ ~ w.fresh
    BY <1>1, <1>5 DEF Work
  <2>2. "entry" \in Steps /\ Choose(t, w)
    BY <1>6 DEF Steps, Lockings
  <2> HIDE DEF w
  <2>3. /\ Local(t) /\ TypeOK'
        /\ at'[t] = "entry" /\ work'[t] = w /\ answer'[t] = answer[t]
        /\ Kind(t)' = Kind(t) /\ CourseOf(t)' = CourseOf(t)
    BY <1>1, <1>2, <1>6, <2>1, <2>2, Moves
  <2>4. OnPath(t)' /\ Named(t)' /\ Undecided(t)'
    BY <1>1, <1>3, <1>6, <2>1, <2>3 DEF RequestOK, OnPath, Named, Undecided, InCourse, InId
  <2>5. Holding(t)' /\ OwnsBelow(t)'
    BY <1>3, <1>4, <1>5, <1>6, <2>1, <2>3 DEF Holding, OwnsBelow, InCourse, InId
  <2>6. CourseOf(t) = runs[job[t].uuid]
    BY <1>6 DEF CourseOf
  <2>7. ReadsHold(t)'
    BY <1>1, <1>3, <1>6, <2>1, <2>3, <2>6 DEF RequestOK, ReadsHold, RunsRead, ClaimRead,
      RowRead, LinkRead, WaitRead, Missing, Unlinked
  <2>8. answer'[t] = "clash" => Kind(t) = "verify"
    BY <2>3 DEF Inv, NoDuplicate
  <2> QED
    BY <2>3, <2>4, <2>5, <2>7, <2>8, LocalKeeps DEF RequestOK
<1>7. CASE /\ ~ (Kind(t) \in {"claim", "backfill"} /\ Missing(t))
           /\ Go(t, AfterId(t)) /\ UNCHANGED work
  <2> DEFINE s == AfterId(t)
  <2>1. /\ s \in Steps /\ s \in {"player", "decide", "commit"}
        /\ s = "player" => Kind(t) = "sync"
        /\ s = "decide" => Kind(t) \in {"claim", "verify"}
        /\ s = "commit" => Kind(t) = "backfill"
    BY <1>1 DEF AfterId, Steps, Lockings
  <2>2. Go(t, s)
    BY <1>7
  <2> HIDE DEF s
  <2>3. /\ Local(t) /\ TypeOK'
        /\ at'[t] = s /\ work'[t] = work[t] /\ answer'[t] = answer[t]
        /\ Kind(t)' = Kind(t) /\ CourseOf(t)' = CourseOf(t)
    BY <1>1, <1>2, <1>7, <2>1, <2>2, Continues
  <2>4. OnPath(t)' /\ Named(t)' /\ Undecided(t)'
    BY <1>1, <1>3, <1>5, <2>1, <2>3 DEF RequestOK, OnPath, Named, Undecided, InCourse, InId
  <2>5. Holding(t)'
    BY <1>1, <1>3, <1>4, <1>5, <2>3 DEF Holding, InCourse, InId
  <2>6. OwnsBelow(t)'
    BY <1>4, <1>5, <2>1, <2>3 DEF OwnsBelow
  <2>7. ReadsHold(t)'
    BY <1>1, <1>3, <1>5, <1>7, <2>1, <2>3 DEF RequestOK, ReadsHold, RunsRead, ClaimRead,
      RowRead, LinkRead, WaitRead, Missing, Unlinked
  <2>8. answer'[t] = "clash" => Kind(t) = "verify"
    BY <2>3 DEF Inv, NoDuplicate
  <2> QED
    BY <2>3, <2>4, <2>5, <2>6, <2>7, <2>8, LocalKeeps DEF RequestOK
<1> QED
  BY <1>6, <1>7 DEF LockId

LEMMA LockEntryKeeps ==
    ASSUME Inv, NEW t \in Requests, LockEntry(t)
    PROVE  Inv'
<1>1. TypeOK /\ at[t] = "entry" /\ RequestOK(t) /\ job[t] \in Job /\ Keep
      /\ work[t] \in Work /\ work[t].insert = {work[t].id}
      /\ Kind(t) \in {"claim", "verify", "backfill", "sync"}
  BY JobShape DEF LockEntry, Inv, TypeOK, RequestOK, Kind, OnPath, ReadsHold, ClaimRead
<1>2. CASE Finish(t, "clash") /\ ~ Missing(t)
  <2>1. Kind(t) = "verify"
    BY <1>1, <1>2 DEF RequestOK, ReadsHold, ClaimRead, Missing
  <2> QED
    BY <1>1, <1>2, <2>1, FinishKeeps DEF Answers
<1>3. CASE /\ Missing(t) /\ Take(t) /\ UNCHANGED <<work, answer>>
           /\ Go(t, IF Kind(t) = "verify" THEN "course"
                    ELSE IF Kind(t) = "claim" THEN "decide" ELSE "commit")
  <2> DEFINE s == IF Kind(t) = "verify" THEN "course"
                  ELSE IF Kind(t) = "claim" THEN "decide" ELSE "commit"
  <2>1. /\ s \in Steps /\ s \in {"course", "decide", "commit"}
        /\ s = "course" <=> Kind(t) = "verify"
        /\ s = "decide" <=> Kind(t) = "claim"
    BY DEF Steps, Lockings
  <2>2. Go(t, s) /\ at[t] \in Lockings
    BY <1>1, <1>3 DEF Lockings
  <2> HIDE DEF s
  <2>3. /\ Local(t) /\ TypeOK'
        /\ at'[t] = s /\ work'[t] = work[t] /\ answer'[t] = answer[t]
        /\ Kind(t)' = Kind(t) /\ CourseOf(t)' = CourseOf(t)
    BY <1>1, <1>3, <2>1, <2>2, Continues
  <2>4. /\ job' = job /\ home' = home /\ runs' = runs /\ receipts' = receipts
        /\ source' = source /\ claims' = claims /\ pending' = pending
    BY <1>1 DEF Keep, Tables
  <2>5. /\ owner'[Wanted(t)] = t /\ Wanted(t)[1] = "entry"
        /\ \A l \in Locks : l # Wanted(t) => owner'[l] = owner[l]
    BY <1>1, <1>3, <2>2, TakeTakes, WantedIs
  <2>6. OnPath(t)' /\ Named(t)' /\ Undecided(t)'
    BY <1>1, <2>1, <2>3, <2>4 DEF RequestOK, OnPath, Named, Undecided, InCourse, InId
  <2>7. Holding(t)'
    BY <1>1, <2>1, <2>3, <2>4, <2>5, HeldAreLocks DEF RequestOK, Holding, InCourse, InId
  <2>8. OwnsBelow(t)'
    BY <2>1, <2>3, <2>5 DEF OwnsBelow
  <2>9. ReadsHold(t)'
    BY <1>1, <2>1, <2>3, <2>4 DEF RequestOK, ReadsHold, RunsRead, ClaimRead,
      RowRead, LinkRead, WaitRead, Unlinked
  <2>10. answer'[t] = "clash" => Kind(t) = "verify"
    BY <2>3 DEF Inv, NoDuplicate
  <2> QED
    BY <2>3, <2>6, <2>7, <2>8, <2>9, <2>10, LocalKeeps DEF RequestOK
<1> QED
  BY <1>2, <1>3 DEF LockEntry


LEMMA DecideKeeps ==
    ASSUME Inv, NEW t \in Requests, Decide(t)
    PROVE  Inv'
<1>1. /\ TypeOK /\ at[t] = "decide" /\ RequestOK(t) /\ job[t] \in Job /\ Keep
      /\ work[t] \in Work /\ Kind(t) \in {"claim", "verify"}
      /\ UNCHANGED <<owner, answer>> /\ Go(t, "commit")
  BY DEF Decide, Inv, TypeOK, RequestOK, OnPath
<1>2. /\ work[t].run = job[t].uuid /\ job[t].uuid \in Uuids
      /\ work[t].id = job[t].id /\ job[t].id \in Ids
      /\ runs[job[t].uuid] # None /\ CourseOf(t) = runs[job[t].uuid]
  BY <1>1, JobShape DEF RequestOK, Named, Kind, ReadsHold, RunsRead, CourseOf
<1>3. /\ job' = job /\ home' = home /\ runs' = runs /\ receipts' = receipts
      /\ source' = source /\ claims' = claims /\ pending' = pending /\ owner' = owner
  BY <1>1 DEF Keep, Tables
<1>4. /\ work[t].todo = {} /\ ~ work[t].reopen /\ ~ work[t].fresh
      /\ owner[<<"course", CourseOf(t)>>] = t /\ owner[<<"id", work[t].id>>] = t
      /\ \A v \in work[t].settle : runs[v] # None /\ owner[<<"course", runs[v]>>] = t
  <2>1. ~ work[t].fresh
    BY <1>1 DEF RequestOK, ReadsHold, RowRead
  <2> QED
    BY <1>1, <2>1 DEF RequestOK, Undecided, Named, InCourse, InId, Holding
<1>5. "commit" \in Steps
  BY DEF Steps, Lockings
<1>6. ASSUME NEW w \in Work, Choose(t, w),
             w.run = work[t].run, w.id = work[t].id, w.insert = work[t].insert,
             w.fresh = work[t].fresh, w.todo = work[t].todo,
             w.reopen => source[work[t].id] = None,
             \A v \in w.settle : runs[v] # None /\ owner[<<"course", runs[v]>>] = t,
             \/ w.to = work[t].to
             \/ w.to = None
             \/ w.to = work[t].run /\ Mergeable(work[t].run, work[t].id)
      PROVE  Inv'
  <2>1. /\ Local(t) /\ TypeOK'
        /\ at'[t] = "commit" /\ work'[t] = w /\ answer'[t] = answer[t]
        /\ Kind(t)' = Kind(t) /\ CourseOf(t)' = CourseOf(t)
    BY <1>1, <1>5, <1>6, Moves
  <2>2. OnPath(t)' /\ Named(t)' /\ Undecided(t)'
    BY <1>1, <1>2, <1>3, <1>4, <1>6, <2>1 DEF OnPath, Named, Undecided, InCourse, InId
  <2>3. Holding(t)' /\ OwnsBelow(t)'
    BY <1>1, <1>3, <1>4, <1>6, <2>1 DEF Holding, OwnsBelow, InCourse, InId
  <2>4. LinkRead(t)'
    BY <1>1, <1>2, <1>3, <1>6, <2>1 DEF RequestOK, ReadsHold, LinkRead, Mergeable, Unlinked
  <2>5. ReadsHold(t)'
    BY <1>1, <1>2, <1>3, <1>4, <1>6, <2>1, <2>4 DEF RequestOK, ReadsHold, RunsRead, ClaimRead,
      RowRead, WaitRead
  <2>6. answer'[t] = "clash" => Kind(t) = "verify"
    BY <2>1 DEF Inv, NoDuplicate
  <2> QED
    BY <2>1, <2>2, <2>3, <2>5, <2>6, LocalKeeps DEF RequestOK
<1>7. CASE /\ source[work[t].id] = None
           /\ Choose(t, [work[t] EXCEPT !.reopen = TRUE])
  <2> DEFINE w == [work[t] EXCEPT !.reopen = TRUE]
  <2>1. /\ w \in Work /\ w.run = work[t].run /\ w.id = work[t].id /\ w.insert = work[t].insert
        /\ w.fresh = work[t].fresh /\ w.todo = work[t].todo /\ w.settle = work[t].settle
        /\ w.to = work[t].to
    BY <1>1 DEF Work
  <2>2. Choose(t, w)
    BY <1>7
  <2> HIDE DEF w
  <2> QED
    BY <1>4, <1>6, <1>7, <2>1, <2>2
<1>8. ASSUME NEW v \in {None, work[t].run}, v = work[t].run => Mergeable(work[t].run, work[t].id),
             Choose(t, [work[t] EXCEPT !.settle = {work[t].run}, !.to = v])
      PROVE  Inv'
  <2> DEFINE w == [work[t] EXCEPT !.settle = {work[t].run}, !.to = v]
  <2>1. /\ w \in Work /\ w.run = work[t].run /\ w.id = work[t].id /\ w.insert = work[t].insert
        /\ w.fresh = work[t].fresh /\ w.todo = work[t].todo /\ w.settle = {work[t].run}
        /\ w.to = v /\ w.reopen = work[t].reopen
    BY <1>1, <1>2 DEF Work
  <2>2. Choose(t, w)
    BY <1>8
  <2> HIDE DEF w
  <2>3. \A z \in w.settle : runs[z] # None /\ owner[<<"course", runs[z]>>] = t
    BY <1>2, <1>4, <2>1
  <2>4. w.to = None \/ (w.to = work[t].run /\ Mergeable(work[t].run, work[t].id))
    BY <1>8, <2>1
  <2> QED
    BY <1>4, <1>6, <2>1, <2>2, <2>3, <2>4
<1> QED
  BY <1>7, <1>8 DEF Decide

LEMMA LockPlayerKeeps ==
    ASSUME Inv, NEW t \in Requests, LockPlayer(t)
    PROVE  Inv'
<1>1. /\ TypeOK /\ at[t] = "player" /\ RequestOK(t) /\ job[t] \in Job /\ Keep
      /\ work[t] \in Work /\ Kind(t) \in {"upload", "sync"}
      /\ Take(t) /\ UNCHANGED <<work, answer>> /\ at[t] \in Lockings
  BY DEF LockPlayer, Inv, TypeOK, RequestOK, OnPath, Lockings
<1>2. /\ job' = job /\ home' = home /\ runs' = runs /\ receipts' = receipts
      /\ source' = source /\ claims' = claims /\ pending' = pending
  BY <1>1 DEF Keep, Tables
<1> DEFINE s == IF Kind(t) = "upload" THEN "commit" ELSE "resolve"
<1>3. /\ s \in Steps /\ s \in {"commit", "resolve"}
      /\ s = "commit" <=> Kind(t) = "upload"
      /\ Go(t, s)
  BY DEF Steps, Lockings, LockPlayer
<1> HIDE DEF s
<1>4. /\ Local(t) /\ TypeOK'
      /\ at'[t] = s /\ work'[t] = work[t] /\ answer'[t] = answer[t]
      /\ Kind(t)' = Kind(t) /\ CourseOf(t)' = CourseOf(t)
  BY <1>1, <1>3, Continues
<1>5. /\ owner'[Wanted(t)] = t /\ Wanted(t)[1] = "player"
      /\ \A l \in Locks : l # Wanted(t) => owner'[l] = owner[l]
  BY <1>1, TakeTakes, WantedIs
<1>6. OnPath(t)' /\ Named(t)' /\ Undecided(t)'
  BY <1>1, <1>2, <1>3, <1>4 DEF RequestOK, OnPath, Named, Undecided, InCourse, InId
<1>7. Holding(t)'
  BY <1>1, <1>2, <1>3, <1>4, <1>5, HeldAreLocks DEF RequestOK, Holding, InCourse, InId
<1>8. OwnsBelow(t)'
  BY <1>1, <1>3, <1>4, <1>5 DEF RequestOK, OwnsBelow
<1>9. ReadsHold(t)'
  BY <1>1, <1>2, <1>3, <1>4 DEF RequestOK, ReadsHold, RunsRead, ClaimRead,
    RowRead, LinkRead, WaitRead, Unlinked
<1>10. answer'[t] = "clash" => Kind(t) = "verify"
  BY <1>4 DEF Inv, NoDuplicate
<1> QED
  BY <1>4, <1>6, <1>7, <1>8, <1>9, <1>10, LocalKeeps DEF RequestOK

LEMMA ResolveNativeKeeps ==
    ASSUME Inv, NEW t \in Requests, ResolveNative(t)
    PROVE  Inv'
<1>1. /\ TypeOK /\ at[t] = "resolve" /\ RequestOK(t) /\ job[t] \in Job /\ Keep
      /\ work[t] \in Work /\ Kind(t) = "sync" /\ UNCHANGED <<owner, answer>>
      /\ CourseOf(t) = home[job[t].id]
  BY DEF ResolveNative, Inv, TypeOK, RequestOK, OnPath, CourseOf
<1>2. /\ job' = job /\ home' = home /\ runs' = runs /\ receipts' = receipts
      /\ source' = source /\ claims' = claims /\ pending' = pending /\ owner' = owner
  BY <1>1 DEF Keep, Tables
<1>3. /\ work[t].id = job[t].id /\ work[t].id \in Ids
      /\ work[t].todo = {} /\ ~ work[t].reopen /\ work[t].insert = {}
      /\ owner[<<"course", CourseOf(t)>>] = t /\ owner[<<"id", work[t].id>>] = t
  BY <1>1 DEF RequestOK, Named, Undecided, Holding, InCourse, InId
<1>4. CASE Go(t, "commit") /\ UNCHANGED work
  <2>1. "commit" \in Steps
    BY DEF Steps, Lockings
  <2>2. /\ Local(t) /\ TypeOK'
        /\ at'[t] = "commit" /\ work'[t] = work[t] /\ answer'[t] = answer[t]
        /\ Kind(t)' = Kind(t) /\ CourseOf(t)' = CourseOf(t)
    BY <1>1, <1>4, <2>1, Continues
  <2>3. OnPath(t)' /\ Named(t)' /\ Undecided(t)'
    BY <1>1, <1>2, <1>3, <2>2 DEF RequestOK, OnPath, Named, Undecided, InCourse, InId
  <2>4. Holding(t)' /\ OwnsBelow(t)'
    BY <1>1, <1>2, <2>2 DEF RequestOK, Holding, OwnsBelow, InCourse, InId
  <2>5. ReadsHold(t)'
    BY <1>1, <1>2, <1>3, <2>2 DEF RequestOK, ReadsHold, RunsRead, ClaimRead,
      RowRead, LinkRead, WaitRead, Unlinked
  <2>6. answer'[t] = "clash" => Kind(t) = "verify"
    BY <2>2 DEF Inv, NoDuplicate
  <2> QED
    BY <2>2, <2>3, <2>4, <2>5, <2>6, LocalKeeps DEF RequestOK
<1>5. ASSUME source[work[t].id] = None,
             NEW u \in Uuids, runs[u] = home[work[t].id], Unlinked(u),
             NEW new \in SUBSET {work[t].id},
             new = {work[t].id} <=> <<u, work[t].id>> \notin claims,
             Choose(t, [work[t] EXCEPT !.run = u, !.to = u, !.settle = {u},
                                       !.fresh = TRUE, !.insert = new]),
             Go(t, IF new = {} THEN "commit" ELSE "entry")
      PROVE  Inv'
  <2> DEFINE w == [work[t] EXCEPT !.run = u, !.to = u, !.settle = {u},
                                  !.fresh = TRUE, !.insert = new]
             s == IF new = {} THEN "commit" ELSE "entry"
  <2>1. /\ w \in Work /\ w.run = u /\ w.to = u /\ w.settle = {u} /\ w.fresh /\ w.insert = new
        /\ w.id = work[t].id /\ w.todo = {} /\ ~ w.reopen
    BY <1>1, <1>3, <1>5 DEF Work
  <2>2. /\ s \in Steps /\ s \in {"commit", "entry"}
        /\ s = "entry" => new = {work[t].id}
        /\ new # {} => new = {work[t].id}
    BY <1>5 DEF Steps, Lockings
  <2>3. Choose(t, w) /\ Go(t, s)
    BY <1>5
  <2> HIDE DEF w, s
  <2>4. /\ Local(t) /\ TypeOK'
        /\ at'[t] = s /\ work'[t] = w /\ answer'[t] = answer[t]
        /\ Kind(t)' = Kind(t) /\ CourseOf(t)' = CourseOf(t)
    BY <1>1, <2>1, <2>2, <2>3, Moves
  <2>5. OnPath(t)' /\ Named(t)' /\ Undecided(t)'
    BY <1>1, <1>2, <1>3, <1>5, <2>1, <2>2, <2>4 DEF OnPath, Named, Undecided, InCourse, InId
  <2>6. home[work[t].id] # None
    BY <1>1, <1>3, LocksAssumption DEF TypeOK
  <2>7. Holding(t)' /\ OwnsBelow(t)'
    BY <1>1, <1>2, <1>3, <1>5, <2>1, <2>2, <2>4, <2>6 DEF RequestOK, Holding, OwnsBelow,
      InCourse, InId
  <2>8. ReadsHold(t)'
    BY <1>1, <1>2, <1>3, <1>5, <2>1, <2>2, <2>4, LocksAssumption DEF ReadsHold, RunsRead,
      ClaimRead, RowRead, LinkRead, WaitRead, Unlinked
  <2>9. answer'[t] = "clash" => Kind(t) = "verify"
    BY <2>4 DEF Inv, NoDuplicate
  <2> QED
    BY <2>4, <2>5, <2>7, <2>8, <2>9, LocalKeeps DEF RequestOK
<1> QED
  BY <1>4, <1>5 DEF ResolveNative


LEMMA ResolveMirrorKeeps ==
    ASSUME Inv, NEW t \in Requests, ResolveMirror(t)
    PROVE  Inv'
<1>1. /\ TypeOK /\ at[t] = "resolve" /\ RequestOK(t) /\ job[t] \in Job /\ Keep
      /\ work[t] \in Work /\ Kind(t) = "sync" /\ UNCHANGED <<owner, answer>>
      /\ CourseOf(t) = home[job[t].id] /\ Go(t, "claims")
      /\ source[work[t].id] \in {None, Mirror}
  BY DEF ResolveMirror, Inv, TypeOK, RequestOK, OnPath, CourseOf
<1> DEFINE waiting == {u \in Uuids : <<u, work[t].id>> \in pending}
<1>2. PICK S \in SUBSET {u \in waiting : runs[u] = home[work[t].id]} :
        Choose(t, [work[t] EXCEPT !.settle = S, !.todo = waiting \ S,
                                  !.fresh = (source[work[t].id] = None)])
  BY DEF ResolveMirror
<1> DEFINE w == [work[t] EXCEPT !.settle = S, !.todo = waiting \ S,
                                !.fresh = (source[work[t].id] = None)]
<1>3. /\ job' = job /\ home' = home /\ runs' = runs /\ receipts' = receipts
      /\ source' = source /\ claims' = claims /\ pending' = pending /\ owner' = owner
  BY <1>1 DEF Keep, Tables
<1>4. /\ work[t].id = job[t].id /\ work[t].id \in Ids
      /\ ~ work[t].reopen /\ work[t].insert = {}
      /\ owner[<<"course", CourseOf(t)>>] = t /\ owner[<<"id", work[t].id>>] = t
  BY <1>1 DEF RequestOK, Named, Undecided, Holding, InCourse, InId
<1>5. /\ S \in SUBSET Uuids /\ \A u \in S : runs[u] = home[work[t].id]
      /\ \A u \in waiting : runs[u] # None
  BY <1>1, <1>4 DEF TypeOK, Inv, References
<1>6. /\ w \in Work /\ w.settle = S /\ w.todo = waiting \ S
      /\ (w.fresh <=> source[work[t].id] = None)
      /\ w.run = work[t].run /\ w.id = work[t].id /\ w.to = work[t].to
      /\ w.insert = {} /\ ~ w.reopen
  BY <1>1, <1>4, <1>5 DEF Work
<1>7. Choose(t, w)
  BY <1>2
<1> HIDE DEF w
<1>8. "claims" \in Steps
  BY DEF Steps, Lockings
<1>9. /\ Local(t) /\ TypeOK'
      /\ at'[t] = "claims" /\ work'[t] = w /\ answer'[t] = answer[t]
      /\ Kind(t)' = Kind(t) /\ CourseOf(t)' = CourseOf(t)
  BY <1>1, <1>6, <1>7, <1>8, Moves
<1>10. OnPath(t)' /\ Named(t)' /\ Undecided(t)'
  BY <1>1, <1>3, <1>4, <1>5, <1>6, <1>9 DEF OnPath, Named, Undecided, InCourse, InId
<1>11. home[work[t].id] # None
  BY <1>1, <1>4, LocksAssumption DEF TypeOK
<1>12. Holding(t)' /\ OwnsBelow(t)'
  BY <1>1, <1>3, <1>4, <1>5, <1>6, <1>9, <1>11 DEF Holding, OwnsBelow, InCourse, InId
<1>13. LinkRead(t)' /\ RowRead(t)'
  BY <1>1, <1>3, <1>6, <1>9 DEF RequestOK, ReadsHold, LinkRead, RowRead, Unlinked
<1>14. WaitRead(t)'
  BY <1>3, <1>6, <1>9 DEF WaitRead
<1>15. ReadsHold(t)'
  BY <1>1, <1>6, <1>9, <1>13, <1>14 DEF ReadsHold, RunsRead, ClaimRead
<1>16. answer'[t] = "clash" => Kind(t) = "verify"
  BY <1>9 DEF Inv, NoDuplicate
<1> QED
  BY <1>9, <1>10, <1>12, <1>15, <1>16, LocalKeeps DEF RequestOK

LEMMA NextClaimKeeps ==
    ASSUME Inv, NEW t \in Requests, NextClaim(t)
    PROVE  Inv'
<1>1. /\ TypeOK /\ at[t] = "claims" /\ RequestOK(t) /\ job[t] \in Job /\ Keep
      /\ work[t] \in Work /\ Kind(t) = "sync" /\ UNCHANGED <<owner, answer>>
  BY DEF NextClaim, Inv, TypeOK, RequestOK, OnPath
<1>2. /\ job' = job /\ home' = home /\ runs' = runs /\ receipts' = receipts
      /\ source' = source /\ claims' = claims /\ pending' = pending /\ owner' = owner
  BY <1>1 DEF Keep, Tables
<1>3. /\ work[t].id = job[t].id /\ work[t].id \in Ids
      /\ ~ work[t].reopen /\ work[t].insert = {} /\ \A u \in work[t].todo : runs[u] # None
  BY <1>1 DEF RequestOK, Named, Undecided, InCourse
<1>4. CASE work[t].todo = {} /\ Go(t, "commit") /\ UNCHANGED work
  <2>1. "commit" \in Steps
    BY DEF Steps, Lockings
  <2>2. /\ Local(t) /\ TypeOK'
        /\ at'[t] = "commit" /\ work'[t] = work[t] /\ answer'[t] = answer[t]
        /\ Kind(t)' = Kind(t) /\ CourseOf(t)' = CourseOf(t)
    BY <1>1, <1>4, <2>1, Continues
  <2>3. OnPath(t)' /\ Named(t)' /\ Undecided(t)'
    BY <1>1, <1>2, <1>3, <1>4, <2>2 DEF RequestOK, OnPath, Named, Undecided, InCourse, InId
  <2>4. Holding(t)' /\ OwnsBelow(t)'
    BY <1>1, <1>2, <2>2 DEF RequestOK, Holding, OwnsBelow, InCourse, InId
  <2>5. ReadsHold(t)'
    BY <1>1, <1>2, <1>3, <2>2 DEF RequestOK, ReadsHold, RunsRead, ClaimRead,
      RowRead, LinkRead, WaitRead, Unlinked
  <2>6. answer'[t] = "clash" => Kind(t) = "verify"
    BY <2>2 DEF Inv, NoDuplicate
  <2> QED
    BY <2>2, <2>3, <2>4, <2>5, <2>6, LocalKeeps DEF RequestOK
<1>5. ASSUME NEW u \in work[t].todo, Go(t, "claimed"),
             Choose(t, [work[t] EXCEPT !.run = u, !.todo = work[t].todo \ {u}])
      PROVE  Inv'
  <2> DEFINE w == [work[t] EXCEPT !.run = u, !.todo = work[t].todo \ {u}]
  <2>1. u \in Uuids
    BY <1>1, <1>5 DEF Work
  <2>2. /\ w \in Work /\ w.run = u /\ w.todo = work[t].todo \ {u}
        /\ w.id = work[t].id /\ w.to = work[t].to /\ w.settle = work[t].settle
        /\ w.fresh = work[t].fresh /\ w.insert = {} /\ ~ w.reopen
    BY <1>1, <1>3, <2>1 DEF Work
  <2>3. Choose(t, w) /\ "claimed" \in Steps
    BY <1>5 DEF Steps, Lockings
  <2> HIDE DEF w
  <2>4. /\ Local(t) /\ TypeOK'
        /\ at'[t] = "claimed" /\ work'[t] = w /\ answer'[t] = answer[t]
        /\ Kind(t)' = Kind(t) /\ CourseOf(t)' = CourseOf(t)
    BY <1>1, <1>5, <2>2, <2>3, Moves
  <2>5. OnPath(t)' /\ Named(t)' /\ Undecided(t)'
    BY <1>1, <1>2, <1>3, <1>5, <2>1, <2>2, <2>4 DEF OnPath, Named, Undecided, InCourse, InId
  <2>6. Holding(t)' /\ OwnsBelow(t)'
    BY <1>1, <1>2, <2>2, <2>4 DEF RequestOK, Holding, OwnsBelow, InCourse, InId
  <2>7. LinkRead(t)' /\ RowRead(t)'
    BY <1>1, <1>2, <2>2, <2>4 DEF RequestOK, ReadsHold, LinkRead, RowRead, Unlinked
  <2>8. WaitRead(t)'
    BY <1>1, <1>2, <2>2, <2>4 DEF RequestOK, ReadsHold, WaitRead
  <2>9. ReadsHold(t)'
    BY <1>1, <2>2, <2>4, <2>7, <2>8 DEF ReadsHold, RunsRead, ClaimRead
  <2>10. answer'[t] = "clash" => Kind(t) = "verify"
    BY <2>4 DEF Inv, NoDuplicate
  <2> QED
    BY <2>4, <2>5, <2>6, <2>9, <2>10, LocalKeeps DEF RequestOK
<1> QED
  BY <1>4, <1>5 DEF NextClaim

LEMMA LockClaimedKeeps ==
    ASSUME Inv, NEW t \in Requests, LockClaimed(t)
    PROVE  Inv'
<1>1. /\ TypeOK /\ at[t] = "claimed" /\ RequestOK(t) /\ job[t] \in Job /\ Keep
      /\ work[t] \in Work /\ Kind(t) = "sync" /\ UNCHANGED answer
      /\ Take(t) /\ Go(t, "claims") /\ at[t] \in Lockings
      /\ CourseOf(t) = home[job[t].id]
  BY DEF LockClaimed, Inv, TypeOK, RequestOK, OnPath, Lockings, CourseOf
<1>2. PICK v \in {work[t].to, work[t].run} :
         /\ v # work[t].to =>
              work[t].to = None /\ home[work[t].id] = runs[work[t].run] /\ Unlinked(work[t].run)
         /\ Choose(t, [work[t] EXCEPT !.settle = work[t].settle \cup {work[t].run}, !.to = v])
  BY DEF LockClaimed
<1> DEFINE w == [work[t] EXCEPT !.settle = work[t].settle \cup {work[t].run}, !.to = v]
<1>3. /\ job' = job /\ home' = home /\ runs' = runs /\ receipts' = receipts
      /\ source' = source /\ claims' = claims /\ pending' = pending
  BY <1>1 DEF Keep, Tables
<1>4. /\ work[t].id = job[t].id /\ work[t].id \in Ids
      /\ ~ work[t].reopen /\ work[t].insert = {} /\ \A u \in work[t].todo : runs[u] # None
      /\ work[t].run \in Uuids /\ runs[work[t].run] # None
  BY <1>1 DEF RequestOK, Named, Undecided, InCourse
<1>5. /\ w \in Work /\ w.settle = work[t].settle \cup {work[t].run} /\ w.to = v
      /\ w.todo = work[t].todo /\ w.fresh = work[t].fresh
      /\ w.run = work[t].run /\ w.id = work[t].id /\ w.insert = {} /\ ~ w.reopen
  BY <1>1, <1>2, <1>4 DEF Work
<1>6. Choose(t, w) /\ "claims" \in Steps
  BY <1>2 DEF Steps, Lockings
<1> HIDE DEF w
<1>7. /\ Local(t) /\ TypeOK'
      /\ at'[t] = "claims" /\ work'[t] = w /\ answer'[t] = answer[t]
      /\ Kind(t)' = Kind(t) /\ CourseOf(t)' = CourseOf(t)
  BY <1>1, <1>5, <1>6, Moves
<1>8. /\ owner'[Wanted(t)] = t /\ Wanted(t) = <<"course", runs[work[t].run]>>
      /\ \A l \in Locks : l # Wanted(t) => owner'[l] = owner[l]
  BY <1>1, TakeTakes, WantedIs
<1>9. OnPath(t)' /\ Named(t)' /\ Undecided(t)'
  BY <1>1, <1>3, <1>4, <1>5, <1>7 DEF OnPath, RequestOK, Named, Undecided, InCourse, InId
<1>10. OwnsBelow(t)'
  BY <1>7 DEF OwnsBelow
<1>11. \A l \in Locks : owner[l] = t => owner'[l] = t
  BY <1>8
<1>12. \A z \in work'[t].settle : runs[z] # None /\ owner'[<<"course", runs[z]>>] = t
  <2>1. \A z \in work[t].settle : runs[z] # None /\ owner'[<<"course", runs[z]>>] = t
    BY <1>1, <1>11, HeldAreLocks DEF RequestOK, Holding
  <2> QED
    BY <1>4, <1>5, <1>7, <1>8, <2>1
<1>13. Holding(t)'
  <2>1. owner'[<<"course", CourseOf(t)>>] = t /\ owner'[<<"id", work[t].id>>] = t
    BY <1>1, <1>11, HeldAreLocks DEF RequestOK, Holding, InCourse, InId
  <2> QED
    BY <1>1, <1>3, <1>5, <1>7, <1>12, <2>1 DEF Holding
<1>14. LinkRead(t)'
  <2>1. CASE v = work[t].to
    BY <1>1, <1>3, <1>5, <1>7, <2>1 DEF RequestOK, ReadsHold, LinkRead, Unlinked
  <2>2. CASE v = work[t].run /\ v # work[t].to
    <3>1. home[work[t].id] = runs[work[t].run] /\ Unlinked(work[t].run)
      BY <1>2, <2>2
    <3>2. work[t].fresh \/ source[work[t].id] = Mirror
      BY <1>1 DEF RequestOK, ReadsHold, RowRead
    <3> QED
      BY <1>1, <1>3, <1>4, <1>5, <1>7, <2>2, <3>1, <3>2 DEF LinkRead, Unlinked
  <2> QED
    BY <1>2, <2>1, <2>2
<1>15. RowRead(t)'
  BY <1>1, <1>3, <1>5, <1>7 DEF RequestOK, ReadsHold, RowRead
<1>16. WaitRead(t)'
  <2>1. w.to = None => work[t].to = None
    BY <1>2, <1>4, <1>5, LocksAssumption
  <2> QED
    BY <1>1, <1>3, <1>5, <1>7, <2>1 DEF RequestOK, ReadsHold, WaitRead
<1>17. ReadsHold(t)'
  BY <1>1, <1>5, <1>7, <1>14, <1>15, <1>16 DEF ReadsHold, RunsRead, ClaimRead
<1>18. answer'[t] = "clash" => Kind(t) = "verify"
  BY <1>7 DEF Inv, NoDuplicate
<1> QED
  BY <1>7, <1>9, <1>10, <1>13, <1>17, <1>18, LocalKeeps DEF RequestOK

(* The ends that are no commit, and the new attempt.                        *)
LEMMA GiveUpKeeps ==
    ASSUME Inv, NEW t \in Requests, GiveUp(t)
    PROVE  Inv'
<1>1. UNCHANGED <<job, home, Tables>>
  BY DEF GiveUp
<1>2. CASE \E r \in {"error", "busy"} : Finish(t, r) /\ UNCHANGED attempt
  BY <1>1, <1>2, FinishKeeps DEF Answers, Keep
<1>3. CASE /\ attempt[t] < ATTEMPTS - 1
           /\ attempt' = [attempt EXCEPT ![t] = attempt[t] + 1]
           /\ Release(t) /\ Go(t, "backoff") /\ Choose(t, NoWork(job[t]))
           /\ UNCHANGED answer
  <2>1. Leaves(t)
    BY <1>1, <1>3 DEF Leaves
  <2>2. Local(t)
    BY <1>1, <1>3, <2>1, LeavesClean DEF Local
  <2>3. attempt' \in [Requests -> 0 .. ATTEMPTS - 1]
    <3>1. attempt \in [Requests -> 0 .. ATTEMPTS - 1] /\ ATTEMPTS \in Nat
      BY LocksAssumption DEF Inv, TypeOK
    <3>2. attempt[t] + 1 \in 0 .. ATTEMPTS - 1
      BY <1>3, <3>1
    <3> QED
      BY <1>3, <3>1, <3>2
  <2>4. TypeOK'
    BY <1>1, <1>3, <2>1, <2>3, LeavesClean DEF Inv, TypeOK, Tables
  <2>5. RequestOK(t)' /\ (answer'[t] = "clash" => Kind(t) = "verify")
    BY <1>3, <2>1, LeavesClean DEF Inv, NoDuplicate
  <2> QED
    BY <2>2, <2>4, <2>5, LocalKeeps
<1> QED
  BY <1>2, <1>3 DEF GiveUp

LEMMA RetryKeeps ==
    ASSUME Inv, NEW t \in Requests, Retry(t)
    PROVE  Inv'
<1>1. /\ TypeOK /\ at[t] = "backoff" /\ RequestOK(t) /\ Keep
      /\ UNCHANGED <<owner, work, answer>> /\ Go(t, "start") /\ "start" \in Steps
  BY DEF Retry, Inv, Steps
<1>2. /\ Local(t) /\ TypeOK'
      /\ at'[t] = "start" /\ work'[t] = work[t] /\ answer'[t] = answer[t]
      /\ Kind(t)' = Kind(t) /\ CourseOf(t)' = CourseOf(t)
  BY <1>1, Continues
<1>3. /\ job' = job /\ home' = home /\ runs' = runs /\ receipts' = receipts
      /\ source' = source /\ claims' = claims /\ pending' = pending /\ owner' = owner
  BY <1>1 DEF Keep, Tables
<1>4. OnPath(t)' /\ Named(t)' /\ Undecided(t)'
  BY <1>1, <1>2, <1>3 DEF RequestOK, OnPath, Named, Undecided, InCourse, InId
<1>5. Holding(t)' /\ OwnsBelow(t)'
  BY <1>1, <1>2, <1>3 DEF RequestOK, Holding, OwnsBelow, InCourse, InId
<1>6. ReadsHold(t)'
  BY <1>1, <1>2, <1>3 DEF RequestOK, ReadsHold, RunsRead, ClaimRead, RowRead, LinkRead,
    WaitRead, Unlinked
<1>7. answer'[t] = "clash" => Kind(t) = "verify"
  BY <1>2 DEF Inv, NoDuplicate
<1> QED
  BY <1>2, <1>4, <1>5, <1>6, <1>7, LocalKeeps DEF RequestOK

LEMMA BreakKeeps ==
    ASSUME Inv, NEW t \in Requests, Break(t)
    PROVE  Inv'
<1>1. PICK r \in {"busy", "error"} : Finish(t, r) /\ Keep
  BY DEF Break
<1> QED
  BY <1>1, FinishKeeps DEF Answers

-----------------------------------------------------------------------------
(* The commit.  It meets no row that was not there when the request looked. *)
LEMMA NoClash ==
    ASSUME Inv, NEW t \in Requests, at[t] = "commit", Clash(t)
    PROVE  Kind(t) = "verify"
<1>1. TypeOK /\ References /\ RequestOK(t) /\ work[t] \in Work /\ job[t] \in Job
  BY DEF Inv, TypeOK
<1>2. InCourse(t)
  BY DEF InCourse
<1>3. CASE Kind(t) = "upload" /\ (receipts[job[t].key] # None \/ runs[work[t].run] # None)
  BY <1>1, <1>3 DEF RequestOK, ReadsHold, RunsRead, Named
<1>4. CASE \E x \in work[t].insert : <<work[t].run, x>> \in claims
  <2>1. CASE Kind(t) = "upload"
    <3>1. work[t].run = job[t].uuid /\ runs[job[t].uuid] = None
      BY <1>1, <2>1 DEF RequestOK, ReadsHold, RunsRead, Named
    <3>2. \A x \in Ids : <<job[t].uuid, x>> \notin claims
      BY <1>1, <2>1, <3>1, JobShape DEF References, Kind
    <3> QED
      BY <1>1, <1>4, <3>1, <3>2 DEF Work
  <2>2. CASE Kind(t) # "upload"
    BY <1>1, <1>4, <2>2 DEF RequestOK, ReadsHold, ClaimRead
  <2> QED
    BY <2>1, <2>2
<1>5. ~ (work[t].fresh /\ source[work[t].id] # None)
  BY <1>1 DEF RequestOK, ReadsHold, RowRead
<1>6. ~ (work[t].to # None /\ (~ Unlinked(work[t].to)
                               \/ (~ work[t].fresh /\ source[work[t].id] # Mirror)))
  BY <1>1 DEF RequestOK, ReadsHold, LinkRead
<1> QED
  BY <1>3, <1>4, <1>5, <1>6 DEF Clash

(* What a commit changes, told apart from what it leaves.                   *)
RunsChange(t) ==
    \A u \in Uuids :
       \/ runs'[u] = runs[u]
       \/ /\ Kind(t) = "upload" /\ u = job[t].uuid
          /\ runs[u] = None /\ runs'[u] = CourseOf(t)

ReceiptsChange(t) ==
    \A k \in Keys :
       receipts'[k] = receipts[k] \/ (Kind(t) = "upload" /\ k = job[t].key)

ClaimsChange(t) ==
    /\ claims \subseteq claims'
    /\ \A u \in Uuids, x \in Ids :
          <<u, x>> \in claims' => <<u, x>> \in claims \/ runs'[u] = CourseOf(t)

SourceChange(t) ==
    \A x \in Ids :
       \/ source'[x] = source[x]
       \/ /\ x = work[t].id /\ home[x] = CourseOf(t)
          /\ source[x] \in {None, Mirror}
          /\ Kind(t) = "upload" => source[x] = Mirror
          /\ \/ /\ work[t].to = None /\ work[t].fresh /\ source'[x] = Mirror
             \/ /\ work[t].to # None /\ source'[x] = work[t].to
                /\ runs'[work[t].to] = CourseOf(t)

PendingChange(t) ==
    \A u \in Uuids, x \in Ids :
       \/ <<u, x>> \in pending' <=> <<u, x>> \in pending
       \/ /\ <<u, x>> \in pending'
          /\ Kind(t) \in {"claim", "verify"}
          /\ u = work[t].run /\ x = work[t].id /\ source[x] = None
          /\ runs'[u] = CourseOf(t)
       \/ /\ <<u, x>> \notin pending'
          /\ u \in work[t].settle /\ x = work[t].id

LEMMA CommitWrites ==
    ASSUME Inv, NEW t \in Requests, at[t] = "commit", ~ Clash(t), Written(t),
           UNCHANGED <<job, home>>
    PROVE  /\ RunsChange(t) /\ ReceiptsChange(t) /\ ClaimsChange(t) /\ SourceChange(t)
           /\ PendingChange(t)
           /\ CourseOf(t) \in Courses
           /\ runs' \in [Uuids -> Courses \cup {None}]
           /\ receipts' \in [Keys -> Receipt \cup {None}]
           /\ claims' \in SUBSET (Uuids \X Ids)
           /\ pending' \in SUBSET claims'
           /\ source' \in [Ids -> Uuids \cup {None, Mirror}]
           /\ \A u \in work[t].settle : <<u, work[t].id>> \notin pending'
<1>1. /\ TypeOK /\ References /\ RequestOK(t) /\ work[t] \in Work /\ job[t] \in Job
      /\ InCourse(t)
  BY DEF Inv, TypeOK, InCourse
<1>2. CourseOf(t) \in Courses
  BY <1>1, HeldAreLocks
<1>3. Kind(t) = "upload" =>
        /\ job[t].uuid \in Uuids /\ job[t].key \in Keys
        /\ work[t].run = job[t].uuid /\ CourseOf(t) = job[t].course
        /\ runs[job[t].uuid] = None /\ Body(t) \in Receipt
  BY <1>1, JobShape DEF RequestOK, ReadsHold, RunsRead, Named, Kind, CourseOf, Body, Receipt
<1>4. /\ RunsChange(t) /\ runs' \in [Uuids -> Courses \cup {None}]
      /\ Kind(t) = "upload" => runs'[job[t].uuid] = CourseOf(t)
  BY <1>1, <1>2, <1>3 DEF Written, RunsChange, TypeOK
<1>5. ReceiptsChange(t) /\ receipts' \in [Keys -> Receipt \cup {None}]
  BY <1>1, <1>3 DEF Written, ReceiptsChange, TypeOK
<1>6. \A u \in Uuids : runs[u] # None => runs'[u] = runs[u]
  BY <1>4 DEF RunsChange
<1>7. Kind(t) \in {"claim", "verify", "backfill"} =>
        /\ work[t].run = job[t].uuid /\ job[t].uuid \in Uuids
        /\ runs'[job[t].uuid] = CourseOf(t)
  <2>1. Kind(t) \in {"claim", "verify", "backfill"} =>
          /\ work[t].run = job[t].uuid /\ job[t].uuid \in Uuids
          /\ runs[job[t].uuid] # None /\ CourseOf(t) = runs[job[t].uuid]
    BY <1>1, JobShape DEF RequestOK, ReadsHold, RunsRead, Named, Kind, CourseOf
  <2> QED
    BY <1>6, <2>1
<1>8. work[t].insert # {} => work[t].run \in Uuids /\ runs'[work[t].run] = CourseOf(t)
  <2>1. CASE Kind(t) = "upload"
    BY <1>3, <1>4, <2>1
  <2>2. CASE Kind(t) # "upload"
    BY <1>1, <1>2, <1>6, <2>2, LocksAssumption DEF RequestOK, ReadsHold, ClaimRead
  <2> QED
    BY <2>1, <2>2
<1>9. ClaimsChange(t) /\ claims' \in SUBSET (Uuids \X Ids)
  <2>1. claims' = claims \cup {<<work[t].run, x>> : x \in work[t].insert}
    BY DEF Written
  <2>2. work[t].insert \in SUBSET Ids /\ claims \in SUBSET (Uuids \X Ids)
    BY <1>1 DEF Work, TypeOK
  <2> QED
    BY <1>8, <2>1, <2>2 DEF ClaimsChange
<1>10. /\ work[t].to # None =>
            /\ work[t].to \in Uuids /\ runs'[work[t].to] = CourseOf(t)
            /\ work[t].id \in Ids /\ home[work[t].id] = CourseOf(t)
            /\ source[work[t].id] \in {None, Mirror}
            /\ Kind(t) = "upload" => source[work[t].id] = Mirror
       /\ work[t].fresh =>
            /\ work[t].id \in Ids /\ home[work[t].id] = CourseOf(t)
            /\ source[work[t].id] = None /\ Kind(t) = "sync"
  <2>1. work[t].fresh =>
            /\ work[t].id \in Ids /\ home[work[t].id] = CourseOf(t)
            /\ source[work[t].id] = None /\ Kind(t) = "sync"
    BY <1>1 DEF RequestOK, ReadsHold, RowRead, Named, CourseOf
  <2>2. ASSUME work[t].to # None
        PROVE  /\ work[t].id \in Ids /\ home[work[t].id] = CourseOf(t)
               /\ source[work[t].id] \in {None, Mirror}
               /\ Kind(t) = "upload" => source[work[t].id] = Mirror
               /\ Kind(t) = "upload" => work[t].to = job[t].uuid
               /\ Kind(t) # "upload" => runs[work[t].to] = CourseOf(t)
    BY <1>1, <2>1, <2>2 DEF RequestOK, ReadsHold, LinkRead
  <2>3. ASSUME work[t].to # None
        PROVE  work[t].to \in Uuids /\ runs'[work[t].to] = CourseOf(t)
    <3>1. work[t].to \in Uuids
      BY <1>1, <2>3 DEF Work
    <3> QED
      BY <1>2, <1>3, <1>4, <1>6, <2>2, <2>3, <3>1, LocksAssumption
  <2> QED
    BY <2>1, <2>2, <2>3
<1>11. SourceChange(t) /\ source' \in [Ids -> Uuids \cup {None, Mirror}]
  <2>1. source \in [Ids -> Uuids \cup {None, Mirror}]
    BY <1>1 DEF TypeOK
  <2>2. CASE work[t].to # None
    <3>1. source' = [source EXCEPT ![work[t].id] = work[t].to]
      BY <2>2 DEF Written
    <3> QED
      BY <1>10, <2>1, <2>2, <3>1 DEF SourceChange
  <2>3. CASE work[t].to = None /\ work[t].fresh
    <3>1. source' = [source EXCEPT ![work[t].id] = Mirror]
      BY <2>3 DEF Written
    <3> QED
      BY <1>10, <2>1, <2>3, <3>1 DEF SourceChange
  <2>4. CASE work[t].to = None /\ ~ work[t].fresh
    <3>1. source' = source
      BY <2>4 DEF Written
    <3> QED
      BY <2>1, <3>1 DEF SourceChange
  <2> QED
    BY <2>2, <2>3, <2>4
<1>12. work[t].reopen =>
         /\ Kind(t) \in {"claim", "verify"} /\ work[t].id \in Ids
         /\ source[work[t].id] = None
         /\ <<work[t].run, work[t].id>> \in claims'
  <2>1. ASSUME work[t].reopen
        PROVE  /\ Kind(t) \in {"claim", "verify"} /\ work[t].id \in Ids
               /\ source[work[t].id] = None
    BY <1>1, <2>1 DEF RequestOK, ReadsHold, WaitRead, Named
  <2>2. ASSUME work[t].reopen
        PROVE  <<work[t].run, work[t].id>> \in claims \/ work[t].insert = {work[t].id}
    BY <1>1, <2>1, <2>2 DEF RequestOK, ReadsHold, ClaimRead
  <2>3. claims' = claims \cup {<<work[t].run, x>> : x \in work[t].insert}
    BY DEF Written
  <2> QED
    BY <2>1, <2>2, <2>3
<1> DEFINE base == IF work[t].reopen THEN pending \cup {<<work[t].run, work[t].id>>}
                   ELSE pending
<1>13. pending' = base \ {<<u, work[t].id>> : u \in work[t].settle}
  BY DEF Written
<1>14. /\ pending' \in SUBSET claims'
       /\ \A u \in work[t].settle : <<u, work[t].id>> \notin pending'
  BY <1>1, <1>9, <1>12, <1>13 DEF TypeOK, ClaimsChange
<1>15. PendingChange(t)
  <2>1. ASSUME NEW u \in Uuids, NEW x \in Ids, <<u, x>> \in pending', <<u, x>> \notin pending
        PROVE  /\ Kind(t) \in {"claim", "verify"}
               /\ u = work[t].run /\ x = work[t].id /\ source[x] = None
               /\ runs'[u] = CourseOf(t)
    BY <1>7, <1>12, <1>13, <2>1
  <2>2. ASSUME NEW u \in Uuids, NEW x \in Ids, <<u, x>> \notin pending', <<u, x>> \in pending
        PROVE  u \in work[t].settle /\ x = work[t].id
    BY <1>13, <2>2
  <2> QED
    BY <2>1, <2>2 DEF PendingChange
<1> QED
  BY <1>2, <1>4, <1>5, <1>9, <1>11, <1>14, <1>15


(* Two requests do not hold the same lock.                                  *)
LEMMA Apart ==
    ASSUME Inv, NEW t \in Requests, at[t] = "commit", NEW r \in Requests, r # t
    PROVE  /\ Kind(t) = "upload" /\ Kind(r) = "upload"
                /\ at[r] \in {"uuid", "course", "player", "commit"} => job[r].key # job[t].key
           /\ Kind(t) = "upload" /\ Kind(r) = "upload"
                /\ at[r] \in {"course", "player", "commit"} => job[r].uuid # job[t].uuid
           /\ InCourse(r) => CourseOf(r) # CourseOf(t)
           /\ InId(r) /\ Kind(t) # "upload" => work[r].id # work[t].id
<1>1. Holding(t) /\ Holding(r) /\ InCourse(t) /\ (Kind(t) # "upload" => InId(t))
  BY DEF Inv, RequestOK, InCourse, InId
<1>2. Kind(t) = "upload" =>
        owner[<<"receipt", job[t].key>>] = t /\ owner[<<"uuid", job[t].uuid>>] = t
  BY <1>1 DEF Holding
<1>3. Kind(r) = "upload" /\ at[r] \in {"uuid", "course", "player", "commit"} =>
        owner[<<"receipt", job[r].key>>] = r
  BY <1>1 DEF Holding
<1>4. Kind(r) = "upload" /\ at[r] \in {"course", "player", "commit"} =>
        owner[<<"uuid", job[r].uuid>>] = r
  BY <1>1 DEF Holding
<1>5. /\ owner[<<"course", CourseOf(t)>>] = t
      /\ InCourse(r) => owner[<<"course", CourseOf(r)>>] = r
      /\ Kind(t) # "upload" => owner[<<"id", work[t].id>>] = t
      /\ InId(r) => owner[<<"id", work[r].id>>] = r
  BY <1>1 DEF Holding
<1>6. InCourse(r) => CourseOf(r) # CourseOf(t)
  BY <1>5
<1>7. InId(r) /\ Kind(t) # "upload" => work[r].id # work[t].id
  BY <1>5
<1> QED
  BY <1>2, <1>3, <1>4, <1>6, <1>7

(* What another request has read stays so.                                  *)
LEMMA CommitKeepsReads ==
    ASSUME Inv, NEW t \in Requests, at[t] = "commit",
           NEW r \in Requests, r # t, at'[r] = at[r], work'[r] = work[r],
           UNCHANGED <<job, home>>, CourseOf(t) \in Courses,
           RunsChange(t), ReceiptsChange(t), ClaimsChange(t), SourceChange(t),
           PendingChange(t)
    PROVE  ReadsHold(r)'
<1>1. /\ TypeOK /\ RequestOK(r) /\ RequestOK(t) /\ job[r] \in Job /\ job[t] \in Job
      /\ work[r] \in Work /\ Kind(r)' = Kind(r)
  BY DEF Inv, TypeOK, Kind
<1>2. \A u \in Uuids : runs[u] # None => runs'[u] = runs[u]
  BY DEF RunsChange
<1>3. InCourse(r) => CourseOf(r)' = CourseOf(r) /\ CourseOf(r) \in Courses /\ CourseOf(r) # None
  <2>1. InCourse(r) => CourseOf(r) \in Courses /\ CourseOf(r) # None
    BY HeldAreLocks, LocksAssumption
  <2>2. InCourse(r) => CourseOf(r)' = CourseOf(r)
    BY <1>1, <1>2, <2>1, JobShape DEF CourseOf, Kind
  <2> QED
    BY <2>1, <2>2
<1>4. InCourse(r) /\ Kind(r) = "upload" => at[r] \in {"player", "commit"}
  BY <1>1 DEF InCourse, RequestOK, OnPath
<1>5. RunsRead(r)'
  <2>1. Kind(r) = "upload" /\ at[r] \in {"uuid", "course", "player", "commit"} =>
          receipts'[job[r].key] = None
    <3>1. Kind(r) = "upload" => job[r].key \in Keys
      BY <1>1, JobShape DEF Kind
    <3> QED
      BY <1>1, <3>1, Apart DEF RequestOK, ReadsHold, RunsRead, ReceiptsChange
  <2>2. Kind(r) = "upload" /\ at[r] \in {"course", "player", "commit"} =>
          runs'[job[r].uuid] = None
    <3>1. Kind(r) = "upload" => job[r].uuid \in Uuids
      BY <1>1, JobShape DEF Kind
    <3> QED
      BY <1>1, <3>1, Apart DEF RequestOK, ReadsHold, RunsRead, RunsChange
  <2>3. Kind(r) \in {"claim", "verify", "backfill"}
          /\ at[r] \notin {"start", "backoff", "done"} => runs'[job[r].uuid] # None
    <3>1. Kind(r) \in {"claim", "verify", "backfill"} => job[r].uuid \in Uuids
      BY <1>1, JobShape DEF Kind
    <3> QED
      BY <1>1, <1>2, <3>1 DEF RequestOK, ReadsHold, RunsRead
  <2> QED
    BY <1>1, <2>1, <2>2, <2>3 DEF RunsRead
<1>6. ClaimRead(r)'
  <2>1. ASSUME Kind(r) # "upload", work[r].insert # {}
        PROVE  /\ work[r].insert = {work[r].id} /\ work[r].run \in Uuids
               /\ runs[work[r].run] = CourseOf(r)
               /\ Kind(r) # "verify" => <<work[r].run, work[r].id>> \notin claims
    BY <1>1, <2>1 DEF RequestOK, ReadsHold, ClaimRead
  <2>2. ASSUME Kind(r) # "upload", work[r].insert # {}
        PROVE  runs'[work[r].run] = CourseOf(r)'
    <3>1. CASE Kind(r) = "sync"
      <4>1. InCourse(r)
        BY <1>1, <2>2, <3>1 DEF RequestOK, Undecided
      <4> QED
        BY <1>2, <1>3, <2>1, <2>2, <4>1
    <3>2. CASE Kind(r) # "sync"
      <4>1. work[r].run = job[r].uuid
        BY <1>1, <3>2 DEF RequestOK, Named
      <4> QED
        BY <1>1, <2>2, <3>2, <4>1 DEF CourseOf
    <3> QED
      BY <3>1, <3>2
  <2>3. ASSUME Kind(r) \notin {"upload", "verify"}, work[r].insert # {}
        PROVE  <<work[r].run, work[r].id>> \notin claims'
    <3>1. InCourse(r)
      BY <1>1, <2>3 DEF RequestOK, Undecided
    <3>2. runs'[work[r].run] = CourseOf(r) /\ CourseOf(r) # CourseOf(t)
      BY <1>3, <2>2, <2>3, <3>1, Apart
    <3>3. work[r].id \in Ids
      BY <2>1, <2>3, <1>1 DEF Work
    <3> QED
      BY <2>1, <2>3, <3>2, <3>3 DEF ClaimsChange
  <2>4. at[r] = "entry" => work[r].insert = {work[r].id}
    BY <1>1 DEF RequestOK, ReadsHold, ClaimRead
  <2>5. (\/ Kind(r) = "claim" /\ at[r] \in {"decide", "commit"}
         \/ Kind(r) = "verify" /\ at[r] \in {"course", "id", "decide", "commit"}) =>
          <<work[r].run, work[r].id>> \in claims' \/ work[r].insert # {}
    BY <1>1 DEF RequestOK, ReadsHold, ClaimRead, ClaimsChange
  <2> QED
    BY <1>1, <2>1, <2>2, <2>3, <2>4, <2>5 DEF ClaimRead
<1>7. ASSUME NEW x \in Ids, InCourse(r), home[x] = CourseOf(r)
      PROVE  source'[x] = source[x]
  BY <1>7, Apart DEF SourceChange
<1>8. Kind(r) = "sync" /\ InCourse(r) => home[work[r].id] = CourseOf(r) /\ work[r].id \in Ids
  BY <1>1 DEF RequestOK, Named, CourseOf
<1>9. RowRead(r)'
  <2>1. work[r].fresh => InCourse(r) /\ Kind(r) = "sync" /\ source[work[r].id] = None
    BY <1>1 DEF RequestOK, Undecided, InId, ReadsHold, RowRead
  <2>2. at[r] \in {"claims", "claimed"} =>
          /\ InCourse(r) /\ Kind(r) = "sync"
          /\ work[r].fresh \/ source[work[r].id] = Mirror
    BY <1>1 DEF RequestOK, OnPath, InCourse, ReadsHold, RowRead
  <2> QED
    BY <1>1, <1>7, <1>8, <2>1, <2>2 DEF RowRead
<1>10. LinkRead(r)'
  <2> SUFFICES ASSUME work[r].to # None PROVE LinkRead(r)'
    BY DEF LinkRead
  <2>1. InCourse(r)
    BY <1>1 DEF RequestOK, Undecided
  <2>2. /\ work[r].id \in Ids /\ home[work[r].id] = CourseOf(r)
        /\ Unlinked(work[r].to)
        /\ work[r].fresh \/ source[work[r].id] = Mirror
        /\ Kind(r) = "upload" => work[r].to = job[r].uuid
        /\ Kind(r) # "upload" => runs[work[r].to] = home[work[r].id]
        /\ work[r].to \in Uuids
    BY <1>1 DEF RequestOK, ReadsHold, LinkRead, Work
  <2>3. source'[work[r].id] = source[work[r].id]
    BY <1>7, <2>1, <2>2
  <2>4. Kind(r) = "upload" => runs'[work[r].to] = None
    BY <1>1, <1>4, <1>5, <2>1, <2>2 DEF RunsRead
  <2>5. Kind(r) # "upload" => runs'[work[r].to] = CourseOf(r)
    BY <1>2, <1>3, <2>1, <2>2
  <2>6. runs'[work[r].to] # CourseOf(t)
    BY <2>1, <2>4, <2>5, Apart, LocksAssumption
  <2>7. ASSUME NEW x \in Ids PROVE source'[x] # work[r].to
    BY <2>2, <2>6, LocksAssumption DEF SourceChange, Unlinked
  <2> QED
    BY <1>1, <1>3, <2>1, <2>2, <2>3, <2>5, <2>7 DEF LinkRead, Unlinked
<1>11. WaitRead(r)'
  <2>1. ASSUME work[r].reopen
        PROVE  Kind(r) \in {"claim", "verify"} /\ source'[work[r].id] = None
    <3>1. /\ Kind(r) \in {"claim", "verify"} /\ source[work[r].id] = None
          /\ at[r] = "commit"
      BY <1>1, <2>1 DEF RequestOK, ReadsHold, WaitRead, Undecided
    <3>2. InId(r) /\ work[r].id \in Ids
      BY <1>1, <3>1 DEF RequestOK, Named, InId, InCourse
    <3> QED
      BY <3>1, <3>2, Apart, LocksAssumption DEF SourceChange
  <2>2. ASSUME work[r].fresh, work[r].to = None, NEW v \in Uuids,
               <<v, work[r].id>> \in pending'
        PROVE  \/ v \in work[r].settle \cup work[r].todo
               \/ at[r] = "claimed" /\ v = work[r].run
    <3>1. InId(r) /\ work[r].id \in Ids
      BY <1>1, <1>8, <2>2 DEF RequestOK, Undecided, InId, ReadsHold, RowRead
    <3>2. <<v, work[r].id>> \in pending
      BY <2>2, <3>1, Apart DEF PendingChange
    <3> QED
      BY <1>1, <2>2, <3>2 DEF RequestOK, ReadsHold, WaitRead
  <2> QED
    BY <1>1, <2>1, <2>2 DEF WaitRead
<1> QED
  BY <1>5, <1>6, <1>9, <1>10, <1>11 DEF ReadsHold

LEMMA CommitKeeps ==
    ASSUME Inv, NEW t \in Requests, Commit(t)
    PROVE  Inv'
<1>1. at[t] = "commit" /\ UNCHANGED <<job, home, attempt>>
  BY DEF Commit
<1>2. CASE Clash(t) /\ Finish(t, "clash") /\ UNCHANGED Tables
  <2>1. Kind(t) = "verify"
    BY <1>1, <1>2, NoClash
  <2> QED
    BY <1>1, <1>2, <2>1, FinishKeeps DEF Answers, Keep
<1>3. CASE ~ Clash(t) /\ Finish(t, "ok") /\ Written(t)
  <2>1. /\ RunsChange(t) /\ ReceiptsChange(t) /\ ClaimsChange(t) /\ SourceChange(t)
        /\ PendingChange(t) /\ CourseOf(t) \in Courses
        /\ runs' \in [Uuids -> Courses \cup {None}]
        /\ receipts' \in [Keys -> Receipt \cup {None}]
        /\ claims' \in SUBSET (Uuids \X Ids) /\ pending' \in SUBSET claims'
        /\ source' \in [Ids -> Uuids \cup {None, Mirror}]
        /\ \A u \in work[t].settle : <<u, work[t].id>> \notin pending'
    BY <1>1, <1>3, CommitWrites
  <2>2. Leaves(t) /\ answer' = [answer EXCEPT ![t] = "ok"]
    BY <1>1, <1>3 DEF Finish, Leaves
  <2>3. /\ RequestOK(t)'
        /\ at' \in [Requests -> Steps] /\ work' \in [Requests -> Work]
        /\ owner' \in [Locks -> Requests \cup {None}]
        /\ \A r \in Requests : r # t => at'[r] = at[r] /\ work'[r] = work[r]
        /\ \A l \in Locks : \A r \in Requests : r # t => (owner'[l] = r <=> owner[l] = r)
    BY <2>2, LeavesClean
  <2>4. TypeOK /\ References /\ PendingAwaitsRow /\ NoDuplicate /\ RequestOK(t)
    BY DEF Inv
  <2>5. TypeOK'
    BY <1>1, <2>1, <2>2, <2>3, <2>4 DEF TypeOK, Answers
  <2>6. \A u \in Uuids : runs[u] # None => runs'[u] = runs[u]
    BY <2>1 DEF RunsChange
  <2>7. References'
    <3>1. ASSUME NEW u \in Uuids, NEW x \in Ids, <<u, x>> \in claims' PROVE runs'[u] # None
      BY <2>1, <2>4, <2>6, <3>1, LocksAssumption DEF References, ClaimsChange
    <3>2. ASSUME NEW x \in Ids, source'[x] \in Uuids PROVE runs'[source'[x]] = home[x]
      <4>1. CASE source'[x] = source[x]
        <5>1. runs[source[x]] = home[x] /\ home[x] # None
          BY <2>4, <3>2, <4>1, LocksAssumption DEF References, TypeOK
        <5> QED
          BY <2>6, <3>2, <4>1, <5>1
      <4>2. CASE source'[x] # source[x]
        BY <2>1, <3>2, <4>2, LocksAssumption DEF SourceChange
      <4> QED
        BY <4>1, <4>2
    <3> QED
      BY <1>1, <3>1, <3>2 DEF References
  <2>8. PendingAwaitsRow'
    <3>1. ASSUME NEW u \in Uuids, NEW x \in Ids, <<u, x>> \in pending', source'[x] = Mirror
          PROVE  FALSE
      <4>1. source[x] # Mirror
        <5>1. CASE <<u, x>> \in pending
          BY <2>4, <5>1 DEF PendingAwaitsRow
        <5>2. CASE <<u, x>> \notin pending
          BY <2>1, <3>1, <5>2, LocksAssumption DEF PendingChange
        <5> QED
          BY <5>1, <5>2
      <4>2. x = work[t].id /\ work[t].to = None /\ work[t].fresh
        <5>1. work[t].to \in Uuids \cup {None}
          BY <2>4 DEF TypeOK, Work
        <5> QED
          BY <2>1, <3>1, <4>1, <5>1, LocksAssumption DEF SourceChange
      <4>3. Kind(t) = "sync"
        BY <2>4, <4>2 DEF RequestOK, ReadsHold, RowRead
      <4>4. <<u, x>> \in pending
        BY <2>1, <3>1, <4>3 DEF PendingChange
      <4>5. u \in work[t].settle
        BY <1>1, <2>4, <4>2, <4>4 DEF RequestOK, ReadsHold, WaitRead, Named
      <4> QED
        BY <2>1, <3>1, <4>2, <4>5
    <3>2. pending' \in SUBSET (Uuids \X Ids)
      BY <2>1
    <3>3. ASSUME NEW p \in pending' PROVE source'[p[2]] # Mirror
      <4>1. p[1] \in Uuids /\ p[2] \in Ids /\ p = <<p[1], p[2]>>
        BY <3>2, <3>3
      <4> QED
        BY <3>1, <3>3, <4>1
    <3> QED
      BY <3>3 DEF PendingAwaitsRow
  <2>9. NoDuplicate'
    BY <1>1, <2>2, <2>4 DEF NoDuplicate, TypeOK, Kind
  <2>10. ASSUME NEW r \in Requests, r # t PROVE RequestOK(r)'
    <3>1. /\ at'[r] = at[r] /\ work'[r] = work[r] /\ RequestOK(r) /\ work[r] \in Work
          /\ \A l \in Locks : owner'[l] = r <=> owner[l] = r
      BY <2>3, <2>4, <2>10 DEF Inv, TypeOK
    <3>2. Kind(r)' = Kind(r) /\ InCourse(r)' = InCourse(r) /\ InId(r)' = InId(r)
      BY <1>1, <3>1 DEF Kind, InCourse, InId
    <3>3. OnPath(r)' /\ Undecided(r)' /\ OwnsBelow(r)'
      BY <3>1, <3>2 DEF RequestOK, OnPath, Undecided, OwnsBelow
    <3>4. Named(r)'
      BY <1>1, <2>6, <3>1, <3>2 DEF RequestOK, Named, Work
    <3>5. InCourse(r) => CourseOf(r)' = CourseOf(r)
      <4>1. job[r] \in Job
        BY <2>4 DEF TypeOK
      <4>2. InCourse(r) => CourseOf(r) # None
        BY HeldAreLocks, LocksAssumption
      <4> QED
        BY <1>1, <2>6, <3>2, <4>1, <4>2, JobShape DEF CourseOf, Kind
    <3>6. Holding(r)'
      <4>1. \A v \in work[r].settle : runs[v] # None /\ runs'[v] = runs[v]
        BY <2>6, <3>1 DEF RequestOK, Holding, Work
      <4>2. /\ Kind(r) = "upload" => <<"receipt", job[r].key>> \in Locks
            /\ Kind(r) = "upload" => <<"uuid", job[r].uuid>> \in Locks
            /\ InCourse(r) => <<"course", CourseOf(r)>> \in Locks
            /\ InId(r) => <<"id", work[r].id>> \in Locks
            /\ \A v \in work[r].settle : <<"course", runs[v]>> \in Locks
        BY HeldAreLocks
      <4> QED
        BY <1>1, <3>1, <3>2, <3>5, <4>1, <4>2 DEF RequestOK, Holding
    <3>7. ReadsHold(r)'
      BY <1>1, <2>1, <2>10, <3>1, CommitKeepsReads
    <3> QED
      BY <3>3, <3>4, <3>6, <3>7 DEF RequestOK
  <2>11. \A r \in Requests : RequestOK(r)'
    BY <2>3, <2>10
  <2> QED
    BY <2>5, <2>7, <2>8, <2>9, <2>11 DEF Inv
<1> QED
  BY <1>2, <1>3 DEF Commit

-----------------------------------------------------------------------------
LEMMA NextInv == Inv /\ [Next]_vars => Inv'
<1> SUFFICES ASSUME Inv, [Next]_vars PROVE Inv'
  OBVIOUS
<1>1. CASE UNCHANGED vars
  <2>1. TypeOK' /\ References' /\ NoDuplicate' /\ PendingAwaitsRow'
    BY <1>1 DEF Inv, vars, Tables, TypeOK, References, NoDuplicate, PendingAwaitsRow, Kind
  <2>2. ASSUME NEW r \in Requests PROVE RequestOK(r)'
    <3>1. Local(r) /\ RequestOK(r) /\ UNCHANGED vars
      BY <1>1 DEF Inv, Local, vars, Tables
    <3> QED
      BY <3>1 DEF vars, Tables, RequestOK, OnPath, Named, Undecided, Holding, OwnsBelow,
        ReadsHold, RunsRead, ClaimRead, RowRead, LinkRead, WaitRead, Unlinked, Kind, CourseOf,
        InCourse, InId
  <2> QED
    BY <2>1, <2>2 DEF Inv
<1>2. ASSUME NEW t \in Requests, Goes(t) PROVE Inv'
  BY <1>2, BeginKeeps, LockReceiptKeeps, LockUuidKeeps, LockCourseUploadKeeps, LockCourseKeeps,
    LockCourseBackfillKeeps, LockIdKeeps, LockEntryKeeps, DecideKeeps, LockPlayerKeeps,
    ResolveNativeKeeps, ResolveMirrorKeeps, NextClaimKeeps, LockClaimedKeeps, CommitKeeps,
    GiveUpKeeps, RetryKeeps DEF Goes
<1>3. ASSUME NEW t \in Requests, Break(t) PROVE Inv'
  BY <1>3, BreakKeeps
<1> QED
  BY <1>1, <1>2, <1>3 DEF Next

LEMMA Invariance == Spec => []Inv
<1>1. Init => Inv
  BY InitInv
<1>2. Inv /\ [Next]_vars => Inv'
  BY NextInv
<1> QED
  BY <1>1, <1>2, PTL DEF Spec

(* The variables keep their types, and only claims that exist wait.         *)
THEOREM TypesHold == Spec => []TypeOK
<1>1. Inv => TypeOK
  BY DEF Inv
<1> QED
  BY <1>1, Invariance, PTL

(* The identity locks do what they are for: nothing that a plugin's request *)
(* or a sync has read is stale when it commits, whatever else commits       *)
(* between its locks (_accept_record, _submit_claim, _upsert_record_once).  *)
THEOREM NoDuplicateHolds == Spec => []NoDuplicate
<1>1. Inv => NoDuplicate
  BY DEF Inv
<1> QED
  BY <1>1, Invariance, PTL

(* No claim is left waiting for an upstream row that is there: the claim    *)
(* and the row's writer exclude each other by the lock of the id            *)
(* (_submit_claim, reconcile_upstream).                                     *)
THEOREM PendingAwaitsRowHolds == Spec => []PendingAwaitsRow
<1>1. Inv => PendingAwaitsRow
  BY DEF Inv
<1> QED
  BY <1>1, Invariance, PTL

(* Who waits without a detour holds only locks of an earlier kind.          *)
LEMMA HolderIsAhead ==
    ASSUME Inv, NEW t \in Requests, Waits(t), ~ Detour(t),
           NEW l \in Locks, owner[l] = t
    PROVE  /\ l[1] \in {"receipt", "uuid", "course", "id", "player"}
           /\ l[1] = "player" => at[t] = "entry"
           /\ l[1] = "id" => at[t] \in {"player", "entry"}
           /\ l[1] = "course" => at[t] \in {"id", "player", "entry"}
           /\ l[1] = "uuid" => at[t] \in {"course", "player", "entry"}
           /\ at[t] # "receipt"
<1>1. OwnsBelow(t) /\ at[t] \in Lockings \ {"claimed"}
  BY DEF Inv, RequestOK, Waits, Detour
<1>2. l[1] \in {"receipt", "uuid", "course", "id", "player", "entry"}
  BY DEF Locks
<1> QED
  BY <1>1, <1>2 DEF OwnsBelow, Lockings, Detour

LEMMA NoDeadlock ==
    ASSUME Inv, NEW D \in SUBSET Requests, Deadlocked(D), \A t \in D : ~ Detour(t)
    PROVE  FALSE
<1>1. \A t \in D : /\ Waits(t) /\ at[t] \in Lockings \ {"claimed"}
                   /\ Wanted(t) \in Locks /\ owner[Wanted(t)] \in D
                   /\ Wanted(t)[1] = at[t]
  <2> SUFFICES ASSUME NEW t \in D
               PROVE  /\ Waits(t) /\ at[t] \in Lockings \ {"claimed"}
                      /\ Wanted(t) \in Locks /\ owner[Wanted(t)] \in D
                      /\ Wanted(t)[1] = at[t]
    OBVIOUS
  <2>1. Waits(t) /\ at[t] \in Lockings \ {"claimed"} /\ owner[Wanted(t)] \in D
    BY DEF Deadlocked, Waits, Detour
  <2>2. Wanted(t) \in Locks /\ Wanted(t)[1] = at[t]
    BY <2>1, WantedIs DEF Lockings
  <2> QED
    BY <2>1, <2>2
<1>2. ASSUME NEW t \in D
      PROVE  \E h \in D :
               /\ at[t] # "entry"
               /\ at[t] = "player" => at[h] = "entry"
               /\ at[t] = "id" => at[h] \in {"player", "entry"}
               /\ at[t] = "course" => at[h] \in {"id", "player", "entry"}
               /\ at[t] = "uuid" => at[h] \in {"course", "player", "entry"}
               /\ at[h] # "receipt"
  <2> DEFINE l == Wanted(t)
             h == owner[l]
  <2>1. l \in Locks /\ h \in D /\ l[1] = at[t]
    BY <1>1
  <2>2. Waits(h) /\ ~ Detour(h) /\ h \in Requests /\ owner[l] = h
    BY <1>1, <2>1
  <2> HIDE DEF l, h
  <2>3. /\ l[1] \in {"receipt", "uuid", "course", "id", "player"}
        /\ l[1] = "player" => at[h] = "entry"
        /\ l[1] = "id" => at[h] \in {"player", "entry"}
        /\ l[1] = "course" => at[h] \in {"id", "player", "entry"}
        /\ l[1] = "uuid" => at[h] \in {"course", "player", "entry"}
        /\ at[h] # "receipt"
    BY <2>1, <2>2, HolderIsAhead
  <2> QED
    BY <2>1, <2>3
<1>3. \A t \in D : at[t] # "entry"
  BY <1>2
<1>4. \A t \in D : at[t] # "player"
  BY <1>2, <1>3
<1>5. \A t \in D : at[t] # "id"
  BY <1>2, <1>3, <1>4
<1>6. \A t \in D : at[t] # "course"
  BY <1>2, <1>3, <1>4, <1>5
<1>7. \A t \in D : at[t] # "uuid"
  BY <1>2, <1>3, <1>4, <1>6
<1>8. \A t \in D : at[t] = "receipt"
  BY <1>1, <1>3, <1>4, <1>5, <1>6, <1>7 DEF Lockings
<1>9. PICK t \in D : TRUE
  BY DEF Deadlocked
<1>10. \E h \in D : at[h] # "receipt"
  BY <1>2, <1>9
<1> QED
  BY <1>8, <1>10

(* Requests that all wait on each other include one on a detour: the sync   *)
(* that visits a claiming run (reconcile_claim), or the operator who        *)
(* verifies a claim (verify_record_identity_claim).                         *)
THEOREM DeadlockNeedsDetourHolds == Spec => []DeadlockNeedsDetour
<1>1. Inv => DeadlockNeedsDetour
  BY NoDeadlock DEF DeadlockNeedsDetour
<1> QED
  BY <1>1, Invariance, PTL

LEMMA StepChangesLocked ==
    ASSUME Inv, Next, NEW u \in Uuids, Touched(u)
    PROVE  \E t \in Requests : at[t] = "commit" /\ owner[<<"course", runs'[u]>>] = t
<1>1. PICK t \in Requests : Goes(t) \/ Break(t)
  BY DEF Next
<1>2. CASE UNCHANGED Tables
  BY <1>2 DEF Tables, Touched
<1>3. CASE Commit(t) /\ ~ Clash(t)
  <2>1. at[t] = "commit" /\ UNCHANGED <<job, home>> /\ Written(t)
    BY <1>3 DEF Commit
  <2>2. RunsChange(t) /\ ClaimsChange(t) /\ SourceChange(t) /\ PendingChange(t)
        /\ CourseOf(t) \in Courses
    BY <1>3, <2>1, CommitWrites
  <2>3. Holding(t) /\ InCourse(t)
    BY <2>1 DEF Inv, RequestOK, InCourse
  <2>4. owner[<<"course", CourseOf(t)>>] = t
    BY <2>3 DEF Holding
  <2>5. CASE runs'[u] = CourseOf(t)
    BY <2>1, <2>4, <2>5
  <2>6. CASE runs'[u] # CourseOf(t)
    <3>1. runs'[u] = runs[u]
      BY <2>2, <2>6 DEF RunsChange
    <3>2. \A x \in Ids : <<u, x>> \in claims' <=> <<u, x>> \in claims
      BY <2>2, <2>6 DEF ClaimsChange
    <3>3. \A x \in Ids : source'[x] = u <=> source[x] = u
      BY <2>2, <2>6, LocksAssumption DEF SourceChange
    <3>4. PICK x \in Ids : (<<u, x>> \in pending') # (<<u, x>> \in pending)
      BY <3>1, <3>2, <3>3 DEF Touched
    <3>5. u \in work[t].settle
      BY <2>2, <2>6, <3>4 DEF PendingChange
    <3> QED
      BY <2>1, <2>3, <3>1, <3>5 DEF Holding
  <2> QED
    BY <2>5, <2>6
<1>4. (Commit(t) /\ ~ Clash(t)) \/ UNCHANGED Tables
  BY <1>1 DEF Goes, Begin, LockReceipt, LockUuid, LockCourseUpload, LockCourse,
    LockCourseBackfill, LockId, LockEntry, Decide, LockPlayer, ResolveNative, ResolveMirror,
    NextClaim, LockClaimed, Commit, GiveUp, Retry, Break, Keep
<1> QED
  BY <1>2, <1>3, <1>4

(* A run, its claims, whether they wait, and its upstream id change only in *)
(* the commit of a request that holds the run's course: what lets a         *)
(* transaction count as one step elsewhere.                                 *)
THEOREM ChangesAreLockedHolds == Spec => ChangesAreLocked
<1> DEFINE A == \A u \in Uuids : Touched(u) =>
                   \E t \in Requests : at[t] = "commit" /\ owner[<<"course", runs'[u]>>] = t
<1>1. Inv /\ [Next]_vars => [A]_vars
  BY StepChangesLocked
<1> QED
  BY <1>1, Invariance, PTL DEF Spec, ChangesAreLocked
=============================================================================
