----------------------------- MODULE PbReadModel -----------------------------
(***************************************************************************)
(* What the leaderboards of one main course show (tables record_pb and     *)
(* cache.recent_wr_events) and how it follows the runs: crud/record.py and *)
(* crud/recent_wr.py.                                                      *)
(*                                                                         *)
(* Uploads, the mirroring of upstream runs, merges and re-enables refresh  *)
(* the leaderboards ("buckets") they touch.  A moderator's deletion only   *)
(* removes the entries of the deleted runs.  Each action is one            *)
(* transaction; PbRebuild looks at transactions that overlap.              *)
(*                                                                         *)
(* One mode scope, a validated map and players without a ban.  Of the      *)
(* points only 1000, the world record, is kept: no other rank earns it.    *)
(***************************************************************************)
EXTENDS Integers, FiniteSets

CONSTANTS
    None,
    Players,
    Runs,               \* record UUIDs, as numbers in their order
    Finishes,           \* what game servers upload
    Payloads,           \* what GlobalAPI shows, a corrected body included
    LEGACY_PRECISION    \* milliseconds

Types == {"NUB", "PRO"}

(* A finish has the UUID it will get, a payload the upstream id.            *)
Finish  == [uuid : Runs, player : Players, time : Nat, pro : BOOLEAN]
Payload == [id : Nat, player : Players, time : Nat, pro : BOOLEAN]

Run == [player : Players, time : Nat, pro : BOOLEAN,
        id : Nat \cup {None}, native : BOOLEAN, valid : BOOLEAN]

Entry == [run : Runs, time : Nat, wr : BOOLEAN]

ASSUME PbAssumption ==
    /\ Runs \subseteq Nat
    /\ None \notin Nat
    /\ None \notin Run
    /\ None \notin Entry
    /\ Finishes \subseteq Finish
    /\ Payloads \subseteq Payload
    /\ LEGACY_PRECISION \in Nat

VARIABLES
    runs,       \* table record: uuid -> run or None
    aliases,    \* table record_uuid_alias: UUIDs merged into others
    pb,         \* table record_pb: type -> player -> entry or None
    events      \* cache.recent_wr_events: <<uuid, type>>

vars == <<runs, aliases, pb, events>>

-----------------------------------------------------------------------------
BucketsOf(run) ==
    IF run = None \/ ~ run.valid THEN {}
    ELSE IF run.pro THEN Types ELSE {"NUB"}

Ranked(R, ty) == {r \in Runs : ty \in BucketsOf(R[r])}

RunsOf(R, ty, p) == {r \in Ranked(R, ty) : R[r].player = p}

IdBefore(a, b) == a # None /\ (b = None \/ a < b)

(* ORDER BY time, id NULLS LAST, uuid.                                      *)
Beats(R, r, s) ==
    \/ R[r].time < R[s].time
    \/ /\ R[r].time = R[s].time
       /\ \/ IdBefore(R[r].id, R[s].id)
          \/ R[r].id = R[s].id /\ r < s

Winner(R, ty, p) ==
    CHOOSE r \in RunsOf(R, ty, p) :
        \A s \in RunsOf(R, ty, p) \ {r} : Beats(R, r, s)

(* The time of an unchanged winner is not looked at again.                  *)
BugSyncedEntry(R, ty, p, entry, changed) ==
    IF RunsOf(R, ty, p) = {} THEN None
    ELSE LET w == Winner(R, ty, p)
         IN  IF entry # None /\ entry.run = w THEN entry
             ELSE [run |-> w, time |-> R[w].time, wr |-> entry # None /\ entry.wr]

(* A row is obsolete if its run is, not only if its player is.              *)
BugObsolete(R, ty, p, entry, changed) ==
    IF RunsOf(R, ty, p) = {} THEN None
    ELSE LET w == Winner(R, ty, p)
         IN  IF entry # None /\ entry.run # w THEN None
             ELSE [run |-> w, time |-> R[w].time, wr |-> entry # None /\ entry.wr]

(* One player's row in _sync_record_pb_bucket.                              *)
SyncedEntry(R, ty, p, entry, changed) ==
    IF RunsOf(R, ty, p) = {} THEN None
    ELSE LET w == Winner(R, ty, p)
         IN  IF entry # None /\ entry.run = w /\ w \notin changed THEN entry
             ELSE [run |-> w, time |-> R[w].time, wr |-> entry # None /\ entry.wr]

(* Equal times share the world record.                                      *)
BugPointed(bucket) ==
    [p \in Players |->
        IF bucket[p] = None THEN None
        ELSE [bucket[p] EXCEPT !.wr =
                \A q \in Players : bucket[q] # None => bucket[p].time <= bucket[q].time]]

(* rebuild_record_pb_points_bucket: ranked by time, then UUID.              *)
Pointed(bucket) ==
    [p \in Players |->
        IF bucket[p] = None THEN None
        ELSE [bucket[p] EXCEPT !.wr =
                \A q \in Players : bucket[q] # None =>
                    \/ bucket[p].time < bucket[q].time
                    \/ /\ bucket[p].time = bucket[q].time
                       /\ bucket[p].run <= bucket[q].run]]

(* rebuild_record_pb_buckets_for_keys: the whole bucket, not only the       *)
(* player's row.                                                            *)
Rebuilt(R, P, touched, changed) ==
    [ty \in Types |->
        IF ty \notin touched THEN P[ty]
        ELSE Pointed([p \in Players |-> SyncedEntry(R, ty, p, P[ty][p], changed)])]

WorldRecord(P, ty) ==
    {[player |-> p, run |-> P[ty][p].run, time |-> P[ty][p].time] :
        p \in {q \in Players : P[ty][q] # None /\ P[ty][q].wr}}

(* Superseded events go as well.                                            *)
BugRecentWrs(R, P, E) ==
    UNION {{<<w.run, ty>> : w \in {v \in WorldRecord(P, ty) : R[v.run].valid}} : ty \in Types}

(* rebuild_recent_wr_events_for_map: events of invalid runs go, those of    *)
(* the current world records come.                                          *)
RecentWrs(R, P, E) ==
    {e \in E : R[e[1]].valid}
    \cup UNION {{<<w.run, ty>> : w \in {v \in WorldRecord(P, ty) : R[v.run].valid}} :
                    ty \in Types}

(* Where the run no longer counts.                                         *)
BugTouched(before, after) == BucketsOf(after)

Touched(before, after) == BucketsOf(before) \cup BucketsOf(after)

(* _refresh_record_read_models_for_change                                   *)
Refreshed(R, P, E, before, after, changed) ==
    LET touched == Touched(before, after)
        Q == Rebuilt(R, P, touched, changed)
    IN  [pb |-> Q,
         events |-> IF \A ty \in touched : WorldRecord(P, ty) = WorldRecord(Q, ty)
                    THEN E ELSE RecentWrs(R, Q, E)]

(* The runs in R replace `runs`, and what they show is s.                   *)
Commit(R, s) == runs' = R /\ pb' = s.pb /\ events' = s.events

-----------------------------------------------------------------------------
Init ==
    /\ runs = [r \in Runs |-> None]
    /\ aliases = {}
    /\ pb = [ty \in Types |-> [p \in Players |-> None]]
    /\ events = {}

Fresh(r) == runs[r] = None /\ r \notin aliases

Mirrors == {m \in Runs : runs[m] # None /\ ~ runs[m].native}

(* statistics_match                                                         *)
Alike(a, b) ==
    /\ a.player = b.player
    /\ a.pro = b.pro
    /\ a.time - b.time <= LEGACY_PRECISION /\ b.time - a.time <= LEGACY_PRECISION

NativeRun(f, time) ==
    [player |-> f.player, time |-> time, pro |-> f.pro, id |-> None,
     native |-> TRUE, valid |-> TRUE]

Inserted(R, r, run) ==
    LET S == [R EXCEPT ![r] = run]
    IN  [runs |-> S, shown |-> Refreshed(S, pb, events, None, run, {})]

(* merge_records: the entries and events of m become n's, and the buckets   *)
(* of both are refreshed.                                                   *)
Moved(P, n, m) ==
    [ty \in Types |-> [p \in Players |->
        IF P[ty][p] # None /\ P[ty][p].run = m THEN [P[ty][p] EXCEPT !.run = n]
        ELSE P[ty][p]]]

MovedEvents(E, n, m) == {<<IF e[1] = m THEN n ELSE e[1], e[2]>> : e \in E}

MergedRun(a, b) == [a EXCEPT !.id = b.id, !.time = b.time, !.valid = a.valid /\ b.valid]

Merged(R, P, E, n, m) ==
    LET S == [R EXCEPT ![n] = MergedRun(R[n], R[m]), ![m] = None]
        before == [R[m] EXCEPT !.time = R[n].time, !.valid = R[n].valid \/ R[m].valid]
        changed == IF before.time # S[n].time THEN {n} ELSE {}
    IN  [runs |-> S,
         shown |-> Refreshed(S, Moved(P, n, m), MovedEvents(E, n, m), before, S[n], changed)]

(* A finish, without a mirror and with one.                                 *)
Upload(f) ==
    /\ Fresh(f.uuid)
    /\ LET i == Inserted(runs, f.uuid, NativeRun(f, f.time)) IN Commit(i.runs, i.shown)
    /\ UNCHANGED aliases

UploadMerged(f, m) ==
    /\ Fresh(f.uuid)
    /\ m \in Mirrors
    /\ Alike(f, runs[m])
    /\ LET i == Inserted(runs, f.uuid, NativeRun(f, runs[m].time))
           j == Merged(i.runs, i.shown.pb, i.shown.events, f.uuid, m)
       IN  Commit(j.runs, j.shown)
    /\ aliases' = aliases \cup {m}

(* A claim, or the operator.                                                *)
Merge(n, m) ==
    /\ runs[n] # None /\ runs[n].native /\ runs[n].id = None
    /\ m \in Mirrors
    /\ Alike(runs[n], runs[m])
    /\ LET j == Merged(runs, pb, events, n, m) IN Commit(j.runs, j.shown)
    /\ aliases' = aliases \cup {m}

(* upsert_record: a new mirror...                                           *)
Held(x) == \E r \in Runs : runs[r] # None /\ runs[r].id = x

MirrorRun(y, valid) ==
    [player |-> y.player, time |-> y.time, pro |-> y.pro, id |-> y.id,
     native |-> FALSE, valid |-> valid]

Mirror(y, m) ==
    /\ Fresh(m)
    /\ ~ Held(y.id)
    /\ LET i == Inserted(runs, m, MirrorRun(y, TRUE)) IN Commit(i.runs, i.shown)
    /\ UNCHANGED aliases

(* ... and the refresh of one.                                              *)
RefreshMirror(y, m) ==
    /\ m \in Mirrors
    /\ runs[m].id = y.id
    /\ LET R == [runs EXCEPT ![m] = MirrorRun(y, runs[m].valid)]
           changed == IF y.time # runs[m].time THEN {m} ELSE {}
       IN  Commit(R, Refreshed(R, pb, events, runs[m], R[m], changed))
    /\ UNCHANGED aliases

(* resolve_before_sync links a native run, and refreshes only if its time   *)
(* becomes another one.                                                     *)
Link(y, n) ==
    /\ ~ Held(y.id)
    /\ runs[n] # None /\ runs[n].native /\ runs[n].id = None
    /\ Alike(runs[n], y)
    /\ LET R == [runs EXCEPT ![n].id = y.id, ![n].time = y.time]
       IN  IF runs[n].time = y.time THEN runs' = R /\ UNCHANGED <<pb, events>>
           ELSE Commit(R, Refreshed(R, pb, events, runs[n], R[n], {n}))
    /\ UNCHANGED aliases

-----------------------------------------------------------------------------
Without(P, S) ==
    [ty \in Types |-> [p \in Players |->
        IF P[ty][p] # None /\ P[ty][p].run \in S THEN None ELSE P[ty][p]]]

(* soft_delete_records_with_audit on the runs of a bulk delete, or on one.  *)
SoftDelete(S) ==
    /\ S # {}
    /\ \A r \in S : runs[r] # None /\ runs[r].valid
    /\ runs' = [r \in Runs |-> IF r \in S THEN [runs[r] EXCEPT !.valid = FALSE] ELSE runs[r]]
    /\ pb' = Without(pb, S)
    /\ UNCHANGED <<aliases, events>>

Reenable(r) ==
    /\ runs[r] # None
    /\ LET R == [runs EXCEPT ![r].valid = TRUE]
       IN  Commit(R, Refreshed(R, pb, events, runs[r], R[r], {}))
    /\ UNCHANGED aliases

(* The daily pipeline and an administrator's request.                       *)
RebuildPoints(ty) ==
    /\ pb' = [pb EXCEPT ![ty] = Pointed(@)]
    /\ UNCHANGED <<runs, aliases, events>>

(* rebuild_record_pbs_for_course                                            *)
RebuildCourse ==
    /\ pb' = Rebuilt(runs, pb, Types, {})
    /\ UNCHANGED <<runs, aliases, events>>

Next ==
    \/ \E f \in Finishes : Upload(f) \/ \E m \in Runs : UploadMerged(f, m)
    \/ \E n, m \in Runs : Merge(n, m)
    \/ \E y \in Payloads, r \in Runs : Mirror(y, r) \/ RefreshMirror(y, r) \/ Link(y, r)
    \/ \E S \in SUBSET Runs : SoftDelete(S)
    \/ \E r \in Runs : Reenable(r)
    \/ \E ty \in Types : RebuildPoints(ty)
    \/ RebuildCourse

Spec == Init /\ [][Next]_vars
-----------------------------------------------------------------------------
TypeOK ==
    /\ runs \in [Runs -> Run \cup {None}]
    /\ aliases \subseteq {r \in Runs : runs[r] = None}
    /\ pb \in [Types -> [Players -> Entry \cup {None}]]
    /\ events \subseteq {r \in Runs : runs[r] # None} \X Types

(* A row of record_pb is a fastest valid run of its player in its bucket,   *)
(* with that run's time, whatever uploads, corrections, links, merges,      *)
(* deletions and re-enables came before.                                    *)
PbIsBest ==
    \A ty \in Types, p \in Players : pb[ty][p] # None =>
        LET e == pb[ty][p]
        IN  /\ e.run \in RunsOf(runs, ty, p)
            /\ e.time = runs[e.run].time
            /\ \A r \in RunsOf(runs, ty, p) : e.time <= runs[r].time

(* The run with 1000 points is the fastest of its leaderboard, and the only *)
(* one: nobody keeps a world record that was beaten, corrected or deleted.  *)
WrIsFastest ==
    \A ty \in Types, p, q \in Players :
        /\ pb[ty][p] # None /\ pb[ty][p].wr
        /\ pb[ty][q] # None
        => /\ pb[ty][p].time <= pb[ty][q].time
           /\ pb[ty][q].wr => p = q

(* Only a moderator's deletion takes a player who still has a valid run off *)
(* a leaderboard.                                                           *)
PbIsKept ==
    [][\A ty \in Types, p \in Players :
        /\ pb[ty][p] # None
        /\ pb'[ty][p] = None
        /\ RunsOf(runs', ty, p) # {}
        => \E S \in SUBSET Runs : SoftDelete(S)]_vars

(* "... without deleting superseded valid events": the event of a world     *)
(* record survives its being beaten, and its run's merge.                   *)
EventsAreKept ==
    [][\A e \in events :
        \/ e \in events'
        \/ \E r \in Runs : runs'[r] # None /\ ~ runs'[r].valid /\ r = e[1]
        \/ /\ e[1] \in aliases'
           /\ \E n \in Runs :
                /\ runs'[n] # None
                /\ runs'[n].id = runs[e[1]].id
                /\ <<n, e[2]>> \in events' \/ ~ runs'[n].valid]_vars
-----------------------------------------------------------------------------
(* For model checking: two players, three runs.  The upstream body of one   *)
(* of them is corrected by a millisecond, and once turns out to have used   *)
(* teleports.                                                               *)
MCFirst  == CHOOSE p \in Players : TRUE
MCSecond == CHOOSE p \in Players \ {MCFirst} : TRUE

MCFinishes ==
    {[uuid |-> 1, player |-> MCFirst, time |-> 11, pro |-> TRUE],
     [uuid |-> 3, player |-> MCFirst, time |-> 10, pro |-> TRUE],
     [uuid |-> 3, player |-> MCSecond, time |-> 11, pro |-> FALSE]}

MCPayloads ==
    {[id |-> 1, player |-> MCFirst, time |-> t, pro |-> TRUE] : t \in {10, 11}}
    \cup {[id |-> 1, player |-> MCFirst, time |-> 11, pro |-> FALSE],
          [id |-> 2, player |-> MCSecond, time |-> 11, pro |-> TRUE]}
=============================================================================
