-------------------------- MODULE PbReadModel_proofs --------------------------
(***************************************************************************)
(* What every committed transaction leaves on the leaderboards of a main   *)
(* course, for any runs, players, finishes and upstream bodies.            *)
(***************************************************************************)
EXTENDS PbReadModel, WellFoundedInduction, TLAPS

(* What the tables record, record_pb and recent_wr_events may hold.         *)
Table == [Runs -> Run \cup {None}]
Board == [Types -> [Players -> Entry \cup {None}]]
Shown(R) == {r \in Runs : R[r] # None} \X Types

IsBest(R, ty, p, e) ==
    /\ e.run \in RunsOf(R, ty, p)
    /\ e.time = R[e.run].time
    /\ \A r \in RunsOf(R, ty, p) : e.time <= R[r].time

(* Every entry of a bucket is a best run of its player.                     *)
Best(R, bucket, ty) == \A p \in Players : bucket[p] # None => IsBest(R, ty, p, bucket[p])

(* The world record of a bucket is a fastest entry, and the only one.       *)
First(bucket) ==
    \A p, q \in Players :
        bucket[p] # None /\ bucket[p].wr /\ bucket[q] # None =>
            /\ bucket[p].time <= bucket[q].time
            /\ bucket[q].wr => p = q

(* The tables as a transaction finds and leaves them.                       *)
Faithful(R, P, E) ==
    /\ R \in Table
    /\ P \in Board
    /\ E \subseteq Shown(R)
    /\ \A ty \in Types : Best(R, P[ty], ty) /\ First(P[ty])

(* An entry that is left alone because its run still wins has that run's    *)
(* time.                                                                    *)
Timed(R, bucket, ty, changed) ==
    \A p \in Players :
        bucket[p] # None /\ bucket[p].run \in RunsOf(R, ty, p) \ changed =>
            bucket[p].time = R[bucket[p].run].time

(* Buckets that are rebuilt from P to Q.                                    *)
Sound(R, P, touched, changed) == \A ty \in touched : Timed(R, P[ty], ty, changed)

Right(R, P, Q, touched) ==
    /\ Q \in Board
    /\ \A ty \in touched :
         /\ Best(R, Q[ty], ty) /\ First(Q[ty])
         /\ \A p \in Players : Q[ty][p] = None <=> RunsOf(R, ty, p) = {}
    /\ \A ty \in Types \ touched : Q[ty] = P[ty]
-----------------------------------------------------------------------------
Lt == {ss \in Nat \X Nat : ss[1] < ss[2]}

LEMMA LtWellFounded == IsWellFoundedOn(Lt, Nat)
BY NatLessThanWellFounded DEF OpToRel, Lt

LEMMA Least ==
    ASSUME NEW S, S \subseteq Nat, S # {}
    PROVE  \E x \in S : \A y \in S : x <= y
<1>1. PICK x \in S : \A y \in S : ~ (<<y, x>> \in Lt)
      BY LtWellFounded, WFMin
<1>2. \A k, l \in Nat : k < l => <<k, l>> \in Lt
  <2> TAKE k, l \in Nat
  <2> HAVE k < l
  <2>1. <<k, l>>[1] < <<k, l>>[2]
        OBVIOUS
  <2> QED BY <2>1 DEF Lt
<1>3. \A y \in S : ~ (y < x)
      BY <1>1, <1>2
<1> QED BY <1>3

(* Any runs have one that beats the others: first by time, then by the      *)
(* upstream id, then by UUID.                                               *)
LEMMA WinnerExists ==
    ASSUME NEW R \in Table, NEW T, T \subseteq Runs, T # {}, \A r \in T : R[r] # None
    PROVE  \E w \in T : \A s \in T \ {w} : Beats(R, w, s)
<1>1. \A r \in T : r \in Nat /\ R[r].time \in Nat /\ R[r].id \in Nat \cup {None}
      BY PbAssumption DEF Table, Run
<1>2. PICK t \in {R[r].time : r \in T} : \A r \in T : t <= R[r].time
  <2>1. {R[r].time : r \in T} \subseteq Nat /\ {R[r].time : r \in T} # {}
        BY <1>1
  <2>2. PICK t \in {R[r].time : r \in T} : \A y \in {R[r].time : r \in T} : t <= y
        BY ONLY <2>1, Least
  <2> QED BY <2>2
<1> DEFINE Fast == {r \in T : R[r].time = t}
           Known == {r \in Fast : R[r].id # None}
<1>3. Fast # {}
      OBVIOUS
<1>4. PICK x \in Nat \cup {None} :
          /\ \E r \in Fast : R[r].id = x
          /\ \A r \in Fast : R[r].id = x \/ IdBefore(x, R[r].id)
  <2>1. CASE Known = {}
        BY <1>3, <2>1
  <2>2. CASE Known # {}
    <3>1. {R[r].id : r \in Known} \subseteq Nat /\ {R[r].id : r \in Known} # {}
          BY <1>1, <2>2
    <3>2. PICK i \in {R[r].id : r \in Known} : \A y \in {R[r].id : r \in Known} : i <= y
          BY ONLY <3>1, Least
    <3>3. i \in Nat /\ i # None /\ \E r \in Fast : R[r].id = i
          BY <3>1, PbAssumption
    <3>4. ASSUME NEW r \in Fast PROVE R[r].id = i \/ IdBefore(i, R[r].id)
      <4>1. CASE R[r].id = None
            BY <3>3, <4>1 DEF IdBefore
      <4>2. CASE R[r].id # None
        <5>1. R[r].id \in Nat /\ i <= R[r].id
              BY <1>1, <3>2, <4>2
        <5> QED BY <3>3, <5>1 DEF IdBefore
      <4> QED BY <4>1, <4>2
    <3> QED BY <3>3, <3>4
  <2> QED BY <2>1, <2>2
<1> DEFINE Same == {r \in Fast : R[r].id = x}
<1>5. PICK w \in Same : \A s \in Same : w <= s
  <2>1. Same \subseteq Nat /\ Same # {}
        BY <1>1, <1>4
  <2> QED BY <2>1, Least
<1>6. ASSUME NEW s \in T \ {w} PROVE Beats(R, w, s)
  <2>1. R[w].time = t /\ R[w].id = x /\ w \in Nat /\ s \in Nat
        BY <1>1
  <2>2. CASE s \notin Fast
        BY <1>1, <1>2, <2>1, <2>2 DEF Beats
  <2>3. CASE s \in Fast \ Same
        BY <1>4, <2>1, <2>3 DEF Beats
  <2>4. CASE s \in Same
        BY <1>5, <2>1, <2>4 DEF Beats
  <2> QED BY <2>2, <2>3, <2>4
<1> QED BY <1>6

(* RunsOf holds runs of the player, and Winner is a fastest of them.        *)
LEMMA WinnerIsBest ==
    ASSUME NEW R \in Table, NEW ty \in Types, NEW p \in Players, RunsOf(R, ty, p) # {}
    PROVE  /\ Winner(R, ty, p) \in RunsOf(R, ty, p)
           /\ \A r \in RunsOf(R, ty, p) : R[Winner(R, ty, p)].time <= R[r].time
<1>1. RunsOf(R, ty, p) \subseteq Runs /\ \A r \in RunsOf(R, ty, p) : R[r] # None
      BY DEF RunsOf, Ranked, BucketsOf
<1>2. \A r \in RunsOf(R, ty, p) : R[r].time \in Nat
      BY <1>1 DEF Table, Run
<1>3. \E w \in RunsOf(R, ty, p) : \A s \in RunsOf(R, ty, p) \ {w} : Beats(R, w, s)
      BY <1>1, WinnerExists
<1>4. /\ Winner(R, ty, p) \in RunsOf(R, ty, p)
      /\ \A s \in RunsOf(R, ty, p) \ {Winner(R, ty, p)} : Beats(R, Winner(R, ty, p), s)
      BY <1>3 DEF Winner
<1> QED BY <1>2, <1>4 DEF Beats

LEMMA RunOf ==
    ASSUME NEW R \in Table, NEW ty \in Types, NEW p \in Players, NEW r \in RunsOf(R, ty, p)
    PROVE  /\ r \in Runs /\ r \in Nat /\ R[r] \in Run /\ R[r] # None
           /\ R[r].time \in Nat /\ R[r].player = p
BY PbAssumption DEF RunsOf, Ranked, BucketsOf, Table, Run
-----------------------------------------------------------------------------
(* One player's row after _sync_record_pb_bucket is a best run, and there   *)
(* is one if the player has a run that counts.                              *)
LEMMA SyncedIsBest ==
    ASSUME NEW R \in Table, NEW ty \in Types, NEW p \in Players,
           NEW entry \in Entry \cup {None}, NEW changed,
           entry # None /\ entry.run \in RunsOf(R, ty, p) \ changed =>
               entry.time = R[entry.run].time
    PROVE  LET e == SyncedEntry(R, ty, p, entry, changed)
           IN  /\ e \in Entry \cup {None}
               /\ e = None <=> RunsOf(R, ty, p) = {}
               /\ e # None => IsBest(R, ty, p, e)
<1> DEFINE e == SyncedEntry(R, ty, p, entry, changed)
           w == Winner(R, ty, p)
<1>1. CASE RunsOf(R, ty, p) = {}
      BY <1>1 DEF SyncedEntry
<1>2. CASE RunsOf(R, ty, p) # {}
  <2>1. /\ w \in RunsOf(R, ty, p) /\ w \in Runs /\ R[w].time \in Nat
        /\ \A r \in RunsOf(R, ty, p) : R[w].time <= R[r].time
        BY <1>2, WinnerIsBest, RunOf
  <2>2. CASE entry # None /\ entry.run = w /\ w \notin changed
    <3>1. e = entry /\ entry.time = R[w].time
          BY <1>2, <2>1, <2>2 DEF SyncedEntry
    <3> QED BY <1>2, <2>1, <2>2, <3>1 DEF IsBest
  <2>3. CASE ~ (entry # None /\ entry.run = w /\ w \notin changed)
    <3>1. e = [run |-> w, time |-> R[w].time, wr |-> entry # None /\ entry.wr]
          BY <1>2, <2>3 DEF SyncedEntry
    <3>2. (entry # None /\ entry.wr) \in BOOLEAN
          BY DEF Entry
    <3>3. e \in Entry /\ e.run = w /\ e.time = R[w].time
      <4> HIDE DEF w
      <4> QED BY <2>1, <3>1, <3>2 DEF Entry
    <3>4. e # None
          BY <3>3, PbAssumption
    <3> QED BY <1>2, <2>1, <3>3, <3>4 DEF IsBest
  <2> QED BY <2>2, <2>3
<1> QED BY <1>1, <1>2

(* rebuild_record_pb_points_bucket moves the points, and nothing else.      *)
LEMMA PointedKeeps ==
    ASSUME NEW bucket \in [Players -> Entry \cup {None}]
    PROVE  /\ Pointed(bucket) \in [Players -> Entry \cup {None}]
           /\ \A p \in Players : Pointed(bucket)[p] = None <=> bucket[p] = None
           /\ \A p \in Players : bucket[p] # None =>
                /\ Pointed(bucket)[p].run = bucket[p].run
                /\ Pointed(bucket)[p].time = bucket[p].time
                /\ Pointed(bucket)[p].wr =
                     \A q \in Players : bucket[q] # None =>
                        \/ bucket[p].time < bucket[q].time
                        \/ /\ bucket[p].time = bucket[q].time
                           /\ bucket[p].run <= bucket[q].run
<1>1. ASSUME NEW p \in Players, bucket[p] # None
      PROVE  /\ Pointed(bucket)[p] \in Entry
             /\ Pointed(bucket)[p].run = bucket[p].run
             /\ Pointed(bucket)[p].time = bucket[p].time
             /\ Pointed(bucket)[p].wr =
                  \A q \in Players : bucket[q] # None =>
                     \/ bucket[p].time < bucket[q].time
                     \/ /\ bucket[p].time = bucket[q].time
                        /\ bucket[p].run <= bucket[q].run
  <2> DEFINE ahead == \A q \in Players : bucket[q] # None =>
                        \/ bucket[p].time < bucket[q].time
                        \/ /\ bucket[p].time = bucket[q].time
                           /\ bucket[p].run <= bucket[q].run
             e == bucket[p]
  <2>1. Pointed(bucket)[p] = [e EXCEPT !.wr = ahead]
        BY <1>1 DEF Pointed
  <2>2. e \in Entry /\ ahead \in BOOLEAN
        BY <1>1
  <2> HIDE DEF ahead, e
  <2>3. /\ [e EXCEPT !.wr = ahead] \in Entry
        /\ [e EXCEPT !.wr = ahead].run = e.run
        /\ [e EXCEPT !.wr = ahead].time = e.time
        /\ [e EXCEPT !.wr = ahead].wr = ahead
        BY <2>2 DEF Entry
  <2> USE DEF ahead, e
  <2> QED BY <2>1, <2>3
<1>2. \A p \in Players : bucket[p] = None => Pointed(bucket)[p] = None
      BY DEF Pointed
<1>3. \A p \in Players : bucket[p] # None => Pointed(bucket)[p] # None
      BY <1>1, PbAssumption
<1>4. Pointed(bucket) \in [Players -> Entry \cup {None}]
  <2>1. \A p \in Players : Pointed(bucket)[p] \in Entry \cup {None}
        BY <1>1, <1>2
  <2> QED BY <2>1 DEF Pointed
<1> QED BY <1>1, <1>2, <1>3, <1>4

LEMMA PointedIsFirst ==
    ASSUME NEW R \in Table, NEW ty \in Types,
           NEW bucket \in [Players -> Entry \cup {None}], Best(R, bucket, ty)
    PROVE  Best(R, Pointed(bucket), ty) /\ First(Pointed(bucket))
<1>1. ASSUME NEW p \in Players, Pointed(bucket)[p] # None
      PROVE  IsBest(R, ty, p, Pointed(bucket)[p])
  <2>1. /\ bucket[p] # None /\ Pointed(bucket)[p].run = bucket[p].run
        /\ Pointed(bucket)[p].time = bucket[p].time
        BY <1>1, PointedKeeps
  <2>2. IsBest(R, ty, p, bucket[p])
        BY <2>1 DEF Best
  <2> QED BY <2>1, <2>2 DEF IsBest
<1>2. First(Pointed(bucket))
  <2> SUFFICES ASSUME NEW p \in Players, NEW q \in Players,
                      Pointed(bucket)[p] # None, Pointed(bucket)[p].wr,
                      Pointed(bucket)[q] # None
               PROVE  /\ Pointed(bucket)[p].time <= Pointed(bucket)[q].time
                      /\ Pointed(bucket)[q].wr => p = q
      BY DEF First
  <2>1. bucket[p] # None /\ bucket[q] # None
        BY PointedKeeps
  <2>2. /\ bucket[p].run \in Nat /\ bucket[p].time \in Nat
        /\ bucket[q].run \in Nat /\ bucket[q].time \in Nat
        BY <2>1, PbAssumption DEF Entry
  <2>3. \/ bucket[p].time < bucket[q].time
        \/ bucket[p].time = bucket[q].time /\ bucket[p].run <= bucket[q].run
        BY <2>1, PointedKeeps
  <2>4. Pointed(bucket)[q].wr =>
            \/ bucket[q].time < bucket[p].time
            \/ bucket[q].time = bucket[p].time /\ bucket[q].run <= bucket[p].run
        BY <2>1, PointedKeeps
  <2>5. Pointed(bucket)[q].wr => bucket[p].run = bucket[q].run
        BY <2>2, <2>3, <2>4
  <2>6. bucket[p].run = bucket[q].run => p = q
        BY <2>1, RunOf DEF Best, IsBest
  <2>7. Pointed(bucket)[p].time = bucket[p].time /\ Pointed(bucket)[q].time = bucket[q].time
        BY <2>1, PointedKeeps
  <2> QED BY <2>2, <2>3, <2>5, <2>6, <2>7
<1> QED BY <1>1, <1>2 DEF Best

(* rebuild_record_pb_buckets_for_keys: whatever the touched buckets held    *)
(* before, they are right afterwards, and nobody with a run is missing.     *)
LEMMA RebuiltIsRight ==
    ASSUME NEW R \in Table, NEW P \in Board, NEW touched \in SUBSET Types, NEW changed,
           Sound(R, P, touched, changed)
    PROVE  Right(R, P, Rebuilt(R, P, touched, changed), touched)
<1> DEFINE Q == Rebuilt(R, P, touched, changed)
           B(ty) == [p \in Players |-> SyncedEntry(R, ty, p, P[ty][p], changed)]
<1>1. \A ty \in Types \ touched : Q[ty] = P[ty]
      BY DEF Rebuilt
<1>2. ASSUME NEW ty \in touched
      PROVE  /\ Q[ty] \in [Players -> Entry \cup {None}]
             /\ Best(R, Q[ty], ty) /\ First(Q[ty])
             /\ \A p \in Players : Q[ty][p] = None <=> RunsOf(R, ty, p) = {}
  <2>1. Q[ty] = Pointed(B(ty))
        BY DEF Rebuilt
  <2>2. ASSUME NEW p \in Players
        PROVE  /\ B(ty)[p] \in Entry \cup {None}
               /\ B(ty)[p] = None <=> RunsOf(R, ty, p) = {}
               /\ B(ty)[p] # None => IsBest(R, ty, p, B(ty)[p])
    <3>1. P[ty][p] \in Entry \cup {None}
          BY DEF Board
    <3>2. P[ty][p] # None /\ P[ty][p].run \in RunsOf(R, ty, p) \ changed =>
              P[ty][p].time = R[P[ty][p].run].time
          BY DEF Sound, Timed
    <3> QED BY <3>1, <3>2, SyncedIsBest
  <2>3. B(ty) \in [Players -> Entry \cup {None}] /\ Best(R, B(ty), ty)
        BY <2>2 DEF Best
  <2> HIDE DEF B, Q
  <2>4. Best(R, Pointed(B(ty)), ty) /\ First(Pointed(B(ty)))
        BY <2>3, PointedIsFirst
  <2>5. /\ Pointed(B(ty)) \in [Players -> Entry \cup {None}]
        /\ \A p \in Players : Pointed(B(ty))[p] = None <=> B(ty)[p] = None
        BY <2>3, PointedKeeps
  <2> QED BY <2>1, <2>2, <2>4, <2>5
<1>3. Q \in Board
  <2>1. \A ty \in Types : Q[ty] \in [Players -> Entry \cup {None}]
        BY <1>1, <1>2 DEF Board
  <2> QED BY <2>1 DEF Board, Rebuilt
<1> QED BY <1>1, <1>2, <1>3 DEF Right

LEMMA TouchedTypes ==
    ASSUME NEW before, NEW after
    PROVE  Touched(before, after) \subseteq Types
BY DEF Touched, BucketsOf, Types

(* The events of world records name runs that exist.                        *)
LEMMA RecentWrsShown ==
    ASSUME NEW R, NEW Q \in Board, NEW E, E \subseteq Shown(R),
           \A ty \in Types : Best(R, Q[ty], ty)
    PROVE  /\ RecentWrs(R, Q, E) \subseteq Shown(R)
           /\ \A e \in E : R[e[1]].valid => e \in RecentWrs(R, Q, E)
<1>1. ASSUME NEW ty \in Types, NEW w \in WorldRecord(Q, ty)
      PROVE  <<w.run, ty>> \in Shown(R)
  <2>1. PICK p \in Players : Q[ty][p] # None /\ w.run = Q[ty][p].run
        BY DEF WorldRecord
  <2>2. w.run \in RunsOf(R, ty, p)
        BY <2>1 DEF Best, IsBest
  <2>3. w.run \in Runs /\ R[w.run] # None
        BY <2>2 DEF RunsOf, Ranked, BucketsOf
  <2> QED BY <2>3 DEF Shown
<1>2. \A x \in RecentWrs(R, Q, E) :
          x \in E \/ \E ty \in Types : \E w \in WorldRecord(Q, ty) : x = <<w.run, ty>>
      BY DEF RecentWrs
<1> QED BY <1>1, <1>2 DEF RecentWrs

(* _refresh_record_read_models_for_change leaves the leaderboards right if  *)
(* it is told of every bucket and run that changed.                         *)
LEMMA RefreshedIsRight ==
    ASSUME NEW R \in Table, NEW P \in Board, NEW E, E \subseteq Shown(R),
           NEW before, NEW after, NEW changed,
           Sound(R, P, Touched(before, after), changed),
           \A ty \in Types \ Touched(before, after) : Best(R, P[ty], ty) /\ First(P[ty])
    PROVE  LET s == Refreshed(R, P, E, before, after, changed)
           IN  /\ Faithful(R, s.pb, s.events)
               /\ \A ty \in Types, p \in Players :
                    P[ty][p] # None /\ RunsOf(R, ty, p) # {} => s.pb[ty][p] # None
               /\ \A e \in E : e \in s.events \/ ~ R[e[1]].valid
<1> DEFINE touched == Touched(before, after)
           s == Refreshed(R, P, E, before, after, changed)
           Q == Rebuilt(R, P, touched, changed)
<1>1. /\ touched \in SUBSET Types
      /\ Sound(R, P, touched, changed)
      /\ \A ty \in Types \ touched : Best(R, P[ty], ty) /\ First(P[ty])
      BY TouchedTypes
<1>2. s.pb = Q /\ s.events \in {E, RecentWrs(R, Q, E)}
      BY DEF Refreshed
<1> HIDE DEF touched, s
<1>3. Right(R, P, Q, touched)
      BY <1>1, RebuiltIsRight
<1> HIDE DEF Q
<1>4. /\ Q \in Board
      /\ \A ty \in touched :
           /\ Best(R, Q[ty], ty) /\ First(Q[ty])
           /\ \A p \in Players : Q[ty][p] = None <=> RunsOf(R, ty, p) = {}
      /\ \A ty \in Types \ touched : Q[ty] = P[ty]
      BY <1>3 DEF Right
<1>5. \A ty \in Types : Best(R, Q[ty], ty) /\ First(Q[ty])
      BY <1>1, <1>4
<1>6. s.events \subseteq Shown(R) /\ \A e \in E : e \in s.events \/ ~ R[e[1]].valid
      BY <1>2, <1>4, <1>5, RecentWrsShown
<1>7. \A ty \in Types, p \in Players :
          P[ty][p] # None /\ RunsOf(R, ty, p) # {} => s.pb[ty][p] # None
      BY <1>2, <1>4
<1>8. Faithful(R, s.pb, s.events)
      BY <1>2, <1>4, <1>5, <1>6 DEF Faithful
<1> QED BY <1>6, <1>7, <1>8 DEF s

(* One run is new or replaced, and the refresh is told what it was, what it *)
(* is and whether its time is another one.                                  *)
LEMMA ReplacedIsRight ==
    ASSUME NEW R, NEW P, NEW E, Faithful(R, P, E),
           NEW r \in Runs, NEW run \in Run, NEW changed,
           R[r] # None /\ R[r].time # run.time => r \in changed
    PROVE  LET S == [R EXCEPT ![r] = run]
               s == Refreshed(S, P, E, R[r], run, changed)
           IN  /\ Faithful(S, s.pb, s.events)
               /\ \A ty \in Types, p \in Players :
                    P[ty][p] # None /\ RunsOf(S, ty, p) # {} => s.pb[ty][p] # None
               /\ \A e \in E : e \in s.events \/ ~ S[e[1]].valid
<1> DEFINE S == [R EXCEPT ![r] = run]
<1> USE DEF Faithful
<1>1. S \in Table /\ S[r] = run /\ \A x \in Runs \ {r} : S[x] = R[x]
      BY DEF Table
<1>2. E \subseteq Shown(S)
      BY <1>1, PbAssumption DEF Shown
<1> HIDE DEF S
<1>3. ASSUME NEW ty \in Types, NEW p \in Players, NEW x \in RunsOf(R, ty, p), x # r
      PROVE  x \in RunsOf(S, ty, p) /\ S[x] = R[x]
      BY <1>1, <1>3 DEF RunsOf, Ranked
<1>4. ASSUME NEW ty \in Touched(R[r], run) PROVE Timed(S, P[ty], ty, changed)
  <2> SUFFICES ASSUME NEW p \in Players, P[ty][p] # None,
                      P[ty][p].run \in RunsOf(S, ty, p) \ changed
               PROVE  P[ty][p].time = S[P[ty][p].run].time
      BY DEF Timed
  <2>1. ty \in Types
        BY TouchedTypes
  <2>2. P[ty][p].run \in RunsOf(R, ty, p) /\ P[ty][p].time = R[P[ty][p].run].time
        BY <2>1 DEF Best, IsBest
  <2>3. CASE P[ty][p].run = r
    <3>1. R[r] # None
          BY <2>1, <2>2, <2>3, RunOf
    <3> QED BY <1>1, <2>2, <2>3, <3>1
  <2>4. CASE P[ty][p].run # r
        BY <1>3, <2>1, <2>2, <2>4
  <2> QED BY <2>3, <2>4
<1>5. ASSUME NEW ty \in Types \ Touched(R[r], run) PROVE Best(S, P[ty], ty)
  <2>1. ASSUME NEW p \in Players PROVE RunsOf(S, ty, p) = RunsOf(R, ty, p)
        BY <1>1 DEF RunsOf, Ranked, Touched
  <2>2. ASSUME NEW p \in Players, NEW x \in RunsOf(R, ty, p) PROVE S[x] = R[x]
        BY <1>1 DEF RunsOf, Ranked, Touched
  <2>3. Best(R, P[ty], ty)
        OBVIOUS
  <2> QED BY <2>1, <2>2, <2>3 DEF Best, IsBest
<1>6. \A ty \in Types \ Touched(R[r], run) : Best(S, P[ty], ty) /\ First(P[ty])
      BY <1>5
<1> HIDE DEF Faithful
<1>7. P \in Board
      BY DEF Faithful
<1>8. Sound(S, P, Touched(R[r], run), changed)
      BY <1>4 DEF Sound
<1> QED BY <1>1, <1>2, <1>6, <1>7, <1>8, RefreshedIsRight DEF S

-----------------------------------------------------------------------------
(* merge_records gives the entries of m to n, and changes nothing else of   *)
(* them.                                                                    *)
LEMMA MovedKeeps ==
    ASSUME NEW P \in Board, NEW n \in Runs, NEW m \in Runs
    PROVE  /\ Moved(P, n, m) \in Board
           /\ \A ty \in Types, p \in Players :
                /\ Moved(P, n, m)[ty][p] = None <=> P[ty][p] = None
                /\ P[ty][p] # None =>
                     /\ Moved(P, n, m)[ty][p].run = IF P[ty][p].run = m THEN n ELSE P[ty][p].run
                     /\ Moved(P, n, m)[ty][p].time = P[ty][p].time
                     /\ Moved(P, n, m)[ty][p].wr = P[ty][p].wr
<1> DEFINE M == Moved(P, n, m)
<1>1. ASSUME NEW ty \in Types, NEW p \in Players
      PROVE  /\ M[ty][p] \in Entry \cup {None}
             /\ M[ty][p] = None <=> P[ty][p] = None
             /\ P[ty][p] # None =>
                  /\ M[ty][p].run = IF P[ty][p].run = m THEN n ELSE P[ty][p].run
                  /\ M[ty][p].time = P[ty][p].time
                  /\ M[ty][p].wr = P[ty][p].wr
  <2> DEFINE e == P[ty][p]
  <2>1. M[ty][p] = IF e # None /\ e.run = m THEN [e EXCEPT !.run = n] ELSE e
        BY DEF Moved
  <2>2. e \in Entry \cup {None}
        BY DEF Board
  <2> HIDE DEF e, M
  <2>3. CASE e # None /\ e.run = m
    <3>1. /\ [e EXCEPT !.run = n] \in Entry
          /\ [e EXCEPT !.run = n].run = n
          /\ [e EXCEPT !.run = n].time = e.time
          /\ [e EXCEPT !.run = n].wr = e.wr
          BY <2>2, <2>3 DEF Entry
    <3> QED BY <2>1, <2>3, <3>1, PbAssumption DEF e
  <2>4. CASE ~ (e # None /\ e.run = m)
        BY <2>1, <2>2, <2>4 DEF e
  <2> QED BY <2>3, <2>4
<1>2. M \in Board
  <2>1. \A ty \in Types : M[ty] \in [Players -> Entry \cup {None}]
    <3> TAKE ty \in Types
    <3>1. M[ty] = [p \in Players |-> M[ty][p]]
          BY DEF Moved
    <3> HIDE DEF M
    <3> QED BY <1>1, <3>1
  <2> QED BY <2>1 DEF Board, Moved
<1> QED BY <1>1, <1>2

MergedTable(R, n, m) == [R EXCEPT ![n] = MergedRun(R[n], R[m]), ![m] = None]

(* The rows of a merge: the run keeps its UUID and takes the mirror's id    *)
(* and time, the mirror's row goes.                                         *)
LEMMA MergedRuns ==
    ASSUME NEW R \in Table, NEW n \in Runs, NEW m \in Runs, n # m,
           R[n] # None, R[m] # None
    PROVE  LET S == MergedTable(R, n, m)
           IN  /\ S \in Table /\ S[m] = None
               /\ S[n] \in Run /\ S[n] # None
               /\ S[n].player = R[n].player /\ S[n].pro = R[n].pro
               /\ S[n].id = R[m].id /\ S[n].time = R[m].time
               /\ S[n].valid = (R[n].valid /\ R[m].valid)
               /\ \A x \in Runs \ {n, m} : S[x] = R[x]
<1> DEFINE S == MergedTable(R, n, m)
           a == R[n]
           b == R[m]
           c == MergedRun(a, b)
<1>1. a \in Run /\ b \in Run
      BY DEF Table
<1>2. S \in [Runs -> Run \cup {None, c}] /\ S[m] = None /\ S[n] = c
      /\ \A x \in Runs \ {n, m} : S[x] = R[x]
      BY DEF Table, MergedTable
<1> HIDE DEF a, b, S
<1>3. /\ c \in Run /\ c.player = a.player /\ c.pro = a.pro /\ c.id = b.id
      /\ c.time = b.time /\ c.valid = (a.valid /\ b.valid)
      BY <1>1 DEF MergedRun, Run
<1>4. c # None
      BY <1>3, PbAssumption
<1> HIDE DEF c
<1> QED BY <1>2, <1>3, <1>4 DEF Table, S, a, b

Renamed(e, n, m) == <<IF e[1] = m THEN n ELSE e[1], e[2]>>

(* A merge leaves the leaderboards right, takes nobody off them, and keeps  *)
(* the events of both rows, unless their run is invalid.                    *)
LEMMA MergedIsRight ==
    ASSUME NEW R, NEW P, NEW E, Faithful(R, P, E),
           NEW n \in Runs, NEW m \in Runs, n # m, R[n] # None, R[m] # None,
           R[n].player = R[m].player, R[n].pro = R[m].pro
    PROVE  LET j == Merged(R, P, E, n, m)
           IN  /\ Faithful(j.runs, j.shown.pb, j.shown.events)
               /\ j.runs[m] = None /\ j.runs[n] # None /\ j.runs[n].id = R[m].id
               /\ j.runs[n].valid = (R[n].valid /\ R[m].valid)
               /\ \A x \in Runs \ {n, m} : j.runs[x] = R[x]
               /\ \A ty \in Types, p \in Players :
                    P[ty][p] # None /\ RunsOf(j.runs, ty, p) # {} => j.shown.pb[ty][p] # None
               /\ \A e \in E : \/ Renamed(e, n, m) \in j.shown.events
                               \/ ~ j.runs[Renamed(e, n, m)[1]].valid
<1> DEFINE S == MergedTable(R, n, m)
           b == R[m]
           before == [b EXCEPT !.time = R[n].time, !.valid = R[n].valid \/ b.valid]
           changed == IF before.time # S[n].time THEN {n} ELSE {}
           M == Moved(P, n, m)
           F == MovedEvents(E, n, m)
           j == Merged(R, P, E, n, m)
           s == Refreshed(S, M, F, before, S[n], changed)
           touched == Touched(before, S[n])
<1>1. j.runs = S /\ j.shown = s
      BY DEF Merged, MergedTable
<1>2. R \in Table /\ P \in Board /\ E \subseteq Shown(R) /\ R[n] \in Run /\ R[m] \in Run
      BY DEF Faithful, Table
<1>3. /\ S \in Table /\ S[m] = None
      /\ S[n] \in Run /\ S[n] # None
      /\ S[n].player = R[n].player /\ S[n].pro = R[n].pro
      /\ S[n].id = R[m].id /\ S[n].time = R[m].time
      /\ S[n].valid = (R[n].valid /\ R[m].valid)
      /\ \A x \in Runs \ {n, m} : S[x] = R[x]
      BY <1>2, MergedRuns
<1>4. /\ before \in Run /\ before.pro = R[m].pro /\ before.time = R[n].time
      /\ before.valid = (R[n].valid \/ R[m].valid)
  <2>1. b \in Run /\ R[n].time \in Nat /\ (R[n].valid \/ b.valid) \in BOOLEAN
        BY <1>2 DEF Run
  <2> HIDE DEF b
  <2>2. /\ before \in Run /\ before.pro = b.pro /\ before.time = R[n].time
        /\ before.valid = (R[n].valid \/ b.valid)
        BY <2>1 DEF Run
  <2> QED BY <2>2 DEF b
<1>5. before.time = S[n].time \/ n \in changed
      OBVIOUS
<1> HIDE DEF S, before, changed, j
<1>6. ASSUME NEW ty \in Types \ touched
      PROVE  ty \notin BucketsOf(R[n]) \cup BucketsOf(R[m]) \cup BucketsOf(S[n])
  <2>1. ty \notin BucketsOf(before) /\ ty \notin BucketsOf(S[n])
        BY DEF Touched
  <2>2. before # None
        BY <1>4, PbAssumption
  <2> QED BY <1>4, <2>1, <2>2 DEF BucketsOf
<1>7. /\ M \in Board
      /\ \A ty \in Types, p \in Players :
           /\ M[ty][p] = None <=> P[ty][p] = None
           /\ P[ty][p] # None =>
                /\ M[ty][p].run = IF P[ty][p].run = m THEN n ELSE P[ty][p].run
                /\ M[ty][p].time = P[ty][p].time
                /\ M[ty][p].wr = P[ty][p].wr
      BY <1>2, MovedKeeps
<1> HIDE DEF M
<1>8. \A ty \in Types, p \in Players : P[ty][p] # None => IsBest(R, ty, p, P[ty][p])
      BY DEF Faithful, Best
<1>9. Sound(S, M, touched, changed)
  <2> SUFFICES ASSUME NEW ty \in touched, NEW p \in Players, M[ty][p] # None,
                      M[ty][p].run \in RunsOf(S, ty, p) \ changed
               PROVE  M[ty][p].time = S[M[ty][p].run].time
      BY DEF Sound, Timed
  <2>1. ty \in Types
        BY TouchedTypes
  <2> DEFINE e == P[ty][p]
  <2>2. e # None /\ IsBest(R, ty, p, e)
        BY <1>7, <1>8, <2>1
  <2>3. e.run \in Runs /\ e.time = R[e.run].time
        BY <1>2, <2>1, <2>2, RunOf DEF IsBest
  <2>4. M[ty][p].time = e.time /\ M[ty][p].run = IF e.run = m THEN n ELSE e.run
        BY <1>7, <2>1, <2>2
  <2>5. CASE e.run = m
        BY <1>3, <2>3, <2>4, <2>5
  <2>6. CASE e.run = n
        BY <1>4, <1>5, <2>3, <2>4, <2>6
  <2>7. CASE e.run \notin {n, m}
        BY <1>3, <2>3, <2>4, <2>7
  <2> QED BY <2>5, <2>6, <2>7
<1>10. ASSUME NEW ty \in Types \ touched PROVE Best(S, M[ty], ty) /\ First(M[ty])
  <2>1. ASSUME NEW p \in Players
        PROVE  /\ RunsOf(S, ty, p) = RunsOf(R, ty, p)
               /\ \A x \in RunsOf(R, ty, p) : x \notin {n, m} /\ S[x] = R[x]
        BY <1>3, <1>6 DEF RunsOf, Ranked, BucketsOf
  <2>2. ASSUME NEW p \in Players, P[ty][p] # None
        PROVE  /\ M[ty][p].run = P[ty][p].run /\ M[ty][p].time = P[ty][p].time
               /\ M[ty][p].wr = P[ty][p].wr /\ IsBest(R, ty, p, P[ty][p])
    <3>1. IsBest(R, ty, p, P[ty][p])
          BY <1>8, <2>2
    <3>2. P[ty][p].run # m
          BY <2>1, <3>1 DEF IsBest
    <3> QED BY <1>7, <2>2, <3>1, <3>2
  <2>3. ASSUME NEW p \in Players, M[ty][p] # None
        PROVE  IsBest(S, ty, p, M[ty][p])
    <3>1. P[ty][p] # None
          BY <1>7, <2>3
    <3> QED BY <2>1, <2>2, <3>1 DEF IsBest
  <2>4. First(P[ty])
        BY DEF Faithful
  <2>5. First(M[ty])
        BY <1>7, <2>2, <2>4 DEF First
  <2> QED BY <2>3, <2>5 DEF Best
<1>11. F \subseteq Shown(S) /\ \A e \in E : Renamed(e, n, m) \in F
  <2>1. F = {Renamed(e, n, m) : e \in E}
        BY DEF MovedEvents, Renamed
  <2>2. ASSUME NEW e \in E PROVE Renamed(e, n, m) \in Shown(S)
    <3>1. e[1] \in Runs /\ R[e[1]] # None /\ e[2] \in Types
          BY <1>2 DEF Shown
    <3>2. S[IF e[1] = m THEN n ELSE e[1]] # None
          BY <1>3, <3>1
    <3> QED BY <3>1, <3>2 DEF Shown, Renamed
  <2> QED BY <2>1, <2>2
<1> HIDE DEF F
<1>12. /\ Faithful(S, s.pb, s.events)
       /\ \A ty \in Types, p \in Players :
            M[ty][p] # None /\ RunsOf(S, ty, p) # {} => s.pb[ty][p] # None
       /\ \A e \in F : e \in s.events \/ ~ S[e[1]].valid
  <2>1. \A ty \in Types \ Touched(before, S[n]) : Best(S, M[ty], ty) /\ First(M[ty])
        BY <1>10
  <2> QED BY <1>3, <1>7, <1>9, <1>11, <2>1, RefreshedIsRight
<1> HIDE DEF s
<1>13. \A ty \in Types, p \in Players :
           P[ty][p] # None /\ RunsOf(S, ty, p) # {} => s.pb[ty][p] # None
       BY <1>7, <1>12
<1>14. \A e \in E : Renamed(e, n, m) \in s.events \/ ~ S[Renamed(e, n, m)[1]].valid
       BY <1>11, <1>12
<1>15. /\ j.runs[m] = None /\ j.runs[n] # None /\ j.runs[n].id = R[m].id
       /\ j.runs[n].valid = (R[n].valid /\ R[m].valid)
       /\ \A x \in Runs \ {n, m} : j.runs[x] = R[x]
       BY <1>1, <1>3
<1> QED BY <1>1, <1>12, <1>13, <1>14, <1>15 DEF j

-----------------------------------------------------------------------------
(* The inductive invariant: the tables are faithful, and a UUID that was    *)
(* merged away stays free.                                                  *)
ReadModel ==
    /\ Faithful(runs, pb, events)
    /\ aliases \subseteq {r \in Runs : runs[r] = None}

(* What a step that is no deletion does to rows and events.                 *)
RowsStay ==
    \A ty \in Types, p \in Players :
        pb[ty][p] # None /\ RunsOf(runs', ty, p) # {} => pb'[ty][p] # None

EventStays(e) ==
    \/ e \in events'
    \/ \E r \in Runs : runs'[r] # None /\ ~ runs'[r].valid /\ r = e[1]
    \/ /\ e[1] \in aliases'
       /\ \E n \in Runs :
            /\ runs'[n] # None
            /\ runs'[n].id = runs[e[1]].id
            /\ <<n, e[2]>> \in events' \/ ~ runs'[n].valid

Outcome == ReadModel' /\ RowsStay /\ \A e \in events : EventStays(e)

LEMMA InitReadModel == Init => ReadModel
<1> SUFFICES ASSUME Init PROVE ReadModel
    OBVIOUS
<1>1. runs \in Table /\ pb \in Board
      BY DEF Init, Table, Board
<1>2. \A ty \in Types : Best(runs, pb[ty], ty) /\ First(pb[ty])
      BY DEF Init, Best, First
<1> QED BY <1>1, <1>2 DEF Init, ReadModel, Faithful, Shown

(* One run was replaced, and the leaderboards refreshed.                    *)
LEMMA ReplacedOutcome ==
    ASSUME ReadModel, NEW r \in Runs \ aliases, NEW run \in Run, NEW changed,
           runs[r] # None /\ runs[r].time # run.time => r \in changed,
           Commit([runs EXCEPT ![r] = run],
                  Refreshed([runs EXCEPT ![r] = run], pb, events, runs[r], run, changed)),
           UNCHANGED aliases
    PROVE  Outcome
<1> DEFINE S == [runs EXCEPT ![r] = run]
           s == Refreshed(S, pb, events, runs[r], run, changed)
<1>1. runs' = S /\ pb' = s.pb /\ events' = s.events
      BY DEF Commit
<1>2. Faithful(runs, pb, events)
      BY DEF ReadModel
<1>3. /\ Faithful(S, s.pb, s.events)
      /\ \A ty \in Types, p \in Players :
           pb[ty][p] # None /\ RunsOf(S, ty, p) # {} => s.pb[ty][p] # None
      /\ \A e \in events : e \in s.events \/ ~ S[e[1]].valid
      BY <1>2, ReplacedIsRight
<1>4. \A x \in Runs : x # r => S[x] = runs[x]
      BY <1>2 DEF Faithful, Table
<1>5. S[r] # None
      BY <1>2, PbAssumption DEF Faithful, Table
<1>6. \A e \in events : e[1] \in Runs /\ S[e[1]] # None
      BY <1>2, <1>4, <1>5 DEF Faithful, Shown
<1> HIDE DEF S, s
<1>7. aliases' \subseteq {x \in Runs : runs'[x] = None}
      BY <1>1, <1>4 DEF ReadModel
<1>8. ReadModel' /\ RowsStay
      BY <1>1, <1>3, <1>7 DEF ReadModel, RowsStay
<1>9. \A e \in events : EventStays(e)
      BY <1>1, <1>3, <1>6 DEF EventStays
<1> QED BY <1>8, <1>9 DEF Outcome

LEMMA Inputs ==
    /\ \A f \in Finishes : /\ f.uuid \in Runs
                           /\ \A t \in Nat : NativeRun(f, t) \in Run
    /\ \A y \in Payloads, v \in BOOLEAN : MirrorRun(y, v) \in Run
<1>1. ASSUME NEW f \in Finishes, NEW t \in Nat
      PROVE  f.uuid \in Runs /\ NativeRun(f, t) \in Run
      BY PbAssumption DEF Finish, NativeRun, Run
<1>2. ASSUME NEW y \in Payloads, NEW v \in BOOLEAN PROVE MirrorRun(y, v) \in Run
      BY PbAssumption DEF Payload, MirrorRun, Run
<1>3. \A f \in Finishes : f.uuid \in Runs
      BY PbAssumption DEF Finish
<1> QED BY <1>1, <1>2, <1>3

LEMMA UploadOutcome ==
    ASSUME ReadModel, NEW f \in Finishes, Upload(f)
    PROVE  Outcome
<1>1. f.uuid \in Runs \ aliases /\ runs[f.uuid] = None
      BY Inputs DEF Upload, Fresh
<1>2. NativeRun(f, f.time) \in Run
      BY Inputs, PbAssumption DEF Finish
<1>3. /\ Commit([runs EXCEPT ![f.uuid] = NativeRun(f, f.time)],
                Refreshed([runs EXCEPT ![f.uuid] = NativeRun(f, f.time)], pb, events,
                          runs[f.uuid], NativeRun(f, f.time), {}))
      /\ UNCHANGED aliases
      BY <1>1 DEF Upload, Inserted
<1> QED BY <1>1, <1>2, <1>3, ReplacedOutcome

LEMMA MirrorOutcome ==
    ASSUME ReadModel, NEW y \in Payloads, NEW m \in Runs, Mirror(y, m)
    PROVE  Outcome
<1>1. m \in Runs \ aliases /\ runs[m] = None
      BY DEF Mirror, Fresh
<1>2. MirrorRun(y, TRUE) \in Run
      BY Inputs
<1>3. /\ Commit([runs EXCEPT ![m] = MirrorRun(y, TRUE)],
                Refreshed([runs EXCEPT ![m] = MirrorRun(y, TRUE)], pb, events,
                          runs[m], MirrorRun(y, TRUE), {}))
      /\ UNCHANGED aliases
      BY <1>1 DEF Mirror, Inserted
<1> QED BY <1>1, <1>2, <1>3, ReplacedOutcome

LEMMA Existing ==
    ASSUME ReadModel, NEW r \in Runs, runs[r] # None
    PROVE  r \in Runs \ aliases /\ runs[r] \in Run
BY DEF ReadModel, Faithful, Table

LEMMA RefreshMirrorOutcome ==
    ASSUME ReadModel, NEW y \in Payloads, NEW m \in Runs, RefreshMirror(y, m)
    PROVE  Outcome
<1> DEFINE run == MirrorRun(y, runs[m].valid)
           R == [runs EXCEPT ![m] = run]
           changed == IF y.time # runs[m].time THEN {m} ELSE {}
<1>1. m \in Runs \ aliases /\ runs[m] \in Run
      BY Existing DEF RefreshMirror, Mirrors
<1>2. run \in Run
  <2>1. runs[m].valid \in BOOLEAN
        BY <1>1 DEF Run
  <2> QED BY <2>1, Inputs
<1>3. run.time = y.time
      BY DEF MirrorRun
<1>4. R[m] = run
      BY DEF ReadModel, Faithful, Table
<1>5. Commit(R, Refreshed(R, pb, events, runs[m], R[m], changed)) /\ UNCHANGED aliases
      BY DEF RefreshMirror
<1>6. Commit(R, Refreshed(R, pb, events, runs[m], run, changed))
      BY <1>4, <1>5
<1>7. runs[m] # None /\ runs[m].time # run.time => m \in changed
      BY <1>3
<1> HIDE DEF run, changed
<1> QED BY <1>1, <1>2, <1>5, <1>6, <1>7, ReplacedOutcome

LEMMA ReenableOutcome ==
    ASSUME ReadModel, NEW r \in Runs, Reenable(r)
    PROVE  Outcome
<1> DEFINE a == runs[r]
           run == [a EXCEPT !.valid = TRUE]
           R == [runs EXCEPT ![r] = run]
<1>1. r \in Runs \ aliases /\ a \in Run
      BY Existing DEF Reenable
<1>2. run \in Run /\ run.time = a.time
  <2> HIDE DEF a
  <2> QED BY <1>1 DEF Run
<1>3. R[r] = run
      BY DEF ReadModel, Faithful, Table
<1>4. Commit(R, Refreshed(R, pb, events, runs[r], R[r], {})) /\ UNCHANGED aliases
      BY DEF Reenable
<1>5. Commit(R, Refreshed(R, pb, events, runs[r], run, {}))
      BY <1>3, <1>4
<1> HIDE DEF run
<1> QED BY <1>1, <1>2, <1>4, <1>5, ReplacedOutcome DEF a

(* A link of the same time changes an id, which no leaderboard shows.       *)
LEMMA LinkOutcome ==
    ASSUME ReadModel, NEW y \in Payloads, NEW n \in Runs, Link(y, n)
    PROVE  Outcome
<1> DEFINE a == runs[n]
           run == [a EXCEPT !.id = y.id, !.time = y.time]
           R == [runs EXCEPT ![n].id = y.id, ![n].time = y.time]
<1>1. n \in Runs \ aliases /\ a \in Run
      BY Existing DEF Link
<1>2. y.id \in Nat /\ y.time \in Nat
      BY PbAssumption DEF Payload
<1>3. /\ run \in Run /\ run.time = y.time
      /\ run.player = a.player /\ run.pro = a.pro /\ run.valid = a.valid
  <2> HIDE DEF a
  <2> QED BY <1>1, <1>2 DEF Run
<1>4. runs \in Table
      BY DEF ReadModel, Faithful
<1>5. R = [runs EXCEPT ![n] = run] /\ R[n] = run
      BY <1>4 DEF Table
<1>6. UNCHANGED aliases
      BY DEF Link
<1>7. CASE a.time = y.time
  <2>1. runs' = R /\ UNCHANGED <<pb, events>>
        BY <1>7 DEF Link
  <2> HIDE DEF a, run, R
  <2>2. runs' = [runs EXCEPT ![n] = run] /\ run # None /\ a # None
        BY <1>1, <1>3, <1>5, <2>1, PbAssumption
  <2>3. /\ runs' \in Table /\ runs'[n] = run
        /\ \A r \in Runs : r # n => runs'[r] = runs[r]
        BY <1>3, <1>4, <2>2 DEF Table
  <2>4. \A r \in Runs : /\ runs'[r] = None <=> runs[r] = None
                        /\ BucketsOf(runs'[r]) = BucketsOf(runs[r])
                        /\ runs'[r].player = runs[r].player
                        /\ runs'[r].time = runs[r].time
        BY <1>3, <1>7, <2>2, <2>3 DEF BucketsOf, a
  <2>5. ASSUME NEW ty \in Types, NEW p \in Players
        PROVE  RunsOf(runs', ty, p) = RunsOf(runs, ty, p) /\ RunsOf(runs, ty, p) \subseteq Runs
        BY <2>4 DEF RunsOf, Ranked
  <2>6. \A ty \in Types : Best(runs, pb[ty], ty) /\ First(pb[ty])
        BY DEF ReadModel, Faithful
  <2>7. \A ty \in Types : Best(runs', pb'[ty], ty) /\ First(pb'[ty])
        BY <2>1, <2>4, <2>5, <2>6 DEF Best, IsBest
  <2>8. Faithful(runs', pb', events')
        BY <2>1, <2>3, <2>4, <2>7 DEF ReadModel, Faithful, Shown
  <2>9. ReadModel'
        BY <1>6, <2>4, <2>8 DEF ReadModel
  <2> QED BY <2>1, <2>9 DEF Outcome, RowsStay, EventStays
<1>8. CASE a.time # y.time
  <2>1. Commit(R, Refreshed(R, pb, events, runs[n], R[n], {n}))
        BY <1>8 DEF Link
  <2>2. Commit([runs EXCEPT ![n] = run],
               Refreshed([runs EXCEPT ![n] = run], pb, events, runs[n], run, {n}))
        BY <1>5, <2>1
  <2> HIDE DEF run
  <2> QED BY <1>1, <1>3, <1>6, <2>2, ReplacedOutcome
<1> QED BY <1>7, <1>8

(* What a merge starts from, the run as it was stored or just inserted: R,  *)
(* P and E differ from the state in that run at most.                       *)
Mergeable(R, P, E, n, m) ==
    /\ Faithful(R, P, E)
    /\ n # m /\ R[n] # None /\ R[m] # None
    /\ R[n].player = R[m].player /\ R[n].pro = R[m].pro
    /\ \A x \in Runs \ {n} : R[x] = runs[x]
    /\ \A ty \in Types, p \in Players : pb[ty][p] # None => P[ty][p] # None
    /\ \A e \in events : e \in E \/ (e[1] # n /\ ~ R[e[1]].valid)

LEMMA MergedOutcome ==
    ASSUME ReadModel, NEW R, NEW P, NEW E,
           NEW n \in Runs \ aliases, NEW m \in Runs, Mergeable(R, P, E, n, m),
           LET j == Merged(R, P, E, n, m) IN Commit(j.runs, j.shown),
           aliases' = aliases \cup {m}
    PROVE  Outcome
<1> USE DEF Mergeable
<1> DEFINE j == Merged(R, P, E, n, m)
<1>1. runs' = j.runs /\ pb' = j.shown.pb /\ events' = j.shown.events
      BY DEF Commit
<1>2. /\ Faithful(j.runs, j.shown.pb, j.shown.events)
      /\ j.runs[m] = None /\ j.runs[n] # None /\ j.runs[n].id = R[m].id
      /\ j.runs[n].valid = (R[n].valid /\ R[m].valid)
      /\ \A x \in Runs \ {n, m} : j.runs[x] = R[x]
      /\ \A ty \in Types, p \in Players :
           P[ty][p] # None /\ RunsOf(j.runs, ty, p) # {} => j.shown.pb[ty][p] # None
      /\ \A e \in E : \/ Renamed(e, n, m) \in j.shown.events
                      \/ ~ j.runs[Renamed(e, n, m)[1]].valid
      BY MergedIsRight
<1> HIDE DEF j
<1>3. ReadModel'
  <2>1. \A x \in aliases' : x \in Runs /\ runs'[x] = None
        BY <1>1, <1>2 DEF ReadModel
  <2> QED BY <1>1, <1>2, <2>1 DEF ReadModel
<1>4. RowsStay
      BY <1>1, <1>2 DEF RowsStay
<1>5. ASSUME NEW e \in events PROVE EventStays(e)
  <2>1. e = <<e[1], e[2]>> /\ e[1] \in Runs /\ runs[e[1]] # None
        BY DEF ReadModel, Faithful, Shown
  <2>2. /\ runs'[n] # None /\ runs'[n].id = R[m].id
        /\ runs'[n].valid = (R[n].valid /\ R[m].valid)
        /\ \A x \in Runs \ {n, m} : runs'[x] = R[x]
        /\ \A d \in E : \/ Renamed(d, n, m) \in events'
                        \/ ~ runs'[Renamed(d, n, m)[1]].valid
        BY <1>1, <1>2
  <2>3. CASE e[1] = m
    <3>1. e[1] \in aliases' /\ runs'[n].id = runs[e[1]].id
          BY <2>2, <2>3
    <3>2. CASE e \in E
      <4>1. Renamed(e, n, m) = <<n, e[2]>>
            BY <2>3 DEF Renamed
      <4>2. <<n, e[2]>> \in events' \/ ~ runs'[n].valid
            BY <2>2, <3>2, <4>1
      <4> QED BY <2>2, <3>1, <4>2 DEF EventStays
    <3>3. CASE e \notin E
      <4>1. ~ runs'[n].valid
            BY <2>2, <2>3, <3>3
      <4> QED BY <2>2, <3>1, <4>1 DEF EventStays
    <3> QED BY <3>2, <3>3
  <2>4. CASE e[1] # m
    <3>1. runs'[e[1]] # None
          BY <2>1, <2>2, <2>4
    <3>2. CASE e \in E
      <4>1. Renamed(e, n, m) = e
            BY <2>1, <2>4 DEF Renamed
      <4>2. e \in events' \/ ~ runs'[e[1]].valid
            BY <2>2, <3>2, <4>1
      <4> QED BY <2>1, <3>1, <4>2 DEF EventStays
    <3>3. CASE e \notin E
      <4>1. e[1] \in Runs \ {n, m} /\ ~ R[e[1]].valid
            BY <2>1, <2>4, <3>3
      <4>2. ~ runs'[e[1]].valid
            BY <2>2, <4>1
      <4> QED BY <2>1, <3>1, <4>2 DEF EventStays
    <3> QED BY <3>2, <3>3
  <2> QED BY <2>3, <2>4
<1> QED BY <1>3, <1>4, <1>5 DEF Outcome

LEMMA MergeOutcome ==
    ASSUME ReadModel, NEW n \in Runs, NEW m \in Runs, Merge(n, m)
    PROVE  Outcome
<1>1. /\ runs[n] # None /\ runs[n].native /\ runs[m] # None /\ ~ runs[m].native
      /\ runs[n].player = runs[m].player /\ runs[n].pro = runs[m].pro
      /\ aliases' = aliases \cup {m}
      BY DEF Merge, Mirrors, Alike
<1>2. n # m /\ n \in Runs \ aliases
      BY <1>1, Existing
<1>3. LET j == Merged(runs, pb, events, n, m) IN Commit(j.runs, j.shown)
      BY DEF Merge
<1>4. Faithful(runs, pb, events)
      BY DEF ReadModel
<1>5. Mergeable(runs, pb, events, n, m)
      BY <1>1, <1>2, <1>4 DEF Mergeable
<1> QED BY <1>1, <1>2, <1>3, <1>5, MergedOutcome

LEMMA UploadMergedOutcome ==
    ASSUME ReadModel, NEW f \in Finishes, NEW m \in Runs, UploadMerged(f, m)
    PROVE  Outcome
<1> DEFINE n == f.uuid
           run == NativeRun(f, runs[m].time)
           S == [runs EXCEPT ![n] = run]
           s == Refreshed(S, pb, events, runs[n], run, {})
<1>1. /\ n \in Runs \ aliases /\ runs[n] = None
      /\ runs[m] # None /\ f.player = runs[m].player /\ f.pro = runs[m].pro
      /\ aliases' = aliases \cup {m}
      BY Inputs DEF UploadMerged, Fresh, Mirrors, Alike
<1>2. n # m /\ runs[m] \in Run
      BY <1>1, Existing
<1>3. run \in Run /\ run # None /\ run.player = f.player /\ run.pro = f.pro
  <2>1. runs[m].time \in Nat
        BY <1>2 DEF Run
  <2>2. run \in Run
        BY <2>1, Inputs
  <2> QED BY <2>2, PbAssumption DEF NativeRun
<1>4. LET j == Merged(S, s.pb, s.events, n, m) IN Commit(j.runs, j.shown)
      BY <1>1 DEF UploadMerged, Inserted
<1>5. Faithful(runs, pb, events)
      BY DEF ReadModel
<1>6. S[n] = run /\ \A x \in Runs \ {n} : S[x] = runs[x]
      BY <1>1, <1>5 DEF Faithful, Table
<1> HIDE DEF n, run
<1>7. /\ Faithful(S, s.pb, s.events)
      /\ \A ty \in Types, p \in Players :
           pb[ty][p] # None /\ RunsOf(S, ty, p) # {} => s.pb[ty][p] # None
      /\ \A e \in events : e \in s.events \/ ~ S[e[1]].valid
      BY <1>1, <1>3, <1>5, ReplacedIsRight
<1> HIDE DEF S, s
<1>8. ASSUME NEW ty \in Types, NEW p \in Players, pb[ty][p] # None
      PROVE  s.pb[ty][p] # None
  <2>1. pb[ty][p].run \in RunsOf(runs, ty, p)
        BY <1>5, <1>8 DEF Faithful, Best, IsBest
  <2>2. pb[ty][p].run \in Runs /\ pb[ty][p].run # n
        BY <1>1, <2>1 DEF RunsOf, Ranked, BucketsOf
  <2>3. pb[ty][p].run \in RunsOf(S, ty, p)
        BY <1>6, <2>1, <2>2 DEF RunsOf, Ranked
  <2> QED BY <1>7, <1>8, <2>3
<1>9. \A e \in events : e \in s.events \/ (e[1] # n /\ ~ S[e[1]].valid)
  <2>1. \A e \in events : e[1] # n
        BY <1>1, <1>5 DEF Faithful, Shown
  <2>2. \A e \in events : e \in s.events \/ ~ S[e[1]].valid
        BY <1>7
  <2> QED BY <2>1, <2>2
<1>10. S[n] # None /\ S[m] # None /\ S[n].player = S[m].player /\ S[n].pro = S[m].pro
      BY <1>1, <1>2, <1>3, <1>6
<1>11. Mergeable(S, s.pb, s.events, n, m)
      BY <1>2, <1>6, <1>7, <1>8, <1>9, <1>10 DEF Mergeable
<1> QED BY <1>1, <1>4, <1>11, MergedOutcome

LEMMA RebuildPointsOutcome ==
    ASSUME ReadModel, NEW ty \in Types, RebuildPoints(ty)
    PROVE  Outcome
<1>1. /\ runs \in Table /\ pb \in Board /\ events \subseteq Shown(runs)
      /\ \A t \in Types : Best(runs, pb[t], t) /\ First(pb[t])
      BY DEF ReadModel, Faithful
<1>2. pb' = [pb EXCEPT ![ty] = Pointed(pb[ty])] /\ UNCHANGED <<runs, aliases, events>>
      BY DEF RebuildPoints
<1>3. pb[ty] \in [Players -> Entry \cup {None}]
      BY <1>1 DEF Board
<1>4. /\ Pointed(pb[ty]) \in [Players -> Entry \cup {None}]
      /\ \A p \in Players : Pointed(pb[ty])[p] = None <=> pb[ty][p] = None
      BY <1>3, PointedKeeps
<1>5. Best(runs, Pointed(pb[ty]), ty) /\ First(Pointed(pb[ty]))
      BY <1>1, <1>3, PointedIsFirst
<1>6. pb' \in Board /\ pb'[ty] = Pointed(pb[ty]) /\ \A t \in Types : t # ty => pb'[t] = pb[t]
      BY <1>1, <1>2, <1>4 DEF Board
<1>7. Faithful(runs', pb', events')
      BY <1>1, <1>2, <1>5, <1>6 DEF Faithful
<1>8. ReadModel' /\ \A e \in events : EventStays(e)
      BY <1>2, <1>7 DEF ReadModel, EventStays
<1>9. RowsStay
      BY <1>4, <1>6 DEF RowsStay
<1> QED BY <1>8, <1>9 DEF Outcome

LEMMA RebuildCourseOutcome ==
    ASSUME ReadModel, RebuildCourse
    PROVE  Outcome
<1> DEFINE Q == Rebuilt(runs, pb, Types, {})
<1>1. /\ runs \in Table /\ pb \in Board /\ events \subseteq Shown(runs)
      /\ \A ty \in Types : Best(runs, pb[ty], ty)
      BY DEF ReadModel, Faithful
<1>2. pb' = Q /\ UNCHANGED <<runs, aliases, events>>
      BY DEF RebuildCourse
<1>3. Sound(runs, pb, Types, {})
      BY <1>1 DEF Sound, Timed, Best, IsBest
<1>4. Right(runs, pb, Q, Types)
      BY <1>1, <1>3, RebuiltIsRight
<1> HIDE DEF Q
<1>5. ReadModel' /\ \A e \in events : EventStays(e)
      BY <1>1, <1>2, <1>4 DEF Right, ReadModel, Faithful, EventStays
<1>6. RowsStay
      BY <1>2, <1>4 DEF Right, RowsStay
<1> QED BY <1>5, <1>6 DEF Outcome

(* A deletion takes its own runs off, and leaves every other row.           *)
LEMMA SoftDeleteReadModel ==
    ASSUME ReadModel, NEW S \in SUBSET Runs, SoftDelete(S)
    PROVE  ReadModel' /\ events' = events
<1>1. /\ runs \in Table /\ pb \in Board /\ events \subseteq Shown(runs)
      /\ \A ty \in Types : Best(runs, pb[ty], ty) /\ First(pb[ty])
      BY DEF ReadModel, Faithful
<1>2. /\ \A r \in S : runs[r] # None
      /\ runs' = [r \in Runs |-> IF r \in S THEN [runs[r] EXCEPT !.valid = FALSE] ELSE runs[r]]
      /\ pb' = Without(pb, S) /\ UNCHANGED <<aliases, events>>
      BY DEF SoftDelete
<1>3. ASSUME NEW r \in S
      PROVE  /\ runs'[r] \in Run /\ runs'[r] # None /\ ~ runs'[r].valid
  <2> DEFINE a == runs[r]
  <2>1. a \in Run /\ runs'[r] = [a EXCEPT !.valid = FALSE]
        BY <1>1, <1>2 DEF Table
  <2> HIDE DEF a
  <2>2. [a EXCEPT !.valid = FALSE] \in Run /\ [a EXCEPT !.valid = FALSE].valid = FALSE
        BY <2>1 DEF Run
  <2> QED BY <2>1, <2>2, PbAssumption
<1>4. \A r \in Runs \ S : runs'[r] = runs[r]
      BY <1>2
<1>5. runs' \in Table
  <2>1. \A r \in Runs : runs'[r] \in Run \cup {None}
        BY <1>1, <1>3, <1>4 DEF Table
  <2> QED BY <1>2, <2>1 DEF Table
<1>6. \A r \in Runs : runs'[r] = None <=> runs[r] = None
      BY <1>2, <1>3, <1>4
<1>7. ASSUME NEW ty \in Types, NEW p \in Players
      PROVE  /\ RunsOf(runs', ty, p) = RunsOf(runs, ty, p) \ S
             /\ \A r \in RunsOf(runs', ty, p) : runs'[r] = runs[r]
      BY <1>3, <1>4 DEF RunsOf, Ranked, BucketsOf
<1>8. ASSUME NEW ty \in Types, NEW p \in Players
      PROVE  /\ pb'[ty][p] = IF pb[ty][p] # None /\ pb[ty][p].run \in S THEN None
                             ELSE pb[ty][p]
             /\ pb'[ty][p] \in Entry \cup {None}
      BY <1>1, <1>2 DEF Without, Board
<1>9. pb' \in Board
      BY <1>2, <1>8 DEF Without, Board
<1>10. ASSUME NEW ty \in Types PROVE Best(runs', pb'[ty], ty) /\ First(pb'[ty])
  <2>1. \A p \in Players : pb'[ty][p] # None =>
            pb'[ty][p] = pb[ty][p] /\ pb[ty][p].run \notin S
        BY <1>8
  <2>2. Best(runs, pb[ty], ty) /\ First(pb[ty])
        BY <1>1
  <2>3. Best(runs', pb'[ty], ty)
        BY <1>7, <2>1, <2>2 DEF Best, IsBest
  <2>4. First(pb'[ty])
        BY <2>1, <2>2 DEF First
  <2> QED BY <2>3, <2>4
<1>11. events' \subseteq Shown(runs')
      BY <1>1, <1>2, <1>6 DEF Shown
<1>12. aliases' \subseteq {r \in Runs : runs'[r] = None}
      BY <1>2, <1>6 DEF ReadModel
<1> QED BY <1>2, <1>5, <1>9, <1>10, <1>11, <1>12 DEF ReadModel, Faithful
-----------------------------------------------------------------------------
(* Every step that is no deletion keeps the rows and the events.            *)
LEMMA NextOutcome ==
    ASSUME ReadModel, Next
    PROVE  Outcome \/ \E S \in SUBSET Runs : SoftDelete(S) /\ ReadModel' /\ events' = events
<1>1. ASSUME NEW f \in Finishes, Upload(f) \/ \E m \in Runs : UploadMerged(f, m)
      PROVE  Outcome
      BY <1>1, UploadOutcome, UploadMergedOutcome
<1>2. ASSUME NEW n \in Runs, NEW m \in Runs, Merge(n, m) PROVE Outcome
      BY <1>2, MergeOutcome
<1>3. ASSUME NEW y \in Payloads, NEW r \in Runs,
             Mirror(y, r) \/ RefreshMirror(y, r) \/ Link(y, r)
      PROVE  Outcome
      BY <1>3, MirrorOutcome, RefreshMirrorOutcome, LinkOutcome
<1>4. ASSUME NEW r \in Runs, Reenable(r) PROVE Outcome
      BY <1>4, ReenableOutcome
<1>5. ASSUME NEW ty \in Types, RebuildPoints(ty) PROVE Outcome
      BY <1>5, RebuildPointsOutcome
<1>6. CASE RebuildCourse
      BY <1>6, RebuildCourseOutcome
<1>7. ASSUME NEW S \in SUBSET Runs, SoftDelete(S)
      PROVE  SoftDelete(S) /\ ReadModel' /\ events' = events
      BY <1>7, SoftDeleteReadModel
<1> QED BY <1>1, <1>2, <1>3, <1>4, <1>5, <1>6, <1>7 DEF Next

LEMMA NextReadModel == ReadModel /\ [Next]_vars => ReadModel'
<1> SUFFICES ASSUME ReadModel, [Next]_vars PROVE ReadModel'
    OBVIOUS
<1>1. CASE Next
      BY <1>1, NextOutcome DEF Outcome
<1>2. CASE UNCHANGED vars
      BY <1>2 DEF vars, ReadModel
<1> QED BY <1>1, <1>2

LEMMA ReadModelInvariant == Spec => []ReadModel
BY InitReadModel, NextReadModel, PTL DEF Spec

(* Rows, aliases, entries and events keep their shape, and no event names a *)
(* run that is gone, for any players, runs, finishes and upstream bodies.   *)
THEOREM ReadModelTypes == Spec => []TypeOK
<1>1. ReadModel => TypeOK
      BY DEF ReadModel, Faithful, Table, Board, Shown, TypeOK
<1> QED BY ReadModelInvariant, <1>1, PTL

(* A row of record_pb is a fastest valid run of its player, with the time   *)
(* of that run, after any sequence of committed transactions.               *)
THEOREM BestRuns == Spec => []PbIsBest
<1>1. ReadModel => PbIsBest
      BY DEF ReadModel, Faithful, Best, IsBest, PbIsBest
<1> QED BY ReadModelInvariant, <1>1, PTL

(* The 1000 points of a leaderboard are with a fastest entry, and with one  *)
(* player only.                                                             *)
THEOREM FastestWr == Spec => []WrIsFastest
<1>1. ReadModel => WrIsFastest
      BY DEF ReadModel, Faithful, First, WrIsFastest
<1> QED BY ReadModelInvariant, <1>1, PTL

(* Nothing but a moderator's deletion takes a player with a valid run off a *)
(* leaderboard.                                                             *)
THEOREM RowsAreKept == Spec => PbIsKept
<1>1. ReadModel /\ [Next]_vars =>
        [\A ty \in Types, p \in Players :
            /\ pb[ty][p] # None
            /\ pb'[ty][p] = None
            /\ RunsOf(runs', ty, p) # {}
            => \E S \in SUBSET Runs : SoftDelete(S)]_vars
      BY NextOutcome DEF Outcome, RowsStay
<1> QED BY ReadModelInvariant, <1>1, PTL DEF Spec, PbIsKept

(* The event of a world record stays when the record is beaten, and follows *)
(* its run through a merge; it goes only with an invalid run.               *)
THEOREM EventsSurvive == Spec => EventsAreKept
<1>1. ReadModel /\ [Next]_vars =>
        [\A e \in events :
            \/ e \in events'
            \/ \E r \in Runs : runs'[r] # None /\ ~ runs'[r].valid /\ r = e[1]
            \/ /\ e[1] \in aliases'
               /\ \E n \in Runs :
                    /\ runs'[n] # None
                    /\ runs'[n].id = runs[e[1]].id
                    /\ <<n, e[2]>> \in events' \/ ~ runs'[n].valid]_vars
  <2> SUFFICES ASSUME ReadModel, Next, NEW e \in events PROVE EventStays(e)
      BY DEF EventStays
  <2>1. CASE Outcome
        BY <2>1 DEF Outcome
  <2>2. CASE events' = events
        BY <2>2 DEF EventStays
  <2> QED BY <2>1, <2>2, NextOutcome
<1> QED BY ReadModelInvariant, <1>1, PTL DEF Spec, EventsAreKept
=============================================================================
