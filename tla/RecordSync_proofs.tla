-------------------------- MODULE RecordSync_proofs --------------------------
(***************************************************************************)
(* The walk of RecordSync skips no id and asks for no deferred one, for    *)
(* every set of ids, every probe window and every batch size.              *)
(***************************************************************************)
EXTENDS RecordSync, FiniteSetTheorems, TLAPS

(* Every id below c was stored or was refused when it was asked for.        *)
Covered(c) == \A x \in DEFAULT_RECORD_START_ID .. c - 1 : x \in stored \cup refused

(* Not only the committed cursor has skipped nothing, the local positions   *)
(* of the round have not either.                                            *)
Walked ==
    /\ Covered(cursor)
    /\ at # "idle" => Covered(here)
    /\ at = "probe" => Covered(probe)
    /\ at = "tip" => Covered(tip + 1)

(* What lies before an id of the batch is stored, refused, or in the batch. *)
BatchIsNext ==
    at = "backfill" =>
        /\ IsFiniteSet(batch)
        /\ Cardinality(batch) + attempts <= MISSING_ID_ATTEMPT_LIMIT
        /\ batch \cap deferred = {}
        /\ \A b \in batch :
              /\ here <= b /\ b < tip
              /\ \A y \in here .. b - 1 : y \in stored \cup refused \cup batch

(* Only ids below a stored one are deferred, so the walk of new ids, which  *)
(* starts above the largest stored id, is above them all.                   *)
DeferredIsBelow ==
    /\ IsFiniteSet(deferred)
    /\ deferred \subseteq refused
    /\ \A d \in deferred : \E s \in stored : d < s
    /\ at # "idle" => \A d \in deferred : d <= tip
    /\ at \in {"forward", "probe"} => \A d \in deferred : d < here
    /\ at = "probe" => here < probe
    /\ at \in {"scan", "backfill", "tip"} => tip \in stored

IInv == TypeOK /\ Walked /\ BatchIsNext /\ DeferredIsBelow

-----------------------------------------------------------------------------
(* Storing or refusing more ids uncovers none.                              *)
LEMMA CoveredGrows ==
    ASSUME stored \subseteq stored', refused \subseteq refused', NEW c, Covered(c)
    PROVE  \A x \in DEFAULT_RECORD_START_ID .. c - 1 : x \in stored' \cup refused'
  BY DEF Covered

(* What covers an id covers a smaller one.                                  *)
LEMMA CoveredBelow ==
    ASSUME NEW c \in Nat, NEW d \in Nat, d <= c, Covered(c)
    PROVE  Covered(d)
  <1> SUFFICES ASSUME NEW x \in DEFAULT_RECORD_START_ID .. d - 1
               PROVE  x \in stored \cup refused
    BY DEF Covered
  <1>1. x \in DEFAULT_RECORD_START_ID .. c - 1
    BY SyncAssumption
  <1>2. QED
    BY <1>1 DEF Covered

(* When every id the query found is deferred, every missing id was found:   *)
(* the query asks for one more than there are deferred ids.                 *)
LEMMA NothingDue ==
    ASSUME TypeOK, IsFiniteSet(deferred),
           attempts < MISSING_ID_ATTEMPT_LIMIT,
           NEW missing, NEW found \in Firsts(missing, QueryLimit),
           {} \in Due(found)
    PROVE  missing \subseteq deferred
  <1> USE SyncAssumption
  <1>1. BatchLimit \in Nat \ {0}
    BY DEF BatchLimit, Smaller, TypeOK
  <1>2. found \subseteq deferred
    <2>1. \/ {} = found \ deferred
          \/ Cardinality({}) = BatchLimit
      BY DEF Due, Firsts
    <2>2. QED
      BY <1>1, <2>1, FS_EmptySet
  <1>3. Cardinality(deferred) \in Nat /\ Cardinality(found) <= Cardinality(deferred)
    BY <1>2, FS_CardinalityType, FS_Subset
  <1>4. Cardinality(found) \in Nat
    BY <1>2, FS_CardinalityType, FS_Subset
  <1>5. found = missing \/ Cardinality(found) = QueryLimit
    BY DEF Firsts
  <1>6. found = missing
    BY <1>1, <1>3, <1>4, <1>5 DEF QueryLimit
  <1>7. QED
    BY <1>2, <1>6

(* The ids due are a part of the missing ones, and what they pass over is   *)
(* deferred.                                                                *)
LEMMA DueIsNext ==
    ASSUME NEW missing \in SUBSET Nat, NEW found \in Firsts(missing, QueryLimit),
           NEW B \in Due(found)
    PROVE  /\ B \subseteq missing \ deferred
           /\ \A b \in B, y \in missing : y < b => y \in B \cup deferred
  <1>1. found \subseteq missing /\ \A x \in found, y \in missing \ found : x < y
    BY DEF Firsts
  <1>2. B \subseteq found \ deferred /\ \A x \in B, y \in (found \ deferred) \ B : x < y
    BY DEF Due, Firsts
  <1>3. B \subseteq missing \ deferred
    BY <1>1, <1>2
  <1>4. ASSUME NEW b \in B, NEW y \in missing, y < b
        PROVE  y \in B \cup deferred
    <2>1. b \in found /\ b \in Nat /\ y \in Nat
      BY <1>1, <1>2
    <2>2. y \in found
      BY <1>1, <1>4, <2>1
    <2>3. QED
      BY <1>2, <1>4, <2>1, <2>2
  <1>5. QED
    BY <1>3, <1>4

-----------------------------------------------------------------------------
(* Nothing is walked and nothing deferred at first.                         *)
LEMMA InitInv == Init => IInv
  <1> SUFFICES ASSUME Init PROVE IInv
    OBVIOUS
  <1> USE SyncAssumption DEF Init
  <1>1. TypeOK
    BY DEF TypeOK
  <1>2. Walked
    BY DEF Walked, Covered
  <1>3. BatchIsNext /\ DeferredIsBelow
    BY FS_EmptySet DEF BatchIsNext, DeferredIsBelow
  <1>4. QED
    BY <1>1, <1>2, <1>3 DEF IInv

(* A round that ends leaves only what was committed.                        *)
LEMMA RoundOverKeeps ==
    ASSUME IInv, RoundOver, cursor' \in Nat, Covered(cursor'),
           pending' = pending, published' = published, stored' = stored, missed' \subseteq Nat,
           refused \subseteq refused', refused' \subseteq Nat,
           deferred' \in {deferred, {}}
    PROVE  IInv'
  <1> USE SyncAssumption DEF RoundOver
  <1>1. TypeOK'
    BY DEF IInv, TypeOK
  <1>2. Walked'
    BY CoveredGrows DEF Walked, Covered
  <1>3. BatchIsNext'
    BY DEF BatchIsNext
  <1>4. DeferredIsBelow'
    BY FS_EmptySet DEF IInv, DeferredIsBelow
  <1>5. QED
    BY <1>1, <1>2, <1>3, <1>4 DEF IInv

(* Nor do GlobalAPI, the retry clock and the importer disturb a round.      *)
LEMMA WorldKeeps ==
    ASSUME IInv, UNCHANGED <<cursor, pending, locals, refused, missed>>,
           published' \subseteq Ids, stored' \subseteq Nat, stored \subseteq stored',
           deferred' \subseteq deferred, IsFiniteSet(deferred')
    PROVE  IInv'
  <1> USE SyncAssumption DEF locals
  <1>1. TypeOK'
    BY DEF IInv, TypeOK
  <1>2. Walked'
    BY DEF IInv, Walked, Covered
  <1>3. BatchIsNext'
    BY DEF IInv, BatchIsNext
  <1>4. DeferredIsBelow'
    BY DEF IInv, DeferredIsBelow
  <1>5. QED
    BY <1>1, <1>2, <1>3, <1>4 DEF IInv

(* A round starts at or below the committed cursor.                         *)
LEMMA StartInv ==
    ASSUME IInv, Start
    PROVE  IInv'
  <1> USE SyncAssumption DEF table, history, locals
  <1>1. /\ cursor \in Nat /\ pending \in Nat \cup {None} /\ stored \subseteq Nat
        /\ Covered(cursor)
    BY DEF IInv, TypeOK, Walked
  <1>2. /\ at' \in {"scan", "forward"}
        /\ UNCHANGED <<published, stored, cursor, pending, deferred, batch, probe, refused, missed>>
        /\ attempts' = 0
    BY DEF Start
  <1>3. backfill_cursor \in Nat /\ backfill_cursor <= cursor
    BY <1>1 DEF backfill_cursor, Smaller
  <1>4. tip' \in Nat /\ here' \in Nat /\ here' <= cursor
    BY <1>1, <1>3 DEF Start
  <1>5. TypeOK'
    BY <1>2, <1>4 DEF IInv, TypeOK
  <1>6. Walked'
    <2>1. Covered(here')
      BY <1>1, <1>4, CoveredBelow
    <2>2. QED
      BY <1>1, <1>2, <2>1 DEF Walked, Covered
  <1>7. BatchIsNext'
    BY <1>2 DEF BatchIsNext
  <1>8. DeferredIsBelow'
    <2>1. /\ IsFiniteSet(deferred) /\ deferred \subseteq refused
          /\ \A d \in deferred : \E s \in stored : d < s
          /\ deferred \subseteq Nat
      BY DEF IInv, DeferredIsBelow, TypeOK
    <2>2. \A d \in deferred : d <= tip'
      BY <1>1, <1>4, <2>1 DEF Start
    <2>3. at' = "forward" => \A d \in deferred : d < here'
      <3> SUFFICES ASSUME at' = "forward", NEW d \in deferred PROVE d < here'
        OBVIOUS
      <3>1. stored # {}
        BY <2>1
      <3>2. PICK m \in stored : tip' = m /\ backfill_cursor > m /\ here' = cursor
        BY <3>1 DEF Start
      <3>3. QED
        BY <1>1, <1>3, <2>1, <2>2, <3>2
    <2>4. at' = "scan" => tip' \in stored
      BY DEF Start
    <2>5. QED
      BY <1>2, <2>1, <2>2, <2>3, <2>4 DEF DeferredIsBelow
  <1>9. QED
    BY <1>5, <1>6, <1>7, <1>8 DEF IInv

(* The batch holds the next ids due, or the tip may be jumped to.           *)
LEMMA ScanInv ==
    ASSUME IInv, Scan
    PROVE  IInv'
  <1> USE SyncAssumption DEF table, history, locals
  <1> DEFINE missing == (here .. tip) \ stored
  <1>1. /\ here \in Nat /\ tip \in Nat /\ stored \subseteq Nat /\ deferred \subseteq refused
        /\ IsFiniteSet(deferred) /\ Covered(here) /\ tip \in stored
        /\ attempts \in Nat /\ MISSING_ID_ATTEMPT_LIMIT \in Nat /\ TypeOK
    BY DEF IInv, TypeOK, Walked, DeferredIsBelow, Scan
  <1>2. /\ attempts < MISSING_ID_ATTEMPT_LIMIT
        /\ UNCHANGED <<published, stored, cursor, deferred, tip, here, attempts, probe, refused, missed>>
        /\ at' = IF batch' = {} THEN "tip" ELSE "backfill"
    BY DEF Scan
  <1>3. PICK found \in Firsts(missing, QueryLimit) :
            /\ batch' \in Due(found)
            /\ pending' = IF found = {} THEN PendingSwept ELSE pending
    BY DEF Scan
  <1>4. missing \in SUBSET Nat /\ IsFiniteSet(missing)
    <2>1. IsFiniteSet(here .. tip)
      BY <1>1, FS_Interval
    <2>2. missing \in SUBSET (here .. tip)
      OBVIOUS
    <2>3. QED
      BY <1>1, <2>1, <2>2, FS_Subset
  <1> HIDE DEF missing
  <1>5. /\ batch' \subseteq missing \ deferred
        /\ \A b \in batch', y \in missing : y < b => y \in batch' \cup deferred
    BY <1>3, <1>4, DueIsNext
  <1>6. TypeOK'
    BY <1>2, <1>3, <1>4, <1>5 DEF IInv, TypeOK, PendingSwept
  <1>7. batch' = {} => Covered(tip + 1)
    <2> SUFFICES ASSUME batch' = {} PROVE Covered(tip + 1)
      OBVIOUS
    <2>1. missing \subseteq deferred
      BY <1>1, <1>2, <1>3, NothingDue
    <2>2. \A x \in here .. tip : x \in stored \cup refused
      BY <1>1, <2>1 DEF missing
    <2>3. QED
      BY <1>1, <2>2 DEF Covered
  <1>8. Walked'
    <2>1. Covered(cursor) /\ Covered(here)
      BY <1>1 DEF IInv, Walked
    <2>2. QED
      BY <1>2, <1>7, <2>1 DEF Walked, Covered
  <1>9. BatchIsNext'
    <2>1. IsFiniteSet(batch') /\ Cardinality(batch') \in Nat
      BY <1>4, <1>5, FS_Subset, FS_CardinalityType
    <2>2. Cardinality(batch') <= BatchLimit
      BY <1>3 DEF Due, Firsts
    <2>3. Cardinality(batch') + attempts <= MISSING_ID_ATTEMPT_LIMIT
      BY <1>1, <2>1, <2>2 DEF BatchLimit, Smaller
    <2>4. \A b \in batch' : here <= b /\ b < tip
      BY <1>1, <1>5 DEF missing
    <2>5. \A b \in batch' : \A y \in here .. b - 1 : y \in stored \cup refused \cup batch'
      <3> SUFFICES ASSUME NEW b \in batch', NEW y \in here .. b - 1, y \notin stored
                   PROVE  y \in refused \cup batch'
        OBVIOUS
      <3>1. b \in Nat /\ b < tip
        BY <1>4, <1>5, <2>4
      <3>2. y \in missing /\ y < b
        BY <1>1, <3>1 DEF missing
      <3>3. QED
        BY <1>1, <1>5, <3>2
    <2>6. QED
      BY <1>2, <1>5, <2>1, <2>3, <2>4, <2>5 DEF BatchIsNext
  <1>10. DeferredIsBelow'
    BY <1>1, <1>2 DEF IInv, DeferredIsBelow, Scan
  <1>11. QED
    BY <1>6, <1>8, <1>9, <1>10 DEF IInv

(* The cursor jumps to the tip over stored and deferred ids only.           *)
LEMMA ToTipInv ==
    ASSUME IInv, ToTip
    PROVE  IInv'
  <1> USE SyncAssumption DEF ToTip, history
  <1>1. /\ here \in Nat /\ tip \in Nat /\ stored \subseteq Nat /\ deferred \subseteq Nat
        /\ Covered(here) /\ Covered(tip + 1)
    BY DEF IInv, TypeOK, Walked, DeferredIsBelow
  <1>2. here' = cursor' /\ here' \in {here, tip + 1} /\ tip < here'
    BY <1>1 DEF Larger
  <1>3. TypeOK'
    BY <1>1, <1>2 DEF IInv, TypeOK
  <1>4. Covered(here')
    BY <1>1, <1>2
  <1>5. Walked'
    BY <1>2, <1>4 DEF Walked, Covered
  <1>6. BatchIsNext'
    BY DEF BatchIsNext
  <1>7. DeferredIsBelow'
    BY <1>1, <1>2 DEF IInv, DeferredIsBelow
  <1>8. QED
    BY <1>3, <1>5, <1>6, <1>7 DEF IInv

(* The answer to an id of the batch.                                        *)
LEMMA BackfillInv ==
    ASSUME IInv, NEW x, Backfill(x)
    PROVE  IInv'
  <1> USE SyncAssumption
  <1>1. /\ at = "backfill" /\ x \in batch /\ \A y \in batch : x <= y
        /\ TypeOK /\ IsFiniteSet(batch) /\ batch \subseteq Nat /\ x \in Nat
        /\ x < tip /\ tip \in stored /\ deferred \subseteq refused
        /\ \A b \in batch : \A y \in here .. b - 1 : y \in stored \cup refused \cup batch
        /\ \A b \in batch : here <= b /\ b < tip
        /\ batch \cap deferred = {}
        /\ Covered(here) /\ here \in Nat /\ tip \in Nat
        /\ Cardinality(batch) + attempts <= MISSING_ID_ATTEMPT_LIMIT
    BY DEF Backfill, Asked, IInv, TypeOK, Walked, BatchIsNext, DeferredIsBelow
  <1>2. /\ here' = x + 1 /\ cursor' = x + 1 /\ attempts' = attempts + 1 /\ batch' = batch \ {x}
        /\ at' = IF batch = {x} THEN "scan" ELSE "backfill"
        /\ UNCHANGED <<published, pending, tip, probe>>
        /\ missed' = missed \ {x}
        /\ refused' = IF IsRecord(x) THEN refused ELSE refused \cup {x}
    BY DEF Backfill
  <1>3. \/ IsNull(x) /\ deferred' = deferred \cup {x} /\ stored' = stored
        \/ IsRecord(x) /\ deferred' = deferred \ {x} /\ stored' = stored \cup {x}
        \/ ~ IsNull(x) /\ ~ IsRecord(x) /\ deferred' = deferred /\ stored' = stored
    BY DEF Backfill
  <1>4. /\ refused' = refused \/ refused' = refused \cup {x}
        /\ stored' = stored \/ stored' = stored \cup {x}
        /\ \/ deferred' = deferred
           \/ deferred' = deferred \cup {x}
           \/ deferred' = deferred \ {x}
        /\ x \in stored' \cup refused'
        /\ x \in deferred' => x \in refused'
    BY <1>2, <1>3 DEF IsNull, IsRecord
  <1>5. /\ IsFiniteSet(batch') /\ Cardinality(batch) \in Nat
        /\ Cardinality(batch') = Cardinality(batch) - 1 /\ Cardinality(batch') \in Nat
    BY <1>1, <1>2, <1>4, FS_RemoveElement, FS_CardinalityType
  <1>6. attempts \in Nat /\ Cardinality(batch') + attempts' <= MISSING_ID_ATTEMPT_LIMIT
    BY <1>1, <1>2, <1>4, <1>5 DEF TypeOK
  <1>7. TypeOK'
    <2>1. attempts' \in 0 .. MISSING_ID_ATTEMPT_LIMIT
      BY <1>2, <1>5, <1>6
    <2>2. stored' \subseteq Nat /\ deferred' \subseteq Nat /\ refused' \subseteq Nat
      BY <1>1, <1>4 DEF TypeOK
    <2>3. at' \in {"scan", "backfill"} /\ here' \in Nat /\ batch' \subseteq Nat /\ missed' \subseteq Nat
      BY <1>1, <1>2 DEF TypeOK
    <2>4. QED
      BY <1>1, <1>2, <2>1, <2>2, <2>3 DEF TypeOK
  <1>8. \A y \in DEFAULT_RECORD_START_ID .. x : y \in stored' \cup refused'
    <2> SUFFICES ASSUME NEW y \in DEFAULT_RECORD_START_ID .. x PROVE y \in stored' \cup refused'
      OBVIOUS
    <2>1. CASE y < here
      <3>1. y \in DEFAULT_RECORD_START_ID .. here - 1
        BY <1>1, <2>1
      <3>2. QED
        BY <1>1, <1>2, <1>4, <3>1 DEF Covered
    <2>2. CASE here <= y /\ y < x
      <3>1. y \in here .. x - 1
        BY <1>1, <2>2
      <3>2. y \notin batch
        BY <1>1, <2>2
      <3>3. QED
        BY <1>1, <1>2, <1>4, <3>1, <3>2
    <2>3. QED
      BY <1>1, <1>2, <1>4, <2>1, <2>2
  <1>9. Walked'
    BY <1>1, <1>2, <1>4, <1>8 DEF Walked, Covered
  <1>10. BatchIsNext'
    <2>1. batch' \cap deferred' = {}
      BY <1>1, <1>2, <1>4
    <2>2. \A b \in batch' : here' <= b /\ b < tip'
      BY <1>1, <1>2, <1>4
    <2>3. \A b \in batch' : \A y \in here' .. b - 1 : y \in stored' \cup refused' \cup batch'
      <3> SUFFICES ASSUME NEW b \in batch', NEW y \in here' .. b - 1
                   PROVE  y \in stored' \cup refused' \cup batch'
        OBVIOUS
      <3>1. b \in batch /\ b \in Nat /\ y \in Nat /\ x < y /\ y < b
        BY <1>1, <1>2, <1>4
      <3>2. y \in here .. b - 1
        BY <1>1, <3>1
      <3>3. QED
        BY <1>1, <1>2, <1>4, <3>1, <3>2
    <2>4. QED
      BY <1>2, <1>4, <1>5, <1>6, <2>1, <2>2, <2>3 DEF BatchIsNext
  <1>11. DeferredIsBelow'
    <2>1. IsFiniteSet(deferred')
      BY <1>2, <1>4, FS_AddElement, FS_RemoveElement DEF IInv, DeferredIsBelow
    <2>2. deferred' \subseteq refused'
      BY <1>1, <1>2, <1>4
    <2>3. \A d \in deferred' : \E s \in stored' : d < s
      BY <1>1, <1>2, <1>4 DEF IInv, DeferredIsBelow
    <2>4. \A d \in deferred' : d <= tip'
      BY <1>1, <1>2, <1>4 DEF IInv, DeferredIsBelow
    <2>5. at' \in {"scan", "backfill"} /\ tip' \in stored'
      BY <1>1, <1>2, <1>4
    <2>6. QED
      BY <2>1, <2>2, <2>3, <2>4, <2>5 DEF DeferredIsBelow
  <1>12. QED
    BY <1>7, <1>9, <1>10, <1>11 DEF IInv

(* The answer to a new id.                                                  *)
LEMMA ForwardInv ==
    ASSUME IInv, NEW x, Forward(x)
    PROVE  IInv'
  <1> USE SyncAssumption
  <1>1. /\ at = "forward" /\ x = here /\ here \in Nat /\ TypeOK
        /\ Covered(here) /\ Covered(cursor)
        /\ deferred \subseteq refused /\ \A d \in deferred : d < here
    BY DEF Forward, Asked, IInv, TypeOK, Walked, DeferredIsBelow
  <1>2. /\ UNCHANGED <<published, pending, deferred, tip, batch, attempts>>
        /\ refused' = IF IsRecord(x) THEN refused ELSE refused \cup {x}
        /\ missed' = IF IsNull(x) THEN missed ELSE missed \ {x}
    BY DEF Forward
  <1>3. \/ IsNull(x) /\ at' = "probe" /\ probe' = x + 1 /\ UNCHANGED <<stored, cursor, here>>
        \/ /\ ~ IsNull(x) /\ cursor' = x + 1 /\ here' = x + 1 /\ UNCHANGED <<at, probe>>
           /\ stored' = IF IsRecord(x) THEN stored \cup {x} ELSE stored
    BY DEF Forward
  <1>4. /\ stored \subseteq stored' /\ refused \subseteq refused' /\ x \in stored' \cup refused'
        /\ stored' \subseteq Nat /\ refused' \subseteq Nat
    BY <1>1, <1>2, <1>3 DEF IsNull, IsRecord, TypeOK
  <1>5. TypeOK'
    BY <1>1, <1>2, <1>3, <1>4 DEF TypeOK
  <1>6. \A y \in DEFAULT_RECORD_START_ID .. x : y \in stored' \cup refused'
    <2>1. \A y \in DEFAULT_RECORD_START_ID .. here - 1 : y \in stored' \cup refused'
      BY <1>1, <1>4, CoveredGrows
    <2>2. QED
      BY <1>1, <1>4, <2>1
  <1>7. Walked'
    <2>1. CASE IsNull(x)
      <3>1. \A y \in DEFAULT_RECORD_START_ID .. cursor - 1 : y \in stored' \cup refused'
        BY <1>1, <1>4, CoveredGrows
      <3>2. \A y \in DEFAULT_RECORD_START_ID .. here - 1 : y \in stored' \cup refused'
        BY <1>1, <1>4, CoveredGrows
      <3>3. QED
        BY <1>1, <1>3, <1>6, <2>1, <3>1, <3>2 DEF Walked, Covered
    <2>2. CASE ~ IsNull(x)
      BY <1>1, <1>3, <1>6, <2>2 DEF Walked, Covered
    <2>3. QED
      BY <2>1, <2>2
  <1>8. BatchIsNext'
    BY <1>1, <1>3 DEF BatchIsNext
  <1>9. DeferredIsBelow'
    <2>1. \A d \in deferred : d < here' /\ d \in Nat
      BY <1>1, <1>3 DEF TypeOK
    <2>2. at' = "probe" => here' < probe'
      BY <1>1, <1>3
    <2>3. QED
      BY <1>1, <1>2, <1>3, <1>4, <2>1, <2>2 DEF IInv, DeferredIsBelow
  <1>10. QED
    BY <1>5, <1>7, <1>8, <1>9 DEF IInv

(* The answer to a probed id.                                               *)
LEMMA ProbeInv ==
    ASSUME IInv, NEW x, Probe(x)
    PROVE  IInv'
  <1> USE SyncAssumption
  <1>1. /\ at = "probe" /\ x = probe /\ probe \in Nat /\ here \in Nat /\ here < x /\ TypeOK
        /\ Covered(here) /\ Covered(cursor) /\ Covered(probe)
        /\ deferred \subseteq refused /\ \A d \in deferred : d < here /\ d \in Nat
    BY DEF Probe, Asked, IInv, TypeOK, Walked, DeferredIsBelow
  <1>2. /\ UNCHANGED <<published, deferred>>
        /\ refused' = IF IsRecord(x) THEN refused ELSE refused \cup {x}
        /\ missed' = IF IsRecord(x) THEN missed \cup here .. x - 1 ELSE missed
        /\ \/ /\ IsNull(x) /\ probe' = x + 1 /\ UNCHANGED <<at, tip, here, batch, attempts, cursor>>
              /\ UNCHANGED <<stored, pending>>
           \/ IsNull(x) /\ cursor' = here /\ RoundOver /\ UNCHANGED <<stored, pending>>
           \/ /\ ~ IsNull(x) /\ cursor' = x + 1 /\ here' = x + 1 /\ at' = "forward"
              /\ stored' = IF IsRecord(x) THEN stored \cup {x} ELSE stored
              /\ pending' = GapStart
              /\ UNCHANGED <<tip, batch, attempts, probe>>
    BY DEF Probe
  <1>3. /\ stored \subseteq stored' /\ refused \subseteq refused' /\ x \in stored' \cup refused'
        /\ stored' \subseteq Nat /\ refused' \subseteq Nat /\ missed' \subseteq Nat
    <2>1. here .. x - 1 \subseteq Nat
      BY <1>1
    <2>2. missed' \subseteq Nat
      BY <1>1, <1>2, <2>1 DEF TypeOK
    <2>3. QED
      BY <1>1, <1>2, <2>2 DEF IsNull, IsRecord, TypeOK
  <1>4. \A y \in DEFAULT_RECORD_START_ID .. x : y \in stored' \cup refused'
    <2>1. \A y \in DEFAULT_RECORD_START_ID .. probe - 1 : y \in stored' \cup refused'
      BY <1>1, <1>3, CoveredGrows
    <2>2. QED
      BY <1>1, <1>3, <2>1
  <1>5. CASE IsNull(x) /\ probe' = x + 1 /\ UNCHANGED <<at, tip, here, batch, attempts, cursor, stored, pending>>
    <2>1. TypeOK'
      BY <1>1, <1>2, <1>3, <1>5 DEF TypeOK
    <2>2. Walked'
      <3>1. \A y \in DEFAULT_RECORD_START_ID .. cursor - 1 : y \in stored' \cup refused'
        BY <1>1, <1>3, CoveredGrows
      <3>2. \A y \in DEFAULT_RECORD_START_ID .. here - 1 : y \in stored' \cup refused'
        BY <1>1, <1>3, CoveredGrows
      <3>3. QED
        BY <1>1, <1>4, <1>5, <3>1, <3>2 DEF Walked, Covered
    <2>3. BatchIsNext'
      BY <1>1, <1>5 DEF BatchIsNext
    <2>4. DeferredIsBelow'
      BY <1>1, <1>2, <1>3, <1>5 DEF IInv, DeferredIsBelow
    <2>5. QED
      BY <2>1, <2>2, <2>3, <2>4 DEF IInv
  <1>6. CASE IsNull(x) /\ cursor' = here /\ RoundOver /\ UNCHANGED <<stored, pending>>
    BY <1>1, <1>2, <1>3, <1>6, RoundOverKeeps
  <1>7. CASE /\ ~ IsNull(x) /\ cursor' = x + 1 /\ here' = x + 1 /\ at' = "forward"
             /\ stored' = IF IsRecord(x) THEN stored \cup {x} ELSE stored
             /\ pending' = GapStart
             /\ UNCHANGED <<tip, batch, attempts, probe>>
    <2>1. TypeOK'
      <3>1. pending' \in Nat \cup {None}
        BY <1>1, <1>7 DEF GapStart, Smaller, TypeOK
      <3>2. QED
        BY <1>1, <1>2, <1>3, <1>7, <3>1 DEF TypeOK
    <2>2. Walked'
      BY <1>1, <1>4, <1>7 DEF Walked, Covered
    <2>3. BatchIsNext'
      BY <1>7 DEF BatchIsNext
    <2>4. DeferredIsBelow'
      BY <1>1, <1>2, <1>3, <1>7 DEF IInv, DeferredIsBelow
    <2>5. QED
      BY <2>1, <2>2, <2>3, <2>4 DEF IInv
  <1>8. QED
    BY <1>2, <1>5, <1>6, <1>7

(* A round that is cut, or out of attempts.                                 *)
LEMMA CutInv ==
    ASSUME IInv, Cut \/ EndScan
    PROVE  IInv'
  <1>1. /\ RoundOver
        /\ UNCHANGED <<published, table, history>>
        /\ deferred' \in {deferred, {}}
    BY DEF Cut, EndScan, Fail, Restart, Busy
  <1>2. cursor \in Nat /\ Covered(cursor) /\ missed \subseteq Nat /\ refused \subseteq Nat
    BY DEF IInv, TypeOK, Walked
  <1>3. QED
    BY <1>1, <1>2, RoundOverKeeps DEF table, history

(* What happens outside the sync.                                           *)
LEMMA WorldInv ==
    ASSUME IInv, World
    PROVE  IInv'
  <1>1. PICK x \in Ids : Publish(x) \/ RetryDue(x) \/ Import(x)
    BY DEF World
  <1>2. x \in Nat
    BY SyncAssumption
  <1>3. IsFiniteSet(deferred) /\ IsFiniteSet(deferred \ {x})
    BY FS_RemoveElement DEF IInv, DeferredIsBelow
  <1>4. published \subseteq Ids /\ stored \subseteq Nat
    BY DEF IInv, TypeOK
  <1>5. CASE Publish(x)
    BY <1>3, <1>4, <1>5, WorldKeeps DEF Publish, table, locals, history
  <1>6. CASE RetryDue(x)
    BY <1>3, <1>4, <1>6, WorldKeeps DEF RetryDue, table, locals, history
  <1>7. CASE Import(x)
    BY <1>2, <1>3, <1>4, <1>7, WorldKeeps DEF Import, table, locals, history
  <1>8. QED
    BY <1>1, <1>5, <1>6, <1>7

(* Every step keeps the invariant.                                          *)
LEMMA NextInv ==
    ASSUME IInv, [Next]_vars
    PROVE  IInv'
  <1>1. CASE Start
    BY <1>1, StartInv
  <1>2. CASE Scan
    BY <1>2, ScanInv
  <1>3. CASE ToTip
    BY <1>3, ToTipInv
  <1>4. CASE EndScan \/ Cut
    BY <1>4, CutInv
  <1>5. ASSUME NEW x, Answered(x) PROVE IInv'
    BY <1>5, BackfillInv, ForwardInv, ProbeInv DEF Answered
  <1>6. CASE World
    BY <1>6, WorldInv
  <1>7. CASE UNCHANGED vars
    <2> USE <1>7 DEF vars, table, locals, history
    <2>1. TypeOK' /\ Walked' /\ BatchIsNext' /\ DeferredIsBelow'
      BY DEF IInv, TypeOK, Walked, Covered, BatchIsNext, DeferredIsBelow
    <2>2. QED
      BY <2>1 DEF IInv
  <1>8. QED
    BY <1>1, <1>2, <1>3, <1>4, <1>5, <1>6, <1>7 DEF Next, Step

(* The invariant holds at first and is kept by every step.                  *)
THEOREM Invariance == Spec => []IInv
  <1>1. Init => IInv
    BY InitInv
  <1>2. IInv /\ [Next]_vars => IInv'
    BY NextInv
  <1>3. QED
    BY <1>1, <1>2, PTL DEF Spec

(* The variables of the walk keep their types: no round makes more than     *)
(* MISSING_ID_ATTEMPT_LIMIT attempts at missing ids.                        *)
THEOREM TypeCorrect == Spec => []TypeOK
  <1>1. IInv => TypeOK
    BY DEF IInv
  <1>2. QED
    BY <1>1, Invariance, PTL

(* The committed cursor passes no id that was not asked for.                *)
THEOREM NothingSkippedHolds == Spec => []NothingSkipped
  <1>1. IInv => NothingSkipped
    BY DEF IInv, Walked, Covered, NothingSkipped
  <1>2. QED
    BY <1>1, Invariance, PTL

(* An id whose retry is deferred is not asked for, by the backfill nor by   *)
(* the walk of new ids.                                                     *)
THEOREM DeferredRestsHolds == Spec => []DeferredRests
  <1>1. IInv => DeferredRests
    <2> SUFFICES ASSUME IInv, NEW d \in deferred, Asked(d) PROVE FALSE
      BY DEF DeferredRests
    <2>1. d \in Nat /\ here \in Nat /\ probe \in Nat
      BY DEF IInv, TypeOK
    <2>2. at # "backfill"
      BY DEF IInv, BatchIsNext, Asked
    <2>3. QED
      BY <2>1, <2>2 DEF IInv, DeferredIsBelow, Asked
  <1>2. QED
    BY <1>1, Invariance, PTL

-----------------------------------------------------------------------------
(* What the walk owes to the ids a probe jumped over.                       *)
Owed ==
    /\ SecondChance
    /\ missed \cap deferred = {}
    /\ \A x \in missed : \E s \in stored : x < s
    /\ at \in {"scan", "backfill", "tip"} =>
          \A x \in missed : x < tip /\ (x \in stored \/ here <= x)
    /\ at = "backfill" =>
          \A b \in batch : \A y \in here .. b - 1 : y \in missed => y \in stored \cup batch
    /\ at = "tip" => missed \subseteq stored
    /\ at \in {"forward", "probe"} => here = cursor

(* A sweep starts at or below every id owed.                                *)
LEMMA StartOwes ==
    ASSUME IInv, Owed, Start
    PROVE  Owed'
  <1> USE SyncAssumption
  <1>1. /\ at' \in {"scan", "forward"}
        /\ UNCHANGED <<published, stored, cursor, pending, deferred, batch, probe, refused, missed>>
    BY DEF Start, table, history
  <1>2. /\ cursor \in Nat /\ pending \in Nat \cup {None} /\ stored \subseteq Nat /\ missed \subseteq Nat
        /\ SecondChance /\ \A x \in missed : \E s \in stored : x < s
    BY DEF IInv, TypeOK, Owed
  <1>3. at' = "forward" => here' = cursor'
    BY <1>1 DEF Start
  <1>4. ASSUME at' = "scan", NEW x \in missed
        PROVE  x < tip' /\ (x \in stored \/ here' <= x)
    <2>1. PICK m \in stored : (\A s \in stored : s <= m) /\ tip' = m /\ here' = backfill_cursor
      BY <1>4 DEF Start
    <2>2. PICK s \in stored : x < s
      BY <1>2
    <2>3. x < tip'
      BY <1>2, <2>1, <2>2
    <2>4. x \in stored \/ backfill_cursor <= x
      BY <1>2 DEF SecondChance, backfill_cursor, Smaller
    <2>5. QED
      BY <2>1, <2>3, <2>4
  <1>5. SecondChance'
    BY <1>1, <1>2 DEF SecondChance
  <1>6. QED
    BY <1>1, <1>2, <1>3, <1>4, <1>5 DEF Owed

(* What is given up with pending_backfill_cursor is stored.                 *)
LEMMA ScanOwes ==
    ASSUME IInv, Owed, Scan
    PROVE  Owed'
  <1> USE SyncAssumption
  <1> DEFINE missing == (here .. tip) \ stored
  <1>1. /\ at = "scan" /\ attempts < MISSING_ID_ATTEMPT_LIMIT
        /\ UNCHANGED <<published, stored, cursor, deferred, tip, here, attempts, probe, refused, missed>>
        /\ at' = IF batch' = {} THEN "tip" ELSE "backfill"
    BY DEF Scan, history
  <1>2. /\ here \in Nat /\ tip \in Nat /\ stored \subseteq Nat /\ missed \subseteq Nat
        /\ pending \in Nat \cup {None} /\ cursor \in Nat /\ TypeOK
        /\ IsFiniteSet(deferred) /\ missed \cap deferred = {}
        /\ \A x \in missed : x < tip /\ (x \in stored \/ here <= x)
        /\ SecondChance
    BY <1>1 DEF IInv, TypeOK, DeferredIsBelow, Owed
  <1>3. PICK found \in Firsts(missing, QueryLimit) :
            /\ batch' \in Due(found)
            /\ pending' = IF found = {} THEN PendingSwept ELSE pending
    BY DEF Scan
  <1>4. missing \in SUBSET Nat /\ \A x \in missed : x \in stored \/ x \in missing
    BY <1>2
  <1> HIDE DEF missing
  <1>5. batch' = {} => missed \subseteq stored
    <2>1. batch' = {} => missing \subseteq deferred
      BY <1>1, <1>2, <1>3, NothingDue
    <2>2. QED
      BY <1>2, <1>4, <2>1
  <1>6. found = {} => batch' = {}
    BY <1>3 DEF Due, Firsts
  <1>7. SecondChance'
    <2>1. CASE missed \subseteq stored
      BY <1>1, <2>1 DEF SecondChance
    <2>2. CASE pending' = pending
      BY <1>1, <1>2, <2>2 DEF SecondChance
    <2>3. QED
      BY <1>3, <1>5, <1>6, <2>1, <2>2
  <1>8. ASSUME NEW b \in batch', NEW y \in here .. b - 1, y \in missed
        PROVE  y \in stored \cup batch'
    <2>1. /\ batch' \subseteq missing
          /\ \A c \in batch', z \in missing : z < c => z \in batch' \cup deferred
      BY <1>3, <1>4, DueIsNext
    <2>2. y < b
      BY <1>2, <1>4, <2>1
    <2>3. QED
      BY <1>2, <1>4, <1>8, <2>1, <2>2
  <1>9. QED
    BY <1>1, <1>2, <1>5, <1>7, <1>8 DEF Owed

(* The jump to the tip leaves no id owed behind.                            *)
LEMMA ToTipOwes ==
    ASSUME IInv, Owed, ToTip
    PROVE  Owed'
  <1>1. missed \subseteq stored /\ missed \cap deferred = {} /\ \A x \in missed : \E s \in stored : x < s
    BY DEF Owed, ToTip
  <1>2. /\ UNCHANGED <<stored, deferred, missed>> /\ at' = "forward" /\ here' = cursor'
    BY DEF ToTip, history
  <1>3. SecondChance'
    BY <1>1, <1>2 DEF SecondChance
  <1>4. QED
    BY <1>1, <1>2, <1>3 DEF Owed

(* The sweep asks for the ids owed in order.                                *)
LEMMA BackfillOwes ==
    ASSUME IInv, Owed, NEW x, Backfill(x)
    PROVE  Owed'
  <1> USE SyncAssumption
  <1>1. /\ at = "backfill" /\ x \in batch /\ \A y \in batch : x <= y
        /\ here' = x + 1 /\ cursor' = x + 1 /\ batch' = batch \ {x} /\ missed' = missed \ {x}
        /\ at' \in {"scan", "backfill"} /\ UNCHANGED <<pending, tip>>
        /\ stored' = stored \/ stored' = stored \cup {x}
        /\ deferred' = deferred \/ deferred' = deferred \cup {x} \/ deferred' = deferred \ {x}
    BY DEF Backfill, Asked
  <1>2. /\ batch \subseteq Nat /\ here \in Nat /\ missed \subseteq Nat /\ stored \subseteq Nat
        /\ tip \in Nat /\ x \in Nat
        /\ \A b \in batch : here <= b
        /\ \A b \in batch : \A y \in here .. b - 1 : y \in missed => y \in stored \cup batch
        /\ \A y \in missed : y < tip /\ (y \in stored \/ here <= y)
        /\ missed \cap deferred = {} /\ \A y \in missed : \E s \in stored : y < s
    BY <1>1 DEF IInv, TypeOK, BatchIsNext, Owed
  <1>3. ASSUME NEW y \in missed' PROVE y \in stored' \/ x + 1 <= y
    <2>1. y \in missed /\ y # x /\ y \in Nat
      BY <1>1, <1>2
    <2>2. ASSUME y < x, y \notin stored PROVE FALSE
      <3>1. y \in here .. x - 1
        BY <1>2, <2>1, <2>2
      <3>2. y \in batch
        BY <1>1, <1>2, <2>1, <2>2, <3>1
      <3>3. QED
        BY <1>1, <1>2, <2>2, <3>2
    <2>3. QED
      BY <1>1, <1>2, <2>1, <2>2
  <1>4. SecondChance'
    BY <1>1, <1>3 DEF SecondChance
  <1>5. missed' \cap deferred' = {} /\ \A y \in missed' : \E s \in stored' : y < s
    BY <1>1, <1>2
  <1>6. \A y \in missed' : y < tip' /\ (y \in stored' \/ here' <= y)
    BY <1>1, <1>2, <1>3
  <1>7. ASSUME NEW b \in batch', NEW y \in here' .. b - 1, y \in missed'
        PROVE  y \in stored' \cup batch'
    <2>1. b \in batch /\ b \in Nat /\ y \in missed /\ y \in Nat /\ x < y /\ y < b
      BY <1>1, <1>2, <1>7
    <2>2. y \in here .. b - 1
      BY <1>1, <1>2, <2>1
    <2>3. QED
      BY <1>1, <1>2, <2>1, <2>2
  <1>8. QED
    BY <1>1, <1>4, <1>5, <1>6, <1>7 DEF Owed

(* The walk of new ids is past the ids owed.                                *)
LEMMA ForwardOwes ==
    ASSUME IInv, Owed, NEW x, Forward(x)
    PROVE  Owed'
  <1>1. /\ at = "forward" /\ x = here /\ UNCHANGED <<pending, deferred, tip>>
        /\ \/ /\ at' = "probe" /\ UNCHANGED <<stored, cursor, here>> /\ missed' = missed
           \/ /\ at' = "forward" /\ cursor' = x + 1 /\ here' = x + 1 /\ missed' = missed \ {x}
              /\ stored' = stored \/ stored' = stored \cup {x}
    BY DEF Forward, Asked
  <1>2. /\ cursor \in Nat /\ here \in Nat /\ missed \subseteq Nat /\ here = cursor
        /\ missed \cap deferred = {} /\ \A y \in missed : \E s \in stored : y < s
        /\ SecondChance
    BY <1>1 DEF IInv, TypeOK, Owed
  <1>3. SecondChance'
    <2> SUFFICES ASSUME NEW y \in missed', y \notin stored', ~ (pending # None /\ pending <= y)
                 PROVE  cursor' <= y
      BY <1>1 DEF SecondChance
    <2>1. y \in missed /\ y \in Nat /\ y \notin stored
      BY <1>1, <1>2
    <2>2. cursor <= y
      BY <1>2, <2>1 DEF SecondChance
    <2>3. QED
      BY <1>1, <1>2, <2>1, <2>2
  <1>4. QED
    BY <1>1, <1>2, <1>3 DEF Owed

(* A hit is recorded in pending_backfill_cursor with the jump.              *)
LEMMA ProbeOwes ==
    ASSUME IInv, Owed, NEW x, Probe(x)
    PROVE  Owed'
  <1> USE SyncAssumption
  <1>1. /\ at = "probe" /\ x = probe /\ UNCHANGED deferred
        /\ missed' = IF IsRecord(x) THEN missed \cup here .. x - 1 ELSE missed
        /\ \/ /\ IsNull(x) /\ UNCHANGED <<at, here, cursor, stored, pending>>
           \/ IsNull(x) /\ cursor' = here /\ RoundOver /\ UNCHANGED <<stored, pending>>
           \/ /\ ~ IsNull(x) /\ cursor' = x + 1 /\ here' = x + 1 /\ at' = "forward"
              /\ stored' = IF IsRecord(x) THEN stored \cup {x} ELSE stored
              /\ pending' = GapStart
    BY DEF Probe, Asked
  <1>2. /\ cursor \in Nat /\ here \in Nat /\ probe \in Nat /\ missed \subseteq Nat /\ here = cursor
        /\ pending \in Nat \cup {None} /\ deferred \subseteq Nat /\ here < probe
        /\ missed \cap deferred = {} /\ \A y \in missed : \E s \in stored : y < s
        /\ \A d \in deferred : d < here
        /\ SecondChance
    BY <1>1 DEF IInv, TypeOK, DeferredIsBelow, Owed
  <1>3. CASE IsNull(x)
    <2>1. missed' = missed
      BY <1>1, <1>3 DEF IsNull, IsRecord
    <2>2. /\ cursor' = here
          /\ UNCHANGED <<stored, pending>>
          /\ at' = "idle" \/ (at' = "probe" /\ here' = here)
      BY <1>1, <1>2, <1>3 DEF RoundOver
    <2>3. SecondChance'
      BY <1>2, <2>1, <2>2 DEF SecondChance
    <2>4. QED
      BY <1>1, <1>2, <2>1, <2>2, <2>3 DEF Owed
  <1>4. CASE ~ IsNull(x)
    <2>1. /\ at' = "forward" /\ here' = cursor' /\ pending' = GapStart
          /\ stored' = IF IsRecord(x) THEN stored \cup {x} ELSE stored
      BY <1>1, <1>4
    <2>2. pending' \in Nat /\ pending' <= here /\ (pending # None => pending' <= pending)
      BY <1>2, <2>1 DEF GapStart, Smaller
    <2>3. \A y \in missed' : y \in missed \/ (y \in here .. x - 1 /\ x \in stored')
      BY <1>1, <2>1
    <2>4. SecondChance'
      <3> SUFFICES ASSUME NEW y \in missed', y \notin stored' PROVE pending' <= y
        BY <1>2, <2>2 DEF SecondChance
      <3>1. CASE y \in missed
        <4>1. here <= y \/ (pending # None /\ pending <= y)
          BY <1>2, <2>1, <3>1 DEF SecondChance
        <4>2. QED
          BY <1>2, <2>2, <3>1, <4>1
      <3>2. CASE y \in here .. x - 1
        BY <1>1, <1>2, <2>2, <3>2
      <3>3. QED
        BY <2>3, <3>1, <3>2
    <2>5. \A y \in missed' : \E s \in stored' : y < s
      BY <1>1, <1>2, <2>1, <2>3
    <2>6. missed' \cap deferred' = {}
      BY <1>1, <1>2, <2>3
    <2>7. QED
      BY <2>1, <2>4, <2>5, <2>6 DEF Owed
  <1>5. QED
    BY <1>3, <1>4

(* Every step keeps what is owed.                                           *)
LEMMA NextOwes ==
    ASSUME IInv, Owed, [Next]_vars
    PROVE  Owed'
  <1>1. ASSUME NEW x, Answered(x) PROVE Owed'
    BY <1>1, BackfillOwes, ForwardOwes, ProbeOwes DEF Answered
  <1>2. CASE EndScan \/ Cut
    <2>1. RoundOver /\ UNCHANGED <<stored, cursor, pending, missed>> /\ deferred' \in {deferred, {}}
      BY <1>2 DEF EndScan, Cut, Fail, Restart, Busy, table, history
    <2>2. SecondChance'
      BY <2>1 DEF Owed, SecondChance
    <2>3. QED
      BY <2>1, <2>2 DEF Owed, RoundOver
  <1>3. CASE World \/ UNCHANGED vars
    <2>1. /\ UNCHANGED <<cursor, pending, locals, missed>>
          /\ stored \subseteq stored' /\ deferred' \subseteq deferred
      BY <1>3 DEF World, Publish, RetryDue, Import, vars, table, locals, history
    <2>2. SecondChance'
      BY <2>1 DEF Owed, SecondChance
    <2>3. QED
      BY <2>1, <2>2 DEF Owed, locals
  <1>4. QED
    BY <1>1, <1>2, <1>3, StartOwes, ScanOwes, ToTipOwes DEF Next, Step

(* An id a probe jumped over to store a later record stays at or above      *)
(* pending_backfill_cursor until it is asked for again.                     *)
THEOREM SecondChanceHolds == Spec => []SecondChance
  <1>1. Init => IInv /\ Owed
    <2>1. Init => Owed
      BY DEF Init, Owed, SecondChance
    <2>2. QED
      BY <2>1, InitInv
  <1>2. IInv /\ Owed /\ [Next]_vars => (IInv /\ Owed)'
    BY NextInv, NextOwes
  <1>3. Owed => SecondChance
    BY DEF Owed
  <1>4. QED
    BY <1>1, <1>2, <1>3, PTL DEF Spec
=============================================================================
