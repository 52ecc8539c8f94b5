--------------------------- MODULE RowLocks_proofs ---------------------------
(***************************************************************************)
(* What holds while transactions cross a moderator's: of a row of          *)
(* record_pb, for any runs, uploads, re-enables and deletions (PbRebuild), *)
(* and of a run's two rows that are merged, for any number of moderators   *)
(* (RecordModeration).                                                     *)
(***************************************************************************)
EXTENDS PbRebuild, RecordModeration, TLAPS

(* Writers and deletions are at their own places.                           *)
Places ==
    /\ pc \in [Writers \cup Deletions ->
                {"idle", "begun", "row", "best", "written", "keyed", "locked", "deleted"}]
    /\ \A w \in Writers : pc[w] \notin {"locked", "deleted"}
    /\ \A D \in Deletions : pc[D] \in {"idle", "locked", "deleted"}

(* What a deletion writes is that the row is gone.                          *)
DeletionWrites ==
    \A D \in Deletions : pending # None /\ pending.by = D => pending.to = None

Types ==
    /\ TypeOK
    /\ Places
    /\ DeletionWrites
    /\ held \in [Deletions -> SUBSET Runs]
    /\ crossed \in BOOLEAN

(* A write past its foreign key check names no run that is being deleted.   *)
KeyedIsSafe ==
    \A w \in Writers :
        /\ pc[w] = "keyed"
        /\ pending # None /\ pending.by = w /\ pending.to # None
        => ~ Deleting(pending.to)

(* A deletion that has found the row removes it.                            *)
FoundIsRemoved ==
    \A D \in Deletions :
        pc[D] = "deleted" /\ row \in held[D] => pending = [by |-> D, to |-> None]

Shielded == Types /\ KeyedIsSafe /\ FoundIsRemoved

(* Unless a re-enable has overlapped another writer, writers take turns.    *)
Alone == \A v, w \in Writers : Active(v) /\ Active(w) => v = w

(* No run that counts, or will when w commits, is faster than the best run  *)
(* that w has read.                                                         *)
BestIsRead ==
    \A w \in Writers : pc[w] \in {"best", "written", "keyed"} =>
        \A r \in Mine : status[r] = "valid" \/ r = w =>
            seen[w].best # None /\ seen[w].best <= r

(* The row is still the one that w has read, or gone.                       *)
RowIsRead ==
    \A w \in Writers : pc[w] \in {"row", "best", "written", "keyed"} =>
        row \in {seen[w].row, None}

(* What w has read is what it has written.                                  *)
WrittenIsBest ==
    \A w \in Writers : pc[w] \in {"written", "keyed"} =>
        IF Replaces(w) THEN pending = [by |-> w, to |-> seen[w].best]
        ELSE pending = None \/ pending.by # w

Fastest == row # None => \A r \in Mine : status[r] = "valid" => row <= r

Ordered ==
    /\ WrittenIsBest
    /\ ~ crossed => Alone /\ BestIsRead /\ RowIsRead /\ Fastest
-----------------------------------------------------------------------------
(* Writers are runs, and no deletion is one.                                *)
LEMMA Processes ==
    /\ Writers \subseteq Runs /\ Writers \cap Deletions = {}
    /\ Mine \subseteq Nat /\ Mine \subseteq Runs /\ None \notin Mine
    /\ None \notin Change /\ None \notin Runs
BY PbRebuildAssumption DEF Writers

(* A transaction that moves on keeps everybody at their places.             *)
LEMMA Moves ==
    ASSUME Places, NEW p \in Writers \cup Deletions,
           NEW at \in {"idle", "begun", "row", "best", "written", "keyed", "locked", "deleted"},
           p \in Writers => at \notin {"locked", "deleted"},
           p \in Deletions => at \in {"idle", "locked", "deleted"},
           pc' = [pc EXCEPT ![p] = at]
    PROVE  /\ Places'
           /\ pc'[p] = at
           /\ \A q \in Writers \cup Deletions : q # p => pc'[q] = pc[q]
BY Processes DEF Places

LEMMA InitShielded == Init => Shielded
<1> SUFFICES ASSUME Init PROVE Shielded
    OBVIOUS
<1>1. Places
      BY Processes DEF Init, Places
<1>2. TypeOK
      BY Processes DEF Init, TypeOK, Active
<1>3. held \in [Deletions -> SUBSET Runs] /\ crossed \in BOOLEAN
      BY DEF Init
<1>4. KeyedIsSafe /\ FoundIsRemoved /\ DeletionWrites
      BY DEF Init, DeletionWrites, KeyedIsSafe, FoundIsRemoved
<1> QED BY <1>1, <1>2, <1>3, <1>4 DEF Shielded, Types

(* Begin, ReadRow and ReadBest write nothing.                               *)
LEMMA ReadShielded ==
    ASSUME Shielded, NEW w \in Writers, Begin(w) \/ ReadRow(w) \/ ReadBest(w)
    PROVE  Shielded'
<1> USE Processes DEF Shielded, Types
<1>1. PICK at \in {"begun", "row", "best"} :
          pc[w] \in {"idle", "begun", "row"} /\ pc' = [pc EXCEPT ![w] = at]
      BY DEF Begin, ReadRow, ReadBest, Goes
<1>2. UNCHANGED <<status, row, pending, held>>
      BY DEF Begin, ReadRow, ReadBest
<1>3. Places' /\ pc'[w] = at /\ \A q \in Writers \cup Deletions : q # w => pc'[q] = pc[q]
      BY <1>1, Moves
<1>4. crossed' \in BOOLEAN
      BY DEF Begin, ReadRow, ReadBest
<1>5. seen' \in [Writers -> [row : Mine \cup {None}, best : Mine \cup {None}]]
  <2>1. CASE Begin(w)
        BY <2>1 DEF Begin, TypeOK
  <2>2. CASE ReadRow(w)
        BY <2>2 DEF ReadRow, TypeOK
  <2>3. CASE ReadBest(w)
    <3>1. PICK b \in Mine \cup {None} : seen' = [seen EXCEPT ![w].best = b]
          BY <2>3 DEF ReadBest, Visible
    <3> QED BY <3>1 DEF TypeOK
  <2> QED BY <2>1, <2>2, <2>3
<1>6. TypeOK' /\ DeletionWrites'
      BY <1>1, <1>2, <1>3, <1>5 DEF DeletionWrites, TypeOK, Active, Places, Change
<1>7. KeyedIsSafe' /\ FoundIsRemoved'
      BY <1>2, <1>3 DEF KeyedIsSafe, FoundIsRemoved, Deleting
<1> QED BY <1>2, <1>3, <1>4, <1>6, <1>7

LEMMA WriteShielded ==
    ASSUME Shielded, NEW w \in Writers, Write(w) \/ CheckKey(w)
    PROVE  Shielded'
<1> USE Processes DEF Shielded, Types
<1>1. PICK at \in {"written", "keyed"} :
          pc[w] \in {"best", "written"} /\ pc' = [pc EXCEPT ![w] = at]
      BY DEF Write, CheckKey, Goes
<1>2. UNCHANGED <<status, row, seen, held, crossed>>
      BY DEF Write, CheckKey
<1>3. Places' /\ pc'[w] = at /\ \A q \in Writers \cup Deletions : q # w => pc'[q] = pc[q]
      BY <1>1, Moves
<1>4. CASE Write(w)
  <2>1. at = "written"
        BY <1>1, <1>3, <1>4 DEF Write, Goes, Places
  <2>2. \/ pending' = pending
        \/ pending = None /\ pending' = [by |-> w, to |-> seen[w].best]
        BY <1>4 DEF Write, Written
  <2>3. TypeOK' /\ DeletionWrites'
        BY <1>1, <1>2, <1>3, <2>1, <2>2 DEF DeletionWrites, TypeOK, Active, Places, Change
  <2>4. KeyedIsSafe'
    <3> SUFFICES ASSUME NEW v \in Writers, pc'[v] = "keyed", pending' # None,
                        pending'.by = v, pending'.to # None
                 PROVE  \A E \in Deletions : pending'.to \notin held'[E]
        BY DEF KeyedIsSafe, Deleting
    <3>1. v # w /\ pc[v] = "keyed"
          BY <1>3, <2>1
    <3>2. pending' = pending
          BY <2>2, <3>1
    <3> QED BY <1>2, <3>1, <3>2 DEF KeyedIsSafe, Deleting
  <2>5. FoundIsRemoved'
    <3> SUFFICES ASSUME NEW D \in Deletions, pc'[D] = "deleted", row' \in held'[D]
                 PROVE  pending' = [by |-> D, to |-> None]
        BY DEF FoundIsRemoved
    <3>1. pending = [by |-> D, to |-> None]
          BY <1>2, <1>3 DEF FoundIsRemoved
    <3>2. pending # None
          BY <3>1 DEF Change
    <3> QED BY <2>2, <3>1, <3>2
  <2> QED BY <1>2, <1>3, <2>3, <2>4, <2>5
<1>5. CASE CheckKey(w)
  <2>1. at = "keyed" /\ pending' = pending
        BY <1>1, <1>3, <1>5 DEF CheckKey, Goes, Places
  <2>2. TypeOK' /\ DeletionWrites'
        BY <1>1, <1>2, <1>3, <2>1 DEF DeletionWrites, TypeOK, Active, Places, Change
  <2>3. KeyedIsSafe'
        BY <1>2, <1>3, <1>5, <2>1 DEF KeyedIsSafe, Deleting, CheckKey, KeyFree
  <2>4. FoundIsRemoved'
        BY <1>2, <1>3, <2>1 DEF FoundIsRemoved
  <2> QED BY <1>2, <1>3, <2>2, <2>3, <2>4
<1> QED BY <1>4, <1>5

(* What a transaction that ends leaves of the pending write.                *)
LEMMA Releases ==
    ASSUME Types, NEW p \in Writers \cup Deletions
    PROVE  /\ Released(p) \in {None, pending}
           /\ Released(p) # None => Released(p) = pending /\ pending.by # p
           /\ pending # None /\ pending.by # p => Released(p) = pending
           /\ Landed(p) \in Mine \cup {None}
           /\ \/ Landed(p) = row
              \/ pending # None /\ pending.by = p /\ Landed(p) = pending.to
BY Processes DEF Types, TypeOK, Released, Landed, Change

LEMMA CommitShielded ==
    ASSUME Shielded, NEW w \in Writers, Commit(w)
    PROVE  Shielded'
<1> USE Processes DEF Shielded, Types
<1>1. pc[w] = "keyed" /\ pc' = [pc EXCEPT ![w] = "idle"]
      BY DEF Commit, Goes
<1>2. /\ UNCHANGED <<seen, held, crossed>>
      /\ status' = [status EXCEPT ![w] = "valid"]
      /\ row' = Landed(w) /\ pending' = Released(w)
      BY DEF Commit
<1>3. Places' /\ pc'[w] = "idle" /\ \A q \in Writers \cup Deletions : q # w => pc'[q] = pc[q]
      BY <1>1, Moves
<1>4. TypeOK' /\ DeletionWrites'
      BY <1>1, <1>2, <1>3, Releases DEF DeletionWrites, TypeOK, Active, Places, Change
<1>5. KeyedIsSafe'
  <2> SUFFICES ASSUME NEW v \in Writers, pc'[v] = "keyed", pending' # None,
                      pending'.by = v, pending'.to # None
               PROVE  \A E \in Deletions : pending'.to \notin held'[E]
      BY DEF KeyedIsSafe, Deleting
  <2>1. v # w /\ pc[v] = "keyed"
        BY <1>3
  <2>2. pending' = pending
        BY <1>2, Releases
  <2> QED BY <1>2, <2>1, <2>2 DEF KeyedIsSafe, Deleting
<1>6. FoundIsRemoved'
  <2> SUFFICES ASSUME NEW D \in Deletions, pc'[D] = "deleted", row' \in held'[D]
               PROVE  pending' = [by |-> D, to |-> None]
      BY DEF FoundIsRemoved
  <2>1. row' = row
    <3> SUFFICES ASSUME pending # None, pending.by = w, row' = pending.to, row' # None
                 PROVE  FALSE
        BY <1>2, Releases DEF TypeOK
    <3> QED BY <1>1, <1>2 DEF KeyedIsSafe, Deleting
  <2>2. pending = [by |-> D, to |-> None]
        BY <1>2, <1>3, <2>1 DEF FoundIsRemoved
  <2>3. pending # None /\ pending.by # w
        BY <2>2 DEF Change
  <2> QED BY <1>2, <2>2, <2>3, Releases
<1> QED BY <1>2, <1>3, <1>4, <1>5, <1>6

LEMMA LockShielded ==
    ASSUME Shielded, NEW D \in Deletions, Lock(D)
    PROVE  Shielded'
<1> USE Processes DEF Shielded, Types
<1>1. pc[D] = "idle" /\ pc' = [pc EXCEPT ![D] = "locked"]
      BY DEF Lock, Goes
<1>2. UNCHANGED <<status, row, pending, seen, crossed>>
      BY DEF Lock
<1>3. Places' /\ pc'[D] = "locked" /\ \A q \in Writers \cup Deletions : q # D => pc'[q] = pc[q]
      BY <1>1, Moves
<1>4. PICK L \in SUBSET Targets[D] :
          /\ L # {} /\ held' = [held EXCEPT ![D] = L]
          /\ \A r \in L : ~ Deleting(r) /\ ~ Keyed(r)
      BY DEF Lock
<1>5. Targets[D] \subseteq Runs
      BY PbRebuildAssumption
<1>6. TypeOK' /\ DeletionWrites'
      BY <1>1, <1>2, <1>3, <1>4, <1>5 DEF DeletionWrites, TypeOK, Active, Places, Change
<1>7. KeyedIsSafe'
  <2> SUFFICES ASSUME NEW w \in Writers, pc'[w] = "keyed", pending' # None,
                      pending'.by = w, pending'.to # None, NEW E \in Deletions,
                      pending'.to \in held'[E]
               PROVE  FALSE
      BY DEF KeyedIsSafe, Deleting
  <2>1. pc[w] = "keyed" /\ pending' = pending
        BY <1>2, <1>3
  <2>2. pending.to \notin held[E]
        BY <2>1 DEF KeyedIsSafe, Deleting
  <2>3. pending.to \in L
        BY <1>4, <2>1, <2>2
  <2>4. pending = [by |-> w, to |-> pending.to]
        BY <2>1 DEF TypeOK, Change
  <2> QED BY <1>4, <2>1, <2>3, <2>4 DEF Keyed
<1>8. FoundIsRemoved'
      BY <1>2, <1>3, <1>4 DEF FoundIsRemoved
<1>9. held' \in [Deletions -> SUBSET Runs]
      BY <1>4, <1>5
<1> QED BY <1>2, <1>3, <1>6, <1>7, <1>8, <1>9

LEMMA DeleteShielded ==
    ASSUME Shielded, NEW D \in Deletions, Delete(D)
    PROVE  Shielded'
<1> USE Processes DEF Shielded, Types
<1>1. pc[D] = "locked" /\ pc' = [pc EXCEPT ![D] = "deleted"]
      BY DEF Delete, Goes
<1>2. UNCHANGED <<status, row, seen, held, crossed>>
      BY DEF Delete
<1>3. Places' /\ pc'[D] = "deleted" /\ \A q \in Writers \cup Deletions : q # D => pc'[q] = pc[q]
      BY <1>1, Moves
<1>4. IF row \in held[D] THEN pending = None /\ pending' = [by |-> D, to |-> None]
      ELSE pending' = pending
      BY DEF Delete
<1>5. TypeOK' /\ DeletionWrites'
      BY <1>1, <1>2, <1>3, <1>4 DEF DeletionWrites, TypeOK, Active, Places, Change
<1>6. KeyedIsSafe'
  <2> SUFFICES ASSUME NEW v \in Writers, pc'[v] = "keyed", pending' # None,
                      pending'.by = v, pending'.to # None
               PROVE  \A E \in Deletions : pending'.to \notin held'[E]
      BY DEF KeyedIsSafe, Deleting
  <2>1. v # D /\ pc[v] = "keyed"
        BY <1>3
  <2>2. pending' = pending
        BY <1>4, <2>1
  <2> QED BY <1>2, <2>1, <2>2 DEF KeyedIsSafe, Deleting
<1>7. FoundIsRemoved'
  <2>1. \A E \in Deletions : [by |-> E, to |-> None] # None
        BY DEF Change
  <2> QED BY <1>2, <1>3, <1>4, <2>1 DEF FoundIsRemoved
<1> QED BY <1>2, <1>3, <1>5, <1>6, <1>7

LEMMA CommitDeleteShielded ==
    ASSUME Shielded, NEW D \in Deletions, CommitDelete(D)
    PROVE  Shielded'
<1> USE Processes DEF Shielded, Types
<1>1. pc[D] = "deleted" /\ pc' = [pc EXCEPT ![D] = "idle"]
      BY DEF CommitDelete, Goes
<1>2. /\ UNCHANGED <<seen, crossed>>
      /\ status' = [r \in Runs |-> IF r \in held[D] THEN "invalid" ELSE status[r]]
      /\ row' = Landed(D) /\ pending' = Released(D)
      /\ held' = [held EXCEPT ![D] = {}]
      BY DEF CommitDelete
<1>3. Places' /\ pc'[D] = "idle" /\ \A q \in Writers \cup Deletions : q # D => pc'[q] = pc[q]
      BY <1>1, Moves
<1>4. TypeOK' /\ DeletionWrites'
  <2>1. status' \in [Runs -> {"absent", "valid", "invalid"}] /\ row' \in Mine \cup {None}
        BY <1>2, Releases DEF TypeOK
  <2>2. /\ pending' \in Change \cup {None}
        /\ pending' # None => pc'[pending'.by] \in {"written", "keyed", "deleted"}
        BY <1>2, <1>3, Releases DEF TypeOK, Change
  <2>3. \A E \in Deletions :
            held'[E] \subseteq Targets[E] /\ (held'[E] # {} <=> Active(E)')
        BY <1>2, <1>3 DEF TypeOK, Active
  <2>4. DeletionWrites'
        BY <1>2, Releases DEF DeletionWrites
  <2> QED BY <1>2, <1>3, <2>1, <2>2, <2>3, <2>4 DEF TypeOK, Places
<1>5. KeyedIsSafe'
  <2> SUFFICES ASSUME NEW v \in Writers, pc'[v] = "keyed", pending' # None,
                      pending'.by = v, pending'.to # None
               PROVE  \A E \in Deletions : pending'.to \notin held'[E]
      BY DEF KeyedIsSafe, Deleting
  <2>1. v # D /\ pc[v] = "keyed"
        BY <1>3
  <2>2. pending' = pending
        BY <1>2, Releases
  <2> QED BY <1>2, <2>1, <2>2 DEF KeyedIsSafe, Deleting
<1>6. FoundIsRemoved'
  <2> SUFFICES ASSUME NEW E \in Deletions, pc'[E] = "deleted", row' \in held'[E]
               PROVE  pending' = [by |-> E, to |-> None]
      BY DEF FoundIsRemoved
  <2>1. E # D /\ held'[E] = held[E] /\ pc[E] = "deleted"
        BY <1>2, <1>3
  <2>2. Landed(D) = row
        BY <1>2, <2>1, Releases DEF DeletionWrites
  <2>3. pending = [by |-> E, to |-> None]
        BY <1>2, <2>1, <2>2 DEF FoundIsRemoved
  <2>4. pending # None /\ pending.by # D
        BY <2>1, <2>3 DEF Change
  <2> QED BY <1>2, <2>3, <2>4, Releases
<1> QED BY <1>2, <1>3, <1>4, <1>5, <1>6

LEMMA AbortShielded ==
    ASSUME Shielded, NEW p \in Writers \cup Deletions, Abort(p)
    PROVE  Shielded'
<1> USE Processes DEF Shielded, Types
<1>1. pc' = [pc EXCEPT ![p] = "idle"]
      BY DEF Abort
<1>2. /\ UNCHANGED <<status, row, seen, crossed>>
      /\ pending' = Released(p)
      /\ held' = [D \in Deletions |-> IF D = p THEN {} ELSE held[D]]
      BY DEF Abort
<1>3. Places' /\ pc'[p] = "idle" /\ \A q \in Writers \cup Deletions : q # p => pc'[q] = pc[q]
      BY <1>1, Moves
<1>4. TypeOK' /\ DeletionWrites'
      BY <1>1, <1>2, <1>3, Releases DEF DeletionWrites, TypeOK, Active, Places, Change
<1>5. KeyedIsSafe'
  <2> SUFFICES ASSUME NEW v \in Writers, pc'[v] = "keyed", pending' # None,
                      pending'.by = v, pending'.to # None
               PROVE  \A E \in Deletions : pending'.to \notin held'[E]
      BY DEF KeyedIsSafe, Deleting
  <2>1. v # p /\ pc[v] = "keyed"
        BY <1>3
  <2>2. pending' = pending
        BY <1>2, Releases
  <2> QED BY <1>2, <2>1, <2>2 DEF KeyedIsSafe, Deleting
<1>6. FoundIsRemoved'
  <2> SUFFICES ASSUME NEW E \in Deletions, pc'[E] = "deleted", row' \in held'[E]
               PROVE  pending' = [by |-> E, to |-> None]
      BY DEF FoundIsRemoved
  <2>1. E # p /\ held'[E] = held[E] /\ pc[E] = "deleted"
        BY <1>2, <1>3
  <2>2. pending = [by |-> E, to |-> None]
        BY <1>2, <2>1 DEF FoundIsRemoved
  <2>3. pending # None /\ pending.by # p
        BY <2>1, <2>2 DEF Change
  <2> QED BY <1>2, <2>2, <2>3, Releases
<1> QED BY <1>2, <1>3, <1>4, <1>5, <1>6

(* Every statement of every transaction keeps the locks sound.              *)
LEMMA NextShielded == Shielded /\ [Next]_vars => Shielded'
<1> SUFFICES ASSUME Shielded, [Next]_vars PROVE Shielded'
    OBVIOUS
<1>1. ASSUME NEW w \in Writers, Begin(w) \/ ReadRow(w) \/ ReadBest(w) PROVE Shielded'
      BY <1>1, ReadShielded
<1>2. ASSUME NEW w \in Writers, Write(w) \/ CheckKey(w) PROVE Shielded'
      BY <1>2, WriteShielded
<1>3. ASSUME NEW w \in Writers, Commit(w) PROVE Shielded'
      BY <1>3, CommitShielded
<1>4. ASSUME NEW D \in Deletions, Lock(D) PROVE Shielded'
      BY <1>4, LockShielded
<1>5. ASSUME NEW D \in Deletions, Delete(D) PROVE Shielded'
      BY <1>5, DeleteShielded
<1>6. ASSUME NEW D \in Deletions, CommitDelete(D) PROVE Shielded'
      BY <1>6, CommitDeleteShielded
<1>7. ASSUME NEW p \in Writers \cup Deletions, Abort(p) PROVE Shielded'
      BY <1>7, AbortShielded
<1>8. CASE UNCHANGED vars
      BY <1>8 DEF vars, Shielded, Types, DeletionWrites, TypeOK, Places, Active, KeyedIsSafe, FoundIsRemoved,
                  Deleting
<1> QED BY <1>1, <1>2, <1>3, <1>4, <1>5, <1>6, <1>7, <1>8 DEF Next

THEOREM ShieldedHolds == Spec => []Shielded
<1> QED BY InitShielded, NextShielded, PTL DEF Spec

(* Types are correct, and nothing stays locked by a transaction that ended. *)
THEOREM TypeCorrect == Spec => []TypeOK
<1>1. Shielded => TypeOK
      BY DEF Shielded, Types
<1> QED BY <1>1, ShieldedHolds, PTL

(* When a deletion commits, none of its runs is on the leaderboard, whatever *)
(* else is going on.                                                        *)
THEOREM DeletionRemovesHolds == Spec => DeletionRemoves
<1>1. Shielded /\ [Next]_vars =>
        [\A D \in Deletions : CommitDelete(D) => row' \notin held[D]]_vars
  <2> SUFFICES ASSUME Shielded, NEW D \in Deletions, CommitDelete(D) PROVE row' \notin held[D]
      OBVIOUS
  <2>1. pc[D] = "deleted" /\ row' = Landed(D) /\ held[D] \subseteq Runs
        BY DEF CommitDelete, Goes, Shielded, Types
  <2>2. CASE row \in held[D]
    <3>1. pending = [by |-> D, to |-> None]
          BY <2>1, <2>2 DEF Shielded, FoundIsRemoved
    <3> QED BY <2>1, <3>1, Processes DEF Landed, Change
  <2>3. CASE row \notin held[D]
        BY <2>1, <2>3, Processes DEF Landed, DeletionWrites, Shielded, Types
  <2> QED BY <2>2, <2>3
<1> QED BY <1>1, ShieldedHolds, PTL DEF Spec, DeletionRemoves

-----------------------------------------------------------------------------
LEMMA InitOrdered == Init => Ordered
<1> SUFFICES ASSUME Init PROVE Ordered
    OBVIOUS
<1>1. \A w \in Writers : pc[w] = "idle"
      BY DEF Init
<1>2. WrittenIsBest /\ Alone /\ BestIsRead /\ RowIsRead
      BY <1>1 DEF WrittenIsBest, Alone, BestIsRead, RowIsRead, Active
<1>3. Fastest
      BY Processes DEF Init, Fastest
<1> QED BY <1>2, <1>3 DEF Ordered

(* A writer that begins is alone, or a re-enable overlaps another writer.   *)
LEMMA BeginOrdered ==
    ASSUME Shielded, Ordered, NEW w \in Writers, Begin(w)
    PROVE  Ordered'
<1>1. pc[w] = "idle" /\ pc' = [pc EXCEPT ![w] = "begun"]
      BY DEF Begin, Goes
<1>2. UNCHANGED <<status, row, pending, seen, held>>
      BY DEF Begin
<1>3. pc'[w] = "begun" /\ \A q \in Writers \cup Deletions : q # w => pc'[q] = pc[q]
      BY <1>1, Moves, Processes DEF Shielded, Types
<1>4. WrittenIsBest'
      BY <1>2, <1>3 DEF Ordered, WrittenIsBest, Replaces
<1>5. ASSUME ~ crossed' PROVE (Alone /\ BestIsRead /\ RowIsRead /\ Fastest)'
  <2>1. /\ ~ crossed
        /\ \A v \in Writers : Active(v) => {v, w} \cap Reenables = {}
        BY <1>5 DEF Begin
  <2>2. \A v \in Writers : ~ Active(v)
        BY <2>1 DEF Begin, CourseFree, Writers
  <2>3. Alone'
        BY <1>3, <2>2 DEF Alone, Active
  <2>4. (BestIsRead /\ RowIsRead /\ Fastest)'
        BY <1>2, <1>3, <2>1 DEF Ordered, BestIsRead, RowIsRead, Fastest
  <2> QED BY <2>3, <2>4
<1> QED BY <1>4, <1>5 DEF Ordered

LEMMA ReadRowOrdered ==
    ASSUME Shielded, Ordered, NEW w \in Writers, ReadRow(w)
    PROVE  Ordered'
<1>1. pc[w] = "begun" /\ pc' = [pc EXCEPT ![w] = "row"]
      BY DEF ReadRow, Goes
<1>2. UNCHANGED <<status, row, pending, held, crossed>>
      BY DEF ReadRow
<1>3. pc'[w] = "row" /\ \A q \in Writers \cup Deletions : q # w => pc'[q] = pc[q]
      BY <1>1, Moves, Processes DEF Shielded, Types
<1>4. seen'[w].row = row /\ \A v \in Writers : v # w => seen'[v] = seen[v]
      BY DEF ReadRow, Shielded, Types, TypeOK
<1>5. WrittenIsBest'
      BY <1>2, <1>3, <1>4 DEF Ordered, WrittenIsBest, Replaces
<1>6. ASSUME ~ crossed PROVE (Alone /\ BestIsRead /\ RowIsRead /\ Fastest)'
  <2>1. Alone'
        BY <1>1, <1>3, <1>6 DEF Ordered, Alone, Active
  <2>2. (BestIsRead /\ RowIsRead /\ Fastest)'
        BY <1>2, <1>3, <1>4, <1>6 DEF Ordered, BestIsRead, RowIsRead, Fastest
  <2> QED BY <2>1, <2>2
<1> QED BY <1>2, <1>5, <1>6 DEF Ordered

LEMMA ReadBestOrdered ==
    ASSUME Shielded, Ordered, NEW w \in Writers, ReadBest(w)
    PROVE  Ordered'
<1>1. pc[w] = "row" /\ pc' = [pc EXCEPT ![w] = "best"]
      BY DEF ReadBest, Goes
<1>2. UNCHANGED <<status, row, pending, held, crossed>>
      BY DEF ReadBest
<1>3. pc'[w] = "best" /\ \A q \in Writers \cup Deletions : q # w => pc'[q] = pc[q]
      BY <1>1, Moves, Processes DEF Shielded, Types
<1>4. PICK b \in Runs \cup {None} :
          /\ IF Visible(w) = {} THEN b = None
             ELSE b \in Visible(w) /\ \A r \in Visible(w) : b <= r
          /\ seen' = [seen EXCEPT ![w].best = b]
      BY DEF ReadBest
<1>5. /\ seen'[w].best = b /\ seen'[w].row = seen[w].row
      /\ \A v \in Writers : v # w => seen'[v] = seen[v]
      BY <1>4 DEF Shielded, Types, TypeOK
<1>6. WrittenIsBest'
      BY <1>2, <1>3, <1>5 DEF Ordered, WrittenIsBest, Replaces
<1>7. ASSUME ~ crossed PROVE (Alone /\ BestIsRead /\ RowIsRead /\ Fastest)'
  <2>1. Alone'
        BY <1>1, <1>3, <1>7 DEF Ordered, Alone, Active
  <2>2. \A r \in Mine : status[r] = "valid" \/ r = w => b # None /\ b <= r
        BY <1>4, Processes DEF Visible
  <2>3. BestIsRead'
        BY <1>2, <1>3, <1>5, <1>7, <2>2 DEF Ordered, BestIsRead
  <2>4. (RowIsRead /\ Fastest)'
        BY <1>1, <1>2, <1>3, <1>5, <1>7 DEF Ordered, RowIsRead, Fastest
  <2> QED BY <2>1, <2>3, <2>4
<1> QED BY <1>2, <1>6, <1>7 DEF Ordered

LEMMA WriteOrdered ==
    ASSUME Shielded, Ordered, NEW w \in Writers, Write(w) \/ CheckKey(w)
    PROVE  Ordered'
<1>1. PICK at \in {"written", "keyed"} :
          pc[w] \in {"best", "written"} /\ pc' = [pc EXCEPT ![w] = at]
      BY DEF Write, CheckKey, Goes
<1>2. UNCHANGED <<status, row, seen, held, crossed>>
      BY DEF Write, CheckKey
<1>3. pc'[w] = at /\ \A q \in Writers \cup Deletions : q # w => pc'[q] = pc[q]
      BY <1>1, Moves, Processes DEF Shielded, Types
<1>4. WrittenIsBest'
  <2>1. CASE Write(w)
    <3>1. CASE Replaces(w)
      <4>1. pending = None /\ pending' = [by |-> w, to |-> seen[w].best]
            BY <2>1, <3>1 DEF Write, Written
      <4>2. \A v \in Writers : [by |-> v, to |-> seen[v].best] # None
            BY Processes DEF Change, Shielded, Types, TypeOK
      <4> QED BY <1>2, <1>3, <3>1, <4>1, <4>2 DEF Ordered, WrittenIsBest, Replaces
    <3>2. CASE ~ Replaces(w)
      <4>1. pending' = pending /\ pc[w] = "best"
            BY <2>1, <3>2 DEF Write, Goes
      <4>2. pending = None \/ pending.by # w
            BY <4>1 DEF Shielded, Types, TypeOK
      <4> QED BY <1>2, <1>3, <3>2, <4>1, <4>2 DEF Ordered, WrittenIsBest, Replaces
    <3> QED BY <3>1, <3>2
  <2>2. CASE CheckKey(w)
    <3>1. pending' = pending /\ pc[w] = "written"
          BY <2>2 DEF CheckKey, Goes
    <3> QED BY <1>2, <1>3, <3>1 DEF Ordered, WrittenIsBest, Replaces
  <2> QED BY <2>1, <2>2
<1>5. ASSUME ~ crossed PROVE (Alone /\ BestIsRead /\ RowIsRead /\ Fastest)'
  <2>1. Alone'
        BY <1>1, <1>3, <1>5 DEF Ordered, Alone, Active
  <2>2. (BestIsRead /\ RowIsRead /\ Fastest)'
        BY <1>1, <1>2, <1>3, <1>5 DEF Ordered, BestIsRead, RowIsRead, Fastest
  <2> QED BY <2>1, <2>2
<1> QED BY <1>2, <1>4, <1>5 DEF Ordered

(* A transaction that ends takes only its own write with it.                *)
LEMMA ReleasesOrdered ==
    ASSUME Types, WrittenIsBest, NEW p \in Writers \cup Deletions,
           pending' = Released(p), UNCHANGED seen,
           pc'[p] = "idle", \A q \in Writers \cup Deletions : q # p => pc'[q] = pc[q]
    PROVE  WrittenIsBest'
<1> SUFFICES ASSUME NEW v \in Writers, pc'[v] \in {"written", "keyed"}
             PROVE  IF Replaces(v)' THEN pending' = [by |-> v, to |-> seen[v].best]
                    ELSE pending' = None \/ pending'.by # v
    BY DEF WrittenIsBest
<1>1. v # p /\ pc[v] \in {"written", "keyed"} /\ (Replaces(v)' <=> Replaces(v))
      BY DEF Replaces
<1>2. CASE Replaces(v)
  <2>1. pending = [by |-> v, to |-> seen[v].best]
        BY <1>1, <1>2 DEF WrittenIsBest
  <2>2. pending # None
        BY <2>1, Processes DEF Change, Types, TypeOK
  <2> QED BY <1>1, <1>2, <2>1, <2>2, Releases
<1>3. CASE ~ Replaces(v)
  <2>1. pending = None \/ pending.by # v
        BY <1>1, <1>3 DEF WrittenIsBest
  <2> QED BY <1>1, <1>3, <2>1, Releases
<1> QED BY <1>2, <1>3

(* A writer that commits leaves its best run, or the row that was it.       *)
LEMMA CommitOrdered ==
    ASSUME Shielded, Ordered, NEW w \in Writers, Commit(w)
    PROVE  Ordered'
<1>1. pc[w] = "keyed" /\ pc' = [pc EXCEPT ![w] = "idle"]
      BY DEF Commit, Goes
<1>2. /\ UNCHANGED <<seen, held, crossed>>
      /\ status' = [status EXCEPT ![w] = "valid"]
      /\ row' = Landed(w) /\ pending' = Released(w)
      BY DEF Commit
<1>3. pc'[w] = "idle" /\ \A q \in Writers \cup Deletions : q # w => pc'[q] = pc[q]
      BY <1>1, Moves, Processes DEF Shielded, Types
<1>4. WrittenIsBest'
      BY <1>2, <1>3, ReleasesOrdered DEF Shielded, Ordered
<1>5. ASSUME ~ crossed PROVE (Alone /\ BestIsRead /\ RowIsRead /\ Fastest)'
  <2>1. \A v \in Writers : pc'[v] = "idle"
        BY <1>1, <1>3, <1>5 DEF Ordered, Alone, Active
  <2>2. (Alone /\ BestIsRead /\ RowIsRead)'
        BY <2>1 DEF Alone, Active, BestIsRead, RowIsRead
  <2>3. row' \in {seen[w].best, None}
    <3>1. CASE Replaces(w)
      <4>1. pending = [by |-> w, to |-> seen[w].best]
            BY <1>1, <3>1 DEF Ordered, WrittenIsBest
      <4>2. pending # None
            BY <4>1, Processes DEF Change, Shielded, Types, TypeOK
      <4> QED BY <1>2, <4>1, <4>2 DEF Landed
    <3>2. CASE ~ Replaces(w)
      <4>1. row' = row
            BY <1>1, <1>2, <3>2 DEF Ordered, WrittenIsBest, Landed
      <4>2. row \in {seen[w].row, None}
            BY <1>1, <1>5 DEF Ordered, RowIsRead
      <4> QED BY <3>2, <4>1, <4>2 DEF Replaces
    <3> QED BY <3>1, <3>2
  <2>4. \A r \in Mine : status'[r] = "valid" => status[r] = "valid" \/ r = w
        BY <1>2, Processes DEF Shielded, Types, TypeOK
  <2>5. Fastest'
        BY <1>1, <1>5, <2>3, <2>4 DEF Ordered, BestIsRead, Fastest
  <2> QED BY <2>2, <2>5
<1> QED BY <1>2, <1>4, <1>5 DEF Ordered

(* Locking and deleting only ever take the row and valid runs away.         *)
LEMMA DeletionOrdered ==
    ASSUME Shielded, Ordered, NEW D \in Deletions, Lock(D) \/ Delete(D) \/ CommitDelete(D)
    PROVE  Ordered'
<1>1. UNCHANGED <<seen, crossed>> /\ \A w \in Writers : pc'[w] = pc[w]
      BY Processes DEF Lock, Delete, CommitDelete, Goes, Shielded, Types, Places
<1>2. /\ row' \in {row, None}
      /\ \A r \in Mine : status'[r] = "valid" => status[r] = "valid"
  <2>1. CASE Lock(D) \/ Delete(D)
        BY <2>1 DEF Lock, Delete
  <2>2. CASE CommitDelete(D)
        BY <2>2, Releases, Processes DEF CommitDelete, Shielded, Types, DeletionWrites
  <2> QED BY <2>1, <2>2
<1>3. WrittenIsBest'
  <2>1. CASE Lock(D)
        BY <1>1, <2>1 DEF Lock, Ordered, WrittenIsBest, Replaces
  <2>2. CASE Delete(D)
    <3>1. pending' \in {pending, [by |-> D, to |-> None]} /\ (pending' # pending => pending = None)
          BY <2>2 DEF Delete
    <3>2. \A v \in Writers : v # D /\ [by |-> v, to |-> seen[v].best] # None
          BY Processes DEF Change, Shielded, Types, TypeOK
    <3> QED BY <1>1, <3>1, <3>2 DEF Ordered, WrittenIsBest, Replaces
  <2>3. CASE CommitDelete(D)
    <3>1. pc' = [pc EXCEPT ![D] = "idle"] /\ pending' = Released(D)
          BY <2>3 DEF CommitDelete, Goes
    <3>2. pc'[D] = "idle" /\ \A q \in Writers \cup Deletions : q # D => pc'[q] = pc[q]
          BY <3>1, Moves, Processes DEF Shielded, Types
    <3> QED BY <1>1, <3>1, <3>2, ReleasesOrdered DEF Shielded, Ordered
  <2> QED BY <2>1, <2>2, <2>3
<1>4. ASSUME ~ crossed PROVE (Alone /\ BestIsRead /\ RowIsRead /\ Fastest)'
  <2>1. (Alone /\ BestIsRead)'
        BY <1>1, <1>2, <1>4 DEF Ordered, Alone, Active, BestIsRead
  <2>2. (RowIsRead /\ Fastest)'
        BY <1>1, <1>2, <1>4 DEF Ordered, RowIsRead, Fastest
  <2> QED BY <2>1, <2>2
<1> QED BY <1>1, <1>3, <1>4 DEF Ordered

LEMMA AbortOrdered ==
    ASSUME Shielded, Ordered, NEW p \in Writers \cup Deletions, Abort(p)
    PROVE  Ordered'
<1>1. /\ UNCHANGED <<status, row, seen, crossed>>
      /\ pending' = Released(p) /\ pc' = [pc EXCEPT ![p] = "idle"]
      BY DEF Abort
<1>2. pc'[p] = "idle" /\ \A q \in Writers \cup Deletions : q # p => pc'[q] = pc[q]
      BY <1>1, Moves, Processes DEF Shielded, Types
<1>3. WrittenIsBest'
      BY <1>1, <1>2, ReleasesOrdered DEF Shielded, Ordered
<1>4. ASSUME ~ crossed PROVE (Alone /\ BestIsRead /\ RowIsRead /\ Fastest)'
  <2>1. Alone'
        BY <1>2, <1>4 DEF Ordered, Alone, Active
  <2>2. (BestIsRead /\ RowIsRead /\ Fastest)'
        BY <1>1, <1>2, <1>4 DEF Ordered, BestIsRead, RowIsRead, Fastest
  <2> QED BY <2>1, <2>2
<1> QED BY <1>1, <1>3, <1>4 DEF Ordered

(* Every statement of every transaction keeps the order.                    *)
LEMMA NextOrdered == Shielded /\ Ordered /\ [Next]_vars => Ordered'
<1> SUFFICES ASSUME Shielded, Ordered, [Next]_vars PROVE Ordered'
    OBVIOUS
<1>1. ASSUME NEW w \in Writers, Begin(w) PROVE Ordered'
      BY <1>1, BeginOrdered
<1>2. ASSUME NEW w \in Writers, ReadRow(w) PROVE Ordered'
      BY <1>2, ReadRowOrdered
<1>3. ASSUME NEW w \in Writers, ReadBest(w) PROVE Ordered'
      BY <1>3, ReadBestOrdered
<1>4. ASSUME NEW w \in Writers, Write(w) \/ CheckKey(w) PROVE Ordered'
      BY <1>4, WriteOrdered
<1>5. ASSUME NEW w \in Writers, Commit(w) PROVE Ordered'
      BY <1>5, CommitOrdered
<1>6. ASSUME NEW D \in Deletions, Lock(D) \/ Delete(D) \/ CommitDelete(D) PROVE Ordered'
      BY <1>6, DeletionOrdered
<1>7. ASSUME NEW p \in Writers \cup Deletions, Abort(p) PROVE Ordered'
      BY <1>7, AbortOrdered
<1>8. CASE UNCHANGED vars
      BY <1>8 DEF vars, Ordered, WrittenIsBest, Replaces, Alone, Active, BestIsRead, RowIsRead,
                  Fastest
<1> QED BY <1>1, <1>2, <1>3, <1>4, <1>5, <1>6, <1>7, <1>8 DEF Next

(* Writers under the course lock never put a slower run over a faster one:  *)
(* only an overlapping re-enable can.                                       *)
THEOREM SlowerNeedsReenableHolds == Spec => []SlowerNeedsReenable
<1>1. Ordered => SlowerNeedsReenable
      BY DEF Ordered, Fastest, SlowerNeedsReenable
<1>2. Spec => []Ordered
      BY InitOrdered, NextOrdered, ShieldedHolds, PTL DEF Spec
<1> QED BY <1>1, <1>2, PTL
-----------------------------------------------------------------------------
(* What a moderator's transaction may look like.                            *)
States == [at : {"idle", "locking", "loaded"}, todo : SUBSET Rows,
           held : SUBSET Rows, saw : SUBSET Rows]

(* A transaction that is to invalidate rows has locked each of them, and    *)
(* found it valid.                                                          *)
HeldIsLocked ==
    \A m \in Requests : \A r \in moderator[m].held : owner[r] = m /\ r \in valid

(* A row that was judged invalid is, until it is re-enabled.                *)
JudgedIsInvalid == judged \cap valid = {}

(* A native run never disappears: only one that is there was judged.        *)
JudgedIsThere == "native" \in judged => "native" \in live

(* What an upload brings is not there before it commits.                    *)
UploadIsNew ==
    merge.at \in {"loaded", "matched"} /\ merge.upload => "native" \notin live

(* The merge reads the mirror's validity together with its verdict.         *)
VerdictIsRead ==
    /\ merge.at = "loaded" => merge.saw \subseteq {"native"}
    /\ merge.at = "matched" => "mirror" \notin merge.before \cap merge.saw

Judging ==
    /\ MergeTypes
    /\ HeldIsLocked
    /\ JudgedIsInvalid
    /\ JudgedIsThere
    /\ UploadIsNew
    /\ VerdictIsRead
-----------------------------------------------------------------------------
LEMMA Transactions ==
    /\ Nobody \notin Requests /\ Merge \notin Requests /\ Nobody # Merge
    /\ Rows = {"native", "mirror"} /\ "native" # "mirror"
BY DEF Rows, Nobody, Merge, Requests

(* A transaction that ends, or locks a row, leaves the locks of the others. *)
LEMMA Locks ==
    ASSUME MergeTypes, NEW t \in Requests \cup {Merge}, NEW r \in Rows,
           Release(t) \/ Acquire(r, t)
    PROVE  /\ owner' \in [Rows -> Requests \cup {Merge, Nobody}]
           /\ \A s \in Rows : owner[s] \notin {t, Nobody} => owner'[s] = owner[s]
           /\ Acquire(r, t) => owner'[r] = t /\ \A s \in Rows : owner[s] = t => owner'[s] = t
BY Transactions DEF MergeTypes, Release, Acquire

LEMMA InitJudging == MergeInit => Judging
<1> SUFFICES ASSUME MergeInit PROVE Judging
    OBVIOUS
<1>1. MergeTypes
      BY Transactions DEF MergeInit, MergeTypes, NoMerge, Idle
<1> QED BY <1>1 DEF MergeInit, Judging, HeldIsLocked, JudgedIsInvalid, JudgedIsThere,
                    UploadIsNew, VerdictIsRead, NoMerge, Idle

(* The steps of the merge that only read.                                   *)
LEMMA LoadJudging ==
    ASSUME Judging, LoadNative \/ LoadMirror
    PROVE  Judging'
<1> USE Transactions DEF Judging
<1>1. UNCHANGED <<live, valid, owner, moderator, judged>>
      BY DEF LoadNative, LoadMirror
<1>2. HeldIsLocked' /\ JudgedIsInvalid' /\ JudgedIsThere'
      BY <1>1 DEF HeldIsLocked, JudgedIsInvalid, JudgedIsThere
<1>3. CASE LoadNative
  <2>1. MergeTypes'
        BY <1>1, <1>3 DEF LoadNative, MergeTypes
  <2>2. UploadIsNew' /\ VerdictIsRead'
        BY <1>1, <1>3 DEF LoadNative, UploadIsNew, VerdictIsRead
  <2> QED BY <1>2, <2>1, <2>2
<1>4. CASE LoadMirror
  <2>1. /\ merge.at = "loaded" /\ merge'.at = "matched" /\ merge'.upload = merge.upload
        /\ merge'.saw = merge.saw \cup (valid \cap {"mirror"}) /\ merge'.before = judged
        BY <1>4 DEF LoadMirror, MergeTypes
  <2>2. MergeTypes'
        BY <1>1, <1>4 DEF LoadMirror, MergeTypes
  <2>3. UploadIsNew' /\ VerdictIsRead'
        BY <1>1, <2>1 DEF UploadIsNew, VerdictIsRead, JudgedIsInvalid
  <2> QED BY <1>2, <2>2, <2>3
<1> QED BY <1>3, <1>4

LEMMA FlushJudging ==
    ASSUME Judging, Detach \/ Attach
    PROVE  Judging'
<1> USE Transactions DEF Judging
<1>1. UNCHANGED <<live, valid, merge, moderator, judged>>
      BY DEF Detach, Attach
<1>2. PICK r \in Rows : Acquire(r, Merge)
      BY DEF Detach, Attach
<1>3. /\ owner' \in [Rows -> Requests \cup {Merge, Nobody}]
      /\ \A s \in Rows : owner[s] \in Requests => owner'[s] = owner[s]
      BY <1>2, Locks
<1>4. MergeTypes'
      BY <1>1, <1>3 DEF MergeTypes
<1>5. HeldIsLocked'
      BY <1>1, <1>3 DEF HeldIsLocked, MergeTypes
<1> QED BY <1>1, <1>4, <1>5 DEF JudgedIsInvalid, JudgedIsThere, UploadIsNew, VerdictIsRead

(* The merge writes a valid native row only where it is or was not there.   *)
LEMMA MergedValidity ==
    ASSUME Judging, merge.at = "matched"
    PROVE  /\ NativeValid \subseteq {"native"}
           /\ judged \cap NativeValid = {}
           /\ "mirror" \in merge.before /\ "native" \in merge.saw => NativeValid = {}
<1> USE Transactions DEF Judging
<1>1. merge.upload => "native" \notin judged
      BY DEF UploadIsNew, JudgedIsThere
<1>2. "mirror" \in merge.before => ~ Verdict
      BY DEF VerdictIsRead, Verdict
<1> QED BY <1>1, <1>2 DEF NativeValid, Rewritten, JudgedIsInvalid

LEMMA CommitJudging ==
    ASSUME Judging, CommitMerge
    PROVE  Judging'
<1> USE Transactions DEF Judging
<1>1. /\ merge.at = "matched" /\ \A r \in Rows : owner[r] = Merge
      /\ live' = {"native"} /\ valid' = NativeValid
      /\ merge' = [merge EXCEPT !.at = "merged"] /\ Release(Merge)
      /\ UNCHANGED <<moderator, judged>>
      BY DEF CommitMerge
<1>2. owner' \in [Rows -> Requests \cup {Merge, Nobody}]
      BY <1>1, Locks
<1>3. valid' \subseteq live' /\ judged' \cap valid' = {}
      BY <1>1, MergedValidity
<1>4. MergeTypes'
      BY <1>1, <1>2, <1>3 DEF MergeTypes
<1>5. \A m \in Requests : moderator[m].held = {}
      BY <1>1 DEF HeldIsLocked, MergeTypes
<1>6. HeldIsLocked' /\ JudgedIsInvalid' /\ JudgedIsThere'
      BY <1>1, <1>3, <1>5 DEF HeldIsLocked, JudgedIsInvalid, JudgedIsThere
<1>7. UploadIsNew' /\ VerdictIsRead'
      BY <1>1 DEF UploadIsNew, VerdictIsRead, MergeTypes
<1> QED BY <1>4, <1>6, <1>7

LEMMA AbortMergeJudging ==
    ASSUME Judging, AbortMerge
    PROVE  Judging'
<1> USE Transactions DEF Judging
<1>1. merge' = NoMerge /\ Release(Merge) /\ UNCHANGED <<live, valid, moderator, judged>>
      BY DEF AbortMerge
<1>2. /\ owner' \in [Rows -> Requests \cup {Merge, Nobody}]
      /\ \A s \in Rows : owner[s] \in Requests => owner'[s] = owner[s]
      BY <1>1, Locks
<1>3. MergeTypes'
      BY <1>1, <1>2 DEF MergeTypes, NoMerge
<1>4. HeldIsLocked'
      BY <1>1, <1>2 DEF HeldIsLocked, MergeTypes
<1> QED BY <1>1, <1>3, <1>4 DEF JudgedIsInvalid, JudgedIsThere, UploadIsNew, VerdictIsRead,
                              NoMerge
-----------------------------------------------------------------------------
(* A moderator that locks and writes nothing may forget the rows it holds.  *)
LEMMA ThinkJudging ==
    ASSUME Judging, NEW m \in Requests,
           NEW s \in States,
           s.held = {}, Becomes(m, s), Release(m) \/ UNCHANGED owner,
           UNCHANGED <<live, valid, merge, judged>>
    PROVE  Judging'
<1> USE Transactions DEF Judging
<1>1. /\ owner' \in [Rows -> Requests \cup {Merge, Nobody}]
      /\ \A r \in Rows : owner[r] \in Requests \ {m} => owner'[r] = owner[r]
      BY Locks DEF MergeTypes
<1>2. moderator' = [moderator EXCEPT ![m] = s]
      BY DEF Becomes
<1>3. MergeTypes'
      BY <1>1, <1>2 DEF MergeTypes, States
<1>4. HeldIsLocked'
  <2> SUFFICES ASSUME NEW n \in Requests, NEW r \in moderator'[n].held
               PROVE  owner'[r] = n /\ r \in valid'
      BY DEF HeldIsLocked
  <2>1. n # m /\ r \in moderator[n].held /\ r \in Rows
        BY <1>2 DEF MergeTypes
  <2>2. owner[r] = n /\ r \in valid
        BY <2>1 DEF HeldIsLocked
  <2> QED BY <1>1, <2>1, <2>2
<1> QED BY <1>3, <1>4 DEF JudgedIsInvalid, JudgedIsThere, UploadIsNew, VerdictIsRead

LEMMA SelectJudging ==
    ASSUME Judging, NEW m \in Requests,
           \/ BulkDelete(m) \/ AbortModeration(m)
           \/ \E r \in Rows : Invalidate(m, r) \/ LoadReenable(m, r)
    PROVE  Judging'
<1>1. PICK s \in States :
          s.held = {} /\ Becomes(m, s)
  <2>1. CASE BulkDelete(m)
        BY <2>1 DEF BulkDelete, Idle, Judging, MergeTypes, States
  <2>2. CASE AbortModeration(m)
        BY <2>2 DEF AbortModeration, Idle, States
  <2>3. CASE \E r \in Rows : Invalidate(m, r) \/ LoadReenable(m, r)
        BY <2>3 DEF Invalidate, LoadReenable, Idle, States
  <2> QED BY <2>1, <2>2, <2>3
<1>2. (Release(m) \/ UNCHANGED owner) /\ UNCHANGED <<live, valid, merge, judged>>
      BY DEF BulkDelete, AbortModeration, Invalidate, LoadReenable
<1> QED BY <1>1, <1>2, ThinkJudging

LEMMA LockRowJudging ==
    ASSUME Judging, NEW m \in Requests, NEW r \in Rows, LockRow(m, r)
    PROVE  Judging'
<1> USE Transactions DEF Judging
<1>1. UNCHANGED <<live, valid, merge, judged>>
      BY DEF LockRow
<1>2. /\ moderator' \in [Requests -> States]
      /\ \A n \in Requests \ {m} : moderator'[n] = moderator[n]
      /\ moderator'[m].held \in {moderator[m].held, moderator[m].held \cup {r}}
      /\ r \notin valid => moderator'[m].held = moderator[m].held
  <2>1. PICK kept \in {moderator[m].held, moderator[m].held \cup {r}} :
            /\ r \notin valid => kept = moderator[m].held
            /\ moderator' = [moderator EXCEPT ![m] =
                                [moderator[m] EXCEPT !.todo = @ \ {r}, !.held = kept]]
    <3>1. CASE r \in valid
          BY <3>1 DEF LockRow, Becomes
    <3>2. CASE r \notin valid
      <4>1. moderator' = [moderator EXCEPT ![m] = [moderator[m] EXCEPT !.todo = @ \ {r}]]
            BY <3>2 DEF LockRow, Becomes
      <4>2. [moderator[m] EXCEPT !.todo = @ \ {r}] =
            [moderator[m] EXCEPT !.todo = @ \ {r}, !.held = moderator[m].held]
            BY DEF MergeTypes
      <4> QED BY <4>1, <4>2
    <3> QED BY <3>1, <3>2
  <2> DEFINE s == moderator[m]
             t == s.todo \ {r}
             u == [s EXCEPT !.todo = t, !.held = kept]
  <2>2. s \in States /\ kept \in SUBSET Rows /\ t \in SUBSET Rows
        BY DEF MergeTypes, States
  <2>3. moderator' = [moderator EXCEPT ![m] = u]
        BY <2>1
  <2>4. u \in States /\ u.held = kept
    <3> HIDE DEF s, t
    <3> QED BY <2>2 DEF States
  <2> HIDE DEF u
  <2> QED BY <2>1, <2>3, <2>4 DEF MergeTypes, States
<1>3. /\ owner' \in [Rows -> Requests \cup {Merge, Nobody}]
      /\ \A s \in Rows : owner[s] \in Requests => owner'[s] = owner[s]
      /\ r \in valid => owner'[r] = m
  <2>1. CASE r \in valid
        BY <2>1, Locks DEF LockRow
  <2>2. CASE r \notin valid
        BY <2>2 DEF LockRow, MergeTypes
  <2> QED BY <2>1, <2>2
<1>4. MergeTypes'
      BY <1>1, <1>2, <1>3 DEF MergeTypes, States
<1>5. HeldIsLocked'
  <2> SUFFICES ASSUME NEW n \in Requests, NEW s \in moderator'[n].held
               PROVE  owner'[s] = n /\ s \in valid'
      BY DEF HeldIsLocked
  <2>1. CASE s \in moderator[n].held
        BY <1>1, <1>3, <2>1 DEF HeldIsLocked, MergeTypes
  <2>2. CASE s \notin moderator[n].held
    <3>1. n = m /\ s = r /\ r \in valid
          BY <1>2, <2>2
    <3> QED BY <1>1, <1>3, <3>1
  <2> QED BY <2>1, <2>2
<1> QED BY <1>1, <1>4, <1>5 DEF JudgedIsInvalid, JudgedIsThere, UploadIsNew, VerdictIsRead

LEMMA DeleteJudging ==
    ASSUME Judging, NEW m \in Requests, soft_delete_records_with_audit(m)
    PROVE  Judging'
<1> USE Transactions DEF Judging
<1>1. /\ valid' = valid \ moderator[m].held /\ judged' = judged \cup moderator[m].held
      /\ moderator' = [moderator EXCEPT ![m] = Idle] /\ Release(m) /\ UNCHANGED <<live, merge>>
      BY DEF soft_delete_records_with_audit, Becomes
<1>2. /\ owner' \in [Rows -> Requests \cup {Merge, Nobody}]
      /\ \A r \in Rows : owner[r] \in Requests \ {m} => owner'[r] = owner[r]
      BY <1>1, Locks
<1>3. MergeTypes'
      BY <1>1, <1>2 DEF MergeTypes, Idle
<1>4. HeldIsLocked'
  <2> SUFFICES ASSUME NEW n \in Requests, NEW r \in moderator'[n].held
               PROVE  owner'[r] = n /\ r \in valid'
      BY DEF HeldIsLocked
  <2>1. n # m /\ r \in moderator[n].held /\ r \in Rows
        BY <1>1 DEF MergeTypes, Idle
  <2>2. owner[r] = n /\ r \in valid
        BY <2>1 DEF HeldIsLocked
  <2>3. r \notin moderator[m].held
        BY <2>1, <2>2 DEF HeldIsLocked
  <2> QED BY <1>1, <1>2, <2>1, <2>2, <2>3
<1>5. JudgedIsInvalid' /\ JudgedIsThere'
      BY <1>1 DEF JudgedIsInvalid, JudgedIsThere, HeldIsLocked, MergeTypes
<1> QED BY <1>1, <1>3, <1>4, <1>5 DEF UploadIsNew, VerdictIsRead

LEMMA ReenableJudging ==
    ASSUME Judging, NEW m \in Requests, NEW r \in Rows, Reenable(m, r)
    PROVE  Judging'
<1> USE Transactions DEF Judging
<1>1. /\ r \in live /\ valid \subseteq valid' /\ valid' \subseteq valid \cup {r}
      /\ judged' = (judged \cap live) \ {r}
      /\ moderator' = [moderator EXCEPT ![m] = Idle] /\ UNCHANGED <<live, owner, merge>>
      BY DEF Reenable, Becomes
<1>2. MergeTypes'
      BY <1>1 DEF MergeTypes, Idle
<1>3. HeldIsLocked'
      BY <1>1 DEF HeldIsLocked, MergeTypes, Idle
<1>4. JudgedIsInvalid' /\ JudgedIsThere'
      BY <1>1 DEF JudgedIsInvalid, JudgedIsThere
<1> QED BY <1>1, <1>2, <1>3, <1>4 DEF UploadIsNew, VerdictIsRead

LEMMA NextJudging == Judging /\ [MergeNext]_mergeVars => Judging'
<1> SUFFICES ASSUME Judging, [MergeNext]_mergeVars PROVE Judging'
    OBVIOUS
<1>1. CASE Merging
      BY <1>1, LoadJudging, FlushJudging, CommitJudging, AbortMergeJudging DEF Merging
<1>2. ASSUME NEW m \in Requests, Moderating(m) PROVE Judging'
      BY <1>2, SelectJudging, LockRowJudging, DeleteJudging, ReenableJudging DEF Moderating
<1>3. CASE UNCHANGED mergeVars
      BY <1>3 DEF mergeVars, Judging, MergeTypes, HeldIsLocked, JudgedIsInvalid, JudgedIsThere,
                  UploadIsNew, VerdictIsRead
<1> QED BY <1>1, <1>2, <1>3 DEF MergeNext
-----------------------------------------------------------------------------
(* The two rows, the row locks and the transactions keep their shape, and   *)
(* every valid row is there, for any number of moderators.                  *)
THEOREM ModerationTypes == MergeSpec => []MergeTypes
<1>1. Judging => MergeTypes
      BY DEF Judging
<1> QED BY InitJudging, NextJudging, <1>1, PTL DEF MergeSpec

(* No interleaving of merges with moderators' transactions makes a native   *)
(* run valid whose latest verdict says invalid.                             *)
THEOREM NativeVerdict == MergeSpec => []NativeVerdictStands
<1>1. Judging => NativeVerdictStands
      BY DEF Judging, JudgedIsInvalid, NativeVerdictStands
<1> QED BY InitJudging, NextJudging, <1>1, PTL DEF MergeSpec

(* A merge commits the verdict on the mirror that it could read: what was   *)
(* invalid then, and read with a valid native run, ends as an invalid run.  *)
THEOREM EarlierVerdict == MergeSpec => EarlierVerdictStands
<1>1. Judging /\ [MergeNext]_mergeVars =>
        [CommitMerge /\ "mirror" \in merge.before /\ "native" \in merge.saw
            => "native" \notin valid']_mergeVars
  <2> SUFFICES ASSUME Judging, CommitMerge, "mirror" \in merge.before, "native" \in merge.saw
               PROVE  "native" \notin valid'
      OBVIOUS
  <2>1. merge.at = "matched" /\ valid' = NativeValid
        BY DEF CommitMerge
  <2> QED BY <2>1, MergedValidity
<1> QED BY InitJudging, NextJudging, <1>1, PTL DEF MergeSpec, EarlierVerdictStands
=============================================================================
