------------------------ MODULE RecordIdentity_proofs ------------------------
(***************************************************************************)
(* The invariants of RecordIdentity hold for every set of ids, UUIDs,      *)
(* finishes and upstream bodies and for every matching window; no step     *)
(* undoes a link, an upstream run, a verdict or a replay decision; and the *)
(* tables implement UpstreamLedger.                                        *)
(***************************************************************************)
EXTENDS RecordIdentity, TLAPS

(* The parts of the invariant, of tables that need not be the current ones: *)
(* a transaction passes through tables nobody else sees.                    *)
Injective(R) ==
    \A u, v \in Uuids : R[u] # None /\ R[v] # None /\ R[u].id = R[v].id => u = v \/ R[u].id = None

Truthful(R, C) ==
    \A n \in Uuids, x \in Ids : C[<<n, x>>] = "verified" => R[n] # None /\ R[n].id = x

Audited(R, C) ==
    \A n \in Uuids, x \in Ids :
        R[n] # None /\ R[n].native # None /\ R[n].id = x => C[<<n, x>>] = "verified"

Resolving(R, A) ==
    \A a \in Uuids : A[a] # None => R[a] = None /\ R[A[a]] # None /\ R[A[a]].native # None

Answering(R, Q) ==
    \A s \in Slots : Q[s] # None =>
        /\ R[Q[s].uuid] # None
        /\ R[Q[s].uuid].native = Q[s].finish.group
        /\ R[Q[s].uuid].run = Q[s].finish.run
        /\ \A t \in Slots : Q[t] # None /\ Q[t].uuid = Q[s].uuid => t = s

Tables  == [Uuids -> Row \cup {None}]
Claims  == [Uuids \X Ids -> ClaimState]
Aliases == [Uuids -> Uuids \cup {None}]
Receipts == [Slots -> Receipt \cup {None}]

-----------------------------------------------------------------------------
(* A merge gives the native row a new identity and removes the mirror.      *)
LEMMA MergedRecordsFacts ==
    ASSUME NEW R \in Tables, NEW n \in Uuids, NEW m \in Uuids,
           n # m, R[n] # None, R[m] # None, R[n].native # None
    PROVE  LET S == MergedRecords(R, n, m)
           IN  /\ S \in Tables
               /\ S[m] = None
               /\ S[n] # None
               /\ S[n].id = R[m].id
               /\ S[n].native = R[n].native
               /\ S[n].run = R[n].run
               /\ S[n].valid = (R[n].valid /\ R[m].valid)
               /\ \A u \in Uuids : u # n /\ u # m => S[u] = R[u]
  <1> DEFINE S == MergedRecords(R, n, m)
             row == MergedRow(R[n], R[m])
  <1>1. R[n] \in Row /\ R[m] \in Row
    BY DEF Tables
  <1>2. row \in Row
    BY <1>1 DEF MergedRow, Row
  <1>3. /\ row.id = R[m].id
        /\ row.native = R[n].native
        /\ row.run = R[n].run
        /\ row.valid = (R[n].valid /\ R[m].valid)
    BY <1>1 DEF MergedRow, Row
  <1>4. S = [[R EXCEPT ![n] = row] EXCEPT ![m] = None]
    BY DEF MergedRecords
  <1>5. S[m] = None /\ S[n] = row /\ \A u \in Uuids : u # n /\ u # m => S[u] = R[u]
    BY <1>4 DEF Tables
  <1>6. S \in Tables
    BY <1>2, <1>4 DEF Tables
  <1>7. row # None
    BY <1>2, IdentityAssumption
  <1>8. QED
    BY <1>3, <1>5, <1>6, <1>7

(* ... so no id is doubled, provided the native row had none.               *)
LEMMA MergeInjective ==
    ASSUME NEW R \in Tables, Injective(R), NEW n \in Uuids, NEW m \in Uuids,
           n # m, R[n] # None, R[m] # None, R[n].native # None
    PROVE  Injective(MergedRecords(R, n, m))
  <1> DEFINE S == MergedRecords(R, n, m)
  <1>1. /\ S[m] = None
        /\ S[n].id = R[m].id
        /\ \A u \in Uuids : u # n /\ u # m => S[u] = R[u]
    BY MergedRecordsFacts
  <1> HIDE DEF S
  <1>2. Injective(S)
    BY <1>1 DEF Injective
  <1>3. QED
    BY <1>2 DEF S

(* What a transaction may do to the claims when it merges m into n.         *)
MergeClaims(R, C, D, n, m) ==
    /\ \A x \in Ids : D[<<m, x>>] # "verified"
    /\ \A x \in Ids : D[<<n, x>>] = "verified" =>
          x = R[m].id \/ C[<<m, x>>] = "verified" \/ C[<<n, x>>] = "verified"
    /\ \A x \in Ids : x = R[m].id => D[<<n, x>>] = "verified"
    /\ \A u \in Uuids, x \in Ids : u # n /\ u # m =>
          (D[<<u, x>>] = "verified" <=> C[<<u, x>>] = "verified")

(* ... and claims stay truthful and every link audited.                     *)
LEMMA MergeTruthful ==
    ASSUME NEW R \in Tables, NEW C, NEW D,
           Truthful(R, C), Audited(R, C), NEW n \in Uuids, NEW m \in Uuids,
           n # m, R[n] # None, R[m] # None, R[n].native # None, R[n].id = None,
           MergeClaims(R, C, D, n, m)
    PROVE  Truthful(MergedRecords(R, n, m), D) /\ Audited(MergedRecords(R, n, m), D)
  <1> DEFINE S == MergedRecords(R, n, m)
  <1>1. /\ S[m] = None
        /\ S[n] # None
        /\ S[n].id = R[m].id
        /\ \A u \in Uuids : u # n /\ u # m => S[u] = R[u]
    BY MergedRecordsFacts
  <1> HIDE DEF S
  <1>2. Truthful(S, D)
    <2> SUFFICES ASSUME NEW u \in Uuids, NEW x \in Ids, D[<<u, x>>] = "verified"
                 PROVE  S[u] # None /\ S[u].id = x
      BY DEF Truthful
    <2>1. CASE u = n
      <3>1. C[<<m, x>>] = "verified" => x = R[m].id
        BY DEF Truthful
      <3>2. C[<<n, x>>] # "verified"
        BY IdentityAssumption DEF Truthful
      <3>3. QED
        BY <1>1, <2>1, <3>1, <3>2 DEF MergeClaims
    <2>2. CASE u = m
      BY <2>2 DEF MergeClaims
    <2>3. CASE u # n /\ u # m
      BY <1>1, <2>3 DEF MergeClaims, Truthful
    <2>4. QED
      BY <2>1, <2>2, <2>3
  <1>3. Audited(S, D)
    <2> SUFFICES ASSUME NEW u \in Uuids, NEW x \in Ids,
                        S[u] # None, S[u].native # None, S[u].id = x
                 PROVE  D[<<u, x>>] = "verified"
      BY DEF Audited
    <2>1. CASE u = n
      BY <1>1, <2>1 DEF MergeClaims
    <2>2. CASE u # n
      BY <1>1, <2>2 DEF MergeClaims, Audited
    <2>3. QED
      BY <2>1, <2>2
  <1>4. QED
    BY <1>2, <1>3 DEF S

(* The aliases of a merge still end at native rows.                         *)
LEMMA MergeResolving ==
    ASSUME NEW R \in Tables, aliases \in Aliases, Resolving(R, aliases),
           NEW n \in Uuids, NEW m \in Uuids,
           n # m, R[n] # None, R[m] # None, R[n].native # None, R[m].native = None
    PROVE  /\ MergedAliases(n, m) \in Aliases
           /\ Resolving(MergedRecords(R, n, m), MergedAliases(n, m))
  <1> DEFINE S == MergedRecords(R, n, m)
             B == MergedAliases(n, m)
  <1>1. /\ S[m] = None
        /\ S[n] # None
        /\ S[n].native = R[n].native
        /\ \A u \in Uuids : u # n /\ u # m => S[u] = R[u]
    BY MergedRecordsFacts
  <1>2. \A a \in Uuids : B[a] = IF a = m \/ aliases[a] = m THEN n ELSE aliases[a]
    BY DEF MergedAliases
  <1>3. B \in Aliases
    BY DEF MergedAliases, Aliases
  <1> HIDE DEF S, B
  <1>4. Resolving(S, B)
    <2> SUFFICES ASSUME NEW a \in Uuids, B[a] # None
                 PROVE  S[a] = None /\ S[B[a]] # None /\ S[B[a]].native # None
      BY DEF Resolving
    <2>1. aliases[a] # m
      BY IdentityAssumption DEF Resolving
    <2>2. CASE a = m
      BY <1>1, <1>2, <2>2
    <2>3. CASE a # m
      <3>1. B[a] = aliases[a] /\ aliases[a] \in Uuids
        BY <1>2, <2>1, <2>3 DEF Aliases
      <3>2. R[a] = None /\ R[B[a]] # None /\ R[B[a]].native # None
        BY <3>1 DEF Resolving
      <3>3. QED
        BY <1>1, <2>1, <2>3, <3>1, <3>2
    <2>4. QED
      BY <2>2, <2>3
  <1>5. QED
    BY <1>3, <1>4 DEF S, B

-----------------------------------------------------------------------------
(* Receipts: a merge re-points none of them, because they name native rows, *)
(* and requalification touches only the replay decision.                    *)
LEMMA MovedReceiptsIdle ==
    ASSUME NEW Q \in Receipts, NEW n, NEW m,
           \A s \in Slots : Q[s] # None => Q[s].uuid # m
    PROVE  MovedReceipts(Q, n, m) = Q
  BY DEF MovedReceipts, Receipts

SameAnswers(Q, P) ==
    \A s \in Slots : /\ Q[s] = None <=> P[s] = None
                     /\ Q[s] # None => /\ P[s].uuid = Q[s].uuid
                                       /\ P[s].finish = Q[s].finish

(* A requalified receipt is the same receipt but for its decision.          *)
LEMMA RequalifiedFacts ==
    ASSUME NEW r \in Receipt, NEW x \in Ids
    PROVE  /\ Requalified(r, x) \in Receipt
           /\ Requalified(r, x).uuid = r.uuid
           /\ Requalified(r, x).finish = r.finish
  <1>1. CASE x \in r.frozen
    <2> DEFINE decision == x \in r.qualifying
    <2>1. Requalified(r, x) = [r EXCEPT !.eligible = decision]
      BY <1>1 DEF Requalified
    <2>2. decision \in BOOLEAN
      OBVIOUS
    <2> HIDE DEF decision
    <2>3. QED
      BY <2>1, <2>2 DEF Receipt
  <1>2. CASE x \notin r.frozen
    BY <1>2 DEF Requalified
  <1>3. QED
    BY <1>1, <1>2

(* ... and so are the receipts of a requalified row.                        *)
LEMMA RequalifiedReceiptsFacts ==
    ASSUME NEW Q \in Receipts, NEW n, NEW x \in Ids
    PROVE  /\ RequalifiedReceipts(Q, n, x) \in Receipts
           /\ SameAnswers(Q, RequalifiedReceipts(Q, n, x))
  <1> DEFINE P == RequalifiedReceipts(Q, n, x)
  <1>1. ASSUME NEW s \in Slots
        PROVE  /\ P[s] \in Receipt \cup {None}
               /\ Q[s] = None <=> P[s] = None
               /\ Q[s] # None => P[s].uuid = Q[s].uuid /\ P[s].finish = Q[s].finish
    <2>1. P[s] = IF Q[s] # None /\ Q[s].uuid = n THEN Requalified(Q[s], x) ELSE Q[s]
      BY DEF RequalifiedReceipts
    <2>2. CASE Q[s] = None
      BY <2>1, <2>2
    <2>3. CASE Q[s] # None
      <3>1. Q[s] \in Receipt
        BY <2>3 DEF Receipts
      <3>2. QED
        BY <2>1, <2>3, <3>1, RequalifiedFacts, IdentityAssumption
    <2>4. QED
      BY <2>2, <2>3
  <1>2. P \in Receipts
    BY <1>1 DEF Receipts, RequalifiedReceipts
  <1>3. QED
    BY <1>1, <1>2 DEF SameAnswers

(* Rows a receipt may name keep their group and their run.                  *)
KeepsNatives(R, S) ==
    \A u \in Uuids : R[u] # None /\ R[u].native # None =>
        S[u] # None /\ S[u].native = R[u].native /\ S[u].run = R[u].run

(* Receipts are answered as long as the rows they name keep group and run.  *)
LEMMA AnsweringKept ==
    ASSUME NEW R, NEW S, NEW Q \in Receipts, NEW P,
           Answering(R, Q), KeepsNatives(R, S), SameAnswers(Q, P)
    PROVE  Answering(S, P)
  <1> SUFFICES ASSUME NEW s \in Slots, P[s] # None
               PROVE  /\ S[P[s].uuid] # None
                      /\ S[P[s].uuid].native = P[s].finish.group
                      /\ S[P[s].uuid].run = P[s].finish.run
                      /\ \A t \in Slots : P[t] # None /\ P[t].uuid = P[s].uuid => t = s
    BY DEF Answering
  <1>1. Q[s] # None /\ P[s].uuid = Q[s].uuid /\ P[s].finish = Q[s].finish
    BY DEF SameAnswers
  <1>2. Q[s] \in Receipt
    BY <1>1 DEF Receipts
  <1>3. Q[s].uuid \in Uuids /\ Q[s].finish.group \in Groups
    BY <1>2 DEF Receipt, Finish
  <1>4. R[Q[s].uuid] # None /\ R[Q[s].uuid].native = Q[s].finish.group
        /\ R[Q[s].uuid].run = Q[s].finish.run
    BY <1>1 DEF Answering
  <1>5. R[Q[s].uuid].native # None
    BY <1>3, <1>4, IdentityAssumption
  <1>6. S[P[s].uuid] # None /\ S[P[s].uuid].native = P[s].finish.group
        /\ S[P[s].uuid].run = P[s].finish.run
    BY <1>1, <1>3, <1>4, <1>5 DEF KeepsNatives
  <1>7. \A t \in Slots : P[t] # None /\ P[t].uuid = P[s].uuid => t = s
    BY <1>1 DEF Answering, SameAnswers
  <1>8. QED
    BY <1>6, <1>7

(* Receipts that do not change give the same answers.                       *)
LEMMA SameAnswersRefl ==
    ASSUME NEW Q
    PROVE  SameAnswers(Q, Q)
  BY DEF SameAnswers

(* A merge of a mirror leaves every native row native.                      *)
LEMMA MergeKeepsNatives ==
    ASSUME NEW R \in Tables, NEW n \in Uuids, NEW m \in Uuids,
           n # m, R[n] # None, R[m] # None, R[n].native # None, R[m].native = None
    PROVE  KeepsNatives(R, MergedRecords(R, n, m))
  BY MergedRecordsFacts DEF KeepsNatives

(* Receipts never name a mirror.                                            *)
LEMMA ReceiptsNameNatives ==
    ASSUME NEW R, NEW Q \in Receipts, Answering(R, Q), NEW m, R[m].native = None
    PROVE  \A s \in Slots : Q[s] # None => Q[s].uuid # m
  <1> SUFFICES ASSUME NEW s \in Slots, Q[s] # None
               PROVE  Q[s].uuid # m
    OBVIOUS
  <1>1. Q[s].finish.group \in Groups
    BY DEF Receipts, Receipt, Finish
  <1>2. QED
    BY <1>1, IdentityAssumption DEF Answering

-----------------------------------------------------------------------------
(* Steps that are not merges.                                               *)

(* A row is inserted, or a mirror rewritten.                                *)
LEMMA SetRow ==
    ASSUME NEW R \in Tables, NEW A \in Aliases, NEW C,
           Injective(R), Truthful(R, C), Audited(R, C), Resolving(R, A),
           NEW u \in Uuids, NEW row \in Row,
           \A v \in Uuids : v # u /\ R[v] # None /\ R[v].id = row.id => row.id = None,
           row.native = None \/ row.id = None,
           \/ R[u] = None /\ A[u] = None
           \/ R[u] # None /\ R[u].native = None /\ R[u].id = row.id /\ row.native = None
    PROVE  LET S == [R EXCEPT ![u] = row]
           IN  /\ S \in Tables
               /\ Injective(S)
               /\ Truthful(S, C)
               /\ Audited(S, C)
               /\ Resolving(S, A)
               /\ KeepsNatives(R, S)
  <1> DEFINE S == [R EXCEPT ![u] = row]
  <1>1. S[u] = row /\ row # None /\ \A v \in Uuids : v # u => S[v] = R[v]
    BY IdentityAssumption DEF Tables
  <1>2. S \in Tables
    BY DEF Tables
  <1> HIDE DEF S
  <1>3. Injective(S)
    BY <1>1 DEF Injective
  <1>4. Truthful(S, C)
    BY <1>1 DEF Truthful
  <1>5. Audited(S, C)
    <2> SUFFICES ASSUME NEW n \in Uuids, NEW x \in Ids,
                        S[n] # None, S[n].native # None, S[n].id = x
                 PROVE  C[<<n, x>>] = "verified"
      BY DEF Audited
    <2>1. n # u
      BY <1>1, IdentityAssumption
    <2>2. QED
      BY <1>1, <2>1 DEF Audited
  <1>6. Resolving(S, A)
    <2> SUFFICES ASSUME NEW a \in Uuids, A[a] # None
                 PROVE  S[a] = None /\ S[A[a]] # None /\ S[A[a]].native # None
      BY DEF Resolving
    <2>1. R[a] = None /\ R[A[a]] # None /\ R[A[a]].native # None /\ A[a] \in Uuids
      BY DEF Resolving, Aliases
    <2>2. a # u /\ A[a] # u
      BY <2>1
    <2>3. QED
      BY <1>1, <2>1, <2>2
  <1>7. KeepsNatives(R, S)
    BY <1>1 DEF KeepsNatives
  <1>8. QED
    BY <1>2, <1>3, <1>4, <1>5, <1>6, <1>7 DEF S

(* Columns change that identity does not depend on.                         *)
SameIdentity(R, S) ==
    \A u \in Uuids : /\ R[u] = None <=> S[u] = None
                     /\ R[u] # None => /\ S[u].id = R[u].id
                                       /\ S[u].native = R[u].native
                                       /\ S[u].run = R[u].run

(* Tables with the same identities satisfy the same invariants.             *)
LEMMA SameIdentityFacts ==
    ASSUME NEW R, NEW S, NEW A \in Aliases, NEW C, SameIdentity(R, S),
           Injective(R), Truthful(R, C), Audited(R, C), Resolving(R, A)
    PROVE  /\ Injective(S)
           /\ Truthful(S, C)
           /\ Audited(S, C)
           /\ Resolving(S, A)
           /\ KeepsNatives(R, S)
  <1>1. Injective(S)
    BY DEF Injective, SameIdentity
  <1>2. Truthful(S, C)
    BY DEF Truthful, SameIdentity
  <1>3. Audited(S, C)
    BY DEF Audited, SameIdentity
  <1>4. Resolving(S, A)
    BY DEF Resolving, SameIdentity, Aliases
  <1>5. KeepsNatives(R, S)
    BY DEF KeepsNatives, SameIdentity
  <1>6. QED
    BY <1>1, <1>2, <1>3, <1>4, <1>5

(* No verified claim is lost, and each new one is true.                     *)
LEMMA ClaimsOnly ==
    ASSUME NEW R, NEW C, NEW D, Truthful(R, C), Audited(R, C),
           \A n \in Uuids, x \in Ids :
              /\ C[<<n, x>>] = "verified" => D[<<n, x>>] = "verified"
              /\ D[<<n, x>>] = "verified" =>
                    C[<<n, x>>] = "verified" \/ (R[n] # None /\ R[n].id = x)
    PROVE  Truthful(R, D) /\ Audited(R, D)
  BY DEF Truthful, Audited

Inv ==
    /\ TypeOK
    /\ Injective(records)
    /\ Truthful(records, claims)
    /\ Audited(records, claims)
    /\ Resolving(records, aliases)
    /\ Answering(records, receipts)

(* The invariant in terms of the current tables.                            *)
LEMMA InvTables ==
    ASSUME Inv
    PROVE  /\ records \in Tables
           /\ aliases \in Aliases
           /\ receipts \in Receipts
           /\ claims \in Claims
  BY DEF Inv, TypeOK, Tables, Aliases, Receipts, Claims

(* Empty tables satisfy the invariant.                                      *)
LEMMA InitInv ==
    ASSUME Init
    PROVE  Inv
  <1>1. TypeOK
    BY DEF Init, TypeOK, ClaimState
  <1>2. Injective(records) /\ Truthful(records, claims) /\ Audited(records, claims)
    BY DEF Init, Injective, Truthful, Audited
  <1>3. Resolving(records, aliases) /\ Answering(records, receipts)
    BY DEF Init, Resolving, Answering
  <1>4. QED
    BY <1>1, <1>2, <1>3 DEF Inv

(* Moderation touches no identity.                                          *)
LEMMA ModerateInv ==
    ASSUME Inv, NEW u \in Uuids, Invalidate(u) \/ Reenable(u)
    PROVE  Inv'
  <1>1. PICK b \in BOOLEAN : records' = [records EXCEPT ![u].valid = b]
    BY DEF Invalidate, Reenable
  <1>2. records[u] \in Row
    BY DEF Inv, TypeOK, Invalidate, Reenable, Live
  <1>3. [records[u] EXCEPT !.valid = b] \in Row
    BY <1>2 DEF Row
  <1>4. records' \in Tables
    BY <1>1, <1>3, InvTables DEF Tables
  <1>5. SameIdentity(records, records')
    <2>1. /\ records'[u] = [records[u] EXCEPT !.valid = b]
          /\ \A v \in Uuids : v # u => records'[v] = records[v]
      BY <1>1, InvTables DEF Tables
    <2>2. /\ records'[u] # None
          /\ records'[u].id = records[u].id
          /\ records'[u].native = records[u].native
          /\ records'[u].run = records[u].run
      BY <1>2, <1>3, <2>1, IdentityAssumption DEF Row
    <2>3. records[u] # None
      BY <1>2, IdentityAssumption
    <2>4. QED
      BY <2>1, <2>2, <2>3 DEF SameIdentity
  <1>6. UNCHANGED <<aliases, receipts, claims>>
    BY DEF Invalidate, Reenable
  <1>7. /\ Injective(records')
        /\ Truthful(records', claims)
        /\ Audited(records', claims)
        /\ Resolving(records', aliases)
        /\ KeepsNatives(records, records')
    BY <1>5, InvTables, SameIdentityFacts DEF Inv
  <1>8. Answering(records', receipts)
    BY <1>7, InvTables, AnsweringKept, SameAnswersRefl DEF Inv
  <1>9. TypeOK'
    BY <1>4, <1>6 DEF Inv, TypeOK, Tables
  <1>10. QED
    BY <1>6, <1>7, <1>8, <1>9 DEF Inv, Injective, Truthful, Audited, Resolving, Answering

-----------------------------------------------------------------------------
(* Merge steps, from whatever tables the transaction has reached.           *)
LEMMA MergedClaimsFacts ==
    ASSUME NEW R, NEW C \in Claims, NEW n \in Uuids, NEW m \in Uuids, NEW x \in Ids,
           n # m, R[m].id = x, R[n].id = None, Truthful(R, C)
    PROVE  LET D == [MergedClaims(C, n, m) EXCEPT ![<<n, x>>] = "verified"]
           IN  D \in Claims /\ MergeClaims(R, C, D, n, m)
  <1> DEFINE D == [MergedClaims(C, n, m) EXCEPT ![<<n, x>>] = "verified"]
  <1>1. MergedClaims(C, n, m) \in Claims
    BY DEF MergedClaims, Claims, ClaimState
  <1>2. D \in Claims
    BY <1>1 DEF Claims, ClaimState
  <1>3. \A u \in Uuids, y \in Ids :
           D[<<u, y>>] = IF u = n /\ y = x THEN "verified"
                         ELSE IF u = m THEN "none"
                         ELSE IF u = n /\ C[<<m, y>>] # "none" THEN C[<<m, y>>]
                         ELSE C[<<u, y>>]
    BY <1>1 DEF MergedClaims, Claims
  <1> HIDE DEF D
  <1>4. MergeClaims(R, C, D, n, m)
    BY <1>3 DEF MergeClaims
  <1>5. QED
    BY <1>2, <1>4 DEF D

(* A merge maps well-formed tables to well-formed tables.                   *)
LEMMA MergeTables ==
    ASSUME NEW R \in Tables, NEW C, NEW D,
           aliases \in Aliases, receipts \in Receipts,
           Injective(R), Truthful(R, C), Audited(R, C), Resolving(R, aliases),
           Answering(R, receipts), NEW n \in Uuids, NEW m \in Uuids,
           n # m, R[n] # None, R[m] # None, R[n].native # None, R[m].native = None,
           R[n].id = None, MergeClaims(R, C, D, n, m)
    PROVE  LET S == MergedRecords(R, n, m)
           IN  /\ S \in Tables
               /\ MergedAliases(n, m) \in Aliases
               /\ Injective(S)
               /\ Truthful(S, D)
               /\ Audited(S, D)
               /\ Resolving(S, MergedAliases(n, m))
               /\ KeepsNatives(R, S)
               /\ MovedReceipts(receipts, n, m) = receipts
  <1>1. MergedRecords(R, n, m) \in Tables
    BY MergedRecordsFacts
  <1>2. MovedReceipts(receipts, n, m) = receipts
    BY ReceiptsNameNatives, MovedReceiptsIdle
  <1>3. QED
    BY <1>1, <1>2, MergeInjective, MergeTruthful, MergeResolving, MergeKeepsNatives

(* Merge, from any claims that agree on what is verified.                   *)
LEMMA MergeInv ==
    ASSUME Inv, NEW R \in Tables, NEW C \in Claims,
           Injective(R), Truthful(R, C), Audited(R, C), Resolving(R, aliases),
           Answering(R, receipts),
           NEW n \in Uuids, NEW m \in Uuids, NEW x \in Ids,
           R[n] # None, R[m] # None, R[m].id = x, Mergeable(R, n, m, x),
           Merge(R, C, n, m, x)
    PROVE  Inv'
  <1>1. n # m /\ R[m].native = None /\ R[n].native # None
    BY DEF Mergeable, same_source, same_owner
  <1>2. R[n].id = None
    BY <1>1, IdentityAssumption DEF Mergeable, LinkedElsewhere, Injective
  <1> DEFINE D == [MergedClaims(C, n, m) EXCEPT ![<<n, x>>] = "verified"]
             S == MergedRecords(R, n, m)
             P == RequalifiedReceipts(receipts, n, x)
  <1>3. D \in Claims /\ MergeClaims(R, C, D, n, m)
    BY <1>1, <1>2, MergedClaimsFacts
  <1>4. /\ S \in Tables
        /\ MergedAliases(n, m) \in Aliases
        /\ Injective(S)
        /\ Truthful(S, D)
        /\ Audited(S, D)
        /\ Resolving(S, MergedAliases(n, m))
        /\ KeepsNatives(R, S)
        /\ MovedReceipts(receipts, n, m) = receipts
    <2> HIDE DEF D
    <2>1. QED
      BY <1>1, <1>2, <1>3, InvTables, MergeTables
  <1>5. P \in Receipts /\ SameAnswers(receipts, P)
    BY InvTables, RequalifiedReceiptsFacts
  <1>6. Answering(S, P)
    <2> HIDE DEF S, P
    <2>1. QED
      BY <1>4, <1>5, InvTables, AnsweringKept
  <1>7. records' = S /\ aliases' = MergedAliases(n, m) /\ receipts' = P /\ claims' = D
    BY <1>4 DEF Merge
  <1> HIDE DEF S, P, D
  <1>8. TypeOK'
    BY <1>3, <1>4, <1>5, <1>7 DEF TypeOK, Tables, Aliases, Receipts, Claims
  <1>9. QED
    BY <1>4, <1>6, <1>7, <1>8
       DEF Inv, Injective, Truthful, Audited, Resolving, Answering

(* reconcile_claim, whoever calls it.                                       *)
LEMMA ReconcileInv ==
    ASSUME Inv, NEW n \in Uuids, NEW x \in Ids, Live(n), reconcile_claim(n, x)
    PROVE  Inv'
  <1>1. CASE \E u \in Uuids : ReconcileMerge(n, u, x)
    <2> PICK u \in Uuids : ReconcileMerge(n, u, x)
      BY <1>1
    <2>1. records[u] # None /\ records[u].id = x /\ records[n] # None
      BY DEF ReconcileMerge, Holds, Live
    <2>2. Mergeable(records, n, u, x) /\ Merge(records, claims, n, u, x)
      BY DEF ReconcileMerge
    <2>3. QED
      BY <2>1, <2>2, InvTables, MergeInv DEF Inv
  <1>2. ASSUME NEW v \in ClaimState, claims' = [claims EXCEPT ![<<n, x>>] = v],
               UNCHANGED <<records, aliases>>,
               receipts' \in Receipts, SameAnswers(receipts, receipts'),
               v = "verified" => Holds(n, x),
               v # "verified" => ~ Holds(n, x)
        PROVE  Inv'
    <2>1. claims' \in Claims /\ \A u \in Uuids, y \in Ids :
             claims'[<<u, y>>] = IF u = n /\ y = x THEN v ELSE claims[<<u, y>>]
      BY <1>2, InvTables DEF Claims
    <2>2. Truthful(records, claims') /\ Audited(records, claims')
      <3>1. \A u \in Uuids, y \in Ids :
              /\ claims[<<u, y>>] = "verified" => claims'[<<u, y>>] = "verified"
              /\ claims'[<<u, y>>] = "verified" =>
                    claims[<<u, y>>] = "verified" \/ (records[u] # None /\ records[u].id = y)
        <4>1. claims[<<n, x>>] = "verified" => Holds(n, x)
          BY DEF Inv, Truthful, Holds, Live
        <4>2. claims[<<n, x>>] = "verified" => v = "verified"
          BY <1>2, <4>1
        <4>3. v = "verified" => records[n] # None /\ records[n].id = x
          BY <1>2 DEF Holds, Live
        <4>4. QED
          BY <2>1, <4>2, <4>3
      <3>2. QED
        BY <3>1, ClaimsOnly DEF Inv
    <2>3. Answering(records, receipts')
      <3>1. KeepsNatives(records, records)
        BY DEF KeepsNatives
      <3>2. QED
        BY <1>2, <3>1, InvTables, AnsweringKept DEF Inv
    <2>4. TypeOK'
      BY <1>2, <2>1 DEF Inv, TypeOK, Receipts, Claims
    <2>5. QED
      BY <1>2, <2>2, <2>3, <2>4 DEF Inv, Injective, Truthful, Audited, Resolving, Answering
  <1>3. CASE ReconcileNone(n, x)
    <2> DEFINE v == IF LinkedElsewhere(records, n, x) THEN "review" ELSE "pending"
    <2>1. v \in ClaimState /\ v # "verified"
      BY DEF ClaimState
    <2>2. /\ claims' = [claims EXCEPT ![<<n, x>>] = v]
          /\ UNCHANGED <<records, aliases>>
          /\ ~ Holds(n, x)
      BY <1>3 DEF ReconcileNone
    <2>3. receipts' \in Receipts /\ SameAnswers(receipts, receipts')
      BY <1>3, InvTables, SameAnswersRefl DEF ReconcileNone
    <2> HIDE DEF v
    <2>4. QED
      BY <1>2, <2>1, <2>2, <2>3
  <1>4. CASE ReconcileSelf(n, x)
    <2>1. "verified" \in ClaimState
      BY DEF ClaimState
    <2>2. /\ claims' = [claims EXCEPT ![<<n, x>>] = "verified"]
          /\ UNCHANGED <<records, aliases>>
          /\ Holds(n, x)
          /\ receipts' = RequalifiedReceipts(receipts, n, x)
      BY <1>4 DEF ReconcileSelf
    <2>3. receipts' \in Receipts /\ SameAnswers(receipts, receipts')
      BY <2>2, InvTables, RequalifiedReceiptsFacts
    <2>4. QED
      BY <1>2, <2>1, <2>2, <2>3
  <1>5. CASE \E u \in Uuids : ReconcileReview(n, u, x)
    <2> PICK u \in Uuids : ReconcileReview(n, u, x)
      BY <1>5
    <2>1. "review" \in ClaimState
      BY DEF ClaimState
    <2>2. /\ claims' = [claims EXCEPT ![<<n, x>>] = "review"]
          /\ UNCHANGED <<records, aliases, receipts>>
          /\ Holds(u, x) /\ n # u
      BY DEF ReconcileReview
    <2>3. ~ Holds(n, x)
      BY <2>2, IdentityAssumption DEF Inv, Injective, Holds, Live
    <2>4. receipts' \in Receipts /\ SameAnswers(receipts, receipts')
      BY <2>2, InvTables, SameAnswersRefl
    <2>5. QED
      BY <1>2, <2>1, <2>2, <2>3, <2>4
  <1>6. QED
    BY <1>1, <1>3, <1>4, <1>5 DEF reconcile_claim

-----------------------------------------------------------------------------
(* What the matching returns, whatever it decides.                          *)
LEMMA UpstreamMatchFacts ==
    ASSUME records \in Tables, NEW natives, NEW native,
           NEW m \in upstream_match(records, natives, native)
    PROVE  /\ m \in Uuids
           /\ records[m] # None
           /\ records[m].id # None
           /\ records[m].native = None
           /\ statistics_match(native.row, records[m])
           /\ same_owner(native.row, records[m])
  <1>1. DOMAIN records = Uuids
    BY DEF Tables
  <1>2. QED
    BY <1>1 DEF upstream_match, unique_compatible_pair

(* native_match only proposes native rows without an upstream id.           *)
LEMMA NativeMatchFacts ==
    ASSUME Inv, NEW upstream, NEW n \in native_match(records, Natives, upstream)
    PROVE  /\ n \in Uuids
           /\ records[n] # None
           /\ records[n].id = None
           /\ records[n].native # None
  <1>1. PICK c \in Natives : n = c.uuid /\ c.row.id = None /\ same_owner(c.row, upstream)
    BY DEF native_match, natives_near, unique_compatible_pair
  <1>2. PICK s \in Slots : /\ receipts[s] # None
                           /\ c = [uuid |-> receipts[s].uuid,
                                   received |-> receipts[s].received,
                                   row |-> records[receipts[s].uuid]]
    BY <1>1 DEF Natives
  <1>3. n = receipts[s].uuid /\ c.row = records[n]
    BY <1>1, <1>2
  <1>4. receipts[s].uuid \in Uuids
    BY <1>2, InvTables DEF Receipts, Receipt
  <1>5. records[n] # None
    BY <1>2, <1>3 DEF Inv, Answering
  <1>6. QED
    BY <1>1, <1>3, <1>4, <1>5 DEF same_owner

(* So does the sync, or rows with a pending claim.                          *)
LEMMA CandidatesFacts ==
    ASSUME Inv, NEW p \in Payloads, NEW n \in Candidates(p)
    PROVE  /\ n \in Uuids
           /\ records[n] # None
           /\ records[n].native # None
           /\ claims[<<n, p.id>>] = "pending" \/ records[n].id = None
  <1>1. CASE n \in Claimants(p)
    BY <1>1 DEF Claimants, Live, same_source, same_owner
  <1>2. CASE n \in native_match(records, Natives, MirrorOf(p))
    BY <1>2, NativeMatchFacts
  <1>3. QED
    BY <1>1, <1>2 DEF Candidates

(* The mirror of an upstream body is a row.                                 *)
LEMMA PayloadFacts ==
    ASSUME NEW p \in Payloads
    PROVE  /\ p.id \in Ids
           /\ MirrorOf(p) \in Row
           /\ \A b \in BOOLEAN : [MirrorOf(p) EXCEPT !.valid = b] \in Row
           /\ \A b \in BOOLEAN : /\ [MirrorOf(p) EXCEPT !.valid = b].id = p.id
                                 /\ [MirrorOf(p) EXCEPT !.valid = b].native = None
  <1>1. p \in Payload
    BY IdentityAssumption
  <1>2. p.id \in Ids /\ MirrorOf(p) \in Row
    BY <1>1 DEF Payload, MirrorOf, Row
  <1>3. QED
    BY <1>2 DEF MirrorOf, Row

(* The operator backfill and the sync of an upstream body.                  *)
LEMMA ClaimInv ==
    ASSUME Inv, NEW a \in Uuids, NEW x \in Ids, SubmitClaim(a, x)
    PROVE  Inv'
  <1> DEFINE n == IF aliases[a] # None THEN aliases[a] ELSE a
  <1>1. n \in Uuids
    BY InvTables DEF Aliases
  <1>2. Live(n) /\ reconcile_claim(n, x)
    BY DEF SubmitClaim, IsNative
  <1> HIDE DEF n
  <1>3. QED
    BY <1>1, <1>2, ReconcileInv

(* A link made before any mirror exists.                                    *)
LEMMA SyncLinkInv ==
    ASSUME Inv, NEW p \in Payloads, SyncLink(p)
    PROVE  Inv'
  <1> DEFINE x == p.id
  <1>1. PICK n \in Candidates(p) :
            /\ ~ LinkedElsewhere(records, n, p.id)
            /\ records' = [records EXCEPT ![n].id = p.id, ![n].source = p.source,
                                          ![n].time = p.time]
            /\ claims' = [claims EXCEPT ![<<n, p.id>>] = "verified"]
    BY DEF SyncLink
  <1>2. /\ \A u \in Uuids : ~ Holds(u, x)
        /\ UNCHANGED <<aliases, receipts>>
    BY DEF SyncLink
  <1>3. n \in Uuids /\ records[n] # None /\ records[n].native # None
    BY CandidatesFacts
  <1>4. records[n].id = None
    BY <1>1, <1>2, <1>3 DEF LinkedElsewhere, Holds, Live
  <1>5. p \in Payload /\ x \in Ids
    BY IdentityAssumption, PayloadFacts
  <1> DEFINE row == [[[records[n] EXCEPT !.id = p.id] EXCEPT !.source = p.source]
                        EXCEPT !.time = p.time]
  <1>6. records[n] \in Row
    BY <1>3, InvTables DEF Tables
  <1>7. /\ row \in Row /\ row.id = x
        /\ row.native = records[n].native /\ row.run = records[n].run
    BY <1>5, <1>6 DEF Row, Payload
  <1>8. records' = [records EXCEPT ![n] = row]
    BY <1>1, <1>3, <1>6, InvTables DEF Tables, Row
  <1> HIDE DEF row
  <1>9. /\ records' \in Tables
        /\ records'[n] = row
        /\ row # None
        /\ \A u \in Uuids : u # n => records'[u] = records[u]
    BY <1>3, <1>7, <1>8, InvTables, IdentityAssumption DEF Tables
  <1>10. claims' \in Claims
    BY <1>1, InvTables DEF Claims, ClaimState
  <1>11. \A u \in Uuids, y \in Ids :
            claims'[<<u, y>>] = IF u = n /\ y = x THEN "verified" ELSE claims[<<u, y>>]
    BY <1>1, InvTables DEF Claims
  <1>12. Injective(records')
    <2>1. \A u \in Uuids : u # n /\ records'[u] # None => records'[u].id # x
      BY <1>2, <1>9 DEF Holds, Live
    <2>2. QED
      BY <1>7, <1>9, <2>1 DEF Inv, Injective
  <1>13. Truthful(records', claims')
    BY <1>4, <1>7, <1>9, <1>11, IdentityAssumption DEF Inv, Truthful
  <1>14. Audited(records', claims')
    BY <1>7, <1>9, <1>11 DEF Inv, Audited
  <1>15. Resolving(records', aliases)
    BY <1>3, <1>7, <1>9, InvTables DEF Inv, Resolving, Aliases
  <1>16. Answering(records', receipts)
    <2>1. KeepsNatives(records, records')
      BY <1>7, <1>9 DEF KeepsNatives
    <2>2. QED
      BY <2>1, InvTables, AnsweringKept, SameAnswersRefl DEF Inv
  <1>17. TypeOK'
    BY <1>2, <1>9, <1>10 DEF Inv, TypeOK, Tables, Claims
  <1>18. QED
    BY <1>2, <1>12, <1>13, <1>14, <1>15, <1>16, <1>17
       DEF Inv, Resolving, Answering

(* The operator's backfill of one receipt.                                  *)
LEMMA BackfillInv ==
    ASSUME Inv, NEW s \in Slots, Backfill(s)
    PROVE  Inv'
  <1> DEFINE n == receipts[s].uuid
             native == [uuid |-> n, received |-> receipts[s].received, row |-> records[n]]
  <1>1. receipts[s] # None /\ Live(n) /\ records[n].id = None
    BY DEF Backfill
  <1>2. receipts[s] \in Receipt /\ n \in Uuids
    BY <1>1, InvTables DEF Receipts, Receipt
  <1>3. PICK m \in upstream_match(records, Natives, native) :
          LET x == records[m].id
              moved == MovedReceipts(receipts, n, m)
              r == Requalified(moved[s], x)
          IN  /\ records' = MergedRecords(records, n, m)
              /\ aliases' = MergedAliases(n, m)
              /\ receipts' = [moved EXCEPT ![s] =
                      IF x \in r.frozen THEN [r EXCEPT !.result = r.eligible] ELSE r]
              /\ claims' = [MergedClaims(claims, n, m) EXCEPT ![<<n, x>>] = "verified"]
    BY DEF Backfill
  <1> DEFINE x == records[m].id
             r == Requalified(receipts[s], x)
             q == IF x \in r.frozen THEN [r EXCEPT !.result = r.eligible] ELSE r
  <1>4. /\ m \in Uuids /\ records[m] # None /\ records[m].native = None
        /\ records[m].id # None /\ same_owner(native.row, records[m])
    <2> HIDE DEF native
    <2>1. QED
      BY InvTables, UpstreamMatchFacts
  <1>5. records[n].native # None /\ n # m
    BY <1>1, <1>4 DEF same_owner
  <1>6. x \in Ids
    BY <1>4, InvTables DEF Tables, Row
  <1>7. r \in Receipt /\ r.uuid = n /\ r.finish = receipts[s].finish
    BY <1>2, <1>6, RequalifiedFacts
  <1>8. q \in Receipt /\ q.uuid = n /\ q.finish = receipts[s].finish
    <2> HIDE DEF r
    <2>1. QED
      BY <1>7 DEF Receipt
  <1> HIDE DEF n, native, x, r, q
  <1> DEFINE D == [MergedClaims(claims, n, m) EXCEPT ![<<n, x>>] = "verified"]
             S == MergedRecords(records, n, m)
             P == [receipts EXCEPT ![s] = q]
  <1>9. records[m].id = x
    BY DEF x
  <1>10. D \in Claims /\ MergeClaims(records, claims, D, n, m)
    BY <1>1, <1>2, <1>4, <1>5, <1>6, <1>9, InvTables, MergedClaimsFacts DEF Inv
  <1>11. /\ S \in Tables
         /\ MergedAliases(n, m) \in Aliases
         /\ Injective(S)
         /\ Truthful(S, D)
         /\ Audited(S, D)
         /\ Resolving(S, MergedAliases(n, m))
         /\ KeepsNatives(records, S)
         /\ MovedReceipts(receipts, n, m) = receipts
    <2> HIDE DEF D
    <2>1. QED
      BY <1>1, <1>2, <1>4, <1>5, <1>10, InvTables, MergeTables DEF Inv, Live
  <1>12. P \in Receipts /\ SameAnswers(receipts, P)
    <2>1. \A t \in Slots : P[t] = IF t = s THEN q ELSE receipts[t]
      BY InvTables DEF Receipts
    <2>2. P \in Receipts
      BY <1>8, InvTables DEF Receipts
    <2>3. q # None
      BY <1>8, IdentityAssumption
    <2> HIDE DEF P
    <2>4. SameAnswers(receipts, P)
      BY <1>1, <1>8, <2>1, <2>3 DEF SameAnswers, n
    <2>5. QED
      BY <2>2, <2>4
  <1>13. Answering(S, P)
    <2> HIDE DEF S, P
    <2>1. QED
      BY <1>11, <1>12, InvTables, AnsweringKept DEF Inv
  <1>14. records' = S /\ aliases' = MergedAliases(n, m) /\ receipts' = P /\ claims' = D
    BY <1>3, <1>11 DEF n, x, r, q
  <1> HIDE DEF S, P, D
  <1>15. TypeOK'
    BY <1>10, <1>11, <1>12, <1>14 DEF TypeOK, Tables, Aliases, Receipts, Claims
  <1>16. QED
    BY <1>11, <1>13, <1>14, <1>15
       DEF Inv, Injective, Truthful, Audited, Resolving, Answering

(* The sync that keeps a mirror, and settles the claims waiting for it.     *)
LEMMA SyncMirrorInv ==
    ASSUME Inv, NEW p \in Payloads, NEW u \in Uuids, SyncMirror(p, u)
    PROVE  Inv'
  <1> DEFINE x == p.id
             b == (records[u] = None \/ records[u].valid)
             row == [MirrorOf(p) EXCEPT !.valid = b]
             R == Upserted(p, u)
             C == ResolvedClaims(p)
             waiting == {n \in Uuids : C[<<n, p.id>>] = "pending"}
             winners == {n \in waiting : Mergeable(R, n, u, p.id)}
             D == [c \in Uuids \X Ids |->
                     IF c[2] # p.id \/ c[1] \notin waiting THEN C[c]
                     ELSE IF c[1] = u THEN "verified" ELSE "review"]
  <1>1. SyncMirrorGuard(p, u)
    BY DEF SyncMirror
  <1>2. b \in BOOLEAN
    <2>1. records[u] # None => records[u].valid \in BOOLEAN
      BY InvTables DEF Tables, Row
    <2>2. QED
      BY <2>1
  <1>3. row \in Row /\ row.id = x /\ row.native = None /\ x \in Ids
    <2> HIDE DEF b
    <2>1. QED
      BY <1>2, PayloadFacts
  <1>4. R = [records EXCEPT ![u] = row]
    BY DEF Upserted
  <1> HIDE DEF row, b
  <1>5. \A v \in Uuids : v # u /\ records[v] # None => records[v].id # x
    BY <1>1, <1>3, IdentityAssumption DEF SyncMirrorGuard, Holds, Live, Inv, Injective
  <1>6. \/ records[u] = None /\ aliases[u] = None
        \/ records[u] # None /\ records[u].native = None /\ records[u].id = x
    BY <1>1 DEF SyncMirrorGuard, Holds, Live, Unused
  <1>7. /\ R \in Tables
        /\ Injective(R)
        /\ Truthful(R, claims)
        /\ Audited(R, claims)
        /\ Resolving(R, aliases)
        /\ KeepsNatives(records, R)
    <2> HIDE DEF R
    <2>1. \A v \in Uuids : v # u /\ records[v] # None /\ records[v].id = row.id => row.id = None
      BY <1>3, <1>5
    <2>2. \/ records[u] = None /\ aliases[u] = None
          \/ /\ records[u] # None /\ records[u].native = None
             /\ records[u].id = row.id /\ row.native = None
      BY <1>3, <1>6
    <2>3. row \in Row /\ (row.native = None \/ row.id = None)
      BY <1>3
    <2>4. QED
      BY <1>4, <2>1, <2>2, <2>3, InvTables, SetRow DEF Inv
  <1>8. R[u] = row /\ row # None
    BY <1>3, <1>4, InvTables, IdentityAssumption DEF Tables
  <1> HIDE DEF R
  <1>9. C \in Claims
    BY InvTables DEF ResolvedClaims, Claims, ClaimState
  <1>10. \A n \in Uuids, y \in Ids :
           /\ claims[<<n, y>>] = "verified" => C[<<n, y>>] = "verified"
           /\ C[<<n, y>>] = "verified" => claims[<<n, y>>] = "verified"
    <2> SUFFICES ASSUME NEW n \in Uuids, NEW y \in Ids
                 PROVE  C[<<n, y>>] = "verified" <=> claims[<<n, y>>] = "verified"
      OBVIOUS
    <2>1. C[<<n, y>>] = claims[<<n, y>>]
          \/ (C[<<n, y>>] = "review" /\ y = x /\ n \in Candidates(p))
      BY DEF ResolvedClaims
    <2>2. n \in Candidates(p) => claims[<<n, x>>] # "verified"
      BY <1>3, CandidatesFacts, IdentityAssumption DEF Inv, Truthful
    <2>3. QED
      BY <2>1, <2>2
  <1> HIDE DEF C
  <1>11. D \in Claims
    BY <1>9 DEF Claims, ClaimState
  <1>12. Truthful(R, D) /\ Audited(R, D)
    <2>1. \A n \in Uuids, y \in Ids :
            D[<<n, y>>] = IF y # x \/ n \notin waiting THEN C[<<n, y>>]
                          ELSE IF n = u THEN "verified" ELSE "review"
      OBVIOUS
    <2>2. \A n \in Uuids : n \in waiting => C[<<n, x>>] = "pending"
      OBVIOUS
    <2> HIDE DEF D, waiting
    <2>3. \A n \in Uuids, y \in Ids :
            /\ claims[<<n, y>>] = "verified" => D[<<n, y>>] = "verified"
            /\ D[<<n, y>>] = "verified" =>
                  claims[<<n, y>>] = "verified" \/ (R[n] # None /\ R[n].id = y)
      <3> SUFFICES ASSUME NEW n \in Uuids, NEW y \in Ids
                   PROVE  /\ claims[<<n, y>>] = "verified" => D[<<n, y>>] = "verified"
                          /\ D[<<n, y>>] = "verified" =>
                               claims[<<n, y>>] = "verified" \/ (R[n] # None /\ R[n].id = y)
        OBVIOUS
      <3>1. CASE y # x \/ n \notin waiting
        <4>1. D[<<n, y>>] = C[<<n, y>>]
          BY <2>1, <3>1
        <4>2. QED
          BY <1>10, <4>1
      <3>2. CASE y = x /\ n \in waiting
        <4>1. claims[<<n, y>>] # "verified"
          BY <1>10, <2>2, <3>2
        <4>2. D[<<n, y>>] = IF n = u THEN "verified" ELSE "review"
          BY <2>1, <3>2
        <4>3. QED
          BY <1>3, <1>8, <3>2, <4>1, <4>2
      <3>3. QED
        BY <3>1, <3>2
    <2>4. QED
      BY <1>7, <2>3, ClaimsOnly
  <1>13. Answering(R, receipts)
    BY <1>7, InvTables, AnsweringKept, SameAnswersRefl DEF Inv
  <1>14. CASE /\ records' = R
              /\ claims' = D
              /\ UNCHANGED <<aliases, receipts>>
    <2> HIDE DEF D
    <2>1. TypeOK'
      BY <1>7, <1>11, <1>14 DEF Inv, TypeOK, Tables, Claims
    <2>2. QED
      BY <1>7, <1>12, <1>13, <1>14, <2>1
         DEF Inv, Injective, Truthful, Audited, Resolving, Answering
  <1>15. CASE \E n \in winners : Merge(R, D, n, u, x)
    <2>1. PICK n \in winners : Merge(R, D, n, u, x)
      BY <1>15
    <2>2. n \in Uuids /\ Mergeable(R, n, u, x)
      OBVIOUS
    <2>3. R[n] # None /\ R[u] # None /\ R[u].id = x
      BY <1>3, <1>8, <2>2 DEF Mergeable
    <2> HIDE DEF D, winners
    <2>4. QED
      BY <1>3, <1>7, <1>11, <1>12, <1>13, <2>1, <2>2, <2>3, MergeInv
  <1>16. QED
    BY <1>14, <1>15 DEF SyncMirror, R, C

-----------------------------------------------------------------------------
(* An upload.                                                               *)
LEMMA IdsOfFacts ==
    ASSUME Inv, NEW row
    PROVE  IdsOf(Lookalikes(row)) \subseteq Ids
  <1> SUFFICES ASSUME NEW m \in Lookalikes(row)
               PROVE  records[m].id \in Ids
    BY DEF IdsOf
  <1>1. m \in Uuids /\ records[m] # None /\ records[m].id # None
    BY DEF Lookalikes, Live
  <1>2. QED
    BY <1>1, InvTables DEF Tables, Row

(* The upload of a finish.                                                  *)
LEMMA AcceptInv ==
    ASSUME Inv, NEW f \in Finishes, NEW d \in Delays, NEW u \in Uuids,
           NEW e \in BOOLEAN, NEW qualifying \in SUBSET Ids,
           Accept(f, d, u, e, qualifying)
    PROVE  Inv'
  <1> DEFINE native == Submission(f, f.done + d)
             row == native.row
             noted == IdsOf(Lookalikes(row))
             R == [records EXCEPT ![u] = row]
             receipt == ReceiptFor(f, u, f.done + d, e, noted, qualifying)
             Q == [receipts EXCEPT ![f.slot] = receipt]
  <1>1. /\ records[u] = None /\ aliases[u] = None
        /\ receipts[f.slot] = None
    BY DEF Accept, AcceptGuard, Unused
  <1>2. f \in Finish /\ f.done + d \in Nat
    <2>1. f \in Finish /\ d \in Nat
      BY IdentityAssumption
    <2>2. QED
      BY <2>1 DEF Finish
  <1>3. /\ row \in Row /\ row.id = None
        /\ row.native = f.group /\ row.run = f.run /\ row.native # None
    BY <1>2, IdentityAssumption DEF Submission, Finish, Row
  <1>4. noted \subseteq Ids
    <2> HIDE DEF row
    <2>1. QED
      BY IdsOfFacts
  <1>5. receipt \in Receipt /\ receipt.uuid = u /\ receipt.finish = f
    <2> HIDE DEF noted
    <2>1. QED
      BY <1>2, <1>4 DEF ReceiptFor, Receipt
  <1> HIDE DEF row, noted, receipt
  <1>6. /\ R \in Tables
        /\ Injective(R)
        /\ Truthful(R, claims)
        /\ Audited(R, claims)
        /\ Resolving(R, aliases)
        /\ KeepsNatives(records, R)
    BY <1>1, <1>3, InvTables, SetRow DEF Inv
  <1>7. /\ R[u] = row /\ row # None
        /\ \A v \in Uuids : v # u => R[v] = records[v]
    BY <1>3, InvTables, IdentityAssumption DEF Tables
  <1>8. f.slot \in Slots
    BY <1>2 DEF Finish
  <1>9. /\ Q \in Receipts
        /\ \A s \in Slots : Q[s] = IF s = f.slot THEN receipt ELSE receipts[s]
    BY <1>5, <1>8, InvTables DEF Receipts
  <1>10. Answering(R, receipts)
    <2> HIDE DEF R
    <2>1. QED
      BY <1>6, InvTables, AnsweringKept, SameAnswersRefl DEF Inv
  <1> HIDE DEF R, Q
  <1>11. \A s \in Slots : receipts[s] # None => receipts[s].uuid # u
    BY <1>1 DEF Inv, Answering
  <1>12. Answering(R, Q)
    <2> SUFFICES ASSUME NEW s \in Slots, Q[s] # None
                 PROVE  /\ R[Q[s].uuid] # None
                        /\ R[Q[s].uuid].native = Q[s].finish.group
                        /\ R[Q[s].uuid].run = Q[s].finish.run
                        /\ \A t \in Slots : Q[t] # None /\ Q[t].uuid = Q[s].uuid => t = s
      BY DEF Answering
    <2>1. CASE s = f.slot
      BY <1>3, <1>5, <1>7, <1>9, <1>11, <2>1
    <2>2. CASE s # f.slot
      BY <1>5, <1>9, <1>10, <1>11, <2>2 DEF Answering
    <2>3. QED
      BY <2>1, <2>2
  <1>13. CASE /\ records' = R
              /\ receipts' = Q
              /\ claims' = [c \in Uuids \X Ids |->
                    IF c[1] = u /\ c[2] \in noted THEN "review" ELSE claims[c]]
              /\ UNCHANGED aliases
    <2>1. claims' \in Claims /\ \A n \in Uuids, y \in Ids :
             claims'[<<n, y>>] = IF n = u /\ y \in noted THEN "review" ELSE claims[<<n, y>>]
      BY <1>13, InvTables DEF Claims, ClaimState
    <2>2. \A n \in Uuids, y \in Ids :
            claims'[<<n, y>>] = "verified" <=> claims[<<n, y>>] = "verified"
      BY <1>1, <2>1 DEF Inv, Truthful
    <2>3. Truthful(R, claims') /\ Audited(R, claims')
      BY <1>6, <2>2, ClaimsOnly
    <2>4. TypeOK'
      BY <1>6, <1>9, <1>13, <2>1 DEF Inv, TypeOK, Tables, Claims, Receipts
    <2>5. Injective(records') /\ Truthful(records', claims') /\ Audited(records', claims')
      BY <1>6, <1>13, <2>3
    <2>6. Resolving(records', aliases') /\ Answering(records', receipts')
      BY <1>6, <1>12, <1>13
    <2>7. QED
      BY <2>4, <2>5, <2>6 DEF Inv, Injective, Truthful, Audited, Resolving, Answering
  <1>14. ASSUME NEW m \in upstream_match(records, Natives, native),
                records' = MergedRecords(R, u, m),
                aliases' = MergedAliases(u, m),
                receipts' = MovedReceipts(Q, u, m),
                claims'  = [c \in Uuids \X Ids |->
                    IF c = <<u, records[m].id>> THEN "verified"
                    ELSE IF c[1] = u /\ c[2] \in noted THEN "review"
                    ELSE MergedClaims(claims, u, m)[c]]
         PROVE  Inv'
    <2>1. /\ m \in Uuids /\ records[m] # None
          /\ records[m].native = None /\ records[m].id # None
      <3> HIDE DEF native
      <3>1. QED
        BY InvTables, UpstreamMatchFacts
    <2>2. /\ m # u /\ R[m] = records[m]
          /\ R[u] # None /\ R[u].native # None /\ R[u].id = None
      BY <1>1, <1>3, <1>7, <2>1
    <2>3. \A n \in Uuids, y \in Ids :
            claims'[<<n, y>>] =
              IF n = u /\ y = records[m].id THEN "verified"
              ELSE IF n = u /\ y \in noted THEN "review"
              ELSE IF n = m THEN "none"
              ELSE IF n = u /\ claims[<<m, y>>] # "none" THEN claims[<<m, y>>]
              ELSE claims[<<n, y>>]
      BY <1>14 DEF MergedClaims
    <2>4. claims' \in Claims
      <3>1. MergedClaims(claims, u, m) \in Claims
        BY <2>1, InvTables DEF MergedClaims, Claims, ClaimState
      <3>2. QED
        BY <1>14, <3>1 DEF Claims, ClaimState
    <2>5. MergeClaims(R, claims, claims', u, m)
      BY <2>1, <2>2, <2>3 DEF MergeClaims
    <2>6. /\ records' \in Tables
          /\ aliases' \in Aliases
          /\ Injective(records')
          /\ Truthful(records', claims')
          /\ Audited(records', claims')
          /\ Resolving(records', aliases')
          /\ KeepsNatives(R, records')
      BY <1>6, <1>10, <1>14, <2>1, <2>2, <2>5, InvTables, MergeTables
    <2>7. MovedReceipts(Q, u, m) = Q
      BY <1>9, <1>12, <2>1, <2>2, ReceiptsNameNatives, MovedReceiptsIdle
    <2>8. Answering(records', receipts')
      BY <1>9, <1>12, <1>14, <2>6, <2>7, AnsweringKept, SameAnswersRefl
    <2>9. TypeOK'
      BY <1>9, <1>14, <2>4, <2>6, <2>7 DEF TypeOK, Tables, Aliases, Receipts, Claims
    <2>10. QED
      BY <2>6, <2>8, <2>9 DEF Inv, Injective, Truthful, Audited, Resolving, Answering
  <1>15. QED
    BY <1>13, <1>14 DEF Accept, R, Q, row, noted, receipt

-----------------------------------------------------------------------------
(* Every transaction of every actor keeps the invariant.                    *)
THEOREM NextInv == Inv /\ [Next]_vars => Inv'
  <1> SUFFICES ASSUME Inv, [Next]_vars
               PROVE  Inv'
    OBVIOUS
  <1>1. CASE Upload
    BY <1>1, AcceptInv DEF Upload
  <1>2. CASE Sync
    BY <1>2, SyncLinkInv, SyncMirrorInv DEF Sync
  <1>3. CASE Claim
    BY <1>3, ClaimInv DEF Claim
  <1>4. CASE Operate
    BY <1>4, ReconcileInv, BackfillInv DEF Operate, VerifyUpstream
  <1>5. CASE Moderate
    BY <1>5, ModerateInv DEF Moderate
  <1>6. CASE UNCHANGED vars
    BY <1>6 DEF vars, Inv, TypeOK, Injective, Truthful, Audited, Resolving, Answering
  <1>7. QED
    BY <1>1, <1>2, <1>3, <1>4, <1>5, <1>6 DEF Next

(* The inductive invariant holds in every reachable state.                  *)
THEOREM Invariance == Spec => []Inv
  <1>1. Init => Inv
    BY InitInv
  <1>2. QED
    BY <1>1, NextInv, PTL DEF Spec
-----------------------------------------------------------------------------
(* No transaction, of any kind and in any order, gives two rows one         *)
(* GlobalAPI id (record_reconciliation.py 72-75, 326-330).                  *)
THEOREM UniqueUpstreamIdHolds == Spec => []UniqueUpstreamId
  <1>1. Inv => UniqueUpstreamId
    BY IdentityAssumption DEF Inv, Injective, UniqueUpstreamId, Holds, Live
  <1>2. QED
    BY <1>1, Invariance, PTL

(* A verified claim stays true (record_reconciliation.py 139-190).          *)
THEOREM VerifiedMeansHeldHolds == Spec => []VerifiedMeansHeld
  <1>1. Inv => VerifiedMeansHeld
    BY DEF Inv, Truthful, VerifiedMeansHeld, Holds, Live
  <1>2. QED
    BY <1>1, Invariance, PTL

(* Every link of a native run to an upstream id has a verified claim, by    *)
(* whichever path it was made.                                              *)
THEOREM LinkIsAuditedHolds == Spec => []LinkIsAudited
  <1>1. Inv => LinkIsAudited
    BY DEF Inv, Audited, LinkIsAudited, Holds, IsNative, Live
  <1>2. QED
    BY <1>1, Invariance, PTL

(* The UUID answered to a game server is a live native row of its run, and  *)
(* belongs to one receipt only.                                             *)
THEOREM ReceiptResolvesHolds == Spec => []ReceiptResolves
  <1>1. ASSUME Inv
        PROVE  ReceiptResolves
    <2> SUFFICES ASSUME NEW s \in Slots, receipts[s] # None
                 PROVE  /\ IsNative(receipts[s].uuid)
                        /\ records[receipts[s].uuid].native = receipts[s].finish.group
                        /\ records[receipts[s].uuid].run = receipts[s].finish.run
                        /\ \A t \in Slots :
                             receipts[t] # None /\ receipts[t].uuid = receipts[s].uuid => t = s
      BY DEF ReceiptResolves
    <2>1. receipts[s] \in Receipt
      BY <1>1, InvTables DEF Receipts
    <2>2. receipts[s].finish.group # None
      BY <2>1, IdentityAssumption DEF Receipt, Finish
    <2>3. QED
      BY <1>1, <2>2 DEF Inv, Answering, IsNative, Live
  <1>2. QED
    BY <1>1, Invariance, PTL

(* A retired UUID leads in one hop to a live native row.                    *)
THEOREM AliasResolvesHolds == Spec => []AliasResolves
  <1>1. Inv => AliasResolves
    BY DEF Inv, Resolving, AliasResolves, IsNative, Live
  <1>2. QED
    BY <1>1, Invariance, PTL

(* Every table holds rows of its shape, in every reachable state.           *)
THEOREM TypeCorrect == Spec => []TypeOK
  <1>1. Inv => TypeOK
    BY DEF Inv
  <1>2. QED
    BY <1>1, Invariance, PTL

-----------------------------------------------------------------------------
(* The shape of a transaction: a row is refreshed or added, and one native  *)
(* row may then be given an upstream id, by a link or by joining a mirror.  *)

(* No row comes, goes or changes its identity, and none outside E is made   *)
(* valid again.                                                             *)
Refreshed(R, E) ==
    \A u \in Uuids : /\ records[u] = None <=> R[u] = None
                     /\ records[u] # None => /\ R[u].id = records[u].id
                                             /\ R[u].native = records[u].native
                                             /\ u \notin E /\ ~ records[u].valid => ~ R[u].valid

(* A new row at u, a mirror or a native one that is not linked.             *)
Added(R, u) ==
    /\ records[u] = None
    /\ R[u] # None
    /\ R[u].native = None \/ R[u].id = None
    /\ \A v \in Uuids : v # u => R[v] = records[v]

(* Row n is given an upstream id that no row holds.                         *)
Linked(S, n) ==
    /\ records[n] # None /\ S[n] # None
    /\ records[n].native # None /\ S[n].native = records[n].native
    /\ records[n].id = None /\ S[n].id # None
    /\ ~ records[n].valid => ~ S[n].valid
    /\ \A v \in Uuids : v # n => S[v] = records[v]
    /\ \A v \in Uuids : records[v] # None => records[v].id # S[n].id

(* Row n takes over the identity of the mirror m, which goes.               *)
Joined(R, S, n, m) ==
    /\ n # m
    /\ R[n] # None /\ R[n].native # None /\ R[n].id = None
    /\ R[m] # None /\ R[m].native = None /\ R[m].id # None
    /\ S[m] = None
    /\ S[n] # None /\ S[n].native = R[n].native /\ S[n].id = R[m].id
    /\ S[n].valid => R[n].valid /\ R[m].valid
    /\ \A v \in Uuids : v # n /\ v # m => S[v] = R[v]

Transaction(E) ==
    \/ aliases' = aliases /\ Refreshed(records', E)
    \/ aliases' = aliases /\ \E u \in Uuids : Added(records', u)
    \/ aliases' = aliases /\ \E n \in Uuids : Linked(records', n)
    \/ \E R \in Tables, n, m \in Uuids :
          /\ Injective(R)
          /\ Joined(R, records', n, m)
          /\ aliases'[m] = n
          /\ Refreshed(R, {}) \/ Added(R, n) \/ Added(R, m)

(* Nothing happens to the rows.                                             *)
LEMMA IdleTransaction ==
    ASSUME UNCHANGED <<records, aliases>>
    PROVE  Transaction({})
  BY DEF Transaction, Refreshed

(* A merge is a joining.                                                    *)
LEMMA MergeJoins ==
    ASSUME NEW R \in Tables, Injective(R), NEW n \in Uuids, NEW m \in Uuids,
           n # m, R[n] # None, R[n].native # None, R[n].id = None,
           R[m] # None, R[m].native = None, R[m].id # None,
           Refreshed(R, {}) \/ Added(R, n) \/ Added(R, m),
           records' = MergedRecords(R, n, m), aliases' = MergedAliases(n, m)
    PROVE  Transaction({})
  <1>1. Joined(R, records', n, m)
    <2> DEFINE S == MergedRecords(R, n, m)
    <2>1. /\ S[m] = None
          /\ S[n] # None
          /\ S[n].id = R[m].id
          /\ S[n].native = R[n].native
          /\ S[n].valid = (R[n].valid /\ R[m].valid)
          /\ \A u \in Uuids : u # n /\ u # m => S[u] = R[u]
      BY MergedRecordsFacts
    <2>2. records' = S
      OBVIOUS
    <2> HIDE DEF S
    <2>3. QED
      BY <2>1, <2>2 DEF Joined
  <1>2. aliases'[m] = n
    BY DEF MergedAliases
  <1>3. QED
    BY <1>1, <1>2 DEF Transaction

(* Moderation.                                                              *)
LEMMA ModerateTransacts ==
    ASSUME Inv, NEW u \in Uuids
    PROVE  /\ Invalidate(u) => Transaction({})
           /\ Reenable(u) => Transaction({u})
  <1>1. ASSUME NEW b \in BOOLEAN, NEW E, records[u] # None,
               records' = [records EXCEPT ![u].valid = b], b => u \in E
        PROVE  Refreshed(records', E)
    <2>1. records[u] \in Row
      BY <1>1, InvTables DEF Tables
    <2> DEFINE row == [records[u] EXCEPT !.valid = b]
    <2>2. /\ row \in Row /\ row.id = records[u].id /\ row.native = records[u].native
          /\ row.valid = b
      BY <2>1 DEF Row
    <2>3. records' = [records EXCEPT ![u] = row]
      BY <1>1
    <2> HIDE DEF row
    <2>4. records'[u] = row /\ row # None /\ \A v \in Uuids : v # u => records'[v] = records[v]
      BY <2>2, <2>3, InvTables, IdentityAssumption DEF Tables
    <2>5. QED
      BY <1>1, <2>2, <2>4 DEF Refreshed
  <1>2. ASSUME Invalidate(u)
        PROVE  Transaction({})
    BY <1>1, <1>2 DEF Invalidate, Live, Transaction
  <1>3. ASSUME Reenable(u)
        PROVE  Transaction({u})
    BY <1>1, <1>3 DEF Reenable, Live, Transaction
  <1>4. QED
    BY <1>2, <1>3

(* Merge, of rows some table holds.                                         *)
LEMMA MergeTransacts ==
    ASSUME Inv, NEW R \in Tables, NEW C, Injective(R),
           NEW n \in Uuids, NEW m \in Uuids, NEW x \in Ids,
           R[m] # None, R[m].id = x, Mergeable(R, n, m, x), Merge(R, C, n, m, x),
           Refreshed(R, {}) \/ Added(R, n) \/ Added(R, m)
    PROVE  Transaction({})
  <1>1. n # m /\ R[n] # None /\ R[m].native = None /\ R[n].native # None
    BY DEF Mergeable, same_source, same_owner
  <1>2. R[n].id = None /\ x # None
    BY <1>1, IdentityAssumption DEF Mergeable, LinkedElsewhere, Injective
  <1>3. records' = MergedRecords(R, n, m) /\ aliases' = MergedAliases(n, m)
    BY DEF Merge
  <1>4. QED
    BY <1>1, <1>2, <1>3, MergeJoins

(* reconcile_claim merges, or changes no row.                               *)
LEMMA ReconcileTransacts ==
    ASSUME Inv, NEW n \in Uuids, NEW x \in Ids, reconcile_claim(n, x)
    PROVE  Transaction({})
  <1>1. CASE \E u \in Uuids : ReconcileMerge(n, u, x)
    <2> PICK u \in Uuids : ReconcileMerge(n, u, x)
      BY <1>1
    <2>1. records[u] # None /\ records[u].id = x
      BY DEF ReconcileMerge, Holds, Live
    <2>2. Mergeable(records, n, u, x) /\ Merge(records, claims, n, u, x)
      BY DEF ReconcileMerge
    <2>3. Refreshed(records, {})
      BY DEF Refreshed
    <2>4. QED
      BY <2>1, <2>2, <2>3, InvTables, MergeTransacts DEF Inv
  <1>2. CASE ReconcileNone(n, x) \/ ReconcileSelf(n, x)
             \/ \E u \in Uuids : ReconcileReview(n, u, x)
    BY <1>2, IdleTransaction DEF ReconcileNone, ReconcileSelf, ReconcileReview
  <1>3. QED
    BY <1>1, <1>2 DEF reconcile_claim

(* PUT /v1/records/{uuid}/globalapi.                                        *)
LEMMA ClaimTransacts ==
    ASSUME Inv, NEW a \in Uuids, NEW x \in Ids, SubmitClaim(a, x)
    PROVE  Transaction({})
  <1> DEFINE n == IF aliases[a] # None THEN aliases[a] ELSE a
  <1>1. n \in Uuids
    BY InvTables DEF Aliases
  <1>2. reconcile_claim(n, x)
    BY DEF SubmitClaim
  <1> HIDE DEF n
  <1>3. QED
    BY <1>1, <1>2, ReconcileTransacts

(* The operator's backfill joins the receipt's row with a mirror.           *)
LEMMA BackfillTransacts ==
    ASSUME Inv, NEW s \in Slots, Backfill(s)
    PROVE  Transaction({})
  <1> DEFINE n == receipts[s].uuid
             native == [uuid |-> n, received |-> receipts[s].received, row |-> records[n]]
  <1>1. receipts[s] # None /\ records[n] # None /\ records[n].id = None
    BY DEF Backfill, Live
  <1>2. n \in Uuids
    BY <1>1, InvTables DEF Receipts, Receipt
  <1>3. PICK m \in upstream_match(records, Natives, native) :
          records' = MergedRecords(records, n, m) /\ aliases' = MergedAliases(n, m)
    BY DEF Backfill
  <1> HIDE DEF native
  <1>4. /\ m \in Uuids /\ records[m] # None /\ records[m].native = None
        /\ records[m].id # None /\ same_owner(native.row, records[m])
    BY InvTables, UpstreamMatchFacts
  <1>5. native.row = records[n]
    BY DEF native
  <1>6. records[n].native # None /\ n # m
    BY <1>1, <1>4, <1>5 DEF same_owner
  <1>7. Refreshed(records, {})
    BY DEF Refreshed
  <1> HIDE DEF n
  <1>8. QED
    BY <1>1, <1>2, <1>3, <1>4, <1>6, <1>7, InvTables, MergeJoins DEF Inv

(* A link made before any mirror exists.                                    *)
LEMMA SyncLinkTransacts ==
    ASSUME Inv, NEW p \in Payloads, SyncLink(p)
    PROVE  Transaction({})
  <1>1. PICK n \in Candidates(p) :
            /\ ~ LinkedElsewhere(records, n, p.id)
            /\ records' = [records EXCEPT ![n].id = p.id, ![n].source = p.source,
                                          ![n].time = p.time]
    BY DEF SyncLink
  <1>2. \A u \in Uuids : records[u] # None => records[u].id # p.id
    BY DEF SyncLink, Holds, Live
  <1>3. n \in Uuids /\ records[n] # None /\ records[n].native # None
    BY CandidatesFacts
  <1>4. records[n].id = None
    BY <1>1, <1>2, <1>3 DEF LinkedElsewhere
  <1>5. p.id \in Ids /\ p.id # None /\ p \in Payload
    BY IdentityAssumption, PayloadFacts
  <1> DEFINE row == [[[records[n] EXCEPT !.id = p.id] EXCEPT !.source = p.source]
                        EXCEPT !.time = p.time]
  <1>6. records[n] \in Row
    BY <1>3, InvTables DEF Tables
  <1>7. /\ row \in Row /\ row.id = p.id
        /\ row.native = records[n].native /\ row.valid = records[n].valid
    BY <1>5, <1>6 DEF Row, Payload
  <1>8. records' = [records EXCEPT ![n] = row]
    BY <1>1, <1>3, <1>6, InvTables DEF Tables, Row
  <1> HIDE DEF row
  <1>9. /\ records'[n] = row
        /\ row # None
        /\ \A u \in Uuids : u # n => records'[u] = records[u]
    BY <1>3, <1>7, <1>8, InvTables, IdentityAssumption DEF Tables
  <1>10. Linked(records', n)
    BY <1>2, <1>3, <1>4, <1>5, <1>7, <1>9 DEF Linked
  <1>11. QED
    BY <1>3, <1>10 DEF Transaction, SyncLink

(* The upsert of a mirror refreshes its row or adds one.                    *)
LEMMA UpsertedFacts ==
    ASSUME Inv, NEW p \in Payloads, NEW u \in Uuids, SyncMirrorGuard(p, u)
    PROVE  /\ Upserted(p, u) \in Tables
           /\ Injective(Upserted(p, u))
           /\ Upserted(p, u)[u] # None
           /\ Upserted(p, u)[u].id = p.id
           /\ Refreshed(Upserted(p, u), {}) \/ Added(Upserted(p, u), u)
  <1> DEFINE b == (records[u] = None \/ records[u].valid)
             row == [MirrorOf(p) EXCEPT !.valid = b]
             R == Upserted(p, u)
  <1>1. b \in BOOLEAN
    <2>1. records[u] # None => records[u].valid \in BOOLEAN
      BY InvTables DEF Tables, Row
    <2>2. QED
      BY <2>1
  <1>2. /\ row \in Row /\ row.id = p.id /\ row.native = None /\ row.valid = b /\ p.id \in Ids
    <2>1. MirrorOf(p) \in Row
      BY PayloadFacts
    <2> HIDE DEF b
    <2>2. row.valid = b
      BY <2>1 DEF Row
    <2>3. QED
      BY <1>1, <2>2, PayloadFacts
  <1>3. R = [records EXCEPT ![u] = row]
    BY DEF Upserted
  <1>4. records[u] # None => (b => records[u].valid)
    OBVIOUS
  <1> HIDE DEF row, b
  <1>5. \A v \in Uuids : v # u /\ records[v] # None => records[v].id # p.id
    BY <1>2, IdentityAssumption DEF SyncMirrorGuard, Holds, Live, Inv, Injective
  <1>6. \/ records[u] = None
        \/ records[u] # None /\ records[u].native = None /\ records[u].id = p.id
    BY DEF SyncMirrorGuard, Holds, Live, Unused
  <1>7. /\ R \in Tables /\ R[u] = row /\ row # None
        /\ \A v \in Uuids : v # u => R[v] = records[v]
    BY <1>2, <1>3, InvTables, IdentityAssumption DEF Tables
  <1> HIDE DEF R
  <1>8. Injective(R)
    BY <1>2, <1>5, <1>7 DEF Inv, Injective
  <1>9. Refreshed(R, {}) \/ Added(R, u)
    BY <1>2, <1>4, <1>6, <1>7 DEF Refreshed, Added
  <1>10. QED
    BY <1>2, <1>7, <1>8, <1>9 DEF R

(* The sync that keeps a mirror.                                            *)
LEMMA SyncMirrorTransacts ==
    ASSUME Inv, NEW p \in Payloads, NEW u \in Uuids, SyncMirror(p, u)
    PROVE  Transaction({})
  <1> DEFINE R == Upserted(p, u)
  <1>1. /\ R \in Tables /\ Injective(R) /\ R[u] # None /\ R[u].id = p.id
        /\ Refreshed(R, {}) \/ Added(R, u)
    BY UpsertedFacts DEF SyncMirror
  <1>2. p.id \in Ids
    BY PayloadFacts
  <1>3. CASE records' = R /\ UNCHANGED <<aliases, receipts>>
    BY <1>1, <1>3 DEF Transaction
  <1>4. ASSUME NEW C, NEW n \in Uuids, Mergeable(R, n, u, p.id), Merge(R, C, n, u, p.id)
        PROVE  Transaction({})
    <2> HIDE DEF R
    <2>1. QED
      BY <1>1, <1>2, <1>4, MergeTransacts
  <1>5. QED
    BY <1>3, <1>4 DEF SyncMirror

(* An upload adds a row, and may join it with a mirror.                     *)
LEMMA AcceptTransacts ==
    ASSUME Inv, NEW f \in Finishes, NEW d \in Delays, NEW u \in Uuids,
           NEW e \in BOOLEAN, NEW qualifying \in SUBSET Ids,
           Accept(f, d, u, e, qualifying)
    PROVE  Transaction({})
  <1> DEFINE native == Submission(f, f.done + d)
             row == native.row
             R == [records EXCEPT ![u] = row]
  <1>1. records[u] = None
    BY DEF Accept, AcceptGuard, Unused
  <1>2. f \in Finish
    BY IdentityAssumption
  <1>3. /\ row \in Row /\ row.id = None /\ row.native # None
    BY <1>2, IdentityAssumption DEF Submission, Finish, Row
  <1> HIDE DEF row
  <1>4. /\ R \in Tables /\ R[u] = row /\ row # None
        /\ \A v \in Uuids : v # u => R[v] = records[v]
    BY <1>3, InvTables, IdentityAssumption DEF Tables
  <1> HIDE DEF R
  <1>5. Added(R, u) /\ Injective(R)
    BY <1>1, <1>3, <1>4 DEF Added, Inv, Injective
  <1>6. CASE records' = R /\ UNCHANGED aliases
    BY <1>5, <1>6 DEF Transaction
  <1>7. ASSUME NEW m \in upstream_match(records, Natives, native),
               records' = MergedRecords(R, u, m), aliases' = MergedAliases(u, m)
        PROVE  Transaction({})
    <2> HIDE DEF native
    <2>1. /\ m \in Uuids /\ records[m] # None
          /\ records[m].native = None /\ records[m].id # None
      BY <1>7, InvTables, UpstreamMatchFacts
    <2>2. m # u /\ R[m] = records[m]
      BY <1>1, <1>4, <2>1
    <2>3. QED
      BY <1>3, <1>4, <1>5, <1>7, <2>1, <2>2, MergeJoins
  <1>8. QED
    BY <1>6, <1>7 DEF Accept, R, row, native

(* Every step has the shape of a transaction; only a re-enable makes a run  *)
(* valid again.                                                             *)
LEMMA NextTransacts ==
    ASSUME Inv, Next
    PROVE  Transaction({}) \/ \E u \in Uuids : Reenable(u) /\ Transaction({u})
  <1>1. CASE Upload
    BY <1>1, AcceptTransacts DEF Upload
  <1>2. CASE Sync
    BY <1>2, SyncLinkTransacts, SyncMirrorTransacts DEF Sync
  <1>3. CASE Claim
    BY <1>3, ClaimTransacts DEF Claim
  <1>4. CASE Operate
    BY <1>4, ReconcileTransacts, BackfillTransacts DEF Operate, VerifyUpstream
  <1>5. CASE Moderate
    BY <1>5, ModerateTransacts DEF Moderate
  <1>6. QED
    BY <1>1, <1>2, <1>3, <1>4, <1>5 DEF Next

(* What a transaction does to a row that was there: a native row keeps its  *)
(* group and its id; a mirror keeps its id, or its alias leads to it; an    *)
(* invalid row that is not in E stays invalid under the UUID it ends at.    *)
Keeps(E) ==
    \A u \in Uuids : records[u] # None =>
        /\ records[u].native # None =>
              /\ records'[u] # None
              /\ records'[u].native = records[u].native
              /\ records[u].id # None => records'[u].id = records[u].id
        /\ \E v \in {u, aliases'[u]} \cap Uuids :
              /\ records'[v] # None
              /\ records[u].id # None => records'[v].id = records[u].id
              /\ u \notin E /\ ~ records[u].valid => ~ records'[v].valid

(* Every transaction keeps what it found.                                   *)
LEMMA TransactionKeeps ==
    ASSUME NEW E, Transaction(E)
    PROVE  Keeps(E)
  <1> SUFFICES ASSUME NEW u \in Uuids, records[u] # None
               PROVE  /\ records[u].native # None =>
                            /\ records'[u] # None
                            /\ records'[u].native = records[u].native
                            /\ records[u].id # None => records'[u].id = records[u].id
                      /\ \E v \in {u, aliases'[u]} \cap Uuids :
                            /\ records'[v] # None
                            /\ records[u].id # None => records'[v].id = records[u].id
                            /\ u \notin E /\ ~ records[u].valid => ~ records'[v].valid
    BY DEF Keeps
  <1>1. ASSUME NEW R, Refreshed(R, E) \/ Refreshed(R, {})
        PROVE  /\ R[u] # None
               /\ R[u].native = records[u].native
               /\ R[u].id = records[u].id
               /\ u \notin E /\ ~ records[u].valid => ~ R[u].valid
    BY <1>1 DEF Refreshed
  <1>2. ASSUME NEW R, NEW v \in Uuids, Added(R, v)
        PROVE  R[u] = records[u]
    BY <1>2 DEF Added
  <1>3. CASE Refreshed(records', E)
    BY <1>1, <1>3
  <1>4. CASE \E v \in Uuids : Added(records', v)
    BY <1>2, <1>4
  <1>5. CASE \E n \in Uuids : Linked(records', n)
    BY <1>5 DEF Linked
  <1>6. ASSUME NEW R \in Tables, NEW n \in Uuids, NEW m \in Uuids,
               Joined(R, records', n, m), aliases'[m] = n,
               Refreshed(R, {}) \/ Added(R, n) \/ Added(R, m)
        PROVE  /\ records[u].native # None =>
                     /\ records'[u] # None
                     /\ records'[u].native = records[u].native
                     /\ records[u].id # None => records'[u].id = records[u].id
               /\ \E v \in {u, aliases'[u]} \cap Uuids :
                     /\ records'[v] # None
                     /\ records[u].id # None => records'[v].id = records[u].id
                     /\ u \notin E /\ ~ records[u].valid => ~ records'[v].valid
    <2>1. /\ R[u] # None
          /\ R[u].native = records[u].native
          /\ R[u].id = records[u].id
          /\ u \notin E /\ ~ records[u].valid => ~ R[u].valid
      BY <1>1, <1>2, <1>6
    <2>2. CASE u = n
      BY <1>6, <2>1, <2>2 DEF Joined
    <2>3. CASE u = m
      BY <1>6, <2>1, <2>3 DEF Joined
    <2>4. CASE u # n /\ u # m
      BY <1>6, <2>1, <2>4 DEF Joined
    <2>5. QED
      BY <2>2, <2>3, <2>4
  <1>7. QED
    BY <1>3, <1>4, <1>5, <1>6 DEF Transaction

(* ... and so does every step of the system.                                *)
LEMMA StepKeeps ==
    ASSUME Inv, [Next]_vars
    PROVE  Keeps({}) \/ \E u \in Uuids : Reenable(u) /\ Keeps({u})
  <1>1. CASE Next
    BY <1>1, NextTransacts, TransactionKeeps
  <1>2. CASE UNCHANGED vars
    BY <1>2, IdleTransaction, TransactionKeeps DEF vars
  <1>3. QED
    BY <1>1, <1>2

(* A native run keeps its upstream id forever once it has one, whoever      *)
(* uploads, syncs, claims, operates or moderates                            *)
(* (record_reconciliation.py 139-190).                                     *)
THEOREM LinkIsPermanentHolds == Spec => LinkIsPermanent
  <1> DEFINE A == \A n \in Uuids, x \in Ids :
                     IsNative(n) /\ Holds(n, x) => IsNative(n)' /\ Holds(n, x)'
  <1>1. ASSUME Inv, [Next]_vars
        PROVE  A
    <2>1. PICK E : Keeps(E)
      BY <1>1, StepKeeps
    <2>2. QED
      BY <2>1, IdentityAssumption DEF Keeps, IsNative, Holds, Live
  <1>2. Inv /\ [Next]_vars => [A]_vars
    BY <1>1
  <1> HIDE DEF A
  <1>3. Spec => [][A]_vars
    BY <1>2, Invariance, PTL DEF Spec
  <1>4. QED
    BY <1>3 DEF LinkIsPermanent, A

(* No transaction drops an upstream run: its row stays, or the alias of its *)
(* UUID leads to the row that took it over (record_reconciliation.py        *)
(* 57-132).                                                                 *)
THEOREM UpstreamIsKeptHolds == Spec => UpstreamIsKept
  <1> DEFINE A == \A u \in Uuids, x \in Ids :
                     Holds(u, x) => \E v \in {u, aliases'[u]} \cap Uuids : Holds(v, x)'
  <1>1. ASSUME Inv, [Next]_vars
        PROVE  A
    <2>1. PICK E : Keeps(E)
      BY <1>1, StepKeeps
    <2>2. QED
      BY <2>1, IdentityAssumption DEF Keeps, Holds, Live
  <1>2. Inv /\ [Next]_vars => [A]_vars
    BY <1>1
  <1> HIDE DEF A
  <1>3. Spec => [][A]_vars
    BY <1>2, Invariance, PTL DEF Spec
  <1>4. QED
    BY <1>3 DEF UpstreamIsKept, A

(* Nothing but its re-enabling makes an invalid run valid, under its own    *)
(* UUID or the one a merge gives it.                                        *)
THEOREM ModerationStandsHolds == Spec => ModerationStands
  <1> DEFINE A == \A u \in Uuids :
                     Live(u) /\ ~ records[u].valid /\ ~ Reenable(u) =>
                        \E v \in {u, aliases'[u]} \cap Uuids :
                            records'[v] # None /\ ~ records'[v].valid
  <1>1. ASSUME Inv, [Next]_vars
        PROVE  A
    <2>1. ASSUME NEW u \in Uuids, Live(u), ~ records[u].valid, ~ Reenable(u)
          PROVE  \E v \in {u, aliases'[u]} \cap Uuids :
                    records'[v] # None /\ ~ records'[v].valid
      <3>1. \E E : u \notin E /\ Keeps(E)
        BY <1>1, <2>1, StepKeeps
      <3>2. QED
        BY <2>1, <3>1 DEF Keeps, Live
    <2>2. QED
      BY <2>1
  <1>2. Inv /\ [Next]_vars => [A]_vars
    BY <1>1
  <1> HIDE DEF A
  <1>3. Spec => [][A]_vars
    BY <1>2, Invariance, PTL DEF Spec
  <1>4. QED
    BY <1>3 DEF ModerationStands, A
-----------------------------------------------------------------------------
(* The ledger.  Holder and Settled are HolderOf and SettledIds of a table   *)
(* that need not be the current one.                                        *)
HeldIn(R, u, x) == R[u] # None /\ R[u].id = x

Holder(R) ==
    [x \in Ids |-> IF \E u \in Uuids : HeldIn(R, u, x)
                   THEN CHOOSE u \in Uuids : HeldIn(R, u, x) ELSE None]

Settled(R) == {x \in Ids : \E u \in Uuids : R[u] # None /\ R[u].native # None /\ R[u].id = x}

(* An id has one holder.                                                    *)
LEMMA HolderFacts ==
    ASSUME NEW R, Injective(R), NEW x \in Ids
    PROVE  /\ \A u \in Uuids : HeldIn(R, u, x) <=> Holder(R)[x] = u
           /\ (\A u \in Uuids : ~ HeldIn(R, u, x)) <=> Holder(R)[x] = None
  <1> DEFINE h == CHOOSE u \in Uuids : HeldIn(R, u, x)
  <1>1. CASE \E u \in Uuids : HeldIn(R, u, x)
    <2>1. h \in Uuids /\ HeldIn(R, h, x)
      BY <1>1
    <2>2. Holder(R)[x] = h
      BY <1>1 DEF Holder
    <2> HIDE DEF h
    <2>3. \A u \in Uuids : HeldIn(R, u, x) => u = h
      BY <2>1, IdentityAssumption DEF HeldIn, Injective
    <2>4. QED
      BY <2>1, <2>2, <2>3, IdentityAssumption
  <1>2. CASE \A u \in Uuids : ~ HeldIn(R, u, x)
    <2>1. Holder(R)[x] = None
      BY <1>2 DEF Holder
    <2>2. QED
      BY <1>2, <2>1, IdentityAssumption
  <1>3. QED
    BY <1>1, <1>2

(* Tables that agree on who holds what show the same ledger.                *)
Moved(R, S, x, u) ==
    \A v \in Uuids, y \in Ids :
        HeldIn(S, v, y) <=> IF y = x THEN v = u ELSE HeldIn(R, v, y)

LEMMA SameHolder ==
    ASSUME NEW R, NEW S, Injective(R), Injective(S),
           \A v \in Uuids, y \in Ids : HeldIn(S, v, y) <=> HeldIn(R, v, y)
    PROVE  Holder(S) = Holder(R)
  <1>1. ASSUME NEW x \in Ids
        PROVE  Holder(S)[x] = Holder(R)[x]
    <2>1. CASE \E u \in Uuids : HeldIn(R, u, x)
      BY <2>1, HolderFacts
    <2>2. CASE \A u \in Uuids : ~ HeldIn(R, u, x)
      BY <2>2, HolderFacts
    <2>3. QED
      BY <2>1, <2>2
  <1>2. QED
    BY <1>1 DEF Holder

(* ... and when x moves to u, so does it in the ledger.                     *)
LEMMA MovedHolder ==
    ASSUME NEW R, NEW S, Injective(R), Injective(S),
           NEW x \in Ids, NEW u \in Uuids, Moved(R, S, x, u)
    PROVE  Holder(S) = [Holder(R) EXCEPT ![x] = u]
  <1>1. ASSUME NEW y \in Ids
        PROVE  Holder(S)[y] = IF y = x THEN u ELSE Holder(R)[y]
    <2>1. CASE y = x
      BY <2>1, HolderFacts DEF Moved
    <2>2. CASE y # x /\ \E v \in Uuids : HeldIn(R, v, y)
      <3>1. PICK v \in Uuids : HeldIn(R, v, y)
        BY <2>2
      <3>2. HeldIn(S, v, y)
        BY <2>2, <3>1 DEF Moved
      <3>3. QED
        BY <2>2, <3>1, <3>2, HolderFacts
    <2>3. CASE y # x /\ \A v \in Uuids : ~ HeldIn(R, v, y)
      <3>1. \A v \in Uuids : ~ HeldIn(S, v, y)
        BY <2>3 DEF Moved
      <3>2. QED
        BY <2>3, <3>1, HolderFacts
    <2>4. QED
      BY <2>1, <2>2, <2>3
  <1>2. QED
    BY <1>1 DEF Holder

(* The two steps of the ledger, and its stuttering, in terms of tables.     *)
LedgerIdles(R, S) ==
    /\ \A v \in Uuids, y \in Ids : HeldIn(S, v, y) <=> HeldIn(R, v, y)
    /\ Settled(S) = Settled(R)

LedgerObserves(R, S, x, u) ==
    /\ \A v \in Uuids : ~ HeldIn(R, v, x)
    /\ \A y \in Ids : ~ HeldIn(R, u, y)
    /\ Moved(R, S, x, u)
    /\ Settled(S) = Settled(R)

LedgerSettles(R, S, x, u) ==
    /\ x \notin Settled(R)
    /\ \A y \in Ids : ~ HeldIn(R, u, y)
    /\ Moved(R, S, x, u)
    /\ Settled(S) = Settled(R) \cup {x}

(* A refreshed table holds what it held.                                    *)
LEMMA RefreshIdles ==
    ASSUME NEW R, NEW E, Refreshed(R, E)
    PROVE  LedgerIdles(records, R)
  <1>1. \A v \in Uuids, y \in Ids : HeldIn(R, v, y) <=> HeldIn(records, v, y)
    BY DEF Refreshed, HeldIn
  <1>2. Settled(R) = Settled(records)
    BY DEF Refreshed, Settled
  <1>3. QED
    BY <1>1, <1>2 DEF LedgerIdles

(* An added row holds nothing, or an id seen for the first time.            *)
LEMMA AddObserves ==
    ASSUME NEW R \in Tables, Injective(R), NEW u \in Uuids, Added(R, u)
    PROVE  /\ R[u].id = None => LedgerIdles(records, R)
           /\ R[u].id # None => R[u].id \in Ids /\ LedgerObserves(records, R, R[u].id, u)
  <1>1. R[u] \in Row
    BY DEF Added, Tables
  <1>2. ASSUME NEW y \in Ids
        PROVE  y \in Settled(R) <=> y \in Settled(records)
    BY IdentityAssumption DEF Settled, Added
  <1>3. Settled(R) = Settled(records)
    BY <1>2 DEF Settled
  <1>4. ASSUME R[u].id = None
        PROVE  LedgerIdles(records, R)
    <2>1. \A v \in Uuids, y \in Ids : HeldIn(R, v, y) <=> HeldIn(records, v, y)
      BY <1>4, IdentityAssumption DEF Added, HeldIn
    <2>2. QED
      BY <1>3, <2>1 DEF LedgerIdles
  <1>5. ASSUME R[u].id # None
        PROVE  R[u].id \in Ids /\ LedgerObserves(records, R, R[u].id, u)
    <2>1. R[u].id \in Ids
      BY <1>1, <1>5 DEF Row
    <2>2. \A v \in Uuids : ~ HeldIn(records, v, R[u].id)
      BY <1>5 DEF Added, HeldIn, Injective
    <2>3. \A y \in Ids : ~ HeldIn(records, u, y)
      BY DEF Added, HeldIn
    <2>4. Moved(records, R, R[u].id, u)
      BY <2>2 DEF Added, HeldIn, Moved
    <2>5. QED
      BY <1>3, <2>1, <2>2, <2>3, <2>4 DEF LedgerObserves
  <1>6. QED
    BY <1>4, <1>5

(* A link settles its id at once.                                           *)
LEMMA LinkSettles ==
    ASSUME NEW S \in Tables, NEW n \in Uuids, Linked(S, n)
    PROVE  S[n].id \in Ids /\ LedgerSettles(records, S, S[n].id, n)
  <1> DEFINE x == S[n].id
  <1>1. x \in Ids
    BY DEF Linked, Tables, Row
  <1> HIDE DEF x
  <1>2. \A v \in Uuids : ~ HeldIn(records, v, x)
    BY DEF Linked, HeldIn, x
  <1>3. \A y \in Ids : ~ HeldIn(records, n, y)
    BY IdentityAssumption DEF Linked, HeldIn
  <1>4. Moved(records, S, x, n)
    BY <1>2, <1>3 DEF Linked, HeldIn, Moved, x
  <1>5. x \notin Settled(records)
    BY <1>2 DEF Settled, HeldIn
  <1>6. \A y \in Ids : y \in Settled(S) <=> y \in Settled(records) \cup {x}
    BY <1>1, IdentityAssumption DEF Settled, Linked, x
  <1>7. Settled(S) = Settled(records) \cup {x}
    BY <1>1, <1>6 DEF Settled
  <1>8. QED
    BY <1>1, <1>3, <1>4, <1>5, <1>7 DEF LedgerSettles, x

(* A joining settles the id of the mirror, be the mirror or the native row  *)
(* old or new.                                                              *)
LEMMA JoinSettles ==
    ASSUME NEW R \in Tables, Injective(R), NEW S, NEW n \in Uuids, NEW m \in Uuids,
           Joined(R, S, n, m), Refreshed(R, {}) \/ Added(R, n) \/ Added(R, m)
    PROVE  R[m].id \in Ids /\ LedgerSettles(records, S, R[m].id, n)
  <1> DEFINE x == R[m].id
  <1>1. x \in Ids
    BY DEF Joined, Tables, Row
  <1>2. /\ n # m
        /\ R[n] # None /\ R[n].native # None /\ R[n].id = None
        /\ R[m] # None /\ R[m].native = None
        /\ S[m] = None
        /\ S[n] # None /\ S[n].native = R[n].native /\ S[n].id = x
        /\ \A v \in Uuids : v # n /\ v # m => S[v] = R[v]
    BY DEF Joined
  <1>3. R[m].id = x
    OBVIOUS
  <1> HIDE DEF x
  <1>4. \A v \in Uuids : R[v] # None /\ R[v].id = x => v = m
    BY <1>1, <1>2, <1>3, IdentityAssumption DEF Injective
  (* The step from the table the transaction has reached.                   *)
  <1>5. \A v \in Uuids, y \in Ids : y # x => (HeldIn(R, v, y) <=> HeldIn(records, v, y))
    BY <1>2, <1>3, IdentityAssumption DEF Refreshed, Added, HeldIn
  <1>6. \A y \in Ids : ~ HeldIn(records, n, y)
    BY <1>2, IdentityAssumption DEF Refreshed, Added, HeldIn
  <1>7. Moved(R, S, x, n)
    BY <1>1, <1>2, <1>3, <1>4, IdentityAssumption DEF Moved, HeldIn
  <1>8. Moved(records, S, x, n)
    BY <1>5, <1>7 DEF Moved
  <1>9. Settled(records) = Settled(R)
    <2>1. \A y \in Ids : y \in Settled(records) <=> y \in Settled(R)
      BY <1>2, IdentityAssumption DEF Refreshed, Added, Settled
    <2>2. QED
      BY <2>1 DEF Settled
  <1>10. x \notin Settled(R)
    BY <1>2, <1>4 DEF Settled
  <1>11. Settled(S) = Settled(R) \cup {x}
    <2>1. \A y \in Ids : y \in Settled(S) <=> y \in Settled(R) \cup {x}
      BY <1>1, <1>2, IdentityAssumption DEF Settled
    <2>2. QED
      BY <1>1, <2>1 DEF Settled
  <1>12. QED
    BY <1>1, <1>6, <1>8, <1>9, <1>10, <1>11 DEF LedgerSettles, x

(* So every transaction is a step of the ledger.                            *)
LEMMA TransactionInLedger ==
    ASSUME NEW E, Inv, Inv', Transaction(E)
    PROVE  \/ LedgerIdles(records, records')
           \/ \E x \in Ids, u \in Uuids :
                 LedgerObserves(records, records', x, u) \/ LedgerSettles(records, records', x, u)
  <1>1. records' \in Tables /\ Injective(records')
    BY DEF Inv, TypeOK, Tables, Injective
  <1>2. CASE Refreshed(records', E)
    BY <1>2, RefreshIdles
  <1>3. CASE \E u \in Uuids : Added(records', u)
    BY <1>1, <1>3, AddObserves
  <1>4. CASE \E n \in Uuids : Linked(records', n)
    BY <1>1, <1>4, LinkSettles
  <1>5. CASE \E R \in Tables, n, m \in Uuids :
                /\ Injective(R)
                /\ Joined(R, records', n, m)
                /\ Refreshed(R, {}) \/ Added(R, n) \/ Added(R, m)
    <2>1. PICK R \in Tables, n \in Uuids, m \in Uuids :
                /\ Injective(R)
                /\ Joined(R, records', n, m)
                /\ Refreshed(R, {}) \/ Added(R, n) \/ Added(R, m)
      BY <1>5
    <2>2. QED
      BY <2>1, JoinSettles
  <1>6. QED
    BY <1>2, <1>3, <1>4, <1>5 DEF Transaction

(* The refinement mapping in terms of tables.                               *)
LEMMA Mapping ==
    /\ HolderOf = Holder(records) /\ HolderOf' = Holder(records')
    /\ SettledIds = Settled(records) /\ SettledIds' = Settled(records')
  BY DEF HolderOf, Holder, SettledIds, Settled, Holds, HeldIn, IsNative, Live

(* An id nobody holds may be given to a row that holds none.                *)
LEMMA FreeRow ==
    ASSUME Inv, NEW u \in Uuids, \A y \in Ids : ~ HeldIn(records, u, y)
    PROVE  Ledger!Free(u)
  BY Mapping, HolderFacts DEF Ledger!Free, Inv

(* The tables implement the ledger: whatever the five paths do to rows,     *)
(* aliases, receipts and claims, seen from outside an upstream run is       *)
(* observed, then settled on a native run at most once, and never moves     *)
(* again (record_reconciliation.py 57-388, record_ingestion.py 277-426).    *)
THEOREM ImplementsLedgerHolds == Spec => ImplementsLedger
  <1>1. Init => Ledger!Init
    <2> SUFFICES ASSUME Init
                 PROVE  HolderOf = [x \in Ids |-> None] /\ SettledIds = {}
      BY DEF Ledger!Init
    <2>1. \A u \in Uuids : records[u] = None
      BY DEF Init
    <2>2. QED
      BY <2>1 DEF HolderOf, SettledIds, Holds, IsNative, Live
  <1>2. ASSUME Inv, Inv', [Next]_vars
        PROVE  [Ledger!Next]_Ledger!ledger
    <2>1. \E E : Transaction(E)
      BY <1>2, NextTransacts, IdleTransaction DEF vars
    <2>2. Injective(records) /\ Injective(records')
      BY <1>2 DEF Inv, Injective
    <2>3. CASE LedgerIdles(records, records')
      <3>1. HolderOf' = HolderOf /\ SettledIds' = SettledIds
        BY <2>2, <2>3, Mapping, SameHolder DEF LedgerIdles
      <3>2. QED
        BY <3>1 DEF Ledger!ledger
    <2>4. ASSUME NEW x \in Ids, NEW u \in Uuids, LedgerObserves(records, records', x, u)
          PROVE  Ledger!Observe(x, u)
      <3>1. HolderOf' = [HolderOf EXCEPT ![x] = u] /\ SettledIds' = SettledIds
        BY <2>2, <2>4, Mapping, MovedHolder DEF LedgerObserves
      <3>2. HolderOf[x] = None
        BY <2>2, <2>4, Mapping, HolderFacts DEF LedgerObserves
      <3>3. Ledger!Free(u)
        BY <1>2, <2>4, FreeRow DEF LedgerObserves
      <3>4. QED
        BY <3>1, <3>2, <3>3 DEF Ledger!Observe
    <2>5. ASSUME NEW x \in Ids, NEW u \in Uuids, LedgerSettles(records, records', x, u)
          PROVE  Ledger!Settle(x, u)
      <3>1. HolderOf' = [HolderOf EXCEPT ![x] = u] /\ SettledIds' = SettledIds \cup {x}
        BY <2>2, <2>5, Mapping, MovedHolder DEF LedgerSettles
      <3>2. x \notin SettledIds
        BY <2>5, Mapping DEF LedgerSettles
      <3>3. Ledger!Free(u)
        BY <1>2, <2>5, FreeRow DEF LedgerSettles
      <3>4. QED
        BY <3>1, <3>2, <3>3 DEF Ledger!Settle
    <2>6. QED
      BY <1>2, <2>1, <2>3, <2>4, <2>5, TransactionInLedger DEF Ledger!Next
  <1>3. QED
    BY <1>1, <1>2, Invariance, PTL DEF Spec, ImplementsLedger, Ledger!Spec
-----------------------------------------------------------------------------
(* Replay decisions.  Two more facts are inductive with Inv: an id for      *)
(* which a receipt froze a decision is held by some row ever after, so a    *)
(* link made before any mirror exists has no frozen decision to apply; and  *)
(* once the run has its id, its receipt says what was frozen for it.        *)
FrozenHeld(R, Q) ==
    \A s \in Slots : Q[s] # None =>
        \A x \in Q[s].frozen : \E u \in Uuids : HeldIn(R, u, x)

Decided(R, Q) ==
    \A s \in Slots : Q[s] # None =>
        \A x \in Q[s].frozen :
            R[Q[s].uuid].id = x => (Q[s].eligible <=> x \in Q[s].qualifying)

(* What was written at acceptance, and is never rewritten.                  *)
SameReceipt(q, r) ==
    /\ q \in Receipt
    /\ q.uuid = r.uuid
    /\ q.finish = r.finish
    /\ q.frozen = r.frozen
    /\ q.qualifying = r.qualifying

(* The decision becomes the one frozen for x, if one was.                   *)
Judged(q, r, x) ==
    /\ SameReceipt(q, r)
    /\ q.eligible = IF x \in r.frozen THEN x \in r.qualifying ELSE r.eligible

(* A step leaves a receipt and its row's id alone, judges it by the id its  *)
(* row has from now on, or gives its row an id for which none was frozen.   *)
ReceiptStands(s) ==
    /\ receipts'[s] # None
    /\ \/ /\ receipts'[s] = receipts[s]
          /\ records'[receipts[s].uuid].id = records[receipts[s].uuid].id
       \/ /\ receipts'[s] = receipts[s]
          /\ \A u \in Uuids : ~ HeldIn(records, u, records'[receipts[s].uuid].id)
       \/ Judged(receipts'[s], receipts[s], records'[receipts[s].uuid].id)

(* A new receipt froze ids that rows hold, and agrees with what it froze.   *)
ReceiptStarts(s) ==
    receipts'[s] # None =>
        /\ \A x \in receipts'[s].frozen : \E u \in Uuids : HeldIn(records, u, x)
        /\ \A x \in receipts'[s].frozen :
             records'[receipts'[s].uuid].id = x =>
                (receipts'[s].eligible <=> x \in receipts'[s].qualifying)

Decisions ==
    \A s \in Slots : IF receipts[s] = None THEN ReceiptStarts(s) ELSE ReceiptStands(s)

(* Requalification judges.                                                  *)
LEMMA RequalifiedJudges ==
    ASSUME NEW r \in Receipt, NEW x
    PROVE  Judged(Requalified(r, x), r, x)
  <1>1. CASE x \in r.frozen
    <2> DEFINE decision == x \in r.qualifying
    <2>1. Requalified(r, x) = [r EXCEPT !.eligible = decision]
      BY <1>1 DEF Requalified
    <2>2. decision \in BOOLEAN
      OBVIOUS
    <2>3. decision = (x \in r.qualifying)
      OBVIOUS
    <2> HIDE DEF decision
    <2> DEFINE q == [r EXCEPT !.eligible = decision]
    <2>4. /\ q \in Receipt /\ q.eligible = decision
          /\ q.uuid = r.uuid /\ q.finish = r.finish
          /\ q.frozen = r.frozen /\ q.qualifying = r.qualifying
      BY <2>2 DEF Receipt
    <2>5. q = Requalified(r, x)
      BY <2>1
    <2> HIDE DEF q
    <2>6. QED
      BY <1>1, <2>3, <2>4, <2>5 DEF Judged, SameReceipt
  <1>2. CASE x \notin r.frozen
    BY <1>2 DEF Requalified, Judged, SameReceipt
  <1>3. QED
    BY <1>1, <1>2

(* Receipts that nobody touches, of rows that keep their ids.               *)
LEMMA SameDecisions ==
    ASSUME Inv, UNCHANGED receipts,
           \A u \in Uuids : records[u] # None /\ records[u].native # None =>
                records'[u].id = records[u].id
    PROVE  Decisions
  <1> SUFFICES ASSUME NEW s \in Slots
               PROVE  IF receipts[s] = None THEN ReceiptStarts(s) ELSE ReceiptStands(s)
    BY DEF Decisions
  <1>1. CASE receipts[s] = None
    BY <1>1 DEF ReceiptStarts
  <1>2. CASE receipts[s] # None
    <2>1. receipts[s] \in Receipt
      BY <1>2, InvTables DEF Receipts
    <2>2. receipts[s].uuid \in Uuids /\ receipts[s].finish.group # None
      BY <2>1, IdentityAssumption DEF Receipt, Finish
    <2>3. QED
      BY <1>2, <2>2 DEF ReceiptStands, Inv, Answering
  <1>3. QED
    BY <1>1, <1>2

(* The receipts of row n are judged by the id x that it has from now on.    *)
LEMMA RequalifiedDecisions ==
    ASSUME Inv, NEW n \in Uuids, NEW x,
           receipts' = RequalifiedReceipts(receipts, n, x),
           records'[n].id = x,
           \A u \in Uuids : u # n /\ records[u] # None /\ records[u].native # None =>
                records'[u].id = records[u].id
    PROVE  Decisions
  <1> SUFFICES ASSUME NEW s \in Slots
               PROVE  IF receipts[s] = None THEN ReceiptStarts(s) ELSE ReceiptStands(s)
    BY DEF Decisions
  <1>1. receipts'[s] = IF receipts[s] # None /\ receipts[s].uuid = n
                       THEN Requalified(receipts[s], x) ELSE receipts[s]
    BY DEF RequalifiedReceipts
  <1>2. CASE receipts[s] = None
    BY <1>1, <1>2 DEF ReceiptStarts
  <1>3. CASE receipts[s] # None
    <2>1. receipts[s] \in Receipt
      BY <1>3, InvTables DEF Receipts
    <2>2. receipts[s].uuid \in Uuids /\ receipts[s].finish.group # None
      BY <2>1, IdentityAssumption DEF Receipt, Finish
    <2>3. CASE receipts[s].uuid = n
      <3>1. Judged(receipts'[s], receipts[s], x)
        BY <1>1, <1>3, <2>1, <2>3, RequalifiedJudges
      <3>2. receipts'[s] # None
        BY <3>1, IdentityAssumption DEF Judged, SameReceipt
      <3>3. QED
        BY <1>3, <2>3, <3>1, <3>2 DEF ReceiptStands
    <2>4. CASE receipts[s].uuid # n
      BY <1>1, <1>3, <2>2, <2>4 DEF ReceiptStands, Inv, Answering
    <2>5. QED
      BY <2>3, <2>4
  <1>4. QED
    BY <1>2, <1>3

(* Rows of a merge: the native one has the mirror's id, and no other native *)
(* row's id changes.                                                        *)
LEMMA MergeIds ==
    ASSUME NEW R \in Tables, NEW n \in Uuids, NEW m \in Uuids,
           n # m, R[n] # None, R[m] # None, R[n].native # None, R[m].native = None
    PROVE  /\ MergedRecords(R, n, m)[n].id = R[m].id
           /\ \A u \in Uuids : u # n /\ R[u] # None /\ R[u].native # None =>
                MergedRecords(R, n, m)[u] = R[u]
  BY MergedRecordsFacts

(* Merge judges the receipts of the native row.                             *)
LEMMA MergeDecides ==
    ASSUME Inv, NEW R \in Tables, NEW C, Injective(R), Answering(R, receipts),
           NEW n \in Uuids, NEW m \in Uuids, NEW x \in Ids,
           R[m] # None, R[m].id = x, Mergeable(R, n, m, x), Merge(R, C, n, m, x),
           \A u \in Uuids : records[u] # None /\ records[u].native # None => R[u] = records[u]
    PROVE  Decisions
  <1>1. n # m /\ R[n] # None /\ R[m].native = None /\ R[n].native # None
    BY DEF Mergeable, same_source, same_owner
  <1>2. MovedReceipts(receipts, n, m) = receipts
    BY <1>1, InvTables, ReceiptsNameNatives, MovedReceiptsIdle
  <1>3. receipts' = RequalifiedReceipts(receipts, n, x)
    BY <1>2 DEF Merge
  <1>4. records' = MergedRecords(R, n, m)
    BY DEF Merge
  <1>5. /\ records'[n].id = x
        /\ \A u \in Uuids : u # n /\ R[u] # None /\ R[u].native # None => records'[u] = R[u]
    BY <1>1, <1>4, MergeIds
  <1>6. QED
    BY <1>3, <1>5, RequalifiedDecisions

(* Moderation judges nothing.                                               *)
LEMMA ModerateDecides ==
    ASSUME Inv, NEW u \in Uuids, Invalidate(u) \/ Reenable(u)
    PROVE  Decisions
  <1>1. UNCHANGED receipts
    BY DEF Invalidate, Reenable
  <1>2. PICK E : Refreshed(records', E)
    <2>1. PICK b \in BOOLEAN : records' = [records EXCEPT ![u].valid = b]
      BY DEF Invalidate, Reenable
    <2>2. records[u] \in Row
      BY InvTables DEF Invalidate, Reenable, Live, Tables
    <2> DEFINE row == [records[u] EXCEPT !.valid = b]
    <2>3. row \in Row /\ row.id = records[u].id /\ row.native = records[u].native
      BY <2>2 DEF Row
    <2>4. records' = [records EXCEPT ![u] = row]
      BY <2>1
    <2> HIDE DEF row
    <2>5. records'[u] = row /\ row # None /\ \A v \in Uuids : v # u => records'[v] = records[v]
      BY <2>3, <2>4, InvTables, IdentityAssumption DEF Tables
    <2>6. Refreshed(records', {u})
      BY <2>2, <2>3, <2>5, IdentityAssumption DEF Refreshed
    <2>7. QED
      BY <2>6
  <1>3. \A v \in Uuids : records[v] # None /\ records[v].native # None =>
            records'[v].id = records[v].id
    BY <1>2 DEF Refreshed
  <1>4. QED
    BY <1>1, <1>3, SameDecisions

(* reconcile_claim judges the receipts of the run whose id it settles.      *)
LEMMA ReconcileDecides ==
    ASSUME Inv, NEW n \in Uuids, NEW x \in Ids, reconcile_claim(n, x)
    PROVE  Decisions
  <1>1. CASE \E u \in Uuids : ReconcileMerge(n, u, x)
    <2> PICK u \in Uuids : ReconcileMerge(n, u, x)
      BY <1>1
    <2>1. records[u] # None /\ records[u].id = x
      BY DEF ReconcileMerge, Holds, Live
    <2>2. Mergeable(records, n, u, x) /\ Merge(records, claims, n, u, x)
      BY DEF ReconcileMerge
    <2>3. QED
      BY <2>1, <2>2, InvTables, MergeDecides DEF Inv
  <1>2. CASE ReconcileSelf(n, x)
    <2>1. /\ receipts' = RequalifiedReceipts(receipts, n, x)
          /\ records' = records
          /\ records[n].id = x
      BY <1>2 DEF ReconcileSelf, Holds
    <2>2. QED
      BY <2>1, RequalifiedDecisions
  <1>3. CASE ReconcileNone(n, x) \/ \E u \in Uuids : ReconcileReview(n, u, x)
    BY <1>3, SameDecisions DEF ReconcileNone, ReconcileReview
  <1>4. QED
    BY <1>1, <1>2, <1>3 DEF reconcile_claim

(* ... on behalf of a game server too.                                      *)
LEMMA ClaimDecides ==
    ASSUME Inv, NEW a \in Uuids, NEW x \in Ids, SubmitClaim(a, x)
    PROVE  Decisions
  <1> DEFINE n == IF aliases[a] # None THEN aliases[a] ELSE a
  <1>1. n \in Uuids
    BY InvTables DEF Aliases
  <1>2. reconcile_claim(n, x)
    BY DEF SubmitClaim
  <1> HIDE DEF n
  <1>3. QED
    BY <1>1, <1>2, ReconcileDecides

(* A link is made to an id nobody holds, and judges nothing.                *)
LEMMA SyncLinkDecides ==
    ASSUME Inv, NEW p \in Payloads, SyncLink(p)
    PROVE  Decisions
  <1>1. PICK n \in Candidates(p) :
            records' = [records EXCEPT ![n].id = p.id, ![n].source = p.source,
                                       ![n].time = p.time]
    BY DEF SyncLink
  <1>2. n \in Uuids /\ records[n] # None
    BY CandidatesFacts
  <1>3. p.id \in Ids /\ p \in Payload
    BY IdentityAssumption, PayloadFacts
  <1> DEFINE row == [[[records[n] EXCEPT !.id = p.id] EXCEPT !.source = p.source]
                        EXCEPT !.time = p.time]
  <1>4. records[n] \in Row
    BY <1>2, InvTables DEF Tables
  <1>5. row.id = p.id
    BY <1>3, <1>4 DEF Row, Payload
  <1>6. records' = [records EXCEPT ![n] = row]
    BY <1>1, <1>2, <1>4, InvTables DEF Tables, Row
  <1> HIDE DEF row
  <1>7. records'[n].id = p.id /\ \A u \in Uuids : u # n => records'[u] = records[u]
    BY <1>2, <1>5, <1>6, InvTables DEF Tables
  <1>8. UNCHANGED receipts /\ \A u \in Uuids : ~ HeldIn(records, u, p.id)
    BY DEF SyncLink, Holds, HeldIn, Live
  <1>9. ASSUME NEW s \in Slots
        PROVE  IF receipts[s] = None THEN ReceiptStarts(s) ELSE ReceiptStands(s)
    <2>1. CASE receipts[s] = None
      BY <1>8, <2>1 DEF ReceiptStarts
    <2>2. CASE receipts[s] # None
      <3>1. receipts[s].uuid \in Uuids
        BY <2>2, InvTables DEF Receipts, Receipt
      <3>2. QED
        BY <1>7, <1>8, <2>2, <3>1 DEF ReceiptStands
    <2>3. QED
      BY <2>1, <2>2
  <1>10. QED
    BY <1>9 DEF Decisions

(* The sync that keeps a mirror judges as the merge it may end in.          *)
LEMMA SyncMirrorDecides ==
    ASSUME Inv, NEW p \in Payloads, NEW u \in Uuids, SyncMirror(p, u)
    PROVE  Decisions
  <1> DEFINE R == Upserted(p, u)
  <1>1. /\ R \in Tables /\ Injective(R) /\ R[u] # None /\ R[u].id = p.id
    BY UpsertedFacts DEF SyncMirror
  <1>2. p.id \in Ids
    BY PayloadFacts
  <1>3. \A v \in Uuids : records[v] # None /\ records[v].native # None => R[v] = records[v]
    <2>1. \A v \in Uuids : v # u => R[v] = records[v]
      BY InvTables DEF Upserted, Tables
    <2>2. records[u] = None \/ records[u].native = None
      BY DEF SyncMirror, SyncMirrorGuard, Unused
    <2>3. QED
      BY <2>1, <2>2
  <1>4. CASE records' = R /\ UNCHANGED <<aliases, receipts>>
    BY <1>3, <1>4, SameDecisions
  <1>5. ASSUME NEW C, NEW n \in Uuids, Mergeable(R, n, u, p.id), Merge(R, C, n, u, p.id)
        PROVE  Decisions
    <2> HIDE DEF R
    <2>1. KeepsNatives(records, R)
      BY <1>3 DEF KeepsNatives
    <2>2. Answering(R, receipts)
      BY <2>1, InvTables, AnsweringKept, SameAnswersRefl DEF Inv
    <2>3. QED
      BY <1>1, <1>2, <1>3, <1>5, <2>2, MergeDecides
  <1>6. QED
    BY <1>4, <1>5 DEF SyncMirror

(* The operator's backfill judges one receipt, the only one of its row.     *)
LEMMA BackfillDecides ==
    ASSUME Inv, NEW s \in Slots, Backfill(s)
    PROVE  Decisions
  <1> DEFINE n == receipts[s].uuid
             native == [uuid |-> n, received |-> receipts[s].received, row |-> records[n]]
  <1>1. receipts[s] # None /\ records[n] # None /\ records[n].id = None
    BY DEF Backfill, Live
  <1>2. receipts[s] \in Receipt /\ n \in Uuids
    BY <1>1, InvTables DEF Receipts, Receipt
  <1>3. PICK m \in upstream_match(records, Natives, native) :
          LET x == records[m].id
              moved == MovedReceipts(receipts, n, m)
              r == Requalified(moved[s], x)
          IN  /\ records' = MergedRecords(records, n, m)
              /\ receipts' = [moved EXCEPT ![s] =
                      IF x \in r.frozen THEN [r EXCEPT !.result = r.eligible] ELSE r]
    BY DEF Backfill
  <1> DEFINE x == records[m].id
             r == Requalified(receipts[s], x)
             q == IF x \in r.frozen THEN [r EXCEPT !.result = r.eligible] ELSE r
  <1> HIDE DEF native
  <1>4. /\ m \in Uuids /\ records[m] # None /\ records[m].native = None
        /\ same_owner(native.row, records[m])
    BY InvTables, UpstreamMatchFacts
  <1>5. records[n].native # None /\ n # m
    <2>1. native.row = records[n]
      BY DEF native
    <2>2. QED
      BY <1>1, <1>4, <2>1 DEF same_owner
  <1>6. MovedReceipts(receipts, n, m) = receipts
    BY <1>4, InvTables, ReceiptsNameNatives, MovedReceiptsIdle DEF Inv
  <1>7. Judged(r, receipts[s], x)
    BY <1>2, RequalifiedJudges
  <1>8. Judged(q, receipts[s], x)
    <2> HIDE DEF r
    <2>1. CASE q = r
      BY <1>7, <2>1
    <2>2. CASE q = [r EXCEPT !.result = r.eligible]
      BY <1>7, <2>2 DEF Judged, SameReceipt, Receipt
    <2>3. QED
      BY <2>1, <2>2
  <1>9. /\ records'[n].id = x
        /\ \A u \in Uuids : u # n /\ records[u] # None /\ records[u].native # None =>
              records'[u] = records[u]
    BY <1>1, <1>2, <1>3, <1>4, <1>5, InvTables, MergeIds
  <1>10. receipts' = [receipts EXCEPT ![s] = q]
    BY <1>3, <1>6
  <1>11. \A t \in Slots : t # s /\ receipts[t] # None => receipts[t].uuid # n
    BY <1>1 DEF Inv, Answering
  <1> HIDE DEF n, x, r, q
  <1>12. ASSUME NEW t \in Slots
         PROVE  IF receipts[t] = None THEN ReceiptStarts(t) ELSE ReceiptStands(t)
    <2>1. CASE t = s
      <3>1. receipts'[t] = q
        BY <1>10, <2>1, InvTables DEF Receipts
      <3>2. q # None
        BY <1>8, IdentityAssumption DEF Judged, SameReceipt
      <3>3. QED
        BY <1>1, <1>8, <1>9, <2>1, <3>1, <3>2 DEF ReceiptStands, n
    <2>2. CASE t # s
      <3>1. receipts'[t] = receipts[t]
        BY <1>10, <2>2, InvTables DEF Receipts
      <3>2. CASE receipts[t] = None
        BY <3>1, <3>2 DEF ReceiptStarts
      <3>3. CASE receipts[t] # None
        <4>1. receipts[t] \in Receipt
          BY <3>3, InvTables DEF Receipts
        <4>2. receipts[t].uuid \in Uuids /\ receipts[t].finish.group # None
          BY <4>1, IdentityAssumption DEF Receipt, Finish
        <4>3. records[receipts[t].uuid] # None /\ records[receipts[t].uuid].native # None
          BY <3>3, <4>2 DEF Inv, Answering
        <4>4. records'[receipts[t].uuid] = records[receipts[t].uuid]
          BY <1>9, <1>11, <2>2, <3>3, <4>2, <4>3
        <4>5. QED
          BY <3>1, <3>3, <4>4 DEF ReceiptStands
      <3>4. QED
        BY <3>2, <3>3
    <2>3. QED
      BY <2>1, <2>2
  <1>13. QED
    BY <1>12 DEF Decisions

(* An upload writes one receipt, which agrees with what it froze; it may    *)
(* re-point no other.                                                       *)
LEMMA AcceptDecides ==
    ASSUME Inv, NEW f \in Finishes, NEW d \in Delays, NEW u \in Uuids,
           NEW e \in BOOLEAN, NEW qualifying \in SUBSET Ids,
           Accept(f, d, u, e, qualifying)
    PROVE  Decisions
  <1> DEFINE native == Submission(f, f.done + d)
             row == native.row
             noted == IdsOf(Lookalikes(row))
             R == [records EXCEPT ![u] = row]
             receipt == ReceiptFor(f, u, f.done + d, e, noted, qualifying)
             Q == [receipts EXCEPT ![f.slot] = receipt]
             matched == upstream_match(records, Natives, native)
  <1>1. records[u] = None /\ receipts[f.slot] = None
    BY DEF Accept, AcceptGuard, Unused
  <1>2. f \in Finish /\ f.slot \in Slots
    BY IdentityAssumption DEF Finish
  <1>3. row \in Row /\ row.id = None /\ row.native # None
    BY <1>2, IdentityAssumption DEF Submission, Finish, Row
  <1>4. \A m \in matched : e <=> records[m].id \in qualifying
    BY DEF Accept
  <1>5. \/ matched = {} /\ records' = R /\ receipts' = Q
        \/ \E m \in matched : records' = MergedRecords(R, u, m)
                              /\ receipts' = MovedReceipts(Q, u, m)
    BY DEF Accept
  <1> HIDE DEF row
  <1>6. \A x \in noted : x \in Ids /\ \E v \in Uuids : HeldIn(records, v, x)
    BY IdsOfFacts DEF IdsOf, Lookalikes, Live, HeldIn
  <1> HIDE DEF noted
  <1>7. /\ receipt.uuid = u /\ receipt.frozen = noted
        /\ receipt.eligible = e /\ receipt.qualifying = qualifying
    BY DEF ReceiptFor
  <1> HIDE DEF receipt
  <1>8. /\ R \in Tables /\ R[u] = row /\ row # None
        /\ \A v \in Uuids : v # u => R[v] = records[v]
    BY <1>3, InvTables, IdentityAssumption DEF Tables
  <1>9. \A s \in Slots : Q[s] = IF s = f.slot THEN receipt ELSE receipts[s]
    BY <1>2, InvTables DEF Receipts
  <1> HIDE DEF R, native, Q, matched
  (* Either way the receipts are Q, and rows other than u keep their ids.   *)
  <1>10. ASSUME NEW m \in matched,
                records' = MergedRecords(R, u, m), receipts' = MovedReceipts(Q, u, m)
         PROVE  /\ receipts' = Q
                /\ records'[u].id = records[m].id
                /\ \A v \in Uuids : v # u /\ records[v] # None /\ records[v].native # None =>
                      records'[v] = records[v]
    <2>1. /\ m \in Uuids /\ records[m] # None /\ records[m].native = None
      BY InvTables, UpstreamMatchFacts DEF matched
    <2>2. m # u /\ R[m] = records[m]
      BY <1>1, <1>8, <2>1
    <2>3. /\ records'[u].id = R[m].id
          /\ \A v \in Uuids : v # u /\ R[v] # None /\ R[v].native # None => records'[v] = R[v]
      BY <1>3, <1>8, <1>10, <2>1, <2>2, MergeIds
    <2>4. \A s \in Slots : receipts[s] # None => receipts[s].uuid # m
      BY <2>1, InvTables, ReceiptsNameNatives DEF Inv
    <2>5. ASSUME NEW s \in Slots
          PROVE  receipts'[s] = Q[s]
      BY <1>7, <1>9, <1>10, <2>2, <2>4 DEF MovedReceipts
    <2>6. receipts' = Q
      <3>1. receipts' = [s \in Slots |-> receipts'[s]]
        BY <1>10 DEF MovedReceipts
      <3>2. Q = [s \in Slots |-> Q[s]]
        BY InvTables DEF Q, Receipts
      <3>3. QED
        BY <2>5, <3>1, <3>2
    <2>7. QED
      BY <1>8, <2>2, <2>3, <2>6
  <1>11. /\ receipts' = Q
         /\ \A v \in Uuids : v # u /\ records[v] # None /\ records[v].native # None =>
               records'[v] = records[v]
         /\ \A x \in noted : records'[u].id = x => (e <=> x \in qualifying)
    <2>1. CASE matched = {} /\ records' = R /\ receipts' = Q
      BY <1>3, <1>6, <1>8, <2>1, IdentityAssumption
    <2>2. CASE \E m \in matched : records' = MergedRecords(R, u, m)
                                  /\ receipts' = MovedReceipts(Q, u, m)
      BY <1>4, <1>10, <2>2
    <2>3. QED
      BY <1>5, <2>1, <2>2
  <1>12. ASSUME NEW s \in Slots
         PROVE  IF receipts[s] = None THEN ReceiptStarts(s) ELSE ReceiptStands(s)
    <2>1. CASE s = f.slot
      BY <1>1, <1>6, <1>7, <1>9, <1>11, <2>1 DEF ReceiptStarts
    <2>2. CASE s # f.slot /\ receipts[s] = None
      BY <1>9, <1>11, <2>2 DEF ReceiptStarts
    <2>3. CASE s # f.slot /\ receipts[s] # None
      <3>1. receipts[s] \in Receipt
        BY <2>3, InvTables DEF Receipts
      <3>2. receipts[s].uuid \in Uuids /\ receipts[s].finish.group # None
        BY <3>1, IdentityAssumption DEF Receipt, Finish
      <3>3. records[receipts[s].uuid] # None /\ records[receipts[s].uuid].native # None
        BY <2>3, <3>2 DEF Inv, Answering
      <3>4. records'[receipts[s].uuid] = records[receipts[s].uuid]
        BY <1>1, <1>11, <3>2, <3>3
      <3>5. QED
        BY <1>9, <1>11, <2>3, <3>4 DEF ReceiptStands
    <2>4. QED
      BY <2>1, <2>2, <2>3
  <1>13. QED
    BY <1>12 DEF Decisions

(* What every step does to receipts.                                        *)
LEMMA NextDecides ==
    ASSUME Inv, [Next]_vars
    PROVE  Decisions
  <1>1. CASE Upload
    BY <1>1, AcceptDecides DEF Upload
  <1>2. CASE Sync
    BY <1>2, SyncLinkDecides, SyncMirrorDecides DEF Sync
  <1>3. CASE Claim
    BY <1>3, ClaimDecides DEF Claim
  <1>4. CASE Operate
    BY <1>4, ReconcileDecides, BackfillDecides DEF Operate, VerifyUpstream
  <1>5. CASE Moderate
    BY <1>5, ModerateDecides DEF Moderate
  <1>6. CASE UNCHANGED vars
    BY <1>6, SameDecisions DEF vars
  <1>7. QED
    BY <1>1, <1>2, <1>3, <1>4, <1>5, <1>6 DEF Next

(* Ids that are held stay held.                                             *)
LEMMA HeldStaysHeld ==
    ASSUME Inv, [Next]_vars, NEW x \in Ids, \E u \in Uuids : HeldIn(records, u, x)
    PROVE  \E v \in Uuids : HeldIn(records', v, x)
  <1>1. PICK u \in Uuids : HeldIn(records, u, x)
    OBVIOUS
  <1>2. PICK E : Keeps(E)
    BY StepKeeps
  <1>3. QED
    BY <1>1, <1>2, IdentityAssumption DEF Keeps, HeldIn

DecisionInv == Inv /\ FrozenHeld(records, receipts) /\ Decided(records, receipts)

(* A receipt that stands stays decided.                                     *)
LEMMA StandsDecided ==
    ASSUME DecisionInv, NEW s \in Slots, receipts[s] # None, ReceiptStands(s)
    PROVE  /\ SameReceipt(receipts'[s], receipts[s])
           /\ \A x \in receipts[s].frozen :
                records'[receipts[s].uuid].id = x =>
                    (receipts'[s].eligible <=> x \in receipts[s].qualifying)
           /\ records'[receipts[s].uuid].id = records[receipts[s].uuid].id =>
                \/ receipts'[s].eligible = receipts[s].eligible
                \/ records[receipts[s].uuid].id \in receipts[s].frozen
  <1>1. receipts[s] \in Receipt
    BY InvTables DEF DecisionInv, Receipts
  <1>2. CASE /\ receipts'[s] = receipts[s]
             /\ records'[receipts[s].uuid].id = records[receipts[s].uuid].id
    BY <1>1, <1>2 DEF DecisionInv, Decided, SameReceipt
  <1>3. CASE /\ receipts'[s] = receipts[s]
             /\ \A u \in Uuids : ~ HeldIn(records, u, records'[receipts[s].uuid].id)
    BY <1>1, <1>3 DEF DecisionInv, FrozenHeld, SameReceipt
  <1>4. CASE Judged(receipts'[s], receipts[s], records'[receipts[s].uuid].id)
    BY <1>4 DEF Judged
  <1>5. QED
    BY <1>2, <1>3, <1>4 DEF ReceiptStands

(* The decisions are inductive.                                             *)
LEMMA DecisionNext == DecisionInv /\ [Next]_vars => DecisionInv'
  <1> SUFFICES ASSUME DecisionInv, [Next]_vars
               PROVE  DecisionInv'
    OBVIOUS
  <1>1. Inv' /\ Decisions
    BY NextInv, NextDecides DEF DecisionInv
  <1>2. ASSUME NEW s \in Slots, receipts'[s] # None
        PROVE  /\ \A x \in receipts'[s].frozen : \E u \in Uuids : HeldIn(records', u, x)
               /\ \A x \in receipts'[s].frozen :
                    records'[receipts'[s].uuid].id = x =>
                        (receipts'[s].eligible <=> x \in receipts'[s].qualifying)
    <2>1. receipts'[s] \in Receipt
      BY <1>1, <1>2 DEF Inv, TypeOK
    <2>2. receipts'[s].frozen \subseteq Ids
      BY <2>1 DEF Receipt
    <2>3. CASE receipts[s] = None
      <3>1. ReceiptStarts(s)
        BY <1>1, <2>3 DEF Decisions
      <3>2. QED
        BY <1>2, <2>2, <3>1, HeldStaysHeld DEF ReceiptStarts, DecisionInv
    <2>4. CASE receipts[s] # None
      <3>1. ReceiptStands(s)
        BY <1>1, <2>4 DEF Decisions
      <3>2. /\ SameReceipt(receipts'[s], receipts[s])
            /\ \A x \in receipts[s].frozen :
                 records'[receipts[s].uuid].id = x =>
                    (receipts'[s].eligible <=> x \in receipts[s].qualifying)
        BY <2>4, <3>1, StandsDecided
      <3>3. \A x \in receipts[s].frozen : \E u \in Uuids : HeldIn(records, u, x)
        BY <2>4 DEF DecisionInv, FrozenHeld
      <3>4. QED
        BY <2>2, <3>2, <3>3, HeldStaysHeld DEF SameReceipt, DecisionInv
    <2>5. QED
      BY <2>3, <2>4
  <1>3. FrozenHeld(records', receipts')
    BY <1>2 DEF FrozenHeld
  <1>4. Decided(records', receipts')
    BY <1>2 DEF Decided
  <1>5. QED
    BY <1>1, <1>3, <1>4 DEF DecisionInv, FrozenHeld, Decided

(* A receipt is written once, and its replay decision is final from the     *)
(* moment its run has its upstream identity (record_ingestion.py 282-313,   *)
(* record_reconciliation.py 184-188 and 383-386).                           *)
THEOREM QualificationStandsHolds == Spec => QualificationStands
  <1> DEFINE A == \A s \in Slots : receipts[s] # None =>
                     LET r == receipts[s]
                     IN  /\ receipts'[s] # None
                         /\ receipts'[s].finish = r.finish
                         /\ receipts'[s].uuid = r.uuid
                         /\ records[r.uuid].id # None => receipts'[s].eligible = r.eligible
  <1>1. Init => DecisionInv
    <2> SUFFICES ASSUME Init
                 PROVE  DecisionInv
      OBVIOUS
    <2>1. \A s \in Slots : receipts[s] = None
      BY DEF Init
    <2>2. QED
      BY <2>1, InitInv DEF DecisionInv, FrozenHeld, Decided
  <1>2. ASSUME DecisionInv, [Next]_vars
        PROVE  A
    <2> SUFFICES ASSUME NEW s \in Slots, receipts[s] # None
                 PROVE  /\ receipts'[s] # None
                        /\ receipts'[s].finish = receipts[s].finish
                        /\ receipts'[s].uuid = receipts[s].uuid
                        /\ records[receipts[s].uuid].id # None =>
                              receipts'[s].eligible = receipts[s].eligible
      OBVIOUS
    <2>1. ReceiptStands(s)
      BY <1>2, NextDecides DEF DecisionInv, Decisions
    <2>2. SameReceipt(receipts'[s], receipts[s])
      BY <1>2, <2>1, StandsDecided
    <2>3. receipts'[s] # None
      BY <2>1 DEF ReceiptStands
    <2>4. ASSUME records[receipts[s].uuid].id # None
          PROVE  receipts'[s].eligible = receipts[s].eligible
      <3>1. receipts[s] \in Receipt
        BY <1>2, InvTables DEF DecisionInv, Receipts
      <3>2. receipts[s].uuid \in Uuids /\ receipts[s].finish.group # None
        BY <3>1, IdentityAssumption DEF Receipt, Finish
      <3>3. records[receipts[s].uuid] # None /\ records[receipts[s].uuid].native # None
        BY <1>2, <3>2 DEF DecisionInv, Inv, Answering
      <3>4. PICK E : Keeps(E)
        BY <1>2, StepKeeps DEF DecisionInv
      <3>5. records'[receipts[s].uuid].id = records[receipts[s].uuid].id
        BY <2>4, <3>2, <3>3, <3>4 DEF Keeps
      <3>6. CASE receipts'[s].eligible = receipts[s].eligible
        BY <3>6
      <3>7. CASE records[receipts[s].uuid].id \in receipts[s].frozen
        <4> DEFINE x == records[receipts[s].uuid].id
        <4>1. receipts[s].eligible <=> x \in receipts[s].qualifying
          BY <1>2, <3>7 DEF DecisionInv, Decided
        <4>2. receipts'[s].eligible <=> x \in receipts[s].qualifying
          BY <1>2, <2>1, <3>5, <3>7, StandsDecided
        <4>3. receipts[s].eligible \in BOOLEAN /\ receipts'[s].eligible \in BOOLEAN
          BY <2>2, <3>1 DEF SameReceipt, Receipt
        <4>4. QED
          BY <4>1, <4>2, <4>3
      <3>8. QED
        BY <1>2, <2>1, <3>5, <3>6, <3>7, StandsDecided
    <2>5. QED
      BY <2>2, <2>3, <2>4 DEF SameReceipt
  <1>3. DecisionInv /\ [Next]_vars => [A]_vars
    BY <1>2
  <1> HIDE DEF A
  <1>4. Spec => [][A]_vars
    BY <1>1, <1>3, DecisionNext, PTL DEF Spec
  <1>5. QED
    BY <1>4 DEF QualificationStands, A
=============================================================================
