--------------------------- MODULE MatchingTruth ---------------------------
(***************************************************************************)
(* Matching against the truth.  One player finishes the same course twice, *)
(* with equal statistics, and both the game server and GlobalAPI report    *)
(* each finish, in any order.  Which upstream run is whose is known here:  *)
(* the id of a payload is the length of the run, plus one for the second.  *)
(* No plugin names an upstream id and no operator does: every link is the  *)
(* program's own guess.                                                    *)
(***************************************************************************)
EXTENDS RecordIdentity_proofs, TLC

CONSTANTS
    g1, s1, s2, u1, u2, u3, u4,
    Lengths,       \* of courses, in seconds: how long a run on it takes
    Skews          \* of the game server's clock, in seconds

First     == 100
Second(l) == First + l + 1

MCIds    == UNION {{l, l + 1} : l \in Lengths}
MCUuids  == {u1, u2, u3, u4}
MCSlots  == {s1, s2}
MCGroups == {g1}

finish(s, u, l, t, skew) ==
    [slot |-> s, uuid |-> u, group |-> g1, run |-> l, time |-> 1000 * l,
     at |-> t + skew, done |-> t]
payload(x, l, t) ==
    [id |-> x, source |-> g1, run |-> l, time |-> 1000 * l - 1, at |-> t]

AnySkew  == {-3, 0, 4, 60}

MCFinishes == {finish(s1, u1, l, First, k) : l \in Lengths, k \in Skews}
                \cup {finish(s2, u2, l, Second(l), k) : l \in Lengths, k \in Skews}
MCPayloads == {payload(l, l, First) : l \in Lengths}
                \cup {payload(l + 1, l, Second(l)) : l \in Lengths}

TrueId(f) == IF f.slot = s1 THEN f.run ELSE f.run + 1

Guess == \/ \E f \in Finishes, d \in Delays, u \in {u1, u2} :
                LET noted == IdsOf(Lookalikes(Submission(f, f.done + d).row))
                IN  Accept(f, d, u, TRUE, noted)
         \/ \E p \in Payloads : SyncLink(p) \/ \E u \in {u3, u4} : SyncMirror(p, u)
         \/ \E s \in Slots : Backfill(s)

GuessSpec == Init /\ [][Guess]_vars

(* No native run is ever linked to the upstream run of another finish: the  *)
(* duration guard of unique_compatible_pair keeps rapid repeated finishes   *)
(* apart, and its two-way uniqueness the others.                            *)
NoFalseMatch ==
    \A s \in Slots : receipts[s] # None =>
        records[receipts[s].uuid].id \in {None, TrueId(receipts[s].finish)}

Generated == Permutations({u3, u4})

-----------------------------------------------------------------------------
(* What the server knows of a clock.  A finish reaches it at once or late,  *)
(* from a game server whose clock is behind by no more than the window, and *)
(* right to within the window unless it is ahead by so much that the server *)
(* sees it, or the finish is late by less.  No link would be safe without:  *)
(* a clock behind by the length of the run, or one ahead by it with a       *)
(* finish that is late by more than it, moves one finish onto the other.    *)
ASSUME TruthAssumption ==
    /\ s1 # s2
    /\ {u1, u2, u3, u4} \subseteq Uuids
    /\ Lengths \subseteq Nat
    /\ MCIds \subseteq Ids
    /\ \A l \in Lengths : l + 1 \notin Lengths
    /\ Skews \subseteq Int
    /\ Finishes \subseteq MCFinishes
    /\ Payloads \subseteq MCPayloads
    /\ \A d \in Delays : d <= RECEIPT_DELAY_WINDOW
    /\ \A k \in Skews, d \in Delays :
          /\ - MATCH_WINDOW <= k
          /\ k <= MATCH_WINDOW \/ d <= MATCH_WINDOW \/ k > d + MATCH_WINDOW

(* The duration guard: a run longer than window_seconds keeps the other     *)
(* finish out of the interval of this one (record_matching.py 25-60).       *)
LEMMA WindowsSeparate ==
    ASSUME NEW l \in Lengths, NEW done \in Nat, NEW k \in Skews, NEW d \in Delays,
           l > window_seconds(done + k, done + d)
    PROVE  /\ done + l + 1 \notin finish_window(done + k, done + d)
           /\ done - (l + 1) \notin finish_window(done + k, done + d)
  <1>1. /\ l \in Nat /\ k \in Int /\ d \in Nat /\ d <= RECEIPT_DELAY_WINDOW
        /\ - MATCH_WINDOW <= k
        /\ k <= MATCH_WINDOW \/ d <= MATCH_WINDOW \/ k > d + MATCH_WINDOW
    BY TruthAssumption, IdentityAssumption
  <1>2. CASE done + k > done + d + MATCH_WINDOW
    BY <1>1, <1>2, WindowsAssumption DEF window_seconds, finish_window
  <1>3. CASE ~ (done + k > done + d + MATCH_WINDOW)
    BY <1>1, <1>3, WindowsAssumption DEF window_seconds, finish_window, Earlier
  <1>4. QED
    BY <1>2, <1>3

(* The row of a finish, before it is linked, and the row of an upstream run.*)
RowOfFinish(row, f) == row.run = f.run /\ row.time = f.time /\ row.at = f.at

RowOfPayload(row, p) == row.id = p.id /\ row.run = p.run /\ row.time = p.time /\ row.at = p.at

TrueTime(f) == f.time - 1

(* What the two sides report of a run.                                      *)
LEMMA Reports ==
    /\ \A f \in Finishes : \E l \in Lengths, k \in Skews :
          /\ f.run = l /\ f.time = 1000 * l /\ f.at = f.done + k
          /\ \/ f.slot = s1 /\ f.done = First
             \/ f.slot = s2 /\ f.done = Second(l)
    /\ \A p \in Payloads : \E l \in Lengths :
          /\ p.run = l /\ p.time = 1000 * l - 1
          /\ \/ p.id = l /\ p.at = First
             \/ p.id = l + 1 /\ p.at = Second(l)
  <1>1. ASSUME NEW f \in Finishes
        PROVE  \E l \in Lengths, k \in Skews :
                  /\ f.run = l /\ f.time = 1000 * l /\ f.at = f.done + k
                  /\ \/ f.slot = s1 /\ f.done = First
                     \/ f.slot = s2 /\ f.done = Second(l)
    <2>1. PICK l \in Lengths, k \in Skews :
              f = finish(s1, u1, l, First, k) \/ f = finish(s2, u2, l, Second(l), k)
      BY TruthAssumption DEF MCFinishes
    <2>2. /\ f.run = l /\ f.time = 1000 * l /\ f.at = f.done + k
          /\ \/ f.slot = s1 /\ f.done = First
             \/ f.slot = s2 /\ f.done = Second(l)
      BY <2>1 DEF finish
    <2>3. QED
      BY <2>2
  <1>2. ASSUME NEW p \in Payloads
        PROVE  \E l \in Lengths :
                  /\ p.run = l /\ p.time = 1000 * l - 1
                  /\ \/ p.id = l /\ p.at = First
                     \/ p.id = l + 1 /\ p.at = Second(l)
    <2>1. PICK l \in Lengths : p = payload(l, l, First) \/ p = payload(l + 1, l, Second(l))
      BY TruthAssumption DEF MCPayloads
    <2>2. /\ p.run = l /\ p.time = 1000 * l - 1
          /\ \/ p.id = l /\ p.at = First
             \/ p.id = l + 1 /\ p.at = Second(l)
      BY <2>1 DEF payload
    <2>3. QED
      BY <2>2
  <1>3. QED
    BY <1>1, <1>2

(* A finish and an upstream run that pass unique_compatible_pair are one.   *)
LEMMA PairIsTrue ==
    ASSUME NEW f \in Finishes, NEW d \in Delays, NEW p \in Payloads,
           NEW native, NEW upstream, NEW R, NEW N,
           RowOfFinish(native.row, f), native.received = f.done + d,
           RowOfPayload(upstream, p),
           unique_compatible_pair(R, N, native, upstream)
    PROVE  p.id = TrueId(f) /\ p.time = TrueTime(f)
  <1>1. PICK l \in Lengths, k \in Skews :
          /\ f.run = l /\ f.time = 1000 * l /\ f.at = f.done + k
          /\ \/ f.slot = s1 /\ f.done = First
             \/ f.slot = s2 /\ f.done = Second(l)
    BY Reports
  <1>2. p.run = f.run
    BY DEF unique_compatible_pair, statistics_match, RowOfFinish, RowOfPayload
  <1>3. /\ p.time = 1000 * l - 1
        /\ \/ p.id = l /\ p.at = First
           \/ p.id = l + 1 /\ p.at = Second(l)
    BY <1>1, <1>2, Reports
  <1>4. l \in Nat /\ k \in Int /\ d \in Nat
    BY TruthAssumption, IdentityAssumption
  <1>5. f.done \in Nat
    BY <1>1, <1>4 DEF First, Second
  <1>6. /\ Earlier(f.time, p.time) > 1000 * window_seconds(f.done + k, f.done + d)
        /\ p.at \in finish_window(f.done + k, f.done + d)
    BY <1>1 DEF unique_compatible_pair, RowOfFinish, RowOfPayload
  <1>7. window_seconds(f.done + k, f.done + d) \in Nat
    BY <1>4, <1>5, WindowsAssumption DEF window_seconds
  <1>8. l > window_seconds(f.done + k, f.done + d)
    BY <1>1, <1>3, <1>4, <1>6, <1>7 DEF Earlier
  <1>9. /\ p.at # f.done + l + 1
        /\ p.at # f.done - (l + 1)
    BY <1>5, <1>6, <1>8, WindowsSeparate
  <1>10. p.id = TrueId(f)
    BY <1>1, <1>3, <1>4, <1>9, TruthAssumption DEF First, Second, TrueId
  <1>11. QED
    BY <1>1, <1>3, <1>10 DEF TrueTime

-----------------------------------------------------------------------------
(* What every row says is true: a mirror is what GlobalAPI showed, and the  *)
(* row of a receipt is its finish or, once linked, that finish upstream.    *)
TrueMirror(row) == \E p \in Payloads : RowOfPayload(row, p)

TrueMirrors(R) == \A u \in Uuids : R[u] # None /\ R[u].native = None => TrueMirror(R[u])

TrueRow(row, f) ==
    /\ row.run = f.run
    /\ row.at = f.at
    /\ \/ row.id = None /\ row.time = f.time
       \/ row.id = TrueId(f) /\ row.time = TrueTime(f)

TrueReceipt(R, q) ==
    /\ q.finish \in Finishes
    /\ \E d \in Delays : q.received = q.finish.done + d
    /\ TrueRow(R[q.uuid], q.finish)

TrueReceipts(R, Q) == \A s \in Slots : Q[s] # None => TrueReceipt(R, Q[s])

(* Without plugins and operators that name ids, no claim ever waits.        *)
NoneWaits(C) == \A u \in Uuids, x \in Ids : C[<<u, x>>] # "pending"

Truth ==
    /\ Inv
    /\ TrueMirrors(records)
    /\ TrueReceipts(records, receipts)
    /\ NoneWaits(claims)

(* A merge with the true mirror.                                            *)
LEMMA MergeIsTrue ==
    ASSUME NEW R \in Tables, NEW n \in Uuids, NEW m \in Uuids, NEW f, NEW p,
           n # m, R[n] # None, R[m] # None, R[n].native # None,
           RowOfFinish(R[n], f), RowOfPayload(R[m], p),
           p.id = TrueId(f), p.time = TrueTime(f), TrueMirrors(R)
    PROVE  /\ TrueRow(MergedRecords(R, n, m)[n], f)
           /\ TrueMirrors(MergedRecords(R, n, m))
           /\ \A u \in Uuids : u # n /\ u # m => MergedRecords(R, n, m)[u] = R[u]
  <1> DEFINE S == MergedRecords(R, n, m)
             row == MergedRow(R[n], R[m])
  <1>1. R[n] \in Row /\ R[m] \in Row
    BY DEF Tables
  <1>2. /\ row.id = R[m].id /\ row.time = R[m].time
        /\ row.at = R[n].at /\ row.run = R[n].run /\ row.native = R[n].native
    BY <1>1 DEF MergedRow, Row
  <1> HIDE DEF row
  <1>3. S[m] = None /\ S[n] = row /\ \A u \in Uuids : u # n /\ u # m => S[u] = R[u]
    BY DEF MergedRecords, Tables, row
  <1> HIDE DEF S
  <1>4. TrueRow(S[n], f)
    BY <1>2, <1>3 DEF TrueRow, RowOfFinish, RowOfPayload
  <1>5. TrueMirrors(S)
    BY <1>2, <1>3 DEF TrueMirrors
  <1>6. QED
    BY <1>3, <1>4, <1>5 DEF S

(* A merge leaves no claim waiting where none was.                          *)
LEMMA MergedClaimsWait ==
    ASSUME NEW C \in Claims, NoneWaits(C), NEW n \in Uuids, NEW m \in Uuids, NEW x \in Ids
    PROVE  /\ NoneWaits(MergedClaims(C, n, m))
           /\ NoneWaits([MergedClaims(C, n, m) EXCEPT ![<<n, x>>] = "verified"])
  <1> DEFINE D == MergedClaims(C, n, m)
  <1>1. D = [c \in Uuids \X Ids |-> D[c]]
    BY DEF MergedClaims
  <1>2. ASSUME NEW u \in Uuids, NEW y \in Ids
        PROVE  D[<<u, y>>] # "pending"
    BY DEF MergedClaims, NoneWaits
  <1> HIDE DEF D
  <1>3. NoneWaits([D EXCEPT ![<<n, x>>] = "verified"])
    BY <1>1, <1>2 DEF NoneWaits
  <1>4. QED
    BY <1>2, <1>3 DEF NoneWaits, D

(* Receipts are as true as their rows.                                      *)
LEMMA SameRowsTrue ==
    ASSUME NEW R, NEW S, NEW q, TrueReceipt(R, q), S[q.uuid] = R[q.uuid]
    PROVE  TrueReceipt(S, q)
  BY DEF TrueReceipt

(* The mirror an uploaded run is merged with is its own upstream run.       *)
LEMMA UpstreamMatchIsTrue ==
    ASSUME Truth, NEW f \in Finishes, NEW d \in Delays, NEW native,
           RowOfFinish(native.row, f), native.received = f.done + d,
           NEW m \in upstream_match(records, Natives, native)
    PROVE  \E p \in Payloads :
              RowOfPayload(records[m], p) /\ p.id = TrueId(f) /\ p.time = TrueTime(f)
  <1>1. m \in Uuids /\ records[m] # None /\ records[m].native = None
    BY InvTables, UpstreamMatchFacts DEF Truth
  <1>2. unique_compatible_pair(records, Natives, native, records[m])
    BY DEF upstream_match
  <1>3. PICK p \in Payloads : RowOfPayload(records[m], p)
    BY <1>1 DEF Truth, TrueMirrors, TrueMirror
  <1>4. QED
    BY <1>2, <1>3, PairIsTrue

(* A receipt of a run not linked yet.                                       *)
LEMMA ReceiptIsTrue ==
    ASSUME Truth, NEW s \in Slots, receipts[s] # None,
           records[receipts[s].uuid].id = None
    PROVE  /\ receipts[s].uuid \in Uuids
           /\ receipts[s].finish \in Finishes
           /\ RowOfFinish(records[receipts[s].uuid], receipts[s].finish)
           /\ \E d \in Delays : receipts[s].received = receipts[s].finish.done + d
  <1>1. receipts[s].uuid \in Uuids
    BY InvTables DEF Truth, Receipts, Receipt
  <1>2. TrueReceipt(records, receipts[s])
    BY DEF Truth, TrueReceipts
  <1>3. TrueId(receipts[s].finish) # None
    <2>1. receipts[s].finish \in Finishes
      BY <1>2 DEF TrueReceipt
    <2>2. TrueId(receipts[s].finish) \in Ids
      <3>1. PICK l \in Lengths : receipts[s].finish.run = l
        BY <2>1, Reports
      <3>2. {l, l + 1} \subseteq Ids
        BY TruthAssumption DEF MCIds
      <3>3. QED
        BY <3>1, <3>2 DEF TrueId
    <2>3. QED
      BY <2>2, IdentityAssumption
  <1>4. QED
    BY <1>1, <1>2, <1>3 DEF TrueReceipt, TrueRow, RowOfFinish

-----------------------------------------------------------------------------
(* An upload makes a true row, and a true link if any.                      *)
LEMMA AcceptIsTrue ==
    ASSUME Truth, NEW f \in Finishes, NEW d \in Delays, NEW u \in Uuids,
           NEW e \in BOOLEAN, NEW qualifying \in SUBSET Ids,
           Accept(f, d, u, e, qualifying)
    PROVE  /\ TrueMirrors(records')
           /\ TrueReceipts(records', receipts')
           /\ NoneWaits(claims')
  <1> DEFINE native == Submission(f, f.done + d)
             row == native.row
             noted == IdsOf(Lookalikes(row))
             R == [records EXCEPT ![u] = row]
             receipt == ReceiptFor(f, u, f.done + d, e, noted, qualifying)
             Q == [receipts EXCEPT ![f.slot] = receipt]
             matched == upstream_match(records, Natives, native)
  <1>1. records[u] = None /\ receipts[f.slot] = None /\ Inv
    BY DEF Accept, AcceptGuard, Unused, Truth
  <1>2. f \in Finish /\ f.slot \in Slots
    BY IdentityAssumption DEF Finish
  <1>3. /\ row \in Row /\ row.id = None /\ row.native # None
        /\ RowOfFinish(row, f) /\ TrueRow(row, f)
    BY <1>2, IdentityAssumption DEF Submission, Finish, Row, RowOfFinish, TrueRow
  <1>4. native.received = f.done + d
    BY DEF Submission
  <1>5. \/ /\ records' = R /\ receipts' = Q
           /\ claims' = [c \in Uuids \X Ids |->
                 IF c[1] = u /\ c[2] \in noted THEN "review" ELSE claims[c]]
        \/ \E m \in matched :
           /\ records' = MergedRecords(R, u, m)
           /\ receipts' = MovedReceipts(Q, u, m)
           /\ claims' = [c \in Uuids \X Ids |->
                 IF c = <<u, records[m].id>> THEN "verified"
                 ELSE IF c[1] = u /\ c[2] \in noted THEN "review"
                 ELSE MergedClaims(claims, u, m)[c]]
    BY DEF Accept
  <1>6. receipt.uuid = u /\ receipt.finish = f /\ receipt.received = f.done + d
    BY DEF ReceiptFor
  <1>7. /\ R \in Tables /\ R[u] = row /\ row # None
        /\ \A v \in Uuids : v # u => R[v] = records[v]
    BY <1>1, <1>3, InvTables, IdentityAssumption DEF Tables
  <1>8. \A s \in Slots : Q[s] = IF s = f.slot THEN receipt ELSE receipts[s]
    BY <1>1, <1>2, InvTables DEF Receipts
  <1>9. RowOfFinish(native.row, f) /\ row = native.row
    BY <1>3
  <1> HIDE DEF row, noted, receipt, R, native, Q, matched
  <1>10. TrueMirrors(R)
    BY <1>3, <1>7 DEF Truth, TrueMirrors
  (* Receipts of other finishes have rows of their own.                     *)
  <1>11. ASSUME NEW S, TrueRow(S[u], f),
                \A v \in Uuids : v # u /\ records[v] # None /\ records[v].native # None =>
                    S[v] = records[v]
         PROVE  TrueReceipts(S, Q)
    <2> SUFFICES ASSUME NEW s \in Slots, Q[s] # None
                 PROVE  TrueReceipt(S, Q[s])
      BY DEF TrueReceipts
    <2>1. CASE s = f.slot
      BY <1>6, <1>8, <1>11, <2>1 DEF TrueReceipt
    <2>2. CASE s # f.slot
      <3>1. Q[s] = receipts[s] /\ receipts[s] # None
        BY <1>8, <2>2
      <3>2. receipts[s] \in Receipt
        BY <1>1, <3>1, InvTables DEF Receipts
      <3>3. receipts[s].uuid \in Uuids /\ receipts[s].finish.group # None
        BY <3>2, IdentityAssumption DEF Receipt, Finish
      <3>4. records[receipts[s].uuid] # None /\ records[receipts[s].uuid].native # None
        BY <1>1, <3>1, <3>3 DEF Inv, Answering
      <3>5. S[receipts[s].uuid] = records[receipts[s].uuid]
        BY <1>1, <1>11, <3>3, <3>4
      <3>6. TrueReceipt(records, receipts[s])
        BY <3>1 DEF Truth, TrueReceipts
      <3>7. QED
        BY <3>1, <3>5, <3>6, SameRowsTrue
    <2>3. QED
      BY <2>1, <2>2
  <1>12. CASE /\ records' = R /\ receipts' = Q
              /\ claims' = [c \in Uuids \X Ids |->
                    IF c[1] = u /\ c[2] \in noted THEN "review" ELSE claims[c]]
    <2>1. TrueReceipts(R, Q)
      BY <1>3, <1>7, <1>11
    <2>2. NoneWaits(claims')
      BY <1>12 DEF Truth, NoneWaits
    <2>3. QED
      BY <1>10, <1>12, <2>1, <2>2
  <1>13. ASSUME NEW m \in matched,
                records' = MergedRecords(R, u, m), receipts' = MovedReceipts(Q, u, m),
                claims' = [c \in Uuids \X Ids |->
                    IF c = <<u, records[m].id>> THEN "verified"
                    ELSE IF c[1] = u /\ c[2] \in noted THEN "review"
                    ELSE MergedClaims(claims, u, m)[c]]
         PROVE  /\ TrueMirrors(records')
                /\ TrueReceipts(records', receipts')
                /\ NoneWaits(claims')
    <2>1. m \in Uuids /\ records[m] # None /\ records[m].native = None
      BY <1>1, InvTables, UpstreamMatchFacts DEF matched
    <2>2. m # u /\ R[m] = records[m]
      BY <1>1, <1>7, <2>1
    <2>3. PICK p \in Payloads :
              RowOfPayload(records[m], p) /\ p.id = TrueId(f) /\ p.time = TrueTime(f)
      BY <1>4, <1>9, UpstreamMatchIsTrue DEF matched
    <2>4. /\ TrueRow(records'[u], f)
          /\ TrueMirrors(records')
          /\ \A v \in Uuids : v # u /\ v # m => records'[v] = R[v]
      BY <1>3, <1>7, <1>10, <1>13, <2>1, <2>2, <2>3, MergeIsTrue
    <2>5. TrueReceipts(records', Q)
      BY <1>7, <1>11, <2>1, <2>4
    <2>6. \A s \in Slots : receipts[s] # None => receipts[s].uuid # m
      BY <1>1, <2>1, InvTables, ReceiptsNameNatives DEF Inv
    <2>7. \A s \in Slots : receipts'[s] = Q[s]
      BY <1>6, <1>8, <1>13, <2>2, <2>6 DEF MovedReceipts
    <2>8. TrueReceipts(records', receipts')
      BY <2>5, <2>7 DEF TrueReceipts
    <2>9. NoneWaits(claims')
      <3>1. records[m].id \in Ids
        BY <1>1, <2>1, InvTables, UpstreamMatchFacts DEF Tables, Row, matched
      <3>2. NoneWaits(MergedClaims(claims, u, m))
        BY <1>1, <2>1, <3>1, InvTables, MergedClaimsWait DEF Truth
      <3>3. ASSUME NEW v \in Uuids, NEW x \in Ids
            PROVE  claims'[<<v, x>>] # "pending"
        BY <1>13, <3>2 DEF NoneWaits
      <3>4. QED
        BY <3>3 DEF NoneWaits
    <2>10. QED
      BY <2>4, <2>8, <2>9
  <1>14. QED
    BY <1>5, <1>12, <1>13

(* A body of GlobalAPI as a row.                                            *)
LEMMA MirrorIsTrue ==
    ASSUME NEW p \in Payloads
    PROVE  /\ RowOfPayload(MirrorOf(p), p)
           /\ \A b \in BOOLEAN : RowOfPayload([MirrorOf(p) EXCEPT !.valid = b], p)
  <1>1. p \in Payload
    BY IdentityAssumption
  <1>2. QED
    BY <1>1 DEF Payload, MirrorOf, RowOfPayload

(* The sync proposes no native run but the upstream run's own.              *)
LEMMA CandidatesAreTrue ==
    ASSUME Truth, NEW p \in Payloads, NEW n \in Candidates(p)
    PROVE  \E s \in Slots :
              /\ receipts[s] # None /\ receipts[s].uuid = n
              /\ records[n].id = None
              /\ p.id = TrueId(receipts[s].finish) /\ p.time = TrueTime(receipts[s].finish)
  <1>1. Claimants(p) = {}
    BY PayloadFacts DEF Claimants, Truth, NoneWaits
  <1>2. n \in native_match(records, Natives, MirrorOf(p))
    BY <1>1 DEF Candidates
  <1>3. PICK c \in Natives : /\ n = c.uuid /\ c.row.id = None
                             /\ unique_compatible_pair(records, Natives, c, MirrorOf(p))
    BY <1>2 DEF native_match, natives_near
  <1>4. PICK s \in Slots : /\ receipts[s] # None
                           /\ c = [uuid |-> receipts[s].uuid,
                                   received |-> receipts[s].received,
                                   row |-> records[receipts[s].uuid]]
    BY <1>3 DEF Natives
  <1>5. c.uuid = receipts[s].uuid /\ c.row = records[n] /\ c.received = receipts[s].received
    BY <1>3, <1>4
  <1>6. /\ receipts[s].finish \in Finishes
        /\ RowOfFinish(c.row, receipts[s].finish)
        /\ \E d \in Delays : c.received = receipts[s].finish.done + d
    BY <1>3, <1>4, <1>5, ReceiptIsTrue
  <1>7. p.id = TrueId(receipts[s].finish) /\ p.time = TrueTime(receipts[s].finish)
    BY <1>3, <1>6, MirrorIsTrue, PairIsTrue
  <1>8. QED
    BY <1>3, <1>4, <1>5, <1>7

(* A link made before any mirror exists is true.                            *)
LEMMA SyncLinkIsTrue ==
    ASSUME Truth, NEW p \in Payloads, SyncLink(p)
    PROVE  /\ TrueMirrors(records')
           /\ TrueReceipts(records', receipts')
           /\ NoneWaits(claims')
  <1>1. PICK n \in Candidates(p) :
            /\ records' = [records EXCEPT ![n].id = p.id, ![n].source = p.source,
                                          ![n].time = p.time]
            /\ claims' = [claims EXCEPT ![<<n, p.id>>] = "verified"]
    BY DEF SyncLink
  <1>2. receipts' = receipts /\ Inv
    BY DEF SyncLink, Truth
  <1>3. n \in Uuids /\ records[n] # None /\ records[n].native # None
    BY <1>2, CandidatesFacts
  <1>4. PICK s \in Slots :
              /\ receipts[s] # None /\ receipts[s].uuid = n
              /\ records[n].id = None
              /\ p.id = TrueId(receipts[s].finish) /\ p.time = TrueTime(receipts[s].finish)
    BY CandidatesAreTrue
  <1>5. p \in Payload
    BY IdentityAssumption
  <1> DEFINE row == [[[records[n] EXCEPT !.id = p.id] EXCEPT !.source = p.source]
                        EXCEPT !.time = p.time]
  <1>6. records[n] \in Row
    BY <1>2, <1>3, InvTables DEF Tables
  <1>7. /\ row \in Row /\ row.id = p.id /\ row.time = p.time
        /\ row.at = records[n].at /\ row.run = records[n].run
        /\ row.native = records[n].native
    BY <1>5, <1>6 DEF Row, Payload
  <1>8. records' = [records EXCEPT ![n] = row]
    BY <1>1, <1>2, <1>3, <1>6, InvTables DEF Tables, Row
  <1> HIDE DEF row
  <1>9. records'[n] = row /\ \A u \in Uuids : u # n => records'[u] = records[u]
    BY <1>2, <1>3, <1>8, InvTables DEF Tables
  <1>10. TrueMirrors(records')
    BY <1>3, <1>7, <1>9 DEF Truth, TrueMirrors
  <1>11. ASSUME NEW t \in Slots, receipts[t] # None
         PROVE  TrueReceipt(records', receipts[t])
    <2>1. receipts[t].uuid \in Uuids
      BY <1>2, <1>11, InvTables DEF Receipts, Receipt
    <2>2. TrueReceipt(records, receipts[t])
      BY <1>11 DEF Truth, TrueReceipts
    <2>3. CASE t = s
      BY <1>4, <1>7, <1>9, <2>2, <2>3 DEF TrueReceipt, TrueRow
    <2>4. CASE t # s
      <3>1. receipts[t].uuid # n
        BY <1>2, <1>4, <1>11, <2>4 DEF Inv, Answering
      <3>2. QED
        BY <1>9, <2>1, <2>2, <3>1, SameRowsTrue
    <2>5. QED
      BY <2>3, <2>4
  <1>12. TrueReceipts(records', receipts')
    BY <1>2, <1>11 DEF TrueReceipts
  <1>13. NoneWaits(claims')
    BY <1>1, <1>2, InvTables DEF Truth, NoneWaits, Claims
  <1>14. QED
    BY <1>10, <1>12, <1>13

(* A mirror is true, and settles nothing when no claim waits.               *)
LEMMA SyncMirrorIsTrue ==
    ASSUME Truth, NEW p \in Payloads, NEW u \in Uuids, SyncMirror(p, u)
    PROVE  /\ TrueMirrors(records')
           /\ TrueReceipts(records', receipts')
           /\ NoneWaits(claims')
  <1> DEFINE R == Upserted(p, u)
             C == ResolvedClaims(p)
             waiting == {n \in Uuids : C[<<n, p.id>>] = "pending"}
             settled == [c \in Uuids \X Ids |->
                           IF c[2] # p.id \/ c[1] \notin waiting THEN C[c]
                           ELSE IF c[1] = u THEN "verified" ELSE "review"]
  <1>1. Inv /\ p.id \in Ids
    BY PayloadFacts DEF Truth
  <1>2. NoneWaits(C)
    BY DEF ResolvedClaims, Truth, NoneWaits
  <1>3. waiting = {}
    BY <1>1, <1>2 DEF NoneWaits
  <1>4. records' = R /\ claims' = settled /\ receipts' = receipts
    BY <1>3 DEF SyncMirror
  <1>5. NoneWaits(settled)
    <2> HIDE DEF C, waiting
    <2>1. ASSUME NEW v \in Uuids, NEW x \in Ids
          PROVE  settled[<<v, x>>] # "pending"
      BY <1>2 DEF NoneWaits
    <2> HIDE DEF settled
    <2>2. QED
      BY <2>1 DEF NoneWaits
  <1>6. /\ R[u] = [MirrorOf(p) EXCEPT !.valid = (records[u] = None \/ records[u].valid)]
        /\ \A v \in Uuids : v # u => R[v] = records[v]
    BY <1>1, InvTables DEF Upserted, Tables
  <1>7. TrueMirror(R[u])
    <2>1. (records[u] = None \/ records[u].valid) \in BOOLEAN
      <3>1. records[u] # None => records[u].valid \in BOOLEAN
        BY <1>1, InvTables DEF Tables, Row
      <3>2. QED
        BY <3>1
    <2>2. QED
      BY <1>6, <2>1, MirrorIsTrue DEF TrueMirror
  <1>8. records[u] = None \/ records[u].native = None
    BY DEF SyncMirror, SyncMirrorGuard, Unused
  <1> HIDE DEF R, settled
  <1>9. TrueMirrors(R)
    BY <1>6, <1>7 DEF Truth, TrueMirrors
  <1>10. ASSUME NEW t \in Slots, receipts[t] # None
         PROVE  TrueReceipt(R, receipts[t])
    <2>1. receipts[t] \in Receipt
      BY <1>1, <1>10, InvTables DEF Receipts
    <2>2. receipts[t].uuid \in Uuids /\ receipts[t].finish.group # None
      BY <2>1, IdentityAssumption DEF Receipt, Finish
    <2>3. receipts[t].uuid # u
      BY <1>1, <1>8, <1>10, <2>2 DEF Inv, Answering
    <2>4. TrueReceipt(records, receipts[t])
      BY <1>10 DEF Truth, TrueReceipts
    <2>5. QED
      BY <1>6, <2>2, <2>3, <2>4, SameRowsTrue
  <1>11. QED
    BY <1>4, <1>5, <1>9, <1>10 DEF TrueReceipts

(* The operator's backfill joins a run with its own mirror.                 *)
LEMMA BackfillIsTrue ==
    ASSUME Truth, NEW s \in Slots, Backfill(s)
    PROVE  /\ TrueMirrors(records')
           /\ TrueReceipts(records', receipts')
           /\ NoneWaits(claims')
  <1> DEFINE n == receipts[s].uuid
             f == receipts[s].finish
             native == [uuid |-> n, received |-> receipts[s].received, row |-> records[n]]
  <1>1. receipts[s] # None /\ records[n] # None /\ records[n].id = None /\ Inv
    BY DEF Backfill, Live, Truth
  <1>2. receipts[s] \in Receipt /\ n \in Uuids
    BY <1>1, InvTables DEF Receipts, Receipt
  <1>3. PICK m \in upstream_match(records, Natives, native) :
          LET x == records[m].id
              moved == MovedReceipts(receipts, n, m)
              r == Requalified(moved[s], x)
          IN  /\ records' = MergedRecords(records, n, m)
              /\ receipts' = [moved EXCEPT ![s] =
                      IF x \in r.frozen THEN [r EXCEPT !.result = r.eligible] ELSE r]
              /\ claims' = [MergedClaims(claims, n, m) EXCEPT ![<<n, x>>] = "verified"]
    BY DEF Backfill
  <1> DEFINE x == records[m].id
             r == Requalified(receipts[s], x)
             q == IF x \in r.frozen THEN [r EXCEPT !.result = r.eligible] ELSE r
  <1>4. f \in Finishes /\ RowOfFinish(records[n], f)
        /\ \E d \in Delays : receipts[s].received = f.done + d
    BY <1>1, ReceiptIsTrue
  <1>5. native.row = records[n] /\ native.received = receipts[s].received
    OBVIOUS
  <1> HIDE DEF native
  <1>6. /\ m \in Uuids /\ records[m] # None /\ records[m].native = None /\ x \in Ids
        /\ same_owner(records[n], records[m])
    BY <1>1, <1>5, InvTables, UpstreamMatchFacts DEF Tables, Row
  <1>7. records[n].native # None /\ n # m
    BY <1>1, <1>6 DEF same_owner
  <1>8. PICK p \in Payloads :
            RowOfPayload(records[m], p) /\ p.id = TrueId(f) /\ p.time = TrueTime(f)
    BY <1>4, <1>5, UpstreamMatchIsTrue
  <1>9. MovedReceipts(receipts, n, m) = receipts
    BY <1>1, <1>6, InvTables, ReceiptsNameNatives, MovedReceiptsIdle DEF Inv
  <1>10. q.uuid = n /\ q.finish = f /\ q.received = receipts[s].received
    <2>1. CASE x \in receipts[s].frozen
      <3> DEFINE decision == x \in receipts[s].qualifying
      <3>1. r = [receipts[s] EXCEPT !.eligible = decision]
        BY <2>1 DEF Requalified
      <3> HIDE DEF decision
      <3>2. QED
        BY <1>2, <3>1 DEF Receipt
    <2>2. CASE x \notin receipts[s].frozen
      BY <1>2, <2>2 DEF Requalified, Receipt
    <2>3. QED
      BY <2>1, <2>2
  <1>11. receipts' = [receipts EXCEPT ![s] = q]
    BY <1>3, <1>9
  <1>12. claims' = [MergedClaims(claims, n, m) EXCEPT ![<<n, x>>] = "verified"]
         /\ records' = MergedRecords(records, n, m)
    BY <1>3
  <1>13. \A t \in Slots : t # s /\ receipts[t] # None => receipts[t].uuid # n
    BY <1>1 DEF Inv, Answering
  <1> HIDE DEF n, f, x, r, q
  <1>14. /\ TrueRow(records'[n], f)
         /\ TrueMirrors(records')
         /\ \A v \in Uuids : v # n /\ v # m => records'[v] = records[v]
    BY <1>1, <1>2, <1>4, <1>6, <1>7, <1>8, <1>12, InvTables, MergeIsTrue DEF Truth
  <1>15. ASSUME NEW t \in Slots, receipts'[t] # None
         PROVE  TrueReceipt(records', receipts'[t])
    <2>1. CASE t = s
      <3>1. receipts'[t] = q
        BY <1>1, <1>11, <2>1, InvTables DEF Receipts
      <3>2. QED
        BY <1>4, <1>10, <1>14, <3>1 DEF TrueReceipt
    <2>2. CASE t # s
      <3>1. receipts'[t] = receipts[t] /\ receipts[t] # None
        BY <1>1, <1>11, <1>15, <2>2, InvTables DEF Receipts
      <3>2. receipts[t] \in Receipt
        BY <1>1, <3>1, InvTables DEF Receipts
      <3>3. receipts[t].uuid \in Uuids /\ receipts[t].finish.group # None
        BY <3>2, IdentityAssumption DEF Receipt, Finish
      <3>4. receipts[t].uuid # n /\ receipts[t].uuid # m
        BY <1>1, <1>6, <1>13, <2>2, <3>1, <3>3 DEF Inv, Answering
      <3>5. TrueReceipt(records, receipts[t])
        BY <3>1 DEF Truth, TrueReceipts
      <3>6. QED
        BY <1>14, <3>1, <3>3, <3>4, <3>5, SameRowsTrue
    <2>3. QED
      BY <2>1, <2>2
  <1>16. NoneWaits(claims')
    BY <1>1, <1>2, <1>6, <1>12, InvTables, MergedClaimsWait DEF Truth
  <1>17. QED
    BY <1>14, <1>15, <1>16 DEF TrueReceipts

-----------------------------------------------------------------------------
(* The guesses are steps of the system, and keep the truth.                 *)
LEMMA GuessIsNext ==
    ASSUME Inv, Guess
    PROVE  Next
  <1>1. ASSUME NEW f \in Finishes, NEW d \in Delays, NEW u \in {u1, u2},
               Accept(f, d, u, TRUE, IdsOf(Lookalikes(Submission(f, f.done + d).row)))
        PROVE  Upload
    <2>1. IdsOf(Lookalikes(Submission(f, f.done + d).row)) \in SUBSET Ids
      BY IdsOfFacts
    <2>2. u \in Uuids
      BY TruthAssumption
    <2>3. QED
      BY <1>1, <2>1, <2>2 DEF Upload
  <1>2. ASSUME NEW p \in Payloads, NEW u \in {u3, u4}, SyncMirror(p, u)
        PROVE  Sync
    BY <1>2, TruthAssumption DEF Sync
  <1>3. QED
    BY <1>1, <1>2 DEF Guess, Next, Sync, Operate

(* Each guess leaves every row and every receipt true.                      *)
LEMMA GuessIsTrue == Truth /\ [Guess]_vars => Truth'
  <1> SUFFICES ASSUME Truth, [Guess]_vars
               PROVE  Truth'
    OBVIOUS
  <1>1. CASE UNCHANGED vars
    <2>1. Inv'
      BY <1>1, NextInv DEF Truth
    <2>2. QED
      BY <1>1, <2>1 DEF vars, Truth, TrueMirrors, TrueReceipts, NoneWaits
  <1>2. CASE Guess
    <2>1. Inv'
      BY <1>2, GuessIsNext, NextInv DEF Truth
    <2>2. /\ TrueMirrors(records')
          /\ TrueReceipts(records', receipts')
          /\ NoneWaits(claims')
      <3>1. CASE \E f \in Finishes, d \in Delays, u \in {u1, u2} :
                    Accept(f, d, u, TRUE, IdsOf(Lookalikes(Submission(f, f.done + d).row)))
        <4>1. PICK f \in Finishes, d \in Delays, u \in {u1, u2} :
                    Accept(f, d, u, TRUE, IdsOf(Lookalikes(Submission(f, f.done + d).row)))
          BY <3>1
        <4>2. IdsOf(Lookalikes(Submission(f, f.done + d).row)) \in SUBSET Ids
          BY IdsOfFacts DEF Truth
        <4>3. u \in Uuids
          BY TruthAssumption
        <4>4. QED
          BY <4>1, <4>2, <4>3, AcceptIsTrue
      <3>2. CASE \E p \in Payloads : SyncLink(p)
        BY <3>2, SyncLinkIsTrue
      <3>3. CASE \E p \in Payloads, u \in {u3, u4} : SyncMirror(p, u)
        BY <3>3, SyncMirrorIsTrue, TruthAssumption
      <3>4. CASE \E s \in Slots : Backfill(s)
        BY <3>4, BackfillIsTrue
      <3>5. QED
        BY <1>2, <3>1, <3>2, <3>3, <3>4 DEF Guess
    <2>3. QED
      BY <2>1, <2>2 DEF Truth, TrueMirrors, TrueReceipts, NoneWaits
  <1>3. QED
    BY <1>1, <1>2

(* No native run is ever linked to the upstream run of another finish, for  *)
(* any lengths, windows and limits and any clocks and delays that the       *)
(* server can tell apart (record_matching.py 39-146).                       *)
THEOREM NoFalseMatchHolds == GuessSpec => []NoFalseMatch
  <1>1. Init => Truth
    <2> SUFFICES ASSUME Init
                 PROVE  Truth
      OBVIOUS
    <2>1. TrueMirrors(records) /\ TrueReceipts(records, receipts) /\ NoneWaits(claims)
      BY DEF Init, TrueMirrors, TrueReceipts, NoneWaits
    <2>2. QED
      BY <2>1, InitInv DEF Truth
  <1>2. Truth => NoFalseMatch
    BY DEF Truth, TrueReceipts, TrueReceipt, TrueRow, NoFalseMatch
  <1>3. QED
    BY <1>1, <1>2, GuessIsTrue, PTL DEF GuessSpec
=============================================================================
