--------------------------- MODULE RowIdGuard_proofs ---------------------------
(***************************************************************************)
(* IInv is an inductive invariant of RowIdGuard; what follows from it.     *)
(* The types come first: what the operators return, and that every step    *)
(* keeps TypeOK.                                                           *)
(***************************************************************************)
EXTENDS RowIdGuardInductive, FiniteSetTheorems, TLAPS

\* A nonempty set of naturals has a least element.
LEMMA Lowest ==
    ASSUME NEW S \in SUBSET Nat, S # {}
    PROVE  \E m \in S : \A r \in S : m <= r
<1> DEFINE R == {ss \in Nat \X Nat : ss[1] < ss[2]}
<1>1. IsWellFoundedOn(R, Nat)
  BY NatLessThanWellFounded, Zenon DEF OpToRel
<1>2. \A x, y \in Nat : y < x => <<y, x>> \in R
  OBVIOUS
<1>3. PICK x \in S : \A y \in S : ~(<<y, x>> \in R)
  <2> HIDE DEF R
  <2> QED BY <1>1, WFMin
<1>4. \A y \in S : ~(y < x)
  BY <1>2, <1>3
<1> QED BY <1>4

\* A nonempty bounded set of marks has a greatest element.
LEMMA Highest ==
    ASSUME NEW N \in Nat, NEW S \in SUBSET (-1 .. N), S # {}
    PROVE  \E m \in S : \A r \in S : r <= m
<1> DEFINE Below == {N - m : m \in S}
<1>1. Below \subseteq Nat /\ Below # {}
  <2>1. PICK s \in S : TRUE
    OBVIOUS
  <2>2. N - s \in Below
    OBVIOUS
  <2>3. ASSUME NEW m \in S PROVE N - m \in Nat
    <3>1. m \in -1 .. N
      OBVIOUS
    <3> QED BY <3>1
  <2> QED BY <2>2, <2>3
<1>2. PICK x \in Below : \A y \in Below : x <= y
  <2> HIDE DEF Below
  <2> QED BY <1>1, Lowest
<1>3. PICK m \in S : x = N - m
  OBVIOUS
<1>4. ASSUME NEW r \in S PROVE r <= m
  <2>1. N - r \in Below
    OBVIOUS
  <2>2. N - m <= N - r
    BY <1>2, <1>3, <2>1
  <2>3. r \in Int /\ m \in Int
    OBVIOUS
  <2> QED BY <2>2, <2>3
<1> QED BY <1>4
-----------------------------------------------------------------------------

\* HighestVisible is the greatest visible rowid, or the floor if that is greater.
LEMMA HighestVisibleIs ==
    ASSUME TypeOK, NEW q \in Txns, NEW floor \in Mark
    PROVE  /\ HighestVisible(q, floor) \in txn[q].visible \union {floor}
           /\ HighestVisible(q, floor) \in Mark
           /\ \A r \in txn[q].visible \union {floor} : r <= HighestVisible(q, floor)
<1> DEFINE S == txn[q].visible \union {floor}
<1>1. S \in SUBSET (-1 .. MaxRowid) /\ S # {}
  BY DEF TypeOK, Txn, Rowid, Mark
<1>2. \E m \in S : \A r \in S : r <= m
  <2> HIDE DEF S
  <2> QED BY <1>1, Highest, GuardConstants
<1>3. HighestVisible(q, floor) \in S /\ \A r \in S : r <= HighestVisible(q, floor)
  BY <1>2 DEF HighestVisible
<1> QED BY <1>1, <1>3 DEF Mark

\* Observing an append returns a guard.
LEMMA ObserveType ==
    ASSUME TypeOK, NEW g \in Guard, NEW first \in Int, NEW last \in Mark
    PROVE  Observe(g, first, last) \in Guard /\ ObserveIfBound(g, first, last) \in Guard
<1>1. Observe(g, first, last) \in Guard
  <2>1. ObservableCheckpointIteration \in OptIteration
    BY DEF ObservableCheckpointIteration, TypeOK, OptIteration
  <2>2. Larger(g.max_seen, last) \in Mark
    BY DEF Larger, Guard
  <2>3. \A u \in BOOLEAN, m \in Mark, a \in OptIteration :
          [g EXCEPT !.unsafe_reuse = u, !.max_seen = m, !.advance_iteration = a] \in Guard
    BY DEF Guard
  <2>4. g.unsafe_reuse \in BOOLEAN /\ g.advance_iteration \in OptIteration
    BY DEF Guard
  <2>5. (IF last > g.max_seen THEN ObservableCheckpointIteration ELSE g.advance_iteration)
          \in OptIteration
    BY <2>1, <2>4
  <2> DEFINE u == g.unsafe_reuse \/ (/\ first <= g.max_seen
                                     /\ \/ g.advance_iteration = Invalid
                                        \/ ObservableCheckpointIteration = Invalid
                                        \/ ObservableCheckpointIteration # g.advance_iteration)
             m == Larger(g.max_seen, last)
             a == IF last > g.max_seen THEN ObservableCheckpointIteration ELSE g.advance_iteration
  <2>6. u \in BOOLEAN
    BY <2>4
  <2>7. Observe(g, first, last)
          = [g EXCEPT !.unsafe_reuse = u, !.max_seen = m, !.advance_iteration = a]
    BY DEF Observe
  <2>8. m \in Mark
    BY <2>2
  <2>9. a \in OptIteration
    BY <2>5
  <2> HIDE DEF u, m, a
  <2>10. [g EXCEPT !.unsafe_reuse = u, !.max_seen = m, !.advance_iteration = a] \in Guard
    BY <2>3, <2>6, <2>8, <2>9, Zenon
  <2> QED BY <2>7, <2>10, Zenon
<1> QED BY <1>1 DEF ObserveIfBound

\* Applying a checkpoint seal returns a guard.
LEMMA SealType ==
    ASSUME TypeOK, NEW g \in Guard, NEW row
    PROVE  /\ ApplyCheckpointSeal(g) \in Guard
           /\ AfterVerdict(g, row) \in Guard
           /\ Sealed(g) \in Guard
<1> DEFINE u == g.unsafe_reuse \/ g.checkpoint_iteration \notin {Invalid, iteration}
<1>1. ApplyCheckpointSeal(g) = [g EXCEPT !.unsafe_reuse = u, !.checkpoint_iteration = Invalid]
  BY DEF ApplyCheckpointSeal
<1>2. g.unsafe_reuse \in BOOLEAN
  BY Zenon DEF Guard
<1>3. u \in BOOLEAN
  BY <1>2
<1>4. Invalid \in OptSeal
  BY DEF OptSeal, OptIteration
<1> HIDE DEF u
<1>5. [g EXCEPT !.unsafe_reuse = u, !.checkpoint_iteration = Invalid] \in Guard
  BY <1>3, <1>4, Zenon DEF Guard
<1>6. ApplyCheckpointSeal(g) \in Guard
  BY <1>1, <1>5, Zenon
<1> QED BY <1>6, Zenon DEF AfterVerdict, Sealed

\* Reading stored state returns a guard.
LEMMA StoredType ==
    ASSUME NEW g \in Guard
    PROVE  ReadStoredGuardState(g) \in Guard
BY DEF ReadStoredGuardState, Guard, OptSeal, OptIteration, Invalid

\* The empty values of each shape.
LEMMA EmptyTypes ==
    /\ NoTxn \in Txn /\ NoGuard \in Guard /\ NoImage \in Image
    /\ NoRow \in RegistryRow /\ NoCheckpoint \in Checkpoint
BY GuardConstants DEF NoTxn, Txn, NoGuard, Guard, NoImage, Image, NoRow, RegistryRow, NoCheckpoint,
   Checkpoint, Mark, Token, NoToken, OptSeal, OptIteration, Iteration, Invalid

\* An image of a guard, with any seal.
LEMMA ImageType ==
    ASSUME TypeOK, NEW g \in Guard, NEW seal \in OptSeal
    PROVE  ImageOf(g, seal) \in Image
BY DEF ImageOf, Image, Guard

\* Serializing a guard to disk or to the WAL returns an image.
LEMMA SerializeType ==
    ASSUME TypeOK, NEW g \in Guard
    PROVE  /\ SerializeToWAL(g) \in Image
           /\ iteration < MaxIteration => SerializeToDisk(g) \in Image
<1>1. ApplyCheckpointSeal(g) \in Guard /\ [g EXCEPT !.unsafe_reuse = TRUE, !.protection = FALSE] \in Guard
  BY SealType DEF Guard
<1>2. /\ iteration \in OptSeal /\ 0 \in OptSeal /\ g.checkpoint_iteration \in OptSeal
      /\ iteration < MaxIteration => iteration + 1 \in OptSeal
  BY GuardConstants DEF TypeOK, OptSeal, OptIteration, Iteration, Guard
<1> QED BY <1>1, <1>2, ImageType DEF SerializeToWAL, SerializeToDisk

\* What a restart installs is a guard.
LEMMA UnboundType ==
    ASSUME TypeOK, NEW image \in Image, NEW from \in 0 .. (MaxRowid + 1), NEW end \in 0 .. (MaxRowid + 1)
    PROVE  UnboundGuard(image, from, end) \in Guard
BY EmptyTypes, GuardConstants DEF UnboundGuard, Guard, Image, Rowid, OptIteration, Invalid

\* A transaction that ends leaves transactions.
LEMMA TxnReset ==
    ASSUME NEW t \in [Txns -> Txn], NEW q \in Txns
    PROVE  [t EXCEPT ![q] = NoTxn] \in [Txns -> Txn]
BY EmptyTypes

\* A transaction that starts work on an index stays a transaction.
LEMMA TxnPlan ==
    ASSUME NEW t \in [Txns -> Txn], NEW q \in Txns, NEW i \in Indexes,
           NEW p \in {"none", "index", "scan", "maintain", "create"}
    PROVE  [t EXCEPT ![q] = [@ EXCEPT !.plan = p, !.target = i]] \in [Txns -> Txn]
<1>1. ASSUME NEW u \in Txn PROVE [u EXCEPT !.plan = p, !.target = i] \in Txn
  BY Zenon DEF Txn
<1> QED BY <1>1

\* A transaction that starts a create stays a transaction.
LEMMA TxnCreate ==
    ASSUME NEW t \in [Txns -> Txn], NEW q \in Txns, NEW i \in Indexes, NEW tok \in Token
    PROVE  [t EXCEPT ![q] = [@ EXCEPT !.plan = "create", !.target = i, !.token = tok]] \in [Txns -> Txn]
<1>1. ASSUME NEW u \in Txn PROVE [u EXCEPT !.plan = "create", !.target = i, !.token = tok] \in Txn
  BY Zenon DEF Txn
<1> QED BY <1>1

\* Ending the freshness of the other snapshots keeps their type.
LEMMA CommittedType ==
    ASSUME NEW t \in [Txns -> Txn]
    PROVE  Committed(t) \in [Txns -> Txn]
<1>1. ASSUME NEW u \in Txn PROVE [u EXCEPT !.fresh = FALSE] \in Txn
  BY Zenon DEF Txn
<1> QED BY <1>1 DEF Committed

\* Recording a committed registry row keeps the type of the snapshots.
LEMMA RegistryCommittedType ==
    ASSUME NEW t \in [Txns -> Txn], NEW i \in Indexes
    PROVE  RegistryCommitted(t, i) \in [Txns -> Txn]
<1>1. ASSUME NEW u \in Txn PROVE [u EXCEPT !.fresh = FALSE, !.lost = @ \union {i}] \in Txn
  BY Zenon DEF Txn
<1> QED BY <1>1 DEF RegistryCommitted

\* The type invariant over a transaction's steps.
LEMMA TypeTxnStep ==
    ASSUME TypeOK, HostInv, NEW q \in Txns, TxnNext(q)
    PROVE  TypeOK'
<1> USE DEF hostVars
<1>1. CASE Begin(q)
  BY <1>1, EmptyTypes DEF TypeOK, Begin, Txn, NoTxn
<1>2. CASE End(q)
  BY <1>2, TxnReset DEF TypeOK, End
<1>3. ASSUME NEW i \in Indexes, Search(q, i) PROVE TypeOK'
  <2> DEFINE row == txn[q].registry[i]
             p == IF Usable(row) THEN "index" ELSE "scan"
  <2>1. /\ txn' = [txn EXCEPT ![q] = [@ EXCEPT !.plan = p, !.target = i]]
        /\ guard' = AfterVerdict(guard, row) /\ leftover' = AfterVerdict(leftover, row)
    BY <1>3 DEF Search
  <2>2. txn' \in [Txns -> Txn]
    <3>1. p \in {"index", "scan"}
      OBVIOUS
    <3> HIDE DEF p
    <3> QED BY <2>1, <3>1, TxnPlan DEF TypeOK
  <2>3. guard' \in Guard /\ leftover' \in Guard
    <3> HIDE DEF row
    <3> QED BY <2>1, SealType DEF TypeOK
  <2> QED BY <1>3, <2>2, <2>3 DEF TypeOK, Search
<1>4. ASSUME NEW i \in Indexes, MaintenanceCheck(q, i) PROVE TypeOK'
  <2> DEFINE row == txn[q].registry[i]
  <2>1. /\ txn' = [txn EXCEPT ![q] = [@ EXCEPT !.plan = "maintain", !.target = i]]
        /\ guard' = AfterVerdict(guard, row) /\ leftover' = AfterVerdict(leftover, row)
    BY <1>4 DEF MaintenanceCheck
  <2>2. txn' \in [Txns -> Txn]
    BY <2>1, TxnPlan DEF TypeOK
  <2>3. guard' \in Guard /\ leftover' \in Guard
    <3> HIDE DEF row
    <3> QED BY <2>1, SealType DEF TypeOK
  <2> QED BY <1>4, <2>2, <2>3 DEF TypeOK, MaintenanceCheck
<1>5. ASSUME NEW i \in Indexes, DropIndex(q, i) PROVE TypeOK'
  <2>1. txn' \in [Txns -> Txn]
    BY <1>5, TxnReset, RegistryCommittedType DEF TypeOK, DropIndex
  <2>2. registry' \in [Indexes -> RegistryRow]
    BY <1>5, EmptyTypes DEF TypeOK, DropIndex
  <2>3. guard' \in Guard /\ persisted' \in Image /\ checkpoint' \in Checkpoint
    BY <1>5, EmptyTypes DEF TypeOK, DropIndex, WithoutImage, Checkpoint
  <2> QED BY <1>5, <2>1, <2>2, <2>3 DEF TypeOK, DropIndex
<1>6. ASSUME NEW i \in Indexes, CreateFirst(q, i) PROVE TypeOK'
  <2>1. issued' \in Token
    BY <1>6, GuardConstants DEF TypeOK, CreateFirst, Token
  <2>2. txn' \in [Txns -> Txn]
    BY <1>6, <2>1, TxnCreate DEF TypeOK, CreateFirst
  <2>3. guard' \in Guard
    BY <1>6, <2>1, GuardConstants DEF TypeOK, CreateFirst, Guard, GuardBaseline, ObservableCheckpointIteration,
       Mark, Rowid, OptIteration, OptSeal, Iteration, Invalid
  <2>4. writer' \in [Writers -> {"idle", "planned", "wrote"}]
    BY <1>6 DEF TypeOK, CreateFirst, AbortAltered
  <2> QED BY <1>6, <2>1, <2>2, <2>3, <2>4 DEF TypeOK, CreateFirst
<1>7. ASSUME NEW i \in Indexes, CreateShared(q, i) PROVE TypeOK'
  <2>1. PICK t \in Token :
          /\ txn' = [txn EXCEPT ![q] = [@ EXCEPT !.plan = "create", !.target = i, !.token = t]]
          /\ guard' = AfterVerdict(guard, [NoRow EXCEPT !.token = t])
          /\ leftover' = AfterVerdict(leftover, [NoRow EXCEPT !.token = t])
    BY <1>7 DEF CreateShared
  <2>2. txn' \in [Txns -> Txn]
    BY <2>1, TxnCreate DEF TypeOK
  <2>3. guard' \in Guard /\ leftover' \in Guard
    BY <2>1, SealType DEF TypeOK
  <2> QED BY <1>7, <2>2, <2>3 DEF TypeOK, CreateShared
<1>8. CASE CreateCommit(q)
  <2> DEFINE i == txn[q].target
             row == [token |-> txn[q].token, hwm |-> HighestVisible(q, -1),
                     posted |-> txn[q].visible \ txn[q].changed]
  <2>1. i \in Indexes /\ txn[q].token \in Token /\ txn[q].visible \in SUBSET Rowid
    BY DEF TypeOK, Txn
  <2>2. row \in RegistryRow
    BY <2>1, HighestVisibleIs, GuardConstants DEF RegistryRow, Mark
  <2>3. registry' \in [Indexes -> RegistryRow]
    <3> HIDE DEF row
    <3>1. registry' = [registry EXCEPT ![i] = row]
      BY <1>8 DEF CreateCommit, row
    <3> QED BY <2>1, <2>2, <3>1 DEF TypeOK
  <2>4. txn' \in [Txns -> Txn]
    BY <1>8, <2>1, TxnReset, RegistryCommittedType DEF TypeOK, CreateCommit
  <2>5. persisted' \in Image /\ walFrom' \in 0 .. (MaxRowid + 1)
    BY <1>8, SerializeType DEF TypeOK, CreateCommit
  <2>6. leftover' \in Guard /\ checkpoint' \in Checkpoint
    BY <1>8, EmptyTypes DEF TypeOK, CreateCommit, LeftoverAfterCreate, WithoutImage, Checkpoint
  <2> QED BY <1>8, <2>3, <2>4, <2>5, <2>6 DEF TypeOK, CreateCommit
<1>9. CASE CreateAbort(q)
  BY <1>9, EmptyTypes DEF TypeOK, CreateAbort
<1>10. ASSUME NEW m \in Mark, RefreshCommit(q, m) PROVE TypeOK'
  <2>1. txn[q].target \in Indexes
    BY DEF TypeOK, Txn
  <2>2. txn' \in [Txns -> Txn]
    BY <1>10, <2>1, TxnReset, RegistryCommittedType DEF TypeOK, RefreshCommit
  <2>3. registry' \in [Indexes -> RegistryRow]
    <3> DEFINE i == txn[q].target
               more == {r \in txn[q].visible \ txn[q].changed : txn[q].registry[i].hwm < r /\ r <= m}
    <3>1. more \in SUBSET Rowid
      BY DEF TypeOK, Txn
    <3>2. registry' = [registry EXCEPT ![i] = [token |-> registry[i].token, hwm |-> m,
                                                    posted |-> registry[i].posted \union more]]
      BY <1>10 DEF RefreshCommit
    <3> HIDE DEF more
    <3>3. [token |-> registry[i].token, hwm |-> m, posted |-> registry[i].posted \union more] \in RegistryRow
      BY <2>1, <3>1 DEF TypeOK, RegistryRow
    <3> QED BY <2>1, <3>2, <3>3 DEF TypeOK
  <2> QED BY <1>10, <2>2, <2>3 DEF TypeOK, RefreshCommit
<1> QED BY <1>1, <1>2, <1>3, <1>4, <1>5, <1>6, <1>7, <1>8, <1>9, <1>10 DEF TxnNext

\* Rows that become visible keep the type of rows, rowids and registry.
LEMMA PublishType ==
    ASSUME TypeOK, Publish, pending # Invalid
    PROVE  /\ live' \in SUBSET Rowid /\ next' \in 0 .. (MaxRowid + 1)
           /\ registry' \in [Indexes -> RegistryRow]
<1>1. pending \in Rowid /\ next \in Nat
  BY DEF TypeOK
<1>2. live' \in SUBSET Rowid /\ next' \in 0 .. (MaxRowid + 1)
  BY <1>1, GuardConstants DEF TypeOK, Publish, Rowid
<1>3. registry' \in [Indexes -> RegistryRow]
  BY DEF TypeOK, Publish, RegistryRow
<1> QED BY <1>2, <1>3

\* The type invariant over the host's steps.
LEMMA TypeHostStep ==
    ASSUME TypeOK, HostInv, HostNext
    PROVE  TypeOK'
<1> USE DEF hostVars
<1>1. ASSUME NEW n \in 1 .. MaxAppend, AppendFlush(n) PROVE TypeOK'
  BY <1>1, ObserveType, GuardConstants DEF TypeOK, AppendFlush, Mark, Rowid
<1>2. CASE AppendCommit
  <2>1. txn' \in [Txns -> Txn]
    BY <1>2, CommittedType DEF TypeOK, AppendCommit
  <2> QED BY <1>2, <2>1, PublishType DEF TypeOK, AppendCommit
<1>3. CASE AppendReject
  BY <1>3 DEF TypeOK, AppendReject
<1>4. ASSUME NEW r \in Rowid, Delete(r) PROVE TypeOK'
  <2>1. txn' \in [Txns -> Txn]
    BY <1>4, CommittedType DEF TypeOK, Delete
  <2> QED BY <1>4, <2>1 DEF TypeOK, Delete
<1>5. ASSUME NEW w \in Writers, PlanInPlace(w) PROVE TypeOK'
  BY <1>5 DEF TypeOK, PlanInPlace
<1>6. ASSUME NEW w \in Writers, WriteInPlace(w) PROVE TypeOK'
  BY <1>6 DEF TypeOK, WriteInPlace
<1>7. ASSUME NEW w \in Writers, CommitInPlace(w) PROVE TypeOK'
  <2>1. PICK r \in live :
          /\ registry' = [i \in Indexes |-> [registry[i] EXCEPT !.posted = @ \ {r}]]
          /\ txn' = [q \in Txns |-> IF txn[q].on
                        THEN [txn[q] EXCEPT !.fresh = FALSE, !.changed = @ \union {r}]
                        ELSE txn[q]]
    BY <1>7 DEF CommitInPlace
  <2>2. registry' \in [Indexes -> RegistryRow]
    BY <2>1 DEF TypeOK, RegistryRow
  <2>3. txn' \in [Txns -> Txn]
    <3>1. ASSUME NEW q \in Txns PROVE [txn[q] EXCEPT !.fresh = FALSE, !.changed = @ \union {r}] \in Txn
      <4>1. txn[q] \in Txn /\ r \in Rowid
        BY DEF TypeOK
      <4> QED BY <4>1 DEF Txn
    <3> QED BY <2>1, <3>1 DEF TypeOK
  <2> QED BY <1>7, <2>2, <2>3 DEF TypeOK, CommitInPlace
<1>8. CASE DropGuard
  <2>1. txn' \in [Txns -> Txn]
    BY <1>8, CommittedType DEF TypeOK, DropGuard
  <2> QED BY <1>8, <2>1, EmptyTypes DEF TypeOK, DropGuard, WithoutImage, Checkpoint
<1>9. CASE RecreateTable
  <2>1. registry' \in [Indexes -> RegistryRow]
    BY <1>9 DEF TypeOK, RecreateTable, RegistryRow
  <2> QED BY <1>9, <2>1, EmptyTypes, GuardConstants DEF TypeOK, RecreateTable
<1>10. CASE BindStart
  BY <1>10 DEF TypeOK, BindStart, Guard
<1>11. CASE BindFinish
  <2> DEFINE stored == [ReadStoredGuardState(guard) EXCEPT !.state = "bound", !.replay = Invalid]
  <2>1. stored \in Guard
    BY StoredType DEF TypeOK, Guard
  <2>2. guard.replay \in Int /\ next - 1 \in Mark
    BY GuardConstants DEF TypeOK, Guard, Mark, Rowid, Invalid
  <2>3. guard' \in Guard
    <3> HIDE DEF stored
    <3>1. guard' = IF guard.replay = Invalid THEN stored ELSE Observe(stored, guard.replay, next - 1)
      BY <1>11 DEF BindFinish, BoundFromStorage, stored
    <3> QED BY <2>1, <2>2, <3>1, ObserveType
  <2> QED BY <1>11, <2>3 DEF TypeOK, BindFinish
<1>12. ASSUME NEW kind \in {"full", "concurrent"}, CheckpointStart(kind) PROVE TypeOK'
  BY <1>12, EmptyTypes DEF TypeOK, CheckpointStart, Checkpoint, NoCheckpoint
<1>13. CASE CheckpointWrite
  <2>1. iteration < MaxIteration
    BY <1>13 DEF CheckpointWrite, HostInv, Checkpointing
  <2>2. SerializeToDisk(guard) \in Image /\ SerializeToDisk(leftover) \in Image
    BY <2>1, SerializeType DEF TypeOK
  <2>3. checkpoint' \in Checkpoint
    BY <1>13, <2>2, EmptyTypes DEF TypeOK, CheckpointWrite, Checkpoint
  <2> QED BY <1>13, <2>3, SealType DEF TypeOK, CheckpointWrite
<1>14. CASE CheckpointFinish
  <2>1. iteration < MaxIteration
    BY <1>14 DEF CheckpointFinish, HostInv, Checkpointing
  <2>2. iteration' \in Iteration
    BY <1>14, <2>1, GuardConstants DEF TypeOK, CheckpointFinish, Iteration
  <2>3. dead' \in SUBSET Rowid /\ next' \in 0 .. (MaxRowid + 1)
    BY <1>14, GuardConstants DEF TypeOK, CheckpointFinish, Reclaimable
  <2>4. persisted' \in Image /\ walFrom' \in 0 .. (MaxRowid + 1)
    BY <1>14, <2>3 DEF TypeOK, CheckpointFinish, Checkpoint
  <2> QED BY <1>14, <2>2, <2>3, <2>4, EmptyTypes DEF TypeOK, CheckpointFinish
<1>15. ASSUME NEW session \in {"none", "pinned", "other"}, Restart(session) PROVE TypeOK'
  <2>1. /\ live' \in SUBSET Rowid /\ next' \in 0 .. (MaxRowid + 1)
        /\ registry' \in [Indexes -> RegistryRow]
    BY <1>15, PublishType DEF TypeOK, Restart
  <2>2. guard' \in Guard
    BY <1>15, <2>1, UnboundType DEF TypeOK, Restart
  <2>3. txn' \in [Txns -> Txn]
    BY <1>15, EmptyTypes DEF Restart
  <2> QED BY <1>15, <2>1, <2>2, <2>3, EmptyTypes DEF TypeOK, Restart
<1> QED BY <1>1, <1>2, <1>3, <1>4, <1>5, <1>6, <1>7, <1>8, <1>9, <1>10, <1>11, <1>12, <1>13, <1>14, <1>15
      DEF HostNext

\* Every step of the guard, a transaction or the host keeps the type invariant.
LEMMA TypeStep ==
    ASSUME TypeOK, HostInv, [Next]_vars
    PROVE  TypeOK'
<1>1. CASE UNCHANGED vars
  BY <1>1 DEF vars, TypeOK
<1> QED BY <1>1, TypeTxnStep, TypeHostStep DEF Next

-----------------------------------------------------------------------------
(* The host's part *)

\* Rows, rowids and the checkpoint over a transaction's steps.
LEMMA HostTxnStep ==
    ASSUME TypeOK, HostInv, NEW q \in Txns, TxnNext(q)
    PROVE  HostInv'
<1> USE DEF HostInv, hostVars, Checkpointing
<1>1. CASE Begin(q) \/ End(q) \/ CreateAbort(q)
  BY <1>1 DEF Begin, End, CreateAbort
<1>2. ASSUME NEW i \in Indexes, Search(q, i) \/ MaintenanceCheck(q, i) \/ CreateFirst(q, i) \/ CreateShared(q, i)
      PROVE  HostInv'
  BY <1>2 DEF Search, MaintenanceCheck, CreateFirst, CreateShared
<1>3. ASSUME NEW i \in Indexes, DropIndex(q, i) PROVE HostInv'
  BY <1>3 DEF DropIndex, WithoutImage, TypeOK, Checkpoint
<1>4. CASE CreateCommit(q)
  BY <1>4 DEF CreateCommit, WithoutImage, TypeOK, Checkpoint
<1>5. ASSUME NEW m \in Mark, RefreshCommit(q, m) PROVE HostInv'
  BY <1>5 DEF RefreshCommit
<1> QED BY <1>1, <1>2, <1>3, <1>4, <1>5 DEF TxnNext

\* Rows, rowids and the checkpoint over the host's steps.
LEMMA HostHostStep ==
    ASSUME TypeOK, TypeOK', HostInv, HostNext
    PROVE  HostInv'
<1> USE DEF hostVars, Invalid
<1>1. ASSUME NEW n \in 1 .. MaxAppend, AppendFlush(n) PROVE HostInv'
  BY <1>1 DEF AppendFlush, HostInv, Checkpointing, TypeOK, Checkpoint
<1>2. CASE AppendCommit
  BY <1>2 DEF AppendCommit, Publish, HostInv, Checkpointing, TypeOK, Checkpoint, Rowid
<1>3. CASE AppendReject
  BY <1>3 DEF AppendReject, HostInv, Checkpointing
<1>4. ASSUME NEW r \in Rowid, Delete(r) PROVE HostInv'
  BY <1>4 DEF Delete, HostInv, Checkpointing
<1>5. ASSUME NEW w \in Writers, PlanInPlace(w) \/ WriteInPlace(w) \/ CommitInPlace(w) PROVE HostInv'
  BY <1>5 DEF PlanInPlace, WriteInPlace, CommitInPlace, HostInv, Checkpointing
<1>6. CASE DropGuard
  BY <1>6 DEF DropGuard, WithoutImage, HostInv, Checkpointing, TypeOK, Checkpoint
<1>7. CASE RecreateTable
  BY <1>7 DEF RecreateTable, HostInv, Checkpointing, TypeOK, Checkpoint
<1>8. CASE BindStart \/ BindFinish
  BY <1>8 DEF BindStart, BindFinish, HostInv, Checkpointing
<1>9. ASSUME NEW kind \in {"full", "concurrent"}, CheckpointStart(kind) PROVE HostInv'
  BY <1>9 DEF CheckpointStart, NoCheckpoint, HostInv, Checkpointing, TypeOK
<1>10. CASE CheckpointWrite
  BY <1>10 DEF CheckpointWrite, HostInv, Checkpointing, TypeOK, Checkpoint
<1>11. CASE CheckpointFinish
  BY <1>11 DEF CheckpointFinish, NoCheckpoint, HostInv, Checkpointing, TypeOK, Checkpoint, Rowid
<1>12. ASSUME NEW session \in {"none", "pinned", "other"}, Restart(session) PROVE HostInv'
  BY <1>12 DEF Restart, Publish, NoCheckpoint, HostInv, Checkpointing, TypeOK, Checkpoint, Rowid
<1> QED BY <1>1, <1>2, <1>3, <1>4, <1>5, <1>6, <1>7, <1>8, <1>9, <1>10, <1>11, <1>12 DEF HostNext

\* Every step keeps what holds of rows, rowids and the checkpoint.
LEMMA HostStep ==
    ASSUME TypeOK, TypeOK', HostInv, [Next]_vars
    PROVE  HostInv'
<1>1. CASE UNCHANGED vars
  BY <1>1 DEF vars, HostInv, Checkpointing
<1> QED BY <1>1, HostTxnStep, HostHostStep DEF Next

-----------------------------------------------------------------------------
(* The guards and their names *)

\* Reading a guard's state, or serializing it, changes nothing but the seal.
LEMMA SealKeeps ==
    ASSUME TypeOK, NEW g \in Guard, NEW row, NEW h \in {AfterVerdict(g, row), Sealed(g)}
    PROVE  /\ h \in Guard
           /\ h.state = g.state /\ h.token = g.token /\ h.max_seen = g.max_seen
           /\ h.protection = g.protection /\ h.advance_iteration = g.advance_iteration
           /\ h.replay = g.replay
           /\ h.checkpoint_iteration \in {g.checkpoint_iteration, Invalid}
           /\ g.state # "bound" => h = g
           /\ Clean(h) <=> Clean(g)
           /\ g.checkpoint_iteration = Invalid => h.unsafe_reuse = g.unsafe_reuse
<1>1. h = g \/ (g.state = "bound" /\ h = ApplyCheckpointSeal(g))
  BY DEF AfterVerdict, Sealed
<1>2. iteration # Invalid
  BY DEF TypeOK, Iteration, Invalid
<1>3. CASE h = g
  BY <1>3
<1>4. CASE g.state = "bound" /\ h = ApplyCheckpointSeal(g)
  <2>1. h \in Guard
    BY <1>4, SealType
  <2>2. /\ h.state = g.state /\ h.token = g.token /\ h.max_seen = g.max_seen
        /\ h.protection = g.protection /\ h.advance_iteration = g.advance_iteration
        /\ h.replay = g.replay /\ h.checkpoint_iteration = Invalid
        /\ h.unsafe_reuse = (g.unsafe_reuse \/ g.checkpoint_iteration \notin {Invalid, iteration})
    BY <1>4 DEF ApplyCheckpointSeal, Guard
  <2> QED BY <1>2, <1>4, <2>1, <2>2 DEF Clean, Present, Guard
<1> QED BY <1>1, <1>3, <1>4

\* Observing an append only advances max_seen, latches, and records the iteration.
LEMMA ObserveKeeps ==
    ASSUME TypeOK, NEW g \in Guard, NEW first \in Int, NEW last \in Mark, NEW h, h = Observe(g, first, last)
    PROVE  /\ h \in Guard
           /\ h.state = g.state /\ h.token = g.token /\ h.protection = g.protection /\ h.replay = g.replay
           /\ h.checkpoint_iteration = g.checkpoint_iteration
           /\ h.max_seen = Larger(g.max_seen, last)
           /\ h.advance_iteration = IF last > g.max_seen THEN ObservableCheckpointIteration
                                    ELSE g.advance_iteration
           /\ h.unsafe_reuse <=> \/ g.unsafe_reuse
                                 \/ /\ first <= g.max_seen
                                    /\ \/ g.advance_iteration = Invalid
                                       \/ ObservableCheckpointIteration # g.advance_iteration
BY ObserveType DEF Observe, Guard

\* The iteration that Observe sees is at most the current one.
LEMMA Observable ==
    ASSUME TypeOK
    PROVE  /\ ObservableCheckpointIteration \in {Invalid, iteration}
           /\ InMemory => ObservableCheckpointIteration = Invalid
           /\ Invalid < iteration
           /\ ~InMemory /\ ~Checkpointing => ObservableCheckpointIteration = iteration
BY GuardConstants DEF ObservableCheckpointIteration, TypeOK, Iteration, Invalid

\* A verdict changes no guard's name, state or history.
LEMMA VerdictNames ==
    ASSUME TypeOK, GuardNames, NEW row,
           \/ guard' = AfterVerdict(guard, row) /\ leftover' = AfterVerdict(leftover, row)
           \/ guard' = Sealed(guard) /\ leftover' = Sealed(leftover),
           UNCHANGED <<pending, iteration, persisted, issued, writer>>
    PROVE  GuardNames' /\ UncommittedGuard' = UncommittedGuard
<1>1. /\ guard'.state = guard.state /\ guard'.token = guard.token
      /\ guard'.advance_iteration = guard.advance_iteration
      /\ guard'.checkpoint_iteration \in {guard.checkpoint_iteration, Invalid}
      /\ guard.state # "bound" => guard' = guard
  BY SealKeeps DEF TypeOK
<1>2. /\ leftover'.state = leftover.state /\ leftover'.token = leftover.token
      /\ leftover'.advance_iteration = leftover.advance_iteration
      /\ leftover'.checkpoint_iteration \in {leftover.checkpoint_iteration, Invalid}
      /\ leftover.state # "bound" => leftover' = leftover
  BY SealKeeps DEF TypeOK
<1>3. Invalid <= iteration
  BY Observable DEF TypeOK, Iteration, Invalid
<1>4. GuardInv(guard)'
  BY <1>1, <1>3 DEF GuardNames, GuardInv, Present, NoGuard
<1>5. GuardInv(leftover)'
  BY <1>2, <1>3 DEF GuardNames, GuardInv, Present, NoGuard
<1>6. UncommittedGuard' = UncommittedGuard
  BY <1>1 DEF UncommittedGuard
<1> QED BY <1>1, <1>2, <1>4, <1>5, <1>6 DEF GuardNames, NoGuard

\* An absent guard satisfies what holds of every guard.
LEMMA NoGuardNames ==
    ASSUME TypeOK', leftover' = NoGuard
    PROVE  GuardInv(leftover)'
<1>1. 0 <= issued' /\ 0 <= iteration' /\ Invalid <= iteration'
  BY DEF TypeOK, Token, Iteration, Invalid
<1>2. /\ NoGuard.state = "absent" /\ NoGuard.token = NoToken /\ NoGuard.advance_iteration = Invalid
      /\ NoGuard.checkpoint_iteration = Invalid
  BY DEF NoGuard
<1> QED BY <1>1, <1>2 DEF GuardInv, Present, NoToken

\* A transaction that is off does nothing.
LEMMA OffPlan ==
    ASSUME TxnsInv, NEW q \in Txns, ~txn[q].on
    PROVE  txn[q].plan = "none" /\ txn[q].visible = {} /\ \A i \in Indexes : txn[q].registry[i] = NoRow
<1>1. txn[q] = NoTxn
  BY DEF TxnsInv, TxnInv
<1> QED BY <1>1 DEF NoTxn

\* Binding keeps a guard's name and what it can hold.
LEMMA StoredKeeps ==
    ASSUME NEW g \in Guard, NEW stored,
           stored = [ReadStoredGuardState(g) EXCEPT !.state = "bound", !.replay = Invalid]
    PROVE  /\ stored \in Guard /\ stored.state = "bound" /\ stored.token = g.token
           /\ stored.advance_iteration = g.advance_iteration
           /\ stored.max_seen = g.max_seen
           /\ stored.checkpoint_iteration \in {g.checkpoint_iteration, Invalid}
           /\ stored.protection => stored.checkpoint_iteration = g.checkpoint_iteration
           /\ stored.protection /\ ~stored.unsafe_reuse => g.protection /\ ~g.unsafe_reuse
<1> DEFINE r == ReadStoredGuardState(g)
<1>1. /\ r \in Guard /\ r.token = g.token /\ r.advance_iteration = g.advance_iteration
      /\ r.max_seen = g.max_seen
      /\ r.checkpoint_iteration \in {g.checkpoint_iteration, Invalid}
      /\ r.protection => r.checkpoint_iteration = g.checkpoint_iteration
      /\ r.protection /\ ~r.unsafe_reuse => g.protection /\ ~g.unsafe_reuse
  BY StoredType DEF Guard, ReadStoredGuardState
<1> HIDE DEF r
<1>2. stored = [r EXCEPT !.state = "bound", !.replay = Invalid]
  BY DEF r
<1> QED BY <1>1, <1>2 DEF Guard

\* Which guards are installed, over a transaction's steps.
LEMMA NamesTxnStep ==
    ASSUME TypeOK, TypeOK', HostInv, GuardNames, Creator, ImageInv, Unrecorded, NEW q \in Txns, TxnNext(q)
    PROVE  GuardNames'
<1> USE DEF hostVars
<1>1. CASE UNCHANGED <<pending, iteration, persisted, guard, leftover, issued, writer>>
  BY <1>1 DEF GuardNames, GuardInv, Present, UncommittedGuard
<1>2. ASSUME NEW i \in Indexes, Search(q, i) \/ MaintenanceCheck(q, i) PROVE GuardNames'
  <2> DEFINE row == txn[q].registry[i]
  <2>1. guard' = AfterVerdict(guard, row) /\ leftover' = AfterVerdict(leftover, row)
    BY <1>2 DEF Search, MaintenanceCheck
  <2> HIDE DEF row
  <2> QED BY <1>2, <2>1, VerdictNames DEF Search, MaintenanceCheck
<1>3. ASSUME NEW i \in Indexes, CreateShared(q, i) PROVE GuardNames'
  <2>1. PICK t \in Token : /\ guard' = AfterVerdict(guard, [NoRow EXCEPT !.token = t])
                           /\ leftover' = AfterVerdict(leftover, [NoRow EXCEPT !.token = t])
    BY <1>3 DEF CreateShared
  <2> QED BY <1>3, <2>1, VerdictNames DEF CreateShared
<1>4. ASSUME NEW i \in Indexes, CreateFirst(q, i) PROVE GuardNames'
  <2>1. ~UncommittedGuard
    BY <1>4 DEF CreateFirst, Barrier, Creator
  <2>2. guard' = [state |-> "bound", token |-> issued + 1, max_seen |-> GuardBaseline,
                  unsafe_reuse |-> FALSE, protection |-> TRUE, checkpoint_iteration |-> Invalid,
                  advance_iteration |-> ObservableCheckpointIteration, replay |-> Invalid]
        /\ leftover' = guard /\ issued' = issued + 1 /\ issued \in Nat
    BY <1>4 DEF CreateFirst, TypeOK, Token
  <2>3. GuardInv(guard)'
    BY <1>4, <2>2, Observable DEF CreateFirst, GuardInv, Present, NoToken, Invalid, TypeOK, Iteration
  <2>4. GuardInv(leftover)'
    BY <1>4, <2>2 DEF CreateFirst, GuardInv, Present, GuardNames, TypeOK, Guard, Token
  <2>5. \A w \in Writers : writer'[w] = "idle"
    BY <1>4 DEF CreateFirst, Barrier, AbortAltered, TypeOK
  <2>6. guard'.token = issued + 1 /\ guard'.state = "bound" /\ guard.token \in Token /\ guard.token <= issued
    BY <2>2 DEF GuardNames, GuardInv, TypeOK, Guard
  <2>7. leftover'.state \in {"absent", "bound"} /\ leftover'.token = guard.token /\ persisted' = persisted
    BY <1>4, <2>2 DEF CreateFirst
  <2>8. guard.token = persisted.token /\ guard'.token # persisted'.token /\ guard'.token # leftover'.token
    BY <2>1, <2>2, <2>6, <2>7 DEF GuardNames, Token
  <2> QED BY <2>3, <2>4, <2>5, <2>6, <2>7, <2>8 DEF GuardNames, UncommittedGuard
<1>5. ASSUME NEW i \in Indexes, DropIndex(q, i) PROVE GuardNames'
  <2>1. CASE UNCHANGED <<guard, persisted, checkpoint>>
    BY <1>1, <1>5, <2>1 DEF DropIndex
  <2>2. CASE /\ guard.token = txn[q].registry[i].token
             /\ guard' = NoGuard /\ persisted' = NoImage
    <3>1. ~UncommittedGuard /\ leftover' = leftover
      BY <1>5, <2>2 DEF DropIndex, Unrecorded
    <3>2. leftover = NoGuard
      BY <3>1 DEF GuardNames
    <3>3. UNCHANGED <<iteration, issued, pending, writer>>
      BY <1>5 DEF DropIndex
    <3>4. GuardInv(leftover)'
      BY <3>1, <3>3 DEF GuardNames, GuardInv, Present
    <3> QED BY <2>2, <3>1, <3>2, <3>3, <3>4 DEF GuardNames, GuardInv, Present, UncommittedGuard, NoGuard, NoImage
  <2> QED BY <1>5, <2>1, <2>2 DEF DropIndex
<1>6. CASE CreateCommit(q)
  <2>1. CASE UNCHANGED <<persisted, walFrom, leftover, checkpoint>>
    BY <1>1, <1>6, <2>1 DEF CreateCommit
  <2>2. CASE UncommittedGuard /\ persisted' = SerializeToWAL(guard) /\ leftover' = NoGuard
    <3>1. persisted'.token = guard.token
      BY <2>2 DEF SerializeToWAL, ImageOf, ApplyCheckpointSeal, TypeOK, Guard
    <3>2. UNCHANGED <<iteration, issued, pending, writer, guard>>
      BY <1>6 DEF CreateCommit
    <3>3. GuardInv(guard)'
      BY <3>2 DEF GuardNames, GuardInv, Present
    <3>4. GuardInv(leftover)'
      BY <2>2, NoGuardNames
    <3> QED BY <2>2, <3>1, <3>2, <3>3, <3>4 DEF GuardNames, UncommittedGuard, NoGuard, NoToken, GuardInv, Present
  <2> QED BY <1>6, <2>1, <2>2 DEF CreateCommit, LeftoverAfterCreate
<1>7. CASE CreateAbort(q)
  <2>1. CASE UNCHANGED <<guard, leftover>>
    BY <1>1, <1>7, <2>1 DEF CreateAbort
  <2>2. CASE UncommittedGuard /\ guard' = leftover /\ leftover' = NoGuard
    <3>1. UNCHANGED <<iteration, issued, pending, writer, persisted>>
      BY <1>7 DEF CreateAbort
    <3>2. GuardInv(guard)'
      BY <2>2, <3>1 DEF GuardNames, GuardInv, Present
    <3>3. GuardInv(leftover)'
      BY <2>2, NoGuardNames
    <3> QED BY <2>2, <3>1, <3>2, <3>3 DEF GuardNames, UncommittedGuard, NoGuard, NoToken, GuardInv, Present
  <2> QED BY <1>7, <2>1, <2>2 DEF CreateAbort
<1> QED BY <1>1, <1>2, <1>3, <1>4, <1>5, <1>6, <1>7 DEF TxnNext, Begin, End, RefreshCommit

\* Which guards are installed, over the host's steps.
LEMMA NamesHostStep ==
    ASSUME TypeOK, TypeOK', HostInv, GuardNames, Creator, ImageInv, TxnsInv, HostNext
    PROVE  GuardNames'
<1> USE DEF hostVars
<1>1. CASE UNCHANGED <<iteration, persisted, guard, leftover, issued, writer>> /\ pending' \in {pending, Invalid}
  BY <1>1 DEF GuardNames, GuardInv, Present, UncommittedGuard
<1>2. ASSUME NEW n \in 1 .. MaxAppend, AppendFlush(n) PROVE GuardNames'
  <2> DEFINE last == next + n - 1
  <2>1. last \in Mark /\ next \in Int
    BY <1>2, GuardConstants DEF AppendFlush, TypeOK, Mark
  <2>2. guard' = guard \/ (guard.state = "bound" /\ guard' = Observe(guard, next, last))
    BY <1>2 DEF AppendFlush, ObserveIfBound
  <2>3. leftover' = leftover \/ (leftover.state = "bound" /\ leftover' = Observe(leftover, next, last))
    BY <1>2 DEF AppendFlush, ObserveIfBound
  <2>4. UNCHANGED <<iteration, persisted, issued, writer>>
    BY <1>2 DEF AppendFlush
  <2>5. guard.state \in {"absent", "bound"} /\ leftover.state \in {"absent", "bound"}
    BY <1>2 DEF AppendFlush, GuardNames
  <2> HIDE DEF last
  <2>6. /\ guard'.state = guard.state /\ guard'.token = guard.token
        /\ guard'.advance_iteration \in {guard.advance_iteration, ObservableCheckpointIteration}
        /\ guard'.checkpoint_iteration = guard.checkpoint_iteration
        /\ guard.state # "bound" => guard' = guard
    BY <2>1, <2>2, ObserveKeeps DEF TypeOK
  <2>7. /\ leftover'.state = leftover.state /\ leftover'.token = leftover.token
        /\ leftover'.advance_iteration \in {leftover.advance_iteration, ObservableCheckpointIteration}
        /\ leftover'.checkpoint_iteration = leftover.checkpoint_iteration
        /\ leftover.state # "bound" => leftover' = leftover
    BY <2>1, <2>3, ObserveKeeps DEF TypeOK
  <2>8. GuardInv(guard)'
    BY <2>4, <2>5, <2>6, Observable DEF GuardNames, GuardInv, Present, NoGuard, TypeOK, Iteration, Invalid
  <2>9. GuardInv(leftover)'
    BY <2>4, <2>5, <2>7, Observable DEF GuardNames, GuardInv, Present, NoGuard, TypeOK, Iteration, Invalid
  <2> QED BY <2>4, <2>6, <2>7, <2>8, <2>9 DEF GuardNames, UncommittedGuard, NoGuard
<1>3. ASSUME NEW w \in Writers, PlanInPlace(w) PROVE GuardNames'
  <2>1. guard = NoGuard /\ leftover = NoGuard
    BY <1>3 DEF PlanInPlace, GuardNames, GuardInv, Present, UncommittedGuard
  <2> QED BY <1>3, <2>1 DEF PlanInPlace, GuardNames, GuardInv, Present, UncommittedGuard
<1>4. ASSUME NEW w \in Writers, WriteInPlace(w) \/ CommitInPlace(w) PROVE GuardNames'
  <2>1. \A v \in Writers : writer'[v] # "idle" => writer[v] # "idle"
    BY <1>4 DEF WriteInPlace, CommitInPlace, TypeOK
  <2> QED BY <1>4, <2>1 DEF WriteInPlace, CommitInPlace, GuardNames, GuardInv, Present, UncommittedGuard
<1>5. CASE DropGuard \/ RecreateTable
  <2>1. leftover = NoGuard
    <3>1. ASSUME NEW q \in Txns, ~txn[q].on PROVE txn[q].plan # "create"
      BY <3>1, OffPlan
    <3> QED BY <1>5, <3>1 DEF DropGuard, RecreateTable, GuardNames, Creator
  <2>2. guard' = NoGuard /\ leftover' = leftover /\ persisted' = NoImage /\ UNCHANGED <<iteration, issued, pending, writer>>
    BY <1>5 DEF DropGuard, RecreateTable
  <2> QED BY <2>1, <2>2 DEF GuardNames, GuardInv, Present, UncommittedGuard, NoGuard, NoImage
<1>6. CASE BindStart
  <2>1. guard'.state = "binding" /\ guard' = [guard EXCEPT !.state = "binding"] /\ guard.state = "unbound"
    BY <1>6 DEF BindStart, TypeOK, Guard
  <2>2. UNCHANGED <<iteration, persisted, issued, pending, writer, leftover>>
    BY <1>6 DEF BindStart
  <2>3. ~UncommittedGuard
    BY <2>1 DEF GuardNames
  <2> QED BY <2>1, <2>2, <2>3 DEF GuardNames, GuardInv, Present, UncommittedGuard, TypeOK, Guard, NoGuard
<1>7. CASE BindFinish
  <2> DEFINE stored == [ReadStoredGuardState(guard) EXCEPT !.state = "bound", !.replay = Invalid]
  <2>1. /\ stored \in Guard /\ stored.state = "bound" /\ stored.token = guard.token
        /\ stored.advance_iteration = guard.advance_iteration
        /\ stored.checkpoint_iteration \in {guard.checkpoint_iteration, Invalid}
    BY StoredKeeps DEF TypeOK
  <2>2. guard.replay \in Int /\ next - 1 \in Mark
    BY GuardConstants DEF TypeOK, Guard, Mark, Rowid, Invalid
  <2>3. guard' = stored \/ guard' = Observe(stored, guard.replay, next - 1)
    BY <1>7 DEF BindFinish, BoundFromStorage, stored
  <2> HIDE DEF stored
  <2>4. /\ guard'.state = "bound" /\ guard'.token = guard.token
        /\ guard'.advance_iteration \in {guard.advance_iteration, ObservableCheckpointIteration}
        /\ guard'.checkpoint_iteration \in {guard.checkpoint_iteration, Invalid}
    BY <2>1, <2>2, <2>3, ObserveKeeps
  <2>5. guard.state = "binding" /\ UNCHANGED <<iteration, persisted, issued, pending, writer, leftover>>
    BY <1>7 DEF BindFinish
  <2>6. ~UncommittedGuard
    BY <2>5 DEF GuardNames
  <2>7. GuardInv(guard)'
    BY <2>4, <2>5, Observable DEF GuardNames, GuardInv, Present, TypeOK, Iteration, Invalid
  <2> QED BY <2>4, <2>5, <2>6, <2>7 DEF GuardNames, GuardInv, Present, UncommittedGuard, NoGuard
<1>8. CASE CheckpointWrite
  <2>1. guard' = Sealed(guard) /\ leftover' = Sealed(leftover)
        /\ UNCHANGED <<pending, iteration, persisted, issued, writer>>
    BY <1>8 DEF CheckpointWrite
  <2> QED BY <2>1, VerdictNames
<1>9. CASE CheckpointFinish
  <2>1. iteration' >= iteration /\ iteration \in Int /\ iteration' \in Int
    BY <1>9 DEF CheckpointFinish, TypeOK, Iteration
  <2>2. UNCHANGED <<pending, guard, leftover, issued, writer>>
    BY <1>9 DEF CheckpointFinish
  <2>3. persisted'.token = persisted.token
    BY <1>9 DEF CheckpointFinish, ImageInv
  <2>4. GuardInv(guard)' /\ GuardInv(leftover)'
    BY <2>1, <2>2 DEF GuardNames, GuardInv, Present, TypeOK, Guard, OptIteration, OptSeal, Iteration, Invalid
  <2> QED BY <2>2, <2>3, <2>4 DEF GuardNames, UncommittedGuard
<1>10. ASSUME NEW session \in {"none", "pinned", "other"}, Restart(session) PROVE GuardNames'
  <2>1. /\ guard' = UnboundGuard(persisted, walFrom, next') /\ leftover' = NoGuard
        /\ pending' = Invalid /\ UNCHANGED <<iteration, persisted, issued>> /\ ~InMemory
        /\ \A w \in Writers : writer'[w] = "idle"
    BY <1>10 DEF Restart
  <2>2. GuardInv(leftover)'
    BY <2>1, NoGuardNames
  <2>3. persisted.token <= issued
    BY DEF GuardNames, UncommittedGuard, GuardInv
  <2>4. GuardInv(guard)' /\ guard'.token = persisted.token
    <3>1. CASE persisted.token = NoToken
      <4>1. guard' = NoGuard
        BY <2>1, <3>1 DEF UnboundGuard
      <4>2. 0 <= issued' /\ 0 <= iteration' /\ Invalid <= iteration'
        BY DEF TypeOK, Token, Iteration, Invalid
      <4>3. /\ NoGuard.state = "absent" /\ NoGuard.token = NoToken
            /\ NoGuard.advance_iteration = Invalid /\ NoGuard.checkpoint_iteration = Invalid
        BY DEF NoGuard
      <4> QED BY <3>1, <4>1, <4>2, <4>3 DEF GuardInv, Present, NoToken
    <3>2. CASE persisted.token # NoToken
      <4>1. /\ guard'.state = "unbound" /\ guard'.token = persisted.token
            /\ guard'.advance_iteration = Invalid
            /\ guard'.checkpoint_iteration = persisted.checkpoint_iteration
        BY <2>1, <3>2 DEF UnboundGuard
      <4>2. Invalid <= iteration
        BY DEF TypeOK, Iteration, Invalid
      <4> QED BY <2>1, <2>3, <3>2, <4>1, <4>2 DEF GuardInv, Present, ImageInv
    <3> QED BY <3>1, <3>2
  <2> QED BY <2>1, <2>2, <2>4 DEF GuardNames, UncommittedGuard, NoGuard, NoToken
<1> QED
  BY <1>1, <1>2, <1>3, <1>4, <1>5, <1>6, <1>7, <1>8, <1>9, <1>10
     DEF HostNext, AppendCommit, AppendReject, Delete, CheckpointStart

-----------------------------------------------------------------------------
(* What a step does to the transactions it is not about *)

\* All but a transaction's history (fresh, lost, changed) is its own.
Keeps(p) ==
    /\ txn'[p].on = txn[p].on /\ txn'[p].plan = txn[p].plan /\ txn'[p].token = txn[p].token
    /\ txn'[p].target = txn[p].target /\ txn'[p].visible = txn[p].visible
    /\ txn'[p].registry = txn[p].registry
    /\ txn[p].lost \subseteq txn'[p].lost
    /\ txn'[p].fresh => txn[p].fresh /\ txn'[p].changed = txn[p].changed
    /\ txn'[p].changed = txn[p].changed \/ \E w \in Writers : CommitInPlace(w)
    /\ ~txn[p].on => txn'[p] = txn[p]

\* A commit changes only the freshness of the other snapshots.
LEMMA CommittedKeeps ==
    ASSUME TypeOK, NEW t \in [Txns -> Txn], NEW p \in Txns, t[p] = txn[p], NEW i \in Indexes,
           txn' = Committed(t) \/ txn' = RegistryCommitted(t, i)
    PROVE  /\ Keeps(p)
           /\ txn' = RegistryCommitted(t, i) /\ txn[p].on => i \in txn'[p].lost
<1>1. txn[p] \in Txn
  BY DEF TypeOK
<1>2. CASE txn' = Committed(t)
  <2>1. txn'[p] = IF txn[p].on THEN [txn[p] EXCEPT !.fresh = FALSE] ELSE txn[p]
    BY <1>2 DEF Committed
  <2>2. ~(txn' = RegistryCommitted(t, i) /\ txn[p].on) \/ i \in txn'[p].lost
    <3>1. CASE txn' = RegistryCommitted(t, i) /\ txn[p].on
      <4>1. txn'[p] = [txn[p] EXCEPT !.fresh = FALSE, !.lost = @ \union {i}]
        BY <3>1 DEF RegistryCommitted
      <4> QED BY <1>1, <4>1 DEF Txn
    <3> QED BY <3>1
  <2> QED BY <1>1, <2>1, <2>2 DEF Keeps, Txn
<1>3. CASE txn' = RegistryCommitted(t, i)
  <2>1. txn'[p] = IF txn[p].on THEN [txn[p] EXCEPT !.fresh = FALSE, !.lost = @ \union {i}] ELSE txn[p]
    BY <1>3 DEF RegistryCommitted
  <2> QED BY <1>1, <2>1 DEF Keeps, Txn
<1> QED BY <1>2, <1>3

\* A transaction's step leaves the others' snapshots and work alone.
LEMMA OthersKeep ==
    ASSUME TypeOK, NEW q \in Txns, TxnNext(q), NEW p \in Txns, p # q
    PROVE  Keeps(p)
<1>1. CASE txn'[p] = txn[p]
  BY <1>1 DEF Keeps
<1>2. CASE Begin(q) \/ End(q) \/ CreateAbort(q)
  BY <1>1, <1>2 DEF Begin, End, CreateAbort, TypeOK
<1>3. ASSUME NEW i \in Indexes, Search(q, i) \/ MaintenanceCheck(q, i) \/ CreateFirst(q, i) \/ CreateShared(q, i)
      PROVE  Keeps(p)
  BY <1>1, <1>3 DEF Search, MaintenanceCheck, CreateFirst, CreateShared, TypeOK
<1>4. ASSUME NEW i \in Indexes, txn' = RegistryCommitted([txn EXCEPT ![q] = NoTxn], i) PROVE Keeps(p)
  BY <1>4, CommittedKeeps, TxnReset DEF TypeOK
<1>5. txn[q].target \in Indexes
  BY DEF TypeOK, Txn
<1> QED BY <1>2, <1>3, <1>4, <1>5 DEF TxnNext, DropIndex, CreateCommit, RefreshCommit

\* The host's steps leave every snapshot and all work alone, but for a restart.
LEMMA HostKeeps ==
    ASSUME TypeOK, HostNext, NEW p \in Txns
    PROVE  Keeps(p) \/ \E session \in {"none", "pinned", "other"} : Restart(session)
<1>1. CASE txn' = txn
  BY <1>1 DEF Keeps
<1>2. CASE txn' = Committed(txn)
  BY <1>2, CommittedKeeps, GuardConstants DEF TypeOK
<1>3. ASSUME NEW w \in Writers, CommitInPlace(w) PROVE Keeps(p)
  <2>1. PICK r \in live : txn'[p] = IF txn[p].on THEN [txn[p] EXCEPT !.fresh = FALSE, !.changed = @ \union {r}]
                                    ELSE txn[p]
    BY <1>3 DEF CommitInPlace
  <2>2. txn[p] \in Txn
    BY DEF TypeOK
  <2> QED BY <1>3, <2>1, <2>2 DEF Keeps, Txn
<1> QED
  BY <1>1, <1>2, <1>3
     DEF HostNext, hostVars, AppendFlush, AppendCommit, AppendReject, Delete, PlanInPlace, WriteInPlace, DropGuard,
         RecreateTable, BindStart, BindFinish, CheckpointStart, CheckpointWrite, CheckpointFinish

\* What a statement that a transaction starts does to the transaction.
LEMMA OwnWork ==
    ASSUME TypeOK, NEW q \in Txns, NEW i \in Indexes,
           Search(q, i) \/ MaintenanceCheck(q, i) \/ CreateFirst(q, i) \/ CreateShared(q, i)
    PROVE  /\ txn[q].on /\ txn'[q].on
           /\ txn'[q].visible = txn[q].visible /\ txn'[q].registry = txn[q].registry
           /\ txn'[q].lost = txn[q].lost /\ txn'[q].fresh = txn[q].fresh
           /\ txn'[q].changed = txn[q].changed
           /\ txn[q].plan # "create"
           /\ registry' = registry /\ live' = live /\ dead' = dead
           /\ issued' = issued \/ (issued' = issued + 1 /\ CreateFirst(q, i))
           /\ Search(q, i) \/ MaintenanceCheck(q, i) =>
                txn'[q].plan # "create" /\ txn'[q].token = txn[q].token
           /\ CreateFirst(q, i) => txn'[q].token = issued + 1
<1>1. txn[q] \in Txn
  BY DEF TypeOK
<1>2. CASE Search(q, i) \/ MaintenanceCheck(q, i)
  <2>1. \E pl \in {"index", "scan", "maintain"} : txn'[q] = [txn[q] EXCEPT !.plan = pl, !.target = i]
    BY <1>2 DEF Search, MaintenanceCheck, TypeOK
  <2>2. /\ txn[q].on /\ txn[q].plan # "create"
        /\ registry' = registry /\ live' = live /\ dead' = dead /\ issued' = issued
    BY <1>2 DEF Search, MaintenanceCheck, hostVars
  <2>3. ~CreateFirst(q, i)
    BY <2>2 DEF CreateFirst, TypeOK, Token
  <2> QED BY <1>1, <2>1, <2>2, <2>3 DEF Txn
<1>3. CASE CreateFirst(q, i)
  <2>1. txn'[q] = [txn[q] EXCEPT !.plan = "create", !.target = i, !.token = issued + 1]
    BY <1>3 DEF CreateFirst, TypeOK
  <2>2. /\ txn[q].on /\ txn[q].plan # "create"
        /\ registry' = registry /\ live' = live /\ dead' = dead /\ issued' = issued + 1
    BY <1>3 DEF CreateFirst, hostVars
  <2>3. ~Search(q, i) /\ ~MaintenanceCheck(q, i)
    BY <2>2 DEF Search, MaintenanceCheck, TypeOK, Token
  <2> QED BY <1>1, <1>3, <2>1, <2>2, <2>3 DEF Txn
<1>4. CASE CreateShared(q, i)
  <2>1. \E tok : txn'[q] = [txn[q] EXCEPT !.plan = "create", !.target = i, !.token = tok]
    BY <1>4 DEF CreateShared, TypeOK
  <2>2. /\ txn[q].on /\ txn[q].plan # "create"
        /\ registry' = registry /\ live' = live /\ dead' = dead /\ issued' = issued
    BY <1>4 DEF CreateShared, hostVars
  <2>3. txn'[q].plan = "create"
    BY <1>1, <2>1 DEF Txn
  <2>4. ~CreateFirst(q, i)
    BY <2>2 DEF CreateFirst, TypeOK, Token
  <2>5. ASSUME Search(q, i) \/ MaintenanceCheck(q, i) PROVE FALSE
    <3>1. \E pl \in {"index", "scan", "maintain"} : txn'[q] = [txn[q] EXCEPT !.plan = pl, !.target = i]
      BY <2>5 DEF Search, MaintenanceCheck, TypeOK
    <3> QED BY <1>1, <2>3, <3>1 DEF Txn
  <2> QED BY <1>1, <2>1, <2>2, <2>4, <2>5 DEF Txn
<1> QED BY <1>2, <1>3, <1>4

\* What a step of its own does to a transaction.
LEMMA OwnStep ==
    ASSUME TypeOK, NEW q \in Txns, TxnNext(q)
    PROVE  \/ txn'[q] = NoTxn
           \/ /\ Begin(q) /\ ~txn[q].on
              /\ txn'[q] = [NoTxn EXCEPT !.on = TRUE, !.fresh = TRUE, !.visible = live, !.registry = registry]
           \/ /\ txn[q].on /\ txn'[q].on
              /\ txn'[q].visible = txn[q].visible /\ txn'[q].registry = txn[q].registry
              /\ txn'[q].lost = txn[q].lost /\ txn'[q].fresh = txn[q].fresh
              /\ txn'[q].changed = txn[q].changed
              /\ txn[q].plan # "create"
              /\ registry' = registry /\ live' = live
<1> USE DEF hostVars
<1>1. txn[q] \in Txn /\ NoTxn.on = FALSE
  BY DEF TypeOK, NoTxn
<1>2. CASE Begin(q)
  BY <1>2 DEF Begin, TypeOK
<1>3. CASE End(q) \/ CreateAbort(q)
  BY <1>3 DEF End, CreateAbort, TypeOK
<1>4. ASSUME NEW i \in Indexes, txn' = RegistryCommitted([txn EXCEPT ![q] = NoTxn], i) PROVE txn'[q] = NoTxn
  BY <1>1, <1>4 DEF RegistryCommitted, TypeOK
<1>5. txn[q].target \in Indexes
  BY <1>1 DEF Txn
<1> QED BY <1>1, <1>2, <1>3, <1>4, <1>5, OwnWork DEF TxnNext, DropIndex, CreateCommit, RefreshCommit, Begin

-----------------------------------------------------------------------------
(* Who installs a guard, and the images of it *)

\* The fields of a serialized guard.
LEMMA SerializedImage ==
    ASSUME TypeOK, NEW g \in Guard
    PROVE  /\ SerializeToWAL(g).token = g.token /\ SerializeToDisk(g).token = g.token
           /\ SerializeToWAL(g).checkpoint_iteration \in {iteration, 0, g.checkpoint_iteration}
           /\ SerializeToDisk(g).checkpoint_iteration \in {iteration + 1, 0, g.checkpoint_iteration}
           /\ SerializeToWAL(g).max_seen = g.max_seen /\ SerializeToDisk(g).max_seen = g.max_seen
<1> DEFINE sealed == ApplyCheckpointSeal(g)
           latched == [g EXCEPT !.unsafe_reuse = TRUE, !.protection = FALSE]
<1>1. /\ sealed.token = g.token /\ latched.token = g.token
      /\ sealed.max_seen = g.max_seen /\ latched.max_seen = g.max_seen
  BY DEF ApplyCheckpointSeal, Guard
<1> QED BY <1>1 DEF SerializeToWAL, SerializeToDisk, ImageOf

\* Where the installed guards come from.
GuardsFrom ==
    \/ /\ guard'.token = guard.token /\ (guard'.state = "absent" <=> guard.state = "absent")
       /\ leftover'.token = leftover.token
       /\ persisted'.token = persisted.token
    \/ /\ guard'.token = guard.token /\ leftover'.token = NoToken
       /\ UncommittedGuard /\ persisted'.token = guard.token
       /\ \E q \in Txns : CreateCommit(q) /\ txn[q].token = guard.token
    \/ /\ UncommittedGuard /\ guard' = leftover /\ leftover' = NoGuard /\ persisted' = persisted
       /\ \E q \in Txns : CreateAbort(q) /\ txn[q].token = guard.token
    \/ guard' = NoGuard /\ leftover' = leftover
    \/ \E q \in Txns, i \in Indexes : CreateFirst(q, i)
    \/ \E session \in {"none", "pinned", "other"} : Restart(session)

\* Where the guards after a step come from.
LEMMA GuardsFromStep ==
    ASSUME TypeOK, GuardNames, ImageInv, [Next]_vars
    PROVE  GuardsFrom
<1>1. CASE UNCHANGED <<guard, leftover>> /\ persisted'.token = persisted.token
  BY <1>1 DEF GuardsFrom
<1>2. ASSUME NEW row,
             \/ guard' = AfterVerdict(guard, row) /\ leftover' = AfterVerdict(leftover, row)
             \/ guard' = Sealed(guard) /\ leftover' = Sealed(leftover),
             persisted' = persisted
      PROVE  GuardsFrom
  <2>1. /\ guard \in Guard /\ guard' \in {AfterVerdict(guard, row), Sealed(guard)}
        /\ leftover \in Guard /\ leftover' \in {AfterVerdict(leftover, row), Sealed(leftover)}
    BY <1>2 DEF TypeOK
  <2>2. guard'.state = guard.state /\ guard'.token = guard.token /\ leftover'.token = leftover.token
    BY <2>1, SealKeeps
  <2> QED BY <1>2, <2>2 DEF GuardsFrom
<1>3. ASSUME NEW q \in Txns, TxnNext(q) PROVE GuardsFrom
  <2>1. ASSUME NEW i \in Indexes, Search(q, i) \/ MaintenanceCheck(q, i) PROVE GuardsFrom
    <3> DEFINE row == txn[q].registry[i]
    <3>1. guard' = AfterVerdict(guard, row) /\ leftover' = AfterVerdict(leftover, row) /\ persisted' = persisted
      BY <2>1 DEF Search, MaintenanceCheck
    <3> HIDE DEF row
    <3> QED BY <1>2, <3>1
  <2>2. ASSUME NEW i \in Indexes, CreateShared(q, i) PROVE GuardsFrom
    <3>1. PICK t \in Token : /\ guard' = AfterVerdict(guard, [NoRow EXCEPT !.token = t])
                             /\ leftover' = AfterVerdict(leftover, [NoRow EXCEPT !.token = t])
                             /\ persisted' = persisted
      BY <2>2 DEF CreateShared
    <3> QED BY <1>2, <3>1
  <2>3. CASE CreateCommit(q)
    <3>1. CASE UNCHANGED <<persisted, walFrom, leftover, checkpoint>>
      BY <1>1, <2>3, <3>1 DEF CreateCommit
    <3>2. CASE /\ UncommittedGuard /\ guard.token = txn[q].token
               /\ persisted' = SerializeToWAL(guard) /\ leftover' = NoGuard
      <4>1. guard' = guard /\ persisted'.token = guard.token /\ leftover'.token = NoToken
        BY <2>3, <3>2, SerializedImage DEF CreateCommit, TypeOK, NoGuard
      <4> QED BY <2>3, <3>2, <4>1 DEF GuardsFrom
    <3> QED BY <2>3, <3>1, <3>2 DEF CreateCommit, LeftoverAfterCreate
  <2>4. CASE CreateAbort(q)
    <3>1. CASE UNCHANGED <<guard, leftover, quiet>>
      BY <1>1, <2>4, <3>1 DEF CreateAbort
    <3>2. CASE UncommittedGuard /\ guard.token = txn[q].token /\ guard' = leftover /\ leftover' = NoGuard
      BY <2>4, <3>2 DEF CreateAbort, GuardsFrom
    <3> QED BY <2>4, <3>1, <3>2 DEF CreateAbort
  <2>5. ASSUME NEW i \in Indexes, DropIndex(q, i) PROVE GuardsFrom
    BY <1>1, <2>5 DEF DropIndex, GuardsFrom
  <2>6. ASSUME NEW i \in Indexes, CreateFirst(q, i) PROVE GuardsFrom
    BY <2>6 DEF GuardsFrom
  <2> QED BY <1>1, <1>3, <2>1, <2>2, <2>3, <2>4, <2>5, <2>6 DEF TxnNext, Begin, End, RefreshCommit
<1>4. CASE HostNext
  <2>1. ASSUME NEW n \in 1 .. MaxAppend, AppendFlush(n) PROVE GuardsFrom
    <3> DEFINE last == next + n - 1
    <3>1. last \in Mark /\ next \in Int
      BY <2>1, GuardConstants DEF AppendFlush, TypeOK, Mark
    <3>2. /\ persisted' = persisted /\ (guard' = guard \/ guard' = Observe(guard, next, last))
          /\ leftover' = leftover \/ leftover' = Observe(leftover, next, last)
      BY <2>1 DEF AppendFlush, ObserveIfBound
    <3> HIDE DEF last
    <3>3. guard'.state = guard.state /\ guard'.token = guard.token /\ leftover'.token = leftover.token
      BY <3>1, <3>2, ObserveKeeps DEF TypeOK
    <3> QED BY <3>2, <3>3 DEF GuardsFrom
  <2>2. CASE BindStart
    <3>1. /\ guard'.token = guard.token /\ guard.state = "unbound" /\ guard'.state = "binding"
          /\ persisted' = persisted /\ leftover' = leftover
      BY <2>2 DEF BindStart, TypeOK, Guard
    <3> QED BY <3>1 DEF GuardsFrom
  <2>3. CASE BindFinish
    <3> DEFINE stored == [ReadStoredGuardState(guard) EXCEPT !.state = "bound", !.replay = Invalid]
    <3>1. guard.replay \in Int /\ next - 1 \in Mark
      BY GuardConstants DEF TypeOK, Guard, Mark, Rowid, Invalid
    <3>2. /\ guard' = stored \/ guard' = Observe(stored, guard.replay, next - 1)
          /\ guard.state = "binding" /\ persisted' = persisted /\ leftover' = leftover
      BY <2>3 DEF BindFinish, BoundFromStorage, stored
    <3>3. stored \in Guard /\ stored.token = guard.token /\ stored.state = "bound"
      BY StoredKeeps DEF TypeOK
    <3> HIDE DEF stored
    <3>4. guard'.token = guard.token /\ guard'.state = "bound"
      BY <3>1, <3>2, <3>3, ObserveKeeps
    <3> QED BY <3>2, <3>4 DEF GuardsFrom
  <2>4. CASE CheckpointWrite
    BY <1>2, <2>4 DEF CheckpointWrite
  <2>5. CASE CheckpointFinish
    BY <1>1, <2>5 DEF CheckpointFinish, ImageInv
  <2>6. CASE DropGuard \/ RecreateTable
    BY <2>6 DEF DropGuard, RecreateTable, GuardsFrom
  <2>7. ASSUME NEW session \in {"none", "pinned", "other"}, Restart(session) PROVE GuardsFrom
    BY <2>7 DEF GuardsFrom
  <2> QED
    BY <1>1, <1>4, <2>1, <2>2, <2>3, <2>4, <2>5, <2>6, <2>7
       DEF HostNext, hostVars, AppendCommit, AppendReject, Delete, PlanInPlace, WriteInPlace, CommitInPlace,
           CheckpointStart
<1>5. CASE UNCHANGED vars
  BY <1>1, <1>5 DEF vars
<1> QED BY <1>3, <1>4, <1>5 DEF Next

\* A guard is uncommitted because it was before or because CreateFirst installs it.
LEMMA UncommittedFrom ==
    ASSUME TypeOK, GuardNames, ImageInv, [Next]_vars, UncommittedGuard'
    PROVE  \/ /\ UncommittedGuard /\ guard'.token = guard.token
              /\ ~ \E q \in Txns : CreateCommit(q) /\ txn[q].token = guard.token
              /\ ~ \E session \in {"none", "pinned", "other"} : Restart(session)
           \/ \E q \in Txns, i \in Indexes : CreateFirst(q, i)
<1>1. GuardsFrom
  BY GuardsFromStep
<1>2. ASSUME NEW session \in {"none", "pinned", "other"}, Restart(session) PROVE FALSE
  <2>1. guard'.state = "absent" \/ guard'.token = persisted'.token
    BY <1>2 DEF Restart, UnboundGuard, NoGuard
  <2> QED BY <2>1 DEF UncommittedGuard
<1>3. ASSUME NEW q \in Txns, CreateCommit(q), txn[q].token = guard.token, UncommittedGuard PROVE FALSE
  <2>1. guard' = guard /\ persisted'.token = guard.token
    BY <1>3, SerializedImage DEF CreateCommit, TypeOK
  <2> QED BY <2>1 DEF UncommittedGuard
<1>4. ASSUME guard' = NoGuard PROVE FALSE
  BY <1>4 DEF UncommittedGuard, NoGuard
<1>5. ASSUME UncommittedGuard, guard' = leftover, persisted' = persisted PROVE FALSE
  BY <1>5 DEF UncommittedGuard, GuardNames
<1>6. ASSUME persisted'.token = guard.token, guard'.token = guard.token PROVE FALSE
  BY <1>6 DEF UncommittedGuard
<1>7. ASSUME guard'.token = guard.token, guard'.state = "absent" <=> guard.state = "absent",
             persisted'.token = persisted.token
      PROVE  UncommittedGuard /\ guard'.token = guard.token
  BY <1>7 DEF UncommittedGuard
<1> QED BY <1>1, <1>2, <1>3, <1>4, <1>5, <1>6, <1>7 DEF GuardsFrom

\* An uncommitted guard keeps the create that will commit it.
LEMMA CreatorStep ==
    ASSUME TypeOK, TypeOK', HostInv, GuardNames, Creator, ImageInv, TxnsInv, [Next]_vars
    PROVE  Creator'
<1> SUFFICES ASSUME UncommittedGuard'
             PROVE  \E p \in Txns : txn'[p].plan = "create" /\ txn'[p].token = guard'.token
  BY DEF Creator
<1>1. CASE /\ UncommittedGuard /\ guard'.token = guard.token
           /\ ~ \E q \in Txns : CreateCommit(q) /\ txn[q].token = guard.token
           /\ ~ \E session \in {"none", "pinned", "other"} : Restart(session)
  <2>1. PICK p \in Txns : txn[p].plan = "create" /\ txn[p].token = guard.token
    BY <1>1 DEF Creator
  <2>2. CASE Keeps(p)
    BY <1>1, <2>1, <2>2 DEF Keeps
  <2>3. CASE TxnNext(p)
    <3>1. txn[p].on
      BY <2>1, OffPlan
    <3>2. CreateAbort(p)
      BY <1>1, <2>1, <2>3, <3>1
         DEF TxnNext, Begin, End, Search, MaintenanceCheck, DropIndex, CreateFirst, CreateShared, RefreshCommit
    <3>3. guard' = leftover /\ persisted' = persisted
      BY <1>1, <2>1, <3>2 DEF CreateAbort
    <3> QED BY <1>1, <3>3 DEF UncommittedGuard, GuardNames
  <2>4. CASE UNCHANGED vars
    BY <1>1, <2>1, <2>4 DEF vars
  <2> QED BY <1>1, <2>2, <2>3, <2>4, OthersKeep, HostKeeps DEF Next
<1>2. ASSUME NEW q \in Txns, NEW i \in Indexes, CreateFirst(q, i)
      PROVE  txn'[q].plan = "create" /\ txn'[q].token = guard'.token
  BY <1>2 DEF CreateFirst, TypeOK, Txn
<1> QED BY <1>1, <1>2, UncommittedFrom

\* The images on disk stay those of the committed guard.
LEMMA ImageStep ==
    ASSUME TypeOK, TypeOK', HostInv, GuardNames, Creator, ImageInv, Unrecorded, TxnsInv, [Next]_vars
    PROVE  ImageInv'
<1>0. iteration \in Int /\ 0 <= iteration /\ Invalid <= iteration /\ Invalid <= iteration + 1
      /\ NoImage.token = NoToken /\ NoImage.checkpoint_iteration = Invalid
  BY DEF TypeOK, Iteration, Invalid, NoImage
<1>1. CASE UNCHANGED <<persisted, iteration>> /\ checkpoint'.image \in {checkpoint.image, NoImage}
  BY <1>0, <1>1 DEF ImageInv
<1>2. CASE UNCHANGED iteration /\ persisted' = NoImage /\ checkpoint'.image = NoImage
  BY <1>0, <1>2 DEF ImageInv
<1>3. ASSUME NEW q \in Txns, CreateCommit(q) PROVE ImageInv'
  <2>1. CASE UNCHANGED <<persisted, checkpoint>>
    BY <1>1, <1>3, <2>1 DEF CreateCommit
  <2>2. CASE UncommittedGuard /\ persisted' = SerializeToWAL(guard) /\ checkpoint' = WithoutImage
    <3>1. checkpoint'.image = NoImage /\ iteration' = iteration
      BY <1>3, <2>2 DEF CreateCommit, WithoutImage, TypeOK, Checkpoint
    <3>2. persisted'.token = guard.token /\ guard.token # NoToken
          /\ persisted'.checkpoint_iteration \in {iteration, 0, guard.checkpoint_iteration}
      BY <2>2, SerializedImage DEF TypeOK, GuardNames, GuardInv, UncommittedGuard, Present
    <3>3. guard.checkpoint_iteration <= iteration
      BY DEF GuardNames, GuardInv
    <3>4. persisted'.checkpoint_iteration <= iteration
      BY <1>0, <3>2, <3>3
    <3> QED BY <1>0, <3>1, <3>2, <3>4 DEF ImageInv
  <2> QED BY <1>3, <2>1, <2>2 DEF CreateCommit
<1>4. CASE CheckpointWrite
  <2> DEFINE committed == IF UncommittedGuard THEN leftover ELSE guard
  <2>1. /\ checkpoint'.image = IF committed.state = "absent" THEN NoImage ELSE SerializeToDisk(committed)
        /\ UNCHANGED <<persisted, iteration>>
    BY <1>4 DEF CheckpointWrite, TypeOK, Checkpoint
  <2>2. committed \in Guard /\ GuardInv(committed) /\ committed.token = persisted.token
    BY DEF TypeOK, GuardNames
  <2> HIDE DEF committed
  <2>3. CASE committed.state # "absent"
    <3>1. checkpoint'.image.token = persisted.token /\ persisted.token # NoToken
      BY <2>1, <2>2, <2>3, SerializedImage DEF GuardInv, Present
    <3>2. checkpoint'.image.checkpoint_iteration \in {iteration + 1, 0, committed.checkpoint_iteration}
      BY <2>1, <2>2, <2>3, SerializedImage
    <3>3. committed.checkpoint_iteration <= iteration /\ committed.checkpoint_iteration \in Int
      BY <2>2 DEF GuardInv, Guard, OptSeal, OptIteration, Iteration, Invalid
    <3>4. checkpoint'.image.checkpoint_iteration <= iteration + 1
      BY <1>0, <3>2, <3>3
    <3> QED BY <2>1, <3>1, <3>4 DEF ImageInv
  <2> QED BY <1>1, <2>1, <2>3
<1>5. CASE CheckpointFinish
  <2>1. checkpoint'.image = NoImage /\ iteration' = IF InMemory THEN iteration ELSE iteration + 1
    BY <1>5 DEF CheckpointFinish, NoCheckpoint
  <2>2. persisted' = persisted \/ (persisted' = checkpoint.image /\ checkpoint.image # NoImage)
    BY <1>5 DEF CheckpointFinish
  <2>3. iteration \in Int /\ persisted.checkpoint_iteration \in Int
    BY DEF TypeOK, Iteration, Image, OptSeal, OptIteration, Invalid
  <2>4. Invalid <= iteration' + 1
    BY <1>0, <2>1, <2>3 DEF Invalid
  <2> QED BY <1>0, <2>1, <2>2, <2>3, <2>4 DEF ImageInv
<1>6. ASSUME NEW session \in {"none", "pinned", "other"}, Restart(session) PROVE ImageInv'
  BY <1>1, <1>6 DEF Restart, NoCheckpoint
<1>7. ASSUME NEW kind \in {"full", "concurrent"}, CheckpointStart(kind) PROVE ImageInv'
  BY <1>1, <1>7 DEF CheckpointStart, NoCheckpoint
<1>8. ASSUME NEW q \in Txns, NEW i \in Indexes, DropIndex(q, i) PROVE ImageInv'
  BY <1>1, <1>2, <1>8 DEF DropIndex, WithoutImage, TypeOK, Checkpoint
<1>9. CASE DropGuard
  BY <1>2, <1>9 DEF DropGuard, WithoutImage, TypeOK, Checkpoint
<1>10. CASE RecreateTable
  BY <1>2, <1>10 DEF RecreateTable, HostInv, Checkpointing
<1>11. CASE UNCHANGED vars
  BY <1>1, <1>11 DEF vars
<1>12. ASSUME NEW q \in Txns, TxnNext(q) PROVE ImageInv'
  BY <1>1, <1>3, <1>8, <1>12
     DEF TxnNext, hostVars, Begin, End, Search, MaintenanceCheck, CreateFirst, CreateShared, CreateAbort, RefreshCommit
<1>13. CASE HostNext
  BY <1>1, <1>4, <1>5, <1>6, <1>7, <1>9, <1>10, <1>13
     DEF HostNext, hostVars, AppendFlush, AppendCommit, AppendReject, Delete, PlanInPlace, WriteInPlace,
         CommitInPlace, BindStart, BindFinish
<1> QED BY <1>11, <1>12, <1>13 DEF Next

-----------------------------------------------------------------------------
(* Where views come from *)

\* A transaction's view is its own, taken from the committed state when it begins.
LEMMA ViewsFrom ==
    ASSUME TypeOK, [Next]_vars, NEW p \in Txns
    PROVE  \/ txn'[p] = NoTxn
           \/ txn'[p].registry = txn[p].registry /\ txn'[p].visible = txn[p].visible
           \/ /\ Begin(p) /\ ~txn[p].on
              /\ txn'[p] = [NoTxn EXCEPT !.on = TRUE, !.fresh = TRUE, !.visible = live, !.registry = registry]
<1>1. CASE UNCHANGED vars
  BY <1>1 DEF vars
<1>2. CASE Keeps(p)
  BY <1>2 DEF Keeps
<1>3. ASSUME NEW session \in {"none", "pinned", "other"}, Restart(session) PROVE txn'[p] = NoTxn
  BY <1>3 DEF Restart
<1>4. CASE TxnNext(p)
  BY <1>4, OwnStep
<1> QED BY <1>1, <1>2, <1>3, <1>4, OthersKeep, HostKeeps DEF Next

\* The committed row of an index: kept, but for postings that its rows lose,
\* dropped, or written by the transaction that creates or maintains the index.
RegistryFrom(i) ==
    \/ /\ registry'[i].token = registry[i].token /\ registry'[i].hwm = registry[i].hwm
       /\ registry'[i].posted \subseteq registry[i].posted
    \/ registry'[i] = NoRow /\ \E q \in Txns : DropIndex(q, i)
    \/ \E q \in Txns : CreateCommit(q) /\ txn[q].target = i
    \/ \E q \in Txns, m \in Mark : RefreshCommit(q, m) /\ txn[q].target = i

\* A committed row after a step: as before, gone, built, or refreshed.
LEMMA RegistryFromStep ==
    ASSUME TypeOK, [Next]_vars, NEW i \in Indexes
    PROVE  RegistryFrom(i)
<1> USE DEF hostVars
<1>1. registry[i] \in RegistryRow
  BY DEF TypeOK
<1>2. CASE registry' = registry
  BY <1>2 DEF RegistryFrom
<1>3. ASSUME NEW S, registry' = [j \in Indexes |-> [registry[j] EXCEPT !.posted = @ \ S]] PROVE RegistryFrom(i)
  BY <1>1, <1>3 DEF RegistryFrom, RegistryRow
<1>4. ASSUME NEW q \in Txns, NEW j \in Indexes, DropIndex(q, j) PROVE RegistryFrom(i)
  BY <1>4 DEF DropIndex, RegistryFrom, TypeOK
<1>5. ASSUME NEW q \in Txns, CreateCommit(q) PROVE RegistryFrom(i)
  BY <1>5 DEF CreateCommit, RegistryFrom, TypeOK
<1>6. ASSUME NEW q \in Txns, NEW m \in Mark, RefreshCommit(q, m) PROVE RegistryFrom(i)
  BY <1>6 DEF RefreshCommit, RegistryFrom, TypeOK
<1>7. ASSUME NEW q \in Txns, TxnNext(q) PROVE RegistryFrom(i)
  BY <1>2, <1>4, <1>5, <1>6, <1>7
     DEF TxnNext, Begin, End, Search, MaintenanceCheck, CreateFirst, CreateShared, CreateAbort
<1>8. CASE Publish
  BY <1>3, <1>8 DEF Publish
<1>9. ASSUME NEW w \in Writers, CommitInPlace(w) PROVE RegistryFrom(i)
  BY <1>3, <1>9 DEF CommitInPlace
<1>10. CASE RecreateTable
  BY <1>1, <1>10 DEF RecreateTable, RegistryFrom, RegistryRow
<1>11. CASE HostNext
  BY <1>2, <1>8, <1>9, <1>10, <1>11
     DEF HostNext, AppendFlush, AppendCommit, AppendReject, Delete, PlanInPlace, WriteInPlace, DropGuard,
         BindStart, BindFinish, CheckpointStart, CheckpointWrite, CheckpointFinish, Restart
<1> QED BY <1>2, <1>7, <1>11 DEF Next, vars

\* The token of a committed row after a step.
LEMMA RegistryTokens ==
    ASSUME TypeOK, [Next]_vars, NEW i \in Indexes
    PROVE  \/ registry'[i].token \in {registry[i].token, NoToken}
           \/ \E q \in Txns : CreateCommit(q) /\ registry'[i].token = txn[q].token
<1>1. ASSUME NEW q \in Txns, CreateCommit(q), txn[q].target = i PROVE registry'[i].token = txn[q].token
  BY <1>1 DEF CreateCommit, TypeOK
<1>2. ASSUME NEW q \in Txns, NEW m \in Mark, RefreshCommit(q, m), txn[q].target = i
      PROVE  registry'[i].token = registry[i].token
  BY <1>2 DEF RefreshCommit, TypeOK
<1> QED BY <1>1, <1>2, RegistryFromStep DEF RegistryFrom, NoRow

\* No view records a guard before its create commits.
LEMMA UnrecordedStep ==
    ASSUME TypeOK, TypeOK', HostInv, GuardNames, Creator, ImageInv, Unrecorded, TxnsInv, [Next]_vars
    PROVE  Unrecorded'
<1> SUFFICES ASSUME UncommittedGuard'
             PROVE  /\ \A i \in Indexes : registry'[i].token # guard'.token
                    /\ \A p \in Txns, i \in Indexes : txn'[p].registry[i].token # guard'.token
  BY DEF Unrecorded
<1>1. guard'.token # NoToken
  <2>1. CASE UncommittedGuard /\ guard'.token = guard.token
    BY <2>1 DEF UncommittedGuard, GuardNames, GuardInv, Present
  <2>2. ASSUME NEW q \in Txns, NEW i \in Indexes, CreateFirst(q, i) PROVE guard'.token # NoToken
    BY <2>2 DEF CreateFirst, TypeOK, Token, NoToken
  <2> QED BY <2>1, <2>2, UncommittedFrom
<1>2. NoRow.token = NoToken /\ \A i \in Indexes : NoTxn.registry[i] = NoRow
  BY DEF NoRow, NoTxn
<1>3. CASE /\ UncommittedGuard /\ guard'.token = guard.token
           /\ ~ \E q \in Txns : CreateCommit(q) /\ txn[q].token = guard.token
  <2>1. /\ \A i \in Indexes : registry[i].token # guard'.token
        /\ \A p \in Txns, i \in Indexes : txn[p].registry[i].token # guard'.token
    BY <1>3 DEF Unrecorded
  <2>2. ASSUME NEW i \in Indexes PROVE registry'[i].token # guard'.token
    BY <1>1, <1>3, <2>1, RegistryTokens
  <2>3. ASSUME NEW p \in Txns, NEW i \in Indexes PROVE txn'[p].registry[i].token # guard'.token
    <3>1. CASE txn'[p] = NoTxn
      BY <1>1, <1>2, <3>1
    <3>2. CASE txn'[p] = [NoTxn EXCEPT !.on = TRUE, !.fresh = TRUE, !.visible = live, !.registry = registry]
      <4>1. txn'[p].registry = registry
        BY <3>2 DEF NoTxn
      <4> QED BY <2>1, <4>1
    <3> QED BY <2>1, <3>1, <3>2, ViewsFrom
  <2> QED BY <2>2, <2>3
<1>4. ASSUME NEW q \in Txns, NEW k \in Indexes, CreateFirst(q, k)
      PROVE  /\ \A i \in Indexes : registry'[i].token # guard'.token
             /\ \A p \in Txns, i \in Indexes : txn'[p].registry[i].token # guard'.token
  <2>1. guard'.token = issued + 1 /\ registry' = registry /\ issued \in Nat
    BY <1>4 DEF CreateFirst, TypeOK, Token
  <2>2. \A p \in Txns : txn'[p].registry = txn[p].registry
    BY <1>4 DEF CreateFirst, TypeOK, Txn
  <2>3. /\ \A i \in Indexes : registry[i].token <= issued
        /\ \A p \in Txns, i \in Indexes : txn[p].registry[i].token <= issued
    BY DEF TxnsInv, TxnInv
  <2> QED BY <2>1, <2>2, <2>3
<1> QED BY <1>3, <1>4, UncommittedFrom

-----------------------------------------------------------------------------
(* Transactions *)

\* No step but a restart installs a guard whose token was already minted.
LEMMA LiveTokenFrom ==
    ASSUME TypeOK, GuardNames, ImageInv, [Next]_vars, NEW t \in Token, t <= issued, LiveToken(t)',
           ~ \E session \in {"none", "pinned", "other"} : Restart(session)
    PROVE  LiveToken(t)
<1>1. GuardsFrom
  BY GuardsFromStep
<1>2. t # NoToken /\ t \in {guard'.token, leftover'.token}
  BY DEF LiveToken
<1>3. NoGuard.token = NoToken
  BY DEF NoGuard
<1>4. ASSUME NEW q \in Txns, NEW i \in Indexes, CreateFirst(q, i) PROVE t = guard.token
  BY <1>2, <1>4 DEF CreateFirst, TypeOK, Token
<1> QED BY <1>1, <1>2, <1>3, <1>4 DEF GuardsFrom, LiveToken

\* An update in place commits only while the table has no guard.
LEMMA InPlaceUnguarded ==
    ASSUME TypeOK, GuardNames, NEW w \in Writers, CommitInPlace(w), NEW t
    PROVE  ~LiveToken(t) /\ ~LiveToken(t)'
<1>1. guard.token = NoToken /\ leftover.token = NoToken
  BY DEF CommitInPlace, GuardNames, NoGuard
<1>2. guard' = guard /\ leftover' = leftover
  BY DEF CommitInPlace
<1> QED BY <1>1, <1>2 DEF LiveToken

\* No row a snapshot sees is discarded, and no row is inserted below one it sees.
LEMMA RowsStep ==
    ASSUME TypeOK, TypeOK', HostInv, TxnsInv, [Next]_vars, NEW p \in Txns,
           ~ \E session \in {"none", "pinned", "other"} : Restart(session)
    PROVE  /\ txn[p].visible \subseteq live' \union dead'
           /\ \A r \in live', v \in txn[p].visible : r <= v => r \in txn[p].visible
<1> USE DEF hostVars
<1>1. /\ txn[p].visible \subseteq live \union dead
      /\ \A r \in live, v \in txn[p].visible : r <= v => r \in txn[p].visible
  BY DEF TxnsInv, TxnInv
<1>2. CASE live' = live /\ dead' = dead
  BY <1>1, <1>2
<1>3. CASE AppendCommit
  <2>1. live' = live \union (next .. pending) /\ dead' = dead
    BY <1>3 DEF AppendCommit, Publish
  <2>2. \A v \in txn[p].visible : v < next /\ v \in Int
    <3>1. \A v \in live \union dead : v < next
      BY DEF HostInv
    <3>2. \A v \in live \union dead : v \in Int
      BY DEF TypeOK, Rowid
    <3> QED BY <1>1, <3>1, <3>2
  <2>3. next \in Int
    BY DEF TypeOK
  <2>4. \A r \in next .. pending, v \in txn[p].visible : ~(r <= v)
    BY <2>2, <2>3
  <2> QED BY <1>1, <2>1, <2>4
<1>4. ASSUME NEW r \in Rowid, Delete(r)
      PROVE  /\ txn[p].visible \subseteq live' \union dead'
             /\ live' \subseteq live
  BY <1>1, <1>4 DEF Delete
<1>5. CASE CheckpointFinish
  <2>1. live' = live /\ \A r \in dead : r \in dead' \/ r \notin txn[p].visible
    BY <1>5 DEF CheckpointFinish, Reclaimable
  <2> QED BY <1>1, <2>1
<1>6. CASE RecreateTable
  <2>1. live' = {} /\ ~txn[p].on
    BY <1>6 DEF RecreateTable
  <2> QED BY <2>1, OffPlan
<1>7. ASSUME NEW q \in Txns, TxnNext(q) PROVE live' = live /\ dead' = dead
  BY <1>7 DEF TxnNext, Begin, End, Search, MaintenanceCheck, DropIndex, CreateFirst, CreateShared, CreateCommit,
              CreateAbort, RefreshCommit
<1>8. CASE HostNext
  BY <1>1, <1>2, <1>3, <1>4, <1>5, <1>6, <1>8
     DEF HostNext, AppendFlush, AppendReject, PlanInPlace, WriteInPlace, CommitInPlace, DropGuard, BindStart,
         BindFinish, CheckpointStart, CheckpointWrite
<1> QED BY <1>2, <1>7, <1>8 DEF Next, vars

\* The committed row a transaction read changes only if the transaction loses it.
LEMMA ReadRowKept ==
    ASSUME TypeOK, [Next]_vars, NEW p \in Txns, txn[p].on, NEW i \in Indexes, i \notin txn'[p].lost,
           \A q \in Txns : TxnNext(q) => q # p
    PROVE  registry'[i].token = registry[i].token /\ registry'[i].hwm = registry[i].hwm
<1>1. ASSUME NEW q \in Txns, TxnNext(q), txn' = RegistryCommitted([txn EXCEPT ![q] = NoTxn], i) PROVE FALSE
  <2>1. q # p
    BY <1>1
  <2>2. [txn EXCEPT ![q] = NoTxn] \in [Txns -> Txn]
    BY TxnReset DEF TypeOK
  <2>3. [txn EXCEPT ![q] = NoTxn][p] = txn[p]
    BY <2>1 DEF TypeOK
  <2> HIDE DEF RegistryCommitted
  <2> QED BY <1>1, <2>2, <2>3, CommittedKeeps
<1>2. ASSUME NEW q \in Txns, DropIndex(q, i) PROVE FALSE
  BY <1>1, <1>2 DEF DropIndex, TxnNext
<1>3. ASSUME NEW q \in Txns, CreateCommit(q), txn[q].target = i PROVE FALSE
  BY <1>1, <1>3 DEF CreateCommit, TxnNext
<1>4. ASSUME NEW q \in Txns, NEW m \in Mark, RefreshCommit(q, m), txn[q].target = i PROVE FALSE
  BY <1>1, <1>4 DEF RefreshCommit, TxnNext
<1> QED BY <1>2, <1>3, <1>4, RegistryFromStep DEF RegistryFrom

\* A transaction that a step leaves alone keeps its invariant.
LEMMA TxnKept ==
    ASSUME TypeOK, TypeOK', HostInv, GuardNames, ImageInv, TxnsInv, [Next]_vars, NEW p \in Txns, Keeps(p),
           \A q \in Txns : TxnNext(q) => q # p,
           ~ \E session \in {"none", "pinned", "other"} : Restart(session)
    PROVE  TxnInv(p)'
<1>1. TxnInv(p)
  BY DEF TxnsInv
<1>2. issued \in Nat /\ issued' \in Nat /\ issued <= issued'
  <2>1. ASSUME NEW q \in Txns, TxnNext(q) PROVE issued' = issued \/ issued' = issued + 1
    BY <2>1 DEF TxnNext, Begin, End, Search, MaintenanceCheck, DropIndex, CreateFirst, CreateShared,
                CreateCommit, CreateAbort, RefreshCommit
  <2>2. ASSUME HostNext PROVE issued' = issued
    BY <2>2 DEF HostNext, hostVars, AppendFlush, AppendCommit, AppendReject, Delete, PlanInPlace, WriteInPlace,
                CommitInPlace, DropGuard, RecreateTable, BindStart, BindFinish, CheckpointStart, CheckpointWrite,
                CheckpointFinish, Restart
  <2>3. ASSUME UNCHANGED vars PROVE issued' = issued
    BY <2>3 DEF vars
  <2> QED BY <2>1, <2>2, <2>3 DEF Next, TypeOK, Token
<1>3. txn[p] \in Txn /\ txn[p].token \in Token /\ \A i \in Indexes : txn[p].registry[i].token \in Token
  BY DEF TypeOK, Txn, RegistryRow
<1>4. ASSUME NEW t \in Token, t <= issued, LiveToken(t)', LiveToken(t) => txn[p].changed = {}
      PROVE  txn'[p].changed = {}
  BY <1>4, LiveTokenFrom, InPlaceUnguarded DEF Keeps
<1>5. (~txn[p].on => txn[p] = NoTxn)'
  BY <1>1 DEF Keeps, TxnInv
<1>6. (txn[p].fresh => txn[p].changed = {})'
  BY <1>1 DEF Keeps, TxnInv
<1>7. (/\ txn[p].visible \subseteq live \union dead
       /\ \A r \in live, v \in txn[p].visible : r <= v => r \in txn[p].visible)'
  BY RowsStep DEF Keeps
<1>8. (txn[p].token <= issued)'
  BY <1>1, <1>2, <1>3 DEF Keeps, TxnInv, Token
<1>9. ASSUME NEW i \in Indexes
      PROVE  (/\ txn[p].registry[i].token <= issued
              /\ txn[p].on /\ i \notin txn[p].lost =>
                   /\ txn[p].registry[i].token = registry[i].token
                   /\ txn[p].registry[i].hwm = registry[i].hwm
              /\ LiveToken(txn[p].registry[i].token) => txn[p].changed = {})'
  <2>1. txn'[p].registry[i].token <= issued'
    BY <1>1, <1>2, <1>3 DEF Keeps, TxnInv, Token
  <2>2. ASSUME txn'[p].on, i \notin txn'[p].lost
        PROVE  txn'[p].registry[i].token = registry'[i].token /\ txn'[p].registry[i].hwm = registry'[i].hwm
    <3>1. txn[p].on /\ i \notin txn[p].lost /\ txn'[p].registry = txn[p].registry
      BY <2>2 DEF Keeps
    <3>2. txn[p].registry[i].token = registry[i].token /\ txn[p].registry[i].hwm = registry[i].hwm
      BY <1>1, <3>1 DEF TxnInv
    <3> QED BY <2>2, <3>1, <3>2, ReadRowKept
  <2>3. ASSUME LiveToken(txn[p].registry[i].token)' PROVE txn'[p].changed = {}
    <3> DEFINE t == txn[p].registry[i].token
    <3>1. t \in Token /\ t <= issued /\ (LiveToken(t) => txn[p].changed = {})
      BY <1>1, <1>3 DEF TxnInv
    <3>2. LiveToken(t)'
      BY <2>3 DEF Keeps, LiveToken
    <3> QED BY <3>1, <3>2, LiveTokenFrom, InPlaceUnguarded DEF Keeps
  <2> QED BY <2>1, <2>2, <2>3
<1>10. ASSUME (txn[p].plan = "create" /\ LiveToken(txn[p].token))' PROVE txn'[p].changed = {}
  <2>1. LiveToken(txn[p].token) => txn[p].changed = {}
    BY <1>1, <1>10 DEF TxnInv, Keeps
  <2>2. txn[p].token <= issued
    BY <1>1 DEF TxnInv
  <2>3. txn'[p].token # NoToken /\ txn'[p].token \in {guard'.token, leftover'.token} /\ txn'[p].token = txn[p].token
    BY <1>10 DEF LiveToken, Keeps
  <2>4. PICK t \in Token : t = txn[p].token
    BY <1>3
  <2>5. LiveToken(t)'
    BY <2>3, <2>4 DEF LiveToken
  <2>6. LiveToken(t) /\ txn[p].changed = {}
    BY <2>1, <2>2, <2>4, <2>5, LiveTokenFrom
  <2> QED BY <2>5, <2>6, InPlaceUnguarded DEF Keeps
<1> QED BY <1>5, <1>6, <1>7, <1>8, <1>9, <1>10 DEF TxnInv

\* An idle connection satisfies the transaction invariant.
LEMMA TxnOff ==
    ASSUME TypeOK', NEW p \in Txns, txn'[p] = NoTxn
    PROVE  TxnInv(p)'
<1>1. /\ ~NoTxn.on /\ ~NoTxn.fresh /\ NoTxn.changed = {} /\ NoTxn.visible = {} /\ NoTxn.token = NoToken
      /\ \A i \in Indexes : NoTxn.registry[i].token = NoToken
  BY DEF NoTxn, NoRow
<1>2. NoToken <= issued'
  BY DEF TypeOK, Token, NoToken
<1> QED BY <1>1, <1>2 DEF TxnInv

\* A transaction's invariant over its own steps.
LEMMA TxnOwn ==
    ASSUME TypeOK, TypeOK', HostInv, GuardNames, ImageInv, TxnsInv, NEW q \in Txns, TxnNext(q)
    PROVE  TxnInv(q)'
<1>1. TxnInv(q) /\ \A i \in Indexes : registry[i].token <= issued
  BY DEF TxnsInv
<1>2. CASE txn'[q] = NoTxn
  BY <1>2, TxnOff
<1>3. CASE /\ Begin(q)
           /\ txn'[q] = [NoTxn EXCEPT !.on = TRUE, !.fresh = TRUE, !.visible = live, !.registry = registry]
  <2>1. /\ txn'[q].on /\ txn'[q].changed = {} /\ txn'[q].visible = live /\ txn'[q].registry = registry
        /\ txn'[q].token = NoToken /\ txn'[q].plan = "none"
    BY <1>3 DEF NoTxn
  <2>2. live' = live /\ dead' = dead /\ registry' = registry /\ issued' = issued
    BY <1>3 DEF Begin, hostVars
  <2>3. NoToken <= issued'
    BY DEF TypeOK, Token, NoToken
  <2> QED BY <1>1, <2>1, <2>2, <2>3 DEF TxnInv
<1>4. ASSUME NEW i \in Indexes,
             Search(q, i) \/ MaintenanceCheck(q, i) \/ CreateFirst(q, i) \/ CreateShared(q, i)
      PROVE  TxnInv(q)'
  <2>1. /\ txn[q].on /\ txn'[q].on
        /\ txn'[q].visible = txn[q].visible /\ txn'[q].registry = txn[q].registry
        /\ txn'[q].lost = txn[q].lost /\ txn'[q].fresh = txn[q].fresh
        /\ txn'[q].changed = txn[q].changed
    BY <1>4, OwnWork
  <2>2. live' = live /\ dead' = dead /\ registry' = registry
    BY <1>4, OwnWork
  <2>3. issued \in Nat /\ (issued' = issued \/ issued' = issued + 1)
    BY <1>4, OwnWork DEF TypeOK, Token
  <2>4. ~ \E session \in {"none", "pinned", "other"} : Restart(session)
    BY <2>1 DEF Restart, NoTxn
  <2>5. txn[q] \in Txn /\ \A j \in Indexes : txn[q].registry[j].token \in Token
    BY DEF TypeOK, Txn, RegistryRow
  <2>6. ASSUME NEW j \in Indexes
        PROVE  /\ txn'[q].registry[j].token <= issued'
               /\ LiveToken(txn[q].registry[j].token)' => txn'[q].changed = {}
    <3>1. PICK t \in Token : t = txn[q].registry[j].token
      BY <2>5
    <3>2. t <= issued /\ (LiveToken(t) => txn[q].changed = {})
      BY <1>1, <3>1 DEF TxnInv
    <3>3. LiveToken(txn[q].registry[j].token)' <=> LiveToken(t)'
      BY <2>1, <3>1 DEF LiveToken
    <3>4. LiveToken(t)' => LiveToken(t)
      BY <1>4, <2>4, <3>2, LiveTokenFrom DEF Next, TxnNext
    <3> QED BY <2>1, <2>3, <3>1, <3>2, <3>3, <3>4 DEF Token
  <2>7. CASE Search(q, i) \/ MaintenanceCheck(q, i)
    <3>1. txn'[q].plan # "create" /\ txn'[q].token = txn[q].token /\ issued' = issued
      BY <2>7, OwnWork DEF Search, MaintenanceCheck
    <3> QED BY <1>1, <2>1, <2>2, <2>6, <3>1 DEF TxnInv
  <2>8. CASE CreateFirst(q, i)
    <3>1. txn[q].fresh /\ txn'[q].token = issued + 1 /\ issued' = issued + 1
      BY <2>8, OwnWork DEF CreateFirst, Barrier
    <3>2. txn'[q].changed = {} /\ txn'[q].token <= issued'
      BY <1>1, <2>1, <2>3, <3>1 DEF TxnInv
    <3> QED BY <1>1, <2>1, <2>2, <2>6, <3>2 DEF TxnInv
  <2>9. CASE CreateShared(q, i)
    <3>1. PICK t \in Token : /\ {txn[q].registry[j].token : j \in Siblings(q)} = {t}
                             /\ Usable([NoRow EXCEPT !.token = t])
                             /\ txn' = [txn EXCEPT ![q] = [@ EXCEPT !.plan = "create", !.target = i, !.token = t]]
      BY <2>9 DEF CreateShared
    <3>2. PICK j \in Indexes : txn[q].registry[j].token = t
      BY <3>1 DEF Siblings
    <3>3. LiveToken(t)
      <4>1. [NoRow EXCEPT !.token = t].token = t
        BY DEF NoRow
      <4> QED BY <3>1, <4>1 DEF Usable, GuardUsable, LiveToken
    <3>4. txn[q].changed = {} /\ t <= issued
      BY <1>1, <3>2, <3>3 DEF TxnInv
    <3>5. txn'[q] = [txn[q] EXCEPT !.plan = "create", !.target = i, !.token = t] /\ issued' = issued
      BY <2>9, <3>1 DEF TypeOK, CreateShared
    <3>6. txn'[q].token = t
      BY <2>5, <3>5 DEF Txn
    <3> QED BY <1>1, <2>1, <2>2, <2>6, <3>4, <3>5, <3>6 DEF TxnInv
  <2> QED BY <1>4, <2>7, <2>8, <2>9
<1>5. CASE End(q) \/ CreateAbort(q)
  BY <1>2, <1>5 DEF End, CreateAbort, TypeOK
<1>6. ASSUME NEW i \in Indexes, txn' = RegistryCommitted([txn EXCEPT ![q] = NoTxn], i) PROVE TxnInv(q)'
  <2>1. txn'[q] = NoTxn
    BY <1>6 DEF RegistryCommitted, TypeOK, NoTxn
  <2> QED BY <1>2, <2>1
<1>7. CASE Begin(q)
  BY <1>3, <1>7 DEF Begin, TypeOK
<1>8. txn[q].target \in Indexes
  BY DEF TypeOK, Txn
<1> QED BY <1>4, <1>5, <1>6, <1>7, <1>8 DEF TxnNext, DropIndex, CreateCommit, RefreshCommit

\* Every step keeps the invariant of every transaction.
LEMMA TxnsInvStep ==
    ASSUME TypeOK, TypeOK', HostInv, GuardNames, ImageInv, TxnsInv, [Next]_vars
    PROVE  TxnsInv'
<1>1. ASSUME NEW i \in Indexes PROVE registry'[i].token <= issued'
  <2>1. registry[i].token <= issued /\ issued \in Nat /\ registry[i].token \in Nat
    BY DEF TxnsInv, TypeOK, Token, RegistryRow
  <2>2. \A q \in Txns : txn[q].token <= issued
    BY DEF TxnsInv, TxnInv
  <2>3. issued' = issued \/ issued' = issued + 1
    <3>1. ASSUME NEW q \in Txns, TxnNext(q) PROVE issued' = issued \/ issued' = issued + 1
      BY <3>1 DEF TxnNext, Begin, End, Search, MaintenanceCheck, DropIndex, CreateFirst, CreateShared,
                  CreateCommit, CreateAbort, RefreshCommit
    <3>2. ASSUME HostNext PROVE issued' = issued
      BY <3>2 DEF HostNext, hostVars, AppendFlush, AppendCommit, AppendReject, Delete, PlanInPlace, WriteInPlace,
                  CommitInPlace, DropGuard, RecreateTable, BindStart, BindFinish, CheckpointStart, CheckpointWrite,
                  CheckpointFinish, Restart
    <3> QED BY <3>1, <3>2 DEF Next, vars
  <2>4. \A q \in Txns : txn[q].token \in Nat
    BY DEF TypeOK, Txn, Token
  <2> QED BY <2>1, <2>2, <2>3, <2>4, RegistryTokens DEF NoToken
<1>2. ASSUME NEW session \in {"none", "pinned", "other"}, Restart(session), NEW p \in Txns PROVE TxnInv(p)'
  BY <1>2, TxnOff DEF Restart
<1>3. ASSUME NEW p \in Txns, TxnNext(p) PROVE TxnInv(p)'
  BY <1>3, TxnOwn
<1>4. ASSUME NEW p \in Txns, ~TxnNext(p), ~ \E session \in {"none", "pinned", "other"} : Restart(session)
      PROVE  TxnInv(p)'
  <2>1. Keeps(p)
    <3>1. CASE UNCHANGED vars
      BY <3>1 DEF vars, Keeps
    <3> QED BY <1>4, <3>1, OthersKeep, HostKeeps DEF Next
  <2> QED BY <1>4, <2>1, TxnKept
<1> QED BY <1>1, <1>2, <1>3, <1>4 DEF TxnsInv

-----------------------------------------------------------------------------
(* Seals *)

\* What a restart finds stays sealed.
LEMMA StampedStep ==
    ASSUME TypeOK, TypeOK', GuardNames, Stamped, [Next]_vars
    PROVE  Stamped'
<1>0. /\ NoImage.token = NoToken /\ NoGuard.state = "absent" /\ NoCheckpoint.image = NoImage
      /\ iteration # Invalid /\ iteration + 1 # Invalid /\ 0 # Invalid
  BY DEF NoImage, NoGuard, NoCheckpoint, TypeOK, Iteration, Invalid
<1>1. CASE /\ guard' = guard \/ guard'.state \in {"absent", "bound"}
           /\ persisted' \in {persisted, NoImage, checkpoint.image}
           /\ checkpoint'.image \in {checkpoint.image, NoImage}
  BY <1>0, <1>1 DEF Stamped
<1>2. ASSUME NEW row, \/ guard' = AfterVerdict(guard, row) /\ leftover' = AfterVerdict(leftover, row)
                      \/ guard' = Sealed(guard) /\ leftover' = Sealed(leftover)
      PROVE  guard' = guard \/ guard'.state \in {"absent", "bound"}
  <2>1. guard \in Guard /\ guard' \in {AfterVerdict(guard, row), Sealed(guard)}
    BY <1>2 DEF TypeOK
  <2>2. guard'.state = guard.state /\ (guard.state # "bound" => guard' = guard)
    BY <2>1, SealKeeps
  <2> QED BY <2>2
<1>3. ASSUME NEW q \in Txns, TxnNext(q) PROVE Stamped'
  <2>1. ASSUME NEW i \in Indexes, Search(q, i) \/ MaintenanceCheck(q, i) PROVE Stamped'
    <3> DEFINE row == txn[q].registry[i]
    <3>1. /\ guard' = AfterVerdict(guard, row) /\ leftover' = AfterVerdict(leftover, row)
          /\ persisted' = persisted /\ checkpoint' = checkpoint
      BY <2>1 DEF Search, MaintenanceCheck, hostVars
    <3> HIDE DEF row
    <3> QED BY <1>1, <1>2, <3>1
  <2>2. ASSUME NEW i \in Indexes, CreateShared(q, i) PROVE Stamped'
    <3>1. PICK t \in Token : /\ guard' = AfterVerdict(guard, [NoRow EXCEPT !.token = t])
                             /\ leftover' = AfterVerdict(leftover, [NoRow EXCEPT !.token = t])
      BY <2>2 DEF CreateShared
    <3>2. persisted' = persisted /\ checkpoint' = checkpoint
      BY <2>2 DEF CreateShared, hostVars
    <3> QED BY <1>1, <1>2, <3>1, <3>2
  <2>3. CASE CreateCommit(q)
    <3>1. CASE UNCHANGED <<persisted, checkpoint>>
      BY <1>1, <2>3, <3>1 DEF CreateCommit
    <3>2. CASE UncommittedGuard /\ persisted' = SerializeToWAL(guard) /\ checkpoint' = WithoutImage
      <4>1. guard.state = "bound" /\ guard' = guard
        BY <2>3, <3>2 DEF GuardNames, CreateCommit
      <4>2. persisted'.checkpoint_iteration \in {iteration, 0}
        BY <3>2, <4>1 DEF SerializeToWAL, ImageOf
      <4>3. checkpoint'.image = NoImage
        BY <3>2 DEF WithoutImage, TypeOK, Checkpoint
      <4> QED BY <1>0, <4>1, <4>2, <4>3 DEF Stamped
    <3> QED BY <2>3, <3>1, <3>2 DEF CreateCommit
  <2>4. CASE CreateAbort(q)
    <3>1. guard' = guard \/ (guard' = leftover /\ leftover.state \in {"absent", "bound"})
      BY <2>4 DEF CreateAbort, GuardNames
    <3> QED BY <1>1, <2>4, <3>1 DEF CreateAbort, hostVars
  <2>5. ASSUME NEW i \in Indexes, CreateFirst(q, i) PROVE Stamped'
    <3>1. guard'.state = "bound" /\ persisted' = persisted /\ checkpoint' = checkpoint
      BY <2>5 DEF CreateFirst, hostVars
    <3> QED BY <1>1, <3>1
  <2>6. ASSUME NEW i \in Indexes, DropIndex(q, i) PROVE Stamped'
    BY <1>0, <1>1, <2>6 DEF DropIndex, WithoutImage, TypeOK, Checkpoint
  <2> QED BY <1>1, <1>3, <2>1, <2>2, <2>3, <2>4, <2>5, <2>6 DEF TxnNext, hostVars, Begin, End, RefreshCommit
<1>4. CASE HostNext
  <2>1. ASSUME NEW n \in 1 .. MaxAppend, AppendFlush(n) PROVE Stamped'
    <3>1. guard' = guard \/ (guard.state = "bound" /\ guard' = Observe(guard, next, next + n - 1))
      BY <2>1 DEF AppendFlush, ObserveIfBound
    <3>2. guard' = guard \/ guard'.state = "bound"
      BY <3>1 DEF Observe, TypeOK, Guard
    <3> QED BY <1>1, <2>1, <3>2 DEF AppendFlush
  <2>2. CASE BindStart
    <3>1. /\ guard.state = "unbound" /\ guard'.checkpoint_iteration = guard.checkpoint_iteration
          /\ guard'.advance_iteration = guard.advance_iteration
          /\ persisted' = persisted /\ checkpoint' = checkpoint
      BY <2>2 DEF BindStart, hostVars, TypeOK, Guard
    <3> QED BY <3>1 DEF Stamped
  <2>3. CASE BindFinish
    <3> DEFINE stored == [ReadStoredGuardState(guard) EXCEPT !.state = "bound", !.replay = Invalid]
    <3>1. stored \in Guard /\ stored.state = "bound"
      BY StoredKeeps DEF TypeOK
    <3>2. guard' = stored \/ guard' = Observe(stored, guard.replay, next - 1)
      BY <2>3 DEF BindFinish, BoundFromStorage, stored
    <3> HIDE DEF stored
    <3>3. guard'.state = "bound"
      BY <3>1, <3>2 DEF Observe, Guard
    <3> QED BY <1>1, <2>3, <3>3 DEF BindFinish, hostVars
  <2>4. CASE CheckpointWrite
    <3> DEFINE committed == IF UncommittedGuard THEN leftover ELSE guard
    <3>1. /\ checkpoint'.image = IF committed.state = "absent" THEN NoImage ELSE SerializeToDisk(committed)
          /\ persisted' = persisted
      BY <2>4 DEF CheckpointWrite, TypeOK, Checkpoint
    <3>2. guard' = guard \/ guard'.state \in {"absent", "bound"}
      BY <1>2, <2>4 DEF CheckpointWrite
    <3>3. committed.state \in {"absent", "bound"} \/ committed = guard
      BY DEF GuardNames
    <3>4. guard.state # "binding" /\ guard.state \in {"absent", "unbound", "binding", "bound"}
      BY <2>4 DEF CheckpointWrite, TypeOK, Guard
    <3> HIDE DEF committed
    <3>5. checkpoint'.image.token # NoToken => checkpoint'.image.checkpoint_iteration # Invalid
      <4>1. CASE committed.state = "bound"
        BY <1>0, <3>1, <4>1 DEF SerializeToDisk, ImageOf
      <4>2. CASE committed.state = "unbound"
        <5>1. checkpoint'.image.checkpoint_iteration = guard.checkpoint_iteration /\ guard.state = "unbound"
          BY <3>1, <3>3, <4>2 DEF SerializeToDisk, ImageOf
        <5> QED BY <5>1 DEF Stamped
      <4> QED BY <1>0, <3>1, <3>3, <3>4, <4>1, <4>2
    <3> QED BY <3>1, <3>2, <3>5 DEF Stamped
  <2>5. CASE CheckpointFinish
    BY <1>0, <1>1, <2>5 DEF CheckpointFinish
  <2>6. CASE DropGuard \/ RecreateTable
    BY <1>0, <1>1, <2>6 DEF DropGuard, RecreateTable, WithoutImage, TypeOK, Checkpoint
  <2>7. ASSUME NEW session \in {"none", "pinned", "other"}, Restart(session) PROVE Stamped'
    <3>1. /\ guard' = UnboundGuard(persisted, walFrom, next')
          /\ persisted' = persisted /\ checkpoint' = NoCheckpoint
      BY <2>7 DEF Restart
    <3>2. guard'.state = "unbound" => /\ persisted.token # NoToken
                                      /\ guard'.checkpoint_iteration = persisted.checkpoint_iteration
                                      /\ guard'.advance_iteration = Invalid
      BY <1>0, <3>1 DEF UnboundGuard
    <3>3. guard'.state # "binding"
      BY <1>0, <3>1 DEF UnboundGuard
    <3> QED BY <1>0, <3>1, <3>2, <3>3 DEF Stamped
  <2>8. ASSUME NEW kind \in {"full", "concurrent"}, CheckpointStart(kind) PROVE Stamped'
    BY <1>0, <1>1, <2>8 DEF CheckpointStart, NoCheckpoint
  <2> QED
    BY <1>1, <1>4, <2>1, <2>2, <2>3, <2>4, <2>5, <2>6, <2>7, <2>8
       DEF HostNext, hostVars, AppendCommit, AppendReject, Delete, PlanInPlace, WriteInPlace, CommitInPlace
<1> QED BY <1>1, <1>3, <1>4 DEF Next, vars

-----------------------------------------------------------------------------
(* Views *)

\* The row a create commits is covered and its mark was allocated, while the
\* guard it records is installed.
LEMMA CreatedRow ==
    ASSUME TypeOK, HostInv, TxnsInv, NEW q \in Txns, CreateCommit(q), NEW t \in Token, LiveToken(t),
           NEW i \in Indexes, i = txn[q].target, registry'[i].token = t
    PROVE  /\ \A r \in live : r <= registry'[i].hwm => r \in registry'[i].posted
           /\ registry'[i].hwm <= next - 1
<1> DEFINE m == HighestVisible(q, -1)
<1>1. registry'[i] = [token |-> txn[q].token, hwm |-> m, posted |-> txn[q].visible \ txn[q].changed]
  BY DEF CreateCommit, TypeOK
<1>2. -1 \in Mark /\ next \in Nat
  BY GuardConstants DEF Mark, TypeOK
<1>3. m \in txn[q].visible \union {-1} /\ m \in Mark
  BY <1>2, HighestVisibleIs
<1>4. txn[q].plan = "create" /\ txn[q].changed = {}
  BY <1>1 DEF CreateCommit, TxnsInv, TxnInv
<1>5. /\ \A r \in live, v \in txn[q].visible : r <= v => r \in txn[q].visible
      /\ \A v \in txn[q].visible : v \in live \union dead
  BY DEF TxnsInv, TxnInv
<1>6. \A r \in live \union dead : r < next /\ r \in Nat
  BY DEF HostInv, TypeOK, Rowid
<1> HIDE DEF m
<1>7. ASSUME NEW r \in live, r <= m PROVE r \in txn[q].visible
  BY <1>3, <1>5, <1>6, <1>7
<1>8. m <= next - 1
  BY <1>2, <1>3, <1>5, <1>6
<1> QED BY <1>1, <1>4, <1>7, <1>8

\* The row a refresh commits keeps the token, extends the cover and moves the
\* mark no further than the last rowid allocated.
LEMMA RefreshedRow ==
    ASSUME TypeOK, HostInv, TxnsInv, NEW q \in Txns, NEW m \in Mark, RefreshCommit(q, m),
           NEW t \in Token, LiveToken(t), NEW i \in Indexes, i = txn[q].target, registry'[i].token = t
    PROVE  /\ registry[i].token = t
           /\ (\A r \in live : r <= registry[i].hwm => r \in registry[i].posted) =>
                 \A r \in live : r <= registry'[i].hwm => r \in registry'[i].posted
           /\ registry'[i].hwm <= registry[i].hwm \/ registry'[i].hwm <= next - 1
<1> DEFINE old == txn[q].registry[i].hwm
           high == HighestVisible(q, old)
<1>1. /\ registry'[i].token = registry[i].token /\ registry'[i].hwm = m
      /\ registry'[i].posted = registry[i].posted \union
           {r \in txn[q].visible \ txn[q].changed : old < r /\ r <= m}
      /\ m \in old .. high
  BY DEF RefreshCommit, TypeOK
<1>2. txn[q].on
  BY OffPlan DEF RefreshCommit
<1>3. txn[q].registry[i].token = registry[i].token /\ old = registry[i].hwm
  BY <1>2 DEF RefreshCommit, TxnsInv, TxnInv
<1>4. txn[q].changed = {}
  BY <1>1, <1>3 DEF TxnsInv, TxnInv
<1>5. /\ \A r \in live, v \in txn[q].visible : r <= v => r \in txn[q].visible
      /\ \A v \in txn[q].visible : v \in live \union dead
  BY DEF TxnsInv, TxnInv
<1>6. \A r \in live \union dead : r < next /\ r \in Nat
  BY DEF HostInv, TypeOK, Rowid
<1>7. old \in Mark /\ old \in Int /\ next \in Nat
  BY DEF TypeOK, Txn, RegistryRow, Mark
<1>8. high \in txn[q].visible \union {old} /\ high \in Mark
  BY <1>7, HighestVisibleIs
<1> HIDE DEF old, high
<1>9. m \in Int /\ high \in Int /\ m <= high
  BY <1>1, <1>7, <1>8 DEF Mark
<1>10. m <= old \/ (high \in txn[q].visible /\ high < next)
  BY <1>5, <1>6, <1>7, <1>8, <1>9
<1>11. ASSUME NEW r \in live, r <= m, ~(r <= old) PROVE r \in txn[q].visible
  BY <1>5, <1>6, <1>7, <1>8, <1>9, <1>11
<1>12. m <= old \/ m <= next - 1
  BY <1>7, <1>9, <1>10
<1> QED BY <1>1, <1>3, <1>4, <1>6, <1>7, <1>11, <1>12

\* Views of an installed guard stay safe, unless rows are published at rowids
\* below the mark of a committed row.
LEMMA ViewsStep ==
    ASSUME TypeOK, TypeOK', HostInv, GuardNames, TxnsInv, [Next]_vars, NEW t \in Token, LiveToken(t),
           NEW b \in Int, NEW c \in Int, ViewsSafe(t, b), b <= c, next - 1 <= b,
           \/ pending = Invalid \/ next' = next
           \/ \A i \in Indexes : registry[i].token = t => registry[i].hwm < next
    PROVE  ViewsSafe(t, c)'
<1> USE DEF hostVars
<1>1. t # NoToken /\ NoRow.token = NoToken /\ \A i \in Indexes : NoTxn.registry[i].token = NoToken
  BY DEF LiveToken, NoRow, NoTxn
<1>2. \A i \in Indexes : /\ registry[i] \in RegistryRow /\ registry[i].hwm \in Int /\ registry'[i].hwm \in Int
  BY DEF TypeOK, RegistryRow, Mark
<1>3. /\ \A i \in Indexes : RowSafe(registry[i], live, t, b)
      /\ \A p \in Txns, i \in Indexes : RowSafe(txn[p].registry[i], txn[p].visible, t, b)
  BY DEF ViewsSafe
<1>4. next \in Nat /\ \A r \in live : r \in Nat /\ r < next
  BY DEF TypeOK, HostInv, Rowid
<1>5. ASSUME NEW i \in Indexes PROVE RowSafe(registry'[i], live', t, c)
  <2>1. RowSafe(registry[i], live, t, b)
    BY <1>3
  <2>2. CASE registry'[i] = registry[i] /\ live' \subseteq live
    BY <1>2, <2>1, <2>2 DEF RowSafe
  <2>3. CASE registry'[i] = NoRow
    BY <1>1, <2>3 DEF RowSafe
  <2>4. CASE pending # Invalid /\ Publish
    <3>1. /\ live' = live \union (next .. pending)
          /\ registry'[i] = [registry[i] EXCEPT !.posted = @ \ (next .. pending)]
      BY <2>4 DEF Publish
    <3>2. /\ registry'[i].token = registry[i].token /\ registry'[i].hwm = registry[i].hwm
          /\ registry'[i].posted = registry[i].posted \ (next .. pending)
      BY <1>2, <3>1 DEF RegistryRow
    <3>3. SUFFICES ASSUME registry[i].token = t
                   PROVE  /\ \A r \in live' : r <= registry[i].hwm => r \in registry'[i].posted
                          /\ registry[i].hwm <= c
      BY <3>2 DEF RowSafe
    <3>6. next' # next
      BY <1>4, <2>4 DEF Publish, TypeOK, Rowid, HostInv
    <3>4. registry[i].hwm < next /\ registry[i].hwm <= b /\ \A r \in live : r <= registry[i].hwm => r \in registry[i].posted
      BY <2>1, <2>4, <3>3, <3>6 DEF RowSafe
    <3>5. ASSUME NEW r \in live', r <= registry[i].hwm PROVE r \in live /\ r \notin next .. pending
      <4>1. r \in live \/ r \in next .. pending
        BY <3>1
      <4>2. pending \in Int
        BY <2>4 DEF TypeOK, Rowid
      <4>3. r \notin next .. pending
        BY <1>2, <1>4, <3>4, <3>5, <4>1, <4>2
      <4> QED BY <4>1, <4>3
    <3> QED BY <1>2, <3>2, <3>4, <3>5
  <2>5. ASSUME NEW q \in Txns, CreateCommit(q) PROVE RowSafe(registry'[i], live', t, c)
    <3>1. CASE i = txn[q].target
      <4>1. registry'[i].token = t => registry'[i].hwm <= next - 1
        BY <2>5, <3>1, CreatedRow
      <4>2. registry'[i].token = t => \A r \in live : r <= registry'[i].hwm => r \in registry'[i].posted
        BY <2>5, <3>1, CreatedRow
      <4>3. live' = live
        BY <2>5 DEF CreateCommit
      <4> QED BY <1>2, <1>4, <4>1, <4>2, <4>3 DEF RowSafe
    <3>2. CASE i # txn[q].target
      BY <2>2, <2>5, <3>2 DEF CreateCommit, TypeOK
    <3> QED BY <3>1, <3>2
  <2>6. ASSUME NEW q \in Txns, NEW m \in Mark, RefreshCommit(q, m) PROVE RowSafe(registry'[i], live', t, c)
    <3>1. CASE i = txn[q].target
      <4>1. registry'[i].token = t =>
              /\ registry[i].token = t
              /\ (\A r \in live : r <= registry[i].hwm => r \in registry[i].posted) =>
                    \A r \in live : r <= registry'[i].hwm => r \in registry'[i].posted
              /\ registry'[i].hwm <= registry[i].hwm \/ registry'[i].hwm <= next - 1
        BY <2>6, <3>1, RefreshedRow
      <4>2. live' = live
        BY <2>6 DEF RefreshCommit
      <4> QED BY <1>2, <1>4, <2>1, <4>1, <4>2 DEF RowSafe
    <3>2. CASE i # txn[q].target
      BY <2>2, <2>6, <3>2 DEF RefreshCommit, TypeOK
    <3> QED BY <3>1, <3>2
  <2>7. ASSUME NEW q \in Txns, TxnNext(q) PROVE RowSafe(registry'[i], live', t, c)
    <3>1. ASSUME NEW j \in Indexes, DropIndex(q, j) PROVE RowSafe(registry'[i], live', t, c)
      BY <2>2, <2>3, <3>1 DEF DropIndex, TypeOK
    <3> QED BY <2>2, <2>5, <2>6, <2>7, <3>1
            DEF TxnNext, Begin, End, Search, MaintenanceCheck, CreateFirst, CreateShared, CreateAbort
  <2>8. ASSUME NEW r \in Rowid, Delete(r) PROVE RowSafe(registry'[i], live', t, c)
    BY <2>2, <2>8 DEF Delete
  <2>9. CASE RecreateTable
    BY <1>2, <1>3, <2>9 DEF RecreateTable, RowSafe, RegistryRow
  <2>10. \A w \in Writers : ~CommitInPlace(w)
    BY InPlaceUnguarded
  <2>11. CASE HostNext
    BY <2>2, <2>4, <2>8, <2>9, <2>10, <2>11
       DEF HostNext, AppendFlush, AppendCommit, AppendReject, PlanInPlace, WriteInPlace, DropGuard, BindStart,
           BindFinish, CheckpointStart, CheckpointWrite, CheckpointFinish, Restart
  <2> QED BY <2>2, <2>7, <2>11 DEF Next, vars
<1>6. ASSUME NEW p \in Txns, NEW i \in Indexes PROVE RowSafe(txn'[p].registry[i], txn'[p].visible, t, c)
  <2>1. txn[p].registry[i].hwm \in Int
    BY DEF TypeOK, Txn, RegistryRow, Mark
  <2>2. CASE txn'[p] = NoTxn
    BY <1>1, <2>2 DEF RowSafe
  <2>3. CASE txn'[p].registry = txn[p].registry /\ txn'[p].visible = txn[p].visible
    BY <1>3, <2>1, <2>3 DEF RowSafe
  <2>4. CASE txn'[p] = [NoTxn EXCEPT !.on = TRUE, !.fresh = TRUE, !.visible = live, !.registry = registry]
    <3>1. txn'[p].registry = registry /\ txn'[p].visible = live
      BY <2>4 DEF NoTxn
    <3> QED BY <1>2, <1>3, <3>1 DEF RowSafe
  <2> QED BY <2>2, <2>3, <2>4, ViewsFrom
<1> QED BY <1>5, <1>6 DEF ViewsSafe

\* A mark is at or past the next rowid only if one was before, while no rowid
\* is handed back.
LEMMA ExposedStep ==
    ASSUME TypeOK, TypeOK', HostInv, GuardNames, TxnsInv, [Next]_vars, NEW t \in Token, LiveToken(t),
           next <= next', Exposed(t)'
    PROVE  Exposed(t)
<1>1. t # NoToken /\ NoRow.token = NoToken /\ \A i \in Indexes : NoTxn.registry[i].token = NoToken
  BY DEF LiveToken, NoRow, NoTxn
<1>2. next \in Nat /\ next' \in Nat
  BY DEF TypeOK
<1>3. ASSUME NEW i \in Indexes, registry'[i].token = t, registry'[i].hwm >= next' PROVE Exposed(t)
  <2>0. registry[i].hwm \in Int /\ registry'[i].hwm \in Int
    BY DEF TypeOK, RegistryRow, Mark
  <2>1. CASE registry'[i].token = registry[i].token /\ registry'[i].hwm = registry[i].hwm
    BY <1>2, <1>3, <2>0, <2>1 DEF Exposed
  <2>2. ASSUME NEW q \in Txns, CreateCommit(q), txn[q].target = i PROVE FALSE
    <3>1. registry'[i].hwm <= next - 1
      BY <1>3, <2>2, CreatedRow
    <3> QED BY <1>2, <1>3, <2>0, <3>1
  <2>3. ASSUME NEW q \in Txns, NEW m \in Mark, RefreshCommit(q, m), txn[q].target = i PROVE Exposed(t)
    <3>1. registry[i].token = t /\ (registry'[i].hwm <= registry[i].hwm \/ registry'[i].hwm <= next - 1)
      BY <1>3, <2>3, RefreshedRow
    <3>2. registry[i].hwm >= next
      BY <1>2, <1>3, <2>0, <3>1
    <3> QED BY <3>1, <3>2 DEF Exposed
  <2> QED BY <1>1, <1>3, <2>1, <2>2, <2>3, RegistryFromStep DEF RegistryFrom
<1>4. ASSUME NEW p \in Txns, NEW i \in Indexes,
             txn'[p].registry[i].token = t, txn'[p].registry[i].hwm >= next'
      PROVE  Exposed(t)
  <2>0. txn[p].registry[i].hwm \in Int /\ registry[i].hwm \in Int
    BY DEF TypeOK, Txn, RegistryRow, Mark
  <2>1. CASE txn'[p] = NoTxn
    BY <1>1, <1>4, <2>1
  <2>2. CASE txn'[p].registry = txn[p].registry
    BY <1>2, <1>4, <2>0, <2>2 DEF Exposed
  <2>3. CASE txn'[p] = [NoTxn EXCEPT !.on = TRUE, !.fresh = TRUE, !.visible = live, !.registry = registry]
    <3>1. txn'[p].registry = registry
      BY <2>3 DEF NoTxn
    <3> QED BY <1>2, <1>4, <2>0, <3>1 DEF Exposed
  <2> QED BY <2>1, <2>2, <2>3, ViewsFrom
<1> QED BY <1>3, <1>4 DEF Exposed

-----------------------------------------------------------------------------
(* Clean guards *)

\* While a guard is clean the views that record it stay safe.
LEMMA CleanViews ==
    ASSUME TypeOK, TypeOK', HostInv, GuardNames, TxnsInv, [Next]_vars,
           NEW g \in Guard, GuardInv(g), GuardSafe(g), Clean(g), g.token \in {guard.token, leftover.token},
           NEW c \in Int, Reach(g) <= c
    PROVE  /\ LiveToken(g.token)
           /\ ViewsSafe(g.token, c)'
           /\ next <= next' /\ Exposed(g.token)' => Exposed(g.token)
<1>1. LiveToken(g.token) /\ g.token \in Token
  BY DEF Clean, GuardInv, LiveToken, Guard
<1>2. next \in Nat /\ g.max_seen \in Int /\ Reach(g) \in Int
  BY DEF TypeOK, Guard, Mark, Reach, Larger
<1>3. next - 1 <= Reach(g)
  BY <1>2 DEF GuardSafe, Reach, Larger
<1>4. ASSUME pending # Invalid, NEW i \in Indexes, registry[i].token = g.token PROVE registry[i].hwm < next
  <2>1. g.state = "bound"
    BY <1>4 DEF GuardInv, Clean, Present, Guard
  <2>2. ~Exposed(g.token)
    BY <1>4, <2>1 DEF GuardSafe
  <2>3. registry[i].hwm \in Int
    BY DEF TypeOK, RegistryRow, Mark
  <2> QED BY <1>2, <1>4, <2>2, <2>3 DEF Exposed
<1>5. ViewsSafe(g.token, Reach(g))
  BY DEF GuardSafe
<1>6. ViewsSafe(g.token, c)'
  BY <1>1, <1>2, <1>3, <1>4, <1>5, ViewsStep
<1> QED BY <1>1, <1>6, ExposedStep

\* A guard that keeps what it has seen stays safe while no rowid moves.
LEMMA SafeKept ==
    ASSUME TypeOK, TypeOK', HostInv, GuardNames, TxnsInv, [Next]_vars,
           NEW g \in Guard, GuardInv(g), GuardSafe(g), g.token \in {guard.token, leftover.token},
           NEW h \in Guard, h.state = "bound" <=> g.state = "bound",
           h.token = g.token, h.max_seen = g.max_seen, h.advance_iteration = g.advance_iteration,
           h.replay = g.replay, Clean(h) => Clean(g),
           next' = next, iteration' = iteration, pending' \in {pending, Invalid}
    PROVE  GuardSafe(h)'
<1> SUFFICES ASSUME Clean(h)'
             PROVE  (/\ ViewsSafe(h.token, Reach(h))
                     /\ h.state = "bound" => pending <= h.max_seen /\ next - 1 <= h.max_seen
                     /\ h.state = "bound" /\ Exposed(h.token) =>
                          /\ pending = Invalid
                          /\ h.advance_iteration = Invalid \/ h.advance_iteration < iteration
                     /\ h.state # "bound" =>
                          IF h.replay = Invalid THEN next - 1 <= h.max_seen ELSE h.replay < next)'
  BY DEF GuardSafe
<1>1. Clean(g)
  BY DEF Clean, Present
<1>2. Reach(h)' = Reach(g) /\ Reach(g) \in Int
  BY DEF Reach, TypeOK, Guard, Mark, Larger
<1> PICK b \in Int : b = Reach(g)
  BY <1>2
<1>3. /\ ViewsSafe(g.token, b)'
      /\ Exposed(g.token)' => Exposed(g.token)
  BY <1>1, CleanViews DEF TypeOK
<1>4. ViewsSafe(h.token, Reach(h))'
  BY <1>2, <1>3
<1>5. Invalid <= h.max_seen
  BY DEF Guard, Mark, Invalid
<1>6. Exposed(h.token)' => Exposed(g.token)
  BY <1>3
<1> QED BY <1>1, <1>4, <1>5, <1>6 DEF GuardSafe

\* A flush that leaves the guard clean issued no rowid below its marks.
LEMMA SafeFlush ==
    ASSUME TypeOK, TypeOK', HostInv, GuardNames, TxnsInv, NEW n \in 1 .. MaxAppend, AppendFlush(n),
           NEW g \in Guard, GuardInv(g), GuardSafe(g), g.token \in {guard.token, leftover.token},
           g.state \in {"absent", "bound"}, NEW h, h = ObserveIfBound(g, next, next + n - 1)
    PROVE  GuardSafe(h)'
<1> DEFINE last == next + n - 1
<1>0. [Next]_vars
  BY DEF Next, HostNext
<1>1. /\ last \in Mark /\ next \in Nat /\ last \in Int /\ next <= last
      /\ pending' = last /\ next' = next /\ iteration' = iteration /\ registry' = registry
      /\ txn' = txn /\ live' = live
  BY GuardConstants DEF AppendFlush, TypeOK, Mark
<1>2. CASE g.state = "absent"
  BY <1>2 DEF ObserveIfBound, GuardSafe, Clean, Present
<1>3. CASE g.state = "bound"
  <2>1. h = Observe(g, next, last)
    BY <1>3 DEF ObserveIfBound
  <2> HIDE DEF last
  <2>2. /\ h \in Guard
        /\ h.state = "bound" /\ h.token = g.token /\ h.protection = g.protection
        /\ h.checkpoint_iteration = g.checkpoint_iteration
        /\ h.max_seen = Larger(g.max_seen, last)
        /\ h.unsafe_reuse <=> \/ g.unsafe_reuse
                              \/ /\ next <= g.max_seen
                                 /\ \/ g.advance_iteration = Invalid
                                    \/ ObservableCheckpointIteration # g.advance_iteration
    BY <1>1, <1>3, <2>1, ObserveKeeps
  <2>3. SUFFICES ASSUME Clean(h)'
                 PROVE  /\ ViewsSafe(h.token, h.max_seen)'
                        /\ last <= h.max_seen /\ next - 1 <= h.max_seen
                        /\ ~Exposed(h.token)'
    BY <1>1, <2>2 DEF GuardSafe, Reach
  <2>4. Clean(g)
    BY <1>1, <1>3, <2>2, <2>3 DEF Clean, Present
  <2>5. g.max_seen \in Int /\ h.max_seen \in Int /\ last <= h.max_seen /\ g.max_seen <= h.max_seen
    BY <1>1, <2>2 DEF Guard, Mark, Larger
  <2>6. Reach(g) = g.max_seen
    BY <1>3 DEF Reach
  <2>7. ViewsSafe(g.token, h.max_seen)' /\ (Exposed(g.token)' => Exposed(g.token))
    BY <1>0, <1>1, <2>4, <2>5, <2>6, CleanViews
  <2>8. ~Exposed(g.token)
    <3>1. SUFFICES ASSUME Exposed(g.token) PROVE FALSE
      OBVIOUS
    <3>2. g.advance_iteration = Invalid \/ g.advance_iteration < iteration
      BY <1>3, <2>4, <3>1 DEF GuardSafe
    <3>3. ViewsSafe(g.token, g.max_seen)
      BY <2>4, <2>6 DEF GuardSafe
    <3>4. /\ \A i \in Indexes : registry[i].hwm \in Int
          /\ \A q \in Txns, i \in Indexes : txn[q].registry[i].hwm \in Int
      BY DEF TypeOK, RegistryRow, Txn, Mark
    <3>5. next <= g.max_seen
      BY <1>1, <2>5, <3>1, <3>3, <3>4 DEF Exposed, ViewsSafe, RowSafe
    <3>6. ~h.unsafe_reuse
      BY <2>3 DEF Clean
    <3>7. g.advance_iteration # Invalid /\ ObservableCheckpointIteration = g.advance_iteration
      BY <2>2, <3>5, <3>6
    <3>8. g.advance_iteration = iteration /\ iteration \in Int
      BY <3>7, Observable DEF TypeOK, Iteration
    <3> QED BY <3>2, <3>7, <3>8
  <2> QED BY <1>1, <2>2, <2>5, <2>7, <2>8
<1> QED BY <1>2, <1>3

\* The rows of a flush become visible past every mark that a clean guard protects.
LEMMA SafePublish ==
    ASSUME TypeOK, TypeOK', HostInv, GuardNames, TxnsInv, AppendCommit,
           NEW g \in Guard, GuardInv(g), GuardSafe(g), g.token \in {guard.token, leftover.token}
    PROVE  GuardSafe(g)'
<1>0. [Next]_vars
  BY DEF Next, HostNext
<1>1. /\ next \in Nat /\ pending \in Nat /\ next' = pending + 1 /\ pending' = Invalid /\ iteration' = iteration
      /\ next <= pending
  BY DEF AppendCommit, Publish, TypeOK, Rowid, HostInv
<1>2. SUFFICES ASSUME Clean(g) PROVE GuardSafe(g)'
  BY <1>1 DEF GuardSafe, Clean
<1>3. g.state = "bound"
  BY <1>2, AppendCommit DEF GuardInv, Clean, Present, Guard, AppendCommit
<1>4. /\ pending <= g.max_seen /\ ~Exposed(g.token)
  BY <1>2, <1>3 DEF GuardSafe, AppendCommit
<1>5. Reach(g) = g.max_seen /\ g.max_seen \in Int
  BY <1>3 DEF Reach, Guard, Mark
<1>6. ViewsSafe(g.token, g.max_seen)' /\ ~Exposed(g.token)'
  BY <1>0, <1>1, <1>2, <1>4, <1>5, CleanViews
<1> QED BY <1>1, <1>3, <1>4, <1>5, <1>6 DEF GuardSafe, Reach, Invalid

\* A checkpoint that hands rowids back also advances the iteration.
LEMMA SafeCheckpoint ==
    ASSUME TypeOK, TypeOK', HostInv, GuardNames, TxnsInv, CheckpointFinish,
           NEW g \in Guard, GuardInv(g), GuardSafe(g), g.token \in {guard.token, leftover.token}
    PROVE  GuardSafe(g)'
<1>0. [Next]_vars
  BY DEF Next, HostNext
<1>1. /\ next \in Nat /\ next' \in Nat /\ next' <= next
      /\ checkpoint.kind = "full" \/ next' = next
      /\ checkpoint.kind = "full" => pending = Invalid
      /\ pending' = pending
      /\ iteration \in Int /\ iteration' = IF InMemory THEN iteration ELSE iteration + 1
  BY DEF CheckpointFinish, TypeOK, Iteration, HostInv
<1>2. SUFFICES ASSUME Clean(g)' PROVE GuardSafe(g)'
  BY DEF GuardSafe
<1>3. /\ g.checkpoint_iteration <= iteration /\ g.checkpoint_iteration \in Int
      /\ g.advance_iteration <= iteration /\ g.advance_iteration \in Int
      /\ InMemory => g.advance_iteration = Invalid /\ g.state \in {"absent", "bound"}
  BY DEF GuardInv, Guard, OptSeal, OptIteration, Iteration, Invalid
<1>4. g.state = "bound"
  BY <1>1, <1>2, <1>3 DEF Clean, Present
<1>5. Clean(g)
  BY <1>1, <1>2, <1>3, <1>4 DEF Clean, Present
<1>6. Reach(g) = g.max_seen /\ g.max_seen \in Int
  BY <1>4 DEF Reach, Guard, Mark
<1>7. ViewsSafe(g.token, g.max_seen)' /\ (next' = next /\ Exposed(g.token)' => Exposed(g.token))
  BY <1>0, <1>1, <1>5, <1>6, CleanViews
<1>8. /\ pending <= g.max_seen /\ next - 1 <= g.max_seen
      /\ Exposed(g.token) => /\ pending = Invalid
                             /\ g.advance_iteration = Invalid \/ g.advance_iteration < iteration
  BY <1>4, <1>5 DEF GuardSafe
<1>9. pending' <= g.max_seen /\ next' - 1 <= g.max_seen
  BY <1>1, <1>6, <1>8
<1>10. Exposed(g.token)' => /\ pending' = Invalid
                            /\ g.advance_iteration = Invalid \/ g.advance_iteration < iteration'
  BY <1>1, <1>3, <1>7, <1>8
<1> QED BY <1>4, <1>7, <1>9, <1>10 DEF GuardSafe, Reach

\* Binding replays the buffered appends through the guard.
LEMMA SafeBind ==
    ASSUME TypeOK, TypeOK', HostInv, GuardNames, TxnsInv, Stamped, GuardSafe(guard), BindFinish,
           NEW h, h = BoundFromStorage(guard)
    PROVE  GuardSafe(h)'
<1>0. [Next]_vars
  BY DEF Next, HostNext
<1> DEFINE stored == [ReadStoredGuardState(guard) EXCEPT !.state = "bound", !.replay = Invalid]
<1>1. /\ guard \in Guard /\ guard.state = "binding" /\ GuardInv(guard) /\ pending = Invalid
      /\ guard.checkpoint_iteration # Invalid /\ guard.advance_iteration = Invalid
  BY DEF BindFinish, TypeOK, GuardNames, GuardInv, Stamped
<1>2. /\ stored \in Guard /\ stored.state = "bound" /\ stored.token = guard.token
      /\ stored.advance_iteration = Invalid
      /\ stored.max_seen = guard.max_seen
      /\ stored.protection => stored.checkpoint_iteration = guard.checkpoint_iteration
      /\ stored.protection /\ ~stored.unsafe_reuse => guard.protection /\ ~guard.unsafe_reuse
  <2>1. stored = [ReadStoredGuardState(guard) EXCEPT !.state = "bound", !.replay = Invalid]
    OBVIOUS
  <2> HIDE DEF stored
  <2>2. /\ stored.advance_iteration = guard.advance_iteration
        /\ stored \in Guard /\ stored.state = "bound" /\ stored.token = guard.token
        /\ stored.max_seen = guard.max_seen
    BY <1>1, <2>1, StoredKeeps
  <2>3. stored.protection => stored.checkpoint_iteration = guard.checkpoint_iteration
    BY <1>1, <2>1, StoredKeeps
  <2>4. stored.protection /\ ~stored.unsafe_reuse => guard.protection /\ ~guard.unsafe_reuse
    <3>1. ReadStoredGuardState(guard) \in Guard
      BY <1>1, StoredType
    <3>2. /\ stored.protection = ReadStoredGuardState(guard).protection
          /\ stored.unsafe_reuse = ReadStoredGuardState(guard).unsafe_reuse
      BY <2>1, <3>1 DEF Guard
    <3> QED BY <1>1, <3>2 DEF ReadStoredGuardState, Guard
  <2> QED BY <1>1, <2>2, <2>3, <2>4
<1>3. /\ next \in Nat /\ next' = next /\ iteration' = iteration /\ pending' = Invalid
      /\ guard.max_seen \in Int /\ guard.replay \in Int /\ next - 1 \in Mark
      /\ Invalid <= guard.max_seen
  BY <1>1, GuardConstants DEF BindFinish, hostVars, TypeOK, Guard, Mark, Rowid, Invalid
<1>4. h = IF guard.replay = Invalid THEN stored ELSE Observe(stored, guard.replay, next - 1)
  BY DEF BoundFromStorage
<1> HIDE DEF stored
<1>5. /\ h \in Guard /\ h.state = "bound" /\ h.token = guard.token
      /\ h.protection = stored.protection /\ h.checkpoint_iteration = stored.checkpoint_iteration
      /\ h.max_seen = IF guard.replay = Invalid THEN guard.max_seen ELSE Larger(guard.max_seen, next - 1)
      /\ guard.replay = Invalid => h.advance_iteration = Invalid
      /\ h.unsafe_reuse <=> stored.unsafe_reuse \/ (guard.replay # Invalid /\ guard.replay <= guard.max_seen)
  BY <1>2, <1>3, <1>4, ObserveKeeps
<1>6. SUFFICES ASSUME Clean(h)' PROVE GuardSafe(h)'
  BY DEF GuardSafe
<1>7. Clean(guard)
  BY <1>1, <1>2, <1>3, <1>5, <1>6 DEF Clean, Present
<1>8. /\ IF guard.replay = Invalid THEN next - 1 <= guard.max_seen ELSE guard.replay < next
      /\ ViewsSafe(guard.token, Reach(guard))
  BY <1>1, <1>7 DEF GuardSafe
<1>9. Reach(guard) = h.max_seen /\ h.max_seen \in Int /\ next - 1 <= h.max_seen
  BY <1>1, <1>3, <1>5, <1>8 DEF Reach, Larger
<1>10. ViewsSafe(h.token, h.max_seen)' /\ (Exposed(h.token)' => Exposed(h.token))
  BY <1>0, <1>1, <1>3, <1>5, <1>7, <1>9, CleanViews
<1>11. guard.replay # Invalid => ~Exposed(h.token)
  <2>1. SUFFICES ASSUME guard.replay # Invalid, Exposed(h.token) PROVE FALSE
    OBVIOUS
  <2>2. guard.replay > guard.max_seen /\ guard.replay < next
    BY <1>1, <1>7, <1>8, <2>1 DEF Clean
  <2>3. h.max_seen = next - 1
    BY <1>3, <1>5, <2>1, <2>2 DEF Larger
  <2>4. /\ \A i \in Indexes : registry[i].hwm \in Int
        /\ \A q \in Txns, i \in Indexes : txn[q].registry[i].hwm \in Int
    BY DEF TypeOK, RegistryRow, Txn, Mark
  <2>5. ViewsSafe(h.token, next - 1)
    BY <1>5, <1>8, <1>9, <2>3
  <2> QED BY <1>3, <2>1, <2>4, <2>5 DEF Exposed, ViewsSafe, RowSafe
<1>12. pending' <= h.max_seen /\ next' - 1 <= h.max_seen
  BY <1>3, <1>5, <1>9 DEF Larger, Invalid
<1> QED BY <1>3, <1>5, <1>10, <1>11, <1>12 DEF GuardSafe, Reach

\* A fresh guard is recorded nowhere and has seen every rowid allocated.
LEMMA SafeFresh ==
    ASSUME TypeOK, TypeOK', TxnsInv, NEW q \in Txns, NEW i \in Indexes, CreateFirst(q, i),
           NEW h \in Guard, h = guard'
    PROVE  GuardSafe(h)'
<1>1. /\ h.state = "bound" /\ h.token = issued + 1 /\ h.max_seen = next - 1
      /\ pending' = Invalid /\ next' = next /\ registry' = registry /\ next \in Nat /\ issued \in Nat
  BY DEF CreateFirst, Barrier, hostVars, GuardBaseline, TypeOK, Token
<1>2. \A p \in Txns : txn'[p].registry = txn[p].registry
  BY DEF CreateFirst, TypeOK, Txn
<1>3. /\ \A j \in Indexes : registry[j].token <= issued
      /\ \A p \in Txns, j \in Indexes : txn[p].registry[j].token <= issued
  BY DEF TxnsInv, TxnInv
<1>4. /\ \A j \in Indexes : registry'[j].token # h.token
      /\ \A p \in Txns, j \in Indexes : txn'[p].registry[j].token # h.token
  BY <1>1, <1>2, <1>3
<1>5. ~Exposed(h.token)' /\ \A b : ViewsSafe(h.token, b)'
  BY <1>4 DEF Exposed, ViewsSafe, RowSafe
<1> QED BY <1>1, <1>5 DEF GuardSafe, Invalid

-----------------------------------------------------------------------------
(* Images *)

\* An image that stays where it is stays safe while no rowid is handed back.
LEMMA ImageKept ==
    ASSUME TypeOK, TypeOK', HostInv, GuardNames, TxnsInv, [Next]_vars,
           NEW image \in Image, NEW from \in Int, NEW seal,
           image.token # NoToken => image.token \in {guard.token, leftover.token},
           from <= next, next <= next', ImageSafe(image, from, seal)
    PROVE  ImageSafe(image, from, seal)'
<1> DEFINE t == image.token
<1>1. next \in Nat /\ next' \in Nat /\ image.max_seen \in Int /\ t \in Token
  BY DEF TypeOK, Image, Mark
<1>2. SUFFICES ASSUME image.token # NoToken, image.protection, ~image.unsafe_reuse,
                      image.checkpoint_iteration = seal, from < next' => from > image.max_seen
               PROVE  ViewsSafe(t, Larger(image.max_seen, next - 1))' /\ from - 1 <= image.max_seen
  BY DEF ImageSafe
<1>3. from < next => from > image.max_seen
  BY <1>1, <1>2
<1>4. ViewsSafe(t, Larger(image.max_seen, next - 1)) /\ from - 1 <= image.max_seen
  BY <1>2, <1>3 DEF ImageSafe
<1>5. PICK b \in Int : b = Larger(image.max_seen, next - 1)
  BY <1>1 DEF Larger
<1>6. PICK c \in Int : c = Larger(image.max_seen, next' - 1)
  <2>1. next' - 1 \in Int /\ image.max_seen \in Int
    BY <1>1
  <2>2. Larger(image.max_seen, next' - 1) \in Int
    BY <2>1 DEF Larger
  <2> QED BY <2>2
<1>7. b <= c /\ next - 1 <= b
  BY <1>1, <1>5, <1>6 DEF Larger
<1>8. LiveToken(t)
  BY <1>2 DEF LiveToken
<1>9. ASSUME next' # next, NEW i \in Indexes, registry[i].token = t PROVE registry[i].hwm < next
  <2>1. from > image.max_seen /\ from <= next
    BY <1>1, <1>2, <1>9
  <2>2. registry[i].hwm <= b /\ registry[i].hwm \in Int
    BY <1>4, <1>5, <1>9 DEF ViewsSafe, RowSafe, TypeOK, RegistryRow, Mark
  <2> QED BY <1>1, <1>5, <2>1, <2>2 DEF Larger
<1> HIDE DEF t
<1>10. ViewsSafe(t, c)'
  BY <1>1, <1>4, <1>5, <1>7, <1>8, <1>9, ViewsStep
<1>11. c = Larger(image.max_seen, next - 1)'
  BY <1>6
<1> QED BY <1>4, <1>10, <1>11 DEF t

\* What serializing a guard leaves in an image that its reader may accept.
LEMMA SerializedClean ==
    ASSUME TypeOK, NEW g \in Guard, g.state = "bound", NEW image \in {SerializeToWAL(g), SerializeToDisk(g)},
           image.protection, ~image.unsafe_reuse
    PROVE  Clean(g) /\ image.token = g.token /\ image.max_seen = g.max_seen
<1> DEFINE compatible == g.protection /\ extension = "pinned"
           sealed == ApplyCheckpointSeal(g)
           latched == [g EXCEPT !.unsafe_reuse = TRUE, !.protection = FALSE]
<1>1. compatible
  <2>1. SUFFICES ASSUME ~compatible PROVE image.protection = FALSE
    OBVIOUS
  <2>2. latched.protection = FALSE
    BY DEF Guard
  <2>3. image = ImageOf(latched, 0)
    <3>1. SerializeToWAL(g) = ImageOf(latched, 0)
      BY <2>1 DEF SerializeToWAL
    <3>2. SerializeToDisk(g) = ImageOf(latched, 0)
      BY <2>1 DEF SerializeToDisk
    <3> QED BY <3>1, <3>2
  <2> QED BY <2>2, <2>3 DEF ImageOf
<1>2. image.unsafe_reuse = sealed.unsafe_reuse
  BY <1>1 DEF SerializeToWAL, SerializeToDisk, ImageOf
<1>3. sealed.unsafe_reuse = (g.unsafe_reuse \/ g.checkpoint_iteration \notin {Invalid, iteration})
  BY DEF ApplyCheckpointSeal, Guard
<1>4. image.token = g.token /\ image.max_seen = g.max_seen
  BY SerializedImage
<1> QED BY <1>1, <1>2, <1>3, <1>4 DEF Clean, Present

\* A guard serialized with the rows as they stand leaves a safe image.
LEMMA ImageWritten ==
    ASSUME TypeOK, TypeOK', HostInv, GuardNames, TxnsInv, [Next]_vars,
           NEW g \in Guard, g.state = "bound", GuardInv(g), GuardSafe(g), g.token \in {guard.token, leftover.token},
           NEW image \in {SerializeToWAL(g), SerializeToDisk(g)}, NEW from, from = next, next' = next, NEW seal
    PROVE  ImageSafe(image, from, seal)'
<1>1. SUFFICES ASSUME image.protection, ~image.unsafe_reuse
               PROVE  (ViewsSafe(image.token, Larger(image.max_seen, next - 1)) /\ from - 1 <= image.max_seen)'
  BY DEF ImageSafe
<1>2. Clean(g) /\ image.token = g.token /\ image.max_seen = g.max_seen
  BY <1>1, SerializedClean
<1>3. Reach(g) = g.max_seen /\ g.max_seen \in Int /\ next \in Nat
  BY DEF Reach, Guard, Mark, TypeOK
<1>4. next - 1 <= g.max_seen
  BY <1>2 DEF GuardSafe
<1>5. ViewsSafe(g.token, g.max_seen)'
  BY <1>2, <1>3, CleanViews
<1>6. Larger(image.max_seen, next - 1)' = g.max_seen
  BY <1>2, <1>3, <1>4 DEF Larger
<1> QED BY <1>2, <1>3, <1>4, <1>5, <1>6

\* The image of the checkpoint that finishes becomes the persisted one.
LEMMA ImageFinished ==
    ASSUME TypeOK, TypeOK', HostInv, GuardNames, ImageInv, TxnsInv, CheckpointFinish, ~InMemory,
           ImageSafe(checkpoint.image, checkpoint.from, iteration + 1)
    PROVE  ImageSafe(persisted, walFrom, iteration)'
<1>0. [Next]_vars
  BY DEF Next, HostNext
<1>1. /\ iteration' = iteration + 1 /\ iteration \in Int
      /\ next \in Nat /\ next' \in Nat /\ next' <= next
      /\ checkpoint.kind = "full" \/ next' = next
      /\ checkpoint.phase = "written" /\ checkpoint.kind \in {"full", "concurrent"}
      /\ checkpoint.from <= next /\ checkpoint.from \in Int
      /\ checkpoint.kind = "full" => checkpoint.from = next
  BY DEF CheckpointFinish, TypeOK, Iteration, HostInv, Checkpointing, Checkpoint
<1>2. CASE checkpoint.image = NoImage
  <2>1. persisted' = persisted /\ persisted.checkpoint_iteration <= iteration
    BY <1>2 DEF CheckpointFinish, ImageInv
  <2>2. persisted.checkpoint_iteration \in Int
    BY DEF TypeOK, Image, OptSeal, OptIteration, Iteration, Invalid
  <2> QED BY <1>1, <2>1, <2>2 DEF ImageSafe
<1>3. CASE checkpoint.image # NoImage
  <2>1. PICK image \in Image : image = checkpoint.image
    BY DEF TypeOK, Checkpoint
  <2>2. /\ persisted' = image
        /\ walFrom' = IF checkpoint.kind = "full" THEN next' ELSE checkpoint.from
    BY <1>3, <2>1 DEF CheckpointFinish
  <2>3. image.token \in {guard.token, leftover.token}
    BY <1>3, <2>1 DEF ImageInv, GuardNames
  <2>4. image.max_seen \in Int
    BY DEF Image, Mark
  <2>5. CASE checkpoint.kind = "concurrent"
    <3>1. PICK from \in Int, seal \in Int : from = checkpoint.from /\ seal = iteration + 1
      BY <1>1
    <3>2. ImageSafe(image, from, seal)'
      BY <1>0, <1>1, <2>1, <2>3, <2>5, <3>1, ImageKept
    <3> QED BY <1>1, <2>2, <2>5, <3>1, <3>2
  <2>6. CASE checkpoint.kind = "full"
    <3>1. SUFFICES ASSUME image.token # NoToken, image.protection, ~image.unsafe_reuse,
                          image.checkpoint_iteration = iteration'
                   PROVE  (ViewsSafe(image.token, Larger(image.max_seen, next - 1)))' /\ next' - 1 <= image.max_seen
      BY <2>2, <2>6 DEF ImageSafe
    <3>2. ViewsSafe(image.token, Larger(image.max_seen, next - 1)) /\ next - 1 <= image.max_seen
      BY <1>1, <2>1, <2>6, <3>1 DEF ImageSafe
    <3>3. Larger(image.max_seen, next - 1) = image.max_seen /\ Larger(image.max_seen, next - 1)' = image.max_seen
      BY <1>1, <2>4, <3>2 DEF Larger
    <3>4. LiveToken(image.token) /\ pending = Invalid
      BY <2>3, <2>6, <3>1 DEF LiveToken, HostInv
    <3>5. ViewsSafe(image.token, image.max_seen)
      BY <3>2, <3>3
    <3>6. PICK t \in Token : t = image.token
      BY DEF Image
    <3>7. ViewsSafe(t, image.max_seen)'
      BY <1>0, <2>4, <3>2, <3>4, <3>5, <3>6, ViewsStep
    <3> QED BY <1>1, <2>4, <3>2, <3>3, <3>6, <3>7
  <2> QED BY <1>1, <2>5, <2>6
<1> QED BY <1>2, <1>3

-----------------------------------------------------------------------------
(* Every step keeps the guards and the images safe *)

\* A guard that is as it was, or sealed, is as safe as it was.
LEMMA SafeFrom ==
    ASSUME TypeOK, TypeOK', HostInv, GuardNames, TxnsInv, GuardsSafe, [Next]_vars,
           next' = next, iteration' = iteration, pending' \in {pending, Invalid}, NEW row, NEW h,
           h \in {guard, leftover, NoGuard, AfterVerdict(guard, row), AfterVerdict(leftover, row),
                  Sealed(guard), Sealed(leftover)}
    PROVE  GuardSafe(h)'
<1>1. ASSUME NEW g \in Guard, g \in {guard, leftover}, h \in {g, AfterVerdict(g, row), Sealed(g)}
      PROVE  GuardSafe(h)'
  <2>1. GuardInv(g) /\ GuardSafe(g) /\ g.token \in {guard.token, leftover.token}
    BY <1>1 DEF GuardNames, GuardsSafe
  <2>2. /\ h \in Guard
        /\ h.state = g.state /\ h.token = g.token /\ h.max_seen = g.max_seen
        /\ h.advance_iteration = g.advance_iteration /\ h.replay = g.replay
        /\ Clean(h) => Clean(g)
    BY <1>1, SealKeeps
  <2> QED BY <2>1, <2>2, SafeKept
<1>2. CASE h = NoGuard
  BY <1>2 DEF GuardSafe, Clean, Present, NoGuard
<1> QED BY <1>1, <1>2 DEF TypeOK

\* The guards' safety over a transaction's steps.
LEMMA SafeTxnStep ==
    ASSUME TypeOK, TypeOK', HostInv, GuardNames, TxnsInv, GuardsSafe, NEW q \in Txns, TxnNext(q)
    PROVE  GuardSafe(guard)' /\ GuardSafe(leftover)'
<1>0. [Next]_vars
  BY DEF Next
<1> PICK g \in Guard, l \in Guard : g = guard' /\ l = leftover'
  BY DEF TypeOK
<1>1. next' = next /\ iteration' = iteration /\ pending' = pending
  BY DEF TxnNext, hostVars, Begin, End, Search, MaintenanceCheck, DropIndex, CreateFirst, CreateShared,
         CreateCommit, CreateAbort, RefreshCommit
<1>2. ASSUME NEW row,
             \/ g \in {guard, leftover, NoGuard} /\ l \in {guard, leftover, NoGuard}
             \/ g = AfterVerdict(guard, row) /\ l = AfterVerdict(leftover, row)
      PROVE  GuardSafe(g)' /\ GuardSafe(l)'
  BY <1>0, <1>1, <1>2, SafeFrom
<1>3. ASSUME g \in {guard, leftover, NoGuard} /\ l \in {guard, leftover, NoGuard}
      PROVE  GuardSafe(g)' /\ GuardSafe(l)'
  BY <1>2, <1>3
<1>4. ASSUME NEW i \in Indexes, Search(q, i) \/ MaintenanceCheck(q, i) PROVE GuardSafe(g)' /\ GuardSafe(l)'
  <2> DEFINE row == txn[q].registry[i]
  <2>1. g = AfterVerdict(guard, row) /\ l = AfterVerdict(leftover, row)
    BY <1>4 DEF Search, MaintenanceCheck
  <2> HIDE DEF row
  <2> QED BY <1>2, <2>1
<1>5. ASSUME NEW i \in Indexes, CreateShared(q, i) PROVE GuardSafe(g)' /\ GuardSafe(l)'
  <2>1. PICK t \in Token : /\ g = AfterVerdict(guard, [NoRow EXCEPT !.token = t])
                           /\ l = AfterVerdict(leftover, [NoRow EXCEPT !.token = t])
    BY <1>5 DEF CreateShared
  <2> QED BY <1>2, <2>1
<1>6. ASSUME NEW i \in Indexes, CreateFirst(q, i) PROVE GuardSafe(g)' /\ GuardSafe(l)'
  <2>1. GuardSafe(g)'
    BY <1>6, SafeFresh
  <2>2. l \in {guard}
    BY <1>6 DEF CreateFirst
  <2>3. GuardSafe(l)'
    BY <1>0, <1>1, <2>2, SafeFrom
  <2> QED BY <2>1, <2>3
<1>7. ASSUME NEW i \in Indexes, DropIndex(q, i) PROVE GuardSafe(g)' /\ GuardSafe(l)'
  BY <1>3, <1>7 DEF DropIndex
<1>8. CASE CreateCommit(q) \/ CreateAbort(q)
  <2>1. g \in {guard, leftover, NoGuard} /\ l \in {guard, leftover, NoGuard}
    BY <1>8 DEF CreateCommit, CreateAbort, LeftoverAfterCreate
  <2> QED BY <1>3, <2>1
<1>9. ASSUME Begin(q) \/ End(q) \/ \E m \in Mark : RefreshCommit(q, m) PROVE GuardSafe(g)' /\ GuardSafe(l)'
  <2>1. g = guard /\ l = leftover
    BY <1>9 DEF Begin, End, RefreshCommit
  <2> QED BY <1>3, <2>1
<1>10. GuardSafe(g)' /\ GuardSafe(l)'
  BY <1>4, <1>5, <1>6, <1>7, <1>8, <1>9 DEF TxnNext
<1> QED BY <1>10

\* The image a restart reads is as safe as the guard it came from.
LEMMA ImagesSafeStep ==
    ASSUME TypeOK, TypeOK', HostInv, HostInv', GuardNames, ImageInv, TxnsInv, GuardsSafe, [Next]_vars, ~InMemory
    PROVE  /\ ImageSafe(persisted, walFrom, iteration)'
           /\ (checkpoint.phase = "written" => ImageSafe(checkpoint.image, checkpoint.from, iteration + 1))'
<1> USE DEF hostVars
<1>0. /\ iteration \in Int /\ walFrom \in Int /\ checkpoint.from \in Int /\ walFrom <= next /\ checkpoint.from <= next
      /\ next \in Nat /\ persisted \in Image /\ checkpoint.image \in Image
      /\ NoImage.token = NoToken
  BY DEF TypeOK, Iteration, HostInv, Checkpoint, NoImage
<1>1. ASSUME UNCHANGED <<persisted, walFrom, iteration>>, next <= next'
      PROVE  ImageSafe(persisted, walFrom, iteration)'
  <2>1. PICK image \in Image, from \in Int, seal \in Int :
          image = persisted /\ from = walFrom /\ seal = iteration
    BY <1>0
  <2>2. image.token # NoToken => image.token \in {guard.token, leftover.token}
    BY <2>1 DEF GuardNames
  <2>3. ImageSafe(image, from, seal)
    BY <2>1 DEF GuardsSafe
  <2>4. ImageSafe(image, from, seal)'
    BY <1>0, <1>1, <2>1, <2>2, <2>3, ImageKept
  <2> QED BY <1>1, <2>1, <2>4
<1>2. ASSUME UNCHANGED <<checkpoint, iteration>>, next <= next'
      PROVE  (checkpoint.phase = "written" => ImageSafe(checkpoint.image, checkpoint.from, iteration + 1))'
  <2>1. PICK image \in Image, from \in Int, seal \in Int :
          image = checkpoint.image /\ from = checkpoint.from /\ seal = iteration + 1
    BY <1>0
  <2>2. SUFFICES ASSUME checkpoint.phase = "written" PROVE ImageSafe(image, from, seal)'
    BY <1>2, <2>1
  <2>3. image.token # NoToken => image.token \in {guard.token, leftover.token}
    BY <1>0, <2>1 DEF ImageInv, GuardNames
  <2>4. ImageSafe(image, from, seal)
    BY <2>1, <2>2 DEF GuardsSafe
  <2> QED BY <1>0, <1>2, <2>1, <2>3, <2>4, ImageKept
<1>3. ASSUME persisted'.token = NoToken PROVE ImageSafe(persisted, walFrom, iteration)'
  BY <1>3 DEF ImageSafe
<1>4. ASSUME checkpoint'.image = NoImage
      PROVE  (checkpoint.phase = "written" => ImageSafe(checkpoint.image, checkpoint.from, iteration + 1))'
  BY <1>0, <1>4 DEF ImageSafe
<1>5. ASSUME UNCHANGED <<persisted, walFrom, iteration, checkpoint, next>>
      PROVE  /\ ImageSafe(persisted, walFrom, iteration)'
             /\ (checkpoint.phase = "written" => ImageSafe(checkpoint.image, checkpoint.from, iteration + 1))'
  BY <1>0, <1>1, <1>2, <1>5
<1>6. ASSUME NEW q \in Txns, TxnNext(q)
      PROVE  /\ ImageSafe(persisted, walFrom, iteration)'
             /\ (checkpoint.phase = "written" => ImageSafe(checkpoint.image, checkpoint.from, iteration + 1))'
  <2>1. CASE UNCHANGED <<persisted, walFrom, iteration, checkpoint, next>>
    BY <1>5, <2>1
  <2>2. CASE CreateCommit(q) /\ UncommittedGuard /\ guard.token = txn[q].token
    <3>1. /\ guard.state = "bound" /\ guard' = guard /\ next' = next /\ walFrom' = next /\ iteration' = iteration
          /\ persisted' = SerializeToWAL(guard) /\ checkpoint' = WithoutImage
      BY <2>2 DEF CreateCommit, GuardNames
    <3>2. PICK g \in Guard : g = guard
      BY DEF TypeOK
    <3>3. PICK image, from, seal : image = SerializeToWAL(guard) /\ from = next /\ seal = iteration
      OBVIOUS
    <3>4. ImageSafe(image, from, seal)'
      BY <3>1, <3>2, <3>3, ImageWritten DEF GuardNames, GuardsSafe
    <3>5. checkpoint'.image = NoImage
      BY <3>1 DEF WithoutImage, TypeOK, Checkpoint
    <3> QED BY <1>4, <3>1, <3>2, <3>3, <3>4, <3>5
  <2>3. ASSUME NEW i \in Indexes, DropIndex(q, i), persisted' = NoImage, checkpoint' = WithoutImage
        PROVE  /\ ImageSafe(persisted, walFrom, iteration)'
               /\ (checkpoint.phase = "written" => ImageSafe(checkpoint.image, checkpoint.from, iteration + 1))'
    <3>1. checkpoint'.image = NoImage
      BY <2>3 DEF WithoutImage, TypeOK, Checkpoint
    <3> QED BY <1>0, <1>3, <1>4, <2>3, <3>1
  <2>4. CASE CreateCommit(q)
    BY <2>1, <2>2, <2>4 DEF CreateCommit
  <2>5. ASSUME NEW i \in Indexes, DropIndex(q, i)
        PROVE  \/ UNCHANGED <<persisted, walFrom, iteration, checkpoint, next>>
               \/ persisted' = NoImage /\ checkpoint' = WithoutImage
    BY <2>5 DEF DropIndex
  <2>6. \/ UNCHANGED <<persisted, walFrom, iteration, checkpoint, next>>
        \/ CreateCommit(q) \/ \E i \in Indexes : DropIndex(q, i)
    BY <1>6 DEF TxnNext, Begin, End, Search, MaintenanceCheck, CreateFirst, CreateShared, CreateAbort, RefreshCommit
  <2> QED BY <2>1, <2>3, <2>4, <2>5, <2>6
<1>7. CASE CheckpointWrite
  <2> DEFINE committed == IF UncommittedGuard THEN leftover ELSE guard
  <2>1. /\ checkpoint'.image = IF committed.state = "absent" THEN NoImage ELSE SerializeToDisk(committed)
        /\ checkpoint'.from = next
        /\ UNCHANGED <<persisted, walFrom, iteration, next>>
    BY <1>7 DEF CheckpointWrite, TypeOK, Checkpoint
  <2>2. /\ committed \in Guard /\ GuardInv(committed) /\ GuardSafe(committed)
        /\ committed.token \in {guard.token, leftover.token}
    BY DEF TypeOK, GuardNames, GuardsSafe
  <2>3. ImageSafe(persisted, walFrom, iteration)'
    BY <1>0, <1>1, <2>1
  <2> HIDE DEF committed
  <2>4. CASE committed.state = "bound"
    <3>1. PICK g \in Guard : g = committed
      BY <2>2
    <3>2. PICK image, from, seal :
            image = SerializeToDisk(committed) /\ from = next /\ seal = iteration + 1
      OBVIOUS
    <3>3. ImageSafe(image, from, seal)'
      BY <2>1, <2>2, <2>4, <3>1, <3>2, ImageWritten
    <3> QED BY <2>1, <2>3, <2>4, <3>1, <3>2, <3>3
  <2>5. CASE committed.state \notin {"absent", "bound"}
    <3>1. checkpoint'.image.checkpoint_iteration = committed.checkpoint_iteration
      BY <2>1, <2>5 DEF SerializeToDisk, ImageOf
    <3>2. committed.checkpoint_iteration <= iteration /\ committed.checkpoint_iteration \in Int
      BY <2>2 DEF GuardInv, Guard, OptSeal, OptIteration, Iteration, Invalid
    <3>3. checkpoint'.image.checkpoint_iteration # (iteration + 1)'
      BY <1>0, <2>1, <3>1, <3>2
    <3>4. ImageSafe(checkpoint.image, checkpoint.from, iteration + 1)'
      BY <3>3 DEF ImageSafe
    <3> QED BY <2>3, <3>4
  <2>6. CASE committed.state = "absent"
    BY <1>4, <2>1, <2>3, <2>6
  <2> QED BY <2>4, <2>5, <2>6
<1>8. CASE CheckpointFinish
  <2>1. ImageSafe(persisted, walFrom, iteration)'
    BY <1>8, ImageFinished DEF GuardsSafe, CheckpointFinish
  <2>2. checkpoint'.image = NoImage
    BY <1>8 DEF CheckpointFinish, NoCheckpoint
  <2> QED BY <1>4, <2>1, <2>2
<1>9. ASSUME NEW session \in {"none", "pinned", "other"}, Restart(session)
      PROVE  /\ ImageSafe(persisted, walFrom, iteration)'
             /\ (checkpoint.phase = "written" => ImageSafe(checkpoint.image, checkpoint.from, iteration + 1))'
  <2>1. UNCHANGED <<persisted, walFrom, iteration>> /\ checkpoint'.image = NoImage
    BY <1>9 DEF Restart, NoCheckpoint
  <2>2. next <= next'
    BY <1>0, <1>9 DEF Restart, Publish, HostInv, TypeOK, Rowid
  <2> QED BY <1>1, <1>4, <2>1, <2>2
<1>10. CASE DropGuard \/ RecreateTable
  <2>1. persisted' = NoImage
    BY <1>10 DEF DropGuard, RecreateTable
  <2>2. checkpoint'.image = NoImage
    BY <1>10 DEF DropGuard, RecreateTable, WithoutImage, HostInv, Checkpointing, TypeOK, Checkpoint
  <2> QED BY <1>0, <1>3, <1>4, <2>1, <2>2
<1>11. CASE AppendCommit
  <2>1. UNCHANGED <<persisted, walFrom, iteration, checkpoint>> /\ next <= next'
    BY <1>0, <1>11 DEF AppendCommit, Publish, HostInv, TypeOK, Rowid
  <2> QED BY <1>1, <1>2, <2>1
<1>12. ASSUME NEW kind \in {"full", "concurrent"}, CheckpointStart(kind)
       PROVE  /\ ImageSafe(persisted, walFrom, iteration)'
              /\ (checkpoint.phase = "written" => ImageSafe(checkpoint.image, checkpoint.from, iteration + 1))'
  <2>1. UNCHANGED <<persisted, walFrom, iteration, next>> /\ checkpoint'.image = NoImage
    BY <1>12 DEF CheckpointStart, NoCheckpoint
  <2> QED BY <1>0, <1>1, <1>4, <2>1
<1>13. CASE HostNext
  <2>1. \/ UNCHANGED <<persisted, walFrom, iteration, checkpoint, next>>
        \/ CheckpointWrite \/ CheckpointFinish \/ DropGuard \/ RecreateTable \/ AppendCommit
        \/ \E kind \in {"full", "concurrent"} : CheckpointStart(kind)
        \/ \E session \in {"none", "pinned", "other"} : Restart(session)
    BY <1>13 DEF HostNext, AppendFlush, AppendReject, Delete, PlanInPlace, WriteInPlace, CommitInPlace, BindStart,
                 BindFinish
  <2> QED BY <1>5, <1>7, <1>8, <1>9, <1>10, <1>11, <1>12, <2>1
<1> QED BY <1>5, <1>6, <1>13 DEF Next, vars

\* The guards' safety over the host's steps.
LEMMA SafeHostStep ==
    ASSUME TypeOK, TypeOK', HostInv, HostInv', GuardNames, Creator, ImageInv, Stamped, TxnsInv, GuardsSafe,
           HostNext
    PROVE  GuardSafe(guard)' /\ GuardSafe(leftover)'
<1> USE DEF hostVars
<1>0. [Next]_vars
  BY DEF Next
<1> PICK g \in Guard, l \in Guard : g = guard' /\ l = leftover'
  BY DEF TypeOK
<1>1. /\ guard \in Guard /\ GuardInv(guard) /\ GuardSafe(guard)
      /\ leftover \in Guard /\ GuardInv(leftover) /\ GuardSafe(leftover)
      /\ leftover.state \in {"absent", "bound"}
  BY DEF TypeOK, GuardNames, GuardsSafe
<1>2. ASSUME next' = next, iteration' = iteration, pending' \in {pending, Invalid},
             g \in {guard, leftover, NoGuard}, l \in {guard, leftover, NoGuard}
      PROVE  GuardSafe(g)' /\ GuardSafe(l)'
  BY <1>0, <1>2, SafeFrom
<1>3. ASSUME NEW n \in 1 .. MaxAppend, AppendFlush(n) PROVE GuardSafe(g)' /\ GuardSafe(l)'
  <2>1. /\ g = ObserveIfBound(guard, next, next + n - 1) /\ l = ObserveIfBound(leftover, next, next + n - 1)
        /\ guard.state \in {"absent", "bound"}
    BY <1>3 DEF AppendFlush
  <2>2. PICK a \in Guard, b \in Guard : a = guard /\ b = leftover
    BY <1>1
  <2>3. GuardSafe(g)'
    BY <1>1, <1>3, <2>1, <2>2, SafeFlush
  <2>4. GuardSafe(l)'
    BY <1>1, <1>3, <2>1, <2>2, SafeFlush
  <2> QED BY <2>3, <2>4
<1>4. CASE AppendCommit
  <2>1. g = guard /\ l = leftover
    BY <1>4 DEF AppendCommit
  <2> QED BY <1>1, <1>4, <2>1, SafePublish
<1>5. CASE CheckpointFinish
  <2>1. g = guard /\ l = leftover
    BY <1>5 DEF CheckpointFinish
  <2> QED BY <1>1, <1>5, <2>1, SafeCheckpoint
<1>6. CASE BindStart
  <2>1. /\ g.state = "binding" /\ guard.state = "unbound" /\ g = [guard EXCEPT !.state = "binding"]
        /\ l = leftover /\ next' = next /\ iteration' = iteration /\ pending' = pending
    BY <1>1, <1>6 DEF BindStart, Guard
  <2>2. /\ g.token = guard.token /\ g.max_seen = guard.max_seen /\ g.advance_iteration = guard.advance_iteration
        /\ g.replay = guard.replay /\ (Clean(g) => Clean(guard))
    BY <1>1, <2>1 DEF Guard, Clean, Present
  <2>3. PICK a \in Guard : a = guard
    BY <1>1
  <2>4. GuardSafe(g)'
    BY <1>0, <1>1, <2>1, <2>2, <2>3, SafeKept
  <2>5. GuardSafe(l)'
    BY <1>0, <2>1, SafeFrom
  <2> QED BY <2>4, <2>5
<1>7. CASE BindFinish
  <2>1. g = BoundFromStorage(guard) /\ l = leftover /\ next' = next /\ iteration' = iteration /\ pending' = pending
    BY <1>7 DEF BindFinish
  <2>2. GuardSafe(g)'
    BY <1>1, <1>7, <2>1, SafeBind
  <2>3. GuardSafe(l)'
    BY <1>0, <2>1, SafeFrom
  <2> QED BY <2>2, <2>3
<1>8. CASE CheckpointWrite
  <2>1. g = Sealed(guard) /\ l = Sealed(leftover) /\ next' = next /\ iteration' = iteration /\ pending' = pending
    BY <1>8 DEF CheckpointWrite
  <2> QED BY <1>0, <2>1, SafeFrom
<1>9. ASSUME NEW session \in {"none", "pinned", "other"}, Restart(session) PROVE GuardSafe(g)' /\ GuardSafe(l)'
  <2>1. /\ g = UnboundGuard(persisted, walFrom, next') /\ l = NoGuard /\ ~InMemory
        /\ UNCHANGED <<iteration, persisted, walFrom>>
    BY <1>9 DEF Restart
  <2>2. ImageSafe(persisted, walFrom, iteration)'
    BY <1>0, <2>1, ImagesSafeStep
  <2>3. GuardSafe(l)'
    BY <2>1 DEF GuardSafe, Clean, Present, NoGuard
  <2>4. CASE persisted.token = NoToken
    <3>1. g = NoGuard
      BY <2>1, <2>4 DEF UnboundGuard
    <3> QED BY <2>3, <3>1 DEF GuardSafe, Clean, Present, NoGuard
  <2>5. CASE persisted.token # NoToken
    <3>1. /\ g.state = "unbound" /\ g.token = persisted.token /\ g.max_seen = persisted.max_seen
          /\ g.unsafe_reuse = persisted.unsafe_reuse /\ g.protection = persisted.protection
          /\ g.checkpoint_iteration = persisted.checkpoint_iteration
          /\ g.replay = IF walFrom < next' THEN walFrom ELSE Invalid
      BY <2>1, <2>5 DEF UnboundGuard
    <3>2. /\ walFrom \in Nat /\ next' \in Nat /\ walFrom <= next' /\ walFrom # Invalid
      BY <2>1 DEF TypeOK, HostInv, Invalid
    <3>3. SUFFICES ASSUME Clean(g)'
                   PROVE  /\ ViewsSafe(g.token, Larger(g.max_seen, next - 1))'
                          /\ IF g.replay = Invalid THEN next' - 1 <= g.max_seen ELSE g.replay < next'
      BY <2>3, <3>1 DEF GuardSafe, Reach
    <3>4. /\ g.protection /\ ~g.unsafe_reuse /\ g.checkpoint_iteration = iteration'
          /\ g.replay # Invalid => g.replay > g.max_seen
      BY <3>1, <3>3 DEF Clean
    <3>5. ViewsSafe(persisted.token, Larger(persisted.max_seen, next - 1))' /\ walFrom' - 1 <= persisted'.max_seen
      BY <2>1, <2>2, <2>5, <3>1, <3>2, <3>4 DEF ImageSafe
    <3>6. IF g.replay = Invalid THEN next' - 1 <= g.max_seen ELSE g.replay < next'
      BY <2>1, <3>1, <3>2, <3>5
    <3> QED BY <2>1, <3>1, <3>5, <3>6
  <2> QED BY <2>3, <2>4, <2>5
<1>10. CASE DropGuard \/ RecreateTable
  <2>1. g = NoGuard
    BY <1>10 DEF DropGuard, RecreateTable
  <2>2. GuardSafe(g)'
    BY <2>1 DEF GuardSafe, Clean, Present, NoGuard
  <2>3. l = NoGuard
    <3>1. ~UncommittedGuard
      <4>1. CASE DropGuard
        BY <4>1 DEF DropGuard
      <4>2. CASE RecreateTable
        <5>1. l = leftover
          BY <4>2 DEF RecreateTable
        <5>2. ASSUME UncommittedGuard PROVE \E q \in Txns : txn[q].plan = "create"
          BY <5>2 DEF Creator
        <5> QED BY <4>2, <5>2, OffPlan DEF RecreateTable
      <4> QED BY <1>10, <4>1, <4>2
    <3> QED BY <1>10, <3>1 DEF DropGuard, RecreateTable, GuardNames
  <2> QED BY <2>1, <2>2, <2>3
<1>11. GuardSafe(g)' /\ GuardSafe(l)'
  <2>1. \/ /\ next' = next /\ iteration' = iteration /\ pending' \in {pending, Invalid}
           /\ g = guard /\ l = leftover
        \/ \E n \in 1 .. MaxAppend : AppendFlush(n)
        \/ AppendCommit \/ CheckpointFinish \/ BindStart \/ BindFinish \/ CheckpointWrite
        \/ DropGuard \/ RecreateTable
        \/ \E session \in {"none", "pinned", "other"} : Restart(session)
    BY DEF HostNext, AppendReject, Delete, PlanInPlace, WriteInPlace, CommitInPlace, CheckpointStart
  <2> QED BY <1>2, <1>3, <1>4, <1>5, <1>6, <1>7, <1>8, <1>9, <1>10, <2>1
<1> QED BY <1>11

\* Every step keeps the guards and the images safe.
LEMMA GuardsSafeStep ==
    ASSUME TypeOK, TypeOK', HostInv, HostInv', GuardNames, Creator, ImageInv, Stamped, TxnsInv, GuardsSafe,
           [Next]_vars
    PROVE  GuardsSafe'
<1>1. GuardSafe(guard)' /\ GuardSafe(leftover)'
  <2>1. CASE UNCHANGED vars
    <3>1. PICK g \in Guard, l \in Guard : g = guard' /\ l = leftover'
      BY DEF TypeOK
    <3>2. /\ g \in {guard} /\ l \in {leftover}
          /\ next' = next /\ iteration' = iteration /\ pending' = pending
      BY <2>1, <3>1 DEF vars
    <3>3. GuardSafe(g)' /\ GuardSafe(l)'
      BY <3>2, SafeFrom
    <3> QED BY <3>1, <3>3
  <2> QED BY <2>1, SafeTxnStep, SafeHostStep DEF Next
<1> QED BY <1>1, ImagesSafeStep DEF GuardsSafe

-----------------------------------------------------------------------------
(* Searches and false alarms *)

\* A guard that a verdict accepts is clean, and it is the one the row records.
LEMMA UsableClean ==
    ASSUME TypeOK, NEW g \in Guard, NEW row, GuardUsable(g, row)
    PROVE  Clean(g) /\ row.token = g.token /\ row.token # NoToken
<1>1. row.token = g.token /\ row.token # NoToken
  BY DEF GuardUsable
<1>2. CASE g.state = "bound" /\ g.protection /\ ~BoundUnsafe(g)
  <2>1. ~g.unsafe_reuse /\ g.checkpoint_iteration \in {Invalid, iteration}
    BY <1>2 DEF BoundUnsafe, ApplyCheckpointSeal, Guard
  <2> QED BY <1>1, <1>2, <2>1 DEF Clean, Present
<1>3. CASE g.state = "unbound" /\ ReadStoredGuardState(g).protection /\ ~UnboundUnsafe(g)
  <2>1. g.checkpoint_iteration = iteration /\ g.replay = Invalid
    BY <1>3 DEF UnboundUnsafe
  <2>2. g.protection /\ ~g.unsafe_reuse
    BY <1>3 DEF UnboundUnsafe, ReadStoredGuardState, Guard
  <2> QED BY <1>1, <1>3, <2>1, <2>2 DEF Clean, Present
<1> QED BY <1>1, <1>2, <1>3 DEF GuardUsable

\* The clean guards that are installed.
LEMMA UsableViews ==
    ASSUME TypeOK, GuardsSafe, NEW row, Usable(row)
    PROVE  \E b \in Int : ViewsSafe(row.token, b)
<1>1. PICK g \in Guard : g \in {guard, leftover} /\ GuardUsable(g, row)
  BY DEF Usable, TypeOK
<1>2. Clean(g) /\ row.token = g.token
  BY <1>1, UsableClean
<1>3. ViewsSafe(row.token, Reach(g))
  BY <1>1, <1>2 DEF GuardsSafe, GuardSafe
<1>4. Reach(g) \in Int
  BY DEF Reach, Larger, TypeOK, Guard, Mark
<1> QED BY <1>3, <1>4

\* A search that reads the postings stays exact until its transaction ends.
LEMMA SearchExactStep ==
    ASSUME TypeOK, TypeOK', GuardsSafe, SearchExact, [Next]_vars
    PROVE  SearchExact'
<1> SUFFICES ASSUME NEW p \in Txns, txn'[p].plan = "index"
             PROVE  LET row == txn'[p].registry[txn'[p].target] IN
                    Covered(row, txn'[p].visible) \subseteq row.posted
  BY DEF SearchExact
<1>1. CASE /\ txn'[p].plan = txn[p].plan /\ txn'[p].target = txn[p].target
           /\ txn'[p].visible = txn[p].visible /\ txn'[p].registry = txn[p].registry
  BY <1>1 DEF SearchExact
<1>2. CASE Keeps(p)
  BY <1>1, <1>2 DEF Keeps
<1>3. CASE UNCHANGED vars
  BY <1>1, <1>3 DEF vars
<1>4. NoTxn.plan = "none"
  BY DEF NoTxn
<1>5. ASSUME NEW session \in {"none", "pinned", "other"}, Restart(session) PROVE FALSE
  BY <1>4, <1>5 DEF Restart
<1>6. ASSUME TxnNext(p) PROVE \E i \in Indexes : Search(p, i)
  <2>1. txn[p] \in Txn
    BY DEF TypeOK
  <2>2. ASSUME NEW i \in Indexes, MaintenanceCheck(p, i) PROVE FALSE
    BY <2>1, <2>2 DEF MaintenanceCheck, TypeOK, Txn
  <2>3. ASSUME NEW i \in Indexes, CreateFirst(p, i) PROVE FALSE
    BY <2>1, <2>3 DEF CreateFirst, TypeOK, Txn
  <2>4. ASSUME NEW i \in Indexes, CreateShared(p, i) PROVE FALSE
    <3>1. PICK t \in Token : txn' = [txn EXCEPT ![p] = [@ EXCEPT !.plan = "create", !.target = i, !.token = t]]
      BY <2>4 DEF CreateShared
    <3> QED BY <2>1, <3>1 DEF TypeOK, Txn
  <2>5. ASSUME NEW i \in Indexes, txn' = RegistryCommitted([txn EXCEPT ![p] = NoTxn], i) PROVE FALSE
    BY <1>4, <2>5 DEF RegistryCommitted, TypeOK, NoTxn
  <2>6. ASSUME Begin(p) PROVE FALSE
    BY <2>6 DEF Begin, TypeOK, NoTxn
  <2>7. ASSUME End(p) \/ CreateAbort(p) PROVE FALSE
    BY <1>4, <2>7 DEF End, CreateAbort, TypeOK
  <2>8. txn[p].target \in Indexes
    BY <2>1 DEF Txn
  <2> QED BY <1>6, <2>2, <2>3, <2>4, <2>5, <2>6, <2>7, <2>8
          DEF TxnNext, DropIndex, CreateCommit, RefreshCommit
<1>7. ASSUME NEW i \in Indexes, Search(p, i)
      PROVE  LET row == txn'[p].registry[txn'[p].target] IN
             Covered(row, txn'[p].visible) \subseteq row.posted
  <2> DEFINE row == txn[p].registry[i]
  <2>1. txn'[p] = [txn[p] EXCEPT !.plan = IF Usable(row) THEN "index" ELSE "scan", !.target = i]
    BY <1>7 DEF Search, TypeOK
  <2>2. /\ txn'[p].target = i /\ txn'[p].registry = txn[p].registry /\ txn'[p].visible = txn[p].visible
        /\ txn'[p].plan = IF Usable(row) THEN "index" ELSE "scan"
    BY <2>1 DEF TypeOK, Txn
  <2>3. Usable(row)
    BY <2>2
  <2>4. PICK b \in Int : ViewsSafe(row.token, b)
    BY <2>3, UsableViews
  <2>5. RowSafe(row, txn[p].visible, row.token, b)
    BY <2>4 DEF ViewsSafe
  <2> QED BY <2>2, <2>5 DEF RowSafe, Covered
<1> QED BY <1>2, <1>3, <1>5, <1>6, <1>7, OthersKeep, HostKeeps DEF Next

\* What a quiet guard looks like in a file database.
Calm(g, i) == /\ g.state \in {"absent", "bound"}
              /\ ~InMemory /\ g.state = "bound" =>
                   ~g.unsafe_reuse /\ g.advance_iteration = i /\ g.checkpoint_iteration = Invalid

\* A guard that lived through no checkpoint stays clean.
LEMMA QuietStep ==
    ASSUME TypeOK, TypeOK', GuardNames, Quiet, [Next]_vars
    PROVE  Quiet'
<1> USE DEF hostVars
<1>1. SUFFICES ASSUME quiet'
               PROVE  /\ guard'.state \in {"absent", "bound"}
                      /\ ~InMemory /\ guard'.state = "bound" =>
                           /\ ~guard'.unsafe_reuse /\ ~Checkpointing'
                           /\ guard'.advance_iteration = iteration' /\ guard'.checkpoint_iteration = Invalid
  BY DEF Quiet
<1> DEFINE Calmed == Calm(guard', iteration') /\ (~InMemory /\ guard'.state = "bound" => ~Checkpointing')
<1>2. SUFFICES Calmed
  BY DEF Calm
<1>3. Invalid # iteration /\ NoGuard.state = "absent"
  BY DEF TypeOK, Iteration, Invalid, NoGuard
<1>4. CASE quiet /\ guard' = guard /\ iteration' = iteration /\ checkpoint'.phase = checkpoint.phase
  BY <1>4 DEF Quiet, Calm, Checkpointing
<1>5. CASE guard' = NoGuard
  BY <1>3, <1>5 DEF Calm
<1>6. ASSUME NEW row, guard' \in {AfterVerdict(guard, row), Sealed(guard)}, quiet,
             iteration' = iteration, guard.state = "absent" \/ InMemory \/ checkpoint' = checkpoint
      PROVE  Calmed
  <2>1. guard \in Guard /\ guard' \in {AfterVerdict(guard, row), Sealed(guard)}
    BY <1>6 DEF TypeOK
  <2>2. /\ guard'.state = guard.state /\ guard'.advance_iteration = guard.advance_iteration
        /\ guard'.checkpoint_iteration \in {guard.checkpoint_iteration, Invalid}
        /\ guard.checkpoint_iteration = Invalid => guard'.unsafe_reuse = guard.unsafe_reuse
    BY <2>1, SealKeeps
  <2> QED BY <1>6, <2>2 DEF Quiet, Calm, Checkpointing
<1>7. ASSUME NEW q \in Txns, TxnNext(q) PROVE Calmed
  <2>1. ASSUME NEW i \in Indexes, Search(q, i) \/ MaintenanceCheck(q, i) PROVE Calmed
    <3> DEFINE row == txn[q].registry[i]
    <3>1. /\ guard' = AfterVerdict(guard, row) /\ quiet' = quiet /\ checkpoint' = checkpoint
          /\ iteration' = iteration
      BY <2>1 DEF Search, MaintenanceCheck
    <3> HIDE DEF row, Calmed
    <3> QED BY <1>1, <1>6, <3>1
  <2>2. ASSUME NEW i \in Indexes, CreateShared(q, i) PROVE Calmed
    <3>1. PICK t \in Token : guard' = AfterVerdict(guard, [NoRow EXCEPT !.token = t])
      BY <2>2 DEF CreateShared
    <3>2. quiet' = quiet /\ checkpoint' = checkpoint /\ iteration' = iteration
      BY <2>2 DEF CreateShared
    <3> HIDE DEF Calmed
    <3> QED BY <1>1, <1>6, <3>1, <3>2
  <2>3. ASSUME NEW i \in Indexes, CreateFirst(q, i) PROVE Calmed
    <3>1. /\ guard'.state = "bound" /\ ~guard'.unsafe_reuse /\ guard'.checkpoint_iteration = Invalid
          /\ guard'.advance_iteration = ObservableCheckpointIteration
          /\ checkpoint' = checkpoint /\ iteration' = iteration /\ ~Checkpointing
      BY <2>3 DEF CreateFirst, Barrier
    <3> QED BY <3>1, Observable DEF Calm, Checkpointing
  <2>4. ASSUME NEW i \in Indexes, DropIndex(q, i) PROVE Calmed
    <3>1. CASE guard' = NoGuard
      BY <1>5, <3>1
    <3>2. CASE UNCHANGED <<guard, persisted, checkpoint>>
      BY <1>1, <1>4, <2>4, <3>2 DEF DropIndex
    <3> HIDE DEF Calmed
    <3> QED BY <2>4, <3>1, <3>2 DEF DropIndex
  <2>5. CASE CreateCommit(q)
    <3>1. quiet' = quiet /\ guard' = guard /\ iteration' = iteration
      BY <2>5 DEF CreateCommit
    <3>2. checkpoint'.phase = checkpoint.phase
      BY <2>5 DEF CreateCommit, WithoutImage, TypeOK, Checkpoint
    <3> QED BY <1>1, <1>4, <3>1, <3>2
  <2>6. CASE CreateAbort(q)
    <3>1. guard' = guard /\ quiet' = quiet /\ UNCHANGED hostVars
      BY <1>1, <2>6 DEF CreateAbort
    <3> QED BY <1>1, <1>4, <3>1
  <2>7. ASSUME Begin(q) \/ End(q) \/ \E m \in Mark : RefreshCommit(q, m) PROVE Calmed
    <3>1. guard' = guard /\ quiet' = quiet /\ UNCHANGED hostVars
      BY <2>7 DEF Begin, End, RefreshCommit
    <3> QED BY <1>1, <1>4, <3>1
  <2> HIDE DEF Calmed
  <2> QED BY <1>7, <2>1, <2>2, <2>3, <2>4, <2>5, <2>6, <2>7 DEF TxnNext
<1>8. ASSUME HostNext PROVE Calmed
  <2>1. ASSUME NEW n \in 1 .. MaxAppend, AppendFlush(n) PROVE Calmed
    <3> DEFINE last == next + n - 1
    <3>1. /\ last \in Mark /\ next \in Int /\ guard \in Guard /\ quiet
          /\ checkpoint' = checkpoint /\ iteration' = iteration
      BY <1>1, <2>1, GuardConstants DEF AppendFlush, TypeOK, Mark
    <3>2. guard' = guard \/ (guard.state = "bound" /\ guard' = Observe(guard, next, last))
      BY <2>1 DEF AppendFlush, ObserveIfBound
    <3> HIDE DEF last
    <3>3. CASE guard' = guard
      BY <1>4, <3>1, <3>3
    <3>4. CASE guard.state = "bound" /\ guard' = Observe(guard, next, last)
      <4>1. /\ guard'.state = "bound" /\ guard'.checkpoint_iteration = guard.checkpoint_iteration
            /\ guard'.advance_iteration \in {ObservableCheckpointIteration, guard.advance_iteration}
            /\ guard'.unsafe_reuse <=> \/ guard.unsafe_reuse
                                       \/ /\ next <= guard.max_seen
                                          /\ \/ guard.advance_iteration = Invalid
                                             \/ ObservableCheckpointIteration # guard.advance_iteration
        BY <3>1, <3>4, ObserveKeeps
      <4>2. ~InMemory => /\ ~guard.unsafe_reuse /\ ~Checkpointing /\ guard.checkpoint_iteration = Invalid
                         /\ guard.advance_iteration = iteration
        BY <3>1, <3>4 DEF Quiet
      <4>3. ~InMemory => ObservableCheckpointIteration = iteration
        BY <4>2, Observable
      <4>4. ~InMemory => ~Checkpointing'
        BY <3>1, <4>2 DEF Checkpointing
      <4>5. ~InMemory => ~guard'.unsafe_reuse
        BY <1>3, <4>1, <4>2, <4>3
      <4> QED BY <3>1, <4>1, <4>2, <4>3, <4>4, <4>5 DEF Calm
    <3> QED BY <3>2, <3>3, <3>4
  <2>2. ASSUME BindStart \/ BindFinish PROVE FALSE
    BY <1>1, <2>2 DEF BindStart, BindFinish, Quiet
  <2>3. ASSUME CheckpointWrite PROVE Calmed
    <3>1. guard' = Sealed(guard) /\ quiet /\ iteration' = iteration /\ Checkpointing
      BY <1>1, <2>3 DEF CheckpointWrite, Checkpointing
    <3>2. guard.state = "absent" \/ InMemory
      BY <3>1 DEF Quiet
    <3> HIDE DEF Calmed
    <3> QED BY <1>6, <3>1, <3>2
  <2>4. ASSUME CheckpointFinish PROVE Calmed
    <3>1. guard' = guard /\ quiet /\ Checkpointing
      BY <1>1, <2>4 DEF CheckpointFinish, Checkpointing
    <3> QED BY <3>1 DEF Quiet, Calm
  <2>5. ASSUME DropGuard \/ RecreateTable PROVE Calmed
    BY <1>5, <2>5 DEF DropGuard, RecreateTable
  <2>6. ~ \E kind \in {"full", "concurrent"} : CheckpointStart(kind)
    BY <1>1 DEF CheckpointStart
  <2>7. ~ \E session \in {"none", "pinned", "other"} : Restart(session)
    BY <1>1 DEF Restart
  <2>8. ASSUME guard' = guard, quiet' = quiet, iteration' = iteration, checkpoint' = checkpoint PROVE Calmed
    BY <1>1, <1>4, <2>8
  <2> HIDE DEF Calmed
  <2> QED BY <1>8, <2>1, <2>2, <2>3, <2>4, <2>5, <2>6, <2>7, <2>8
          DEF HostNext, AppendCommit, AppendReject, Delete, PlanInPlace, WriteInPlace, CommitInPlace
<1>9. CASE UNCHANGED vars
  BY <1>1, <1>4, <1>9 DEF vars
<1> HIDE DEF Calmed
<1> QED BY <1>7, <1>8, <1>9 DEF Next

-----------------------------------------------------------------------------
(* The theorems *)

\* The initial state satisfies the invariant.
LEMMA InitInvariant ==
    Init => IInv
<1> SUFFICES ASSUME Init PROVE IInv
  OBVIOUS
<1>1. /\ live = {} /\ dead = {} /\ next = 0 /\ pending = Invalid /\ iteration = 0 /\ checkpoint = NoCheckpoint
      /\ persisted = NoImage /\ walFrom = 0 /\ guard = NoGuard /\ leftover = NoGuard /\ issued = 0
      /\ extension = "pinned" /\ quiet = FALSE
      /\ registry = [i \in Indexes |-> NoRow] /\ txn = [q \in Txns |-> NoTxn]
      /\ writer = [w \in Writers |-> "idle"]
  BY DEF Init
<1>2. /\ NoGuard.state = "absent" /\ NoGuard.token = NoToken
      /\ NoGuard.advance_iteration = Invalid /\ NoGuard.checkpoint_iteration = Invalid
      /\ NoImage.token = NoToken /\ NoImage.checkpoint_iteration = Invalid
      /\ NoRow.token = NoToken
      /\ NoCheckpoint.kind = "none" /\ NoCheckpoint.phase = "idle" /\ NoCheckpoint.image = NoImage
      /\ NoCheckpoint.from = 0
  BY DEF NoGuard, NoImage, NoRow, NoCheckpoint
<1>3. /\ ~NoTxn.on /\ ~NoTxn.fresh /\ NoTxn.changed = {} /\ NoTxn.visible = {} /\ NoTxn.token = NoToken
      /\ NoTxn.plan = "none" /\ \A i \in Indexes : NoTxn.registry[i] = NoRow
  BY DEF NoTxn
<1>4. TypeOK
  <2>2. registry \in [Indexes -> RegistryRow] /\ txn \in [Txns -> Txn] /\ guard \in Guard /\ leftover \in Guard
        /\ persisted \in Image /\ checkpoint \in Checkpoint
    BY <1>1, EmptyTypes
  <2>3. /\ live \in SUBSET Rowid /\ dead \in SUBSET Rowid /\ next \in 0 .. (MaxRowid + 1)
        /\ pending \in Rowid \union {Invalid} /\ iteration \in Iteration
        /\ walFrom \in 0 .. (MaxRowid + 1) /\ issued \in Token
    BY <1>1, GuardConstants DEF Iteration, Token
  <2>4. writer \in [Writers -> {"idle", "planned", "wrote"}] /\ quiet \in BOOLEAN
        /\ extension \in {"none", "pinned", "other"}
    BY <1>1
  <2> QED BY <2>2, <2>3, <2>4 DEF TypeOK
<1>5. HostInv
  BY <1>1, <1>2 DEF HostInv, Checkpointing, Invalid
<1>6. GuardNames /\ Creator /\ ImageInv /\ Stamped /\ Unrecorded
  BY <1>1, <1>2 DEF GuardNames, GuardInv, Present, UncommittedGuard, Creator, ImageInv, Stamped, Unrecorded,
                    Invalid, NoToken
<1>7. TxnsInv
  BY <1>1, <1>2, <1>3 DEF TxnsInv, TxnInv, NoToken
<1>8. GuardsSafe
  BY <1>1, <1>2 DEF GuardsSafe, GuardSafe, Clean, Present, ImageSafe
<1>9. SearchExact /\ Quiet
  BY <1>1, <1>3 DEF SearchExact, Quiet
<1> QED BY <1>4, <1>5, <1>6, <1>7, <1>8, <1>9 DEF IInv

\* Every step keeps the invariant.
LEMMA InvariantStep ==
    IInv /\ [Next]_vars => IInv'
<1> SUFFICES ASSUME IInv, [Next]_vars PROVE IInv'
  OBVIOUS
<1>1. /\ TypeOK /\ HostInv /\ GuardNames /\ Creator /\ ImageInv /\ Stamped /\ Unrecorded /\ TxnsInv /\ GuardsSafe
      /\ SearchExact /\ Quiet
  BY DEF IInv
<1>2. TypeOK'
  BY <1>1, TypeStep
<1>3. HostInv'
  BY <1>1, <1>2, HostStep
<1>4. GuardNames'
  <2>1. CASE UNCHANGED vars
    BY <1>1, <2>1 DEF vars, GuardNames, GuardInv, Present, UncommittedGuard
  <2> QED BY <1>1, <1>2, <2>1, NamesTxnStep, NamesHostStep DEF Next
<1>5. Creator' /\ ImageInv' /\ Unrecorded'
  BY <1>1, <1>2, CreatorStep, ImageStep, UnrecordedStep
<1>6. Stamped' /\ TxnsInv'
  BY <1>1, <1>2, StampedStep, TxnsInvStep
<1>7. GuardsSafe'
  BY <1>1, <1>2, <1>3, GuardsSafeStep
<1>8. SearchExact' /\ Quiet'
  BY <1>1, <1>2, SearchExactStep, QuietStep
<1> QED BY <1>2, <1>3, <1>4, <1>5, <1>6, <1>7, <1>8 DEF IInv

\* The invariant holds in every reachable state, for every table, every number
\* of connections and every history: rowid_guard.cpp's guard, the registry
\* rows and the images a restart reads are always consistent with each other.
THEOREM Invariant == Spec => []IInv
BY InitInvariant, InvariantStep, PTL DEF Spec

\* Every variable keeps its type: no operation of the guard (Observe,
\* ApplyCheckpointSeal, SerializeToDisk) leaves its range.
THEOREM TypeCorrect == Spec => []TypeOK
<1>1. IInv => TypeOK
  BY DEF IInv
<1> QED BY <1>1, Invariant, PTL

\* A search that SearchInitGlobal answers from the postings misses no row of
\* its snapshot, whatever checkpoints, reuses of rowids and crashes came before.
THEOREM SearchesExact == Spec => []SearchExact
<1>1. IInv => SearchExact
  BY DEF IInv
<1> QED BY <1>1, Invariant, PTL

\* An index whose guard ReadGuardState accepts has postings for every committed
\* row at or below its mark.
THEOREM UsableComplete == Spec => []UsableIsComplete
<1>1. ASSUME IInv, NEW i \in Indexes, Usable(registry[i])
      PROVE  Covered(registry[i], live) \subseteq registry[i].posted
  <2>1. TypeOK /\ GuardsSafe
    BY <1>1 DEF IInv
  <2>2. PICK b \in Int : ViewsSafe(registry[i].token, b)
    BY <1>1, <2>1, UsableViews
  <2> QED BY <2>2 DEF ViewsSafe, RowSafe, Covered
<1>2. IInv => UsableIsComplete
  BY <1>1 DEF UsableIsComplete
<1> QED BY <1>2, Invariant, PTL

\* Of the guards a create leaves side by side until it commits
\* (FreshGuardStatements) only one is the guard of usable rows.
THEOREM OneGuard == Spec => []OneUsableGuard
<1>1. ASSUME IInv, NEW i \in Indexes, Usable(registry[i])
      PROVE  registry[i].token = IF UncommittedGuard THEN leftover.token ELSE guard.token
  <2>1. GuardNames /\ Unrecorded
    BY <1>1 DEF IInv
  <2>2. registry[i].token # NoToken /\ registry[i].token \in {guard.token, leftover.token}
    BY <1>1 DEF Usable, GuardUsable
  <2>3. CASE UncommittedGuard
    BY <2>1, <2>2, <2>3 DEF Unrecorded
  <2>4. CASE ~UncommittedGuard
    BY <2>1, <2>2, <2>4 DEF GuardNames, NoGuard
  <2> QED BY <2>3, <2>4
<1>2. IInv => OneUsableGuard
  BY <1>1 DEF OneUsableGuard
<1> QED BY <1>2, Invariant, PTL

\* Without a checkpoint or a restart Observe never latches in a file database.
THEOREM QuietGuard == Spec => []NoFalseAlarm
<1>1. IInv => NoFalseAlarm
  BY DEF IInv, Quiet, NoFalseAlarm
<1> QED BY <1>1, Invariant, PTL

-----------------------------------------------------------------------------
(* The image a full checkpoint writes *)

\* Only the host begins, writes and ends checkpoints.
LEMMA CheckpointFrom ==
    ASSUME NEW q \in Txns, TxnNext(q)
    PROVE  checkpoint' \in {checkpoint, WithoutImage} /\ iteration' = iteration /\ extension' = extension
<1> USE DEF hostVars
<1>1. CASE Begin(q) \/ End(q) \/ CreateAbort(q)
  BY <1>1 DEF Begin, End, CreateAbort
<1>2. ASSUME NEW i \in Indexes, Search(q, i) \/ MaintenanceCheck(q, i) \/ CreateFirst(q, i) \/ CreateShared(q, i)
      PROVE  checkpoint' = checkpoint /\ iteration' = iteration /\ extension' = extension
  BY <1>2 DEF Search, MaintenanceCheck, CreateFirst, CreateShared
<1>3. ASSUME NEW i \in Indexes, DropIndex(q, i)
      PROVE  checkpoint' \in {checkpoint, WithoutImage} /\ iteration' = iteration /\ extension' = extension
  BY <1>3 DEF DropIndex
<1>4. CASE CreateCommit(q)
  BY <1>4 DEF CreateCommit
<1>5. ASSUME NEW m \in Mark, RefreshCommit(q, m) PROVE checkpoint' = checkpoint /\ iteration' = iteration /\ extension' = extension
  BY <1>5 DEF RefreshCommit
<1> QED BY <1>1, <1>2, <1>3, <1>4, <1>5 DEF TxnNext

\* During a full checkpoint no transaction creates an index.
LEMMA NoCreator ==
    ASSUME IInv, CheckpointInv, [Next]_vars, checkpoint'.kind = "full", NEW p \in Txns
    PROVE  txn'[p].plan # "create"
<1>1. TypeOK /\ HostInv
  BY DEF IInv
<1>2. NoTxn.plan = "none"
  BY DEF NoTxn
<1>3. CASE checkpoint.kind = "full"
  <2>1. txn[p].plan # "create" /\ Checkpointing
    BY <1>1, <1>3 DEF CheckpointInv, HostInv
  <2>2. CASE UNCHANGED vars
    BY <2>1, <2>2 DEF vars
  <2>3. CASE HostNext
    <3>1. CASE Keeps(p)
      BY <2>1, <3>1 DEF Keeps
    <3>2. ASSUME NEW session \in {"none", "pinned", "other"}, Restart(session) PROVE txn'[p].plan # "create"
      BY <1>2, <3>2 DEF Restart
    <3> QED BY <1>1, <2>3, <3>1, <3>2, HostKeeps
  <2>4. ASSUME NEW q \in Txns, TxnNext(q) PROVE txn'[p].plan # "create"
    <3>1. CASE p # q
      BY <1>1, <2>1, <2>4, <3>1, OthersKeep DEF Keeps
    <3>2. CASE p = q
      <4>1. ASSUME NEW i \in Indexes PROVE ~Search(q, i) /\ ~MaintenanceCheck(q, i) /\ ~CreateFirst(q, i) /\ ~CreateShared(q, i)
        BY <2>1 DEF Search, MaintenanceCheck, CreateFirst, CreateShared, Barrier
      <4>2. CASE Begin(q)
        <5>1. txn'[q] = [NoTxn EXCEPT !.on = TRUE, !.fresh = TRUE, !.visible = live, !.registry = registry]
          BY <1>1, <4>2 DEF Begin, TypeOK
        <5> QED BY <3>2, <5>1 DEF NoTxn
      <4>3. CASE End(q) \/ CreateAbort(q)
        BY <1>1, <1>2, <3>2, <4>3 DEF End, CreateAbort, TypeOK
      <4>4. ASSUME NEW i, txn' = RegistryCommitted([txn EXCEPT ![q] = NoTxn], i) PROVE txn'[q].plan # "create"
        BY <1>1, <1>2, <4>4 DEF RegistryCommitted, TypeOK, NoTxn
      <4> QED BY <2>4, <3>2, <4>1, <4>2, <4>3, <4>4 DEF TxnNext, DropIndex, CreateCommit, RefreshCommit
    <3> QED BY <3>1, <3>2
  <2> QED BY <2>2, <2>3, <2>4 DEF Next
<1>4. CASE checkpoint.kind # "full"
  <2>1. PICK kind \in {"full", "concurrent"} : CheckpointStart(kind)
    <3>1. checkpoint' # checkpoint /\ checkpoint' # WithoutImage /\ checkpoint' # NoCheckpoint
      BY <1>1, <1>4 DEF TypeOK, Checkpoint, WithoutImage, NoCheckpoint
    <3>2. \A q \in Txns : ~TxnNext(q)
      BY <3>1, CheckpointFrom
    <3>3. ~CheckpointWrite
      BY <1>1, <1>4 DEF CheckpointWrite, TypeOK, Checkpoint
    <3> QED
      BY <3>1, <3>2, <3>3
         DEF Next, HostNext, hostVars, vars, AppendFlush, AppendCommit, AppendReject, Delete, PlanInPlace,
             WriteInPlace, CommitInPlace, DropGuard, RecreateTable, BindStart, BindFinish, CheckpointFinish, Restart
  <2>2. kind = "full"
    BY <1>1, <2>1 DEF CheckpointStart, NoCheckpoint
  <2> QED BY <2>1, <2>2 DEF CheckpointStart, HoldsVacuumLock
<1> QED BY <1>3, <1>4

\* The guard is the one the image was written of.
LEMMA ImageStands ==
    ASSUME IInv, CheckpointInv, [Next]_vars, checkpoint'.kind = "full", checkpoint'.image # NoImage,
           extension' = "pinned", guard'.state = "bound", guard'.protection,
           guard'.checkpoint_iteration = Invalid
    PROVE  checkpoint'.image = ImageOf(guard', iteration' + 1)
<1> USE DEF hostVars
<1>1. TypeOK /\ HostInv /\ Creator /\ ImageInv /\ Stamped
  BY DEF IInv
<1>2. checkpoint' # WithoutImage /\ checkpoint' # NoCheckpoint
  BY <1>1 DEF TypeOK, Checkpoint, WithoutImage, NoCheckpoint
<1>3. CASE UNCHANGED <<checkpoint, guard, iteration, extension>>
  BY <1>3 DEF CheckpointInv
<1>4. ASSUME checkpoint' = checkpoint PROVE Checkpointing /\ \A q \in Txns : txn[q].plan # "create"
  BY <1>1, <1>4 DEF HostInv, CheckpointInv
<1>5. ASSUME NEW q \in Txns, TxnNext(q) PROVE UNCHANGED <<checkpoint, guard, iteration, extension>>
  <2>1. CASE Begin(q) \/ End(q) \/ \E m \in Mark : RefreshCommit(q, m)
    BY <2>1 DEF Begin, End, RefreshCommit
  <2>2. ASSUME NEW i \in Indexes PROVE ~Search(q, i) /\ ~MaintenanceCheck(q, i) /\ ~CreateFirst(q, i) /\ ~CreateShared(q, i)
    BY <1>4 DEF Search, MaintenanceCheck, CreateFirst, CreateShared, Barrier
  <2>3. ASSUME NEW i \in Indexes, DropIndex(q, i) PROVE UNCHANGED <<checkpoint, guard, iteration, extension>>
    BY <1>2, <2>3 DEF DropIndex
  <2>4. ~CreateCommit(q) /\ ~CreateAbort(q)
    BY <1>2, <1>4 DEF CreateCommit, CreateAbort
  <2> QED BY <1>5, <2>1, <2>2, <2>3, <2>4 DEF TxnNext
<1>6. ASSUME NEW kind \in {"full", "concurrent"} PROVE ~CheckpointStart(kind)
  BY DEF CheckpointStart, NoCheckpoint
<1>7. CASE CheckpointWrite
  <2>1. checkpoint.kind = "full" /\ ~UncommittedGuard
    BY <1>1, <1>7 DEF CheckpointWrite, CheckpointInv, Creator, TypeOK, Checkpoint
  <2>2. guard.state = "bound" /\ guard.protection /\ guard' = Sealed(guard) /\ extension = "pinned"
    BY <1>1, <1>7, SealKeeps DEF CheckpointWrite, TypeOK
  <2>3. guard' = ApplyCheckpointSeal(guard) /\ guard'.protection /\ iteration' = iteration
    BY <1>7, <2>2 DEF Sealed, CheckpointWrite
  <2>4. checkpoint'.image = SerializeToDisk(guard)
    BY <1>1, <1>7, <2>1, <2>2 DEF CheckpointWrite, TypeOK, Checkpoint
  <2> QED BY <2>2, <2>3, <2>4 DEF SerializeToDisk
<1>8. CASE BindFinish
  <2>1. guard.state = "binding" /\ guard' = BoundFromStorage(guard) /\ extension = "pinned" /\ guard \in Guard
    BY <1>1, <1>8 DEF BindFinish, TypeOK
  <2>2. guard.checkpoint_iteration # Invalid
    BY <1>1, <2>1 DEF Stamped
  <2> DEFINE stored == [ReadStoredGuardState(guard) EXCEPT !.state = "bound", !.replay = Invalid]
  <2>3. /\ stored \in Guard
        /\ stored.protection => stored.checkpoint_iteration = guard.checkpoint_iteration
    BY <2>1, StoredKeeps
  <2>4. guard'.protection = stored.protection /\ guard'.checkpoint_iteration = stored.checkpoint_iteration
    <3>1. guard' = stored \/ guard' = Observe(stored, guard.replay, next - 1)
      BY <2>1 DEF BoundFromStorage
    <3> HIDE DEF stored
    <3> QED BY <2>3, <3>1 DEF Observe, Guard
  <2> QED BY <2>2, <2>3, <2>4
<1>9. CASE BindStart
  BY <1>1, <1>9 DEF BindStart, TypeOK, Guard
<1>10. CASE HostNext
  <2>1. ASSUME NEW n \in 1 .. MaxAppend PROVE ~AppendFlush(n)
    BY DEF AppendFlush
  <2>2. CASE AppendCommit \/ AppendReject \/ \E r \in Rowid : Delete(r)
    BY <1>3, <2>2 DEF AppendCommit, AppendReject, Delete
  <2>3. ASSUME NEW w \in Writers, PlanInPlace(w) \/ WriteInPlace(w) \/ CommitInPlace(w)
        PROVE  UNCHANGED <<checkpoint, guard, iteration, extension>>
    BY <2>3 DEF PlanInPlace, WriteInPlace, CommitInPlace
  <2>4. ~DropGuard /\ ~CheckpointFinish /\ \A session \in {"none", "pinned", "other"} : ~Restart(session)
    BY <1>2 DEF DropGuard, CheckpointFinish, Restart
  <2>5. ~RecreateTable
    BY <1>4 DEF RecreateTable
  <2> QED BY <1>3, <1>6, <1>7, <1>8, <1>9, <1>10, <2>1, <2>2, <2>3, <2>4, <2>5 DEF HostNext
<1> QED BY <1>3, <1>5, <1>10 DEF Next, vars

LEMMA CheckpointStep ==
    ASSUME IInv, CheckpointInv, [Next]_vars
    PROVE  CheckpointInv'
BY NoCreator, ImageStands DEF CheckpointInv

\* The step that ends a full checkpoint leaves a file that the next session
\* reads as a clean guard which has seen every mark.
LEMMA FinishKeepsUsable ==
    ASSUME IInv, CheckpointInv, CheckpointFinish, NEW i \in Indexes,
           checkpoint.kind = "full", checkpoint.image # NoImage, ~InMemory,
           GuardUsable(guard, registry[i]), guard.state = "bound", guard.checkpoint_iteration = Invalid
    PROVE  LET g == UnboundGuard(persisted, walFrom, next)'
           IN  /\ g.state = "unbound" /\ g.replay = Invalid
               /\ g.checkpoint_iteration = iteration' /\ ~g.unsafe_reuse
               /\ registry[i].hwm <= g.max_seen
<1>1. TypeOK /\ ImageInv
  BY DEF IInv
<1>2. extension = "pinned" /\ guard.protection /\ ~BoundUnsafe(guard) /\ registry[i].hwm <= guard.max_seen
  BY DEF GuardUsable
<1>3. ~guard.unsafe_reuse
  BY <1>1, <1>2 DEF BoundUnsafe, ApplyCheckpointSeal, TypeOK, Guard
<1>4. checkpoint.image = ImageOf(guard, iteration + 1)
  BY <1>2 DEF CheckpointInv
<1>5. persisted' = ImageOf(guard, iteration + 1) /\ walFrom' = next' /\ iteration' = iteration + 1
  BY <1>4 DEF CheckpointFinish
<1>6. ImageOf(guard, iteration + 1).token # NoToken
  BY <1>1, <1>4 DEF ImageInv
<1>7. next' \in Int
  BY <1>1 DEF CheckpointFinish, TypeOK
<1> QED BY <1>2, <1>3, <1>5, <1>6, <1>7 DEF UnboundGuard, ImageOf

\* Every full checkpoint of a clean guard keeps the usable indexes usable for
\* the session that reads the file (SerializeToDisk's seal, rowid_guard.cpp).
THEOREM CheckpointsKeep == Spec => CheckpointKeepsUsable
<1> DEFINE Keep ==
      \A i \in Indexes :
         /\ checkpoint.phase = "written" /\ checkpoint'.phase = "idle" /\ extension' = extension
         /\ checkpoint.kind = "full" /\ checkpoint.image # NoImage /\ ~InMemory
         /\ iteration' # iteration
         /\ GuardUsable(guard, registry[i])
         /\ guard.state = "bound" /\ guard.checkpoint_iteration = Invalid
         => LET g == UnboundGuard(persisted, walFrom, next)'
            IN  /\ g.state = "unbound" /\ g.replay = Invalid
                /\ g.checkpoint_iteration = iteration' /\ ~g.unsafe_reuse
                /\ registry[i].hwm <= g.max_seen
<1>1. Init => IInv /\ CheckpointInv
  BY InitInvariant DEF Init, CheckpointInv, NoCheckpoint
<1>2. IInv /\ CheckpointInv /\ [Next]_vars => (IInv /\ CheckpointInv)'
  BY InvariantStep, CheckpointStep
<1>3. ASSUME Next, iteration' # iteration PROVE CheckpointFinish
  <2>1. ~AppendCommit /\ ~AppendReject /\ ~DropGuard /\ ~RecreateTable /\ ~BindStart /\ ~BindFinish /\ ~CheckpointWrite
    BY <1>3 DEF AppendCommit, AppendReject, DropGuard, RecreateTable, BindStart, BindFinish, CheckpointWrite, hostVars
  <2>2. (\A n \in 1 .. MaxAppend : ~AppendFlush(n)) /\ \A r \in Rowid : ~Delete(r)
    BY <1>3 DEF AppendFlush, Delete
  <2>3. \A w \in Writers : ~PlanInPlace(w) /\ ~WriteInPlace(w) /\ ~CommitInPlace(w)
    BY <1>3 DEF PlanInPlace, WriteInPlace, CommitInPlace, hostVars
  <2>4. /\ \A kind \in {"full", "concurrent"} : ~CheckpointStart(kind)
        /\ \A session \in {"none", "pinned", "other"} : ~Restart(session)
    BY <1>3 DEF CheckpointStart, Restart
  <2> QED BY <1>3, <2>1, <2>2, <2>3, <2>4, CheckpointFrom DEF Next, HostNext
<1>4. IInv /\ CheckpointInv /\ [Next]_vars => [Keep]_vars
  <2>1. ASSUME IInv, CheckpointInv, Next PROVE Keep
    BY <1>3, <2>1, FinishKeepsUsable
  <2> QED BY <2>1
<1>5. CheckpointKeepsUsable <=> [][Keep]_vars
  BY DEF CheckpointKeepsUsable
<1> QED BY <1>1, <1>2, <1>4, <1>5, PTL DEF Spec

-----------------------------------------------------------------------------
(* A search of a snapshot *)

\* What a transaction shows of itself when its searches are exact.
Shown(t) == [open |-> t.on, view |-> t.visible, answered |-> t.plan \in {"index", "scan"}, found |-> t.visible]

\* An exact search finds what its transaction sees.
LEMMA FoundVisible ==
    ASSUME NEW t \in Txn,
           t.plan = "index" => Covered(t.registry[t.target], t.visible) \subseteq t.registry[t.target].posted
    PROVE  Found(t) = t.visible
<1> DEFINE row == t.registry[t.target]
<1>1. row.hwm \in Int /\ \A r \in t.visible : r \in Int
  BY DEF Txn, RegistryRow, Mark, Rowid
<1>2. ASSUME t.plan = "index", NEW r \in t.visible PROVE r \in row.posted \/ r > row.hwm
  BY <1>1, <1>2 DEF Covered
<1> QED BY <1>2 DEF Found

\* The two things a transaction can show, by what it does.
LEMMA ShownIs ==
    ASSUME NEW t, NEW on, NEW view, t.on = on, t.visible = view
    PROVE  /\ t.plan \in {"index", "scan"} =>
                Shown(t) = [open |-> on, view |-> view, answered |-> TRUE, found |-> view]
           /\ t.plan \notin {"index", "scan"} =>
                Shown(t) = [open |-> on, view |-> view, answered |-> FALSE, found |-> view]
<1>1. CASE t.plan \in {"index", "scan"}
  <2>1. (t.plan \in {"index", "scan"}) = TRUE
    BY <1>1
  <2> QED BY <1>1, <2>1, Zenon DEF Shown
<1>2. CASE t.plan \notin {"index", "scan"}
  <2>1. (t.plan \in {"index", "scan"}) = FALSE
    BY <1>2
  <2> QED BY <1>2, <2>1, Zenon DEF Shown
<1> QED BY <1>1, <1>2, Zenon

\* A connection without a transaction shows nothing.
LEMMA ShownOff ==
    Shown(NoTxn) = [open |-> FALSE, view |-> {}, answered |-> FALSE, found |-> {}]
<1>1. NoTxn.on = FALSE /\ NoTxn.visible = {}
  BY Zenon DEF NoTxn
<1>2. NoTxn.plan \notin {"index", "scan"}
  BY DEF NoTxn
<1> QED BY <1>1, <1>2, ShownIs, Zenon

\* What one step of the model does to what transactions show.
LEMMA ShownStep ==
    ASSUME IInv, IInv', [Next]_vars,
           NEW S, S = [q \in Txns |-> Shown(txn[q])], NEW T, T = [q \in Txns |-> Shown(txn'[q])]
    PROVE  \/ T = S /\ live' \in SUBSET Rowid
           \/ T = [q \in Txns |-> Shown(NoTxn)] /\ live' \in SUBSET Rowid
           \/ /\ live' = live
              /\ \E q \in Txns :
                   \/ ~S[q].open /\ T = [S EXCEPT ![q] = [open |-> TRUE, view |-> live, answered |-> FALSE, found |-> live]]
                   \/ S[q].open /\ T = [S EXCEPT ![q] = [open |-> TRUE, view |-> S[q].view, answered |-> TRUE, found |-> S[q].view]]
                   \/ S[q].open /\ T = [S EXCEPT ![q] = Shown(NoTxn)]
<1> USE DEF hostVars
<1>0. TypeOK /\ TxnsInv /\ live' \in SUBSET Rowid
  BY DEF IInv, TypeOK
<1>1. ASSUME NEW p \in Txns, Keeps(p) PROVE T[p] = S[p]
  BY <1>1 DEF Keeps, Shown
<1>2. CASE UNCHANGED vars
  BY <1>0, <1>2 DEF vars
<1>3. ASSUME NEW session \in {"none", "pinned", "other"}, Restart(session)
      PROVE  T = [q \in Txns |-> Shown(NoTxn)]
  BY <1>3 DEF Restart
<1>4. ASSUME NEW q \in Txns, TxnNext(q)
      PROVE  \/ T = S
             \/ /\ live' = live
                /\ \/ ~S[q].open /\ T = [S EXCEPT ![q] = [open |-> TRUE, view |-> live, answered |-> FALSE, found |-> live]]
                   \/ S[q].open /\ T = [S EXCEPT ![q] = [open |-> TRUE, view |-> S[q].view, answered |-> TRUE, found |-> S[q].view]]
                   \/ S[q].open /\ T = [S EXCEPT ![q] = Shown(NoTxn)]
  <2>1. \A p \in Txns \ {q} : T[p] = S[p]
    BY <1>0, <1>1, <1>4, OthersKeep
  <2>2. T = [S EXCEPT ![q] = Shown(txn'[q])]
    BY <2>1
  <2>3. S[q] = Shown(txn[q])
    OBVIOUS
  <2>a. S[q].open = txn[q].on /\ S[q].view = txn[q].visible
    BY <2>3 DEF Shown
  <2>4. CASE txn'[q] = NoTxn /\ txn[q].on
    <3>1. live' = live
      BY <1>4 DEF TxnNext, Begin, End, Search, MaintenanceCheck, DropIndex, CreateFirst, CreateShared, CreateCommit,
                  CreateAbort, RefreshCommit
    <3>2. S[q].open
      BY <2>4, <2>a
    <3> QED BY <2>2, <2>4, <3>1, <3>2
  <2>5. ASSUME NEW i \in Indexes, txn' = RegistryCommitted([txn EXCEPT ![q] = NoTxn], i) PROVE txn'[q] = NoTxn
    BY <1>0, <2>5 DEF RegistryCommitted, TypeOK, NoTxn
  <2>6. CASE Begin(q)
    <3>1. ~txn[q].on /\ live' = live
          /\ txn'[q] = [NoTxn EXCEPT !.on = TRUE, !.fresh = TRUE, !.visible = live, !.registry = registry]
      BY <1>0, <2>6 DEF Begin, TypeOK
    <3>2. txn'[q].on = TRUE /\ txn'[q].visible = live
      BY <3>1, Zenon DEF NoTxn
    <3>3. txn'[q].plan \notin {"index", "scan"}
      BY <3>1 DEF NoTxn
    <3>4. Shown(txn'[q]) = [open |-> TRUE, view |-> live, answered |-> FALSE, found |-> live]
      BY <3>2, <3>3, ShownIs, Zenon
    <3>5. ~S[q].open
      BY <3>1, <2>a
    <3> QED BY <2>2, <3>1, <3>4, <3>5, Zenon
  <2>7. CASE End(q) \/ CreateAbort(q)
    <3>1. txn'[q] = NoTxn /\ txn[q].on
      BY <1>0, <2>7, OffPlan DEF End, CreateAbort, TypeOK
    <3> QED BY <2>4, <3>1
  <2>8. ASSUME NEW i \in Indexes, Search(q, i)
        PROVE  live' = live /\ S[q].open
               /\ T = [S EXCEPT ![q] = [open |-> TRUE, view |-> S[q].view, answered |-> TRUE, found |-> S[q].view]]
    <3>1. txn[q].on /\ live' = live
          /\ \E pl \in {"index", "scan"} : txn'[q] = [txn[q] EXCEPT !.plan = pl, !.target = i]
      BY <1>0, <2>8 DEF Search, TypeOK
    <3>2. txn'[q].on = txn[q].on /\ txn'[q].plan \in {"index", "scan"} /\ txn'[q].visible = txn[q].visible
      <4>1. PICK pl \in {"index", "scan"} : txn'[q] = [txn[q] EXCEPT !.plan = pl, !.target = i]
        BY <3>1
      <4>2. PICK u \in Txn : u = txn[q]
        BY <1>0 DEF TypeOK
      <4>3. [u EXCEPT !.plan = pl, !.target = i].on = u.on /\ [u EXCEPT !.plan = pl, !.target = i].visible = u.visible
        BY <4>2 DEF Txn
      <4>4. [u EXCEPT !.plan = pl, !.target = i].plan = pl
        BY <4>2 DEF Txn
      <4> QED BY <4>1, <4>2, <4>3, <4>4
    <3>5. txn[q].on = TRUE
      BY <1>0, <3>1 DEF TypeOK, Txn
    <3>3. Shown(txn'[q]) = [open |-> TRUE, view |-> txn[q].visible, answered |-> TRUE, found |-> txn[q].visible]
      <4>1. Shown(txn'[q]) = [open |-> txn[q].on, view |-> txn[q].visible, answered |-> TRUE, found |-> txn[q].visible]
        BY <3>2, ShownIs, Zenon
      <4> QED BY <3>5, <4>1
    <3>4. S[q].open
      BY <3>1, <2>a
    <3> QED BY <2>2, <2>a, <3>1, <3>3, <3>4, Zenon
  <2>9. ASSUME NEW i \in Indexes, MaintenanceCheck(q, i) \/ CreateFirst(q, i) \/ CreateShared(q, i) PROVE T = S
    <3>1. /\ txn[q].plan = "none" /\ txn'[q].visible = txn[q].visible
      BY <1>0, <2>9, OwnWork DEF MaintenanceCheck, CreateFirst, CreateShared
    <3>2. txn'[q].plan \in {"maintain", "create"} /\ txn'[q].on = txn[q].on
      <4>1. \E pl \in {"maintain", "create"} :
                \/ txn'[q] = [txn[q] EXCEPT !.plan = pl, !.target = i]
                \/ \E tok : txn'[q] = [txn[q] EXCEPT !.plan = pl, !.target = i, !.token = tok]
        BY <1>0, <2>9 DEF MaintenanceCheck, CreateFirst, CreateShared, TypeOK
      <4> QED BY <1>0, <4>1 DEF TypeOK, Txn
    <3>3. txn[q].plan \notin {"index", "scan"} /\ txn'[q].plan \notin {"index", "scan"}
      BY <3>1, <3>2
    <3>4. Shown(txn[q]) = [open |-> txn[q].on, view |-> txn[q].visible, answered |-> FALSE, found |-> txn[q].visible]
      BY <3>3, ShownIs, Zenon
    <3>5. Shown(txn'[q]) = [open |-> txn[q].on, view |-> txn[q].visible, answered |-> FALSE, found |-> txn[q].visible]
      BY <3>1, <3>2, <3>3, ShownIs, Zenon
    <3> QED BY <2>2, <2>3, <3>4, <3>5
  <2>10. ASSUME NEW i \in Indexes, DropIndex(q, i) PROVE txn'[q] = NoTxn /\ txn[q].on
    BY <2>5, <2>10 DEF DropIndex
  <2>11. ASSUME CreateCommit(q) \/ \E m \in Mark : RefreshCommit(q, m) PROVE txn'[q] = NoTxn /\ txn[q].on
    <3>1. txn[q].target \in Indexes
      BY <1>0 DEF TypeOK, Txn
    <3> QED BY <1>0, <2>5, <2>11, <3>1, OffPlan DEF CreateCommit, RefreshCommit
  <2> QED BY <1>4, <2>4, <2>6, <2>7, <2>8, <2>9, <2>10, <2>11 DEF TxnNext
<1>5. ASSUME HostNext, ~ \E session \in {"none", "pinned", "other"} : Restart(session) PROVE T = S
  BY <1>0, <1>1, <1>5, HostKeeps
<1> QED BY <1>0, <1>2, <1>3, <1>4, <1>5 DEF Next

\* Every behaviour of the guarded index is one of a table that is searched
\* snapshot by snapshot (SnapshotSearch): no interleaving of the operations of
\* rowid_guard.cpp, index_state.cpp and the host shows through a search.
THEOREM Refinement == Spec => ImplementsSnapshotSearch
<1> DEFINE S == [q \in Txns |-> [open |-> txn[q].on, view |-> txn[q].visible,
                                 answered |-> txn[q].plan \in {"index", "scan"},
                                 found |-> Found(txn[q])]]
<1>1. ASSUME IInv PROVE S = [q \in Txns |-> Shown(txn[q])]
  <2>1. \A q \in Txns : Found(txn[q]) = txn[q].visible
    BY <1>1, FoundVisible DEF IInv, TypeOK, SearchExact
  <2> QED BY <2>1, Zenon DEF Shown
<1>2. Shown(NoTxn) = Promise!Closed
  BY ShownOff, Zenon DEF Promise!Closed
<1>3. Init => Promise!Init
  <2>1. SUFFICES ASSUME Init PROVE Promise!Init
    OBVIOUS
  <2>2. live = {} /\ \A q \in Txns : txn[q] = NoTxn
    BY <2>1 DEF Init
  <2>3. S = [q \in Txns |-> Shown(NoTxn)]
    BY <1>1, <2>1, <2>2, InitInvariant
  <2> QED BY <1>2, <2>2, <2>3 DEF Promise!Init
<1>4. IInv /\ IInv' /\ [Next]_vars => [Promise!Next]_(Promise!vars)
  <2>1. SUFFICES ASSUME IInv, IInv', [Next]_vars PROVE [Promise!Next]_(Promise!vars)
    OBVIOUS
  <2>2. PICK s, t : s = [q \in Txns |-> Shown(txn[q])] /\ t = [q \in Txns |-> Shown(txn'[q])]
    OBVIOUS
  <2>3. S = s
    BY <1>1, <2>1, <2>2
  <2>4. S' = t
    <3>1. ASSUME NEW q \in Txns PROVE Found(txn[q])' = txn'[q].visible
      <4>1. PICK u : u = txn'[q]
        OBVIOUS
      <4>2. u \in Txn /\ (u.plan = "index" =>
                             Covered(u.registry[u.target], u.visible) \subseteq u.registry[u.target].posted)
        BY <2>1, <4>1 DEF IInv, TypeOK, SearchExact, Covered
      <4>3. Found(u) = u.visible
        BY <4>2, FoundVisible
      <4> QED BY <4>1, <4>3 DEF Found
    <3> QED BY <2>2, <3>1, Zenon DEF Shown
  <2>5. ASSUME NEW view, NEW answered
        PROVE  Promise!Opened(view, answered) = [open |-> TRUE, view |-> view, answered |-> answered, found |-> view]
    BY DEF Promise!Opened
  <2>8. \/ t = s /\ live' \in SUBSET Rowid
        \/ t = [q \in Txns |-> Promise!Closed] /\ live' \in SUBSET Rowid
        \/ /\ live' = live
           /\ \E q \in Txns :
                \/ ~s[q].open /\ t = [s EXCEPT ![q] = Promise!Opened(live, FALSE)]
                \/ s[q].open /\ t = [s EXCEPT ![q] = Promise!Opened(s[q].view, TRUE)]
                \/ s[q].open /\ t = [s EXCEPT ![q] = Promise!Closed]
    <3>1. \/ t = s /\ live' \in SUBSET Rowid
          \/ t = [q \in Txns |-> Shown(NoTxn)] /\ live' \in SUBSET Rowid
          \/ /\ live' = live
             /\ \E q \in Txns :
                  \/ ~s[q].open /\ t = [s EXCEPT ![q] = [open |-> TRUE, view |-> live, answered |-> FALSE, found |-> live]]
                  \/ s[q].open /\ t = [s EXCEPT ![q] = [open |-> TRUE, view |-> s[q].view, answered |-> TRUE, found |-> s[q].view]]
                  \/ s[q].open /\ t = [s EXCEPT ![q] = Shown(NoTxn)]
      BY <2>1, <2>2, ShownStep
    <3> QED BY <1>2, <2>5, <3>1
  <2> HIDE DEF S
  <2>9. CASE t = s /\ live' \in SUBSET Rowid
    BY <2>3, <2>4, <2>9 DEF S, Promise!Next, Promise!vars, Promise!Change
  <2>10. CASE t = [q \in Txns |-> Promise!Closed] /\ live' \in SUBSET Rowid
    BY <2>3, <2>4, <2>10 DEF S, Promise!Next, Promise!vars, Promise!Restart
  <2>11. ASSUME live' = live, NEW q \in Txns,
                \/ ~s[q].open /\ t = [s EXCEPT ![q] = Promise!Opened(live, FALSE)]
                \/ s[q].open /\ t = [s EXCEPT ![q] = Promise!Opened(s[q].view, TRUE)]
                \/ s[q].open /\ t = [s EXCEPT ![q] = Promise!Closed]
         PROVE  Promise!Begin(q) \/ Promise!Answer(q) \/ Promise!End(q)
    BY <2>3, <2>4, <2>11, Zenon DEF S, Promise!Begin, Promise!Answer, Promise!End
  <2> QED BY <2>8, <2>9, <2>10, <2>11 DEF Promise!Next, Promise!vars
<1> QED BY <1>3, <1>4, Invariant, PTL DEF Spec, ImplementsSnapshotSearch, Promise!Spec
=============================================================================
