----------------------------- MODULE RowIdGuard -----------------------------
(***************************************************************************)
(* The native rowid guard of one table (src/src/rowid_guard.cpp), the      *)
(* registry rows whose postings it protects, and the verdict every reader  *)
(* takes from it (src/src/index_state.cpp), over the life of a database    *)
(* file: commits that a later index rejects, checkpoints that vacuum and   *)
(* hand rowids back, crashes, WAL replay, sessions without the extension   *)
(* or under another host build, and tables that were dropped and created   *)
(* again.  The host's part (rows, rowids, checkpoints, WAL) is modelled    *)
(* from how the extension's code uses it.                                  *)
(*                                                                         *)
(* Postings are abstracted to the set of rowids whose postings describe    *)
(* the row that occupies the rowid now.  A rowid leaves that set when the  *)
(* host reissues it or changes its row in place.                           *)
(***************************************************************************)
EXTENDS Integers, FiniteSets

CONSTANTS Indexes,      \* the ngram indexes a table may have, one per column
          Txns,         \* connections that search, maintain, create and drop
          Writers,      \* connections that update the table in place
          InMemory,     \* TRUE for a database without a file
          MaxRowid,     \* bound: rowids are 0..MaxRowid
          MaxIteration, \* bound: checkpoints that advance the file header
          MaxToken,     \* bound: guard incarnations
          MaxAppend     \* bound: rows one commit appends

ASSUME GuardConstants ==
    /\ InMemory \in BOOLEAN
    /\ MaxRowid \in Nat /\ MaxIteration \in Nat /\ MaxToken \in Nat
    /\ MaxAppend \in Nat \ {0}
    /\ Indexes # {}

Rowid == 0 .. MaxRowid
Mark == -1 .. MaxRowid
Invalid == -1                    \* an optional_idx without a value
Iteration == 0 .. MaxIteration
OptIteration == Iteration \union {Invalid}
OptSeal == OptIteration          \* SerializeToDisk seals with current + 1
NoToken == 0
Token == 0 .. MaxToken           \* UUIDs: NoToken is the empty string

VARIABLES
    live, dead,     \* committed rows: visible to a new snapshot, deleted
    next,           \* the next rowid the table hands out
    pending,        \* last rowid of the commit in its flush, or Invalid
    iteration,      \* the header's checkpoint iteration
    checkpoint,     \* the checkpoint in progress
    persisted,      \* the guard image a restart reads, NoImage without one
    walFrom,        \* first rowid whose append only the WAL holds
    guard,          \* the guard in the table's in-memory index list
    leftover,       \* the guard an uncommitted create drops, installed until then
    issued,         \* number of guard tokens minted so far
    registry,       \* the registry row of each index
    txn,            \* the transaction of each connection
    writer,         \* where each in-place update stands
    extension,      \* "none", "pinned" or "other": what this session loaded
    quiet           \* history: no checkpoint or restart since the guard was made

hostVars == <<live, dead, next, pending, iteration, checkpoint, walFrom>>
vars == <<live, dead, next, pending, iteration, checkpoint, persisted, walFrom,
          guard, leftover, issued, registry, txn, writer, extension, quiet>>

-----------------------------------------------------------------------------
(* State shapes *)

Image == [token : Token, max_seen : Mark, unsafe_reuse : BOOLEAN,
          checkpoint_iteration : OptSeal, protection : BOOLEAN]

NoImage == [token |-> NoToken, max_seen |-> -1, unsafe_reuse |-> TRUE,
            checkpoint_iteration |-> Invalid, protection |-> FALSE]

\* `replay` is the first rowid of the WAL appends buffered against an unbound
\* guard (they end at next - 1), or Invalid.
Guard == [state : {"absent", "unbound", "binding", "bound"}, token : Token,
          max_seen : Mark, unsafe_reuse : BOOLEAN, protection : BOOLEAN,
          checkpoint_iteration : OptSeal, advance_iteration : OptIteration,
          replay : Rowid \union {Invalid}]

NoGuard == [state |-> "absent", token |-> NoToken, max_seen |-> -1,
            unsafe_reuse |-> TRUE, protection |-> FALSE,
            checkpoint_iteration |-> Invalid, advance_iteration |-> Invalid,
            replay |-> Invalid]

\* token = NoToken: the index has no registry row.
RegistryRow == [token : Token, hwm : Mark, posted : SUBSET Rowid]
NoRow == [token |-> NoToken, hwm |-> -1, posted |-> {}]

\* A transaction's snapshot (visible rows, registry), what was committed since
\* (anything: fresh = FALSE; the registry rows in `lost`; the rows in `changed`
\* in place), and what it is doing to index `target`.
Txn == [on : BOOLEAN, fresh : BOOLEAN, lost : SUBSET Indexes,
        visible : SUBSET Rowid, changed : SUBSET Rowid,
        registry : [Indexes -> RegistryRow],
        plan : {"none", "index", "scan", "maintain", "create"},
        target : Indexes, token : Token]

NoTxn == [on |-> FALSE, fresh |-> FALSE, lost |-> {}, visible |-> {}, changed |-> {},
          registry |-> [i \in Indexes |-> NoRow], plan |-> "none",
          target |-> CHOOSE i \in Indexes : TRUE, token |-> NoToken]

NoCheckpoint == [kind |-> "none", phase |-> "idle", image |-> NoImage, from |-> 0]
Checkpoint == [kind : {"none", "full", "concurrent"}, phase : {"idle", "started", "written"},
               image : Image, from : 0 .. (MaxRowid + 1)]

TypeOK ==
    /\ live \in SUBSET Rowid /\ dead \in SUBSET Rowid
    /\ next \in 0 .. (MaxRowid + 1)
    /\ pending \in Rowid \union {Invalid}
    /\ iteration \in Iteration
    /\ checkpoint \in Checkpoint
    /\ persisted \in Image
    /\ walFrom \in 0 .. (MaxRowid + 1)
    /\ guard \in Guard
    /\ leftover \in Guard
    /\ issued \in Token
    /\ registry \in [Indexes -> RegistryRow]
    /\ txn \in [Txns -> Txn]
    /\ writer \in [Writers -> {"idle", "planned", "wrote"}]
    /\ extension \in {"none", "pinned", "other"}
    /\ quiet \in BOOLEAN

-----------------------------------------------------------------------------
(* The guard's own operations *)

Larger(a, b) == IF a < b THEN b ELSE a
Checkpointing == checkpoint.phase # "idle"

\* ObservableCheckpointIteration: no value in memory or during a checkpoint.
ObservableCheckpointIteration ==
    IF InMemory \/ Checkpointing THEN Invalid ELSE iteration

\* Faulty: every reissued range latches, the retry of a rejected commit too.
ObserveIgnoringIteration(g, first, last) ==
    [g EXCEPT !.unsafe_reuse = @ \/ first <= g.max_seen,
              !.max_seen = Larger(@, last)]

\* Faulty: an unknown iteration counts as unchanged.
ObserveTrustingUnknown(g, first, last) ==
    [g EXCEPT !.unsafe_reuse = @ \/ (/\ first <= g.max_seen
                                     /\ g.advance_iteration # Invalid
                                     /\ ObservableCheckpointIteration # Invalid
                                     /\ ObservableCheckpointIteration # g.advance_iteration),
              !.max_seen = Larger(@, last),
              !.advance_iteration = IF last > g.max_seen THEN ObservableCheckpointIteration ELSE @]

\* RowIdGuard::Observe, which Append and Insert call with a chunk's range.
Observe(g, first, last) ==
    [g EXCEPT !.unsafe_reuse = @ \/ (/\ first <= g.max_seen
                                     /\ \/ g.advance_iteration = Invalid
                                        \/ ObservableCheckpointIteration = Invalid
                                        \/ ObservableCheckpointIteration # g.advance_iteration),
              !.max_seen = Larger(@, last),
              !.advance_iteration = IF last > g.max_seen THEN ObservableCheckpointIteration ELSE @]

ObserveIfBound(g, first, last) == IF g.state = "bound" THEN Observe(g, first, last) ELSE g

\* RowIdGuard::ApplyCheckpointSeal.
ApplyCheckpointSeal(g) ==
    [g EXCEPT !.unsafe_reuse = @ \/ g.checkpoint_iteration \notin {Invalid, iteration},
              !.checkpoint_iteration = Invalid]

\* ReadStoredGuardState, on the persisted options of an unbound guard.
ReadStoredGuardState(g) ==
    LET compatible == extension = "pinned" /\ g.protection
    IN  [g EXCEPT !.unsafe_reuse = @ \/ ~compatible,
                  !.checkpoint_iteration = IF compatible THEN @ ELSE Invalid,
                  !.protection = compatible]

ImageOf(g, seal) ==
    [token |-> g.token, max_seen |-> g.max_seen, unsafe_reuse |-> g.unsafe_reuse,
     checkpoint_iteration |-> seal, protection |-> g.protection]

\* Faulty as a disk image, right as SerializeToWAL: sealed with the iteration
\* as it stands, though the header is about to advance it.
SerializeToWAL(g) ==
    LET compatible == g.protection /\ extension = "pinned"
        sealed == IF compatible THEN ApplyCheckpointSeal(g)
                  ELSE [g EXCEPT !.unsafe_reuse = TRUE, !.protection = FALSE]
    IN  IF g.state = "bound" THEN ImageOf(sealed, IF compatible THEN iteration ELSE 0)
        ELSE ImageOf(g, g.checkpoint_iteration)

\* SerializeToDisk of a bound guard; an unbound one is copied as it was read,
\* without its buffered replays.
SerializeToDisk(g) ==
    LET compatible == g.protection /\ extension = "pinned"
        sealed == IF compatible THEN ApplyCheckpointSeal(g)
                  ELSE [g EXCEPT !.unsafe_reuse = TRUE, !.protection = FALSE]
    IN  IF g.state = "bound" THEN ImageOf(sealed, IF compatible THEN iteration + 1 ELSE 0)
        ELSE ImageOf(g, g.checkpoint_iteration)

\* What the index list holds after a restart that finds `image` and WAL appends
\* from rowid `from` up to `end` - 1: an unbound guard with buffered replays.
UnboundGuard(image, from, end) ==
    IF image.token = NoToken THEN NoGuard
    ELSE [state |-> "unbound", token |-> image.token, max_seen |-> image.max_seen,
          unsafe_reuse |-> image.unsafe_reuse, protection |-> image.protection,
          checkpoint_iteration |-> image.checkpoint_iteration,
          advance_iteration |-> Invalid,
          replay |-> IF from < end THEN from ELSE Invalid]

-----------------------------------------------------------------------------
(* The verdict *)

\* A clean verdict needs the stored seal to name the present iteration and no
\* append buffered for replay.  The guard's type and the column it depends on,
\* which the code compares too (index_state.cpp:52-56), never change here: the
\* columns of the table are fixed.
UnboundUnsafe(g) == ReadStoredGuardState(g).unsafe_reuse \/ g.checkpoint_iteration # iteration \/ g.replay # Invalid
BoundUnsafe(g) == ApplyCheckpointSeal(g).unsafe_reuse

\* RowIdGuardReason is empty: the exact guard that `row` records is installed,
\* readable, compatible, has seen the mark and is not unsafe.
GuardUsable(g, row) ==
    /\ extension = "pinned"
    /\ row.token # NoToken
    /\ g.token = row.token
    /\ \/ g.state = "unbound" /\ ReadStoredGuardState(g).protection /\ ~UnboundUnsafe(g)
       \/ g.state = "bound" /\ g.protection /\ ~BoundUnsafe(g)
    /\ row.hwm <= g.max_seen

\* Reading a bound guard's state consumes its pending seal (GetState).
AfterVerdict(g, row) ==
    IF extension = "pinned" /\ row.token # NoToken /\ g.token = row.token /\ g.state = "bound"
    THEN ApplyCheckpointSeal(g) ELSE g

\* The exact guard of a row is looked up among all that are installed.
Usable(row) == GuardUsable(guard, row) \/ GuardUsable(leftover, row)

-----------------------------------------------------------------------------
(* Transactions *)

HoldsVacuumLock(q) == txn[q].plan \in {"index", "maintain", "create"}

\* Every commit ends the freshness of the other snapshots.
Committed(t) == [q \in Txns |-> IF t[q].on THEN [t[q] EXCEPT !.fresh = FALSE] ELSE t[q]]
RegistryCommitted(t, i) ==
    [q \in Txns |-> IF t[q].on THEN [t[q] EXCEPT !.fresh = FALSE, !.lost = @ \union {i}] ELSE t[q]]

\* The snapshot of a transaction is taken by its first statement.
Begin(q) ==
    /\ ~txn[q].on
    /\ extension # "none"
    /\ txn' = [txn EXCEPT ![q] = [NoTxn EXCEPT !.on = TRUE, !.fresh = TRUE, !.visible = live,
                                               !.registry = registry]]
    /\ UNCHANGED <<hostVars, persisted, guard, leftover, issued, registry, writer, extension, quiet>>

End(q) ==
    /\ txn[q].on
    /\ txn[q].plan # "create"
    /\ txn' = [txn EXCEPT ![q] = NoTxn]
    /\ UNCHANGED <<hostVars, persisted, guard, leftover, issued, registry, writer, extension, quiet>>

\* SearchInitGlobal: take the vacuum lock shared, validate, and probe the
\* postings or scan; a scan gives the vacuum lock back.  The verdict waits for
\* the shared checkpoint lock, which a checkpoint excludes.
Search(q, i) ==
    /\ txn[q].on /\ txn[q].plan \in {"none", "index", "scan"}
    /\ txn[q].registry[i].token # NoToken
    /\ ~Checkpointing
    /\ LET row == txn[q].registry[i] IN
       /\ txn' = [txn EXCEPT ![q] = [@ EXCEPT !.plan = IF Usable(row) THEN "index" ELSE "scan",
                                              !.target = i]]
       /\ guard' = AfterVerdict(guard, row)
       /\ leftover' = AfterVerdict(leftover, row)
    /\ UNCHANGED <<hostVars, persisted, issued, registry, writer, extension, quiet>>

-----------------------------------------------------------------------------
(* Writers *)

\* The flush of a commit: rowids are allocated under the append lock and every
\* index of the table sees them before they become visible.  The host binds
\* unbound indexes before it writes, and a vacuuming checkpoint excludes
\* inserting transactions by the vacuum lock.
AppendFlush(n) ==
    /\ extension # "none"
    /\ pending = Invalid
    /\ guard.state \in {"absent", "bound"}
    /\ checkpoint.kind # "full"
    /\ next + n - 1 <= MaxRowid
    /\ pending' = next + n - 1
    /\ guard' = ObserveIfBound(guard, next, next + n - 1)
    /\ leftover' = ObserveIfBound(leftover, next, next + n - 1)
    /\ UNCHANGED <<live, dead, next, iteration, checkpoint, walFrom, persisted, issued, registry,
                   txn, writer, extension, quiet>>

\* The rows of the flush become visible and what described a former occupant
\* of their rowids no longer describes anything.
Publish ==
    /\ live' = live \union (next .. pending)
    /\ next' = pending + 1
    /\ registry' = [i \in Indexes |-> [registry[i] EXCEPT !.posted = @ \ (next .. pending)]]

AppendCommit ==
    /\ pending # Invalid
    /\ Publish
    /\ pending' = Invalid
    /\ txn' = Committed(txn)
    /\ UNCHANGED <<dead, iteration, checkpoint, walFrom, persisted, guard, leftover, issued, writer,
                   extension, quiet>>

\* A later index of the table (a UNIQUE key) rejects the rows: the host takes
\* them back, the guard keeps what it observed.
AppendReject ==
    /\ pending # Invalid
    /\ pending' = Invalid
    /\ UNCHANGED <<live, dead, next, iteration, checkpoint, walFrom, persisted, guard, leftover, issued,
                   registry, txn, writer, extension, quiet>>

\* A delete, or the delete half of an update of a covered column.
Delete(r) ==
    /\ extension # "none"
    /\ guard.state \in {"absent", "bound"}
    /\ r \in live
    /\ live' = live \ {r}
    /\ dead' = dead \union {r}
    /\ txn' = Committed(txn)
    /\ UNCHANGED <<next, pending, iteration, checkpoint, walFrom, persisted, guard, leftover, issued,
                   registry, writer, extension, quiet>>

\* Without a guard on the column the host plans its updates in place.  The
\* statement is planned, takes the checkpoint lock shared with its first write
\* and changes the row when it commits.
PlanInPlace(w) ==
    /\ extension # "none"
    /\ writer[w] = "idle" /\ guard.state = "absent"
    /\ writer' = [writer EXCEPT ![w] = "planned"]
    /\ UNCHANGED <<hostVars, persisted, guard, leftover, issued, registry, txn, extension, quiet>>

WriteInPlace(w) ==
    /\ writer[w] = "planned"
    /\ writer' = [writer EXCEPT ![w] = "wrote"]
    /\ UNCHANGED <<hostVars, persisted, guard, leftover, issued, registry, txn, extension, quiet>>

CommitInPlace(w) ==
    /\ writer[w] = "wrote"
    /\ writer' = [writer EXCEPT ![w] = "idle"]
    /\ \E r \in live :
         /\ registry' = [i \in Indexes |-> [registry[i] EXCEPT !.posted = @ \ {r}]]
         /\ txn' = [q \in Txns |-> IF txn[q].on
                       THEN [txn[q] EXCEPT !.fresh = FALSE, !.changed = @ \union {r}]
                       ELSE txn[q]]
    /\ UNCHANGED <<hostVars, persisted, guard, leftover, issued, extension, quiet>>

-----------------------------------------------------------------------------
(* Creating, maintaining and dropping an index *)

Siblings(q) == {j \in Indexes : txn[q].registry[j].token # NoToken}

\* Faulty: a commit between the snapshot and the barrier goes unnoticed.
BarrierWithoutFreshness(q) ==
    /\ pending = Invalid /\ ~Checkpointing
    /\ \A p \in Txns \ {q} : txn[p].plan # "create"
    /\ \A w \in Writers : writer[w] # "wrote"

\* AcquireCreationBarrier: the exclusive checkpoint lock, which no active
\* writer, checkpoint or other creator shares, and no commit since the snapshot.
Barrier(q) ==
    /\ pending = Invalid /\ ~Checkpointing
    /\ \A p \in Txns \ {q} : txn[p].plan # "create"
    /\ \A w \in Writers : writer[w] # "wrote"
    /\ txn[q].fresh

\* Faulty: statements planned before the replacement go on.
KeepPlanned(w) == writer[w]

\* Replacing the base table invalidates every statement planned before.
AbortAltered(w) == IF writer[w] = "planned" THEN "idle" ELSE writer[w]

\* Faulty: the baseline counts a rowid that was never allocated.
BaselineOffByOne == next

\* max_seen of a fresh guard: the last rowid allocated, -1 without one.
GuardBaseline == next - 1

\* The first index of a table: behind the barrier the base table is replaced, a
\* leftover guard that no row names is marked dropped and a fresh one installed
\* under the append lock (PhysicalCreateRowIdGuard); creation_finish gives the
\* barrier back.  The barrier lock makes this one step.
CreateFirst(q, i) ==
    /\ extension = "pinned" /\ txn[q].on /\ txn[q].plan = "none"
    /\ txn[q].registry[i].token = NoToken
    /\ Siblings(q) = {}
    /\ Barrier(q)
    /\ guard.state \in {"absent", "bound"}
    /\ issued < MaxToken
    /\ issued' = issued + 1
    /\ guard' = [state |-> "bound", token |-> issued + 1, max_seen |-> GuardBaseline,
                 unsafe_reuse |-> FALSE, protection |-> TRUE, checkpoint_iteration |-> Invalid,
                 advance_iteration |-> ObservableCheckpointIteration, replay |-> Invalid]
    /\ leftover' = guard
    /\ writer' = [w \in Writers |-> AbortAltered(w)]
    /\ txn' = [txn EXCEPT ![q] = [@ EXCEPT !.plan = "create", !.target = i, !.token = issued + 1]]
    /\ quiet' = TRUE
    /\ UNCHANGED <<hostVars, persisted, registry, extension>>

\* A later index proves the guard its siblings record (ResolveCreateGuard, and
\* CheckPreparedCreate again at execution) and takes only the vacuum fence.
CreateShared(q, i) ==
    /\ extension = "pinned" /\ txn[q].on /\ txn[q].plan = "none"
    /\ txn[q].registry[i].token = NoToken
    /\ ~Checkpointing
    /\ \E t \in Token \ {NoToken} :
         LET shared == [NoRow EXCEPT !.token = t] IN
         /\ {txn[q].registry[j].token : j \in Siblings(q)} = {t}
         /\ Usable(shared)
         /\ guard' = AfterVerdict(guard, shared)
         /\ leftover' = AfterVerdict(leftover, shared)
         /\ txn' = [txn EXCEPT ![q] = [@ EXCEPT !.plan = "create", !.target = i, !.token = t]]
    /\ UNCHANGED <<hostVars, persisted, issued, registry, writer, extension, quiet>>

\* max(rowid) of the rows the transaction sees, `floor` without one.
HighestVisible(q, floor) ==
    CHOOSE m \in txn[q].visible \union {floor} : \A r \in txn[q].visible \union {floor} : r <= m

UncommittedGuard == guard.state # "absent" /\ guard.token # persisted.token

\* A checkpoint in progress does not keep the image of a guard dropped meanwhile.
WithoutImage == [checkpoint EXCEPT !.image = NoImage]

\* Faulty: FreshGuardStatements without its DROP INDEX.
LeftoverKept == leftover

\* The DROP INDEX of FreshGuardStatements takes effect.
LeftoverAfterCreate == NoGuard

\* The registry row is committed with the mark and postings of the snapshot; a
\* fresh guard reaches the WAL with its live state (SerializeToWAL) and the
\* leftover goes.  A row for the column committed meanwhile fails the commit.
CreateCommit(q) ==
    LET i == txn[q].target IN
    /\ txn[q].plan = "create" /\ i \notin txn[q].lost
    /\ pending = Invalid
    /\ registry' = [registry EXCEPT ![i] =
                      [token |-> txn[q].token, hwm |-> HighestVisible(q, -1),
                       posted |-> txn[q].visible \ txn[q].changed]]
    /\ IF UncommittedGuard /\ guard.token = txn[q].token
       THEN /\ persisted' = SerializeToWAL(guard) /\ walFrom' = next
            /\ leftover' = LeftoverAfterCreate /\ checkpoint' = WithoutImage
       ELSE UNCHANGED <<persisted, walFrom, leftover, checkpoint>>
    /\ txn' = RegistryCommitted([txn EXCEPT ![q] = NoTxn], i)
    /\ UNCHANGED <<live, dead, next, pending, iteration, guard, issued, writer, extension, quiet>>

\* The build fails or is rolled back: a fresh guard goes, the leftover stays.
CreateAbort(q) ==
    /\ txn[q].plan = "create"
    /\ pending = Invalid
    /\ IF UncommittedGuard /\ guard.token = txn[q].token
       THEN guard' = leftover /\ leftover' = NoGuard /\ quiet' = FALSE
       ELSE UNCHANGED <<guard, leftover, quiet>>
    /\ txn' = [txn EXCEPT ![q] = NoTxn]
    /\ UNCHANGED <<hostVars, persisted, issued, registry, writer, extension>>

\* CheckPreparedMaintenance, behind the vacuum fence.
MaintenanceCheck(q, i) ==
    /\ txn[q].on /\ txn[q].plan = "none"
    /\ ~Checkpointing
    /\ LET row == txn[q].registry[i] IN
       /\ Usable(row)
       /\ guard' = AfterVerdict(guard, row)
       /\ leftover' = AfterVerdict(leftover, row)
    /\ txn' = [txn EXCEPT ![q] = [@ EXCEPT !.plan = "maintain", !.target = i]]
    /\ UNCHANGED <<hostVars, persisted, issued, registry, writer, extension, quiet>>

\* ngram_refresh commits: the rows of its snapshot between the old mark and
\* the new one are posted.  A bounded refresh records a lower mark.
RefreshCommit(q, m) ==
    LET i == txn[q].target
        old == txn[q].registry[i].hwm IN
    /\ txn[q].plan = "maintain" /\ i \notin txn[q].lost
    /\ m \in old .. HighestVisible(q, old)
    /\ registry' = [registry EXCEPT ![i] =
                      [token |-> registry[i].token, hwm |-> m,
                       posted |-> registry[i].posted \union
                                    {r \in txn[q].visible \ txn[q].changed : old < r /\ r <= m}]]
    /\ txn' = RegistryCommitted([txn EXCEPT ![q] = NoTxn], i)
    /\ UNCHANGED <<hostVars, persisted, guard, leftover, issued, writer, extension, quiet>>

\* DropIndexScript: the guard goes with the last row of the snapshot that
\* records it, if it is that very incarnation or already gone.
DropIndex(q, i) ==
    LET row == txn[q].registry[i]
        last == \A j \in Indexes \ {i} : txn[q].registry[j].token # row.token
    IN
    /\ extension # "none" /\ txn[q].on /\ txn[q].plan = "none"
    /\ row.token # NoToken /\ i \notin txn[q].lost
    /\ last => leftover.token # row.token   \* its drop would conflict with the create's
    /\ pending = Invalid
    /\ registry' = [registry EXCEPT ![i] = NoRow]
    /\ IF last /\ guard.token = row.token
       THEN /\ guard.state = "bound"
            /\ guard' = NoGuard /\ persisted' = NoImage /\ checkpoint' = WithoutImage
       ELSE UNCHANGED <<guard, persisted, checkpoint>>
    /\ txn' = RegistryCommitted([txn EXCEPT ![q] = NoTxn], i)
    /\ UNCHANGED <<live, dead, next, pending, iteration, walFrom, leftover, issued, writer,
                   extension, quiet>>

\* A user drops the guard's index by name.
DropGuard ==
    /\ extension # "none" /\ guard.state = "bound" /\ ~UncommittedGuard
    /\ pending = Invalid
    /\ guard' = NoGuard /\ persisted' = NoImage /\ checkpoint' = WithoutImage
    /\ txn' = Committed(txn)
    /\ UNCHANGED <<live, dead, next, pending, iteration, walFrom, leftover, issued, registry, writer,
                   extension, quiet>>

\* The table is dropped, its guard with it, and created again under its name.
RecreateTable ==
    /\ pending = Invalid /\ ~Checkpointing
    /\ \A q \in Txns : ~txn[q].on
    /\ \A w \in Writers : writer[w] = "idle"
    /\ live' = {} /\ dead' = {} /\ next' = 0 /\ walFrom' = 0
    /\ registry' = [i \in Indexes |-> [registry[i] EXCEPT !.posted = {}]]
    /\ guard' = NoGuard /\ persisted' = NoImage
    /\ UNCHANGED <<pending, iteration, checkpoint, leftover, issued, txn, writer, extension, quiet>>

-----------------------------------------------------------------------------
(* Binding, checkpoints, restarts *)

\* Guards are bound when the extension loads, when the last connection closes
\* and before the first write.  A reader sees the uncertain bind state.
BindStart ==
    /\ extension # "none" /\ guard.state = "unbound"
    /\ guard' = [guard EXCEPT !.state = "binding"]
    /\ UNCHANGED <<hostVars, persisted, leftover, issued, registry, txn, writer, extension, quiet>>

\* GuardCreateInstance, then the buffered appends are replayed through Append.
BoundFromStorage(g) ==
    LET stored == [ReadStoredGuardState(g) EXCEPT !.state = "bound", !.replay = Invalid]
    IN  IF g.replay = Invalid THEN stored ELSE Observe(stored, g.replay, next - 1)

BindFinish ==
    /\ guard.state = "binding"
    /\ guard' = BoundFromStorage(guard)
    /\ UNCHANGED <<hostVars, persisted, leftover, issued, registry, txn, writer, extension, quiet>>

\* A "full" checkpoint holds the vacuum lock exclusively from here to its end;
\* a "concurrent" one runs beside inserting transactions and does not vacuum.
CheckpointStart(kind) ==
    /\ ~Checkpointing
    /\ iteration < MaxIteration
    /\ kind = "full" => /\ pending = Invalid
                        /\ \A q \in Txns : ~HoldsVacuumLock(q)
                        /\ \A w \in Writers : writer[w] # "wrote"
    /\ kind = "concurrent" => ~InMemory
    /\ checkpoint' = [NoCheckpoint EXCEPT !.kind = kind, !.phase = "started"]
    /\ quiet' = FALSE
    /\ UNCHANGED <<live, dead, next, pending, iteration, walFrom, persisted, guard, leftover, issued,
                   registry, txn, writer, extension>>

\* Serializing a bound guard consumes its pending seal; a fresh one has none.
Sealed(g) == IF g.state = "bound" /\ g.protection /\ extension = "pinned"
             THEN ApplyCheckpointSeal(g) ELSE g

\* The table and its committed indexes are written.  The table's exclusive lock
\* keeps commits out of this step only.
CheckpointWrite ==
    /\ checkpoint.phase = "started"
    /\ pending = Invalid /\ guard.state # "binding"
    /\ LET committed == IF UncommittedGuard THEN leftover ELSE guard IN
       checkpoint' = [checkpoint EXCEPT !.phase = "written", !.from = next,
                        !.image = IF committed.state = "absent" THEN NoImage
                                  ELSE SerializeToDisk(committed)]
    /\ guard' = Sealed(guard) /\ leftover' = Sealed(leftover)
    /\ UNCHANGED <<live, dead, next, pending, iteration, walFrom, persisted, issued, registry, txn,
                   writer, extension, quiet>>

Reclaimable == {r \in dead : \A q \in Txns : r \notin txn[q].visible}

\* WriteHeader advances the iteration and makes the image durable; the vacuum
\* of a full checkpoint discards deleted rows no snapshot sees and hands
\* rowids past the last remaining row back for reuse.
CheckpointFinish ==
    /\ checkpoint.phase = "written"
    /\ iteration' = IF InMemory THEN iteration ELSE iteration + 1
    /\ IF checkpoint.kind = "full"
       THEN \E gone \in SUBSET Reclaimable, end \in 0 .. next :
              /\ \A r \in live \union (dead \ gone) : r < end
              /\ dead' = dead \ gone /\ next' = end
       ELSE UNCHANGED <<dead, next>>
    /\ IF checkpoint.image = NoImage
       THEN /\ UNCHANGED persisted
            /\ walFrom' = IF walFrom > next' THEN next' ELSE walFrom
       ELSE /\ persisted' = checkpoint.image
            /\ walFrom' = IF checkpoint.kind = "full" THEN next' ELSE checkpoint.from
    /\ checkpoint' = NoCheckpoint
    /\ UNCHANGED <<live, pending, guard, leftover, issued, registry, txn, writer, extension, quiet>>

\* A crash, or a close without a checkpoint, and the next session with its WAL
\* replay.  The commit in its flush may have reached the WAL.
Restart(session) ==
    /\ ~InMemory
    /\ \/ /\ pending # Invalid
          /\ Publish
       \/ UNCHANGED <<live, next, registry>>
    /\ pending' = Invalid
    /\ guard' = UnboundGuard(persisted, walFrom, next') /\ leftover' = NoGuard
    /\ checkpoint' = NoCheckpoint
    /\ txn' = [q \in Txns |-> NoTxn]
    /\ writer' = [w \in Writers |-> "idle"]
    /\ extension' = session
    /\ quiet' = FALSE
    /\ UNCHANGED <<dead, iteration, walFrom, persisted, issued>>

-----------------------------------------------------------------------------
Init ==
    /\ live = {} /\ dead = {} /\ next = 0 /\ pending = Invalid
    /\ iteration = 0 /\ checkpoint = NoCheckpoint
    /\ persisted = NoImage /\ walFrom = 0
    /\ guard = NoGuard /\ leftover = NoGuard /\ issued = 0
    /\ registry = [i \in Indexes |-> NoRow]
    /\ txn = [q \in Txns |-> NoTxn]
    /\ writer = [w \in Writers |-> "idle"]
    /\ extension = "pinned"
    /\ quiet = FALSE

TxnNext(q) ==
    \/ Begin(q) \/ End(q)
    \/ \E i \in Indexes : \/ Search(q, i) \/ MaintenanceCheck(q, i) \/ DropIndex(q, i)
                          \/ CreateFirst(q, i) \/ CreateShared(q, i)
    \/ CreateCommit(q) \/ CreateAbort(q)
    \/ \E m \in Mark : RefreshCommit(q, m)

HostNext ==
    \/ \E n \in 1 .. MaxAppend : AppendFlush(n)
    \/ AppendCommit \/ AppendReject
    \/ \E r \in Rowid : Delete(r)
    \/ \E w \in Writers : PlanInPlace(w) \/ WriteInPlace(w) \/ CommitInPlace(w)
    \/ DropGuard \/ RecreateTable \/ BindStart \/ BindFinish
    \/ \E kind \in {"full", "concurrent"} : CheckpointStart(kind)
    \/ CheckpointWrite \/ CheckpointFinish
    \/ \E session \in {"none", "pinned", "other"} : Restart(session)

Next == (\E q \in Txns : TxnNext(q)) \/ HostNext

Spec == Init /\ [][Next]_vars

-----------------------------------------------------------------------------
(* Properties *)

Covered(row, rows) == {r \in rows : r <= row.hwm}

\* A search that reads the postings finds, through them or in the tail past the
\* mark, every row of its snapshot: each covered row it can see is posted, no
\* matter how checkpoints, reused rowids, crashes or in-place updates
\* interleaved with the index's life (docs/stale-updates.md, "The invariant").
SearchExact ==
    \A q \in Txns : txn[q].plan = "index" =>
        LET row == txn[q].registry[txn[q].target] IN
        Covered(row, txn[q].visible) \subseteq row.posted

\* Whatever the state, an index whose guard the next verdict would accept has
\* postings for every committed row at or below its mark.
UsableIsComplete ==
    \A i \in Indexes : Usable(registry[i]) =>
        Covered(registry[i], live) \subseteq registry[i].posted

\* All the indexes of a table that a verdict accepts share one guard, so that
\* dropping the last of them may drop it.  An old snapshot may still extend a
\* leftover guard while a create replaces it: its row is then unusable, never a
\* second usable one (build_sql.cpp, FreshGuardStatements).
OneUsableGuard ==
    \A i, j \in Indexes : Usable(registry[i]) /\ Usable(registry[j]) =>
        registry[i].token = registry[j].token

\* In a file database a guard that lived through no checkpoint and no restart
\* is not latched: commits that a UNIQUE index rejects and retries cost nothing
\* (the reason Observe compares header iterations).
NoFalseAlarm ==
    (~InMemory /\ quiet /\ guard.state = "bound") => ~guard.unsafe_reuse

\* A full checkpoint of a clean bound guard leaves a file whose next session
\* finds every usable index usable: the seal is the iteration the header ends
\* on (the "ordinary lifecycle" of docs/stale-updates.md needs no rebuild).
CheckpointKeepsUsable ==
    [][\A i \in Indexes :
         /\ checkpoint.phase = "written" /\ checkpoint'.phase = "idle" /\ extension' = extension
         /\ checkpoint.kind = "full" /\ checkpoint.image # NoImage /\ ~InMemory
         /\ iteration' # iteration
         /\ GuardUsable(guard, registry[i])
         /\ guard.state = "bound" /\ guard.checkpoint_iteration = Invalid
         => LET g == UnboundGuard(persisted, walFrom, next)' IN
            /\ g.state = "unbound" /\ g.replay = Invalid
            /\ g.checkpoint_iteration = iteration' /\ ~g.unsafe_reuse
            /\ registry[i].hwm <= g.max_seen]_vars

\* What a search returns for rows that match: those whose posting it reads and
\* those past the mark, or whatever a scan sees.
Found(t) ==
    IF t.plan = "index"
    THEN {r \in t.visible : r \in t.registry[t.target].posted \/ r > t.registry[t.target].hwm}
    ELSE t.visible

\* Behind all of this a search is a search of a snapshot (module SnapshotSearch).
Promise == INSTANCE SnapshotSearch WITH
    Conns <- Txns, rows <- live,
    session <- [q \in Txns |-> [open |-> txn[q].on, view |-> txn[q].visible,
                                answered |-> txn[q].plan \in {"index", "scan"},
                                found |-> Found(txn[q])]]

\* The guarded index implements that promise: no interleaving shows a search
\* that answers anything but the rows of its snapshot.
ImplementsSnapshotSearch == Promise!Spec
=============================================================================
