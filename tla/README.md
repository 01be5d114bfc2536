# Formal models of the ngram extension

TLA+ models of the DuckDB `ngram` extension (`src/src`), the TLC runs that
check them on small instances, and proofs that TLAPS checks for every instance.
Paths below are relative to the root that holds `src/`; `rowid_guard.cpp:312`
stands for `src/src/rowid_guard.cpp:312`.

`tlc -config X.cfg M` runs one configuration, `tlapm M.tla` the proofs of a
module. `PROJECT.json` lists the runs, the faulty variant each property is known
to catch, the source lines of every definition, the hazards and the theorems.

## 1. The system

The extension keeps, for a VARCHAR column, a table of *postings*: for each gram
(a short run of folded codepoints) and each segment of 2^20 rowids, the rowids
whose text holds it. A substring search probes the rarest grams of its needle,
intersects their postings, fetches the candidates and rechecks them. Rows past
the index's *high-water mark* (the tail) and the transaction's own rows are
scanned. The promise is strong and simple: **an answer is what a full scan of
the caller's snapshot would return**, whatever the index went through.

| Component | State it keeps | Operations | Module |
| --- | --- | --- | --- |
| Rowid guard (`rowid_guard.cpp`) | per table: token, `max_seen`, `unsafe_reuse`, seal, iteration of the last advance | append, serialise to disk and WAL, bind, quarantine | `RowIdGuard` |
| Verdict (`index_state.cpp`) | none; reads guard and registry row | `ReadExactGuard`, `RowIdGuardReason` | `RowIdGuard` |
| Create and drop (`build_sql.cpp`, `pragmas.cpp`) | registry row, guard, segments table | barrier, fresh guard, shared guard, leftovers, drop | `RowIdGuard` |
| Refresh and compaction (`maintenance_sql.cpp`) | mark, segment rows and generations | refresh, bounded refresh, merge, purge | `Maintenance`, `PostedIndex` |
| Fence and handles (`fence.cpp`) | per connection: handles of generated statements, vacuum fence, creation barrier | register, take, acquire, transaction end | `MaintenanceState` |
| Search core (`search_core.cpp`) | queue of claimed, pending and published segments; workers | claim, decode, publish, fetch, tail units, cancel | `CandidateQueue`, `CandidateBatches` |
| Probe (`probe.cpp`) | one plan per search; manifest workers | read the segments table, choose grams, admit segments, reserve memory, decode, intersect | `ProbeAdmission`, `IndexProbe` |
| Grams (`gram.hpp`, `gram.cpp`) | stack of border windows | extract a text, decompose a needle | `SparseGrams` |
| Codec and aggregate (`postings.cpp`) | partial states with inline bytes or arena blocks; unpack cursor | update, combine, finalise, unpack | `PackSegment`, `UnpackPostings` |
| DuckLake indexes (`lake_*.cpp`) | rows of lake tables: registry with lock row, postings | create, refresh, compact, drop, query at a snapshot | `LakeIndex` |
| Table functions (`search_functions.cpp`) | per search: lock, probe or scan | bind, validate, search, hand out candidates | `PlanAndRun`, `RowIdGuard` |
| Optimizer rewrite (`rewrite.cpp`) | prepared plans | rewrite a scan, probe at run time | `PlanAndRun` |
| Settings, names, entry point | none | | not modelled |

**Interactions.** Host threads call the guard's `Append` inside a commit, under
the table's index lock. A pragma is *expanded* to SQL text in one transaction
and its statements *run* in another, or later in the same one; `fence.cpp` ties
the two together. A query reads the registry row of its snapshot but the guard
of the present. A checkpoint may run beside all of them and is kept away by
lock: the vacuum lock (shared by searches, scripts and writers) and the
checkpoint lock (shared by verdicts, exclusive for the creation barrier). On a
lake nothing is shared but the data: other clients know nothing of the index.

**What is hard.** A search reads a mark, postings and a guard that other threads
change at different moments. Rowids are handed out before rows are visible, are
handed back by a checkpoint that drops empty row groups at the end of a table,
and are handed out again when a commit fails half-way. A crash may fall between
any two writes; the next session may lack the extension or run another host
build. Decoding is parallel but its output must be ordered, within a memory
budget, and must end when one decode throws. A prepared plan outlives the index
it names, and `ngram_candidates` hands out rowids that are joined later.
`hazards` in `PROJECT.json` lists
all of them by source line.

**What makes each component correct.** The guard: an index that a verdict accepts
has postings for every row under its mark, in every snapshot that can still
search it; ordinary life needs no rebuild. Maintenance: no row under the mark
without a posting, none above it posted, a merge leaves one generation, a bounded
refresh always advances. Fence: no vacuum between a script's first check and its
transaction's end; handles are found exactly when they should be; a fresh guard is
proved under the barrier of its own script. Probe: the candidates are exactly the
rows that hold the kept grams, and nothing outgrows what was reserved. Queue: ordered,
complete, bounded, finite. Grams: what a needle is probed for, every row holding
it is posted under. Codec: the payload depends on the set of rowids alone. Lake:
one index per column, exact at every snapshot it accepts. Plan and run: every run
of a prepared statement answers its own snapshot.

## 2. Modules and how they correspond to the code

### The guard: `RowIdGuard`, `SnapshotSearch`, `RowIdGuardInductive`

One table, its guard and the registry rows of its indexes over the life of a
database file. State: `live`, `dead`, `next`, `pending` (the host's rows and the
rowids of a commit in its flush), `iteration`, `checkpoint`, `persisted`,
`walFrom` (file header, a checkpoint in progress, what a restart would read),
`guard` and `leftover` (the table's guards), `issued` (tokens), `registry`,
`txn` (snapshots of the connections and what each is doing), `writer` (in-place
updates), `extension` (what this session loaded), and `quiet`, a history variable.

A row's text is abstracted away: `posted` is the set of rowids whose postings
describe the row that *now* owns the rowid. A rowid leaves it when the host
reissues it or changes its row in place, so "the search is exact" becomes "every
visible row under the mark is posted".

| Actions | Code |
| --- | --- |
| `AppendFlush`, `AppendCommit`, `AppendReject` | `RowIdGuard::Append` and `Observe`, called by a commit that a later index may refuse |
| `CheckpointStart`, `CheckpointWrite`, `CheckpointFinish` | `SerializeToDisk`, `ApplyCheckpointSeal`; full and concurrent checkpoints, reclaiming the tail |
| `Restart`, `BindStart`, `BindFinish` | a crash or close; replay; `CanBindRowIdGuards`, `GuardCreateInstance`, `BindAllRowIdGuards` |
| `CreateFirst`, `CreateShared`, `CreateCommit`, `CreateAbort` | `CreateIndexScript` with `AcquireCreationBarrier`, `ResolveCreateGuard`, `FreshGuardStatements`, `PhysicalCreateRowIdGuard`, `SerializeToWAL` |
| `Search`, `MaintenanceCheck`, `RefreshCommit`, `DropIndex` | `SearchInitGlobal`, `ResolveMaintenanceColumn`, `RefreshScript`, `DropIndexScript` |
| `Delete`, `PlanInPlace`, `WriteInPlace`, `CommitInPlace`, `DropGuard`, `RecreateTable` | the host, as the extension's code uses it |

`SnapshotSearch` is the promise: a search returns its snapshot's rows. `RowIdGuard`
implements it with the row set each plan finds (`Found`). The columns of the table
are fixed: the test that a recorded guard still has its type and depends on the
indexed column (`index_state.cpp:52-56`) is outside the model. A bound guard goes
on to record the host's header iteration under another build of the host (`Observe`
reads it without a test of the build, `rowid_guard.cpp:312`), while its verdicts and
its storage are closed there; the model does the same.

### Maintenance: `Maintenance`, `PostedIndex`, `MaintenanceState`

`Maintenance` is one index under snapshot isolation. A connection's transaction
has a snapshot of rows, mark and segment rows, its own additions and removals, and
what others committed over the snapshot; a script is a call recorded at expansion
(kind, mark, bound, what the statistics showed) and a run that repeats
`CheckPreparedMaintenance` (`Unchanged`). The pragma expands in a transaction of
its own and runs in a later one, or both happen in the user's transaction
(`Begin`), which may hold several calls. `Flush`, `FlushCommit` and `FlushReject`
hand out rowids before rows are visible. Conflicts are DuckDB's: a transaction may
not change what another changed since its snapshot, or is about to (`MayRemove`,
`MayAdvance`). All rows hold one gram, so that a segment row is its segment, its
generation and its rowids.

| Actions | Code |
| --- | --- |
| `ExpandRefresh`, `ExpandCompact` | `RefreshScript`, `CompactScript`, `MayHoldFragmentedKeys`, `BoundedRefreshEnd` |
| `ReportOnly`, `RunRefresh`, `RunMerge`, `RunPurge` | the scripts' statements, `CheckPreparedMaintenance` first |
| `Begin`, `Commit`, `Rollback`, `Flush`, `FlushCommit`, `FlushReject`, `Delete` | the host |

`PostedIndex` is the promise to those who see only what is committed: a mark and a
set of posted rowids. New rows come above the mark; a commit of maintenance moves
the mark up or leaves it, posts every row it passes, posts nothing else anew and
takes no row's posting. `Maintenance` implements it with `Posted(segments)`.

`MaintenanceState` is the bookkeeping of `fence.cpp`: a connection's handles (one
per generated statement, grouped by script, tagged with the transaction that
expanded them and later with the one that runs them), the fence it holds, the
vacuum lock, and the creation barrier with the transaction and the group it
belongs to. A script that installs a fresh guard takes the barrier with its one
handle (`TakeBarrier`: `AcquireCreationBarrier`, `HoldCreationBarrier`) and proves
the guard in its second statement (`Finish`: `CreationFinishFunction`,
`OwnsCreationBarrier`, `FinishCreation`). Its host part follows DuckDB's
`ClientContext`: a pragma is expanded in a transaction of its own unless one is
open; the transaction's own locks fall before the commit callback.

### Search: `ProbeAdmission`, `IndexProbe`, `CandidateBatches`, `CandidateQueue`

`ProbeAdmission` is the planner's arithmetic: the rarest keys, which segments are
admitted (all keys, spans that meet), the order their posting lists are
intersected in, and the bounds of candidates and memory. `IndexProbe` runs one
search over any legal index: its posting rows, which one or two refreshes wrote
and of which the last may be the transaction's own, lie in column segments and row
groups whose zone maps a worker prunes by; the pruned spans are widened to whole
vectors and merged (`AdmittedKeySpans`).

| Actions | Code |
| --- | --- |
| `Reserve` | `PlanIndexProbe`: the fixed memory and the manifest workers |
| `ClaimKey`, `BeginScan`, `CountChunk`, `AppendChunk` | `ParallelForEachUnit` over the keys, the bounded scans of a key and that of the local rows; `consume`, which counts a chunk before it charges and keeps it, so that workers interleave between the two |
| `Admit` | `SelectRarestGrams`, `AdmitSegments`, the gates, the workspace |
| `DecodeFirst`, `DecodeNext`, `Intersect`, `Deliver`, `Exhaust` | `DecodeCandidateSegment`, `NextCandidateSegment` |

Memory is counted in rowids; what the code charges per key, worker and descriptor
are constants. A posting row read twice shows as a malformed index, as in the
code.

`CandidateBatches` is the pure part of handing out: where `ClaimCandidateBatch`
ends a batch and what index it gets. `CandidateQueue` is the concurrent part, one
step for each time a worker takes the queue's lock: claim a published batch, claim
an undecoded segment, decode it, publish in order, finish, then share out the tail
units. A timed wait (1 ms) is a stutter. `DecodeFails`, `Interrupted` and `Abandon`
end a worker early. The workspace it must stay within is the one that
`PlanIndexProbe` reserves. Its input is what the planner promises
(`SearchInputs`): the segments ascend, for the segment keys are sorted
(`probe.cpp:339`) and admitted in that order (`probe.cpp:443`), their candidates
lie in them, and a segment is a whole number of vectors. The table's next rowid
(`TailEnd`) may lie past the mark or, after a checkpoint that handed back deleted
row groups at the end, at or below it. Then no row lies between the two, local rows
have rowids past all others, and there is no tail to divide (`TailUnits`).

### Plans: `PlanAndRun`

One prepared statement, run again and again, while other connections append,
delete, create, refresh, compact and drop the index, and checkpoints vacuum the
table and the index's segments table. A statement is a rewritten scan
(`PlanScan`: `TryRewriteGet`), an `ngram_search` or an `ngram_candidates` whose
caller joins the rowids and covers the rows past the mark (`Bind`). A run takes the
shared vacuum lock, looks the index up in its own snapshot, asks for the guard of
the present, chooses (`Validate`), decodes the posting rows its manifest named by
place (`Decode`), fetches and scans the tail; each is a step, so that anything may
commit or vacuum between two of them. Tables are sequences of rows stamped with
the commits that made and ended them, and a vacuum, which may remove what no
snapshot in use can see (`Oldest`, `Vacuumed`), moves later rows down: what
keeps rowids in place is the lock, or for the base table the guard's presence,
exactly as in the code. The lock is held until the query's state dies, which for
`ngram_candidates` is after its caller's join (`Emit`, `Fetch`, `End`).

### Lake: `LakeIndex`

`history` is the lake at each snapshot: table incarnation, rows with the snapshot
that stamped them, schema version, index rows, postings, and the snapshot that
wrote the registry's lock row. Other clients insert, update, delete, rewrite
files, alter, recreate, commit elsewhere and expire snapshots at any time. A
maintenance call is expanded at one snapshot (`Expand`), runs at a later one
(`Start`) and commits on the latest if nothing it wrote conflicts. A value stands
for the grams of a text and a segment holds one rowid. A call may be made in an
explicit transaction that has written nothing yet (`RequireUnwrittenLake`); its
script then runs at the snapshot of its expansion, and the transaction may go on:
`Finish` commits the script's changes alone or, for a call that `GoesOn`, with an
`ALTER` of the table in the same snapshot, under the schema version that one commit
raises once. Other later writes of that transaction are not modelled: the change
feed returns them as it does those of a later commit. `Candidates(at, ...)` is what
`ProbeAtSnapshot` returns: postings, and the tail from the change feed or, when
expiry has cut it, from the rows stamped since.

### Grams and postings: `SparseGrams`, `PackSegment`, `UnpackPostings`

`SparseGrams` runs `ExtractGramRanges` one window at a time over a row's text,
posts the row's keys, then runs it over a needle the row contains and lets
`DecomposeNeedle` keep the covering grams under a key budget. Texts are already
folded. The weight of a window is a free choice of each run, for the hash is an
arbitrary function to the algorithm, except that short grams keep their exact
keys and long ones fall into buckets, for which the first codepoint stands in.

`Ordered` has the one operator that several modules share: a finite set of
numbers as the sequence that lists it in ascending order.

`PackSegment` runs the aggregate: `Update`, `CombineByOffset`, `CombineByAdoption`
over several partial states that share an arena; a stream is a sequence of delta
codes with their sizes. `UnpackPostings` is the cursor, one action for each way
through its loop.

## 3. Runs

Every run but one passes. Each property is also known to fail under a faulty form
of the code (`mutants`): a dropped check, an off-by-one, a lost reset.

| Run | Properties | Distinct states | Shows |
| --- | --- | --- | --- |
| `RowIdGuard_file` | `TypeOK`, `SearchExact`, `UsableIsComplete`, `NoFalseAlarm`, `CheckpointKeepsUsable`, `ImplementsSnapshotSearch` | 1.5 M | one index, one connection, one in-place writer, three header iterations, two guards, in a file |
| `RowIdGuard_connections` | `OneUsableGuard` | 0.8 M | two connections with snapshots of different age create, share, drop and search two indexes |
| `IndexProbe` | `CandidatesExact`, `NeverMalformed`, `WithinBudget`, `ReservationCovers` | 1.1 M | every small index of two keys, and a third, over four rows; two manifest workers, two budgets |
| `CandidateQueue` | `OrderRestored`, `WithinWorkspace`, `VectorsReadOnce`, `BatchOrder`, `AllStop` | 0.1 M | three threads, two of them decoding; dense, empty and sparse segments and a tail |
| `PlanAndRun` | `AnswerExact`, `CandidatesCover`, `PostingsStay` | 2.1 M | a prepared statement against four commits and any number of vacuums |
| `Maintenance` | `NoBuriedRow`, `PostingsUnderMark`, `NoSpin`, `MergeComplete`, `ImplementsPostedIndex` | 1.4 M | two connections, bounded and unbounded refreshes, merges and purges, in implicit and explicit transactions |
| `MaintenanceState` | `FenceHeld`, `HandlesFound`, `NothingLeft`, `CreationFenced` | 1.8 M | two connections, scripts that create a guard and scripts that do not, four transactions |
| `LakeIndex` | `LakeExact`, `CoveredPosted`, `OneIndex`, `CoverGrows` | 2.9 M | two clients race their scripts over a row with changing text, alone or in transactions that go on to alter the table; one expiry, four snapshots |
| `LakeIndex_creator` | `ReadersExact` (violated) | | a flaw of the code, see section 5 |
| `SparseGrams` | `GramsExact`, `CoveringChain`, `NeedleFound` | 2.7 M | every text to 7 codepoints over two, grams of four and five, weights that tie |
| `PackSegment` | `TypeOK`, `StreamFaithful`, `OneOwner`, `PayloadFromSet` | 0.1 M | three states, five updates, two combines |
| `UnpackPostings` | `AllDelivered` | 24 k | every pair of chunks of up to two rows of up to five postings |

**Why the bounds are enough.** The guard's hazards need few objects: one rowid
to reuse and one above it, a checkpoint before and one after a reuse, a guard
and its successor, one old snapshot. `RowIdGuard_file` has two rowids, three
header iterations and two tokens, `RowIdGuard_connections` a second index and a
second snapshot; a database without a file, and all larger numbers, are covered
by the theorems of section 4. An index of `Maintenance` needs two segments, the
first of two rowids and filled in parts, so that a bounded refresh (of one row
or of two) ends inside a segment or at its boundary; an interleaving of two
transactions needs only that they overlap, and larger numbers are covered by the
theorems. Handles need two statements in a script (the last one differs from the
others) and four transactions: two expansions and their scripts. `IndexProbe`
has segments of three rows, one full and one cut by the mark; column segments of
one or three rows, vectors of two and row groups of four make spans that are
unaligned, overlap, touch or cross a row group; with a budget of 20 every plan
fits, with 15 some are declined while a worker counts. `PlanAndRun` needs a
create, a drop and a rebuild between plan and run, and one commit more, for a
refresh, a compaction, an append or a delete; two rows make one that is moved by
the other's removal and a third one the tail. Queue segments of four rowids,
vectors of two and batches of one or two contain a range batch, a fetch batch,
an empty segment, a batch that runs on to the end of its vector and a partial
last tail unit; publication is out of order as soon as two decode. A table that ends
below the mark, which has no tail unit, is left to the theorems, which hold wherever
it ends. Four
snapshots of a lake hold the one a script is expanded at, a change before it
runs, its commit, and one change after it; they also hold the race of two
clients to create, to cover and to drop. A lake row that is deleted, changed and
indexed again needs no second one: a segment holds one row and the scripts treat
rows alike. With grams of four and five codepoints the longer has an inner
window and seven codepoints hold overlapping ones. Pack sizes are cut
(`INLINE_BYTES = 2`, `FIRST_BLOCK_BYTES = 5`, `MAX_BLOCK_BYTES = 6`, offsets
from 4 on take two bytes) so that five updates pass from inline bytes to a
second block.

`CHECK_DEADLOCK FALSE` stands where the system ends: a search that is over, a
text that is cut, an aggregate at its bound, a history at its last snapshot. The
guard's runs check for deadlock.

**Symmetry** is used on connections, probe workers and aggregate states, which no
definition orders, never on indexes (an idle transaction names one) and never in a
run with a liveness property; `MergeComplete` and `NoSpin` are properties of single
steps.

**Fairness.** `CandidateQueue` assumes weak fairness of every worker's own step:
the host's executor calls each task until it reports that it is done, and a wait
on the condition variable returns within 1 ms. No fairness is assumed of
failures, interrupts or abandonment. `UnpackPostings` assumes weak fairness of
its next step: the host calls the function again while it asks to be. The other
models state safety only: the code never waits there, it refuses and lets the
caller retry.

## 4. Proofs

Each module's theorems assume the named assumption of its constants and nothing
else; the bounds of a run are arbitrary in them.

**The guard.** `RowIdGuard_proofs` proves for every set of
indexes, connections and writers and every bound, in memory or in a file, from
`GuardConstants`:

| Theorem | Says |
| --- | --- |
| `Invariant` | `Spec => []IInv` |
| `TypeCorrect` | `Spec => []TypeOK` |
| `SearchesExact` | `Spec => []SearchExact` |
| `UsableComplete` | `Spec => []UsableIsComplete` |
| `OneGuard` | `Spec => []OneUsableGuard` |
| `QuietGuard` | `Spec => []NoFalseAlarm` |
| `CheckpointsKeep` | `Spec => CheckpointKeepsUsable` |
| `Refinement` | `Spec => ImplementsSnapshotSearch` |

*The argument.* `SearchExact` is not inductive: it says nothing about the guard
that admits the next search, nor about the image that a restart will read.
`RowIdGuardInductive` adds these. Call a registry row together with the rows it is
read against a view. The heart is `GuardsSafe`: while a guard, the image of it on
disk or the image a checkpoint is writing is *clean* (it would be accepted once
its pending replays are counted), every view that records its token is safe, i.e.
posted up to its mark and its mark within what the guard will have seen. A
reissued rowid under some view's mark can then only occur while the guard is
*exposed*, and `GuardSafe` says that a later append must in that case find a
changed or an unknown iteration, so that `Observe` latches. `HostInv` ties rowids,
checkpoint and WAL together; `GuardNames`, `Creator` and `Unrecorded` say which
guard has which token and that an uncommitted one is in no view; `Stamped` says
that what a restart finds was sealed; `TxnsInv` that a snapshot that still agrees
with the registry was not changed in place; `Quiet` carries `NoFalseAlarm`. The
proof has one lemma for each action and under it one step for each part.
`CheckpointInv` carries `CheckpointKeepsUsable`: a full checkpoint excludes index
creation, so that the image it wrote is still the guard as it stands, sealed for
the iteration that the finished checkpoint starts. The refinement maps a step to
the abstract action of the same connection, or to a stutter; the lemmas on `Found`
show from `IInv` that what an index search finds is its view.

**Refresh and compaction.** `Maintenance_proofs` proves, for every set of
connections, every number of rowids and rows in a segment, from
`MaintenanceConstants`:

| Theorem | Says |
| --- | --- |
| `IndexInvariant` | `Spec => []Inv` |
| `NothingBuried` | `Spec => []NoBuriedRow` |
| `OnePosting` | `Spec => []PostingsUnderMark` |
| `RefreshProgresses` | `Spec => NoSpin` |
| `GenerationInvariant` | `Spec => [](Inv /\ GenerationInv)` |
| `MergesComplete` | `Spec => MergeComplete` |
| `Refinement` | `Spec => ImplementsPostedIndex` |

*The argument.* That an index is sound, the committed one and the one each
transaction sees, is not inductive: a commit joins a transaction's changes with
what others committed since its snapshot. `Inv` adds what makes this safe. A
snapshot lies below every row that it does not see (`SnapshotInv`), because rowids
are handed out in order and become visible in order; so a mark that a refresh takes
from its snapshot buries none. What a transaction removes is still committed, what
it adds replaces what it removes except past the mark, and then it is the one that
advances it (`ChangesInv`). No two open transactions remove one segment row or both
advance the mark (`Apart`), and one over whose snapshot the mark moved does not
advance it. Commits of disjoint changes to a sound index then leave a sound index,
and the other transactions' snapshots keep their relation to it. The refinement
follows from `Inv`: `FlushCommit` adds rows above every mark, and a commit's new
postings are the removed ones or lie past the committed mark, which it advances.

`MergeComplete` needs to know why one generation in a segment means one row
(`GenerationInv`). The rows a transaction adds past the mark have a new
generation and come only with an advance of the mark; those of generation 0,
which a merge writes, replace all the snapshot has in their segment; and what
others commit over a snapshot is of generation 0 unless they moved the mark, and
then replaced something there. Of two open snapshots one is the older (`Nested`).
So a merge that was told at its expansion that nothing is fragmented finds it so,
or the mark has moved and `CheckPreparedMaintenance` fails.

**Fence and handles.** `MaintenanceState_proofs` proves, for every set of
connections and script lengths and every number of transactions, from
`StateConstants`:

| Theorem | Says |
| --- | --- |
| `FenceInvariant` | `Spec => []FenceInv` |
| `StateTypeCorrect` | `Spec => []TypeOK` |
| `FencesHold` | `Spec => []FenceHeld` |
| `CreationsFenced` | `Spec => []CreationFenced` |
| `HandleInvariant` | `Spec => []HandleInv` |
| `HandlesKept` | `Spec => []HandlesFound` |
| `NothingStays` | `Spec => []NothingLeft` |

*The argument.* `FenceInv`: a script that passed a check holds the fence inside a
transaction; while a vacuum runs nobody holds a lock; a barrier belongs to the
running transaction and the script whose proof comes next, and while it is held
no other connection holds a lock of its own. `HandleInv`: the handles from the
next place on are there; those of a script that began are tagged with its
transaction, so that its end removes them; all that are left were registered under
one expansion's transaction. Transaction ids only grow, so that no later
transaction is mistaken for the one in a tag.

**DuckLake indexes.** `LakeIndex_proofs` proves, for every set of connections and
texts and every number of rowids, snapshots and expiries, from `LakeConstants`:

| Theorem | Says |
| --- | --- |
| `RegistryInvariant` | `Spec => []Inv` |
| `OneIndexed` | `Spec => []OneIndex` |
| `CoverKept` | `Spec => []CoverGrows` |
| `ContentsInvariant` | `Spec => []ExactInv` |
| `QueriesExact` | `Spec => []LakeExact` |
| `CoveredArePosted` | `Spec => []CoveredPosted` |

*The argument.* The registry first: two snapshots with the same lock row have the
same index rows and segments tables (`Grown`), so a script that may commit finds
the registry as it checked it, whatever others committed since its snapshot; a ref
is never used again, and index rows with one ref only grow in cover. Then the
contents: the same holds of the postings, and while a table is neither altered
nor replaced, a row of a snapshot was either written since an earlier one, and is in
the snapshot that stamped it, or was a row of the earlier one (`Descends`). Schema
versions only grow, and grow with every change of a table, so a recorded version
that is the snapshot's own proves the table untouched since the commit that recorded
it, and then the rows covered are posted (`Covers`). The commit of a create is the
one exception, for its version is predicted while its transaction is open. An index
whose own create's transaction went on to alter the table (`AlteredByCreator`) has
postings of the old texts, and `LakeExact` and `CoveredPosted` do not speak of it:
section 5 shows that they could not. A refresh or a compaction may go on to an
`ALTER` too; it records no version above the one it found, and its index is stale.
A refresh or a compaction carries what its
expansion found to its commit: the index was fresh there, and a compaction holds
all the postings there were (`Planned`).

**The candidate queue.** `CandidateQueue_proofs` proves, for every set of workers
and every search that the planner may hand over, wherever the table ends, from
`BatchConstants` and `SearchInputs`:

| Theorem | Says |
| --- | --- |
| `Invariance` | `Spec => []IInv` |
| `RowsInOrder` | `Spec => []OrderRestored` |
| `IndexesAscend` | `Spec => BatchOrder` |
| `WorkspaceSuffices` | `Spec => []WithinWorkspace` |
| `ScansApart` | `Spec => []VectorsReadOnce` |

*The argument.* The batches of a segment start at the offsets that a run of
`BatchEnd` from 0 reaches (`Starts`); `Claimed` says which of them the queue has
handed out. `QueueInv` and `WorkersInv` say where the queue stands and that no
two workers hold one batch, decode one segment or scan one tail unit; `OutputInv`
that what was emitted under an index is the batch or the unit of that index, so
that the order of the indexes is the order of the rows; `ThoroughInv` and
`StartedInv` that what was handed out was emitted or is with a worker, and that
the workers go on to the tail only when all batches are handed out. The workspace
is a count (`CountInv`): at most `T` threads ever fetch or decode, and a decode
begins only while fewer than `T` segments are in flight, so that at most `2T - 2`
scratches and candidate vectors exist together, which is what the plan reserved.
No two batches share a storage vector because each runs on to the end of the
vector its last candidate lies in, and segments are whole vectors.

**The probe.** `IndexProbe_proofs` proves, for every set of needle keys, every
index that refreshes can have written of them, every layout of column segments
and row groups, every number of workers and every budget, from `ProbeConstants`
and `AdmissionConstants`:

| Theorem | Says |
| --- | --- |
| `Invariance` | `Spec => []IInv` |
| `ProbesExact` | `Spec => []CandidatesExact` |
| `NeverReportsMalformed` | `Spec => []NeverMalformed` |
| `BudgetHeld` | `Spec => []WithinBudget` |
| `ReservationsCover` | `Spec => []ReservationCovers` |

*The argument.* None of the four is inductive. The table first (`TableInv`): a run
of a refresh posts each of its rows once under each of the row's keys, so the
descriptors of a key and segment, over both runs, hold disjoint rowids. Column
segments ascend and cover the committed rows, and a span is widened to vectors of
its own row group; `AddSpan` keeps the spans apart by whole vectors, so the scans
of a key find each of its rows and none twice (`ScansOfKey`). While workers read
(`ReadInv`, `CompleteInv`), each row of a claimed key was read, or is still unread
by the one worker that claimed the key, never both. That is `NeverMalformed`, and
with the end of the scans it makes the manifest complete. For the budget
(`BudgetInv`), the rows charged, together with the chunks that workers have counted
and not charged yet, stay within `MaxManifestRows`: each worker that passed the
test had room for its own chunk beside the others'. A plan is one of *all* rows of
its keys (`Selection`), so an admitted segment's posting counts are the sizes of
its lists, and a segment that was left out holds no row with every key: a key is
missing, or the spans do not meet. Decoding (`DecodeInv`) then has, after `q`
lists, the rows that hold those `q` keys. What was charged covers the buffers
(`WorkerPeak`) because the first list of a segment's own order is the shortest: at
each step two vectors no longer than it and one other list are held, and the
charge, in whatever order it met the keys, contains a term for that list with
bounds no lower than the shortest list on both sides.

**Plans.** `PlanAndRun_proofs` proves, for every table and every number of commits,
vacuums and runs, from `PlanInputs`:

| Theorem | Says |
| --- | --- |
| `Invariance` | `Spec => []IInv` |
| `RunsExact` | `Spec => []AnswerExact` |
| `CandidatesSuffice` | `Spec => []CandidatesCover` |
| `ManifestsHold` | `Spec => []PostingsStay` |

*The argument.* Every commit adds rows or ends some, with a stamp of its own, so
that an earlier snapshot sees what it saw (`Commits`); a vacuum takes only rows
that no snapshot from `Oldest` on sees. While a guard is there, each index that
names it covers the table at every snapshot in use: the postings that snapshot
sees are those of the rows under the mark it sees. A run that found something
under the mark holds the vacuum lock until its caller is done, and one that holds
no lock found nothing (`Held`), so the places its manifest and its rowids name
still hold the same rows when they are read (`ManifestStays`).

**Grams.** `SparseGrams_proofs` proves, for every text, needle, weights and gram
lengths that `ValidateGramOptions` admits, from `GramOptions`:

| Theorem | Says |
| --- | --- |
| `PassInvariant` | `Spec => []Inv` |
| `GramsFound` | `Spec => []GramsExact` |
| `NeedleCovered` | `Spec => []CoveringChain` |
| `KeysPosted` | `Spec => []NeedleFound` |

*The argument.* A window *stands* while it is heavier than all after it. The
stack holds only windows that stand, and all of them but those too far back for a
gram and those paired with the window reached (`StackInv`). A gram whose last
inner window were not lighter than its borders, or that was never emitted, would
need a standing window above the top of the stack. Every window on the stack is a
border of the covering chain (`CoverInv`): the grams that a new one contains are
the last ones of the chain, and what is left ends where it begins, so that
neighbours still share one window. A gram is a matter of the windows inside it
alone; so the grams of a needle are, shifted, grams of every row that holds it,
with the same keys (`ExcerptGram`).

**Model-checked only.** Liveness and `ENABLED` are out of the prover's reach:
`AllStop` and `AllDelivered`. So is induction over data: `PackSegment` computes
its stream with folds and recursive operators, and `UnpackPostings` compares with
the concatenation of its chunks. `ProbeAdmission` has no recursion: an order is
given by ranks, a sum is the size of a set of units, so that what it computes can
be proved. The one recursive function, the merge of spans, is shown to exist and
to keep its property by the least number that would not have it.

## 5. A flaw the model shows

The transaction that creates an index may go on to alter the table.
`src/docs/ducklake.md:174-175` says that readers' "answers are those of a scan at
that snapshot", and lines 154-155 that any `ALTER TABLE` of the indexed table after
the covered snapshot makes the index stale. A create writes into its registry row
the schema version that its commit will have, the present one plus one
(`lake_maintenance.cpp:292`). In

    BEGIN; PRAGMA create_ngram_index(...); ALTER TABLE ... DROP COLUMN ...;
    ALTER TABLE ... ADD COLUMN ... DEFAULT ...; COMMIT

the `ALTER`s land in that same commit, for `RequireUnwrittenLake` refuses only what
was written before the call. The recorded version is then the commit's own, and
`LakeStaleReason` (`lake_catalog.cpp:286`) calls the index fresh without a look at
the history, which would name the table: the altered snapshot is the one after the
covered one. The postings are those of the old texts. The run `LakeIndex_creator`
shows one client doing this and a reader who is offered too few rows; a refresh
takes the index for fresh as well. When DuckLake raises the version by more than
one, or another commit raised it, the history is read and the index is stale.

## 6. Not modelled, and why

* Settings, quoting, owner keys, SQL text, listings and statistics: they read, or
  shape strings, and keep no state. What a setting decides is a constant.
* Several attached databases: each has a fence and a barrier of its own, and no
  handle is shared.
* The copy of scratch rows into a segments table (`AppendSegmentRows`): it is the
  host's append, part of the statement that calls it.
* The checks of a corrupt segments table, and counts that overflow `idx_t`: only a
  database that was written by something else has them.
* The row-group gate of `lake_query.cpp`: it decides by cost between two scans
  that `LakeIndex` treats alike.
* Plan-shape matching in `rewrite.cpp`: it inspects DuckDB's plan data.
* Unicode folding, the bytes of a varint and the hash: pure byte functions that
  the repository's tests compare with references.
* A predicate with several needles: its keys are the union of the needles', cut to
  the key budget (`rewrite.cpp:342`, `lake_query.cpp:182`). `SparseGrams` has one
  needle, which is declined when its keys pass the budget.
* Columns that change under a guard: see `RowIdGuard` in section 2.
* The host: rows, rowids, MVCC, WAL, checkpoints, DuckLake's snapshots and its
  conflict checks are modelled as the extension's code relies on them and are
  marked external in `PROJECT.json`.
* Guard options that are malformed one by one: they all yield the quarantined
  guard, which is one image. `ResetStorage` only latches.

## 7. Plan

Order: most important behaviour first, each module written to be proved about
(constants with assumptions, one action per operation, no recursive operators
where a proof is wanted).

1. `RowIdGuard` with `SnapshotSearch`: done, proved.
2. `MaintenanceState`: done, proved, creation barrier included.
3. `Maintenance` with `PostedIndex`: done, proved.
4. `ProbeAdmission`, `IndexProbe`: done, proved.
5. `PlanAndRun`: done, proved.
6. `CandidateBatches`, `CandidateQueue`: done, safety proved.
7. `LakeIndex`: done, proved. Left: the segment intersection of `lake_query.cpp`.
8. `SparseGrams`: done, proved. `PackSegment`, `UnpackPostings`: done with TLC.
   Left: `OneOwner`, which needs no induction over the stream, as a theorem.
