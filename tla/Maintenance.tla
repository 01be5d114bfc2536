----------------------------- MODULE Maintenance ----------------------------
(***************************************************************************)
(* PRAGMA ngram_refresh and PRAGMA ngram_compact on one index of a DuckDB  *)
(* table (src/src/maintenance_sql.cpp), under snapshot isolation: a pragma *)
(* expands into a script, in its own transaction or in an explicit one,    *)
(* and the script runs and commits while writers append and delete and     *)
(* other connections do the same.                                          *)
(*                                                                         *)
(* A commit hands out its rowids before its rows become visible, both      *)
(* under one lock.  Every row holds one same gram, so that a segment row   *)
(* is known by its segment, its generation and its rowids.  A transaction  *)
(* that changes what another one changed since its snapshot is refused, as *)
(* DuckDB does.  What a reused rowid would break is RowIdGuard's subject.  *)
(***************************************************************************)
EXTENDS Integers, FiniteSets, FiniteSetsExt

CONSTANTS Conns,         \* maintenance connections
          MaxRowid,      \* bound: the last rowid ever handed out
          MaxDeleted,    \* bound: the rowids without a row at one time
          MaxRows,       \* the max_rows a refresh is called with
          SEGMENT_ROWS,  \* rowids of a segment (1 << SEGMENT_SHIFT)
          MAX_ROW_ID     \* where transaction-local rowids start

ASSUME MaintenanceConstants ==
    /\ MaxRowid \in Nat /\ MaxRows \subseteq Nat \ {0} /\ SEGMENT_ROWS \in Nat \ {0}
    /\ MAX_ROW_ID \in Nat /\ MaxRowid < MAX_ROW_ID - 1 /\ SEGMENT_ROWS <= MaxRowid + 1

Rowid == 0 .. MaxRowid
Mark == -1 .. MaxRowid

VARIABLES rows,       \* committed, not deleted rows
          allocated,  \* the rowids handed out: 0 .. allocated - 1
          flushing,   \* the rowids of the commit in progress, not visible yet
          hwm,        \* the registry row's hwm_rowid, as committed
          segments,   \* the rows of the segments table, as committed
          conn        \* each maintenance connection's transaction and script

vars == <<rows, allocated, flushing, hwm, segments, conn>>

\* A call is what a script was generated from: its kind, the mark, the bound of
\* a refresh and what the statistics said of the keys.
NoCall == [kind |-> "none"]

\* A transaction: its snapshot (visible: the rows, hwm: the mark, base: the
\* segment rows), its own changes (removed, added, advanced: the mark), what
\* others committed over the snapshot since (replaced, moved: the mark), and
\* the call whose script runs next.
Unwritten(open, visible, mark, base) ==
    [open |-> open, explicit |-> FALSE, visible |-> visible, hwm |-> mark, base |-> base,
     removed |-> {}, added |-> {}, advanced |-> FALSE, replaced |-> {}, moved |-> FALSE,
     call |-> NoCall]

Idle == Unwritten(FALSE, {}, -1, {})

Snapshot == Unwritten(TRUE, rows, hwm, segments)

Posted(segs) == UNION {s.rowids : s \in segs}
Generations(segs) == {s.generation : s \in segs}
Key(segs, segment) == {s \in segs : s.segment = segment}
Fragmented(segs) == {s \in segs : Cardinality(Key(segs, s.segment)) > 1}
SegmentOf(r) == r \div SEGMENT_ROWS

\* The segments table as a transaction sees it.
Seen(t) == (t.base \ t.removed) \union t.added

\* One segment row per segment that holds any of the rowids (PackPartitionStatement).
Packed(rowids, generation) ==
    {[segment |-> k, generation |-> generation, rowids |-> {r \in rowids : SegmentOf(r) = k}] :
        k \in {SegmentOf(r) : r \in rowids}}

\* An index just built over the rows of a table.
Init ==
    /\ allocated \in 0 .. SEGMENT_ROWS
    /\ rows \in SUBSET (0 .. allocated - 1)
    /\ allocated - Cardinality(rows) <= MaxDeleted
    /\ flushing = {}
    /\ hwm = Max(rows \union {-1})
    /\ segments = Packed(rows, 0)
    /\ conn = [c \in Conns |-> Idle]
-----------------------------------------------------------------------------
\* A commit hands out rowids under the table's append lock ...
Flush(last) ==
    /\ flushing = {}
    /\ flushing' = allocated .. last
    /\ allocated' = last + 1
    /\ UNCHANGED <<rows, hwm, segments, conn>>

\* ... and gets its commit id, which makes the rows visible, or is rejected.
FlushCommit ==
    /\ flushing # {}
    /\ rows' = rows \union flushing
    /\ flushing' = {}
    /\ UNCHANGED <<allocated, hwm, segments, conn>>

FlushReject ==
    /\ flushing # {}
    /\ allocated' = Min(flushing)
    /\ flushing' = {}
    /\ UNCHANGED <<rows, hwm, segments, conn>>

Delete(r) ==
    /\ r \in rows
    /\ allocated - Cardinality(rows \union flushing) < MaxDeleted
    /\ rows' = rows \ {r}
    /\ UNCHANGED <<allocated, flushing, hwm, segments, conn>>
-----------------------------------------------------------------------------
\* The user opens a transaction, in which the pragma expands and runs.
Begin(c) ==
    /\ ~conn[c].open
    /\ conn[c].call = NoCall
    /\ conn' = [conn EXCEPT ![c] = [Snapshot EXCEPT !.explicit = TRUE]]
    /\ UNCHANGED <<rows, allocated, flushing, hwm, segments>>

\* What the pragma's callback reads: the explicit transaction's snapshot, or
\* that of an expansion transaction of its own.
Reading(c) == IF conn[c].open THEN conn[c] ELSE Snapshot

\* The bound of a refresh that takes the whole tail.
Unbounded == MAX_ROW_ID - 1

BoundedRefreshEnd(mark, max_rows) ==
    LET target  == mark + max_rows
        aligned == ((target + 1) \div SEGMENT_ROWS) * SEGMENT_ROWS - 1
    IN  IF max_rows >= MAX_ROW_ID \/ mark > Unbounded - max_rows THEN Unbounded
        ELSE IF aligned > mark THEN aligned ELSE target

\* MayHoldFragmentedKeys: the column statistics cover every committed row,
\* and rows of the transaction's own count as a second generation.
MayHoldFragmentedKeys(c, may) ==
    \/ may
    \/ /\ Reading(c).added = {}
       /\ Cardinality(Generations(Reading(c).base \union segments)) <= 1

Expanded(c, call) ==
    /\ ~conn[c].open \/ conn[c].explicit
    /\ conn[c].call = NoCall
    /\ conn' = [conn EXCEPT ![c].call = call]
    /\ UNCHANGED <<rows, allocated, flushing, hwm, segments>>

\* RefreshScript: the rowids handed out so far say whether there is anything
\* to pack and whether max_rows stops the refresh short of them.
ExpandRefresh(c, bound_end) ==
    Expanded(c, [kind |-> IF Reading(c).hwm < allocated - 1 THEN "refresh" ELSE "report",
                 hwm |-> Reading(c).hwm, fragmented |-> FALSE,
                 bound_end |-> IF bound_end < allocated - 1 THEN bound_end ELSE Unbounded])

\* CompactScript.
ExpandCompact(c, kind, may) ==
    /\ MayHoldFragmentedKeys(c, may)
    /\ Expanded(c, [kind |-> kind, hwm |-> Reading(c).hwm, bound_end |-> Unbounded,
                    fragmented |-> may])

\* The transaction the script runs in.
Running(c) == IF conn[c].open THEN conn[c]
              ELSE [Snapshot EXCEPT !.call = conn[c].call]

StopsShort(call) == call.bound_end # Unbounded
TailRows(t) == {r \in t.visible : r > t.call.hwm}

\* The rows the ranges cover: SegmentAlignedRanges leaves the last one open
\* unless the refresh stops short.
Increment(t) ==
    IF StopsShort(t.call) THEN {r \in TailRows(t) : r <= t.call.bound_end} ELSE TailRows(t)

\* Faulty: an empty tail leaves no mark to record.
MaxOfTail(t, last) == Max({r \in TailRows(t) : r <= last} \union {-1})

\* max(rowid) over the tail, up to `last`, or the mark it had.
CommittedMax(t, last) == Max({r \in TailRows(t) : r <= last} \union {t.hwm})

\* Faulty: the bound is recorded whether or not the slots below it are settled.
MarkAtBound(t) ==
    IF StopsShort(t.call) THEN t.call.bound_end ELSE CommittedMax(t, MaxRowid)

\* Faulty: the mark is always the highest row that was indexed.
MarkAtRow(t) == CommittedMax(t, IF StopsShort(t.call) THEN t.call.bound_end ELSE MaxRowid)

RefreshedHighWaterMark(t) ==
    IF ~StopsShort(t.call) THEN CommittedMax(t, MaxRowid)
    ELSE IF \E r \in t.visible : r > t.call.bound_end THEN t.call.bound_end
    ELSE CommittedMax(t, t.call.bound_end)

\* Faulty: a refresh joins the newest generation.
NewestGeneration(segs) == Max(Generations(segs) \union {0})

NextGeneration(segs) == Max(Generations(segs) \union {0}) + 1

\* RefreshSummaryRow's remaining_tail, at the mark the script left.
RemainingTail(t) == {r \in t.visible : r > t.hwm}

\* No other transaction has changed these rows since the snapshot, nor is
\* about to.
MayRemove(c, t, segs) ==
    /\ segs \cap t.replaced = {}
    /\ \A d \in Conns \ {c} : segs \cap conn[d].removed = {}

MayAdvance(c, t) == ~t.moved /\ \A d \in Conns \ {c} : ~conn[d].advanced

\* Faulty: the metadata is not compared again.
Unchecked(t) == TRUE

\* CheckPreparedMaintenance, in the script's transaction.
Unchanged(t) == t.hwm = t.call.hwm

Ran(c, t) ==
    /\ conn' = [conn EXCEPT ![c] = [t EXCEPT !.call = NoCall]]
    /\ UNCHANGED <<rows, allocated, flushing, hwm, segments>>

\* No rowid past the mark existed at expansion: the script only reports.
ReportOnly(c) ==
    LET t == Running(c)
    IN  /\ t.call.kind = "report"
        /\ Unchanged(t)
        /\ Ran(c, t)

RunRefresh(c) ==
    LET t    == Running(c)
        mark == RefreshedHighWaterMark(t)
    IN  /\ t.call.kind = "refresh"
        /\ Unchanged(t)
        /\ MayAdvance(c, t)
        /\ Ran(c, [t EXCEPT
             !.hwm = mark, !.advanced = TRUE,
             !.added = @ \union Packed(Increment(t), NextGeneration(Seen(t)))])

\* The segments table after a merge: the fragmented keys merged, every row at
\* generation 0.
Merged(segs) ==
    UNION {Packed(Posted(Key(segs, k)), 0) : k \in {s.segment : s \in segs}}

\* The segments table after a purge: every key rewritten to its live rows.
Purged(t) ==
    Packed({r \in Posted(Seen(t)) : r \in t.visible /\ r <= t.call.hwm}, 0)

\* The rows `before` become `after`: what is in both was not touched.
RunCompact(c, t, after) ==
    LET changed == Seen(t) \ after
    IN  /\ MayRemove(c, t, changed \ t.added)
        /\ Ran(c, [t EXCEPT !.removed = @ \union (changed \ t.added),
                            !.added = (@ \ changed) \union (after \ Seen(t))])

RunMerge(c) ==
    LET t == Running(c)
    IN  /\ t.call.kind = "merge"
        /\ Unchanged(t)
        /\ RunCompact(c, t, IF t.call.fragmented THEN Merged(Seen(t)) ELSE Seen(t))

\* A purge deletes and rewrites every key's rows.
RunPurge(c) ==
    LET t == Running(c)
    IN  /\ t.call.kind = "purge"
        /\ Unchanged(t)
        /\ MayRemove(c, t, t.base \ t.removed)
        /\ Ran(c, [t EXCEPT !.removed = t.base, !.added = Purged(t)])

\* A check fails, a write conflicts, the user rolls back, the process dies.
Rollback(c) ==
    /\ conn[c] # Idle
    /\ conn' = [conn EXCEPT ![c] = Idle]
    /\ UNCHANGED <<rows, allocated, flushing, hwm, segments>>

Commit(c) ==
    /\ conn[c].open
    /\ conn[c].call = NoCall
    /\ hwm' = IF conn[c].advanced THEN conn[c].hwm ELSE hwm
    /\ segments' = (segments \ conn[c].removed) \union conn[c].added
    /\ conn' = [d \in Conns |->
         IF d = c THEN Idle
         ELSE IF conn[d].open
              THEN [conn[d] EXCEPT !.moved = @ \/ conn[c].advanced,
                                   !.replaced = @ \union (conn[d].base \cap conn[c].removed)]
              ELSE conn[d]]
    /\ UNCHANGED <<rows, allocated, flushing>>

BoundEnds(c) ==
    {Unbounded} \union {BoundedRefreshEnd(Reading(c).hwm, max_rows) : max_rows \in MaxRows}

Next ==
    \/ \E last \in allocated .. MaxRowid : Flush(last)
    \/ FlushCommit
    \/ FlushReject
    \/ \E r \in rows : Delete(r)
    \/ \E c \in Conns :
         \/ Begin(c)
         \/ \E bound_end \in BoundEnds(c) : ExpandRefresh(c, bound_end)
         \/ \E may \in BOOLEAN : ExpandCompact(c, "merge", may)
         \/ ExpandCompact(c, "purge", TRUE)
         \/ ReportOnly(c)
         \/ RunRefresh(c)
         \/ RunMerge(c)
         \/ RunPurge(c)
         \/ Rollback(c)
         \/ Commit(c)

Spec == Init /\ [][Next]_vars
-----------------------------------------------------------------------------
\* Of every state of the index a query can read: the committed one, and what
\* an open transaction sees of its snapshot and its own scripts.
Everywhere(Holds(_, _, _)) ==
    /\ Holds(rows, hwm, segments)
    /\ \A c \in Conns : conn[c].open => Holds(conn[c].visible, conn[c].hwm, Seen(conn[c]))

Covered(visible, mark, segs) == \A r \in visible : r <= mark => r \in Posted(segs)

OneRowUnder(visible, mark, segs) ==
    \A s \in segs : \A r \in s.rowids : r <= mark /\ \A u \in segs : r \in u.rowids => u = s

\* Every visible row at or below the mark is in the postings: no refresh moves
\* the mark over a row it did not index, one whose commit was under way
\* included, and no compaction drops one (maintenance_sql.cpp:134-156,
\* ngram_refresh_concurrent.test).
NoBuriedRow == Everywhere(Covered)

\* Every posting lies at or below the mark, and in one segment row only: what
\* compaction and queries refuse as a malformed index never arises.
PostingsUnderMark == Everywhere(OneRowUnder)

\* Once a merge ran, no key its transaction sees is fragmented: the script
\* that stops because the statistics showed one generation at expansion has
\* nothing to merge when it runs (maintenance_sql.cpp:277-282, 326-329).
MergeComplete ==
    [][\A c \in Conns :
         conn[c].call.kind = "merge" /\ conn'[c].open /\ conn'[c].call = NoCall
            => Fragmented(Seen(conn'[c])) = {}]_vars

\* A refresh that leaves a tail advanced the mark, unless the tail was
\* allocated after it expanded: the caller's loop on remaining_tail ends
\* (maintenance_sql.cpp:134-139).
NoSpin ==
    [][\A c \in Conns :
         LET call == conn[c].call
         IN  (/\ call.kind = "refresh"
              /\ conn'[c].open /\ conn'[c].call = NoCall
              /\ RemainingTail(conn'[c]) # {})
                 => conn'[c].hwm > call.hwm]_vars

\* The committed index is one that anybody may search without knowing of
\* scripts and snapshots: whatever refreshes, merges and purges run beside each
\* other and commit over each other's snapshots, the mark never goes back, no
\* commit posts a rowid again that another purged, and none takes the posting
\* of a row (maintenance_sql.cpp:134-167, 302-407).
Committed == INSTANCE PostedIndex WITH posted <- Posted(segments)
ImplementsPostedIndex == Committed!Spec
=============================================================================
