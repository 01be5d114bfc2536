-------------------------- MODULE CandidateBatches --------------------------
(***************************************************************************)
(* How the candidates of one rowid segment are cut into batches for the    *)
(* fetch workers (src/src/search_core.cpp, ClaimCandidateBatch): a range   *)
(* batch where the next candidates are dense, a fetch batch otherwise,     *)
(* each run on to the end of the vector its last candidate lies in.        *)
(* Candidates are an ascending sequence of rowids; offsets start at 0.     *)
(***************************************************************************)
EXTENDS Integers, Sequences

CONSTANTS FETCH_BATCH_ROWS,      \* candidates of a fetch batch
          RANGE_BATCH_ROWS,      \* candidates of a range batch
          RANGE_ROWS_PER_FETCH,  \* span rows that cost one fetch
          RANGE_SCAN_MIN_ROWS,   \* fewest candidates worth a range scan
          STANDARD_VECTOR_SIZE,  \* rows of a storage vector
          SEGMENT_ROWS           \* rowids of a segment (1 << SEGMENT_SHIFT)

ASSUME BatchConstants ==
    /\ {FETCH_BATCH_ROWS, RANGE_BATCH_ROWS, RANGE_ROWS_PER_FETCH, RANGE_SCAN_MIN_ROWS,
        STANDARD_VECTOR_SIZE, SEGMENT_ROWS} \subseteq Nat \ {0}
    /\ FETCH_BATCH_ROWS <= RANGE_BATCH_ROWS
    /\ SEGMENT_ROWS % FETCH_BATCH_ROWS = 0
    /\ SEGMENT_ROWS % STANDARD_VECTOR_SIZE = 0

Smaller(a, b) == IF a < b THEN a ELSE b

FETCH_BATCHES_PER_SEGMENT == SEGMENT_ROWS \div FETCH_BATCH_ROWS

\* Candidates [begin, end) fill enough of their span.
RangeScanPays(rowids, begin, end) ==
    /\ end - begin >= RANGE_SCAN_MIN_ROWS
    /\ rowids[end] - rowids[begin + 1] + 1 <= RANGE_ROWS_PER_FETCH * (end - begin)

\* The rowid segment a rowid lies in.
SegmentOf(rowid) == rowid \div SEGMENT_ROWS

\* The vector-aligned block a rowid lies in.
Block(rowid) == rowid \div STANDARD_VECTOR_SIZE

\* What the batch at `offset` asks for before it runs on.
RangeEnd(rowids, offset) == Smaller(offset + RANGE_BATCH_ROWS, Len(rowids))

AskedEnd(rowids, offset) ==
    IF RangeScanPays(rowids, offset, RangeEnd(rowids, offset)) THEN RangeEnd(rowids, offset)
    ELSE Smaller(offset + FETCH_BATCH_ROWS, Len(rowids))

\* Faulty: a batch ends where it asked to, inside a vector.
EndAsAsked(rowids, offset) == AskedEnd(rowids, offset)

\* The end of the batch at `offset`: on through the candidates that share the
\* last one's block.
BatchEnd(rowids, offset) ==
    LET last == Block(rowids[AskedEnd(rowids, offset)])
    IN  CHOOSE e \in AskedEnd(rowids, offset) .. Len(rowids) :
          /\ Block(rowids[e]) = last
          /\ e < Len(rowids) => Block(rowids[e + 1]) # last

\* StartRangeScan: a batch sized for a range scan still pays after it ran on.
IsRangeScan(rowids, offset) ==
    /\ RangeScanPays(rowids, offset, RangeEnd(rowids, offset))
    /\ RangeScanPays(rowids, offset, BatchEnd(rowids, offset))

\* The index that ordered sinks put the batch's chunks back in order by.
BatchIndex(ordinal, offset) == ordinal * FETCH_BATCHES_PER_SEGMENT + offset \div FETCH_BATCH_ROWS
=============================================================================
