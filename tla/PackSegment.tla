----------------------------- MODULE PackSegment -----------------------------
(***************************************************************************)
(* The ngram_pack_segment aggregate (src/src/postings.cpp): partial states *)
(* take in the rowids of one segment as streams of delta codes, inline at  *)
(* first and then in linked blocks of the aggregate's arena; the host      *)
(* combines states, letting a combine adopt its source's blocks or not,    *)
(* and finalises them.  A stream byte string is a sequence of codes, each  *)
(* with its size in bytes.                                                 *)
(***************************************************************************)
EXTENDS Integers, Sequences, FiniteSets, SequencesExt, BagsExt

CONSTANTS States,             \* the host's aggregate states
          Rowids,             \* the rowids it feeds them
          SEGMENT_ROWS,       \* rowids of a segment (1 << SEGMENT_SHIFT)
          VARINT_VALUES,      \* values a varint byte tells apart (1 << 7)
          INLINE_BYTES, FIRST_BLOCK_BYTES, MAX_BLOCK_BYTES,
          MaxUpdates,         \* bound: rowids fed
          MaxCombines         \* bound: combines

ASSUME BlockSizes ==
    /\ {SEGMENT_ROWS, VARINT_VALUES, INLINE_BYTES, FIRST_BLOCK_BYTES, MAX_BLOCK_BYTES} \subseteq Nat \ {0}
    /\ INLINE_BYTES <= FIRST_BLOCK_BYTES /\ FIRST_BLOCK_BYTES <= MAX_BLOCK_BYTES

VARIABLES state,      \* EncodePostingsState of each state
          arena,      \* the blocks allocated, in order
          fed,        \* the offsets each state stands for, as a bag
          combined,   \* states that took part in a combine
          updates, combines
vars == <<state, arena, fed, combined, updates, combines>>

Nil == 0

\* An inline stream, or the first and last of a block list.
EmptyState == [base |-> 0, last |-> 0, inline |-> <<>>, first |-> Nil, tail |-> Nil]

Block(capacity, stream) == [next |-> Nil, stream |-> stream, capacity |-> capacity]

InBlocks(s) == s.first # Nil
Empty(s) == ~InBlocks(s) /\ s.inline = <<>>

-----------------------------------------------------------------------------
(* The stream: an offset is its delta from the last plus one, after a zero  *)
(* that restarts from offset zero when offsets descend.                     *)
VarintSize(value) == IF value < VARINT_VALUES THEN 1 ELSE IF value < VARINT_VALUES * VARINT_VALUES THEN 2 ELSE 3

RECURSIVE Size(_)
Size(stream) == IF stream = <<>> THEN 0 ELSE VarintSize(Head(stream)) + Size(Tail(stream))

OffsetCode(last, offset) == IF offset < last THEN <<0, offset + 1>> ELSE <<offset - last + 1>>

\* The offsets of one stretch: the inline stream, or a block's.
DecodeStretch(stream) ==
    FoldLeft(LAMBDA read, code : IF code = 0 THEN [read EXCEPT !.offset = 0]
                                 ELSE [offset |-> read.offset + code - 1,
                                       emitted |-> Append(read.emitted, read.offset + code - 1)],
             [offset |-> 0, emitted |-> <<>>], stream).emitted

RECURSIVE Chain(_, _)
Chain(heap, block) == IF block = Nil THEN <<>> ELSE <<block>> \o Chain(heap, heap[block].next)

ForEachOffset(heap, s) ==
    IF ~InBlocks(s) THEN DecodeStretch(s.inline)
    ELSE LET list == Chain(heap, s.first)
         IN  FlattenSeq([i \in DOMAIN list |-> DecodeStretch(heap[list[i]].stream)])

-----------------------------------------------------------------------------
(* Appending.  Each step takes and returns the arena and a state.           *)
FitsInline(s, offset) == Size(s.inline) + Size(OffsetCode(s.last, offset)) <= INLINE_BYTES

\* Faulty: the restart byte of a descending offset is not counted.
FitsWithoutRestart(heap, s, offset) ==
    Size(heap[s.tail].stream) + VarintSize(Last(OffsetCode(s.last, offset))) <= heap[s.tail].capacity

FitsTail(heap, s, offset) ==
    Size(heap[s.tail].stream) + Size(OffsetCode(s.last, offset)) <= heap[s.tail].capacity

\* The inline stream moves into the first block.
MovedToBlocks(m) ==
    IF InBlocks(m.s) THEN m
    ELSE [heap |-> Append(m.heap, Block(FIRST_BLOCK_BYTES, m.s.inline)),
          s |-> [m.s EXCEPT !.inline = <<>>, !.first = Len(m.heap) + 1, !.tail = Len(m.heap) + 1]]

DoubledCapacity(capacity) == IF 2 * capacity < MAX_BLOCK_BYTES THEN 2 * capacity ELSE MAX_BLOCK_BYTES

\* Faulty: a new block goes on from the last offset of the block before it.
RoomKeepingLast(m, offset) ==
    IF FitsTail(m.heap, m.s, offset) THEN m
    ELSE [heap |-> Append([m.heap EXCEPT ![m.s.tail].next = Len(m.heap) + 1],
                          Block(DoubledCapacity(m.heap[m.s.tail].capacity), <<>>)),
          s |-> [m.s EXCEPT !.tail = Len(m.heap) + 1]]

\* A full tail is followed by a new block, which starts from offset zero.
RoomAtTail(m, offset) ==
    IF FitsTail(m.heap, m.s, offset) THEN m
    ELSE [heap |-> Append([m.heap EXCEPT ![m.s.tail].next = Len(m.heap) + 1],
                          Block(DoubledCapacity(m.heap[m.s.tail].capacity), <<>>)),
          s |-> [m.s EXCEPT !.tail = Len(m.heap) + 1, !.last = 0]]

AppendOffset(m, offset) ==
    IF ~InBlocks(m.s) /\ FitsInline(m.s, offset)
    THEN [m EXCEPT !.s.inline = m.s.inline \o OffsetCode(m.s.last, offset), !.s.last = offset]
    ELSE LET room == RoomAtTail(MovedToBlocks(m), offset)
             tail == room.s.tail
         IN  [heap |-> [room.heap EXCEPT ![tail].stream = room.heap[tail].stream \o OffsetCode(room.s.last, offset)],
              s |-> [room.s EXCEPT !.last = offset]]

AppendAll(m, offsets) == FoldLeft(AppendOffset, m, offsets)

-----------------------------------------------------------------------------
Init == /\ state = [s \in States |-> EmptyState]
        /\ arena = <<>>
        /\ fed = [s \in States |-> EmptyBag]
        /\ combined = {}
        /\ updates = 0 /\ combines = 0

SegmentStart(rowid) == (rowid \div SEGMENT_ROWS) * SEGMENT_ROWS

\* AppendRowid: a state takes its segment from its first rowid and refuses a
\* rowid of another.
Update(s, rowid) ==
    /\ updates < MaxUpdates /\ s \notin combined
    /\ Empty(state[s]) \/ SegmentStart(rowid) = state[s].base
    /\ LET based == [state[s] EXCEPT !.base = SegmentStart(rowid)]
           m == AppendOffset([heap |-> arena, s |-> based], rowid - SegmentStart(rowid))
       IN  arena' = m.heap /\ state' = [state EXCEPT ![s] = m.s]
    /\ fed' = [fed EXCEPT ![s] = fed[s] (+) SetToBag({rowid - SegmentStart(rowid)})]
    /\ updates' = updates + 1
    /\ UNCHANGED <<combined, combines>>

Combinable(source, target) ==
    /\ combines < MaxCombines /\ source # target
    /\ ~Empty(state[source])
    /\ Empty(state[target]) \/ state[target].base = state[source].base

\* The target appends the source's offsets one by one.
CombineByOffset(source, target, destructive) ==
    /\ Combinable(source, target)
    /\ ~(destructive /\ InBlocks(state[source]))
    /\ LET based == [state[target] EXCEPT !.base = state[source].base]
           m == AppendAll([heap |-> arena, s |-> based], ForEachOffset(arena, state[source]))
       IN  arena' = m.heap /\ state' = [state EXCEPT ![target] = m.s]
    /\ fed' = [fed EXCEPT ![target] = fed[target] (+) fed[source]]
    /\ combined' = combined \cup {source, target}
    /\ combines' = combines + 1 /\ UNCHANGED updates

\* The source's blocks join the target's list whole; a target still inline
\* appends its own offsets after them.
Adopted(source, target) ==
    IF InBlocks(state[target])
    THEN [heap |-> [arena EXCEPT ![state[target].tail].next = state[source].first],
          s |-> [state[target] EXCEPT !.tail = state[source].tail, !.last = state[source].last]]
    ELSE AppendAll([heap |-> arena, s |-> state[source]], ForEachOffset(arena, state[target]))

\* Faulty: the source keeps the blocks it gave away.
SourceKept(source) == state[source]

\* EncodePostingsOp::Initialize
SourceLeft(source) == EmptyState

CombineByAdoption(source, target) ==
    /\ Combinable(source, target)
    /\ InBlocks(state[source])
    /\ LET m == Adopted(source, target)
       IN  arena' = m.heap /\ state' = [state EXCEPT ![target] = m.s, ![source] = SourceLeft(source)]
    /\ fed' = [fed EXCEPT ![target] = fed[target] (+) fed[source], ![source] = EmptyBag]
    /\ combined' = combined \cup {source, target}
    /\ combines' = combines + 1 /\ UNCHANGED updates

Next ==
    \/ \E s \in States, rowid \in Rowids : Update(s, rowid)
    \/ \E source, target \in States :
          \/ \E destructive \in BOOLEAN : CombineByOffset(source, target, destructive)
          \/ CombineByAdoption(source, target)

Spec == Init /\ [][Next]_vars

-----------------------------------------------------------------------------
(* Finalising, and the blobs.                                               *)
POSTINGS_FORMAT_VERSION == 1

\* EncodePostings: version, count, first rowid, and deltas.
EncodePostings(rowids) ==
    LET sorted == SetToSortSeq(rowids, <)
    IN  <<POSTINGS_FORMAT_VERSION, Len(sorted)>> \o
        [i \in DOMAIN sorted |-> IF i = 1 THEN sorted[1] ELSE sorted[i] - sorted[i - 1]]

\* DecodePostings: running sums of the deltas.
DecodePostings(blob) ==
    FoldLeft(LAMBDA read, delta : Append(read, delta + IF read = <<>> THEN 0 ELSE Last(read)),
             <<>>, SubSeq(blob, 3, Len(blob)))

\* Faulty: repeats stay in.
SortKeepingRepeats(offsets) == SortSeq(offsets, <)

\* SortOffsets merges the ascending runs the offsets arrive in and drops
\* repeats.
SortOffsets(offsets) ==
    LET sorted == SortSeq(offsets, <)
        kept == {i \in DOMAIN sorted : i = 1 \/ sorted[i] # sorted[i - 1]}
        order == SetToSortSeq(kept, <)
    IN  [i \in DOMAIN order |-> sorted[order[i]]]

\* EncodePostingsFinalize with EncodeSortedOffsets.
Finalized(s) ==
    LET offsets == SortOffsets(ForEachOffset(arena, state[s]))
    IN  [postings |-> <<POSTINGS_FORMAT_VERSION, Len(offsets), state[s].base + offsets[1]>> \o
                      [i \in 1 .. Len(offsets) - 1 |-> offsets[i + 1] - offsets[i]],
         rowid_count |-> Len(offsets),
         min_rowid |-> state[s].base + offsets[1],
         max_rowid |-> state[s].base + Last(offsets)]

\* UnpackPostingsFunction's checked form refuses a descriptor that disagrees
\* with its blob.
Checked(row) ==
    LET rowids == DecodePostings(row.postings)
    IN  /\ \A i \in DOMAIN rowids : SegmentStart(rowids[i]) = SegmentStart(row.min_rowid)
        /\ row.rowid_count > 0 /\ row.rowid_count = Len(rowids)
        /\ row.min_rowid = rowids[1] /\ row.max_rowid = Last(rowids)

-----------------------------------------------------------------------------
\* The type of every variable; a stream never outgrows its inline bytes or
\* its block.
TypeOK ==
    /\ \A s \in States :
          /\ state[s].base \in {SegmentStart(r) : r \in Rowids} \cup {0}
          /\ state[s].last \in 0 .. SEGMENT_ROWS - 1
          /\ {state[s].first, state[s].tail} \subseteq 0 .. Len(arena)
          /\ Size(state[s].inline) <= INLINE_BYTES
    /\ \A b \in DOMAIN arena :
          /\ arena[b].next \in 0 .. Len(arena)
          /\ arena[b].capacity \in FIRST_BLOCK_BYTES .. MAX_BLOCK_BYTES
          /\ Size(arena[b].stream) <= arena[b].capacity
    /\ updates \in 0 .. MaxUpdates /\ combines \in 0 .. MaxCombines

BagOf(offsets) == [o \in ToSet(offsets) |-> Cardinality({i \in DOMAIN offsets : offsets[i] = o})]

\* A state's stretches decode to exactly the offsets it was fed and combined
\* from, each as often, through restarts, the move from inline bytes to
\* blocks, new blocks and adopted lists (ForEachOffset).
StreamFaithful == \A s \in States : BagOf(ForEachOffset(arena, state[s])) = fed[s]

\* No block is on two states' lists, and a list's tail is where it ends: an
\* adopted list has one owner, so no append reaches another state's stream
\* (EncodePostingsCombine).
OneOwner ==
    /\ \A s, t \in States : s # t =>
          ToSet(Chain(arena, state[s].first)) \cap ToSet(Chain(arena, state[t].first)) = {}
    /\ \A s \in States : InBlocks(state[s]) => Last(Chain(arena, state[s].first)) = state[s].tail

\* A state's payload is the blob EncodePostings writes for its set of rowids,
\* whatever the order and the combines it came by, and passes the checks
\* compaction makes of it (EncodePostingsFinalize, UnpackPostingsFunction).
PayloadFromSet ==
    \A s \in States : ~Empty(state[s]) =>
        LET rowids == {state[s].base + o : o \in BagToSet(fed[s])}
            row == Finalized(s)
        IN  /\ row.postings = EncodePostings(rowids)
            /\ ToSet(DecodePostings(row.postings)) = rowids
            /\ Checked(row)
=============================================================================
