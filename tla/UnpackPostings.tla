--------------------------- MODULE UnpackPostings ---------------------------
(***************************************************************************)
(* The ngram_unpack_postings cursor (src/src/postings.cpp): compaction     *)
(* streams the rowids of segment rows back out, at most one output chunk   *)
(* per call.  The host calls again with the same input chunk while the     *)
(* function has more output, and with the next one when it needs input.    *)
(***************************************************************************)
EXTENDS Integers, Sequences, SequencesExt

CONSTANTS Chunks,                \* bound: the inputs considered, sequences of chunks of segment rows
          STANDARD_VECTOR_SIZE   \* rows of an output chunk

ASSUME VectorSize == STANDARD_VECTOR_SIZE \in Nat \ {0}

VARIABLES input,         \* the chunks still to be read, the current one first
          input_offset, rowids, rowid_offset, row_decoded,   \* UnpackPostingsLocalState
          out,           \* the chunk being filled
          delivered,     \* everything the host was handed
          whole          \* everything it was to be handed (history)
vars == <<input, input_offset, rowids, rowid_offset, row_decoded, out, delivered, whole>>

Flat(chunks) == FlattenSeq(FlattenSeq(chunks))

Init == /\ input \in Chunks
        /\ input_offset = 0 /\ rowids = <<>> /\ rowid_offset = 0 /\ row_decoded = FALSE
        /\ out = <<>> /\ delivered = <<>>
        /\ whole = Flat(input)

Calling == input # <<>>
AtRow == Calling /\ input_offset < Len(Head(input))

\* A row is decoded once, however many calls it takes to emit.
DecodeRow ==
    /\ AtRow /\ ~row_decoded
    /\ rowids' = Head(input)[input_offset + 1]
    /\ rowid_offset' = 0 /\ row_decoded' = TRUE
    /\ UNCHANGED <<input, input_offset, out, delivered, whole>>

EmitRowid ==
    /\ AtRow /\ row_decoded /\ rowid_offset < Len(rowids)
    /\ Len(out) < STANDARD_VECTOR_SIZE
    /\ out' = Append(out, rowids[rowid_offset + 1])
    /\ rowid_offset' = rowid_offset + 1
    /\ UNCHANGED <<input, input_offset, rowids, row_decoded, delivered, whole>>

\* HAVE_MORE_OUTPUT: the chunk is full with rowids of the row to come, which
\* stays decoded.
ChunkFull ==
    /\ AtRow /\ row_decoded /\ rowid_offset < Len(rowids)
    /\ Len(out) = STANDARD_VECTOR_SIZE
    /\ delivered' = delivered \o out /\ out' = <<>>
    /\ UNCHANGED <<input, input_offset, rowids, rowid_offset, row_decoded, whole>>

NextRow ==
    /\ AtRow /\ row_decoded /\ rowid_offset = Len(rowids)
    /\ row_decoded' = FALSE /\ input_offset' = input_offset + 1
    /\ UNCHANGED <<input, rowids, rowid_offset, out, delivered, whole>>

\* Faulty: the next chunk is read from where the last one ended.
OffsetKept == input_offset

\* Where the next chunk is read from.
FirstRow == 0

\* NEED_MORE_INPUT: the chunk read is used up.
InputDone ==
    /\ Calling /\ input_offset >= Len(Head(input))
    /\ delivered' = delivered \o out /\ out' = <<>>
    /\ input_offset' = FirstRow
    /\ input' = Tail(input)
    /\ UNCHANGED <<rowids, rowid_offset, row_decoded, whole>>

Next == DecodeRow \/ EmitRowid \/ ChunkFull \/ NextRow \/ InputDone

Spec == Init /\ [][Next]_vars /\ WF_vars(Next)

-----------------------------------------------------------------------------
\* Nothing is lost, repeated or reordered where a row spreads over several
\* calls or an output chunk ends between two rows: every posting is delivered,
\* in order, before the host is told the input is used up, and it is told so
\* (UnpackPostingsFunction).  What was delivered is only ever extended, so it
\* is at every moment a prefix of the postings.
AllDelivered == <>(input = <<>> /\ delivered = whole)
=============================================================================
