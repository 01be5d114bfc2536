--------------------------- MODULE CandidateQueue ---------------------------
(***************************************************************************)
(* The execution of one search by its host's threads                       *)
(* (src/src/search_core.cpp): fetch workers decode the admitted segments   *)
(* and hand out their candidates through a shared queue, then they and the *)
(* scan workers share out the rows past the high-water mark and the        *)
(* transaction's own.                                                      *)
(*                                                                         *)
(* A step holds the queue's lock once or touches the worker's own state.   *)
(* A wait on `published` is timed (1 ms) and is a stutter; the chunks of a *)
(* batch, which one thread emits in order, are one step.  A search without *)
(* a probe has MaxThreads = 0, Decoded = <<>> and Hwm = -1.                *)
(***************************************************************************)
EXTENDS CandidateBatches, Ordered, SequencesExt

CONSTANTS Workers,        \* the host's threads
          MaxThreads,     \* plan.max_threads, the fetch workers
          Decoded,        \* the candidates of each admitted segment, ascending
          Hwm,            \* the index's high-water mark
          TailEnd,        \* the table's next rowid
          TailUnitRows,   \* rows of a row group
          Matches,        \* the visible rows that match, local ones included
          PeakWorker,     \* peak_worker_bytes
          PeakCandidates  \* peak_candidate_bytes

\* The candidates of a segment are distinct, ascending and of one rowid segment,
\* those of a later one of a higher one.  They cover the matches up to the mark,
\* which is what RowIdGuard shows of an index a search uses.  The table's next
\* rowid may be at or below the mark, once a checkpoint handed back the deleted
\* row groups at its end; no row lies between the two, the local ones have
\* rowids past every committed one.
ASSUME SearchInputs ==
    /\ MaxThreads \in Nat /\ Hwm \in Int /\ Hwm >= -1 /\ TailEnd \in Nat
    /\ TailUnitRows \in Nat \ {0} /\ Matches \subseteq Nat /\ Matches \cap (TailEnd .. Hwm) = {}
    /\ Decoded \in Seq(Seq(0 .. Hwm)) /\ (Decoded # <<>> => MaxThreads > 0)
    /\ \A s \in DOMAIN Decoded : \A i, k \in DOMAIN Decoded[s] : i < k =>
         /\ Decoded[s][i] < Decoded[s][k]
         /\ SegmentOf(Decoded[s][i]) = SegmentOf(Decoded[s][k])
    /\ \A s, t \in DOMAIN Decoded : s < t =>
         \A r \in Range(Decoded[s]), q \in Range(Decoded[t]) : SegmentOf(r) < SegmentOf(q)
    /\ Matches \cap (0 .. Hwm) \subseteq UNION {Range(Decoded[s]) : s \in DOMAIN Decoded}
    /\ PeakWorker \in Nat /\ PeakCandidates \in 0 .. PeakWorker

Segments == Len(Decoded)
Ordinal == 0 .. Segments - 1
Candidates(ordinal) == Decoded[ordinal + 1]
None == -1

VARIABLES ready,              \* published segments with batches left: [ordinal, next]
          pending,            \* ordinals decoded, waiting for a lower one
          next_publish,       \* the ordinal that publishes next
          decoding,           \* segments being decoded
          failed,             \* a decode threw
          next_segment,       \* the next segment to decode
          next_probe_thread,  \* workers that started
          next_tail_unit,     \* the next tail unit to scan
          worker,             \* each worker's SearchCoreLocal
          output              \* the rows emitted under each batch index, per batch

queue == <<ready, pending, next_publish, decoding, failed, next_segment>>
vars == <<queue, next_probe_thread, next_tail_unit, worker, output>>

Running == {"fetch", "claim", "decode", "scan", "unit"}
Stopped == {"done", "thrown", "left"}

\* FinalizeSearchCore.
TailStart == Hwm + 1

\* Faulty: rounded down, the rows of a partial last unit are in none.
WholeUnits ==
    IF TailStart < TailEnd THEN (TailEnd - TailStart) \div TailUnitRows ELSE 0

TailUnits ==
    IF TailStart < TailEnd THEN (TailEnd - TailStart + TailUnitRows - 1) \div TailUnitRows ELSE 0
FetchBatchBase == Segments * FETCH_BATCHES_PER_SEGMENT

Index == 0 .. FetchBatchBase + TailUnits

Init ==
    /\ ready = <<>> /\ pending = {} /\ next_publish = 0 /\ decoding = 0 /\ failed = FALSE
    /\ next_segment = 0 /\ next_probe_thread = 0 /\ next_tail_unit = 0
    /\ worker = [w \in Workers |-> [phase |-> "init", ordinal |-> None, from |-> 0, to |-> 0,
                                    index |-> None]]
    /\ output = [i \in Index |-> <<>>]
-----------------------------------------------------------------------------
\* InitializeSearchCoreLocal: the first max_threads workers fetch.
Start(w) ==
    /\ worker[w].phase = "init"
    /\ next_probe_thread' = next_probe_thread + 1
    /\ worker' = [worker EXCEPT ![w].phase =
                    IF next_probe_thread < MaxThreads THEN "claim" ELSE "scan"]
    /\ UNCHANGED <<queue, next_tail_unit, output>>

\* ClaimCandidateBatch: the next batch of the oldest published segment.
ClaimReady(w) ==
    /\ worker[w].phase = "claim"
    /\ ready # <<>>
    /\ LET front == Head(ready)
           end   == BatchEnd(Candidates(front.ordinal), front.next)
       IN  /\ ready' = IF end >= Len(Candidates(front.ordinal)) THEN Tail(ready)
                       ELSE [ready EXCEPT ![1].next = end]
           /\ worker' = [worker EXCEPT ![w] =
                [phase |-> "fetch", ordinal |-> front.ordinal, from |-> front.next, to |-> end,
                 index |-> BatchIndex(front.ordinal, front.next)]]
    /\ UNCHANGED <<pending, next_publish, decoding, failed, next_segment,
                   next_probe_thread, next_tail_unit, output>>

\* Faulty: decoded segments that wait for a lower ordinal are not counted.
DecodingAlone == decoding

InFlight == decoding + Cardinality(pending)
Unclaimed == next_segment < Segments

\* EXHAUSTED: the worker goes on to the tail.
Exhausted(w) ==
    /\ worker[w].phase = "claim"
    /\ ready = <<>>
    /\ failed \/ (InFlight = 0 /\ ~Unclaimed)
    /\ worker' = [worker EXCEPT ![w].phase = "scan"]
    /\ UNCHANGED <<queue, next_probe_thread, next_tail_unit, output>>

\* Claim the next admitted segment for decoding.
ClaimSegment(w) ==
    /\ worker[w].phase = "claim"
    /\ ready = <<>>
    /\ ~failed /\ Unclaimed /\ InFlight < MaxThreads
    /\ next_segment' = next_segment + 1
    /\ decoding' = decoding + 1
    /\ worker' = [worker EXCEPT ![w].phase = "decode", ![w].ordinal = next_segment]
    /\ UNCHANGED <<ready, pending, next_publish, failed, next_probe_thread, next_tail_unit, output>>

\* The published entries of these ordinals, which have candidates, in order.
Published(first, end) ==
    LET ordinals == Ascending({o \in first .. end - 1 : Candidates(o) # <<>>})
    IN  [k \in DOMAIN ordinals |-> [ordinal |-> ordinals[k], next |-> 0]]

\* Faulty: every decoded segment publishes at once, in the order of decoding.
PublishAsDecoded(decoded) ==
    /\ ready' = ready \o FoldSet(LAMBDA o, entries : Published(o, o + 1) \o entries, <<>>, decoded)
    /\ pending' = {}
    /\ next_publish' = Segments

\* PublishInOrder: every decoded segment that is next in ordinal order.
PublishInOrder(decoded) ==
    LET end == CHOOSE n \in next_publish .. Segments :
                  n \notin decoded /\ next_publish .. n - 1 \subseteq decoded
    IN  /\ ready' = ready \o Published(next_publish, end)
        /\ pending' = decoded \ (next_publish .. end - 1)
        /\ next_publish' = end

\* A segment is decoded: it is pending and what is next publishes.
DecodeSegment(w) ==
    /\ worker[w].phase = "decode"
    /\ decoding' = decoding - 1
    /\ PublishInOrder(pending \union {worker[w].ordinal})
    /\ worker' = [worker EXCEPT ![w].phase = "claim", ![w].ordinal = None]
    /\ UNCHANGED <<failed, next_segment, next_probe_thread, next_tail_unit, output>>

\* The worker's error propagates; its scratch stays charged.
Thrown(w) == worker' = [worker EXCEPT ![w].phase = "thrown"]

\* Faulty: the other workers are not told.
DecodeFailsAlone(w) ==
    /\ worker[w].phase = "decode"
    /\ decoding' = decoding - 1
    /\ Thrown(w)
    /\ UNCHANGED <<ready, pending, next_publish, failed, next_segment, next_probe_thread,
                   next_tail_unit, output>>

\* A decode throws: out of memory, an interrupt, a malformed posting.
DecodeFails(w) ==
    /\ worker[w].phase = "decode"
    /\ decoding' = decoding - 1
    /\ failed' = TRUE
    /\ Thrown(w)
    /\ UNCHANGED <<ready, pending, next_publish, next_segment, next_probe_thread,
                   next_tail_unit, output>>

\* The rows of a batch: its matching candidates, or what a range scan bounded
\* to its first and last candidate produces.
BatchRows(ordinal, from, to) ==
    LET rowids == Candidates(ordinal)
    IN  IF IsRangeScan(rowids, from) THEN Matches \cap (rowids[from + 1] .. rowids[to])
        ELSE Matches \cap {rowids[k] : k \in from + 1 .. to}

Emitted(index, rows) == output' = [output EXCEPT ![index] = Append(@, rows)]

\* ExecuteSearchCore: the batch is read to its end and released.
FinishBatch(w) ==
    /\ worker[w].phase = "fetch"
    /\ Emitted(worker[w].index, BatchRows(worker[w].ordinal, worker[w].from, worker[w].to))
    /\ worker' = [worker EXCEPT ![w] = [@ EXCEPT !.phase = "claim", !.ordinal = None,
                                                 !.from = 0, !.to = 0]]
    /\ UNCHANGED <<queue, next_probe_thread, next_tail_unit>>

\* StartTailUnit: unit tail_units is the transaction's local storage.
StartTailUnit(w) ==
    /\ worker[w].phase = "scan"
    /\ next_tail_unit' = next_tail_unit + 1
    /\ worker' = IF next_tail_unit > TailUnits THEN [worker EXCEPT ![w].phase = "done"]
                 ELSE [worker EXCEPT ![w].phase = "unit",
                                     ![w].index = FetchBatchBase + next_tail_unit]
    /\ UNCHANGED <<queue, next_probe_thread, output>>

UnitRows(unit) ==
    IF unit = TailUnits THEN {r \in Matches : r >= TailEnd}
    ELSE Matches \cap (TailStart + unit * TailUnitRows
                       .. Smaller(TailStart + (unit + 1) * TailUnitRows, TailEnd) - 1)

FinishUnit(w) ==
    /\ worker[w].phase = "unit"
    /\ Emitted(worker[w].index, UnitRows(worker[w].index - FetchBatchBase))
    /\ worker' = [worker EXCEPT ![w].phase = "scan"]
    /\ UNCHANGED <<queue, next_probe_thread, next_tail_unit>>

\* ThrowIfInterrupted, at the head of ClaimCandidateBatch.
Interrupted(w) ==
    /\ worker[w].phase = "claim"
    /\ Thrown(w)
    /\ UNCHANGED <<queue, next_probe_thread, next_tail_unit, output>>

\* The host stops calling a worker, or never starts it: a LIMIT is met, the
\* query fails elsewhere.  Between two calls a worker is not decoding.
Abandon(w) ==
    /\ worker[w].phase \in {"init"} \union (Running \ {"decode"})
    /\ worker' = [worker EXCEPT ![w].phase = "left"]
    /\ UNCHANGED <<queue, next_probe_thread, next_tail_unit, output>>

Step(w) ==
    \/ Start(w) \/ ClaimReady(w) \/ Exhausted(w) \/ ClaimSegment(w) \/ DecodeSegment(w)
    \/ FinishBatch(w) \/ StartTailUnit(w) \/ FinishUnit(w)

Next == \E w \in Workers : Step(w) \/ DecodeFails(w) \/ Interrupted(w) \/ Abandon(w)

Spec == Init /\ [][Next]_vars

\* The host calls each worker until it is done; a wait lasts 1 ms at most.
Fairness == \A w \in Workers : WF_vars(Step(w))
FairSpec == Spec /\ Fairness
-----------------------------------------------------------------------------
\* The candidate vectors alive: pending, published, or held by a worker.
Alive ==
    pending \union {ready[k].ordinal : k \in DOMAIN ready}
            \union {worker[w].ordinal : w \in {v \in Workers : worker[v].from < worker[v].to}}

\* Workers whose decode scratch is charged.
Charged == {w \in Workers : \/ worker[w].phase = "decode"
                            \/ worker[w].phase = "thrown" /\ worker[w].ordinal # None}

\* PlanIndexProbe: what the plan reserves for its workers.
Workspace ==
    IF MaxThreads <= 1 THEN PeakWorker
    ELSE PeakWorker * MaxThreads + PeakCandidates * (MaxThreads - 2)

\* The decode scratch and candidate vectors alive never exceed the workspace
\* the plan reserved, whoever decodes, waits, holds a batch or was abandoned
\* holding one (probe.cpp:551-580, the assertion at search_core.cpp:564).
WithinWorkspace ==
    PeakWorker * Cardinality(Charged) + PeakCandidates * Cardinality(Alive) <= Workspace

\* Every batch or tail unit a worker takes has a higher batch index than the
\* one before, which the host requires of a pipeline thread (search_core.hpp,
\* CandidateQueue).
BatchOrder ==
    [][\A w \in Workers : worker'[w].phase \in {"fetch", "unit"} /\ worker'[w] # worker[w]
         => worker'[w].index > worker[w].index]_vars

\* The storage vectors a worker's batch lies in.
BatchBlocks(w) ==
    {Block(Candidates(worker[w].ordinal)[k]) : k \in worker[w].from + 1 .. worker[w].to}

\* A worker's range scan reads no vector that another worker's batch
\* decompresses at the same time (search_core.cpp:334-339).
VectorsReadOnce ==
    \A v, w \in {x \in Workers : worker[x].phase = "fetch"} :
        v # w /\ IsRangeScan(Candidates(worker[v].ordinal), worker[v].from)
        => BatchBlocks(v) \cap BatchBlocks(w) = {}

Finished == \A w \in Workers : worker[w].phase \in Stopped

\* The search ran to its end: no worker failed or was cut off after it started.
Complete ==
    /\ Finished
    /\ \E w \in Workers : worker[w].phase = "done"
    /\ Cardinality({w \in Workers : worker[w].phase = "done"}) = next_probe_thread

\* The batches put in the order of their indexes are the rows in rowid order,
\* each once; and all the matching rows, when the search ran to its end.
OrderRestored ==
    /\ \A i \in Index : Len(output[i]) <= 1
    /\ \A i, j \in Index : i < j =>
         \A r \in UNION Range(output[i]), s \in UNION Range(output[j]) : r < s
    /\ Complete => UNION {UNION Range(output[i]) : i \in Index} = Matches

\* Every worker stops, whichever decode throws and whichever worker the host
\* abandons: none waits for a segment that nobody will publish.
AllStop == <>Finished
=============================================================================
