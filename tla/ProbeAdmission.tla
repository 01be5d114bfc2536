--------------------------- MODULE ProbeAdmission ---------------------------
(***************************************************************************)
(* The arithmetic of the probe planner (src/src/probe.cpp): which keys it  *)
(* keeps, which rowid segments it admits, in which order their posting     *)
(* lists are intersected, and the memory it models.  A descriptor is one   *)
(* segments-table row: [segment, key, at, count, low, high].               *)
(***************************************************************************)
EXTENDS Ordered, SequencesExt

CONSTANTS SEGMENT_ROWS,           \* 1 << SEGMENT_SHIFT
          RANGE_ROWS_PER_FETCH,   \* span rows read for the cost of one fetch
          FETCH_BATCH_ROWS,       \* candidates of a fetch batch
          SCRATCH                 \* fetch scratch of a decoding worker, in rowids

ASSUME AdmissionConstants ==
    /\ SEGMENT_ROWS \in Nat \ {0}
    /\ RANGE_ROWS_PER_FETCH \in Nat \ {0}
    /\ FETCH_BATCH_ROWS \in Nat \ {0}
    /\ SCRATCH \in Nat \ {0}

\* S in the order of a strict total order, given as a set of pairs.
Sorted(S, before) ==
    [i \in 1 .. Cardinality(S) |->
        CHOOSE x \in S : Cardinality({y \in S : <<y, x>> \in before}) = i - 1]

\* The sum of some counts: the number of pairs of an element and a unit of its count.
SumOf(S, Count(_)) == Cardinality(UNION {{x} \X (1 .. Count(x)) : x \in S})

Ceiling(n, unit) == (n + unit - 1) \div unit

\* Sorting the places of `count`: the least count first, stable.
LeastFirst(count) ==
    Sorted(DOMAIN count, {p \in (DOMAIN count) \X (DOMAIN count) :
        count[p[1]] < count[p[2]] \/ (count[p[1]] = count[p[2]] /\ p[1] < p[2])})

\* SelectRarestGrams: the max_grams keys with the fewest postings, the needle's
\* order on ties.
RarestKeys(total, max_grams) ==
    [i \in 1 .. Min({Cardinality(DOMAIN total), max_grams}) |-> LeastFirst(total)[i]]

Of(rows, segment, key) == {d \in rows : d.segment = segment /\ d.key = key}
PostingCount(rows, segment, key) == SumOf(Of(rows, segment, key), LAMBDA d : d.count)
SegmentCapacity(segment, hwm) == Min({SEGMENT_ROWS, hwm - segment * SEGMENT_ROWS + 1})

SpanLow(rows, segment, keys) == Max({Min({d.low : d \in Of(rows, segment, k)}) : k \in Range(keys)})
SpanHigh(rows, segment, keys) == Min({Max({d.high : d \in Of(rows, segment, k)}) : k \in Range(keys)})

CarriesAll(rows, segment, keys) == \A k \in Range(keys) : Of(rows, segment, k) # {}

\* Faulty: spans that share one row are taken for disjoint.
AdmitsWideSpans(rows, segment, keys) ==
    /\ CarriesAll(rows, segment, keys)
    /\ SpanLow(rows, segment, keys) < SpanHigh(rows, segment, keys)

Admits(rows, segment, keys) ==
    /\ CarriesAll(rows, segment, keys)
    /\ SpanLow(rows, segment, keys) <= SpanHigh(rows, segment, keys)

Counts(rows, segment, keys) == [g \in DOMAIN keys |-> PostingCount(rows, segment, keys[g])]

\* The gram order of a segment: smallest posting list first, stable.
GramOrder(rows, segment, keys) ==
    LET order == LeastFirst(Counts(rows, segment, keys))
    IN  [g \in DOMAIN order |-> keys[order[g]]]

VectorBound(rows, segment, keys, hwm) ==
    Min({SegmentCapacity(segment, hwm)} \union {PostingCount(rows, segment, k) : k \in Range(keys)})

CandidateBound(rows, segment, keys, hwm) ==
    Min({VectorBound(rows, segment, keys, hwm),
         SpanHigh(rows, segment, keys) - SpanLow(rows, segment, keys) + 1})

\* Faulty: a published vector is charged for the candidates it may hold, not
\* for the capacity it keeps.
PublishedBound(rows, segment, keys, hwm) == CandidateBound(rows, segment, keys, hwm)

\* peak_candidate_bytes: the capacity of the first intersection.
CandidateRows(rows, segment, keys, hwm) == VectorBound(rows, segment, keys, hwm)

AdmissionRows(rows, segment, keys, hwm) ==
    Min({CandidateBound(rows, segment, keys, hwm),
         Ceiling(SpanHigh(rows, segment, keys) - SpanLow(rows, segment, keys) + 1,
                 RANGE_ROWS_PER_FETCH)})

\* SegmentWorkerBytes, in the order of the plan's keys: at the worst step the
\* candidates, the next posting list and their intersection coexist.
SegmentWorkerBytes(counts, capacity) ==
    LET bound(g) == Min({capacity} \union {counts[i] : i \in 1 .. g})
    IN  Max({counts[1]} \union {bound(g - 1) + counts[g] + bound(g) : g \in 2 .. Len(counts)})
        + SCRATCH

PossibleWorkers(available, worker, candidate) ==
    (available + 2 * candidate) \div (worker + candidate)

\* max_threads: as many as the memory, the host and the fetch batches give.
MaxThreads(available, worker, candidate, segments, upper_bound, cap) ==
    Max({1, Min({Max({segments, Ceiling(upper_bound, FETCH_BATCH_ROWS)}), cap,
                 PossibleWorkers(available, worker, candidate)})})

\* workspace_bytes: a decode peak per worker, and the candidate vectors alive
\* beside them.
Workspace(threads, worker, candidate) ==
    worker * threads + candidate * Max({threads - 2, 0})
=============================================================================
