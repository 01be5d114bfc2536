----------------------------- MODULE IndexProbe -----------------------------
(***************************************************************************)
(* One search's use of its index (src/src/probe.cpp): manifest workers     *)
(* read the segments-table rows of every needle key, the planner keeps the *)
(* rarest keys, admits rowid segments or declines, and the admitted        *)
(* segments are decoded and intersected.                                   *)
(*                                                                         *)
(* The index is any legal one: each indexed row holds a set of the needle's*)
(* keys, and one or two refreshes posted the rows in rowid order, each as  *)
(* a run ordered by key and segment; the second may be the transaction's   *)
(* own and not yet committed.  Memory is counted in rowids.                *)
(***************************************************************************)
EXTENDS ProbeAdmission

CONSTANTS Keys,                   \* the needle's keys; their order is the needle's
          Postings,               \* the indexes: functions from 0 .. hwm to sets of keys
          Boundaries,             \* where the second refresh may start
          ColumnRows,             \* rows of a segment of the key column
          Budgets,                \* ngram's query memory budget
          Workers,                \* the scheduler's threads
          MAX_GRAMS,
          STANDARD_VECTOR_SIZE,
          ROW_GROUP_ROWS,         \* rows of a row group, a multiple of a vector
          PREFLIGHT_FIXED,        \* memory before a segments-table row is read:
          PREFLIGHT_PER_KEY,      \*   fixed, per key of the needle
          PREFLIGHT_PER_WORKER,   \*   and per manifest worker
          MANIFEST_PER_ROW,       \* memory of a descriptor
          HardWorkLimit,          \* MaxProbeRowids
          CandidatePercent,       \* candidate_fraction; negative disables the gate
          ExtraColumns            \* columns fetched beyond the recheck's

ASSUME ProbeConstants ==
    /\ IsFiniteSet(Keys) /\ Keys \subseteq Int /\ Keys # {}
    /\ \A p \in Postings : /\ IsFiniteSet(DOMAIN p)
                           /\ p \in [0 .. Cardinality(DOMAIN p) - 1 -> SUBSET Keys]
    /\ Boundaries \subseteq Int /\ Budgets \subseteq Nat /\ ColumnRows \subseteq Nat \ {0}
    /\ IsFiniteSet(Workers) /\ Workers # {}
    /\ MAX_GRAMS \in Nat \ {0}
    /\ STANDARD_VECTOR_SIZE \in Nat \ {0} /\ ROW_GROUP_ROWS \in Nat \ {0}
    /\ ROW_GROUP_ROWS % STANDARD_VECTOR_SIZE = 0
    /\ PREFLIGHT_FIXED \in Nat /\ PREFLIGHT_PER_KEY \in Nat
    /\ PREFLIGHT_PER_WORKER \in Nat \ {0} /\ MANIFEST_PER_ROW \in Nat \ {0}
    /\ CandidatePercent \in Int /\ HardWorkLimit \in Nat /\ ExtraColumns \in Nat

VARIABLES index,        \* the index and the budget of this search
          cursor,       \* the next key to read
          worker,       \* each manifest worker's scan
          total_rows,   \* descriptors counted so far
          declined,     \* the manifest outgrew its budget
          reservation,  \* the plan's memory_reservation
          per_key,      \* the descriptors read of each key
          plan,         \* the admitted plan
          scratch,      \* the decoding thread's buffers
          found,        \* the candidates handed out
          outcome       \* of the search: planning, probing, declined, done or malformed

manifest == <<cursor, worker, total_rows, declined, per_key>>
vars == <<index, manifest, reservation, plan, scratch, found, outcome>>

Hwm == Cardinality(DOMAIN index.postings) - 1
-----------------------------------------------------------------------------
\* A refresh's run over some rowids: a row per key and segment, in that order.
Run(postings, rowids) ==
    LET rows == {[segment |-> r \div SEGMENT_ROWS, key |-> k,
                  rowids |-> {q \in rowids : k \in postings[q] /\
                                q \div SEGMENT_ROWS = r \div SEGMENT_ROWS}] :
                    r \in rowids, k \in Keys}
        posted == {row \in rows : row.rowids # {}}
    IN  Sorted(posted, {p \in posted \X posted :
            p[1].key < p[2].key \/ (p[1].key = p[2].key /\ p[1].segment < p[2].segment)})

\* The index whose second refresh starts at `boundary`: its segments table, the
\* first `committed` rows of which are not this transaction's own.
Index(postings, boundary, local, columnRows, budget) ==
    LET first  == Run(postings, {r \in DOMAIN postings : r < boundary})
        second == Run(postings, {r \in DOMAIN postings : r >= boundary})
    IN  [postings |-> postings, columnRows |-> columnRows, budget |-> budget,
         table |-> first \o second,
         committed |-> IF local THEN Len(first) ELSE Len(first) + Len(second)]

SegmentsTable == index.table
Committed == index.committed

\* The column segments of the key: fixed runs of rows within a row group, as
\* [start, end) row numbers.
ColumnSegments ==
    LET starts == {n \in 0 .. Committed - 1 : (n % ROW_GROUP_ROWS) % index.columnRows = 0}
        order  == Ascending(starts)
        end(n) == Min({n + index.columnRows, Committed,
                       (n \div ROW_GROUP_ROWS + 1) * ROW_GROUP_ROWS})
    IN  [i \in DOMAIN order |-> [start |-> order[i], end |-> end(order[i])]]

\* CheckZonemap: the segment's least and greatest key admit `key`.
ZonemapAdmits(segment, key) ==
    /\ \E n \in segment.start + 1 .. segment.end : SegmentsTable[n].key <= key
    /\ \E n \in segment.start + 1 .. segment.end : SegmentsTable[n].key >= key

\* Faulty: a span that reaches into the next one stays apart from it.
AppendSpan(spans, span) == Append(spans, span)

\* A span that meets the last one is merged with it.
AddSpan(spans, span) ==
    IF spans # <<>> /\ Last(spans).end >= span.start
    THEN [spans EXCEPT ![Len(spans)].end = Max({@, span.end})]
    ELSE Append(spans, span)

\* AdmittedKeySpans: the admitted segments, widened to whole vectors within
\* their row group.
AdmittedKeySpans(key) ==
    LET aligned(segment) ==
            [start |-> segment.start - (segment.start % STANDARD_VECTOR_SIZE),
             end   |-> Min({Ceiling(segment.end, STANDARD_VECTOR_SIZE) * STANDARD_VECTOR_SIZE,
                            (segment.start \div ROW_GROUP_ROWS + 1) * ROW_GROUP_ROWS,
                            Committed})]
        segments == ColumnSegments
        spans[i \in 0 .. Len(segments)] ==
            IF i = 0 THEN <<>>
            ELSE IF ZonemapAdmits(segments[i], key) THEN AddSpan(spans[i - 1], aligned(segments[i]))
            ELSE spans[i - 1]
    IN  spans[Len(segments)]

\* The rows of `key` in [from, to).
Hits(from, to, key) == {n \in from .. to - 1 : SegmentsTable[n + 1].key = key}

\* The scans of one key: its bounded scans, then that of the local rows.
KeyScans(key) ==
    LET spans == AdmittedKeySpans(key)
    IN  Append([i \in DOMAIN spans |-> Hits(spans[i].start, spans[i].end, key)],
               Hits(Committed, Len(SegmentsTable), key))

\* The vector a row lies in, in the table or among the local rows.
Vector(n) == IF n < Committed THEN n \div STANDARD_VECTOR_SIZE
                              ELSE (n - Committed) \div STANDARD_VECTOR_SIZE
-----------------------------------------------------------------------------
KeyBytes == PREFLIGHT_FIXED + Cardinality(Keys) * PREFLIGHT_PER_KEY

\* Manifest workers: one at least, as many as the budget leaves room for.
ManifestWorkers ==
    Min({Cardinality(Workers), Cardinality(Keys), (index.budget - KeyBytes) \div PREFLIGHT_PER_WORKER})

Preflight == KeyBytes + ManifestWorkers * PREFLIGHT_PER_WORKER
MaxManifestRows == (index.budget - Preflight) \div MANIFEST_PER_ROW

NoPlan == [keys |-> <<>>, rows |-> {}, segments |-> <<>>, worker |-> 0, candidate |-> 0,
           bound |-> 0, threads |-> 0]
NoScratch == [next |-> 1, position |-> 0, rowids |-> {}, candidates |-> 0, postings |-> 0,
              intersection |-> 0]

\* A worker between its units; in one, it has rows left of the scan under way
\* and further scans to do.
Idle == [at |-> "idle", key |-> 0, scans |-> <<>>, left |-> {}]

Init ==
    /\ \E p \in Postings, b \in Boundaries, local \in BOOLEAN, n \in ColumnRows, m \in Budgets :
           index = Index(p, b, local, n, m)
    /\ cursor = 0 /\ total_rows = 0 /\ declined = FALSE /\ reservation = 0
    /\ worker = [w \in Workers |-> Idle]
    /\ per_key = [k \in Keys |-> {}]
    /\ plan = NoPlan /\ scratch = NoScratch /\ found = {} /\ outcome = "preflight"

\* PlanIndexProbe up to the scans.
Reserve ==
    /\ outcome = "preflight"
    /\ IF KeyBytes + PREFLIGHT_PER_WORKER > index.budget
       THEN outcome' = "declined" /\ UNCHANGED <<reservation, worker>>
       ELSE /\ outcome' = "planning"
            /\ reservation' = Preflight
            /\ \E team \in SUBSET Workers :
                  /\ Cardinality(team) = ManifestWorkers
                  /\ worker' = [w \in Workers |-> IF w \in team THEN [Idle EXCEPT !.at = "scan"] ELSE Idle]
    /\ UNCHANGED <<index, cursor, total_rows, declined, per_key, plan, scratch, found>>

\* A unit ends when its rows are read, or where it sees that the plan declined:
\* before each scan, and before each chunk of the local rows, the last scan.
UnitEnds(w) ==
    \/ worker[w].left = {} /\ (worker[w].scans = <<>> \/ declined)
    \/ worker[w].scans = <<>> /\ declined

\* ParallelForEachUnit: the next key, or the end of the worker's task.
ClaimKey(w) ==
    /\ worker[w].at = "scan" /\ UnitEnds(w)
    /\ IF cursor < Cardinality(Keys)
       THEN LET key == Ascending(Keys)[cursor + 1]
            IN  worker' = [worker EXCEPT ![w] =
                             [at |-> "scan", key |-> key, scans |-> KeyScans(key), left |-> {}]]
       ELSE worker' = [worker EXCEPT ![w] = Idle]
    /\ cursor' = cursor + 1
    /\ UNCHANGED <<index, total_rows, declined, per_key, reservation, plan, scratch, found, outcome>>

\* The next scan of the unit; a chunk without rows of the key is skipped.
BeginScan(w) ==
    /\ worker[w].at = "scan" /\ ~UnitEnds(w) /\ worker[w].left = {}
    /\ worker' = [worker EXCEPT ![w].left = Head(worker[w].scans), ![w].scans = Tail(@)]
    /\ UNCHANGED <<index, cursor, total_rows, declined, per_key, reservation, plan, scratch, found, outcome>>

\* The chunk a scan returns: the rows of the key in the next vector.
Chunk(w) == {n \in worker[w].left : Vector(n) = Vector(Min(worker[w].left))}

\* Faulty: the rows already counted are compared, not those with this chunk.
CountedFits(total, rows) == total <= MaxManifestRows

ManifestFits(total, rows) == total + rows <= MaxManifestRows

\* consume, first step: count the chunk, and decline past the budget.
CountChunk(w) ==
    /\ worker[w].at = "scan" /\ ~UnitEnds(w) /\ worker[w].left # {}
    /\ LET rows == Cardinality(Chunk(w))
       IN  /\ total_rows' = total_rows + rows
           /\ IF ManifestFits(total_rows, rows)
              THEN worker' = [worker EXCEPT ![w].at = "charge"] /\ UNCHANGED declined
              ELSE /\ declined' = TRUE
                   /\ worker' = [worker EXCEPT ![w].left = {}, ![w].scans = <<>>]
    /\ UNCHANGED <<index, cursor, per_key, reservation, plan, scratch, found, outcome>>

Descriptor(n) ==
    LET row == SegmentsTable[n + 1]
    IN  [segment |-> row.segment, key |-> row.key, at |-> n, count |-> Cardinality(row.rowids),
         low |-> Min(row.rowids), high |-> Max(row.rowids)]

\* consume, second step: charge the rows and append their descriptors.
AppendChunk(w) ==
    /\ worker[w].at = "charge"
    /\ LET rows == Chunk(w)
           key  == worker[w].key
           read == {d.at : d \in per_key[key]}
       IN  /\ reservation' = reservation + Cardinality(rows) * MANIFEST_PER_ROW
           /\ per_key' = [per_key EXCEPT ![key] = @ \union {Descriptor(n) : n \in rows}]
           \* A row read twice doubles its postings, which admission or decode
           \* reports as a malformed index.
           /\ outcome' = IF rows \intersect read = {} THEN outcome ELSE "malformed"
           /\ worker' = [worker EXCEPT ![w].at = "scan", ![w].left = @ \ rows]
    /\ UNCHANGED <<index, cursor, total_rows, declined, plan, scratch, found>>

ScansOver == cursor > 0 /\ \A w \in Workers : worker[w].at = "idle"
-----------------------------------------------------------------------------
Total(key) == SumOf(per_key[key], LAMBDA d : d.count)
Selected == RarestKeys([k \in Keys |-> Total(k)], MAX_GRAMS)
Manifest == UNION {per_key[k] : k \in Range(Selected)}
Reserved == Preflight + Cardinality(Manifest) * MANIFEST_PER_ROW

\* The plan's segments in rowid order.
Admitted == {s \in {d.segment : d \in Manifest} : Admits(Manifest, s, Selected)}
AdmittedSegments == Ascending(Admitted)

PeakOver(Op(_)) == Max({0} \union {Op(s) : s \in Admitted})

DecodedRows ==
    SumOf(Admitted, LAMBDA s : SumOf(DOMAIN Selected, LAMBDA g : PostingCount(Manifest, s, Selected[g])))
UpperBound == SumOf(Admitted, LAMBDA s : CandidateBound(Manifest, s, Selected, Hwm))
PeakWorker ==
    PeakOver(LAMBDA s : SegmentWorkerBytes(Counts(Manifest, s, Selected), SegmentCapacity(s, Hwm)))
PeakCandidates == PeakOver(LAMBDA s : CandidateRows(Manifest, s, Selected, Hwm))

\* The candidate fraction, each extra column counted as one more fetch.
FractionExceeded ==
    /\ CandidatePercent >= 0
    /\ 100 * (1 + ExtraColumns) * SumOf(Admitted, LAMBDA s : AdmissionRows(Manifest, s, Selected, Hwm))
         > CandidatePercent * (Hwm + 1)

Declines ==
    \/ declined
    \/ DecodedRows > HardWorkLimit
    \/ FractionExceeded
    \/ AdmittedSegments # <<>> /\ PeakWorker > index.budget - Reserved

\* SelectRarestGrams, AdmitSegments and the gates, on one thread.
Admit ==
    /\ outcome = "planning" /\ ScansOver
    /\ LET available == index.budget - Reserved
           threads == IF AdmittedSegments = <<>> THEN 0
                      ELSE MaxThreads(available, PeakWorker, PeakCandidates, Len(AdmittedSegments),
                                      UpperBound, Cardinality(Workers))
       IN  IF Declines
           THEN /\ outcome' = "declined"
                /\ reservation' = IF declined THEN reservation ELSE Reserved
                /\ UNCHANGED plan
           ELSE /\ outcome' = "probing"
                /\ plan' = [keys |-> Selected, rows |-> Manifest, segments |-> AdmittedSegments,
                            worker |-> PeakWorker, candidate |-> PeakCandidates,
                            bound |-> UpperBound, threads |-> threads]
                /\ reservation' = Reserved +
                     (IF threads = 0 THEN 0 ELSE Workspace(threads, PeakWorker, PeakCandidates))
    /\ UNCHANGED <<index, manifest, scratch, found>>
-----------------------------------------------------------------------------
\* DecodeDescriptorRange: the rows of one key in one segment, over every refresh.
Decoded(segment, key) ==
    UNION {SegmentsTable[d.at + 1].rowids : d \in Of(plan.rows, segment, key)}

Segment == plan.segments[scratch.next]
Order == GramOrder(plan.rows, Segment, plan.keys)

\* DecodeCandidateSegment: the first posting list is the candidates.
DecodeFirst ==
    /\ outcome = "probing" /\ scratch.position = 0 /\ scratch.next <= Len(plan.segments)
    /\ scratch' = [scratch EXCEPT !.position = 1,
                                  !.rowids = Decoded(Segment, Order[1]),
                                  !.candidates = PostingCount(plan.rows, Segment, Order[1])]
    /\ UNCHANGED <<index, manifest, reservation, plan, found, outcome>>

MoreLists == scratch.position \in 1 .. Len(plan.keys) - 1 /\ scratch.rowids # {}

\* The next posting list and room for its intersection.
DecodeNext ==
    /\ outcome = "probing" /\ MoreLists /\ scratch.intersection = 0
    /\ LET key == Order[scratch.position + 1]
           postings == PostingCount(plan.rows, Segment, key)
       IN  scratch' = [scratch EXCEPT !.postings = postings,
                                      !.intersection = Min({Cardinality(scratch.rowids), postings})]
    /\ UNCHANGED <<index, manifest, reservation, plan, found, outcome>>

\* The intersection becomes the candidates; the buffer they had is released.
Intersect ==
    /\ outcome = "probing" /\ MoreLists /\ scratch.intersection > 0
    /\ scratch' = [scratch EXCEPT !.rowids = @ \intersect Decoded(Segment, Order[scratch.position + 1]),
                                  !.candidates = scratch.intersection,
                                  !.intersection = 0,
                                  !.position = @ + 1]
    /\ UNCHANGED <<index, manifest, reservation, plan, found, outcome>>

\* NextCandidateSegment: the candidates are handed out.
Deliver ==
    /\ outcome = "probing" /\ scratch.position > 0 /\ ~MoreLists
    /\ found' = found \union scratch.rowids
    /\ scratch' = [scratch EXCEPT !.next = @ + 1, !.position = 0, !.postings = 0]
    /\ UNCHANGED <<index, manifest, reservation, plan, outcome>>

Exhaust ==
    /\ outcome = "probing" /\ scratch.next > Len(plan.segments)
    /\ outcome' = "done"
    /\ UNCHANGED <<index, manifest, reservation, plan, scratch, found>>

Next ==
    \/ Reserve \/ Admit
    \/ \E w \in Workers : ClaimKey(w) \/ BeginScan(w) \/ CountChunk(w) \/ AppendChunk(w)
    \/ DecodeFirst \/ DecodeNext \/ Intersect \/ Deliver \/ Exhaust

Spec == Init /\ [][Next]_vars
-----------------------------------------------------------------------------
\* A probe hands out exactly the rows that hold every selected key, whatever
\* the layout of the segments table, its refreshes, the order the workers read
\* it in and the segments left out for a missing key or for spans that do not
\* meet: a search that rechecks them loses no row.
CandidatesExact ==
    outcome = "done" =>
        found = {r \in 0 .. Hwm : Range(plan.keys) \subseteq index.postings[r]}

\* No legal index is reported malformed: the scans of a key, cut where column
\* segments and vectors overlap, read each of its rows once.
NeverMalformed == outcome # "malformed"

\* The query memory budget holds at every moment: while workers count and
\* charge descriptors at the same time, when the planner returns what it did
\* not select, and after it reserved the workspace.
WithinBudget == reservation <= index.budget

\* What the plan charged covers what the decoding takes: the buffers of a
\* thread at every step, although the plan ordered the keys otherwise, the
\* capacity that a vector keeps once it is handed on, and the candidates of all
\* segments together, which the admission gate was given as a bound.
ReservationCovers ==
    /\ outcome = "probing" =>
         /\ scratch.candidates + scratch.postings + scratch.intersection + SCRATCH
               <= Max({plan.worker, SCRATCH})
         /\ scratch.position > 0 /\ ~MoreLists => scratch.candidates <= plan.candidate
    /\ outcome \in {"probing", "done"} => Cardinality(found) <= plan.bound
=============================================================================
