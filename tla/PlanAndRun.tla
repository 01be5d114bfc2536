----------------------------- MODULE PlanAndRun -----------------------------
(***************************************************************************)
(* A prepared statement from its plan to the end of a run                  *)
(* (src/src/rewrite.cpp, src/src/search_functions.cpp): the plan names an  *)
(* index, and by the time it runs the index may be refreshed, compacted,   *)
(* dropped or rebuilt with other options, and checkpoints may have moved   *)
(* the rows of the table and of the index's segments table.                *)
(*                                                                         *)
(* A statement is a rewritten scan, an ngram_search, or an ngram_candidates *)
(* whose caller joins the rowids with the table and covers the rows past   *)
(* the mark in the same statement.  Every committed item carries the       *)
(* commits that made and removed it; a snapshot is a number of commits.    *)
(* A table's rowids are the places of its sequence.  The guard is present  *)
(* or not, under its token; what it observes is RowIdGuard's subject.      *)
(***************************************************************************)
EXTENDS Integers, FiniteSets, Sequences, Ordered

CONSTANTS Rows,       \* rows the table may hold, each with one text
          Present,    \* the rows it holds at first, in order
          MaxCommit   \* bound: commits of a behaviour

ASSUME PlanInputs == Present \in Seq(Rows) /\ MaxCommit \in Nat

\* A text holds the needle's bytes, only its folded form, or neither.
Texts == {"exact", "folded", "other"}
Forever == MaxCommit + 1
None == 0

VARIABLES text,      \* each row's text
          base,      \* the table: [row, from, to] at each rowid
          guard,     \* the token of the guard on the table, or None
          registry,  \* the registry rows: [ref, ci, hwm, from, to]
          segments,  \* per index_ref, its segments table: [rowids, from, to] at each place
          clock,     \* commits so far
          lock,      \* the statement holds the shared vacuum lock
          stmt       \* the statement

host == <<text, base, guard, registry, segments, clock>>
vars == <<host, lock, stmt>>

Visible(item, snapshot) == item.from <= snapshot /\ snapshot < item.to
Places(table, snapshot) == {n \in DOMAIN table : Visible(table[n], snapshot)}

\* The row an index records for a lookup, as a set of at most one.
Recorded(ref, snapshot) == {row \in registry : row.ref = ref /\ Visible(row, snapshot)}
Current == {row \in registry : Visible(row, clock)}

Holds(row, ci) == text[row] = "exact" \/ (ci /\ text[row] = "folded")

Closed == [at |-> "idle", kind |-> "scan", ci |-> FALSE, short |-> FALSE, ref |-> None]

Run(plan, at) ==
    [kind |-> plan.kind, ci |-> plan.ci, short |-> plan.short, ref |-> plan.ref, at |-> at,
     snap |-> clock, hwm |-> None, manifest |-> <<>>, rowids |-> {}, result |-> {}]

\* Between runs a statement has no snapshot.
Running == stmt.at \notin {"idle", "planned"}

Init ==
    /\ text \in [Rows -> Texts]
    /\ base = [n \in DOMAIN Present |-> [row |-> Present[n], from |-> 0, to |-> Forever]]
    /\ guard = None /\ registry = {} /\ clock = 0
    /\ segments = [ref \in 1 .. MaxCommit |-> <<>>]
    /\ lock = FALSE /\ stmt = Closed
-----------------------------------------------------------------------------
\* What other connections commit.  A commit is the next number of the clock.
Commit == clock < MaxCommit /\ clock' = clock + 1

Ended(rows, row) == (rows \ {row}) \union {[row EXCEPT !.to = clock']}
EndPlaces(table) ==
    [n \in DOMAIN table |-> IF table[n].to = Forever THEN [table[n] EXCEPT !.to = clock'] ELSE table[n]]

AppendRow ==
    /\ Commit
    /\ \E row \in Rows \ {base[n].row : n \in DOMAIN base} :
           base' = Append(base, [row |-> row, from |-> clock', to |-> Forever])
    /\ UNCHANGED <<text, guard, registry, segments, lock, stmt>>

DeleteRow ==
    /\ Commit
    /\ \E n \in Places(base, clock) : base' = [base EXCEPT ![n].to = clock']
    /\ UNCHANGED <<text, guard, registry, segments, lock, stmt>>

\* The postings of the statement's needle over rowids past `mark`.
Posted(mark, ci) == {n \in Places(base, clock) : n > mark /\ Holds(base[n].row, ci)}

\* A posting row is written for rowids that hold the needle's grams only.
PostingRow(rowids) ==
    IF rowids = {} THEN <<>> ELSE <<[rowids |-> rowids, from |-> clock', to |-> Forever]>>

\* create_ngram_index: a new index_ref, a fresh guard under a new token.
CreateIndex(ci) ==
    /\ Commit /\ Current = {}
    /\ registry' = registry \union
         {[ref |-> clock', ci |-> ci, hwm |-> Len(base), from |-> clock', to |-> Forever]}
    /\ guard' = clock'
    /\ segments' = [segments EXCEPT ![clock'] = PostingRow(Posted(0, ci))]
    /\ UNCHANGED <<text, base, lock, stmt>>

\* drop_ngram_index: the registry row, the segments table and the guard go.
DropIndex ==
    /\ Commit
    /\ \E index \in Current :
          /\ registry' = Ended(registry, index)
          /\ segments' = [segments EXCEPT ![index.ref] = EndPlaces(@)]
    /\ guard' = None
    /\ UNCHANGED <<text, base, lock, stmt>>

\* ngram_refresh: the postings of the rows past the mark, and the new mark.
RefreshIndex ==
    /\ Commit
    /\ \E index \in Current :
          /\ index.hwm < Len(base)
          /\ registry' = Ended(registry, index) \union
                           {[index EXCEPT !.hwm = Len(base), !.from = clock']}
          /\ segments' = [segments EXCEPT ![index.ref] =
                              @ \o PostingRow(Posted(index.hwm, index.ci))]
    /\ UNCHANGED <<text, base, guard, lock, stmt>>

\* ngram_compact: one posting row in place of all.
CompactIndex ==
    /\ Commit
    /\ \E index \in Current :
          LET live == Places(segments[index.ref], clock)
          IN  /\ Cardinality(live) > 1
              /\ segments' = [segments EXCEPT ![index.ref] = EndPlaces(@) \o
                     PostingRow(UNION {segments[index.ref][n].rowids : n \in live})]
    /\ UNCHANGED <<text, base, guard, registry, lock, stmt>>

\* The least snapshot anyone reads.
Oldest == IF Running THEN stmt.snap ELSE clock

\* What no snapshot sees goes, and later places move down.
Vacuumed(table) ==
    LET kept == Ascending({n \in DOMAIN table : table[n].to > Oldest})
    IN  [k \in DOMAIN kept |-> table[kept[k]]]

\* A checkpoint that vacuums.  A shared vacuum lock keeps it from running, an
\* index on a table from moving its rows; the segments table has none.
Vacuum ==
    /\ ~lock
    /\ base' = IF guard = None THEN Vacuumed(base) ELSE base
    /\ segments' = [ref \in DOMAIN segments |-> Vacuumed(segments[ref])]
    /\ UNCHANGED <<text, guard, registry, clock, lock, stmt>>

Host ==
    \/ AppendRow \/ DeleteRow \/ DropIndex \/ RefreshIndex \/ CompactIndex \/ Vacuum
    \/ \E ci \in BOOLEAN : CreateIndex(ci)
-----------------------------------------------------------------------------
\* UsableNeedles, DecomposeNeedle: a needle of at least one gram; ILIKE asks
\* for a case-insensitive index, a search folds as its index does.
Probeable(plan, index) == ~plan.short /\ (plan.ci => index.ci)

\* TryRewriteGet: the guard alone is asked, the row is of this snapshot.
PlanScan ==
    /\ stmt = Closed
    /\ \E index \in Current, ci \in BOOLEAN :
          LET plan == [at |-> "planned", kind |-> "scan", ci |-> ci, short |-> FALSE,
                       ref |-> index.ref]
          IN  guard = index.ref /\ Probeable(plan, index) /\ stmt' = plan
    /\ UNCHANGED <<host, lock>>

\* SearchBind, CandidatesBind: the index of the column, its options kept.
Bind ==
    /\ stmt = Closed
    /\ \E index \in Current, kind \in {"search", "candidates"}, short \in BOOLEAN :
          stmt' = [at |-> "planned", kind |-> kind, ci |-> index.ci, short |-> short,
                   ref |-> index.ref]
    /\ UNCHANGED <<host, lock>>

\* Execution starts under its own snapshot.
Begin ==
    /\ stmt.at = "planned"
    /\ stmt' = Run(stmt, "started")
    /\ UNCHANGED <<host, lock>>

\* InitGlobal: the lock is taken before anything of the index is read.
TakeLock ==
    /\ stmt.at = "started"
    /\ lock' = TRUE
    /\ stmt' = [stmt EXCEPT !.at = "locked"]
    /\ UNCHANGED host

\* Faulty: any guard will do.
GuardThere(index) == guard # None

\* ReadExactGuard: the guard is the one the registry row names.
GuardExact(index) == guard = index.ref

Manifest(index) ==
    [n \in Places(segments[index.ref], stmt.snap) |-> segments[index.ref][n]]

\* The run reads every row: the lock is given back.
FullScan == stmt' = [stmt EXCEPT !.at = "full"] /\ lock' = FALSE

\* ngram_candidates raises; its state takes the lock with it.
Raise == stmt' = [stmt EXCEPT !.at = "error"] /\ lock' = FALSE

\* Faulty: the manifest is all a search keeps the lock for.
LockWhilePlanning(index) == FALSE

\* The lock a probe keeps for its candidates and for the tail; a search of an
\* index without a mark has neither.
LockForProbe(index) == lock /\ (index.hwm # None \/ stmt.kind = "candidates")

Probe(index) ==
    /\ stmt' = [stmt EXCEPT !.at = "probing", !.hwm = index.hwm, !.manifest = Manifest(index)]
    /\ lock' = LockForProbe(index)

\* Without the index's postings ngram_candidates hands out every indexed rowid.
AllRowids(index) ==
    /\ stmt' = [stmt EXCEPT !.at = "fetching", !.hwm = index.hwm,
                            !.rowids = {n \in Places(base, stmt.snap) : n <= index.hwm}]
    /\ UNCHANGED lock

\* ValidateIndex and the choice it leads to; the probe may decline for reasons
\* of memory and cost.
Validate ==
    /\ stmt.at = "locked"
    /\ IF Recorded(stmt.ref, stmt.snap) = {}
       THEN IF stmt.kind = "candidates" THEN Raise ELSE FullScan
       ELSE \E index \in Recorded(stmt.ref, stmt.snap) :
              IF GuardExact(index) /\ Probeable(stmt, index)
              THEN \/ Probe(index)
                   \/ IF stmt.kind = "candidates" THEN Raise ELSE FullScan
              ELSE IF stmt.kind = "candidates" THEN AllRowids(index) ELSE FullScan
    /\ UNCHANGED host

\* DecodeCandidateSegment: every posting row of the manifest, at its place.
Decode ==
    /\ stmt.at = "probing"
    /\ LET table == segments[stmt.ref]
       IN  stmt' = IF \A n \in DOMAIN stmt.manifest :
                          n \in DOMAIN table /\ table[n].rowids = stmt.manifest[n].rowids
                   THEN [stmt EXCEPT !.at = "fetching",
                          !.rowids = UNION {table[n].rowids : n \in DOMAIN stmt.manifest}]
                   ELSE [stmt EXCEPT !.at = "malformed"]
    /\ UNCHANGED <<host, lock>>

Matching(places) ==
    {base[n].row : n \in {m \in places : Visible(base[m], stmt.snap) /\ Holds(base[m].row, stmt.ci)}}

\* Faulty: ngram_candidates gives the lock back with its last rowid.
LockWhileEmitting == FALSE

\* The state of ngram_candidates lives as long as the query, and the lock in it.
LockUntilEnd == lock

\* CandidatesFunction: the last rowid is handed to the caller.
Emit ==
    /\ stmt.at = "fetching" /\ stmt.kind = "candidates"
    /\ stmt' = [stmt EXCEPT !.at = "joining"]
    /\ lock' = LockUntilEnd
    /\ UNCHANGED host

\* The rows at the candidates, rechecked: by a search core, or by the join of
\* the caller of ngram_candidates.
Fetch ==
    /\ stmt.at = IF stmt.kind = "candidates" THEN "joining" ELSE "fetching"
    /\ stmt' = [stmt EXCEPT !.at = "tail", !.result = Matching(stmt.rowids \intersect DOMAIN base)]
    /\ UNCHANGED <<host, lock>>

ScanTail ==
    /\ stmt.at = "tail"
    /\ stmt' = [stmt EXCEPT !.at = "done",
                            !.result = @ \union Matching({n \in DOMAIN base : n > stmt.hwm})]
    /\ UNCHANGED <<host, lock>>

ScanAll ==
    /\ stmt.at = "full"
    /\ stmt' = [stmt EXCEPT !.at = "done", !.result = Matching(DOMAIN base)]
    /\ UNCHANGED <<host, lock>>

\* The query's state dies; the statement stays prepared, or is closed.
End ==
    /\ stmt.at \in {"done", "error"}
    /\ lock' = FALSE
    /\ \/ stmt' = Closed
       \/ stmt' = [kind |-> stmt.kind, ci |-> stmt.ci, short |-> stmt.short, ref |-> stmt.ref,
                   at |-> "planned"]
    /\ UNCHANGED host

Client ==
    \/ PlanScan \/ Bind \/ Begin \/ TakeLock \/ Validate \/ Decode \/ Emit \/ Fetch \/ ScanTail
    \/ ScanAll \/ End

Next == Host \/ Client

Spec == Init /\ [][Next]_vars
-----------------------------------------------------------------------------
Expected ==
    {base[n].row : n \in {m \in Places(base, stmt.snap) : Holds(base[m].row, stmt.ci)}}

\* A rewritten scan or a search answers what a scan of its snapshot would, run
\* as often as its caller likes after any drop, rebuild, refresh and vacuum
\* since it was planned; a search folds as the index it was bound to.
AnswerExact == stmt.at = "done" /\ stmt.kind # "candidates" => stmt.result = Expected

\* The rowids of ngram_candidates, joined with the table later in the same
\* statement, and the rows past the mark are all the rows of the answer: no
\* row moves between the scan that emits a rowid and the join that uses it.
CandidatesCover == stmt.at = "done" /\ stmt.kind = "candidates" => stmt.result = Expected

\* "ngram: a manifest posting row vanished" is never raised: the places a
\* manifest recorded hold the same posting rows until they are decoded.
PostingsStay == stmt.at # "malformed"
=============================================================================
