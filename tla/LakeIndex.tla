----------------------------- MODULE LakeIndex ------------------------------
(***************************************************************************)
(* An index on a DuckLake table: the registry row, the postings and the    *)
(* table over the lake's history of snapshots, the maintenance scripts     *)
(* (src/src/lake_maintenance.cpp) and what a query at any snapshot takes   *)
(* from the index and the change feed (src/src/lake_query.cpp,             *)
(* lake_catalog.cpp).  Any DuckLake client may write, alter, drop and      *)
(* recreate the table and expire snapshots.                                *)
(*                                                                         *)
(* A row's value stands for the grams of its text.  A segment holds one    *)
(* rowid.  The lake itself is modelled from how the extension uses it.     *)
(***************************************************************************)
EXTENDS Integers, FiniteSets, Sequences

CONSTANTS Conns,        \* connections that maintain the index
          Values,       \* texts of the indexed column
          Default,      \* the text an ALTER gives every older row
          MaxRowid,     \* bound: rowids of a table are 0..MaxRowid
          MaxSnapshot,  \* bound: snapshots of the lake
          MaxExpired    \* bound: how many of them expire

ASSUME LakeConstants ==
    /\ Default \in Values
    /\ MaxRowid \in Nat /\ MaxSnapshot \in Nat \ {0} /\ MaxExpired \in Nat

Rowid == 0 .. MaxRowid
Snapshot == 1 .. MaxSnapshot
NoTable == 0
NoVersion == 0            \* a NULL schema version
NoRef == 0

VARIABLES history,  \* the lake at each snapshot
          expired,  \* the snapshots that were expired
          script    \* each connection's maintenance call

vars == <<history, expired, script>>

TableRow == [id : Rowid, value : Values, since : Snapshot]
IndexRow == [ref : Snapshot, table_id : Snapshot, covered : Snapshot, schema_version : Nat]
Posting == [ref : Snapshot, generation : Nat, id : Rowid, value : Values]
NoIndexRow == [ref |-> NoRef, table_id |-> NoTable, covered |-> 0, schema_version |-> NoVersion]

\* `touched`: the tables this snapshot altered or dropped; `lock`: the snapshot
\* that wrote the registry's lock row, 0 without a registry; `tables`: the
\* indexes with a segments table.
Lake == [table_id : Snapshot, rows : SUBSET TableRow, next : 0 .. MaxRowid + 1,
         schema_version : Nat, touched : SUBSET Snapshot, lock : 0 .. MaxSnapshot,
         indexes : SUBSET IndexRow, tables : SUBSET Snapshot, postings : SUBSET Posting]

\* A call: its expansion's snapshot and what it read there (the index row, the
\* segment range, whether the change feed serves the tail), and the snapshot
\* of the script's own transaction.
Script == [phase : {"idle", "expanded", "running"}, kind : {"create", "refresh", "compact", "purge", "drop"},
           at : 0 .. MaxSnapshot, index : IndexRow \union {NoIndexRow}, segments : SUBSET Rowid,
           feed : BOOLEAN, snapshot : 0 .. MaxSnapshot]
NoScript == [phase |-> "idle", kind |-> "drop", at |-> 0, index |-> NoIndexRow, segments |-> {},
             feed |-> FALSE, snapshot |-> 0]

TypeOK ==
    /\ \E n \in Snapshot : history \in [1 .. n -> Lake]
    /\ expired \in SUBSET Snapshot
    /\ script \in [Conns -> Script]

Latest == Len(history)
Current == history[Latest]
Next1 == Latest + 1

Init ==
    /\ \E next \in 0 .. MaxRowid + 1 : \E text \in [0 .. next - 1 -> Values] :
         history = <<[table_id |-> 1, next |-> next, schema_version |-> 1, touched |-> {}, lock |-> 0,
                      rows |-> {[id |-> r, value |-> text[r], since |-> 1] : r \in 0 .. next - 1},
                      indexes |-> {}, tables |-> {}, postings |-> {}]>>
    /\ expired = {}
    /\ script = [c \in Conns |-> NoScript]
-----------------------------------------------------------------------------
(* What a reader at a snapshot sees *)

\* Faulty: snapshots missing from the history are taken for harmless ones.
StaleByHistoryLeft(at, index) ==
    \/ index.covered > at
    \/ /\ index.schema_version = NoVersion \/ index.schema_version # history[at].schema_version
       /\ \E n \in (index.covered + 1 .. at) \ expired : index.table_id \in history[n].touched

\* LakeStaleReason: an unchanged schema version proves that no table changed,
\* otherwise the snapshot history after the covered one must be complete and
\* name no change of the table.
LakeStaleReason(at, index) ==
    \/ index.covered > at
    \/ /\ index.schema_version = NoVersion \/ index.schema_version # history[at].schema_version
       /\ \/ \E n \in (index.covered + 1 .. at) \ expired : index.table_id \in history[n].touched
          \/ (index.covered + 1 .. at) \intersect expired # {}

\* The change feed from one snapshot to another: every version inserted, an
\* update's among them, deleted ones too until expiry removes them.
Insertions(from, to) ==
    {[id |-> r.id, value |-> r.value] :
        r \in UNION {{r \in history[n].rows : r.since = n /\ (n \notin expired \/ r \in history[to].rows)} :
                       n \in from .. to}}

InsertedRows(from, to) ==
    {[id |-> r.id, value |-> r.value] : r \in {r \in history[to].rows : r.since >= from}}

\* LakeTailSource: the feed where its snapshots still exist, else the table
\* filtered on the snapshot every row carries.
FeedAvailable(from, to) == from \notin expired /\ to \notin expired
LakeTailSource(from, to, feed) == IF feed THEN Insertions(from, to) ELSE InsertedRows(from, to)

\* ProbeAtSnapshot: the rowids posted under the value and those of the tail.
Candidates(at, index, value) ==
    {p.id : p \in {p \in history[at].postings : p.ref = index.ref /\ p.value = value}}
    \union
    {t.id : t \in {t \in LakeTailSource(index.covered + 1, at, FeedAvailable(index.covered + 1, at)) :
                     index.covered < at /\ t.value = value}}

-----------------------------------------------------------------------------
(* Other clients of the lake *)

\* A commit: the next snapshot differs from the last by `lake`.
Commit(lake) ==
    /\ Latest < MaxSnapshot
    /\ history' = Append(history, lake)

Written(lake) == Commit([lake EXCEPT !.touched = {}])

Insert(value) ==
    /\ Current.next <= MaxRowid
    /\ Written([Current EXCEPT !.rows = @ \union {[id |-> Current.next, value |-> value, since |-> Next1]},
                            !.next = @ + 1])
    /\ UNCHANGED <<expired, script>>

\* An update keeps the rowid.
Update(row, value) ==
    /\ row \in Current.rows
    /\ Written([Current EXCEPT !.rows = (@ \ {row}) \union
                                       {[id |-> row.id, value |-> value, since |-> Next1]}])
    /\ UNCHANGED <<expired, script>>

Delete(row) ==
    /\ row \in Current.rows
    /\ Written([Current EXCEPT !.rows = @ \ {row}])
    /\ UNCHANGED <<expired, script>>

\* ducklake_rewrite_data_files stamps the rows with a new snapshot.
Rewrite ==
    /\ Current.rows # {}
    /\ Written([Current EXCEPT !.rows = {[r EXCEPT !.since = Next1] : r \in @}])
    /\ UNCHANGED <<expired, script>>

\* A commit that changes another table only, its shape or its rows.
Elsewhere(schema) ==
    /\ Written([Current EXCEPT !.schema_version = @ + schema])
    /\ UNCHANGED <<expired, script>>

\* The column is dropped and added back: no row's change is in the feed.
Altered(lake) ==
    [lake EXCEPT !.rows = {[r EXCEPT !.value = Default] : r \in @}, !.touched = {lake.table_id}]

Alter ==
    /\ Commit([Altered(Current) EXCEPT !.schema_version = @ + 1])
    /\ UNCHANGED <<expired, script>>

\* DROP TABLE and CREATE TABLE of the same name, in one transaction.
Recreate ==
    /\ Commit([Current EXCEPT !.rows = {}, !.next = 0, !.table_id = Next1,
                           !.schema_version = @ + 1, !.touched = {Current.table_id}])
    /\ UNCHANGED <<expired, script>>

\* ducklake_expire_snapshots removes any snapshot but the latest.
Expire(n) ==
    /\ n \in 1 .. Latest - 1 /\ n \notin expired
    /\ Cardinality(expired) < MaxExpired
    /\ expired' = expired \union {n}
    /\ UNCHANGED <<history, script>>
-----------------------------------------------------------------------------
(* Maintenance: the pragma is expanded at one snapshot, the script runs at   *)
(* its transaction's, and commits on top of the latest.                      *)

\* The call is planned on the latest snapshot, and its script runs in a
\* transaction of its own, which may begin later; or in the one the call was
\* made in, at the same snapshot.  That one has written nothing before the
\* call (RequireUnwrittenLake), but may write after it: see GoesOn.
Expand(c, kind, index, segments, feed) ==
    /\ script[c].phase = "idle"
    /\ script' = [script EXCEPT ![c] =
                    [phase |-> "expanded", kind |-> kind, at |-> Latest, index |-> index,
                     segments |-> segments, feed |-> feed, snapshot |-> 0]]
    /\ UNCHANGED <<history, expired>>

ExpandCreate(c) ==
    /\ Current.indexes = {}
    /\ Expand(c, "create", NoIndexRow, {}, FALSE)

\* MaintainedIndexes refuses a stale index; a covered snapshot has no tail.
ExpandRefresh(c, index) ==
    /\ ~LakeStaleReason(Latest, index)
    /\ index.covered # Latest
    /\ Expand(c, "refresh", index, {}, FeedAvailable(index.covered + 1, Latest))

Posted(at, index) == {p \in history[at].postings : p.ref = index.ref}

\* The segments between the first and the last that hold postings.
Segments(at, index) ==
    UNION {lo.id .. hi.id : lo, hi \in Posted(at, index)}

Generations(at, index) == {p.generation : p \in Posted(at, index)}

ExpandCompact(c, index, kind) ==
    /\ ~LakeStaleReason(Latest, index)
    /\ kind = "purge" \/ Cardinality(Generations(Latest, index)) > 1
    /\ Expand(c, kind, index, Segments(Latest, index), FALSE)

ExpandDrop(c, index) == Expand(c, "drop", index, {}, FALSE)

\* Faulty: the index row's covered snapshot is not checked again.
CheckRefOnly(call, at) ==
    IF call.kind = "create"
    THEN history[at].indexes = {}
    ELSE \E index \in history[at].indexes : index.ref = call.index.ref

\* LockCheck and IndexRowCheck, or that the column has no index yet.
CheckStatement(call, at) ==
    IF call.kind = "create"
    THEN history[at].indexes = {}
    ELSE \E index \in history[at].indexes : index.ref = call.index.ref /\ index.covered = call.index.covered

\* The script's transaction begins: what the expansion read is checked again.
Start(c) ==
    /\ script[c].phase = "expanded"
    /\ script' = [script EXCEPT ![c] =
                    IF CheckStatement(script[c], Latest)
                    THEN [@ EXCEPT !.phase = "running", !.snapshot = Latest] ELSE NoScript]
    /\ UNCHANGED <<history, expired>>

\* Faulty: only the tables' own conflicts, no lock row.
NoConflict(call) == history[call.snapshot].lock # 0 \/ Current.lock = 0

\* LockStatements: DuckLake refuses the second of two transactions that delete
\* the lock row, BootstrapStatements that of two that create the schema.
LockHeld(call) == history[call.snapshot].lock = Current.lock

Post(ref, generation, rows) ==
    {[ref |-> ref, generation |-> generation, id |-> r.id, value |-> r.value] : r \in rows}

\* DeleteIndexRow and RegistryInsertStatement.
Replaced(index, with) == {i \in Current.indexes : i.ref # index.ref} \union {with}

\* The script has run up to its commit.
Ready(c, kinds) == script[c].phase = "running" /\ script[c].kind \in kinds /\ LockHeld(script[c])

\* The call was made in a transaction the user began, which goes on to alter
\* the table before it commits.  DuckLake refuses it if another commit altered
\* or dropped the table since.  (What else it may write the change feed
\* returns, as it does a later commit's.)
GoesOn(call) ==
    /\ call.snapshot = call.at
    /\ \A n \in call.snapshot + 1 .. Latest : history[n].touched = {}

\* The script commits, alone or with what its transaction did after it.  A
\* commit that changes the lake's shape raises the schema version, once
\* whatever it changes, or by more with inlined-data tables: `bump` is what
\* the script's own statements raise it by.
Finish(c, lake, bump) ==
    /\ \/ Written([lake EXCEPT !.lock = Next1, !.schema_version = @ + bump])
       \/ /\ GoesOn(script[c])
          /\ Commit([Altered(lake) EXCEPT !.lock = Next1,
                                          !.schema_version = @ + IF bump = 0 THEN 1 ELSE bump])
    /\ script' = [script EXCEPT ![c] = NoScript]
    /\ UNCHANGED expired

\* The version the create's commit is expected to give the lake.
PredictedVersion(call) ==
    IF call.snapshot \in expired THEN NoVersion ELSE history[call.snapshot].schema_version + 1

\* The new index covers what the script's transaction reads.
CommitCreate(c, bump) ==
    /\ Ready(c, {"create"})
    /\ LET call == script[c]
           seen == history[call.snapshot]
           index == [ref |-> Next1, table_id |-> seen.table_id, covered |-> call.snapshot,
                     schema_version |-> PredictedVersion(call)]
       IN  Finish(c, [Current EXCEPT !.indexes = @ \union {index}, !.tables = @ \union {index.ref},
                                     !.postings = @ \union Post(index.ref, 0, seen.rows)], bump)

\* Faulty: the refreshed index claims what the script's transaction sees.
CoveredAtRun(call) == call.snapshot

\* The refreshed index covers the expansion's snapshot.
Covered(call) == call.at

\* Refresh and compact record the schema version of their expansion.
RecordedVersion(call) == history[call.at].schema_version

\* The tail up to the expansion's snapshot becomes a new generation.
CommitRefresh(c) ==
    /\ Ready(c, {"refresh"})
    /\ LET call == script[c]
           generations == Generations(call.snapshot, call.index)
           generation == IF generations = {} THEN 0
                         ELSE 1 + CHOOSE g \in generations : \A h \in generations : h <= g
           tail == LakeTailSource(call.index.covered + 1, call.at, call.feed)
           index == [call.index EXCEPT !.covered = Covered(call),
                                       !.schema_version = RecordedVersion(call)]
       IN  /\ call.at \notin expired /\ (call.feed => call.index.covered + 1 \notin expired)
           /\ Finish(c, [Current EXCEPT !.indexes = Replaced(call.index, index),
                                        !.postings = @ \union Post(index.ref, generation, tail)], 0)

\* What a compaction keeps, of the segments its expansion saw: with purge, the
\* postings of rows the table still holds.
Kept(call) ==
    {p \in Posted(call.snapshot, call.index) :
        /\ p.id \in call.segments
        /\ call.kind = "purge" => \E r \in history[call.snapshot].rows : r.id = p.id}

\* The generations become one; the covered snapshot stays.
CommitCompact(c) ==
    /\ Ready(c, {"compact", "purge"})
    /\ LET call == script[c]
           index == [call.index EXCEPT !.schema_version = RecordedVersion(call)]
       IN  Finish(c, [Current EXCEPT !.indexes = Replaced(index, index),
                                     !.postings = (@ \ Posted(Latest, index)) \union Post(index.ref, 0, Kept(call))], 0)

CommitDrop(c, bump) ==
    /\ Ready(c, {"drop"})
    /\ LET index == script[c].index
       IN  Finish(c, [Current EXCEPT !.indexes = {i \in @ : i.ref # index.ref},
                                     !.tables = @ \ {index.ref},
                                     !.postings = @ \ Posted(Latest, index)], bump)

\* A conflict, an error or an interrupt rolls the script back.
Abort(c) ==
    /\ script[c].phase # "idle"
    /\ script' = [script EXCEPT ![c] = NoScript]
    /\ UNCHANGED <<history, expired>>

ClientNext ==
    \/ \E value \in Values : Insert(value)
    \/ \E row \in Current.rows : Delete(row) \/ \E value \in Values \ {row.value} : Update(row, value)
    \/ Rewrite \/ Alter \/ Recreate
    \/ \E schema \in {0, 1} : Elsewhere(schema)
    \/ \E n \in Snapshot : Expire(n)

MaintainNext(c) ==
    \/ ExpandCreate(c)
    \/ \E index \in Current.indexes :
         \/ ExpandRefresh(c, index) \/ ExpandDrop(c, index)
         \/ \E kind \in {"compact", "purge"} : ExpandCompact(c, index, kind)
    \/ Start(c) \/ Abort(c)
    \/ \E bump \in {1, 2} : CommitCreate(c, bump) \/ CommitDrop(c, bump)
    \/ CommitRefresh(c) \/ CommitCompact(c)

Next == ClientNext \/ \E c \in Conns : MaintainNext(c)

Spec == Init /\ [][Next]_vars
-----------------------------------------------------------------------------
(* Properties *)

\* The index was created in a transaction that went on to alter the table.
\* The schema version the create predicted is its commit's all the same, and
\* LakeStaleReason takes the index for fresh although its postings are those
\* of the old texts.
AlteredByCreator(index) == index.table_id \in history[index.ref].touched

\* A reader of the index is offered every row that matches.
Offered(at, index) == \A r \in history[at].rows : r.id \in Candidates(at, index, r.value)

\* A query at any snapshot that can still be read, whatever was committed,
\* altered or expired since, is offered every row that matches, unless it is
\* told to scan.  It holds of every index but those of AlteredByCreator, for
\* which ReadersExact shows that it fails (lake_query.cpp, ProbeAtSnapshot).
LakeExact ==
    \A at \in (1 .. Latest) \ expired : \A index \in history[at].indexes :
        ~LakeStaleReason(at, index) /\ ~AlteredByCreator(index) => Offered(at, index)

\* What the documentation says of every index: readers' "answers are those of
\* a scan at that snapshot" (docs/ducklake.md:174-175, "Readers").
ReadersExact ==
    \A at \in (1 .. Latest) \ expired : \A index \in history[at].indexes :
        ~LakeStaleReason(at, index) => Offered(at, index)

\* However creates, drops and the others race, a column has one index, and
\* the registry's rows and the segments tables are each other's.
OneIndex ==
    \A at \in 1 .. Latest :
        /\ Cardinality(history[at].indexes) <= 1
        /\ history[at].tables = {i.ref : i \in history[at].indexes}

\* No snapshot takes back what an index covered, nor moves it to another
\* table: a compaction that raced a refresh does not undo it.
CoverGrows ==
    \A at \in 2 .. Latest : \A i \in history[at].indexes, j \in history[at - 1].indexes :
        i.ref = j.ref => i.covered >= j.covered /\ i.table_id = j.table_id

\* A covered row is posted whatever the reader's snapshot: an index that was
\* refreshed before snapshots expired depends on none of them.
CoveredPosted ==
    \A at \in 1 .. Latest : \A index \in history[at].indexes :
        /\ ~AlteredByCreator(index)
        /\ \A n \in index.covered + 1 .. at : index.table_id \notin history[n].touched
        =>
            \A r \in history[at].rows :
                r.since <= index.covered =>
                    \E p \in history[at].postings : p.ref = index.ref /\ p.id = r.id /\ p.value = r.value
=============================================================================
