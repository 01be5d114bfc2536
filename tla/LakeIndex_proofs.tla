--------------------------- MODULE LakeIndex_proofs ---------------------------
(***************************************************************************)
(* However the scripts of any number of clients race, a lake's column has  *)
(* one index and its cover never goes back; and a query at any snapshot is *)
(* offered every row that matches.                                         *)
(*                                                                         *)
(* The argument is the lock row: every script replaces it, so that two     *)
(* snapshots with the same lock row have the same index rows.  A script    *)
(* that may commit therefore finds the registry as it checked it, whatever *)
(* others committed since its snapshot.                                    *)
(*                                                                         *)
(* For the queries it follows a row backwards: while the table of an index *)
(* is not altered, a row of a snapshot either was written since the        *)
(* covered one, and is in the snapshot that stamped it, or was a row of    *)
(* the covered snapshot, and is posted.  Schema versions only grow, and    *)
(* grow with every change of a table, so that an index row's version tells *)
(* whether its table was altered: but for an ALTER in the transaction that *)
(* created the index, which the version the create predicted includes.     *)
(***************************************************************************)
EXTENDS LakeIndex, FiniteSetTheorems, TLAPS

\* An index row, and a snapshot of the lake, have these fields.
IsIndex(i) == i = [f \in {"ref", "table_id", "covered", "schema_version"} |-> i[f]]

IsLake(lake) ==
    lake = [f \in {"table_id", "rows", "next", "schema_version", "touched", "lock", "indexes",
                   "tables", "postings"} |-> lake[f]]

\* One index at most, and one segments table for it.
Single(lake) ==
    /\ \A i, j \in lake.indexes : i = j
    /\ lake.tables = {i.ref : i \in lake.indexes}

\* A snapshot on its own: nothing in it is of a later one.
SnapshotInv(at, lake) ==
    /\ IsLake(lake) /\ Single(lake)
    /\ lake.lock \in 0 .. at
    /\ \A i \in lake.indexes : IsIndex(i) /\ i.ref \in 1 .. at /\ i.covered \in 0 .. at

\* A snapshot and a later one.
Grown(before, after) ==
    /\ before.lock = after.lock =>
           before.indexes = after.indexes /\ before.tables = after.tables
    /\ \A i \in before.indexes, j \in after.indexes :
           i.ref = j.ref => i.covered <= j.covered /\ i.table_id = j.table_id

HistoryInv ==
    /\ Len(history) \in Nat \ {0}
    /\ history = [n \in 1 .. Len(history) |-> history[n]]
    /\ \A at \in 1 .. Len(history) : SnapshotInv(at, history[at])
    /\ \A at, bt \in 1 .. Len(history) : at < bt => Grown(history[at], history[bt])

IsCall(call) ==
    call = [f \in {"phase", "kind", "at", "index", "segments", "feed", "snapshot"} |-> call[f]]

\* A script was planned for an index of its expansion's snapshot, and once it
\* runs its checks held at its own.
ScriptInv(call) ==
    /\ IsCall(call)
    /\ call.phase # "idle" =>
         /\ call.at \in 1 .. Len(history)
         /\ call.kind # "create" => call.index \in history[call.at].indexes
    /\ call.phase = "running" =>
         call.snapshot \in call.at .. Len(history) /\ CheckStatement(call, call.snapshot)

Inv ==
    /\ HistoryInv
    /\ DOMAIN script = Conns
    /\ \A c \in Conns : ScriptInv(script[c])
-----------------------------------------------------------------------------
\* What a commit may append: the registry of the last snapshot, or one index
\* under a new lock row, new or of the same name and table and no less covered.
Follows(lake) ==
    /\ IsLake(lake)
    /\ \/ lake.lock = Current.lock /\ lake.indexes = Current.indexes /\ lake.tables = Current.tables
       \/ /\ lake.lock = Next1
          /\ Single(lake)
          /\ \A i \in lake.indexes :
               /\ IsIndex(i) /\ i.covered \in 0 .. Next1
               /\ \/ i.ref = Next1
                  \/ \E j \in Current.indexes :
                       i.ref = j.ref /\ j.covered <= i.covered /\ i.table_id = j.table_id

\* Appending to a sequence.
LEMMA Appended ==
    ASSUME NEW h, NEW n \in Nat, h = [k \in 1 .. n |-> h[k]], NEW x
    PROVE  /\ Len(h) = n
           /\ Append(h, x) = [k \in 1 .. n + 1 |-> IF k = n + 1 THEN x ELSE h[k]]
<1> DEFINE S == {h[k] : k \in 1 .. n} \union {x}
<1>1. h \in [1 .. n -> S]
  OBVIOUS
<1>2. h \in Seq(S) /\ x \in S
  BY <1>1
<1>3. Len(h) = n
  BY <1>1, <1>2
<1> QED BY <1>2, <1>3

\* A commit that may follow keeps the history, the snapshots before it and
\* every script's relation to them.
LEMMA CommitKeeps ==
    ASSUME Inv, NEW lake, Commit(lake), Follows(lake)
    PROVE  /\ HistoryInv'
           /\ \A call : ScriptInv(call) => ScriptInv(call)'
<1> DEFINE n == Len(history)
<1>1. /\ n \in Nat \ {0} /\ history = [k \in 1 .. n |-> history[k]]
      /\ \A at \in 1 .. n : SnapshotInv(at, history[at])
      /\ \A at, bt \in 1 .. n : at < bt => Grown(history[at], history[bt])
  BY DEF Inv, HistoryInv
<1>2. history' = [k \in 1 .. n + 1 |-> IF k = n + 1 THEN lake ELSE history[k]]
  <2>1. history' = Append(history, lake)
    BY DEF Commit
  <2>2. n \in Nat /\ history = [k \in 1 .. n |-> history[k]]
    BY <1>1
  <2> HIDE DEF n
  <2>3. Append(history, lake) = [k \in 1 .. n + 1 |-> IF k = n + 1 THEN lake ELSE history[k]]
    BY <2>2, Appended
  <2> QED BY <2>1, <2>3
<1>3. /\ Len(history') = n + 1
      /\ history' = [k \in 1 .. n + 1 |-> history'[k]]
      /\ history'[n + 1] = lake
      /\ \A at \in 1 .. n : history'[at] = history[at]
  <2>1. history' = [k \in 1 .. n + 1 |-> history'[k]] /\ n + 1 \in Nat
    BY <1>1, <1>2
  <2>2. Len(history') = n + 1
    BY <2>1, Appended
  <2> QED BY <1>1, <1>2, <2>1, <2>2
<1>4. SnapshotInv(n, history[n]) /\ Current = history[n] /\ Next1 = n + 1
  BY <1>1 DEF Current, Next1, Latest
<1>5. SnapshotInv(n + 1, lake)
  <2>1. CASE /\ lake.lock = Current.lock /\ lake.indexes = Current.indexes
             /\ lake.tables = Current.tables
    BY <1>1, <1>4, <2>1 DEF Follows, SnapshotInv, Single
  <2>2. CASE lake.lock = Next1 /\ lake.lock # Current.lock
    BY <1>1, <1>4, <2>2 DEF Follows, SnapshotInv
  <2>3. n + 1 # Current.lock
    BY <1>1, <1>4 DEF SnapshotInv
  <2> QED BY <1>4, <2>1, <2>2, <2>3 DEF Follows
<1>6. ASSUME NEW at \in 1 .. n PROVE Grown(history[at], lake)
  <2>1. at = n \/ Grown(history[at], history[n])
    BY <1>1, <1>6
  <2>2. SnapshotInv(at, history[at])
    BY <1>1, <1>6
  <2>3. CASE /\ lake.lock = Current.lock /\ lake.indexes = Current.indexes
             /\ lake.tables = Current.tables
    <3>1. CASE at = n
      <4>1. \A i, j \in lake.indexes : i = j /\ i.covered \in Int
        BY <1>5, <1>1 DEF SnapshotInv, Single
      <4> QED BY <1>4, <2>3, <3>1, <4>1 DEF Grown
    <3>2. CASE Grown(history[at], history[n])
      BY <1>4, <2>3, <3>2 DEF Grown
    <3> QED BY <2>1, <3>1, <3>2
  <2>4. CASE lake.lock = Next1 /\ lake.lock # Current.lock
    <3>1. history[at].lock # lake.lock
      BY <1>1, <1>4, <2>2, <2>4 DEF SnapshotInv
    <3>2. ASSUME NEW i \in history[at].indexes, NEW k \in lake.indexes, i.ref = k.ref
          PROVE  i.covered <= k.covered /\ i.table_id = k.table_id
      <4>1. i.ref # Next1 /\ i.covered \in Int
        BY <1>1, <1>4, <2>2 DEF SnapshotInv
      <4>2. PICK j \in Current.indexes :
                   k.ref = j.ref /\ j.covered <= k.covered /\ k.table_id = j.table_id
        BY <2>4, <3>2, <4>1 DEF Follows
      <4>3. j.covered \in Int /\ k.covered \in Int
        BY <1>1, <1>4, <1>5, <4>2 DEF SnapshotInv
      <4>4. i.covered <= j.covered /\ i.table_id = j.table_id
        <5>1. CASE at = n
          BY <1>4, <3>2, <4>1, <4>2, <5>1 DEF SnapshotInv, Single
        <5>2. CASE Grown(history[at], history[n])
          BY <1>4, <3>2, <4>2, <5>2 DEF Grown
        <5> QED BY <2>1, <5>1, <5>2
      <4> QED BY <4>1, <4>2, <4>3, <4>4
    <3> QED BY <3>1, <3>2 DEF Grown
  <2>5. n + 1 # Current.lock
    BY <1>1, <1>4 DEF SnapshotInv
  <2> QED BY <1>4, <2>3, <2>4, <2>5 DEF Follows
<1>7. HistoryInv'
  <2>1. ASSUME NEW at \in 1 .. n + 1 PROVE SnapshotInv(at, history'[at])
    BY <1>1, <1>3, <1>5, <2>1
  <2>2. ASSUME NEW at \in 1 .. n + 1, NEW bt \in 1 .. n + 1, at < bt
        PROVE  Grown(history'[at], history'[bt])
    <3>1. at \in 1 .. n /\ (bt \in 1 .. n \/ bt = n + 1)
      BY <1>1, <2>2
    <3> QED BY <1>1, <1>3, <1>6, <2>2, <3>1
  <2>3. n + 1 \in Nat \ {0}
    BY <1>1
  <2> HIDE DEF n
  <2> QED BY <1>3, <2>1, <2>2, <2>3 DEF HistoryInv, SnapshotInv, Grown
<1>8. ASSUME NEW call, ScriptInv(call) PROVE ScriptInv(call)'
  <2>1. call.phase # "idle" =>
          /\ call.at \in 1 .. n /\ call.at \in 1 .. n + 1
          /\ history'[call.at] = history[call.at]
    BY <1>1, <1>3, <1>8 DEF ScriptInv
  <2>2. call.phase = "running" =>
          /\ call.snapshot \in 1 .. n /\ call.snapshot \in call.at .. n + 1
          /\ history'[call.snapshot] = history[call.snapshot]
    <3>1. call.phase = "running" => call.at \in 1 .. n /\ call.snapshot \in call.at .. n
      BY <1>8, <2>1 DEF ScriptInv
    <3> QED BY <1>1, <1>3, <3>1
  <2> HIDE DEF n
  <2> QED BY <1>3, <1>8, <2>1, <2>2 DEF ScriptInv, CheckStatement
<1> QED BY <1>7, <1>8
-----------------------------------------------------------------------------
\* The registry is only part of what a client's commit leaves alone.
LEMMA LastSnapshot ==
    ASSUME Inv
    PROVE  /\ IsLake(Current) /\ Single(Current)
           /\ Latest \in Nat \ {0} /\ Next1 = Latest + 1
           /\ \A i \in Current.indexes : IsIndex(i) /\ i.covered \in 0 .. Latest
BY DEF Inv, HistoryInv, Current, Latest, Next1, SnapshotInv

LEMMA ClientKeeps ==
    ASSUME Inv, NEW lake, IsLake(lake), lake.lock = Current.lock,
           lake.indexes = Current.indexes, lake.tables = Current.tables,
           Commit(lake), UNCHANGED script
    PROVE  Inv'
<1>1. Follows(lake)
  BY DEF Follows
<1>2. HistoryInv' /\ \A call : ScriptInv(call) => ScriptInv(call)'
  BY <1>1, CommitKeeps
<1>3. ASSUME NEW c \in Conns PROVE ScriptInv(script[c])'
  <2>1. ScriptInv(script[c])
    BY DEF Inv
  <2> QED BY <1>2, <2>1 DEF ScriptInv, CheckStatement
<1> QED BY <1>2, <1>3 DEF Inv

\* A step of another client leaves the registry alone.
LEMMA ClientInv ==
    ASSUME Inv, ClientNext
    PROVE  Inv'
<1> USE LastSnapshot
<1>1. ASSUME NEW value \in Values, Insert(value) PROVE Inv'
  <2> DEFINE lake == [[Current EXCEPT
                !.rows = @ \union {[id |-> Current.next, value |-> value, since |-> Next1]},
                !.next = @ + 1] EXCEPT !.touched = {}]
  <2>1. IsLake(lake) /\ lake.lock = Current.lock /\ lake.indexes = Current.indexes
        /\ lake.tables = Current.tables
    BY DEF IsLake
  <2>2. Commit(lake) /\ UNCHANGED script
    BY <1>1 DEF Insert, Written
  <2> QED BY <2>1, <2>2, ClientKeeps
<1>2. ASSUME NEW row \in Current.rows, Delete(row) PROVE Inv'
  <2> DEFINE lake == [[Current EXCEPT !.rows = @ \ {row}] EXCEPT !.touched = {}]
  <2>1. IsLake(lake) /\ lake.lock = Current.lock /\ lake.indexes = Current.indexes
        /\ lake.tables = Current.tables
    BY DEF IsLake
  <2>2. Commit(lake) /\ UNCHANGED script
    BY <1>2 DEF Delete, Written
  <2> QED BY <2>1, <2>2, ClientKeeps
<1>3. ASSUME NEW row \in Current.rows, NEW value \in Values, Update(row, value) PROVE Inv'
  <2> DEFINE lake == [[Current EXCEPT
                !.rows = (@ \ {row}) \union
                           {[id |-> row.id, value |-> value, since |-> Next1]}] EXCEPT !.touched = {}]
  <2>1. IsLake(lake) /\ lake.lock = Current.lock /\ lake.indexes = Current.indexes
        /\ lake.tables = Current.tables
    BY DEF IsLake
  <2>2. Commit(lake) /\ UNCHANGED script
    BY <1>3 DEF Update, Written
  <2> QED BY <2>1, <2>2, ClientKeeps
<1>4. ASSUME Rewrite PROVE Inv'
  <2> DEFINE lake == [[Current EXCEPT
                !.rows = {[r EXCEPT !.since = Next1] : r \in @}] EXCEPT !.touched = {}]
  <2>1. IsLake(lake) /\ lake.lock = Current.lock /\ lake.indexes = Current.indexes
        /\ lake.tables = Current.tables
    BY DEF IsLake
  <2>2. Commit(lake) /\ UNCHANGED script
    BY <1>4 DEF Rewrite, Written
  <2> QED BY <2>1, <2>2, ClientKeeps
<1>5. ASSUME Alter PROVE Inv'
  <2> DEFINE lake == [[Current EXCEPT !.rows = {[r EXCEPT !.value = Default] : r \in @},
                                      !.touched = {Current.table_id}] EXCEPT !.schema_version = @ + 1]
  <2>1. IsLake(lake) /\ lake.lock = Current.lock /\ lake.indexes = Current.indexes
        /\ lake.tables = Current.tables
    BY DEF IsLake
  <2>2. Commit(lake) /\ UNCHANGED script
    BY <1>5 DEF Alter, Altered
  <2> QED BY <2>1, <2>2, ClientKeeps
<1>6. ASSUME Recreate PROVE Inv'
  <2> DEFINE lake == [Current EXCEPT !.rows = {}, !.next = 0, !.table_id = Next1,
                           !.schema_version = @ + 1, !.touched = {Current.table_id}]
  <2>1. IsLake(lake) /\ lake.lock = Current.lock /\ lake.indexes = Current.indexes
        /\ lake.tables = Current.tables
    BY DEF IsLake
  <2>2. Commit(lake) /\ UNCHANGED script
    BY <1>6 DEF Recreate
  <2> QED BY <2>1, <2>2, ClientKeeps
<1>7. ASSUME NEW schema \in {0, 1}, Elsewhere(schema) PROVE Inv'
  <2> DEFINE lake == [[Current EXCEPT !.schema_version = @ + schema] EXCEPT !.touched = {}]
  <2>1. IsLake(lake) /\ lake.lock = Current.lock /\ lake.indexes = Current.indexes
        /\ lake.tables = Current.tables
    BY DEF IsLake
  <2>2. Commit(lake) /\ UNCHANGED script
    BY <1>7 DEF Elsewhere, Written
  <2> QED BY <2>1, <2>2, ClientKeeps
<1>8. ASSUME NEW m \in Snapshot, Expire(m) PROVE Inv'
  BY <1>8 DEF Expire, Inv, HistoryInv, ScriptInv, CheckStatement
<1> QED BY <1>1, <1>2, <1>3, <1>4, <1>5, <1>6, <1>7, <1>8 DEF ClientNext
-----------------------------------------------------------------------------
\* An idle connection has nothing to keep.
LEMMA NoScriptInv == ScriptInv(NoScript) /\ ScriptInv(NoScript)'
<1>1. NoScript.phase = "idle" /\ IsCall(NoScript)
  BY DEF NoScript, IsCall
<1> QED BY <1>1 DEF ScriptInv, CheckStatement

\* A step of one connection that commits nothing.
LEMMA ScriptKeeps ==
    ASSUME Inv, NEW c \in Conns, NEW call, ScriptInv(call),
           script' = [script EXCEPT ![c] = call], UNCHANGED history
    PROVE  Inv'
<1>1. HistoryInv'
  BY DEF Inv, HistoryInv
<1>2. DOMAIN script' = Conns
  BY DEF Inv
<1>3. ASSUME NEW d \in Conns PROVE ScriptInv(script'[d]) /\ history' = history
  BY DEF Inv
<1> QED BY <1>1, <1>2, <1>3 DEF Inv, ScriptInv, CheckStatement

\* The calls an expansion records.
LEMMA ExpandKeeps ==
    ASSUME Inv, NEW c \in Conns, NEW kind, NEW index, NEW segments, NEW feed,
           kind # "create" => index \in Current.indexes,
           Expand(c, kind, index, segments, feed)
    PROVE  Inv'
<1> DEFINE call == [phase |-> "expanded", kind |-> kind, at |-> Latest, index |-> index,
                    segments |-> segments, feed |-> feed, snapshot |-> 0]
<1>1. IsCall(call) /\ call.phase = "expanded" /\ call.kind = kind /\ call.at = Latest
      /\ call.index = index
  BY DEF IsCall
<1>2. script' = [script EXCEPT ![c] = call] /\ UNCHANGED history
  BY DEF Expand
<1> HIDE DEF call
<1>3. Latest \in 1 .. Len(history) /\ Current = history[Latest]
  BY DEF Inv, HistoryInv, Latest, Current
<1>4. ScriptInv(call)
  BY <1>1, <1>3 DEF ScriptInv
<1> QED BY <1>2, <1>4, ScriptKeeps

\* The lock row is the one the script read, so that the registry is too: the
\* index it was planned for is there, alone, and covers what it did.
LEMMA Checked ==
    ASSUME Inv, NEW c \in Conns, NEW kinds, Ready(c, kinds)
    PROVE  /\ script[c].kind = "create" => Current.indexes = {} /\ Current.tables = {}
           /\ script[c].kind # "create" =>
                /\ IsIndex(script[c].index) /\ script[c].index.covered \in 0 .. Latest
                /\ script[c].at \in Nat /\ script[c].at <= Latest
                /\ script[c].index.covered <= script[c].at
                /\ \E j \in Current.indexes :
                     /\ Current.indexes = {j} /\ Current.tables = {j.ref}
                     /\ j.ref = script[c].index.ref /\ j.covered = script[c].index.covered
                     /\ j.table_id = script[c].index.table_id
<1> DEFINE call == script[c]
           n == Len(history)
<1>1. /\ n \in Nat \ {0}
      /\ \A at \in 1 .. n : SnapshotInv(at, history[at])
      /\ \A at, bt \in 1 .. n : at < bt => Grown(history[at], history[bt])
      /\ ScriptInv(call)
  BY DEF Inv, HistoryInv
<1>2. Current = history[n] /\ Latest = n
  BY DEF Current, Latest
<1>3. call.phase = "running" /\ history[call.snapshot].lock = Current.lock
  BY DEF Ready, LockHeld
<1> HIDE DEF call, n
<1>4. /\ call.at \in 1 .. n /\ call.snapshot \in call.at .. n
      /\ CheckStatement(call, call.snapshot)
      /\ call.kind # "create" => call.index \in history[call.at].indexes
  BY <1>1, <1>3 DEF ScriptInv, n
<1>5. call.snapshot \in 1 .. n /\ call.at \in Nat /\ call.at <= n
  BY <1>1, <1>4
<1>6. history[call.snapshot].indexes = Current.indexes
  BY <1>1, <1>2, <1>3, <1>5 DEF Grown
<1>7. Single(Current)
  BY <1>1, <1>2 DEF SnapshotInv
<1>8. CASE call.kind = "create"
  <2>1. Current.indexes = {}
    BY <1>4, <1>6, <1>8 DEF CheckStatement
  <2>2. Current.tables = {}
    BY <1>7, <2>1 DEF Single
  <2> QED BY <1>8, <2>1, <2>2 DEF call
<1>9. CASE call.kind # "create"
  <2>1. PICK j \in Current.indexes : j.ref = call.index.ref /\ j.covered = call.index.covered
    BY <1>4, <1>6, <1>9 DEF CheckStatement
  <2>2. Current.indexes = {j} /\ Current.tables = {j.ref}
    BY <1>7, <2>1 DEF Single
  <2>3. /\ IsIndex(call.index) /\ call.index.covered \in 0 .. call.at
    BY <1>1, <1>4, <1>9 DEF SnapshotInv
  <2>4. j.table_id = call.index.table_id
    <3>1. CASE call.at = n
      BY <1>2, <1>4, <1>7, <1>9, <2>1, <3>1 DEF Single
    <3>2. CASE call.at < n
      <4>1. Grown(history[call.at], history[n])
        BY <1>1, <1>4, <3>2
      <4> QED BY <1>2, <1>4, <1>9, <2>1, <4>1 DEF Grown
    <3> QED BY <1>1, <1>4, <3>1, <3>2
  <2>5. call.index.covered \in 0 .. n /\ call.index.covered <= call.at
    BY <1>1, <1>4, <2>3
  <2> QED BY <1>2, <1>5, <1>9, <2>1, <2>2, <2>3, <2>4, <2>5 DEF call
<1> QED BY <1>8, <1>9 DEF call

\* A script's commit: the script's changes, and what its transaction may have
\* done to the table after it.
LEMMA Finished ==
    ASSUME NEW c \in Conns, NEW lake, NEW bump, IsLake(lake), Finish(c, lake, bump)
    PROVE  \E next :
             /\ IsLake(next) /\ next.lock = Next1 /\ next.indexes = lake.indexes
             /\ next.tables = lake.tables /\ next.postings = lake.postings
             /\ next.table_id = lake.table_id /\ next.next = lake.next
             /\ \/ /\ next.touched = {} /\ next.rows = lake.rows
                   /\ next.schema_version = lake.schema_version + bump
                \/ /\ next.touched = {lake.table_id}
                   /\ next.rows = {[r EXCEPT !.value = Default] : r \in lake.rows}
                   /\ next.schema_version = lake.schema_version + IF bump = 0 THEN 1 ELSE bump
             /\ Commit(next) /\ script' = [script EXCEPT ![c] = NoScript]
<1>1. script' = [script EXCEPT ![c] = NoScript]
  BY DEF Finish
<1>2. CASE Written([lake EXCEPT !.lock = Next1, !.schema_version = @ + bump])
  <2> DEFINE next == [[lake EXCEPT !.lock = Next1, !.schema_version = @ + bump] EXCEPT !.touched = {}]
  <2>1. Commit(next)
    BY <1>2 DEF Written
  <2>2. /\ IsLake(next) /\ next.lock = Next1 /\ next.indexes = lake.indexes
        /\ next.tables = lake.tables /\ next.postings = lake.postings
        /\ next.table_id = lake.table_id /\ next.next = lake.next
        /\ next.touched = {} /\ next.rows = lake.rows
        /\ next.schema_version = lake.schema_version + bump
    BY DEF IsLake
  <2> HIDE DEF next
  <2> QED BY <1>1, <2>1, <2>2
<1>3. CASE Commit([Altered(lake) EXCEPT !.lock = Next1,
                                        !.schema_version = @ + IF bump = 0 THEN 1 ELSE bump])
  <2> DEFINE rows == {[r EXCEPT !.value = Default] : r \in lake.rows}
             rise == IF bump = 0 THEN 1 ELSE bump
             altered == [lake EXCEPT !.rows = rows, !.touched = {lake.table_id}]
             next == [altered EXCEPT !.lock = Next1, !.schema_version = @ + rise]
  <2>1. Commit(next)
    BY <1>3 DEF Altered
  <2> HIDE DEF rows, rise
  <2>2. /\ IsLake(next) /\ next.lock = Next1 /\ next.indexes = lake.indexes
        /\ next.tables = lake.tables /\ next.postings = lake.postings
        /\ next.table_id = lake.table_id /\ next.next = lake.next
        /\ next.touched = {lake.table_id} /\ next.rows = rows
        /\ next.schema_version = lake.schema_version + rise
    BY DEF IsLake
  <2> HIDE DEF next
  <2> QED BY <1>1, <2>1, <2>2 DEF rows, rise
<1> QED BY <1>2, <1>3 DEF Finish

LEMMA FinishKeeps ==
    ASSUME Inv, NEW c \in Conns, NEW lake, NEW bump, IsLake(lake), Finish(c, lake, bump),
           Single(lake),
           \A i \in lake.indexes :
               /\ IsIndex(i) /\ i.covered \in 0 .. Next1
               /\ \/ i.ref = Next1
                  \/ \E j \in Current.indexes :
                       i.ref = j.ref /\ j.covered <= i.covered /\ i.table_id = j.table_id
    PROVE  Inv'
<1>1. PICK next :
         /\ IsLake(next) /\ next.lock = Next1 /\ next.indexes = lake.indexes
         /\ next.tables = lake.tables
         /\ Commit(next) /\ script' = [script EXCEPT ![c] = NoScript]
  BY Finished
<1>2. Commit(next) /\ script' = [script EXCEPT ![c] = NoScript]
  BY <1>1
<1>3. Follows(next)
  BY <1>1 DEF Follows, Single
<1>4. HistoryInv' /\ \A call : ScriptInv(call) => ScriptInv(call)'
  BY <1>2, <1>3, CommitKeeps
<1>5. ASSUME NEW d \in Conns PROVE ScriptInv(script[d])'
  <2>1. ScriptInv(script[d]) /\ script'[d] = IF d = c THEN NoScript ELSE script[d]
    BY <1>2 DEF Inv
  <2>2. PICK call : call = script'[d]
    OBVIOUS
  <2>3. ScriptInv(call)'
    BY <1>4, <2>1, <2>2, NoScriptInv
  <2> QED BY <2>2, <2>3 DEF ScriptInv, CheckStatement
<1> QED BY <1>2, <1>4, <1>5 DEF Inv
-----------------------------------------------------------------------------
\* The index that a refresh or a compaction writes takes the place of the one
\* it was planned for.
LEMMA ReplaceKeeps ==
    ASSUME Inv, NEW c \in Conns, Ready(c, {"refresh", "compact", "purge"}),
           NEW covered, NEW version, NEW postings,
           covered = script[c].index.covered \/ covered = script[c].at,
           NEW old, old.ref = script[c].index.ref,
           NEW index, index = [script[c].index EXCEPT !.covered = covered,
                                                      !.schema_version = version],
           Finish(c, [Current EXCEPT !.indexes = Replaced(old, index), !.postings = postings], 0)
    PROVE  Inv'
<1> DEFINE lake == [Current EXCEPT !.indexes = Replaced(old, index), !.postings = postings]
           call == script[c]
<1>1. call.kind # "create"
  BY DEF Ready
<1>2. /\ IsIndex(call.index) /\ call.index.covered \in 0 .. Latest
      /\ call.at \in Nat /\ call.at <= Latest /\ call.index.covered <= call.at
  BY <1>1, Checked
<1>3. PICK j \in Current.indexes :
           /\ Current.indexes = {j} /\ Current.tables = {j.ref}
           /\ j.ref = call.index.ref /\ j.covered = call.index.covered
           /\ j.table_id = call.index.table_id
  BY <1>1, Checked
<1>4. IsIndex(index) /\ index.ref = j.ref /\ index.table_id = j.table_id /\ index.covered = covered
  BY <1>2, <1>3 DEF IsIndex
<1>5. Latest \in Nat /\ Next1 = Latest + 1
  BY LastSnapshot
<1>6. covered \in 0 .. Next1 /\ j.covered <= covered
  BY <1>2, <1>3, <1>5
<1>7. Replaced(old, index) = {index}
  BY <1>3 DEF Replaced
<1>8. IsLake(lake) /\ lake.indexes = {index} /\ lake.tables = Current.tables
  BY <1>7, LastSnapshot DEF IsLake
<1>9. Finish(c, lake, 0)
  OBVIOUS
<1> HIDE DEF lake, call
<1>10. Single(lake)
  <2>1. lake.tables = {index.ref}
    BY <1>3, <1>4, <1>8
  <2> QED BY <1>8, <2>1 DEF Single
<1>11. \A i \in lake.indexes :
            /\ IsIndex(i) /\ i.covered \in 0 .. Next1
            /\ \/ i.ref = Next1
               \/ \E k \in Current.indexes :
                    i.ref = k.ref /\ k.covered <= i.covered /\ i.table_id = k.table_id
  BY <1>4, <1>6, <1>8
<1> QED BY <1>8, <1>9, <1>10, <1>11, FinishKeeps

\* A step of a script keeps the registry single and its cover growing.
LEMMA MaintainInv ==
    ASSUME Inv, NEW c \in Conns, MaintainNext(c)
    PROVE  Inv'
<1>1. CASE ExpandCreate(c)
  BY <1>1, ExpandKeeps DEF ExpandCreate
<1>2. ASSUME NEW index \in Current.indexes, ExpandRefresh(c, index) PROVE Inv'
  BY <1>2, ExpandKeeps DEF ExpandRefresh
<1>3. ASSUME NEW index \in Current.indexes, ExpandDrop(c, index) PROVE Inv'
  BY <1>3, ExpandKeeps DEF ExpandDrop
<1>4. ASSUME NEW index \in Current.indexes, NEW kind \in {"compact", "purge"},
             ExpandCompact(c, index, kind)
      PROVE  Inv'
  BY <1>4, ExpandKeeps DEF ExpandCompact
<1>5. CASE Start(c)
  <2>1. CASE CheckStatement(script[c], Latest)
    <3> DEFINE call == [script[c] EXCEPT !.phase = "running", !.snapshot = Latest]
    <3>1. ScriptInv(script[c]) /\ script[c].phase = "expanded"
      BY <1>5 DEF Inv, Start
    <3>2. /\ IsCall(call) /\ call.phase = "running" /\ call.snapshot = Latest
          /\ call.kind = script[c].kind /\ call.at = script[c].at /\ call.index = script[c].index
      BY <3>1 DEF ScriptInv, IsCall
    <3>3. script' = [script EXCEPT ![c] = call] /\ UNCHANGED history
      BY <1>5, <2>1 DEF Start
    <3> HIDE DEF call
    <3>4. Latest \in call.at .. Len(history) /\ CheckStatement(call, Latest)
      BY <2>1, <3>1, <3>2, LastSnapshot DEF ScriptInv, Latest, CheckStatement
    <3>5. ScriptInv(call)
      BY <3>1, <3>2, <3>4 DEF ScriptInv
    <3> QED BY <3>3, <3>5, ScriptKeeps
  <2>2. CASE ~CheckStatement(script[c], Latest)
    <3>1. script' = [script EXCEPT ![c] = NoScript] /\ UNCHANGED history
      BY <1>5, <2>2 DEF Start
    <3> QED BY <3>1, NoScriptInv, ScriptKeeps
  <2> QED BY <2>1, <2>2
<1>6. CASE Abort(c)
  BY <1>6, NoScriptInv, ScriptKeeps DEF Abort
<1>7. ASSUME NEW bump \in {1, 2}, CommitCreate(c, bump) PROVE Inv'
  <2> DEFINE call == script[c]
             seen == history[call.snapshot]
             index == [ref |-> Next1, table_id |-> seen.table_id, covered |-> call.snapshot,
                       schema_version |-> PredictedVersion(call)]
             lake == [Current EXCEPT !.indexes = @ \union {index}, !.tables = @ \union {index.ref},
                                     !.postings = @ \union Post(index.ref, 0, seen.rows)]
  <2>1. Ready(c, {"create"}) /\ Finish(c, lake, bump)
    BY <1>7 DEF CommitCreate
  <2>2. Current.indexes = {} /\ Current.tables = {}
    BY <2>1, Checked DEF Ready
  <2>3. call.snapshot \in 0 .. Next1
    <3>1. /\ Latest \in Nat /\ Next1 = Latest + 1
          /\ call.at \in 1 .. Latest /\ call.snapshot \in call.at .. Latest
      BY <2>1, LastSnapshot DEF Inv, ScriptInv, Ready, Latest
    <3> QED BY <3>1
  <2>4. IsIndex(index) /\ index.ref = Next1 /\ index.covered = call.snapshot
    BY DEF IsIndex
  <2>5. IsLake(lake) /\ lake.indexes = {index} /\ lake.tables = {index.ref}
    <3> HIDE DEF index
    <3> QED BY <2>2, LastSnapshot DEF IsLake
  <2> HIDE DEF index, lake, call
  <2>6. Single(lake)
    BY <2>5 DEF Single
  <2>7. \A i \in lake.indexes : IsIndex(i) /\ i.covered \in 0 .. Next1 /\ i.ref = Next1
    BY <2>3, <2>4, <2>5
  <2> QED BY <2>1, <2>5, <2>6, <2>7, FinishKeeps
<1>8. ASSUME NEW bump \in {1, 2}, CommitDrop(c, bump) PROVE Inv'
  <2> DEFINE index == script[c].index
             lake == [Current EXCEPT !.indexes = {i \in @ : i.ref # index.ref},
                                     !.tables = @ \ {index.ref},
                                     !.postings = @ \ Posted(Latest, index)]
  <2>1. Ready(c, {"drop"}) /\ Finish(c, lake, bump)
    BY <1>8 DEF CommitDrop
  <2>2. script[c].kind # "create"
    BY <2>1 DEF Ready
  <2>3. PICK j \in Current.indexes :
             Current.indexes = {j} /\ Current.tables = {j.ref} /\ j.ref = index.ref
    BY <2>1, <2>2, Checked
  <2>4. IsLake(lake) /\ lake.indexes = {} /\ lake.tables = {}
    <3> HIDE DEF index
    <3> QED BY <2>3, LastSnapshot DEF IsLake
  <2> HIDE DEF index, lake
  <2>5. Single(lake)
    BY <2>4 DEF Single
  <2> QED BY <2>1, <2>4, <2>5, FinishKeeps
<1>9. CASE CommitRefresh(c)
  <2> DEFINE call == script[c]
             generations == Generations(call.snapshot, call.index)
             generation == IF generations = {} THEN 0
                           ELSE 1 + CHOOSE g \in generations : \A h \in generations : h <= g
             tail == LakeTailSource(call.index.covered + 1, call.at, call.feed)
             index == [call.index EXCEPT !.covered = Covered(call),
                                         !.schema_version = RecordedVersion(call)]
             postings == Current.postings \union Post(index.ref, generation, tail)
  <2>1. /\ Ready(c, {"refresh"})
        /\ Finish(c, [Current EXCEPT !.indexes = Replaced(call.index, index),
                                     !.postings = postings], 0)
    BY <1>9 DEF CommitRefresh
  <2>2. Ready(c, {"refresh", "compact", "purge"})
    BY <2>1 DEF Ready
  <2>3. Covered(call) = call.at
    BY DEF Covered
  <2> HIDE DEF postings
  <2> QED BY <2>1, <2>2, <2>3, ReplaceKeeps
<1>10. CASE CommitCompact(c)
  <2> DEFINE call == script[c]
             index == [call.index EXCEPT !.schema_version = RecordedVersion(call)]
             same == [call.index EXCEPT !.covered = call.index.covered,
                                        !.schema_version = RecordedVersion(call)]
             postings == (Current.postings \ Posted(Latest, index)) \union
                             Post(index.ref, 0, Kept(call))
  <2>1. /\ Ready(c, {"compact", "purge"})
        /\ Finish(c, [Current EXCEPT !.indexes = Replaced(index, index),
                                     !.postings = postings], 0)
    BY <1>10 DEF CommitCompact
  <2>2. Ready(c, {"refresh", "compact", "purge"}) /\ script[c].kind # "create"
    BY <2>1 DEF Ready
  <2>3. IsIndex(call.index)
    BY <2>2, Checked
  <2>4. index = same /\ index.ref = call.index.ref
    BY <2>3 DEF IsIndex
  <2> HIDE DEF postings, index
  <2> QED BY <2>1, <2>2, <2>4, ReplaceKeeps
<1> QED BY <1>1, <1>2, <1>3, <1>4, <1>5, <1>6, <1>7, <1>8, <1>9, <1>10 DEF MaintainNext
-----------------------------------------------------------------------------
\* The lake's registry in every reachable state: snapshots with one lock row
\* have one registry, and a script that may commit finds what it checked
\* (lake_maintenance.cpp, LockStatements and LockCheck).
THEOREM RegistryInvariant == Spec => []Inv
<1>1. Init => Inv
  <2> SUFFICES ASSUME Init PROVE Inv
    OBVIOUS
  <2>1. PICK lake : /\ history = <<lake>> /\ IsLake(lake)
                    /\ lake.lock = 0 /\ lake.indexes = {} /\ lake.tables = {}
    BY DEF Init, IsLake
  <2>2. /\ Len(history) = 1 /\ history = [n \in 1 .. 1 |-> history[n]]
        /\ history[1] = lake
    BY <2>1
  <2>3. SnapshotInv(1, lake)
    BY <2>1 DEF SnapshotInv, Single
  <2>4. HistoryInv
    BY <2>2, <2>3 DEF HistoryInv
  <2>5. DOMAIN script = Conns /\ \A c \in Conns : script[c] = NoScript
    BY DEF Init
  <2> QED BY <2>4, <2>5, NoScriptInv DEF Inv
<1>2. Inv /\ [Next]_vars => Inv'
  <2> SUFFICES ASSUME Inv, [Next]_vars PROVE Inv'
    OBVIOUS
  <2>1. CASE ClientNext
    BY <2>1, ClientInv
  <2>2. ASSUME NEW c \in Conns, MaintainNext(c) PROVE Inv'
    BY <2>2, MaintainInv
  <2>3. CASE UNCHANGED vars
    BY <2>3 DEF vars, Inv, HistoryInv, ScriptInv, CheckStatement
  <2> QED BY <2>1, <2>2, <2>3 DEF Next
<1> QED BY <1>1, <1>2, PTL DEF Spec

\* However creates, drops, refreshes and compactions of any number of clients
\* race, a column has one index and one segments table
\* (lake_maintenance.cpp, LockStatements).
THEOREM OneIndexed == Spec => []OneIndex
<1>1. Inv => OneIndex
  <2> SUFFICES ASSUME Inv, NEW at \in 1 .. Latest
               PROVE  /\ Cardinality(history[at].indexes) <= 1
                      /\ history[at].tables = {i.ref : i \in history[at].indexes}
    BY DEF OneIndex
  <2>1. Single(history[at])
    BY DEF Inv, HistoryInv, SnapshotInv, Latest
  <2>2. history[at].indexes = {} \/ \E i : history[at].indexes = {i}
    BY <2>1 DEF Single
  <2>3. Cardinality(history[at].indexes) <= 1
    <3>1. CASE history[at].indexes = {}
      <4>1. Cardinality({}) = 0
        BY FS_EmptySet
      <4> QED BY <3>1, <4>1
    <3>2. ASSUME NEW i, history[at].indexes = {i} PROVE Cardinality(history[at].indexes) <= 1
      <4>1. Cardinality({i}) = 1
        BY FS_Singleton
      <4> QED BY <3>2, <4>1
    <3> QED BY <2>2, <3>1, <3>2
  <2> QED BY <2>1, <2>3 DEF Single
<1> QED BY <1>1, RegistryInvariant, PTL

\* No snapshot takes back what an index covered, nor moves it to another table
\* (lake_maintenance.cpp, IndexRowCheck).
THEOREM CoverKept == Spec => []CoverGrows
<1>1. Inv => CoverGrows
  <2> SUFFICES ASSUME Inv, NEW at \in 2 .. Latest,
                      NEW i \in history[at].indexes, NEW j \in history[at - 1].indexes,
                      i.ref = j.ref
               PROVE  i.covered >= j.covered /\ i.table_id = j.table_id
    BY DEF CoverGrows
  <2>1. /\ at \in 1 .. Len(history) /\ at - 1 \in 1 .. Len(history) /\ at - 1 < at
    BY DEF Inv, HistoryInv, Latest
  <2>2. Grown(history[at - 1], history[at]) /\ SnapshotInv(at, history[at])
        /\ SnapshotInv(at - 1, history[at - 1])
    BY <2>1 DEF Inv, HistoryInv
  <2> QED BY <2>1, <2>2 DEF Grown, SnapshotInv
<1> QED BY <1>1, RegistryInvariant, PTL

-----------------------------------------------------------------------------
(* Queries *)

IsRow(r) == r = [f \in {"id", "value", "since"} |-> r[f]]

\* The rows of a snapshot were written by it or an earlier one.
RowsInv(at, lake) ==
    /\ \A r \in lake.rows : IsRow(r) /\ r.id \in Int /\ r.since \in 1 .. at
    /\ lake.next \in Int /\ lake.schema_version \in Nat

\* No commit after `from` up to `to` altered or replaced the table.
Untouched(h, table, from, to) == \A m \in from + 1 .. to : table \notin h[m].touched

\* A snapshot of the history h and the same or a later one.
Descends(h, a, b) ==
    /\ h[a].lock = h[b].lock => h[a].postings = h[b].postings
    /\ h[a].schema_version <= h[b].schema_version
    /\ h[a].schema_version = h[b].schema_version => \A m \in a + 1 .. b : h[m].touched = {}
    /\ Untouched(h, h[a].table_id, a, b) =>
         /\ h[b].table_id = h[a].table_id
         /\ \A r \in h[b].rows :
              /\ r.since <= a => r \in h[a].rows
              /\ r.since > a => r \in h[r.since].rows

IsPosted(lake, ref, r) == \E p \in lake.postings : p.ref = ref /\ p.id = r.id /\ p.value = r.value

\* The transaction that created the index did not go on to alter its table.
Honest(h, i) == i.table_id \notin h[i.ref].touched

\* An index row of a snapshot covers an earlier one, and its version is no
\* later one's.  Of a table that its own create left alone, the version proves,
\* if it is this snapshot's, that the table is as covered; then the covered
\* rows are posted.
Covers(h, at, i) ==
    /\ i.covered \in 1 .. at /\ i.ref \in 1 .. at
    /\ i.schema_version \in Nat /\ i.schema_version <= h[at].schema_version
    /\ Honest(h, i) =>
         /\ i.table_id = h[i.covered].table_id
         /\ i.schema_version # NoVersion /\ i.schema_version = h[at].schema_version =>
                Untouched(h, i.table_id, i.covered, at)
         /\ Untouched(h, i.table_id, i.covered, at) =>
                \A r \in h[at].rows : r.since <= i.covered => IsPosted(h[at], i.ref, r)

Contents(h, n) ==
    /\ \A at \in 1 .. n : RowsInv(at, h[at])
    /\ \A a, b \in 1 .. n : a <= b => Descends(h, a, b)
    /\ \A at \in 1 .. n : \A i \in h[at].indexes : Covers(h, at, i)

\* A refresh or a compaction was planned while the table was as covered (but
\* for the indexes that are not Honest), and a compaction takes all the postings there were.
Planned(h, call) ==
    call.phase # "idle" /\ call.kind \in {"refresh", "compact", "purge"} =>
        /\ Honest(h, call.index) =>
             Untouched(h, call.index.table_id, call.index.covered, call.at)
        /\ call.kind # "refresh" =>
             \A p \in h[call.at].postings : p.ref = call.index.ref /\ p.id \in Int =>
                 p.id \in call.segments

ExactInv ==
    /\ Inv
    /\ Contents(history, Len(history))
    /\ \A c \in Conns : Planned(history, script[c])
-----------------------------------------------------------------------------
\* What commit n + 1 appends to the snapshot `last`.
Evolves(n, last, lake) ==
    /\ RowsInv(n + 1, lake)
    /\ lake.lock = n + 1 \/ (lake.lock = last.lock /\ lake.postings = last.postings)
    /\ last.schema_version <= lake.schema_version
    /\ last.schema_version = lake.schema_version => lake.touched = {}
    /\ last.table_id \notin lake.touched =>
         /\ lake.table_id = last.table_id
         /\ \A r \in lake.rows : r.since = n + 1 \/ r \in last.rows

\* The history g is h and one snapshot more.
Extends(g, h, n) ==
    /\ \A at \in 1 .. n : g[at] = h[at]
    /\ Evolves(n, h[n], g[n + 1])

LEMMA UntouchedSplits ==
    ASSUME NEW h, NEW table, NEW a \in Int, NEW b \in Int, NEW c \in Int, a <= b, b <= c
    PROVE  Untouched(h, table, a, c) <=> Untouched(h, table, a, b) /\ Untouched(h, table, b, c)
<1>1. a + 1 .. c = (a + 1 .. b) \union (b + 1 .. c)
  OBVIOUS
<1> QED BY <1>1 DEF Untouched

\* What holds of snapshots up to the last is not changed by one more.
LEMMA OldSnapshots ==
    ASSUME NEW h, NEW g, NEW n \in Nat, Extends(g, h, n), Contents(h, n)
    PROVE  /\ \A a, b \in 1 .. n : a <= b => Descends(g, a, b)
           /\ \A at \in 1 .. n : \A i \in g[at].indexes : Covers(g, at, i)
           /\ \A table, a, b : a \in Nat /\ b \in 1 .. n =>
                  (Untouched(g, table, a, b) <=> Untouched(h, table, a, b))
<1>1. \A at \in 1 .. n : g[at] = h[at]
  BY DEF Extends
<1>2. ASSUME NEW table, NEW a \in Nat, NEW b \in 1 .. n
      PROVE  Untouched(g, table, a, b) <=> Untouched(h, table, a, b)
  <2>1. a + 1 .. b \subseteq 1 .. n
    OBVIOUS
  <2> QED BY <1>1, <2>1 DEF Untouched
<1>3. ASSUME NEW a \in 1 .. n, NEW b \in 1 .. n, a <= b PROVE Descends(g, a, b)
  <2>1. Descends(h, a, b) /\ g[a] = h[a] /\ g[b] = h[b]
    BY <1>1, <1>3 DEF Contents
  <2>2. a + 1 .. b \subseteq 1 .. n
    OBVIOUS
  <2>3. Untouched(g, h[a].table_id, a, b) <=> Untouched(h, h[a].table_id, a, b)
    BY <1>2
  <2>4. \A r \in h[b].rows : r.since \in 1 .. n
    BY DEF Contents, RowsInv
  <2> QED BY <1>1, <2>1, <2>2, <2>3, <2>4 DEF Descends
<1>4. ASSUME NEW at \in 1 .. n, NEW i \in g[at].indexes PROVE Covers(g, at, i)
  <2>1. Covers(h, at, i) /\ g[at] = h[at]
    BY <1>1 DEF Contents
  <2>2. /\ i.covered \in 1 .. n /\ g[i.covered] = h[i.covered]
        /\ i.ref \in 1 .. n /\ g[i.ref] = h[i.ref]
    BY <1>1, <2>1 DEF Covers
  <2>3. Untouched(g, i.table_id, i.covered, at) <=> Untouched(h, i.table_id, i.covered, at)
    BY <1>2, <2>2
  <2> QED BY <2>1, <2>2, <2>3 DEF Covers, Honest, IsPosted
<1> QED BY <1>2, <1>3, <1>4

\* The new snapshot descends from every other.
LEMMA NewSnapshot ==
    ASSUME NEW h, NEW g, NEW n \in Nat \ {0}, Extends(g, h, n), Contents(h, n),
           \A at \in 1 .. n : h[at].lock \in 0 .. at
    PROVE  \A a \in 1 .. n + 1 : Descends(g, a, n + 1)
<1> DEFINE lake == g[n + 1]
<1>1. Evolves(n, h[n], lake) /\ \A at \in 1 .. n : g[at] = h[at]
  BY DEF Extends
<1>2. Descends(g, n + 1, n + 1)
  BY <1>1 DEF Descends, Evolves, RowsInv
<1>3. ASSUME NEW a \in 1 .. n PROVE Descends(g, a, n + 1)
  <2> HIDE DEF lake
  <2>1. Descends(h, a, n) /\ RowsInv(a, h[a]) /\ RowsInv(n, h[n]) /\ n \in 1 .. n
    BY DEF Contents
  <2>2. g[a] = h[a] /\ g[n] = h[n] /\ g[n + 1] = lake
    BY <1>1, <2>1 DEF lake
  <2>3. a + 1 .. n + 1 = (a + 1 .. n) \union {n + 1} /\ a + 1 .. n \subseteq 1 .. n
    OBVIOUS
  <2>4. h[a].lock = lake.lock => h[a].postings = lake.postings
    BY <1>1, <2>1 DEF Evolves, Descends
  <2>5. h[a].schema_version <= lake.schema_version
    BY <1>1, <2>1 DEF Evolves, Descends, RowsInv
  <2>6. h[a].schema_version = lake.schema_version => \A m \in a + 1 .. n + 1 : g[m].touched = {}
    <3>1. h[a].schema_version = lake.schema_version =>
            /\ h[a].schema_version = h[n].schema_version
            /\ h[n].schema_version = lake.schema_version
      BY <1>1, <2>1 DEF Evolves, Descends, RowsInv
    <3> QED BY <1>1, <2>1, <2>2, <2>3, <3>1 DEF Evolves, Descends
  <2>7. ASSUME Untouched(g, h[a].table_id, a, n + 1)
        PROVE  /\ lake.table_id = h[a].table_id
               /\ \A r \in lake.rows :
                    /\ r.since <= a => r \in g[a].rows
                    /\ r.since > a => r \in g[r.since].rows
    <3>1. Untouched(h, h[a].table_id, a, n) /\ h[a].table_id \notin lake.touched
      BY <1>1, <2>2, <2>3, <2>7 DEF Untouched
    <3>2. /\ h[n].table_id = h[a].table_id
          /\ \A r \in h[n].rows :
               /\ r.since <= a => r \in h[a].rows
               /\ r.since > a => r \in h[r.since].rows
      BY <2>1, <3>1 DEF Descends
    <3>3. lake.table_id = h[a].table_id /\ \A r \in lake.rows : r.since = n + 1 \/ r \in h[n].rows
      BY <1>1, <3>1, <3>2 DEF Evolves
    <3>4. \A r \in h[n].rows : r.since \in 1 .. n
      BY <2>1 DEF RowsInv
    <3> QED BY <1>1, <2>2, <3>2, <3>3, <3>4
  <2> QED BY <2>2, <2>4, <2>5, <2>6, <2>7 DEF Descends
<1> QED BY <1>2, <1>3

\* An index row that a commit leaves alone still covers what it did.
LEMMA CoversStays ==
    ASSUME NEW h, NEW g, NEW n \in Nat \ {0}, Extends(g, h, n), Contents(h, n),
           g[n + 1].postings = h[n].postings, NEW i \in h[n].indexes
    PROVE  Covers(g, n + 1, i)
<1> DEFINE lake == g[n + 1]
<1>1. Evolves(n, h[n], lake) /\ Covers(h, n, i) /\ n \in 1 .. n
  BY DEF Extends, Contents
<1>2. /\ g[i.covered] = h[i.covered] /\ i.covered \in 1 .. n /\ i.covered <= n /\ i.covered \in Int
      /\ i.ref \in 1 .. n /\ i.ref \in 1 .. n + 1 /\ i.covered \in 1 .. n + 1
      /\ Honest(g, i) <=> Honest(h, i)
  BY <1>1 DEF Extends, Covers, Honest
<1>3. h[n].schema_version \in Nat /\ lake.schema_version \in Nat
  BY <1>1 DEF Contents, RowsInv, Evolves
<1>4. Untouched(g, i.table_id, i.covered, n + 1) <=>
        Untouched(h, i.table_id, i.covered, n) /\ i.table_id \notin lake.touched
  <2>1. Untouched(g, i.table_id, i.covered, n) <=> Untouched(h, i.table_id, i.covered, n)
    BY <1>1, <1>2, OldSnapshots
  <2>2. i.covered + 1 .. n + 1 = (i.covered + 1 .. n) \union {n + 1}
    BY <1>2
  <2> QED BY <2>1, <2>2 DEF Untouched
<1> HIDE DEF lake
<1>5. i.schema_version \in Nat /\ i.schema_version <= lake.schema_version
  BY <1>1, <1>3 DEF Covers, Evolves
<1>6. ASSUME Honest(h, i), i.schema_version # NoVersion, i.schema_version = lake.schema_version
      PROVE  Untouched(g, i.table_id, i.covered, n + 1)
  <2>1. i.schema_version = h[n].schema_version /\ h[n].schema_version = lake.schema_version
    BY <1>1, <1>3, <1>6 DEF Covers, Evolves
  <2> QED BY <1>1, <1>4, <1>6, <2>1 DEF Covers, Evolves
<1>7. ASSUME Honest(h, i), Untouched(g, i.table_id, i.covered, n + 1), NEW r \in lake.rows,
             r.since <= i.covered
      PROVE  IsPosted(lake, i.ref, r)
  <2>1. h[n].table_id = i.table_id
    <3>1. Descends(h, i.covered, n) /\ Untouched(h, h[i.covered].table_id, i.covered, n)
      BY <1>1, <1>2, <1>4, <1>7 DEF Contents, Covers
    <3> QED BY <1>1, <1>7, <3>1 DEF Descends, Covers
  <2>2. r \in h[n].rows
    BY <1>1, <1>2, <1>4, <1>7, <2>1 DEF Evolves
  <2>3. IsPosted(h[n], i.ref, r)
    BY <1>1, <1>4, <1>7, <2>2 DEF Covers
  <2> QED BY <2>3 DEF IsPosted, lake
<1> QED BY <1>1, <1>2, <1>5, <1>6, <1>7 DEF Covers, lake
-----------------------------------------------------------------------------
\* The history after a commit.
LEMMA CommitExtends ==
    ASSUME Inv, NEW lake, Commit(lake), Evolves(Latest, Current, lake)
    PROVE  /\ Latest \in Nat \ {0} /\ Latest = Len(history) /\ Current = history[Latest]
           /\ Next1 = Latest + 1 /\ Len(history') = Latest + 1
           /\ history'[Latest + 1] = lake
           /\ Extends(history', history, Latest)
           /\ \A at \in 1 .. Latest : history[at].lock \in 0 .. at
<1> DEFINE n == Latest
<1>1. /\ n \in Nat \ {0} /\ n = Len(history) /\ Current = history[n] /\ Next1 = n + 1
      /\ history = [k \in 1 .. n |-> history[k]]
      /\ \A at \in 1 .. n : history[at].lock \in 0 .. at
  BY DEF Inv, HistoryInv, SnapshotInv, Latest, Current, Next1
<1>2. history' = Append(history, lake)
  BY DEF Commit
<1> HIDE DEF n
<1>3. history' = [k \in 1 .. n + 1 |-> IF k = n + 1 THEN lake ELSE history[k]]
  BY <1>1, <1>2, Appended
<1>4. history' = [k \in 1 .. n + 1 |-> history'[k]] /\ n + 1 \in Nat
  BY <1>1, <1>3
<1>5. Len(history') = n + 1
  BY <1>4, Appended
<1>6. history'[n + 1] = lake /\ \A at \in 1 .. n : history'[at] = history[at]
  BY <1>1, <1>3
<1> QED BY <1>1, <1>5, <1>6 DEF n, Extends

\* A commit whose index rows cover their tables keeps the contents and what
\* the scripts were planned on.
LEMMA ContentsKept ==
    ASSUME ExactInv, NEW lake, Commit(lake), Evolves(Latest, Current, lake),
           \A i \in lake.indexes : Covers(history', Latest + 1, i)
    PROVE  /\ Contents(history', Len(history'))
           /\ \A call : ScriptInv(call) /\ Planned(history, call) => Planned(history', call)
<1> DEFINE n == Latest
           g == history'
<1>1. /\ n \in Nat \ {0} /\ n = Len(history) /\ Len(g) = n + 1 /\ g[n + 1] = lake
      /\ Extends(g, history, n) /\ \A at \in 1 .. n : history[at].lock \in 0 .. at
      /\ Contents(history, n) /\ Current = history[n]
      /\ \A at \in 1 .. n : \A i \in history[at].indexes : i.covered \in 0 .. at
  BY CommitExtends DEF ExactInv, Inv, HistoryInv, SnapshotInv
<1> HIDE DEF n, g
<1>2. \A a, b \in 1 .. n + 1 : a <= b => Descends(g, a, b)
  <2>1. \A a, b \in 1 .. n : a <= b => Descends(g, a, b)
    BY <1>1, OldSnapshots
  <2>2. \A a \in 1 .. n + 1 : Descends(g, a, n + 1)
    BY <1>1, NewSnapshot
  <2>3. \A a, b \in 1 .. n + 1 : a <= b => b = n + 1 \/ (a \in 1 .. n /\ b \in 1 .. n)
    BY <1>1
  <2> QED BY <2>1, <2>2, <2>3
<1>3. ASSUME NEW at \in 1 .. n + 1 PROVE RowsInv(at, g[at]) /\ \A i \in g[at].indexes : Covers(g, at, i)
  <2>1. CASE at = n + 1
    BY <1>1, <2>1 DEF Evolves, n, g
  <2>2. CASE at \in 1 .. n
    <3>1. RowsInv(at, g[at])
      BY <1>1, <2>2 DEF Contents, Extends
    <3>2. \A i \in g[at].indexes : Covers(g, at, i)
      BY <1>1, <2>2, OldSnapshots
    <3> QED BY <3>1, <3>2
  <2> QED BY <1>1, <2>1, <2>2
<1>4. Contents(g, n + 1)
  BY <1>2, <1>3 DEF Contents
<1>5. ASSUME NEW call, ScriptInv(call), Planned(history, call) PROVE Planned(g, call)
  <2> SUFFICES ASSUME call.phase # "idle", call.kind \in {"refresh", "compact", "purge"}
               PROVE  /\ Honest(g, call.index) =>
                           Untouched(g, call.index.table_id, call.index.covered, call.at)
                      /\ call.kind # "refresh" =>
                           \A p \in g[call.at].postings :
                             p.ref = call.index.ref /\ p.id \in Int => p.id \in call.segments
    BY DEF Planned
  <2>1. call.at \in 1 .. n /\ call.index \in history[call.at].indexes
    BY <1>1, <1>5 DEF ScriptInv
  <2>2. /\ g[call.at] = history[call.at] /\ call.index.covered \in Nat
        /\ Honest(g, call.index) <=> Honest(history, call.index)
    <3>1. g[call.at] = history[call.at] /\ call.index.covered \in Nat
      BY <1>1, <2>1 DEF Extends
    <3>2. Covers(history, call.at, call.index)
      BY <1>1, <2>1 DEF Contents
    <3>3. call.index.ref \in 1 .. n
      BY <1>1, <2>1, <3>2 DEF Covers
    <3> QED BY <1>1, <3>1, <3>3 DEF Extends, Honest
  <2>3. Honest(g, call.index) => Untouched(history, call.index.table_id, call.index.covered, call.at)
    BY <1>5, <2>2 DEF Planned
  <2>4. Honest(g, call.index) => Untouched(g, call.index.table_id, call.index.covered, call.at)
    BY <1>1, <2>1, <2>2, <2>3, OldSnapshots
  <2> QED BY <1>5, <2>2, <2>4 DEF Planned
<1> QED BY <1>1, <1>4, <1>5 DEF g

\* The commit of another client.
LEMMA ClientKeepsContents ==
    ASSUME ExactInv, NEW lake, IsLake(lake), Commit(lake), UNCHANGED script,
           lake.lock = Current.lock, lake.indexes = Current.indexes,
           lake.tables = Current.tables, lake.postings = Current.postings,
           Evolves(Latest, Current, lake)
    PROVE  ExactInv'
<1>1. Inv'
  BY ClientKeeps DEF ExactInv
<1>2. /\ Latest \in Nat \ {0} /\ Current = history[Latest] /\ Extends(history', history, Latest)
      /\ history'[Latest + 1] = lake /\ Contents(history, Latest)
  BY CommitExtends DEF ExactInv
<1>3. \A i \in lake.indexes : Covers(history', Latest + 1, i)
  BY <1>2, CoversStays
<1>4. Contents(history', Len(history'))
  BY <1>3, ContentsKept
<1>5. ASSUME NEW c \in Conns PROVE Planned(history', script[c])
  BY <1>3, ContentsKept DEF ExactInv, Inv
<1> QED BY <1>1, <1>4, <1>5 DEF ExactInv

\* The rows of the last snapshot are of the next one's time.
LEMMA LastRows ==
    ASSUME ExactInv
    PROVE  /\ Latest \in Nat \ {0} /\ Next1 = Latest + 1
           /\ IsLake(Current)
           /\ RowsInv(Latest, Current) /\ RowsInv(Latest + 1, Current)
<1>1. /\ Latest \in Nat \ {0} /\ Next1 = Latest + 1 /\ IsLake(Current) /\ RowsInv(Latest, Current)
  BY LastSnapshot DEF ExactInv, Contents, Latest, Current
<1> QED BY <1>1 DEF RowsInv

\* A step of another client.
LEMMA ClientExact ==
    ASSUME ExactInv, ClientNext
    PROVE  ExactInv'
<1> USE LastRows
<1>1. ASSUME NEW value \in Values, Insert(value) PROVE ExactInv'
  <2> DEFINE row == [id |-> Current.next, value |-> value, since |-> Next1]
             lake == [[Current EXCEPT !.rows = @ \union {row}, !.next = @ + 1]
                         EXCEPT !.touched = {}]
  <2>1. /\ IsLake(lake) /\ lake.lock = Current.lock /\ lake.indexes = Current.indexes
        /\ lake.tables = Current.tables /\ lake.postings = Current.postings
        /\ lake.schema_version = Current.schema_version /\ lake.touched = {}
        /\ lake.table_id = Current.table_id /\ lake.next = Current.next + 1
        /\ lake.rows = Current.rows \union {row}
    BY DEF IsLake
  <2>2. Commit(lake) /\ UNCHANGED script
    BY <1>1 DEF Insert, Written
  <2>3. IsRow(row) /\ row.since = Latest + 1 /\ row.id = Current.next
    BY DEF IsRow
  <2> HIDE DEF lake, row
  <2>4. Evolves(Latest, Current, lake)
    BY <2>1, <2>3 DEF Evolves, RowsInv
  <2> QED BY <2>1, <2>2, <2>4, ClientKeepsContents
<1>2. ASSUME NEW row \in Current.rows, Delete(row) PROVE ExactInv'
  <2> DEFINE lake == [[Current EXCEPT !.rows = @ \ {row}] EXCEPT !.touched = {}]
  <2>1. /\ IsLake(lake) /\ lake.lock = Current.lock /\ lake.indexes = Current.indexes
        /\ lake.tables = Current.tables /\ lake.postings = Current.postings
        /\ lake.schema_version = Current.schema_version /\ lake.touched = {}
        /\ lake.table_id = Current.table_id /\ lake.next = Current.next
        /\ lake.rows = Current.rows \ {row}
    BY DEF IsLake
  <2>2. Commit(lake) /\ UNCHANGED script
    BY <1>2 DEF Delete, Written
  <2> HIDE DEF lake
  <2>3. Evolves(Latest, Current, lake)
    BY <2>1 DEF Evolves, RowsInv
  <2> QED BY <2>1, <2>2, <2>3, ClientKeepsContents
<1>3. ASSUME NEW row \in Current.rows, NEW value \in Values, Update(row, value) PROVE ExactInv'
  <2> DEFINE new == [id |-> row.id, value |-> value, since |-> Next1]
             lake == [[Current EXCEPT !.rows = (@ \ {row}) \union {new}] EXCEPT !.touched = {}]
  <2>1. /\ IsLake(lake) /\ lake.lock = Current.lock /\ lake.indexes = Current.indexes
        /\ lake.tables = Current.tables /\ lake.postings = Current.postings
        /\ lake.schema_version = Current.schema_version /\ lake.touched = {}
        /\ lake.table_id = Current.table_id /\ lake.next = Current.next
        /\ lake.rows = (Current.rows \ {row}) \union {new}
    BY DEF IsLake
  <2>2. Commit(lake) /\ UNCHANGED script
    BY <1>3 DEF Update, Written
  <2>3. IsRow(new) /\ new.since = Latest + 1 /\ new.id = row.id
    BY DEF IsRow
  <2> HIDE DEF lake, new
  <2>4. Evolves(Latest, Current, lake)
    BY <2>1, <2>3 DEF Evolves, RowsInv
  <2> QED BY <2>1, <2>2, <2>4, ClientKeepsContents
<1>4. ASSUME Rewrite PROVE ExactInv'
  <2> DEFINE Stamped(r) == [r EXCEPT !.since = Next1]
             lake == [[Current EXCEPT !.rows = {Stamped(r) : r \in @}] EXCEPT !.touched = {}]
  <2>1. \A r \in Current.rows :
            IsRow(Stamped(r)) /\ Stamped(r).since = Latest + 1 /\ Stamped(r).id = r.id
    BY DEF RowsInv, IsRow
  <2>2. Commit(lake) /\ UNCHANGED script
    BY <1>4 DEF Rewrite, Written
  <2> HIDE DEF Stamped
  <2>3. /\ IsLake(lake) /\ lake.lock = Current.lock /\ lake.indexes = Current.indexes
        /\ lake.tables = Current.tables /\ lake.postings = Current.postings
        /\ lake.schema_version = Current.schema_version /\ lake.touched = {}
        /\ lake.table_id = Current.table_id /\ lake.next = Current.next
        /\ lake.rows = {Stamped(r) : r \in Current.rows}
    BY DEF IsLake
  <2> HIDE DEF lake
  <2>4. Evolves(Latest, Current, lake)
    BY <2>1, <2>3 DEF Evolves, RowsInv
  <2> QED BY <2>2, <2>3, <2>4, ClientKeepsContents
<1>5. ASSUME Alter PROVE ExactInv'
  <2> DEFINE Defaulted(r) == [r EXCEPT !.value = Default]
             lake == [[Current EXCEPT !.rows = {Defaulted(r) : r \in @},
                                      !.touched = {Current.table_id}] EXCEPT !.schema_version = @ + 1]
  <2>1. \A r \in Current.rows :
            IsRow(Defaulted(r)) /\ Defaulted(r).since = r.since /\ Defaulted(r).id = r.id
    BY DEF RowsInv, IsRow
  <2>2. Commit(lake) /\ UNCHANGED script
    BY <1>5 DEF Alter, Altered
  <2> HIDE DEF Defaulted
  <2>3. /\ IsLake(lake) /\ lake.lock = Current.lock /\ lake.indexes = Current.indexes
        /\ lake.tables = Current.tables /\ lake.postings = Current.postings
        /\ lake.schema_version = Current.schema_version + 1
        /\ lake.touched = {Current.table_id}
        /\ lake.table_id = Current.table_id /\ lake.next = Current.next
        /\ lake.rows = {Defaulted(r) : r \in Current.rows}
    BY DEF IsLake
  <2> HIDE DEF lake
  <2>4. Evolves(Latest, Current, lake)
    BY <2>1, <2>3 DEF Evolves, RowsInv
  <2> QED BY <2>2, <2>3, <2>4, ClientKeepsContents
<1>6. ASSUME Recreate PROVE ExactInv'
  <2> DEFINE lake == [Current EXCEPT !.rows = {}, !.next = 0, !.table_id = Next1,
                           !.schema_version = @ + 1, !.touched = {Current.table_id}]
  <2>1. /\ IsLake(lake) /\ lake.lock = Current.lock /\ lake.indexes = Current.indexes
        /\ lake.tables = Current.tables /\ lake.postings = Current.postings
        /\ lake.schema_version = Current.schema_version + 1
        /\ lake.touched = {Current.table_id}
        /\ lake.next = 0 /\ lake.rows = {}
    BY DEF IsLake
  <2>2. Commit(lake) /\ UNCHANGED script
    BY <1>6 DEF Recreate
  <2> HIDE DEF lake
  <2>3. Evolves(Latest, Current, lake)
    BY <2>1 DEF Evolves, RowsInv
  <2> QED BY <2>1, <2>2, <2>3, ClientKeepsContents
<1>7. ASSUME NEW schema \in {0, 1}, Elsewhere(schema) PROVE ExactInv'
  <2> DEFINE lake == [[Current EXCEPT !.schema_version = @ + schema] EXCEPT !.touched = {}]
  <2>1. /\ IsLake(lake) /\ lake.lock = Current.lock /\ lake.indexes = Current.indexes
        /\ lake.tables = Current.tables /\ lake.postings = Current.postings
        /\ lake.schema_version = Current.schema_version + schema
        /\ lake.touched = {}
        /\ lake.table_id = Current.table_id /\ lake.next = Current.next
        /\ lake.rows = Current.rows
    BY DEF IsLake
  <2>2. Commit(lake) /\ UNCHANGED script
    BY <1>7 DEF Elsewhere, Written
  <2> HIDE DEF lake
  <2>3. Evolves(Latest, Current, lake)
    BY <2>1 DEF Evolves, RowsInv
  <2> QED BY <2>1, <2>2, <2>3, ClientKeepsContents
<1>8. ASSUME NEW m \in Snapshot, Expire(m) PROVE ExactInv'
  <2>1. Inv'
    BY <1>8, ClientInv DEF ExactInv, ClientNext
  <2>2. UNCHANGED <<history, script>>
    BY <1>8 DEF Expire
  <2> QED BY <2>1, <2>2 DEF ExactInv
<1> QED BY <1>1, <1>2, <1>3, <1>4, <1>5, <1>6, <1>7, <1>8 DEF ClientNext
-----------------------------------------------------------------------------
\* LakeStaleReason is empty only if the table is as the index covers it.
LEMMA FreshIsUntouched ==
    ASSUME ExactInv, NEW at \in 1 .. Latest, NEW index \in history[at].indexes,
           ~LakeStaleReason(at, index), Honest(history, index)
    PROVE  Untouched(history, index.table_id, index.covered, at)
<1>1. Covers(history, at, index)
  BY DEF ExactInv, Contents, Latest
<1>2. CASE index.schema_version # NoVersion /\ index.schema_version = history[at].schema_version
  BY <1>1, <1>2 DEF Covers
<1>3. CASE index.schema_version = NoVersion \/ index.schema_version # history[at].schema_version
  <2>1. /\ \A m \in (index.covered + 1 .. at) \ expired : index.table_id \notin history[m].touched
        /\ (index.covered + 1 .. at) \intersect expired = {}
    BY <1>3 DEF LakeStaleReason
  <2> QED BY <2>1 DEF Untouched
<1> QED BY <1>2, <1>3

\* A step of a script that commits nothing.
LEMMA ScriptKeepsContents ==
    ASSUME ExactInv, Inv', NEW c \in Conns, NEW call, Planned(history, call),
           script' = [script EXCEPT ![c] = call], UNCHANGED history
    PROVE  ExactInv'
<1>1. \A d \in Conns : script'[d] = IF d = c THEN call ELSE script[d]
  BY DEF ExactInv, Inv
<1>2. \A d \in Conns : Planned(history', script'[d])
  BY <1>1 DEF ExactInv
<1> QED BY <1>2 DEF ExactInv

\* An expansion of a refresh or a compaction found the index fresh.
LEMMA ExpandKeepsContents ==
    ASSUME ExactInv, Inv', NEW c \in Conns, NEW kind, NEW index, NEW segments, NEW feed,
           kind \in {"refresh", "compact", "purge"} =>
               index \in Current.indexes /\ ~LakeStaleReason(Latest, index),
           kind \in {"compact", "purge"} => segments = Segments(Latest, index),
           Expand(c, kind, index, segments, feed)
    PROVE  ExactInv'
<1> DEFINE call == [phase |-> "expanded", kind |-> kind, at |-> Latest, index |-> index,
                    segments |-> segments, feed |-> feed, snapshot |-> 0]
<1>1. script' = [script EXCEPT ![c] = call] /\ UNCHANGED history
  BY DEF Expand
<1>2. call.kind = kind /\ call.at = Latest /\ call.index = index /\ call.segments = segments
  OBVIOUS
<1> HIDE DEF call
<1>3. Latest \in 1 .. Latest /\ Current = history[Latest]
  BY LastRows DEF Current
<1>4. kind \in {"refresh", "compact", "purge"} /\ Honest(history, index) =>
        Untouched(history, index.table_id, index.covered, Latest)
  BY <1>3, FreshIsUntouched
<1>5. ASSUME NEW p \in history[Latest].postings, p.ref = index.ref, p.id \in Int
      PROVE  p.id \in Segments(Latest, index)
  <2> DEFINE Between(lo, hi) == lo.id .. hi.id
  <2>1. p \in Posted(Latest, index) /\ p.id \in Between(p, p)
    BY <1>5 DEF Posted
  <2>2. Segments(Latest, index) = UNION {Between(lo, hi) : lo, hi \in Posted(Latest, index)}
    BY DEF Segments
  <2> HIDE DEF Between
  <2> QED BY <2>1, <2>2
<1>6. Planned(history, call)
  BY <1>2, <1>4, <1>5 DEF Planned
<1> QED BY <1>1, <1>6, ScriptKeepsContents

\* A script's commit changes the registry and the postings, and the table only
\* if its transaction altered that.
LEMMA FinishExtends ==
    ASSUME ExactInv, NEW c \in Conns, NEW lake, NEW bump \in Nat, IsLake(lake),
           Finish(c, lake, bump),
           lake.rows = Current.rows, lake.next = Current.next, lake.table_id = Current.table_id,
           lake.schema_version = Current.schema_version
    PROVE  \E next :
             /\ next.postings = lake.postings /\ next.indexes = lake.indexes
             /\ bump # 0 => next.schema_version = Current.schema_version + bump
             /\ Commit(next) /\ Evolves(Latest, Current, next)
             /\ script' = [script EXCEPT ![c] = NoScript]
             /\ Current = history[Latest]
             /\ history'[Latest + 1] = next
             /\ Extends(history', history, Latest)
             /\ \A a \in 1 .. Latest + 1 : Descends(history', a, Latest + 1)
<1> DEFINE Defaulted(r) == [r EXCEPT !.value = Default]
<1>1. PICK next :
         /\ next.lock = Next1 /\ next.indexes = lake.indexes /\ next.postings = lake.postings
         /\ next.table_id = lake.table_id /\ next.next = lake.next
         /\ \/ /\ next.touched = {} /\ next.rows = lake.rows
               /\ next.schema_version = lake.schema_version + bump
            \/ /\ next.touched = {lake.table_id}
               /\ next.rows = {Defaulted(r) : r \in lake.rows}
               /\ next.schema_version = lake.schema_version + IF bump = 0 THEN 1 ELSE bump
         /\ Commit(next) /\ script' = [script EXCEPT ![c] = NoScript]
  BY Finished
<1>2. \A r \in Current.rows :
          IsRow(Defaulted(r)) /\ Defaulted(r).since = r.since /\ Defaulted(r).id = r.id
  BY LastRows DEF RowsInv, IsRow
<1> HIDE DEF Defaulted
<1>3. Evolves(Latest, Current, next)
  <2>1. Current.schema_version \in Nat
    BY LastRows DEF RowsInv
  <2>2. CASE next.touched = {} /\ next.rows = lake.rows
             /\ next.schema_version = lake.schema_version + bump
    BY <1>1, <2>1, <2>2, LastRows DEF Evolves, RowsInv
  <2>3. CASE /\ next.touched = {lake.table_id}
             /\ next.rows = {Defaulted(r) : r \in lake.rows}
             /\ next.schema_version = lake.schema_version + IF bump = 0 THEN 1 ELSE bump
    <3>1. RowsInv(Latest + 1, next)
      BY <1>1, <1>2, <2>1, <2>3, LastRows DEF RowsInv
    <3> QED BY <1>1, <2>1, <2>3, <3>1, LastRows DEF Evolves
  <2> QED BY <1>1, <2>2, <2>3
<1>4. bump # 0 => next.schema_version = Current.schema_version + bump
  BY <1>1
<1>5. /\ Latest \in Nat \ {0} /\ Current = history[Latest] /\ Latest = Len(history)
      /\ history'[Latest + 1] = next /\ Extends(history', history, Latest)
      /\ \A at \in 1 .. Latest : history[at].lock \in 0 .. at
  BY <1>1, <1>3, CommitExtends DEF ExactInv
<1>6. \A a \in 1 .. Latest + 1 : Descends(history', a, Latest + 1)
  BY <1>5, NewSnapshot DEF ExactInv
<1> QED BY <1>1, <1>3, <1>4, <1>5, <1>6

\* It keeps the contents if its index rows cover what they claim.
LEMMA FinishExact ==
    ASSUME ExactInv, Inv', NEW c \in Conns, NEW next, Commit(next),
           Evolves(Latest, Current, next), script' = [script EXCEPT ![c] = NoScript],
           \A i \in next.indexes : Covers(history', Latest + 1, i)
    PROVE  ExactInv'
<1>1. Contents(history', Len(history'))
  BY ContentsKept
<1>2. Planned(history', NoScript)
  BY DEF Planned, NoScript
<1>3. ASSUME NEW d \in Conns PROVE Planned(history', script'[d])
  <2>1. script'[d] = IF d = c THEN NoScript ELSE script[d]
    BY DEF ExactInv, Inv
  <2>2. Planned(history', script[d])
    BY ContentsKept DEF ExactInv, Inv
  <2> QED BY <1>2, <2>1, <2>2
<1> QED BY <1>1, <1>3 DEF ExactInv

\* What a running script knows: its index is the current one, which its own
\* snapshot holds with the same postings.
LEMMA RunningScript ==
    ASSUME ExactInv, NEW c \in Conns, NEW kinds, Ready(c, kinds)
    PROVE  /\ script[c].at \in 1 .. Latest /\ script[c].snapshot \in script[c].at .. Latest
           /\ history[script[c].snapshot].indexes = Current.indexes
           /\ history[script[c].snapshot].postings = Current.postings
           /\ script[c].kind # "create" => script[c].index \in history[script[c].at].indexes
<1> DEFINE call == script[c]
<1>1. /\ ScriptInv(call) /\ call.phase = "running"
      /\ history[call.snapshot].lock = Current.lock
  BY DEF ExactInv, Inv, Ready, LockHeld
<1>2. /\ call.at \in 1 .. Latest /\ call.snapshot \in call.at .. Latest
      /\ call.kind # "create" => call.index \in history[call.at].indexes
  BY <1>1 DEF ScriptInv, Latest
<1> HIDE DEF call
<1>3. /\ Latest \in Nat /\ call.snapshot \in 1 .. Latest /\ Latest \in 1 .. Latest
      /\ call.snapshot <= Latest /\ Current = history[Latest]
  BY <1>2, LastRows DEF Current
<1>4. history[call.snapshot].postings = Current.postings
  BY <1>1, <1>3 DEF ExactInv, Contents, Descends, Latest
<1>5. history[call.snapshot].indexes = Current.indexes
  BY <1>1, <1>3 DEF ExactInv, Inv, HistoryInv, Grown, Latest
<1> QED BY <1>2, <1>4, <1>5 DEF call
-----------------------------------------------------------------------------
\* A new index covers what its script read.
LEMMA CreateExact ==
    ASSUME ExactInv, Inv', NEW c \in Conns, NEW bump \in {1, 2}, CommitCreate(c, bump)
    PROVE  ExactInv'
<1> DEFINE call == script[c]
           seen == history[call.snapshot]
           index == [ref |-> Next1, table_id |-> seen.table_id, covered |-> call.snapshot,
                     schema_version |-> PredictedVersion(call)]
           lake == [Current EXCEPT !.indexes = @ \union {index}, !.tables = @ \union {index.ref},
                                   !.postings = @ \union Post(index.ref, 0, seen.rows)]
           n == Latest
           g == history'
<1>1. Ready(c, {"create"}) /\ Finish(c, lake, bump)
  BY DEF CommitCreate
<1>2. Current.indexes = {}
  BY <1>1, Checked DEF ExactInv, Ready
<1>3. /\ index.ref = Next1 /\ index.table_id = seen.table_id /\ index.covered = call.snapshot
      /\ index.schema_version = PredictedVersion(call)
  OBVIOUS
<1> HIDE DEF index
<1>4. /\ IsLake(lake) /\ lake.indexes = {index} /\ lake.rows = Current.rows
      /\ lake.next = Current.next /\ lake.table_id = Current.table_id
      /\ lake.postings = Current.postings \union Post(index.ref, 0, seen.rows)
      /\ lake.schema_version = Current.schema_version
  BY <1>2, LastRows DEF IsLake
<1> HIDE DEF lake
<1>5. /\ n \in Nat \ {0} /\ Next1 = n + 1 /\ Current.schema_version \in Nat /\ RowsInv(n, Current)
  BY LastRows DEF RowsInv
<1>6. bump \in Nat /\ bump # 0
  OBVIOUS
<1>7. PICK next :
         /\ next.postings = lake.postings /\ next.indexes = lake.indexes
         /\ next.schema_version = Current.schema_version + bump
         /\ Commit(next) /\ Evolves(n, Current, next)
         /\ script' = [script EXCEPT ![c] = NoScript]
         /\ Current = history[n]
         /\ g[n + 1] = next
         /\ Extends(g, history, n)
         /\ \A a \in 1 .. n + 1 : Descends(g, a, n + 1)
  BY <1>1, <1>4, <1>6, FinishExtends
<1>8. call.snapshot \in 1 .. n /\ call.snapshot \in Nat /\ call.snapshot <= n
  <2>1. call.at \in 1 .. n /\ call.snapshot \in call.at .. n
    BY <1>1, RunningScript
  <2> HIDE DEF call, n
  <2> QED BY <1>5, <2>1
<1>9. /\ g[call.snapshot] = seen /\ Descends(history, call.snapshot, n)
      /\ Descends(g, call.snapshot, n + 1) /\ seen.schema_version \in Nat
  <2>1. Contents(history, n)
    BY DEF ExactInv, Latest
  <2> HIDE DEF n, g, call
  <2>2. n \in 1 .. n /\ call.snapshot \in 1 .. n + 1
    BY <1>5, <1>8
  <2> QED BY <1>7, <1>8, <2>1, <2>2 DEF Extends, Contents, RowsInv
<1>10. index.schema_version = NoVersion \/ index.schema_version = seen.schema_version + 1
  BY <1>3 DEF PredictedVersion
<1> HIDE DEF call, seen, n, g
<1>11. Covers(g, n + 1, index)
  <2>1. /\ index.covered \in 1 .. n + 1 /\ index.ref = n + 1 /\ n + 1 \in 1 .. n + 1
        /\ index.table_id = g[index.covered].table_id
    BY <1>3, <1>5, <1>8, <1>9
  <2>2. /\ index.schema_version \in Nat /\ index.schema_version <= g[n + 1].schema_version
        /\ index.schema_version # NoVersion /\ index.schema_version = g[n + 1].schema_version =>
             seen.schema_version = Current.schema_version
    <3>1. seen.schema_version <= Current.schema_version
      BY <1>7, <1>9 DEF Descends, seen
    <3> QED BY <1>4, <1>5, <1>7, <1>9, <1>10, <3>1 DEF NoVersion
  <2>3. ASSUME Honest(g, index), index.schema_version # NoVersion,
               index.schema_version = g[n + 1].schema_version
        PROVE  Untouched(g, index.table_id, index.covered, n + 1)
    <3>1. \A m \in call.snapshot + 1 .. n : history[m].touched = {}
      BY <1>7, <1>9, <2>2, <2>3 DEF Descends, seen
    <3>2. \A m \in call.snapshot + 1 .. n + 1 : m \in call.snapshot + 1 .. n \/ m = n + 1
      BY <1>5, <1>8
    <3>3. \A m \in call.snapshot + 1 .. n : g[m] = history[m]
      BY <1>7, <1>8 DEF Extends
    <3> QED BY <1>3, <2>1, <2>3, <3>1, <3>2, <3>3 DEF Untouched, Honest
  <2>4. ASSUME Untouched(g, index.table_id, index.covered, n + 1),
               NEW r \in g[n + 1].rows, r.since <= index.covered
        PROVE  IsPosted(g[n + 1], index.ref, r)
    <3>1. r \in seen.rows
      BY <1>3, <1>9, <2>4 DEF Descends
    <3>2. [ref |-> index.ref, generation |-> 0, id |-> r.id, value |-> r.value]
             \in g[n + 1].postings
      BY <1>4, <1>7, <3>1 DEF Post
    <3> QED BY <3>2 DEF IsPosted
  <2> QED BY <2>1, <2>2, <2>3, <2>4 DEF Covers
<1>12. \A i \in next.indexes : Covers(history', Latest + 1, i)
  BY <1>4, <1>7, <1>11 DEF n, g
<1> QED BY <1>7, <1>12, FinishExact DEF n, g

\* A dropped index covers nothing.
LEMMA DropExact ==
    ASSUME ExactInv, Inv', NEW c \in Conns, NEW bump \in {1, 2}, CommitDrop(c, bump)
    PROVE  ExactInv'
<1> DEFINE index == script[c].index
           lake == [Current EXCEPT !.indexes = {i \in @ : i.ref # index.ref},
                                   !.tables = @ \ {index.ref},
                                   !.postings = @ \ Posted(Latest, index)]
<1>1. Ready(c, {"drop"}) /\ Finish(c, lake, bump) /\ script[c].kind # "create"
  BY DEF CommitDrop, Ready
<1>2. \A i \in Current.indexes : i.ref = index.ref
  BY <1>1, Checked DEF ExactInv
<1> HIDE DEF index
<1>3. /\ IsLake(lake) /\ lake.indexes = {} /\ lake.rows = Current.rows
      /\ lake.next = Current.next /\ lake.table_id = Current.table_id
      /\ lake.schema_version = Current.schema_version
  BY <1>2, LastRows DEF IsLake
<1> HIDE DEF lake
<1>4. bump \in Nat
  OBVIOUS
<1>5. PICK next :
         /\ next.indexes = lake.indexes /\ Commit(next) /\ Evolves(Latest, Current, next)
         /\ script' = [script EXCEPT ![c] = NoScript]
  BY <1>1, <1>3, <1>4, FinishExtends
<1> QED BY <1>3, <1>5, FinishExact
-----------------------------------------------------------------------------
\* What holds when a refresh or a compaction commits: its index is the last
\* snapshot's, and if it is Honest the table is as covered from the covered
\* snapshot to the expansion's.
LEMMA PlannedFacts ==
    ASSUME ExactInv, NEW c \in Conns, NEW kinds, Ready(c, kinds),
           script[c].kind \in {"refresh", "compact", "purge"}
    PROVE  LET call == script[c] IN
           /\ IsIndex(call.index) /\ call.index.covered \in 1 .. call.at
           /\ call.index.ref \in 1 .. call.at
           /\ call.at \in 1 .. Latest /\ call.snapshot \in call.at .. Latest
           /\ Covers(history, call.at, call.index)
           /\ Honest(history, call.index) =>
                /\ Untouched(history, call.index.table_id, call.index.covered, call.at)
                /\ history[call.at].table_id = call.index.table_id
           /\ history[call.snapshot].postings = Current.postings
           /\ \E j \in Current.indexes :
                /\ Current.indexes = {j} /\ j.ref = call.index.ref
                /\ j.covered = call.index.covered /\ j.table_id = call.index.table_id
                /\ history[call.snapshot].indexes = {j}
<1> DEFINE call == script[c]
<1>1. call.kind # "create" /\ call.phase # "idle"
  BY DEF Ready
<1>2. /\ call.at \in 1 .. Latest /\ call.snapshot \in call.at .. Latest
      /\ history[call.snapshot].indexes = Current.indexes
      /\ history[call.snapshot].postings = Current.postings
      /\ call.index \in history[call.at].indexes
  BY <1>1, RunningScript
<1>3. /\ IsIndex(call.index)
      /\ \E j \in Current.indexes :
           /\ Current.indexes = {j} /\ j.ref = call.index.ref
           /\ j.covered = call.index.covered /\ j.table_id = call.index.table_id
  BY <1>1, Checked DEF ExactInv
<1>4. Honest(history, call.index) =>
        Untouched(history, call.index.table_id, call.index.covered, call.at)
  BY <1>1 DEF ExactInv, Planned
<1>5. Contents(history, Latest) /\ Latest \in Nat
  BY LastRows DEF ExactInv, Latest
<1> HIDE DEF call
<1>6. Covers(history, call.at, call.index)
  BY <1>2, <1>5 DEF Contents
<1>7. /\ call.index.covered \in 1 .. call.at /\ call.index.covered \in 1 .. Latest
      /\ call.index.covered <= call.at /\ call.index.ref \in 1 .. call.at
  BY <1>2, <1>5, <1>6 DEF Covers
<1>8. ASSUME Honest(history, call.index)
      PROVE  history[call.at].table_id = call.index.table_id
  <2>1. Descends(history, call.index.covered, call.at)
    BY <1>2, <1>5, <1>7 DEF Contents
  <2>2. call.index.table_id = history[call.index.covered].table_id
    BY <1>6, <1>8 DEF Covers
  <2> QED BY <1>4, <1>8, <2>1, <2>2 DEF Descends
<1> QED BY <1>2, <1>3, <1>4, <1>6, <1>7, <1>8 DEF call

\* A refreshed index covers the expansion's snapshot: a row of before is
\* posted already, a row since is in the tail.
LEMMA RefreshExact ==
    ASSUME ExactInv, Inv', NEW c \in Conns, CommitRefresh(c)
    PROVE  ExactInv'
<1> DEFINE call == script[c]
           old == call.index
           generations == Generations(call.snapshot, old)
           generation == IF generations = {} THEN 0
                         ELSE 1 + CHOOSE k \in generations : \A h \in generations : h <= k
           tail == LakeTailSource(old.covered + 1, call.at, call.feed)
           index == [old EXCEPT !.covered = Covered(call), !.schema_version = RecordedVersion(call)]
           lake == [Current EXCEPT !.indexes = Replaced(old, index),
                                   !.postings = @ \union Post(index.ref, generation, tail)]
           n == Latest
           g == history'
<1>1. Ready(c, {"refresh"}) /\ Finish(c, lake, 0) /\ call.kind = "refresh"
  BY DEF CommitRefresh, Ready
<1> HIDE DEF generation
<1>2. /\ IsIndex(old) /\ old.covered \in 1 .. call.at
      /\ call.at \in 1 .. n /\ old.ref \in 1 .. call.at
      /\ Honest(history, old) =>
           /\ Untouched(history, old.table_id, old.covered, call.at)
           /\ history[call.at].table_id = old.table_id
  BY <1>1, PlannedFacts
<1>3. PICK j \in Current.indexes :
           /\ Current.indexes = {j} /\ j.ref = old.ref
           /\ j.covered = old.covered /\ j.table_id = old.table_id
  BY <1>1, PlannedFacts
<1>4. /\ index.ref = old.ref /\ index.table_id = old.table_id /\ index.covered = call.at
      /\ index.schema_version = history[call.at].schema_version
  BY <1>2 DEF IsIndex, Covered, RecordedVersion
<1> HIDE DEF index
<1>5. Replaced(old, index) = {index}
  BY <1>3, <1>4 DEF Replaced
<1>6. /\ IsLake(lake) /\ lake.indexes = {index} /\ lake.rows = Current.rows
      /\ lake.next = Current.next /\ lake.table_id = Current.table_id
      /\ lake.postings = Current.postings \union Post(index.ref, generation, tail)
      /\ lake.schema_version = Current.schema_version
  BY <1>5, LastRows DEF IsLake
<1> HIDE DEF lake
<1>7. /\ n \in Nat \ {0} /\ Current.schema_version \in Nat
      /\ Contents(history, n)
  BY LastRows DEF RowsInv, ExactInv, Latest
<1>8. 0 \in Nat
  OBVIOUS
<1>9. PICK next :
         /\ next.postings = lake.postings /\ next.indexes = lake.indexes
         /\ Commit(next) /\ Evolves(n, Current, next)
         /\ script' = [script EXCEPT ![c] = NoScript]
         /\ Current = history[n]
         /\ g[n + 1] = next
         /\ Extends(g, history, n)
         /\ \A a \in 1 .. n + 1 : Descends(g, a, n + 1)
  BY <1>1, <1>6, <1>8, FinishExtends
<1> HIDE DEF n, g
<1>10. /\ g[call.at] = history[call.at] /\ call.at \in 1 .. n + 1
       /\ Descends(g, call.at, n + 1) /\ call.at <= n /\ n \in 1 .. n
       /\ history[call.at].schema_version \in Nat /\ old.covered <= call.at
       /\ old.covered \in 1 .. n /\ index.ref \in 1 .. n + 1
       /\ Honest(g, index) <=> Honest(history, old)
       /\ Honest(history, j) <=> Honest(history, old)
  <2> HIDE DEF call
  <2>1. call.at \in 1 .. n + 1 /\ call.at <= n /\ n \in 1 .. n /\ old.covered <= call.at
        /\ old.covered \in 1 .. n /\ old.ref \in 1 .. n /\ index.ref \in 1 .. n + 1
    BY <1>2, <1>4, <1>7
  <2>2. /\ Honest(g, index) <=> Honest(history, old)
        /\ Honest(history, j) <=> Honest(history, old)
    BY <1>3, <1>4, <1>9, <2>1 DEF Extends, Honest
  <2> QED BY <1>2, <1>7, <1>9, <2>1, <2>2 DEF Extends, Contents, RowsInv
<1>11. ASSUME Honest(history, old), Untouched(g, old.table_id, call.at, n + 1),
              NEW r \in g[n + 1].rows, r.since <= call.at
       PROVE  IsPosted(g[n + 1], old.ref, r)
  <2>1. r \in history[call.at].rows /\ r.since \in 1 .. n
    <3>1. r \in history[call.at].rows
      BY <1>2, <1>10, <1>11 DEF Descends
    <3>2. RowsInv(call.at, history[call.at])
      BY <1>2, <1>7 DEF Contents
    <3> QED BY <1>2, <1>7, <3>1, <3>2 DEF RowsInv
  <2>2. CASE r.since <= old.covered
    <3>1. Covers(history, n, j)
      BY <1>3, <1>7, <1>9, <1>10 DEF Contents
    <3>2. Untouched(history, old.table_id, call.at, n)
      <4>1. call.at + 1 .. n \subseteq call.at + 1 .. n + 1
        BY <1>2, <1>7
      <4>2. \A m \in call.at + 1 .. n : g[m] = history[m]
        BY <1>2, <1>9 DEF Extends
      <4> QED BY <1>11, <4>1, <4>2 DEF Untouched
    <3>3. Untouched(history, old.table_id, old.covered, n)
      BY <1>2, <1>7, <1>10, <1>11, <3>2, UntouchedSplits
    <3>4. r \in Current.rows
      <4>1. Current.table_id = old.table_id
        <5>1. Descends(history, call.at, n)
          BY <1>2, <1>7, <1>10 DEF Contents
        <5> QED BY <1>2, <1>9, <1>11, <3>2, <5>1 DEF Descends
      <4>2. old.table_id \notin next.touched
        BY <1>7, <1>9, <1>10, <1>11 DEF Untouched
      <4>3. r.since # n + 1
        BY <1>7, <2>1
      <4> QED BY <1>9, <1>11, <4>1, <4>2, <4>3 DEF Evolves
    <3>5. IsPosted(Current, old.ref, r)
      BY <1>3, <1>9, <1>10, <1>11, <2>2, <3>1, <3>3, <3>4 DEF Covers
    <3> QED BY <1>6, <1>9, <3>5 DEF IsPosted
  <2>3. CASE r.since > old.covered
    <3>1. Descends(history, old.covered, call.at)
      BY <1>2, <1>7, <1>10 DEF Contents
    <3>2. Covers(history, n, j)
      BY <1>3, <1>7, <1>9, <1>10 DEF Contents
    <3>3. history[old.covered].table_id = old.table_id
      BY <1>3, <1>10, <1>11, <3>2 DEF Covers
    <3>4. r \in history[r.since].rows
      BY <1>2, <1>11, <2>1, <2>3, <3>1, <3>3 DEF Descends
    <3>5. r.since \in old.covered + 1 .. call.at
      BY <1>2, <1>7, <1>11, <2>1, <2>3
    <3>6. [id |-> r.id, value |-> r.value] \in Insertions(old.covered + 1, call.at)
      BY <2>1, <3>4, <3>5 DEF Insertions
    <3>7. [id |-> r.id, value |-> r.value] \in InsertedRows(old.covered + 1, call.at)
      BY <2>1, <3>5 DEF InsertedRows
    <3>8. PICK t \in tail : t.id = r.id /\ t.value = r.value
      <4>1. [id |-> r.id, value |-> r.value] \in tail
        BY <3>6, <3>7 DEF LakeTailSource
      <4> QED BY <4>1
    <3>9. [ref |-> index.ref, generation |-> generation, id |-> t.id, value |-> t.value]
             \in g[n + 1].postings
      BY <1>6, <1>9, <3>8 DEF Post
    <3> QED BY <1>4, <3>8, <3>9 DEF IsPosted
  <2> QED BY <1>7, <1>10, <2>1, <2>2, <2>3
<1>12. Covers(g, n + 1, index)
  <2>1. index.schema_version = g[n + 1].schema_version => \A m \in call.at + 1 .. n + 1 : g[m].touched = {}
    BY <1>4, <1>10 DEF Descends
  <2>2. index.schema_version \in Nat /\ index.schema_version <= g[n + 1].schema_version
    BY <1>4, <1>10 DEF Descends
  <2>3. Honest(g, index) => index.table_id = g[index.covered].table_id
    BY <1>2, <1>4, <1>10
  <2> QED BY <1>4, <1>10, <1>11, <2>1, <2>2, <2>3 DEF Covers, Untouched
<1>13. \A i \in next.indexes : Covers(history', Latest + 1, i)
  BY <1>6, <1>9, <1>12 DEF n, g
<1> QED BY <1>9, <1>13, FinishExact DEF n, g

\* A compaction keeps the posting of every covered row that its table holds.
LEMMA CompactExact ==
    ASSUME ExactInv, Inv', NEW c \in Conns, CommitCompact(c)
    PROVE  ExactInv'
<1> DEFINE call == script[c]
           old == call.index
           index == [old EXCEPT !.schema_version = RecordedVersion(call)]
           lake == [Current EXCEPT !.indexes = Replaced(index, index),
                                   !.postings = (@ \ Posted(Latest, index)) \union
                                                    Post(index.ref, 0, Kept(call))]
           n == Latest
           g == history'
<1>1. Ready(c, {"compact", "purge"}) /\ Finish(c, lake, 0) /\ call.kind \in {"compact", "purge"}
  BY DEF CommitCompact, Ready
<1>2. /\ IsIndex(old) /\ old.covered \in 1 .. call.at
      /\ call.at \in 1 .. n /\ call.snapshot \in call.at .. n
      /\ Covers(history, call.at, old) /\ old.ref \in 1 .. call.at
      /\ Honest(history, old) =>
           /\ Untouched(history, old.table_id, old.covered, call.at)
           /\ history[call.at].table_id = old.table_id
      /\ history[call.snapshot].postings = Current.postings
  BY <1>1, PlannedFacts
<1>3. PICK j \in Current.indexes :
           /\ Current.indexes = {j} /\ j.ref = old.ref
           /\ j.covered = old.covered /\ j.table_id = old.table_id
           /\ history[call.snapshot].indexes = {j}
  BY <1>1, PlannedFacts
<1>4. /\ index.ref = old.ref /\ index.table_id = old.table_id /\ index.covered = old.covered
      /\ index.schema_version = history[call.at].schema_version
  BY <1>2 DEF IsIndex, RecordedVersion
<1> HIDE DEF index
<1>5. Replaced(index, index) = {index}
  BY <1>3, <1>4 DEF Replaced
<1>6. /\ IsLake(lake) /\ lake.indexes = {index} /\ lake.rows = Current.rows
      /\ lake.next = Current.next /\ lake.table_id = Current.table_id
      /\ Post(index.ref, 0, Kept(call)) \subseteq lake.postings
      /\ lake.schema_version = Current.schema_version
  BY <1>5, LastRows DEF IsLake
<1> HIDE DEF lake
<1>7. /\ n \in Nat \ {0} /\ Current.schema_version \in Nat
      /\ RowsInv(n, Current) /\ Contents(history, n)
      /\ Planned(history, call) /\ call.phase # "idle"
  BY <1>1, LastRows DEF RowsInv, ExactInv, Latest, Ready
<1>8. 0 \in Nat
  OBVIOUS
<1>9. PICK next :
         /\ next.postings = lake.postings /\ next.indexes = lake.indexes
         /\ Commit(next) /\ Evolves(n, Current, next)
         /\ script' = [script EXCEPT ![c] = NoScript]
         /\ Current = history[n]
         /\ g[n + 1] = next
         /\ Extends(g, history, n)
         /\ \A a \in 1 .. n + 1 : Descends(g, a, n + 1)
  BY <1>1, <1>6, <1>8, FinishExtends
<1> HIDE DEF n, g
<1>10. /\ call.at \in 1 .. n + 1 /\ call.at <= n /\ old.covered <= call.at
       /\ old.covered \in 1 .. n /\ old.covered \in 1 .. n + 1
       /\ call.snapshot \in 1 .. n /\ call.snapshot \in 1 .. n + 1
       /\ call.at <= call.snapshot /\ call.snapshot <= n /\ old.covered <= call.snapshot
       /\ old.ref \in 1 .. n /\ index.ref \in 1 .. n + 1
  <2> HIDE DEF call
  <2> QED BY <1>2, <1>4, <1>7
<1>11. /\ g[call.at] = history[call.at] /\ g[call.snapshot] = history[call.snapshot]
       /\ Descends(g, call.at, n + 1) /\ Descends(g, call.snapshot, n + 1)
       /\ history[call.at].schema_version \in Nat
       /\ Covers(history, call.snapshot, j)
       /\ Honest(g, index) <=> Honest(history, old)
       /\ Honest(history, j) <=> Honest(history, old)
  <2>1. /\ Honest(g, index) <=> Honest(history, old)
        /\ Honest(history, j) <=> Honest(history, old)
    BY <1>3, <1>4, <1>9, <1>10 DEF Extends, Honest
  <2> QED BY <1>2, <1>3, <1>7, <1>9, <1>10, <2>1 DEF Extends, Contents, RowsInv
<1>12. ASSUME Honest(history, old), Untouched(g, old.table_id, old.covered, n + 1),
              NEW r \in g[n + 1].rows, r.since <= old.covered
       PROVE  IsPosted(g[n + 1], old.ref, r)
  <2>1. /\ Untouched(g, old.table_id, call.at, n + 1)
        /\ Untouched(g, old.table_id, call.snapshot, n + 1)
        /\ Untouched(g, old.table_id, old.covered, call.snapshot)
    <3> DEFINE a == old.covered
               b == call.at
               d == call.snapshot
    <3>1. a \in Int /\ b \in Int /\ d \in Int /\ n + 1 \in Int
          /\ a <= b /\ b <= n + 1 /\ a <= d /\ d <= n + 1
      BY <1>7, <1>10
    <3>2. Untouched(g, old.table_id, a, n + 1)
      BY <1>12
    <3> HIDE DEF a, b, d
    <3>3. Untouched(g, old.table_id, b, n + 1)
      BY <3>1, <3>2, UntouchedSplits
    <3>4. Untouched(g, old.table_id, a, d) /\ Untouched(g, old.table_id, d, n + 1)
      BY <3>1, <3>2, UntouchedSplits
    <3> QED BY <3>3, <3>4 DEF a, b, d
  <2>2. Untouched(history, old.table_id, old.covered, call.snapshot)
    BY <1>7, <1>9, <1>10, <2>1, OldSnapshots
  <2>3. history[call.snapshot].table_id = old.table_id
    <3>1. Descends(history, old.covered, call.snapshot)
      BY <1>7, <1>10 DEF Contents
    <3>2. history[old.covered].table_id = old.table_id
      BY <1>2, <1>12 DEF Covers
    <3> QED BY <2>2, <3>1, <3>2 DEF Descends
  <2>4. r.since \in Int /\ r.id \in Int
    BY <1>7, <1>9, <1>12 DEF Evolves, RowsInv
  <2>5. r \in history[call.at].rows /\ r \in history[call.snapshot].rows
    <3>1. r.since <= call.at /\ r.since <= call.snapshot
      BY <1>10, <1>12, <2>4
    <3>2. history[call.at].table_id = old.table_id
      BY <1>2, <1>12
    <3>3. r \in g[call.at].rows
      BY <1>11, <1>12, <2>1, <3>1, <3>2 DEF Descends
    <3>4. r \in g[call.snapshot].rows
      BY <1>11, <1>12, <2>1, <2>3, <3>1 DEF Descends
    <3> QED BY <1>11, <3>3, <3>4
  <2>6. r.id \in call.segments
    <3>1. PICK p \in history[call.at].postings : p.ref = old.ref /\ p.id = r.id
      BY <1>2, <1>12, <2>5 DEF Covers, IsPosted
    <3> QED BY <1>1, <1>7, <2>4, <3>1 DEF Planned
  <2>7. PICK p \in history[call.snapshot].postings :
             p.ref = old.ref /\ p.id = r.id /\ p.value = r.value
    BY <1>3, <1>11, <1>12, <2>2, <2>5 DEF Covers, IsPosted
  <2>8. p \in Kept(call)
    BY <2>5, <2>6, <2>7 DEF Kept, Posted
  <2>9. [ref |-> index.ref, generation |-> 0, id |-> p.id, value |-> p.value] \in g[n + 1].postings
    BY <1>6, <1>9, <2>8 DEF Post
  <2> QED BY <1>4, <2>7, <2>9 DEF IsPosted
<1>13. Covers(g, n + 1, index)
  <2>1. /\ index.covered \in 1 .. n + 1
        /\ Honest(g, index) => index.table_id = g[index.covered].table_id
    BY <1>2, <1>4, <1>9, <1>10, <1>11 DEF Covers, Extends
  <2>2. index.schema_version \in Nat /\ index.schema_version <= g[n + 1].schema_version
    BY <1>4, <1>11 DEF Descends
  <2>3. ASSUME Honest(g, index), index.schema_version = g[n + 1].schema_version
        PROVE  Untouched(g, index.table_id, index.covered, n + 1)
    <3>1. Untouched(g, old.table_id, call.at, n + 1)
      BY <1>4, <1>11, <2>3 DEF Descends, Untouched
    <3>2. Untouched(g, old.table_id, old.covered, call.at)
      BY <1>2, <1>7, <1>9, <1>10, <1>11, <2>3, OldSnapshots
    <3> QED BY <1>4, <1>7, <1>10, <3>1, <3>2, UntouchedSplits
  <2> QED BY <1>4, <1>10, <1>11, <1>12, <2>1, <2>2, <2>3 DEF Covers
<1>14. \A i \in next.indexes : Covers(history', Latest + 1, i)
  BY <1>6, <1>9, <1>13 DEF n, g
<1> QED BY <1>9, <1>14, FinishExact DEF n, g

\* A step of a script keeps the contents.
LEMMA MaintainExact ==
    ASSUME ExactInv, NEW c \in Conns, MaintainNext(c)
    PROVE  ExactInv'
<1>0. Inv'
  BY MaintainInv DEF ExactInv
<1>1. CASE ExpandCreate(c)
  BY <1>0, <1>1, ExpandKeepsContents DEF ExpandCreate
<1>2. ASSUME NEW index \in Current.indexes, ExpandRefresh(c, index) PROVE ExactInv'
  BY <1>0, <1>2, ExpandKeepsContents DEF ExpandRefresh
<1>3. ASSUME NEW index \in Current.indexes, ExpandDrop(c, index) PROVE ExactInv'
  BY <1>0, <1>3, ExpandKeepsContents DEF ExpandDrop
<1>4. ASSUME NEW index \in Current.indexes, NEW kind \in {"compact", "purge"},
             ExpandCompact(c, index, kind)
      PROVE  ExactInv'
  BY <1>0, <1>4, ExpandKeepsContents DEF ExpandCompact
<1>5. Planned(history, NoScript)
  BY DEF Planned, NoScript
<1>6. CASE Start(c)
  <2> DEFINE call == [script[c] EXCEPT !.phase = "running", !.snapshot = Latest]
  <2>1. IsCall(script[c]) /\ script[c].phase = "expanded" /\ Planned(history, script[c])
    BY <1>6 DEF ExactInv, Inv, ScriptInv, Start
  <2>2. call.kind = script[c].kind /\ call.at = script[c].at /\ call.index = script[c].index
        /\ call.segments = script[c].segments
    BY <2>1 DEF IsCall
  <2>3. /\ UNCHANGED history
        /\ \/ script' = [script EXCEPT ![c] = call]
           \/ script' = [script EXCEPT ![c] = NoScript]
    BY <1>6 DEF Start
  <2> HIDE DEF call
  <2>4. Planned(history, call)
    BY <2>1, <2>2 DEF Planned
  <2> QED BY <1>0, <1>5, <2>3, <2>4, ScriptKeepsContents
<1>7. CASE Abort(c)
  BY <1>0, <1>5, <1>7, ScriptKeepsContents DEF Abort
<1>8. ASSUME NEW bump \in {1, 2}, CommitCreate(c, bump) PROVE ExactInv'
  BY <1>0, <1>8, CreateExact
<1>9. ASSUME NEW bump \in {1, 2}, CommitDrop(c, bump) PROVE ExactInv'
  BY <1>0, <1>9, DropExact
<1>10. CASE CommitRefresh(c)
  BY <1>0, <1>10, RefreshExact
<1>11. CASE CommitCompact(c)
  BY <1>0, <1>11, CompactExact
<1> QED BY <1>1, <1>2, <1>3, <1>4, <1>6, <1>7, <1>8, <1>9, <1>10, <1>11 DEF MaintainNext
-----------------------------------------------------------------------------
\* What the snapshots of a lake, its index rows and its scripts are to each
\* other, in every reachable state.
THEOREM ContentsInvariant == Spec => []ExactInv
<1>1. Inv /\ Init => ExactInv
  <2> SUFFICES ASSUME Inv, Init PROVE ExactInv
    OBVIOUS
  <2>1. PICK next \in 0 .. MaxRowid + 1 : \E text \in [0 .. next - 1 -> Values] :
           history = <<[table_id |-> 1, next |-> next, schema_version |-> 1, touched |-> {}, lock |-> 0,
                        rows |-> {[id |-> r, value |-> text[r], since |-> 1] : r \in 0 .. next - 1},
                        indexes |-> {}, tables |-> {}, postings |-> {}]>>
    BY DEF Init
  <2>2. PICK text \in [0 .. next - 1 -> Values] :
           history = <<[table_id |-> 1, next |-> next, schema_version |-> 1, touched |-> {}, lock |-> 0,
                        rows |-> {[id |-> r, value |-> text[r], since |-> 1] : r \in 0 .. next - 1},
                        indexes |-> {}, tables |-> {}, postings |-> {}]>>
    BY <2>1
  <2>3. next \in Int
    BY LakeConstants
  <2> DEFINE Row(r) == [id |-> r, value |-> text[r], since |-> 1]
  <2>4. \A r \in 0 .. next - 1 : IsRow(Row(r)) /\ Row(r).id \in Int /\ Row(r).since = 1
    BY DEF IsRow
  <2> HIDE DEF Row
  <2>5. /\ Len(history) = 1 /\ history[1].rows = {Row(r) : r \in 0 .. next - 1}
        /\ history[1].next = next /\ history[1].schema_version = 1 /\ history[1].indexes = {}
    BY <2>2 DEF Row
  <2>6. RowsInv(1, history[1])
    BY <2>3, <2>4, <2>5 DEF RowsInv
  <2>7. Descends(history, 1, 1)
    BY <2>6 DEF Descends, RowsInv
  <2>8. Contents(history, 1)
    BY <2>5, <2>6, <2>7 DEF Contents
  <2>9. \A c \in Conns : Planned(history, script[c])
    BY DEF Init, Planned, NoScript
  <2> QED BY <2>5, <2>8, <2>9 DEF ExactInv
<1>2. ExactInv /\ [Next]_vars => ExactInv'
  <2> SUFFICES ASSUME ExactInv, [Next]_vars PROVE ExactInv'
    OBVIOUS
  <2>1. CASE ClientNext
    BY <2>1, ClientExact
  <2>2. ASSUME NEW c \in Conns, MaintainNext(c) PROVE ExactInv'
    BY <2>2, MaintainExact
  <2>3. CASE UNCHANGED vars
    <3>1. Inv'
      BY <2>3 DEF ExactInv, vars, Inv, HistoryInv, ScriptInv, CheckStatement
    <3> QED BY <2>3, <3>1 DEF ExactInv, vars
  <2> QED BY <2>1, <2>2, <2>3 DEF Next
<1>3. Spec => Init /\ []Inv
  BY RegistryInvariant DEF Spec
<1> QED BY <1>1, <1>2, <1>3, PTL DEF Spec

\* A query at any snapshot that can still be read is offered every row that
\* matches, unless it is told to scan, whatever was committed, altered or
\* expired since: but for an index whose own create went on to alter the table
\* (lake_query.cpp, ProbeAtSnapshot; docs/ducklake.md, "Readers").
THEOREM QueriesExact == Spec => []LakeExact
<1>1. ExactInv => LakeExact
  <2> SUFFICES ASSUME ExactInv, NEW at \in (1 .. Latest) \ expired,
                      NEW index \in history[at].indexes, ~LakeStaleReason(at, index),
                      ~AlteredByCreator(index), NEW r \in history[at].rows
               PROVE  r.id \in Candidates(at, index, r.value)
    BY DEF LakeExact, Offered
  <2>1. Contents(history, Latest) /\ Latest \in Nat /\ Honest(history, index)
    BY LastRows DEF ExactInv, Latest, AlteredByCreator, Honest
  <2>2. Untouched(history, index.table_id, index.covered, at)
    BY <2>1, FreshIsUntouched
  <2>3. Covers(history, at, index) /\ RowsInv(at, history[at])
    BY <2>1 DEF Contents
  <2>4. /\ index.covered \in 1 .. at /\ index.covered \in 1 .. Latest /\ index.covered <= at
        /\ index.table_id = history[index.covered].table_id /\ r.since \in 1 .. at
    BY <2>1, <2>3 DEF Covers, RowsInv
  <2>5. CASE r.since <= index.covered
    BY <2>1, <2>2, <2>3, <2>5 DEF Covers, IsPosted, Candidates
  <2>6. CASE r.since > index.covered
    <3>1. Descends(history, index.covered, at)
      BY <2>1, <2>4 DEF Contents
    <3>2. r \in history[r.since].rows
      BY <2>2, <2>4, <2>6, <3>1 DEF Descends
    <3>3. r.since \in index.covered + 1 .. at /\ index.covered < at
      BY <2>1, <2>4, <2>6
    <3>4. [id |-> r.id, value |-> r.value] \in Insertions(index.covered + 1, at)
      BY <3>2, <3>3 DEF Insertions
    <3>5. [id |-> r.id, value |-> r.value] \in InsertedRows(index.covered + 1, at)
      BY <3>3 DEF InsertedRows
    <3> QED BY <3>3, <3>4, <3>5 DEF Candidates, LakeTailSource
  <2> QED BY <2>1, <2>4, <2>5, <2>6
<1> QED BY <1>1, ContentsInvariant, PTL

\* A covered row of an unaltered table is posted under its text, unless the
\* index's own create went on to alter the table
\* (lake_maintenance.cpp, refresh and compaction).
THEOREM CoveredArePosted == Spec => []CoveredPosted
<1>1. ExactInv => CoveredPosted
  BY DEF ExactInv, Contents, Covers, Untouched, Honest, AlteredByCreator, IsPosted,
         CoveredPosted, Latest
<1> QED BY <1>1, ContentsInvariant, PTL
=============================================================================
