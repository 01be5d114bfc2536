-------------------------- MODULE PlanAndRun_proofs --------------------------
(***************************************************************************)
(* Every run of a prepared statement answers its own snapshot, whatever     *)
(* was committed since it was planned.                                      *)
(*                                                                         *)
(* An index covers the table at every snapshot in use for as long as its    *)
(* guard is there (Covers), because every commit extends or ends what is    *)
(* there (Commits) and a vacuum takes only what no snapshot sees.  A run    *)
(* holds the vacuum lock or has found nothing below a mark of none (Held),  *)
(* so the places it found stay the places it fetches.                       *)
(***************************************************************************)
EXTENDS PlanAndRun, Ordered, FiniteSetTheorems, TLAPS

\* The ranks of the elements of a finite set are the numbers below its size.
LEMMA Ranks ==
    ASSUME NEW S \in SUBSET Int, IsFiniteSet(S)
    PROVE  /\ Cardinality(S) \in Nat
           /\ \A n \in S : Rank(S, n) \in 0 .. Cardinality(S) - 1
           /\ \A m, n \in S : m < n => Rank(S, m) < Rank(S, n)
           /\ \A i \in 0 .. Cardinality(S) - 1 : \E n \in S : Rank(S, n) = i
<1> DEFINE Below(n) == {m \in S : m < n}
<1>1. Cardinality(S) \in Nat
  BY FS_CardinalityType
<1>2. \A n \in Int : IsFiniteSet(Below(n)) /\ Rank(S, n) \in Nat
  <2> TAKE n \in Int
  <2>1. Below(n) \in SUBSET S
    OBVIOUS
  <2>2. IsFiniteSet(Below(n))
    BY <2>1, FS_Subset
  <2> QED BY <2>2, FS_CardinalityType DEF Rank
<1>3. ASSUME NEW n \in S PROVE Rank(S, n) \in 0 .. Cardinality(S) - 1
  <2>1. Below(n) \in SUBSET S /\ Below(n) # S
    OBVIOUS
  <2>2. Cardinality(Below(n)) <= Cardinality(S) /\ Cardinality(Below(n)) # Cardinality(S)
    BY <2>1, FS_Subset
  <2> QED BY <2>2, <1>1, <1>2 DEF Rank
<1>4. ASSUME NEW m \in S, NEW n \in S, m < n PROVE Rank(S, m) < Rank(S, n)
  <2>0. S \subseteq Int /\ m \in Int /\ n \in Int
    OBVIOUS
  <2>1. Below(m) \in SUBSET Below(n) /\ m \in Below(n) /\ m \notin Below(m)
    <3>1. \A r \in Below(m) : r \in S /\ r \in Int /\ r < m
      BY <2>0
    <3>2. ASSUME NEW r \in Below(m) PROVE r \in Below(n)
      BY <1>4, <2>0, <3>1
    <3>3. m \in Below(n) /\ m \notin Below(m)
      BY <1>4, <2>0
    <3> QED BY <3>2, <3>3
  <2>2. Cardinality(Below(m)) <= Cardinality(Below(n)) /\ Cardinality(Below(m)) # Cardinality(Below(n))
    BY <2>1, <1>2, FS_Subset
  <2> QED BY <2>2, <1>2 DEF Rank
<1>5. ASSUME NEW i \in 0 .. Cardinality(S) - 1 PROVE \E n \in S : Rank(S, n) = i
  <2> DEFINE T == 0 .. Cardinality(S) - 1
             f == [n \in S |-> Rank(S, n)]
  <2>1. IsFiniteSet(T) /\ Cardinality(T) = Cardinality(S)
    BY <1>1, FS_Interval
  <2>2. f \in [S -> T]
    BY <1>3
  <2>3. ASSUME NEW m \in S, NEW n \in S, f[m] = f[n] PROVE m = n
    <3>1. Rank(S, m) = Rank(S, n) /\ Rank(S, m) \in Nat /\ m \in Int /\ n \in Int
      BY <2>3, <1>2
    <3>2. ~(m < n) /\ ~(n < m)
      BY <3>1, <1>4
    <3> QED BY <3>2
  <2>4. f \in Injection(S, T)
    BY <2>2, <2>3 DEF Injection, IsInjective
  <2>5. f \in Surjection(S, T)
    BY <2>1, <2>4, FS_Injection, Zenon
  <2> QED BY <2>5 DEF Surjection
<1> QED BY <1>1, <1>3, <1>4, <1>5

\* Ascending lists every element of a finite set, each before the greater ones.
LEMMA InAscendingOrder ==
    ASSUME NEW S \in SUBSET Int, IsFiniteSet(S)
    PROVE  /\ Cardinality(S) \in Nat
           /\ DOMAIN Ascending(S) = 1 .. Cardinality(S)
           /\ Ascending(S) \in Seq(S) /\ Len(Ascending(S)) = Cardinality(S)
           /\ \A i \in DOMAIN Ascending(S) : Ascending(S)[i] \in S
           /\ \A n \in S : \E i \in DOMAIN Ascending(S) : Ascending(S)[i] = n
           /\ \A i, k \in DOMAIN Ascending(S) : i < k => Ascending(S)[i] < Ascending(S)[k]
<1> DEFINE A == Ascending(S)
<1>1. Cardinality(S) \in Nat /\ DOMAIN A = 1 .. Cardinality(S)
  BY Ranks DEF Ascending
<1>2. ASSUME NEW i \in DOMAIN A PROVE A[i] \in S /\ Rank(S, A[i]) = i - 1
  <2>1. i - 1 \in 0 .. Cardinality(S) - 1 /\ i \in 1 .. Cardinality(S)
    BY <1>1
  <2>2. \E n \in S : Rank(S, n) = i - 1
    BY <2>1, Ranks
  <2> QED BY <2>1, <2>2 DEF Ascending
<1>3. ASSUME NEW n \in S PROVE \E i \in DOMAIN A : A[i] = n
  <2>1. Rank(S, n) + 1 \in DOMAIN A /\ Rank(S, n) \in Nat
    BY <1>1, Ranks
  <2>2. A[Rank(S, n) + 1] \in S /\ Rank(S, A[Rank(S, n) + 1]) = Rank(S, n)
    BY <2>1, <1>2
  <2>3. \A m \in S : Rank(S, m) = Rank(S, n) => m = n
    <3> TAKE m \in S
    <3>1. m < n \/ n < m \/ m = n
      OBVIOUS
    <3> QED BY <3>1, <2>1, Ranks
  <2> QED BY <2>1, <2>2, <2>3
<1>4. ASSUME NEW i \in DOMAIN A, NEW k \in DOMAIN A, i < k PROVE A[i] < A[k]
  <2>1. A[i] \in S /\ A[k] \in S /\ Rank(S, A[i]) < Rank(S, A[k])
    <3>1. i \in Int /\ k \in Int
      BY <1>1
    <3> QED BY <1>1, <1>2, <1>4, <3>1
  <2>2. A[i] \in Int /\ A[k] \in Int /\ Rank(S, A[i]) \in Int /\ Rank(S, A[k]) \in Int
    <3>1. S \subseteq Int /\ i - 1 \in Int /\ k - 1 \in Int
      BY <1>1
    <3> QED BY <1>2, <3>1
  <2>3. ~(A[k] < A[i]) /\ A[k] # A[i]
    BY <2>1, <2>2, Ranks
  <2> QED BY <2>2, <2>3
<1>5. A \in Seq(S) /\ Len(A) = Cardinality(S)
  BY <1>1, <1>2 DEF Ascending
<1> QED BY <1>1, <1>2, <1>3, <1>4, <1>5
-----------------------------------------------------------------------------

\* When an item lives: a commit made it, and another removed it or none did.
Lived(item) == item.from \in 0 .. clock /\ (item.to \in 0 .. clock \/ item.to = Forever)

Item == [row : Rows, from : Nat, to : Nat]
Posting == [rowids : SUBSET Nat, from : Nat, to : Nat]
Registered == [ref : 1 .. MaxCommit, ci : BOOLEAN, hwm : Nat, from : Nat, to : Nat]

\* What is committed, and when.
ClockTypes == clock \in 0 .. MaxCommit /\ guard \in 0 .. clock /\ lock \in BOOLEAN
BaseTypes == base \in Seq(Item) /\ \A n \in DOMAIN base : Lived(base[n])
RegistryTypes ==
    registry \subseteq Registered /\ \A row \in registry : Lived(row) /\ row.ref \in 1 .. clock
SegmentTypes ==
    /\ segments \in [1 .. MaxCommit -> Seq(Posting)]
    /\ \A ref \in 1 .. MaxCommit : \A n \in DOMAIN segments[ref] : Lived(segments[ref][n])

HostTypes == ClockTypes /\ BaseTypes /\ RegistryTypes /\ SegmentTypes

\* The places up to a mark whose rows a lookup at a snapshot is to find.
Marked(snapshot, mark, ci) ==
    {n \in Places(base, snapshot) : n <= mark /\ Holds(base[n].row, ci)}

\* The rowids a snapshot's posting rows of an index give.
Posts(ref, snapshot) ==
    UNION {segments[ref][k].rowids : k \in Places(segments[ref], snapshot)}

\* One index at a time; its mark lies in the table while its guard is there; its
\* posting rows hold rowids, and rowids up to the mark only.
OneIndex == \A a, b \in Current : a = b
MarkInTable == \A index \in registry : index.ref = guard => index.hwm <= Len(base)
PostsBelowMark(s) ==
    \A index \in registry : \A k \in DOMAIN segments[index.ref] :
        Visible(index, s) /\ Visible(segments[index.ref][k], s) =>
            /\ segments[index.ref][k].rowids # {}
            /\ segments[index.ref][k].rowids \subseteq 1 .. index.hwm

\* While its guard is there an index covers the table at every snapshot in use.
Covers(s) ==
    \A index \in registry :
        Visible(index, s) /\ index.ref = guard =>
            Marked(s, index.hwm, index.ci) \subseteq Posts(index.ref, s)

IndexInv ==
    /\ OneIndex /\ MarkInTable
    /\ \A s \in 0 .. clock : PostsBelowMark(s)
    /\ \A s \in Oldest .. clock : Covers(s)

RunPhases == {"started", "locked", "full", "error", "probing", "fetching", "joining", "tail",
              "done", "malformed"}

PlanForm ==
    /\ stmt = [at |-> stmt.at, kind |-> stmt.kind, ci |-> stmt.ci, short |-> stmt.short,
               ref |-> stmt.ref]
    /\ stmt.at \in {"idle", "planned"}

RunForm ==
    /\ stmt = [kind |-> stmt.kind, ci |-> stmt.ci, short |-> stmt.short, ref |-> stmt.ref,
               at |-> stmt.at, snap |-> stmt.snap, hwm |-> stmt.hwm, manifest |-> stmt.manifest,
               rowids |-> stmt.rowids, result |-> stmt.result]
    /\ stmt.at \in RunPhases
    /\ stmt.snap \in 0 .. clock /\ stmt.hwm \in Nat /\ stmt.ref \in 1 .. clock

StmtForm ==
    /\ Running => RunForm
    /\ ~Running => PlanForm
    /\ stmt.at = "planned" => stmt.ref \in 1 .. clock

Wanted == Marked(stmt.snap, stmt.hwm, stmt.ci)

\* No row moves under the run, or it found none and the tail is the whole table.
Held(found) == lock \/ (stmt.hwm = 0 /\ found = {})

ManifestStays ==
    \A n \in DOMAIN stmt.manifest :
        n \in DOMAIN segments[stmt.ref] /\ segments[stmt.ref][n].rowids = stmt.manifest[n].rowids

ProbeInv ==
    stmt.at = "probing" =>
        /\ Held(DOMAIN stmt.manifest) /\ ManifestStays
        /\ Wanted \subseteq UNION {stmt.manifest[n].rowids : n \in DOMAIN stmt.manifest}
FetchInv ==
    stmt.at \in {"fetching", "joining"} => Held(stmt.rowids) /\ Wanted \subseteq stmt.rowids
TailInv ==
    stmt.at = "tail" =>
        /\ Held({}) /\ stmt.result \subseteq Expected
        /\ {base[n].row : n \in Wanted} \subseteq stmt.result
DoneInv == stmt.at = "done" => stmt.result = Expected

RunInv ==
    /\ StmtForm
    /\ stmt.at = "locked" => lock
    /\ ProbeInv /\ FetchInv /\ TailInv /\ DoneInv /\ PostingsStay

IInv == HostTypes /\ IndexInv /\ RunInv
-----------------------------------------------------------------------------
\* A vacuumed table holds the items that are kept, and no other.
LEMMA VacuumedTable ==
    ASSUME NEW T, NEW table \in Seq(T)
    PROVE  /\ Vacuumed(table) \in Seq(T)
           /\ \A k \in DOMAIN Vacuumed(table) : \E n \in DOMAIN table : Vacuumed(table)[k] = table[n]
           /\ \A n \in DOMAIN table :
                 table[n].to > Oldest =>
                     \E k \in DOMAIN Vacuumed(table) : Vacuumed(table)[k] = table[n]
<1> DEFINE S == {n \in DOMAIN table : table[n].to > Oldest}
           kept == Ascending(S)
           V == [k \in DOMAIN kept |-> table[kept[k]]]
<1>1. Len(table) \in Nat /\ DOMAIN table = 1 .. Len(table) /\ \A n \in DOMAIN table : table[n] \in T
  OBVIOUS
<1>2. S \in SUBSET Int /\ IsFiniteSet(S)
  <2>1. S \subseteq 1 .. Len(table)
    BY <1>1
  <2> HIDE DEF S
  <2>2. IsFiniteSet(1 .. Len(table))
    BY <1>1, FS_Interval
  <2>3. IsFiniteSet(S)
    BY <2>1, <2>2, FS_Subset
  <2> QED BY <2>1, <2>3
<1>3. Vacuumed(table) = V
  BY DEF Vacuumed
<1>4. /\ Cardinality(S) \in Nat /\ DOMAIN kept = 1 .. Cardinality(S)
      /\ \A i \in DOMAIN kept : kept[i] \in S
      /\ \A n \in S : \E i \in DOMAIN kept : kept[i] = n
  <2> HIDE DEF S
  <2> QED BY <1>2, InAscendingOrder
<1> HIDE DEF kept
<1>5. V \in Seq(T)
  <2>1. \A k \in 1 .. Cardinality(S) : table[kept[k]] \in T
    BY <1>1, <1>4
  <2> HIDE DEF S
  <2>2. V = [k \in 1 .. Cardinality(S) |-> table[kept[k]]]
    BY <1>4
  <2> HIDE DEF V
  <2> QED BY <1>4, <2>1, <2>2
<1>6. \A k \in DOMAIN V : V[k] = table[kept[k]] /\ kept[k] \in DOMAIN table
  BY <1>4
<1>7. ASSUME NEW n \in DOMAIN table, table[n].to > Oldest PROVE \E k \in DOMAIN V : V[k] = table[n]
  <2>1. PICK k \in DOMAIN kept : kept[k] = n
    BY <1>4, <1>7
  <2> QED BY <2>1
<1> HIDE DEF V, S
<1> QED BY <1>3, <1>5, <1>6, <1>7

\* A table after a commit: items stay where they are, one may be removed now.
Succeeds(old, new) ==
    /\ DOMAIN old \subseteq DOMAIN new
    /\ \A n \in DOMAIN old :
          /\ new[n].from = old[n].from
          /\ new[n].to = old[n].to \/ (old[n].to = Forever /\ new[n].to = clock + 1)
    /\ \A n \in DOMAIN new \ DOMAIN old : new[n].from = clock + 1

\* Earlier snapshots see what they saw.
LEMMA EarlierSnapshots ==
    ASSUME clock \in 0 .. MaxCommit, MaxCommit \in Nat, NEW old, NEW new,
           \A n \in DOMAIN old : Lived(old[n]), Succeeds(old, new), NEW s \in 0 .. clock
    PROVE  Places(new, s) = Places(old, s)
<1>1. ASSUME NEW n \in DOMAIN old PROVE Visible(new[n], s) <=> Visible(old[n], s)
  BY <1>1 DEF Succeeds, Lived, Visible, Forever
<1>2. ASSUME NEW n \in DOMAIN new, n \notin DOMAIN old PROVE ~Visible(new[n], s)
  BY <1>2 DEF Succeeds, Visible
<1>3. DOMAIN old \subseteq DOMAIN new
  BY DEF Succeeds
<1> QED BY <1>1, <1>2, <1>3 DEF Places

\* What the new snapshot sees of the old items, the last one saw.
LEMMA NewSnapshot ==
    ASSUME clock \in 0 .. MaxCommit - 1, MaxCommit \in Nat, NEW old, NEW new,
           \A n \in DOMAIN old : Lived(old[n]), Succeeds(old, new),
           NEW n \in DOMAIN old, Visible(new[n], clock + 1)
    PROVE  Visible(old[n], clock)
BY DEF Succeeds, Lived, Visible, Forever

\* An item that no commit touches is seen by the new snapshot as by the last.
LEMMA StillVisible ==
    ASSUME clock \in 0 .. MaxCommit - 1, MaxCommit \in Nat, NEW item, Lived(item)
    PROVE  Visible(item, clock + 1) <=> Visible(item, clock)
BY DEF Lived, Visible, Forever

-----------------------------------------------------------------------------
(* What a commit does to a table of postings *)

\* A segments table after a commit that posts a set of rowids.
AfterPosting(old, new, rowids) ==
    /\ new \in Seq(Posting) /\ Succeeds(old, new)
    /\ \A n \in DOMAIN old : new[n].rowids = old[n].rowids
    /\ \A n \in DOMAIN new \ DOMAIN old :
          rowids # {} /\ new[n] = [rowids |-> rowids, from |-> clock + 1, to |-> Forever]
    /\ rowids # {} => DOMAIN new \ DOMAIN old # {}

\* What every commit of the host does.
Commits ==
    /\ clock < MaxCommit /\ clock' = clock + 1 /\ UNCHANGED <<text, lock, stmt>>
    /\ Succeeds(base, base') /\ \A n \in DOMAIN base : base'[n].row = base[n].row
    /\ \A ref \in 1 .. clock :
          /\ Succeeds(segments[ref], segments'[ref])
          /\ \A n \in DOMAIN segments[ref] : segments'[ref][n].rowids = segments[ref][n].rowids
    /\ \A row \in registry' :
          \/ row.from = clock + 1
          \/ \E old \in registry :
                /\ row.ref = old.ref /\ row.ci = old.ci /\ row.hwm = old.hwm /\ row.from = old.from
                /\ row.to = old.to \/ (old.to = Forever /\ row.to = clock + 1)
    /\ guard' \in {guard, None, clock + 1}

\* A table that is left alone, one whose live rows are removed, and one row more.
LEMMA LeftAlone ==
    ASSUME NEW old \in Seq(Posting)
    PROVE  AfterPosting(old, old, {})
BY DEF AfterPosting, Succeeds

\* Each live posting row ends at its place.
LEMMA AllEnded ==
    ASSUME NEW old \in Seq(Posting), clock \in Nat, clock' = clock + 1
    PROVE  /\ AfterPosting(old, EndPlaces(old), {})
           /\ DOMAIN EndPlaces(old) = DOMAIN old
<1> DEFINE new == EndPlaces(old)
<1>1. Len(old) \in Nat /\ DOMAIN old = 1 .. Len(old) /\ \A n \in 1 .. Len(old) : old[n] \in Posting
  OBVIOUS
<1>2. DOMAIN new = DOMAIN old
  BY DEF EndPlaces
<1>3. ASSUME NEW n \in 1 .. Len(old)
      PROVE  /\ new[n] \in Posting /\ new[n].rowids = old[n].rowids /\ new[n].from = old[n].from
             /\ new[n].to = old[n].to \/ (old[n].to = Forever /\ new[n].to = clock + 1)
  <2>1. new[n] = IF old[n].to = Forever THEN [old[n] EXCEPT !.to = clock'] ELSE old[n]
    BY <1>1 DEF EndPlaces
  <2>2. old[n] \in Posting
    BY <1>1
  <2>3. [old[n] EXCEPT !.to = clock'] \in Posting
    <3>1. [old[n] EXCEPT !.to = clock']
            = [rowids |-> old[n].rowids, from |-> old[n].from, to |-> clock']
      <4>1. old[n] = [rowids |-> old[n].rowids, from |-> old[n].from, to |-> old[n].to]
        BY <2>2 DEF Posting
      <4>2. ASSUME NEW r, NEW f, NEW t, NEW u
            PROVE  [[rowids |-> r, from |-> f, to |-> t] EXCEPT !.to = u]
                     = [rowids |-> r, from |-> f, to |-> u]
        OBVIOUS
      <4> QED BY <4>1, <4>2
    <3>2. clock' \in Nat
      OBVIOUS
    <3> QED BY <2>2, <3>1, <3>2 DEF Posting
  <2> HIDE DEF new
  <2>4. CASE old[n].to = Forever
    <3>1. new[n] = [old[n] EXCEPT !.to = clock']
      BY <2>1, <2>4
    <3> QED BY <2>2, <2>3, <2>4, <3>1 DEF Posting
  <2>5. CASE old[n].to # Forever
    BY <2>1, <2>2, <2>5
  <2> QED BY <2>4, <2>5
<1>4. new \in Seq(Posting)
  <2>1. new = [n \in 1 .. Len(old) |-> new[n]]
    BY <1>1 DEF EndPlaces
  <2> HIDE DEF new
  <2> QED BY <1>1, <1>3, <2>1
<1> HIDE DEF new
<1>5. Succeeds(old, new)
  BY <1>1, <1>2, <1>3 DEF Succeeds
<1>6. AfterPosting(old, new, {})
  BY <1>1, <1>2, <1>3, <1>4, <1>5 DEF AfterPosting
<1> QED BY <1>2, <1>6 DEF new

\* One posting row more, behind those that are there.
LEMMA OneMore ==
    ASSUME NEW old, NEW mid, AfterPosting(old, mid, {}), DOMAIN mid = DOMAIN old,
           NEW rowids \in SUBSET Nat, clock \in Nat, clock' = clock + 1, MaxCommit \in Nat
    PROVE  AfterPosting(old, mid \o PostingRow(rowids), rowids)
<1> DEFINE more == PostingRow(rowids)
           item == [rowids |-> rowids, from |-> clock + 1, to |-> Forever]
           new == mid \o more
<1>1. mid \in Seq(Posting) /\ Succeeds(old, mid)
      /\ \A n \in DOMAIN old : mid[n].rowids = old[n].rowids
  BY DEF AfterPosting
<1>2. CASE rowids = {}
  <2>1. more = <<>>
    BY <1>2 DEF PostingRow
  <2>2. new = mid
    BY <1>1, <2>1
  <2> QED BY <1>2, <2>2 DEF AfterPosting
<1>3. CASE rowids # {}
  <2>1. more = <<item>> /\ item \in Posting
    <3>1. more = <<item>>
      BY <1>3 DEF PostingRow
    <3> QED BY <3>1 DEF Posting, Forever
  <2> HIDE DEF more, item
  <2>2. /\ new \in Seq(Posting) /\ Len(new) = Len(mid) + 1 /\ Len(mid) \in Nat
        /\ DOMAIN new = 1 .. Len(new) /\ DOMAIN mid = 1 .. Len(mid)
        /\ \A n \in DOMAIN mid : new[n] = mid[n]
        /\ new[Len(mid) + 1] = item
    BY <1>1, <2>1
  <2> HIDE DEF new
  <2>3. DOMAIN new \ DOMAIN old = {Len(mid) + 1}
    BY <2>2
  <2>4. Succeeds(old, new)
    <3>1. item.from = clock + 1
      BY DEF item
    <3>2. DOMAIN old \subseteq DOMAIN new
      BY <2>2
    <3> QED BY <1>1, <2>2, <2>3, <3>1, <3>2 DEF Succeeds
  <2>5. \A n \in DOMAIN new \ DOMAIN old : new[n] = item
    BY <2>2, <2>3
  <2>6. \A n \in DOMAIN old : new[n].rowids = old[n].rowids
    BY <1>1, <2>2
  <2>7. AfterPosting(old, new, rowids)
    BY <1>3, <2>2, <2>3, <2>4, <2>5, <2>6 DEF AfterPosting, item
  <2> QED BY <2>7 DEF new, more
<1> QED BY <1>2, <1>3

\* The items of a table live in the commits so far.
LEMMA StillLived ==
    ASSUME NEW old, NEW new, NEW rowids, AfterPosting(old, new, rowids), clock \in Nat, clock' = clock + 1,
           \A n \in DOMAIN old : Lived(old[n])
    PROVE  \A n \in DOMAIN new : Lived(new[n])'
<1> SUFFICES ASSUME NEW n \in DOMAIN new
             PROVE  new[n].from \in 0 .. clock + 1 /\ (new[n].to \in 0 .. clock + 1 \/ new[n].to = Forever)
  BY DEF Lived, Forever
<1>1. CASE n \in DOMAIN old
  BY <1>1 DEF AfterPosting, Succeeds, Lived
<1>2. CASE n \notin DOMAIN old
  BY <1>2 DEF AfterPosting
<1> QED BY <1>1, <1>2

-----------------------------------------------------------------------------
(* Earlier snapshots see what they saw *)

\* The clock takes its next value, within its bound.
LEMMA Clock ==
    ASSUME HostTypes, Commits
    PROVE  /\ clock \in 0 .. MaxCommit - 1 /\ MaxCommit \in Nat /\ clock' = clock + 1
           /\ clock' \in 0 .. MaxCommit /\ clock \in 0 .. clock'
           /\ Forever' = Forever /\ clock + 1 \notin 1 .. clock
<1>1. clock \in 0 .. MaxCommit /\ MaxCommit \in Nat /\ clock < MaxCommit /\ clock' = clock + 1
  BY PlanInputs DEF HostTypes, ClockTypes, BaseTypes, RegistryTypes, SegmentTypes, Commits
<1> QED BY <1>1 DEF Forever

\* Earlier snapshots see the rows and the posting rows they saw.
LEMMA EarlierRows ==
    ASSUME HostTypes, Commits, NEW s \in 0 .. clock
    PROVE  /\ Places(base', s) = Places(base, s)
           /\ \A n \in Places(base, s) : base'[n].row = base[n].row
<1>1. Places(base', s) = Places(base, s)
  <2>1. \A n \in DOMAIN base : Lived(base[n])
    BY DEF HostTypes, ClockTypes, BaseTypes, RegistryTypes, SegmentTypes
  <2>2. Succeeds(base, base')
    BY DEF Commits
  <2> QED BY <2>1, <2>2, Clock, EarlierSnapshots
<1> QED BY <1>1 DEF Commits, Places

\* A lookup at an earlier snapshot is to find what it was.
LEMMA EarlierMarked ==
    ASSUME HostTypes, Commits, NEW s \in 0 .. clock, NEW mark, NEW ci
    PROVE  Marked(s, mark, ci)' = Marked(s, mark, ci)
<1>1. /\ Places(base', s) = Places(base, s)
      /\ \A n \in Places(base, s) : base'[n].row = base[n].row
  BY EarlierRows
<1>2. text' = text
  BY DEF Commits
<1>3. Marked(s, mark, ci)' = {n \in Places(base', s) : n <= mark /\ Holds(base'[n].row, ci)}
  BY <1>2 DEF Marked, Places, Visible, Holds
<1> QED BY <1>1, <1>3 DEF Marked

\* The postings of an earlier snapshot are the same.
LEMMA EarlierPosts ==
    ASSUME HostTypes, Commits, NEW s \in 0 .. clock, NEW ref \in 1 .. clock
    PROVE  /\ Places(segments'[ref], s) = Places(segments[ref], s)
           /\ \A k \in Places(segments[ref], s) : segments'[ref][k].rowids = segments[ref][k].rowids
           /\ Posts(ref, s)' = Posts(ref, s)
<1>1. Places(segments'[ref], s) = Places(segments[ref], s)
  <2>1. ref \in 1 .. MaxCommit
    BY Clock
  <2>2. \A n \in DOMAIN segments[ref] : Lived(segments[ref][n])
    BY <2>1 DEF HostTypes, ClockTypes, BaseTypes, RegistryTypes, SegmentTypes
  <2>3. Succeeds(segments[ref], segments'[ref])
    BY DEF Commits
  <2> QED BY <2>2, <2>3, Clock, EarlierSnapshots
<1>2. \A k \in Places(segments[ref], s) : segments'[ref][k].rowids = segments[ref][k].rowids
  BY DEF Commits, Places
<1>3. Posts(ref, s)' = UNION {segments'[ref][k].rowids : k \in Places(segments'[ref], s)}
  BY DEF Posts, Places, Visible
<1> QED BY <1>1, <1>2, <1>3 DEF Posts

\* What is said of the indexes at earlier snapshots stays true.
LEMMA EarlierIndexes ==
    ASSUME HostTypes, Commits, NEW s \in 0 .. clock
    PROVE  /\ PostsBelowMark(s) => PostsBelowMark(s)'
           /\ Covers(s) => Covers(s)'
<1>1. ASSUME NEW row \in registry', Visible(row, s)
      PROVE  \E old \in registry :
                /\ row.ref = old.ref /\ row.ci = old.ci /\ row.hwm = old.hwm /\ Visible(old, s)
                /\ old.ref \in 1 .. clock
  <2>1. clock \in 0 .. MaxCommit - 1 /\ MaxCommit \in Nat /\ row.from <= s /\ s < row.to
    BY <1>1, Clock DEF Visible
  <2>2. /\ registry \subseteq Registered
        /\ \A old \in registry : Lived(old) /\ old.ref \in 1 .. clock
    BY DEF HostTypes, ClockTypes, BaseTypes, RegistryTypes, SegmentTypes
  <2>3. row.from # clock + 1
    BY <2>1
  <2>4. PICK old \in registry :
            /\ row.ref = old.ref /\ row.ci = old.ci /\ row.hwm = old.hwm /\ row.from = old.from
            /\ row.to = old.to \/ (old.to = Forever /\ row.to = clock + 1)
    BY <2>3 DEF Commits
  <2>5. Visible(old, s)
    BY <2>1, <2>2, <2>4 DEF Visible, Forever
  <2> QED BY <2>2, <2>4, <2>5
<1>2. ASSUME PostsBelowMark(s) PROVE PostsBelowMark(s)'
  <2> SUFFICES ASSUME NEW row \in registry', NEW k \in DOMAIN segments'[row.ref],
                      Visible(row, s), Visible(segments'[row.ref][k], s)
               PROVE  /\ segments'[row.ref][k].rowids # {}
                      /\ segments'[row.ref][k].rowids \subseteq 1 .. row.hwm
    BY DEF PostsBelowMark, Visible
  <2>1. PICK old \in registry :
            /\ row.ref = old.ref /\ row.hwm = old.hwm /\ Visible(old, s) /\ old.ref \in 1 .. clock
    BY <1>1
  <2>2. k \in Places(segments'[old.ref], s)
    BY <2>1 DEF Places
  <2>3. k \in Places(segments[old.ref], s) /\ segments'[old.ref][k].rowids = segments[old.ref][k].rowids
    BY <2>1, <2>2, EarlierPosts
  <2>4. k \in DOMAIN segments[old.ref] /\ Visible(segments[old.ref][k], s)
    BY <2>3 DEF Places
  <2> QED BY <1>2, <2>1, <2>3, <2>4 DEF PostsBelowMark
<1>3. ASSUME Covers(s) PROVE Covers(s)'
  <2> SUFFICES ASSUME NEW row \in registry', Visible(row, s), row.ref = guard'
               PROVE  Marked(s, row.hwm, row.ci)' \subseteq Posts(row.ref, s)'
    BY DEF Covers, Visible
  <2>1. PICK old \in registry :
            /\ row.ref = old.ref /\ row.ci = old.ci /\ row.hwm = old.hwm /\ Visible(old, s)
            /\ old.ref \in 1 .. clock
    BY <1>1
  <2>2. guard' = guard
    <3>1. old.ref # None /\ old.ref # clock + 1
      BY <2>1, Clock DEF None
    <3> QED BY <2>1, <3>1 DEF Commits
  <2>3. Marked(s, old.hwm, old.ci) \subseteq Posts(old.ref, s)
    BY <1>3, <2>1, <2>2 DEF Covers
  <2>4. Marked(s, row.hwm, row.ci)' = Marked(s, row.hwm, row.ci)
    BY EarlierMarked
  <2>5. Posts(row.ref, s)' = Posts(row.ref, s)
    BY <2>1, EarlierPosts
  <2> QED BY <2>1, <2>3, <2>4, <2>5
<1> QED BY <1>2, <1>3

-----------------------------------------------------------------------------
(* The run, while others commit *)

\* The oldest snapshot in use is none of the future.
LEMMA OldestType ==
    ASSUME HostTypes, StmtForm
    PROVE  Oldest \in 0 .. clock /\ (Running => stmt.snap \in 0 .. clock)
<1>1. clock \in Nat
  BY DEF HostTypes, ClockTypes, BaseTypes, RegistryTypes, SegmentTypes
<1>2. Running => stmt.snap \in 0 .. clock
  BY DEF StmtForm, RunForm
<1> QED BY <1>1, <1>2 DEF Oldest

\* The statement runs under its snapshot while others commit.
LEMMA CommitKeepsRun ==
    ASSUME HostTypes, RunInv, Commits
    PROVE  RunInv' /\ Oldest' \in Oldest .. clock'
<1>1. stmt' = stmt /\ lock' = lock /\ text' = text
  BY DEF Commits
<1>2. /\ clock \in Nat /\ clock' = clock + 1 /\ clock \in 0 .. MaxCommit - 1 /\ MaxCommit \in Nat
  BY Clock
<1>3. StmtForm'
  <2>1. Running => RunForm'
    BY <1>1, <1>2 DEF RunInv, StmtForm, RunForm
  <2>2. ~Running => PlanForm'
    BY <1>1 DEF RunInv, StmtForm, PlanForm
  <2>3. stmt.at = "planned" => stmt.ref \in 1 .. clock'
    BY <1>1, <1>2 DEF RunInv, StmtForm
  <2> QED BY <1>1, <2>1, <2>2, <2>3 DEF StmtForm, Running
<1>4. Oldest' \in Oldest .. clock'
  <2>1. Oldest \in 0 .. clock /\ (Running => stmt.snap \in 0 .. clock)
    BY OldestType DEF RunInv
  <2>2. CASE Running
    BY <1>1, <1>2, <2>1, <2>2 DEF Oldest, Running
  <2>3. CASE ~Running
    BY <1>1, <1>2, <2>1, <2>3 DEF Oldest, Running
  <2> QED BY <2>2, <2>3
<1>5. CASE ~Running
  BY <1>1, <1>3, <1>4, <1>5
     DEF RunInv, Running, ProbeInv, FetchInv, TailInv, DoneInv, PostingsStay
<1>6. CASE Running
  <2>1. stmt.snap \in 0 .. clock /\ stmt.ref \in 1 .. clock
    BY <1>6 DEF RunInv, StmtForm, RunForm
  <2>2. Wanted' = Wanted
    <3>1. Marked(stmt.snap, stmt.hwm, stmt.ci)' = Marked(stmt.snap, stmt.hwm, stmt.ci)
      <4>1. PICK s \in 0 .. clock : s = stmt.snap
        BY <2>1
      <4>2. PICK m, c : m = stmt.hwm /\ c = stmt.ci
        OBVIOUS
      <4>3. Marked(s, m, c)' = Marked(s, m, c)
        BY EarlierMarked
      <4>4. Marked(stmt.snap, stmt.hwm, stmt.ci)' = Marked(s, m, c)'
        BY <1>1, <4>1, <4>2 DEF Marked, Places, Visible, Holds
      <4> QED BY <4>1, <4>2, <4>3, <4>4
    <3> QED BY <3>1 DEF Wanted
  <2>3. /\ Places(base', stmt.snap) = Places(base, stmt.snap)
        /\ \A n \in Places(base, stmt.snap) : base'[n].row = base[n].row
    BY <2>1, EarlierRows
  <2>4. Expected' = Expected
    <3>1. Expected' = {base'[n].row : n \in {m \in Places(base', stmt.snap) : Holds(base'[m].row, stmt.ci)}}
      BY <1>1 DEF Expected, Places, Visible, Holds
    <3> QED BY <2>3, <3>1 DEF Expected
  <2>5. {base[n].row : n \in Wanted}' = {base[n].row : n \in Wanted}
    <3>1. Wanted \subseteq Places(base, stmt.snap)
      BY DEF Wanted, Marked
    <3> QED BY <2>2, <2>3, <3>1
  <2>6. \A found : Held(found)' <=> Held(found)
    BY <1>1 DEF Held
  <2>7. ManifestStays => ManifestStays'
    <3>1. Succeeds(segments[stmt.ref], segments'[stmt.ref])
          /\ \A n \in DOMAIN segments[stmt.ref] :
                segments'[stmt.ref][n].rowids = segments[stmt.ref][n].rowids
      BY <2>1 DEF Commits
    <3> QED BY <1>1, <3>1 DEF ManifestStays, Succeeds
  <2>8. ProbeInv'
    BY <1>1, <2>2, <2>6, <2>7 DEF RunInv, ProbeInv, Held
  <2>9. FetchInv'
    BY <1>1, <2>2, <2>6 DEF RunInv, FetchInv, Held
  <2>10. TailInv'
    BY <1>1, <2>4, <2>5, <2>6 DEF RunInv, TailInv, Held
  <2>11. DoneInv'
    BY <1>1, <2>4 DEF RunInv, DoneInv
  <2> QED BY <1>1, <1>3, <1>4, <2>8, <2>9, <2>10, <2>11 DEF RunInv, PostingsStay
<1> QED BY <1>5, <1>6

-----------------------------------------------------------------------------
(* What a commit leaves alone *)

\* What is left to show of a commit is what the new snapshot sees.
LEMMA IndexStep ==
    ASSUME HostTypes, IndexInv, RunInv, Commits, OneIndex', MarkInTable',
           \A s : s = clock + 1 => PostsBelowMark(s)' /\ Covers(s)'
    PROVE  IndexInv'
<1>1. clock \in Nat /\ clock' = clock + 1 /\ Oldest \in 0 .. clock /\ Oldest' \in Oldest .. clock'
  BY Clock, OldestType, CommitKeepsRun DEF RunInv
<1>2. ASSUME NEW s \in 0 .. clock' PROVE PostsBelowMark(s)'
  <2>1. CASE s \in 0 .. clock
    BY <2>1, EarlierIndexes DEF IndexInv
  <2>2. CASE s \notin 0 .. clock
    <3>1. s = clock + 1
      BY <1>1, <1>2, <2>2
    <3> QED BY <3>1
  <2> QED BY <2>1, <2>2
<1>3. ASSUME NEW s \in Oldest' .. clock' PROVE Covers(s)'
  <2>1. CASE s \in 0 .. clock
    <3>1. s \in Oldest .. clock
      BY <1>1, <1>3, <2>1
    <3> QED BY <2>1, <3>1, EarlierIndexes DEF IndexInv
  <2>2. CASE s \notin 0 .. clock
    <3>1. s = clock + 1
      BY <1>1, <1>3, <2>2
    <3> QED BY <3>1
  <2> QED BY <2>1, <2>2
<1> QED BY <1>2, <1>3 DEF IndexInv

\* What a commit leaves alone keeps its type.
LEMMA LivedOn ==
    ASSUME clock \in Nat, clock' = clock + 1, NEW item, Lived(item)
    PROVE  Lived(item)'
BY DEF Lived, Forever

\* A table no commit touches.
LEMMA KeptBase ==
    ASSUME HostTypes, clock' = clock + 1, base' = base
    PROVE  /\ BaseTypes' /\ Succeeds(base, base') /\ \A n \in DOMAIN base : base'[n].row = base[n].row
<1>1. clock \in Nat
  BY DEF HostTypes, ClockTypes
<1> QED BY <1>1 DEF HostTypes, BaseTypes, Lived, Forever, Succeeds

\* The last index the new snapshot sees is the one the old one sees.
LEMMA KeptRegistry ==
    ASSUME HostTypes, OneIndex, clock' = clock + 1, clock < MaxCommit, registry' = registry
    PROVE  /\ RegistryTypes' /\ OneIndex'
           /\ \A row \in registry : Visible(row, clock + 1) => row \in Current
<1>1. clock \in 0 .. MaxCommit - 1 /\ MaxCommit \in Nat
  BY PlanInputs DEF HostTypes, ClockTypes
<1>2. ASSUME NEW row \in registry PROVE Lived(row)' /\ row.ref \in 1 .. clock'
  BY <1>1 DEF HostTypes, RegistryTypes, Lived, Forever
<1>3. ASSUME NEW row \in registry, Visible(row, clock + 1) PROVE row \in Current
  <2>1. Lived(row)
    BY DEF HostTypes, RegistryTypes
  <2> QED BY <1>1, <1>3, <2>1, StillVisible DEF Current
<1>4. RegistryTypes'
  BY <1>2 DEF HostTypes, RegistryTypes
<1>5. OneIndex'
  <2>1. Current' = {row \in registry : Visible(row, clock + 1)}
    BY DEF Current, Visible
  <2>2. Current' \subseteq Current
    BY <1>3, <2>1
  <2> QED BY <2>2 DEF OneIndex
<1> QED BY <1>3, <1>4, <1>5

\* Posting rows no commit touches.
LEMMA KeptSegments ==
    ASSUME HostTypes, clock' = clock + 1, segments' = segments
    PROVE  /\ SegmentTypes'
           /\ \A ref \in 1 .. clock :
                 /\ Succeeds(segments[ref], segments'[ref])
                 /\ \A n \in DOMAIN segments[ref] : segments'[ref][n].rowids = segments[ref][n].rowids
<1>1. clock \in Nat
  BY DEF HostTypes, ClockTypes
<1> QED BY <1>1 DEF HostTypes, SegmentTypes, Lived, Forever, Succeeds

\* One table of postings is extended, the others stay.
LEMMA OnePosted ==
    ASSUME HostTypes, clock' = clock + 1, NEW ref \in 1 .. MaxCommit, NEW old, NEW table, NEW rowids,
           segments' = [segments EXCEPT ![ref] = table], AfterPosting(old, table, rowids),
           IF ref <= clock THEN old = segments[ref] ELSE old = <<>>
    PROVE  /\ SegmentTypes'
           /\ \A r \in 1 .. clock :
                 /\ Succeeds(segments[r], segments'[r])
                 /\ \A n \in DOMAIN segments[r] : segments'[r][n].rowids = segments[r][n].rowids
<1>1. clock \in Nat /\ clock \in 0 .. MaxCommit /\ MaxCommit \in Nat
  BY PlanInputs DEF HostTypes, ClockTypes
<1>2. segments \in [1 .. MaxCommit -> Seq(Posting)]
  BY DEF HostTypes, SegmentTypes
<1>3. segments'[ref] = table /\ \A r \in 1 .. MaxCommit : r # ref => segments'[r] = segments[r]
  BY <1>2
<1>4. table \in Seq(Posting)
  BY DEF AfterPosting
<1>5. segments' \in [1 .. MaxCommit -> Seq(Posting)]
  BY <1>2, <1>4
<1>6. ASSUME NEW r \in 1 .. MaxCommit
      PROVE  \A n \in DOMAIN segments'[r] : Lived(segments[r][n])'
  <2>1. \A n \in DOMAIN segments[r] : Lived(segments[r][n])
    BY DEF HostTypes, SegmentTypes
  <2>2. CASE r = ref
    <3>1. \A n \in DOMAIN table : Lived(table[n])'
      <4>1. \A n \in DOMAIN old : Lived(old[n])
        BY <2>1, <2>2
      <4> QED BY <1>1, <4>1, StillLived
    <3> QED BY <1>3, <2>2, <3>1 DEF Lived
  <2>3. CASE r # ref
    <3>1. segments'[r] = segments[r]
      BY <1>3, <2>3
    <3> QED BY <1>1, <2>1, <3>1 DEF Lived, Forever
  <2> QED BY <2>2, <2>3
<1>7. ASSUME NEW r \in 1 .. clock
      PROVE  /\ Succeeds(segments[r], segments'[r])
             /\ \A n \in DOMAIN segments[r] : segments'[r][n].rowids = segments[r][n].rowids
  <2>1. CASE r = ref
    <3>1. old = segments[r] /\ segments'[r] = table
      BY <1>1, <1>3, <2>1
    <3> QED BY <3>1 DEF AfterPosting
  <2>2. CASE r # ref
    <3>1. segments'[r] = segments[r]
      BY <1>1, <1>3, <1>7, <2>2
    <3> QED BY <3>1 DEF Succeeds
  <2> QED BY <2>1, <2>2
<1> QED BY <1>5, <1>6, <1>7 DEF SegmentTypes

-----------------------------------------------------------------------------
(* Commits to the table *)

\* Below the mark the new snapshot sees only rows the last one saw.
LEMMA NewMarked ==
    ASSUME HostTypes, Commits, BaseTypes', NEW mark, mark \in Nat, mark <= Len(base), NEW ci,
           NEW s, s = clock + 1
    PROVE  Marked(s, mark, ci)' \subseteq Marked(clock, mark, ci)
<1> SUFFICES ASSUME NEW n \in DOMAIN base', Visible(base'[n], s), n <= mark, Holds(base'[n].row, ci)
             PROVE  n \in Marked(clock, mark, ci)
  BY DEF Marked, Places, Visible, Holds, Commits
<1>1. clock \in 0 .. MaxCommit - 1 /\ MaxCommit \in Nat
  BY Clock
<1>2. n \in DOMAIN base
  <2>1. DOMAIN base' = 1 .. Len(base') /\ DOMAIN base = 1 .. Len(base)
        /\ Len(base) \in Nat /\ Len(base') \in Nat
    BY DEF HostTypes, BaseTypes
  <2> QED BY <2>1
<1>3. Succeeds(base, base') /\ base'[n].row = base[n].row
  BY <1>2 DEF Commits
<1>4. Visible(base[n], clock)
  <2>1. \A m \in DOMAIN base : Lived(base[m])
    BY DEF HostTypes, BaseTypes
  <2> QED BY <1>1, <1>2, <1>3, <2>1, NewSnapshot
<1> QED BY <1>2, <1>3, <1>4 DEF Marked, Places

\* What the new snapshot sees of a table of postings: the old rows or the new.
LEMMA NewPlaces ==
    ASSUME HostTypes, Commits, NEW ref \in 1 .. clock, NEW rowids,
           AfterPosting(segments[ref], segments'[ref], rowids),
           NEW k \in DOMAIN segments'[ref], Visible(segments'[ref][k], clock + 1)
    PROVE  \/ /\ k \in DOMAIN segments[ref] /\ Visible(segments[ref][k], clock)
              /\ segments'[ref][k].rowids = segments[ref][k].rowids
           \/ rowids # {} /\ segments'[ref][k].rowids = rowids
<1>1. clock \in 0 .. MaxCommit - 1 /\ MaxCommit \in Nat /\ ref \in 1 .. MaxCommit
  BY Clock
<1>2. CASE k \in DOMAIN segments[ref]
  <2>1. \A n \in DOMAIN segments[ref] : Lived(segments[ref][n])
    BY <1>1 DEF HostTypes, SegmentTypes
  <2>2. Succeeds(segments[ref], segments'[ref])
    BY DEF AfterPosting
  <2>3. Visible(segments[ref][k], clock)
    BY <1>1, <1>2, <2>1, <2>2, NewSnapshot
  <2> QED BY <1>2, <2>3 DEF AfterPosting
<1>3. CASE k \notin DOMAIN segments[ref]
  BY <1>3 DEF AfterPosting
<1> QED BY <1>2, <1>3

\* The new snapshot sees what was posted.
LEMMA NewPosts ==
    ASSUME HostTypes, Commits, NEW ref \in 1 .. MaxCommit, NEW old, NEW rowids,
           AfterPosting(old, segments'[ref], rowids), NEW s, s = clock + 1
    PROVE  rowids \subseteq Posts(ref, s)'
<1>1. clock \in 0 .. MaxCommit - 1 /\ MaxCommit \in Nat
  BY Clock
<1>2. CASE rowids # {}
  <2>1. PICK k \in DOMAIN segments'[ref] :
            segments'[ref][k] = [rowids |-> rowids, from |-> clock + 1, to |-> Forever]
    BY <1>2 DEF AfterPosting
  <2>2. Visible(segments'[ref][k], s) /\ segments'[ref][k].rowids = rowids
    BY <1>1, <2>1 DEF Visible, Forever
  <2> QED BY <2>2 DEF Posts, Places, Visible
<1> QED BY <1>2

\* It sees the posting rows that stay.
LEMMA PostsStayed ==
    ASSUME HostTypes, Commits, NEW ref \in 1 .. clock, NEW s, s = clock + 1,
           \A k \in DOMAIN segments[ref] :
               k \in DOMAIN segments'[ref] /\ segments'[ref][k] = segments[ref][k]
    PROVE  Posts(ref, clock) \subseteq Posts(ref, s)'
<1> SUFFICES ASSUME NEW k \in DOMAIN segments[ref], Visible(segments[ref][k], clock)
             PROVE  segments[ref][k].rowids \subseteq Posts(ref, s)'
  BY DEF Posts, Places
<1>1. clock \in 0 .. MaxCommit - 1 /\ MaxCommit \in Nat /\ ref \in 1 .. MaxCommit
  BY Clock
<1>2. Lived(segments[ref][k])
  BY <1>1 DEF HostTypes, SegmentTypes
<1>3. Visible(segments[ref][k], clock + 1)
  BY <1>1, <1>2, StillVisible
<1> QED BY <1>3 DEF Posts, Places, Visible

\* Commits to the table alone.
LEMMA RowsStep ==
    ASSUME HostTypes, IndexInv, RunInv, Commits, UNCHANGED <<registry, segments, guard>>, BaseTypes',
           Len(base) <= Len(base')
    PROVE  HostTypes' /\ IndexInv'
<1>1. clock \in 0 .. MaxCommit - 1 /\ MaxCommit \in Nat /\ clock' = clock + 1 /\ clock < MaxCommit
  BY Clock DEF Commits
<1>2. HostTypes'
  <2>1. ClockTypes'
    BY <1>1 DEF HostTypes, ClockTypes, Commits
  <2>2. RegistryTypes' /\ SegmentTypes'
    BY <1>1, KeptRegistry, KeptSegments DEF IndexInv
  <2> QED BY <2>1, <2>2 DEF HostTypes
<1>3. OneIndex' /\ \A row \in registry : Visible(row, clock + 1) => row \in Current
  BY <1>1, KeptRegistry DEF IndexInv
<1>4. MarkInTable'
  <2> SUFFICES ASSUME NEW index \in registry, index.ref = guard PROVE index.hwm <= Len(base')
    BY DEF MarkInTable
  <2>1. index.hwm <= Len(base) /\ index.hwm \in Nat
    BY DEF IndexInv, MarkInTable, HostTypes, RegistryTypes, Registered
  <2>2. Len(base) \in Nat /\ Len(base') \in Nat
    BY DEF HostTypes, BaseTypes
  <2> QED BY <2>1, <2>2
<1>5. ASSUME NEW s, s = clock + 1 PROVE PostsBelowMark(s)'
  <2> SUFFICES ASSUME NEW row \in registry, NEW k \in DOMAIN segments[row.ref],
                      Visible(row, s), Visible(segments[row.ref][k], s)
               PROVE  /\ segments[row.ref][k].rowids # {}
                      /\ segments[row.ref][k].rowids \subseteq 1 .. row.hwm
    BY DEF PostsBelowMark, Visible
  <2>1. Visible(row, clock)
    BY <1>3, <1>5 DEF Current
  <2>2. Lived(segments[row.ref][k])
    BY DEF HostTypes, SegmentTypes, RegistryTypes, Registered
  <2>3. Visible(segments[row.ref][k], clock)
    BY <1>1, <1>5, <2>2, StillVisible
  <2>4. PostsBelowMark(clock)
    BY <1>1 DEF IndexInv
  <2> QED BY <2>1, <2>3, <2>4 DEF PostsBelowMark
<1>6. ASSUME NEW s, s = clock + 1 PROVE Covers(s)'
  <2> SUFFICES ASSUME NEW row \in registry, Visible(row, s), row.ref = guard
               PROVE  Marked(s, row.hwm, row.ci)' \subseteq Posts(row.ref, s)'
    BY DEF Covers, Visible
  <2>1. Visible(row, clock)
    BY <1>3, <1>6 DEF Current
  <2>2. row.hwm <= Len(base) /\ row.hwm \in Nat /\ row.ref \in 1 .. clock
    BY DEF IndexInv, MarkInTable, HostTypes, RegistryTypes, Registered
  <2>3. Marked(s, row.hwm, row.ci)' \subseteq Marked(clock, row.hwm, row.ci)
    BY <1>6, <2>2, NewMarked
  <2>4. Marked(clock, row.hwm, row.ci) \subseteq Posts(row.ref, clock)
    <3>1. clock \in Oldest .. clock
      BY OldestType, <1>1 DEF RunInv
    <3>2. Covers(clock)
      BY <3>1 DEF IndexInv
    <3> QED BY <2>1, <3>2 DEF Covers
  <2>5. Posts(row.ref, clock) \subseteq Posts(row.ref, s)'
    BY <1>6, <2>2, PostsStayed
  <2> QED BY <2>3, <2>4, <2>5
<1>7. IndexInv'
  BY <1>3, <1>4, <1>5, <1>6, IndexStep
<1> QED BY <1>2, <1>7

\* A row at the end of the table lies past every mark.
LEMMA AppendRowStep ==
    ASSUME HostTypes, IndexInv, RunInv, AppendRow
    PROVE  HostTypes' /\ IndexInv' /\ RunInv'
<1>1. clock < MaxCommit /\ clock' = clock + 1 /\ clock \in Nat /\ MaxCommit \in Nat
  BY PlanInputs DEF AppendRow, Commit, HostTypes, ClockTypes
<1>2. PICK row \in Rows : base' = Append(base, [row |-> row, from |-> clock', to |-> Forever])
  BY DEF AppendRow
<1> DEFINE item == [row |-> row, from |-> clock + 1, to |-> Forever]
<1>3. base \in Seq(Item) /\ \A n \in DOMAIN base : Lived(base[n])
  BY DEF HostTypes, BaseTypes
<1>4. item \in Item /\ item.from = clock + 1 /\ item.to = Forever
  BY <1>1 DEF Item, Forever
<1>5. base' = Append(base, item)
  BY <1>1, <1>2
<1> HIDE DEF item
<1>6. /\ base' \in Seq(Item) /\ Len(base') = Len(base) + 1 /\ Len(base) \in Nat
      /\ DOMAIN base = 1 .. Len(base) /\ DOMAIN base' = 1 .. Len(base) + 1
      /\ \A n \in DOMAIN base : base'[n] = base[n]
      /\ base'[Len(base) + 1] = item
  BY <1>3, <1>4, <1>5
<1>7. BaseTypes'
  <2>1. ASSUME NEW n \in DOMAIN base' PROVE Lived(base[n])'
    <3>1. CASE n \in DOMAIN base
      <4>1. base'[n] = base[n] /\ Lived(base[n])
        BY <1>3, <1>6, <3>1
      <4> QED BY <1>1, <4>1 DEF Lived, Forever
    <3>2. CASE n = Len(base) + 1
      BY <1>1, <1>4, <1>6, <3>2 DEF Lived, Forever
    <3> QED BY <1>6, <3>1, <3>2
  <2> QED BY <1>6, <2>1 DEF BaseTypes
<1>8. Succeeds(base, base')
  <2>1. \A n \in DOMAIN base' \ DOMAIN base : n = Len(base) + 1
    BY <1>6
  <2>2. DOMAIN base \subseteq DOMAIN base'
    BY <1>6
  <2> QED BY <1>4, <1>6, <2>1, <2>2 DEF Succeeds
<1>9. Commits
  <2>1. UNCHANGED <<text, guard, registry, segments, lock, stmt>>
    BY DEF AppendRow
  <2>2. \A ref \in 1 .. clock : Succeeds(segments[ref], segments'[ref])
    BY <2>1 DEF Succeeds
  <2> QED BY <1>1, <1>6, <1>8, <2>1, <2>2 DEF Commits
<1>10. UNCHANGED <<registry, segments, guard>> /\ Len(base) <= Len(base')
  BY <1>6 DEF AppendRow
<1> QED BY <1>7, <1>9, <1>10, RowsStep, CommitKeepsRun

\* A deleted row is still there for earlier snapshots.
LEMMA DeleteRowStep ==
    ASSUME HostTypes, IndexInv, RunInv, DeleteRow
    PROVE  HostTypes' /\ IndexInv' /\ RunInv'
<1>1. clock < MaxCommit /\ clock' = clock + 1 /\ clock \in Nat /\ MaxCommit \in Nat
  BY PlanInputs DEF DeleteRow, Commit, HostTypes, ClockTypes
<1>2. PICK d \in Places(base, clock) : base' = [base EXCEPT ![d].to = clock']
  BY DEF DeleteRow
<1>3. base \in Seq(Item) /\ \A n \in DOMAIN base : Lived(base[n]) /\ base[n] \in Item
  BY DEF HostTypes, BaseTypes
<1>4. d \in DOMAIN base /\ base[d].to = Forever
  BY <1>1, <1>3 DEF Places, Visible, Lived
<1> DEFINE item == [row |-> base[d].row, from |-> base[d].from, to |-> clock + 1]
<1>5. item \in Item /\ item.row = base[d].row /\ item.from = base[d].from /\ item.to = clock + 1
  BY <1>1, <1>3, <1>4 DEF Item
<1>6. base' = [base EXCEPT ![d] = item]
  <2>1. [base[d] EXCEPT !.to = clock'] = item
    <3>1. base[d] = [row |-> base[d].row, from |-> base[d].from, to |-> base[d].to]
      BY <1>3, <1>4 DEF Item
    <3>2. ASSUME NEW r, NEW f, NEW t, NEW u
          PROVE  [[row |-> r, from |-> f, to |-> t] EXCEPT !.to = u] = [row |-> r, from |-> f, to |-> u]
      OBVIOUS
    <3>3. [base[d] EXCEPT !.to = clock'] = [row |-> base[d].row, from |-> base[d].from, to |-> clock']
      BY <3>1, <3>2
    <3> QED BY <1>1, <3>3
  <2>2. base' = [base EXCEPT ![d] = [base[d] EXCEPT !.to = clock']]
    BY <1>2
  <2> QED BY <2>1, <2>2
<1> HIDE DEF item
<1>7. /\ base' \in Seq(Item) /\ Len(base') = Len(base) /\ Len(base) \in Nat
      /\ DOMAIN base' = DOMAIN base
      /\ base'[d] = item /\ \A n \in DOMAIN base : n # d => base'[n] = base[n]
  BY <1>3, <1>4, <1>5, <1>6
<1>8. BaseTypes'
  <2>1. ASSUME NEW n \in DOMAIN base PROVE Lived(base[n])'
    <3>1. CASE n # d
      <4>1. base'[n] = base[n] /\ Lived(base[n])
        BY <1>3, <1>7, <3>1
      <4> QED BY <1>1, <4>1 DEF Lived, Forever
    <3>2. CASE n = d
      <4>1. base'[n].from \in 0 .. clock /\ base'[n].to = clock + 1
        BY <1>3, <1>4, <1>5, <1>7, <3>2 DEF Lived
      <4> QED BY <1>1, <4>1 DEF Lived, Forever
    <3> QED BY <3>1, <3>2
  <2> QED BY <1>7, <2>1 DEF BaseTypes
<1>9. Succeeds(base, base')
  BY <1>4, <1>5, <1>7 DEF Succeeds
<1>10. Commits
  <2>1. UNCHANGED <<text, guard, registry, segments, lock, stmt>>
    BY DEF DeleteRow
  <2>2. \A ref \in 1 .. clock : Succeeds(segments[ref], segments'[ref])
    BY <2>1 DEF Succeeds
  <2>3. \A n \in DOMAIN base : base'[n].row = base[n].row
    BY <1>5, <1>7
  <2> QED BY <1>1, <1>9, <2>1, <2>2, <2>3 DEF Commits
<1>11. UNCHANGED <<registry, segments, guard>> /\ Len(base) <= Len(base')
  BY <1>7 DEF DeleteRow
<1> QED BY <1>8, <1>10, <1>11, RowsStep, CommitKeepsRun

-----------------------------------------------------------------------------
(* Commits that drop and compact an index *)

\* An index that ends is not seen by the new snapshot, nor is any other.
LEMMA EndedRegistry ==
    ASSUME HostTypes, OneIndex, clock' = clock + 1, clock < MaxCommit, NEW index \in Current
    PROVE  /\ Ended(registry, index) \subseteq Registered
           /\ \A row \in Ended(registry, index) :
                 /\ Lived(row)' /\ row.ref \in 1 .. clock'
                 /\ ~Visible(row, clock + 1)
                 /\ \E old \in registry :
                       /\ row.ref = old.ref /\ row.ci = old.ci /\ row.hwm = old.hwm /\ row.from = old.from
                       /\ row.to = old.to \/ (old.to = Forever /\ row.to = clock + 1)
           /\ index \in Registered /\ index \in registry /\ index.ref \in 1 .. clock
<1>1. clock \in 0 .. MaxCommit - 1 /\ MaxCommit \in Nat /\ clock' = clock + 1
  BY PlanInputs DEF HostTypes, ClockTypes
<1>2. index \in registry /\ Visible(index, clock) /\ index \in Registered
  BY DEF Current, HostTypes, RegistryTypes
<1>3. \A row \in registry : row \in Registered /\ Lived(row) /\ row.ref \in 1 .. clock
  BY DEF HostTypes, RegistryTypes
<1> DEFINE ended == [ref |-> index.ref, ci |-> index.ci, hwm |-> index.hwm, from |-> index.from,
                     to |-> clock + 1]
<1>4. [index EXCEPT !.to = clock'] = ended
  BY <1>1, <1>2 DEF Registered
<1>5. /\ ended \in Registered /\ ended.ref = index.ref /\ ended.ci = index.ci /\ ended.hwm = index.hwm
      /\ ended.from = index.from /\ ended.to = clock + 1
  BY <1>1, <1>2 DEF Registered
<1> HIDE DEF ended
<1>6. index.to = Forever
  BY <1>1, <1>2, <1>3 DEF Visible, Lived
<1>7. Ended(registry, index) = (registry \ {index}) \union {ended}
  BY <1>4 DEF Ended
<1>8. ASSUME NEW row \in Ended(registry, index)
      PROVE  /\ Lived(row)' /\ row.ref \in 1 .. clock'
             /\ ~Visible(row, clock + 1)
             /\ \E old \in registry :
                   /\ row.ref = old.ref /\ row.ci = old.ci /\ row.hwm = old.hwm /\ row.from = old.from
                   /\ row.to = old.to \/ (old.to = Forever /\ row.to = clock + 1)
  <2>1. CASE row = ended
    <3>1. Lived(row)' /\ row.ref \in 1 .. clock'
      BY <1>1, <1>2, <1>3, <1>5, <2>1 DEF Lived, Forever
    <3>2. ~Visible(row, clock + 1)
      BY <1>1, <1>5, <2>1 DEF Visible
    <3> QED BY <1>2, <1>5, <1>6, <2>1, <3>1, <3>2
  <2>2. CASE row \in registry /\ row # index
    <3>1. Lived(row)' /\ row.ref \in 1 .. clock'
      BY <1>1, <1>3, <2>2 DEF Lived, Forever
    <3>2. ~Visible(row, clock + 1)
      <4>1. row \notin Current
        BY <2>2 DEF OneIndex
      <4> QED BY <1>1, <1>3, <2>2, <4>1, StillVisible DEF Current
    <3> QED BY <2>2, <3>1, <3>2
  <2> QED BY <1>7, <2>1, <2>2
<1>9. Ended(registry, index) \subseteq Registered
  BY <1>3, <1>5, <1>7
<1> QED BY <1>2, <1>3, <1>8, <1>9

\* A dropped index is seen by earlier snapshots only, and its guard by nobody.
LEMMA DropIndexStep ==
    ASSUME HostTypes, IndexInv, RunInv, DropIndex
    PROVE  HostTypes' /\ IndexInv' /\ RunInv'
<1>1. clock < MaxCommit /\ clock' = clock + 1 /\ clock \in 0 .. MaxCommit - 1 /\ MaxCommit \in Nat
  BY PlanInputs DEF DropIndex, Commit, HostTypes, ClockTypes
<1>2. PICK index \in Current :
          /\ registry' = Ended(registry, index)
          /\ segments' = [segments EXCEPT ![index.ref] = EndPlaces(@)]
  BY DEF DropIndex
<1>3. guard' = None /\ UNCHANGED <<text, base, lock, stmt>>
  BY DEF DropIndex
<1>4. /\ registry' \subseteq Registered
      /\ \A row \in registry' :
            /\ Lived(row)' /\ row.ref \in 1 .. clock'
            /\ ~Visible(row, clock + 1)
            /\ \E old \in registry :
                  /\ row.ref = old.ref /\ row.ci = old.ci /\ row.hwm = old.hwm /\ row.from = old.from
                  /\ row.to = old.to \/ (old.to = Forever /\ row.to = clock + 1)
      /\ index.ref \in 1 .. clock
  BY <1>1, <1>2, EndedRegistry DEF IndexInv
<1>5. index.ref \in 1 .. MaxCommit
  BY <1>1, <1>4
<1>6. AfterPosting(segments[index.ref], EndPlaces(segments[index.ref]), {})
  BY <1>1, <1>5, AllEnded DEF HostTypes, SegmentTypes
<1>7. /\ SegmentTypes'
      /\ \A r \in 1 .. clock :
            /\ Succeeds(segments[r], segments'[r])
            /\ \A n \in DOMAIN segments[r] : segments'[r][n].rowids = segments[r][n].rowids
  <2>1. IF index.ref <= clock THEN segments[index.ref] = segments[index.ref]
                              ELSE segments[index.ref] = <<>>
    BY <1>4
  <2>2. segments' = [segments EXCEPT ![index.ref] = EndPlaces(segments[index.ref])]
    BY <1>2
  <2> QED BY <1>1, <1>5, <1>6, <2>1, <2>2, OnePosted
<1>8. BaseTypes' /\ Succeeds(base, base') /\ \A n \in DOMAIN base : base'[n].row = base[n].row
  BY <1>1, <1>3, KeptBase
<1>9. Commits
  BY <1>1, <1>3, <1>4, <1>7, <1>8 DEF Commits
<1>10. HostTypes'
  <2>1. ClockTypes'
    BY <1>1, <1>3 DEF HostTypes, ClockTypes, None
  <2>2. RegistryTypes'
    BY <1>4 DEF RegistryTypes
  <2> QED BY <1>7, <1>8, <2>1, <2>2 DEF HostTypes
<1>11. IndexInv'
  <2>1. \A row \in registry' : ~Visible(row, clock + 1) /\ row.ref # None
    BY <1>4 DEF None
  <2>2. OneIndex'
    BY <1>1, <2>1 DEF OneIndex, Current, Visible
  <2>3. MarkInTable'
    BY <1>3, <2>1 DEF MarkInTable
  <2>4. ASSUME NEW s, s = clock + 1 PROVE PostsBelowMark(s)' /\ Covers(s)'
    BY <2>1, <2>4 DEF PostsBelowMark, Covers, Visible
  <2> QED BY <1>9, <2>2, <2>3, <2>4, IndexStep
<1> QED BY <1>9, <1>10, <1>11, CommitKeepsRun

\* One posting row holds the rowids of all it replaces.
LEMMA CompactIndexStep ==
    ASSUME HostTypes, IndexInv, RunInv, CompactIndex
    PROVE  HostTypes' /\ IndexInv' /\ RunInv'
<1>1. clock < MaxCommit /\ clock' = clock + 1 /\ clock \in 0 .. MaxCommit - 1 /\ MaxCommit \in Nat
  BY PlanInputs DEF CompactIndex, Commit, HostTypes, ClockTypes
<1>2. PICK index \in Current :
          LET live == Places(segments[index.ref], clock)
          IN  segments' = [segments EXCEPT ![index.ref] = EndPlaces(@) \o
                     PostingRow(UNION {segments[index.ref][n].rowids : n \in live})]
  BY DEF CompactIndex
<1>3. UNCHANGED <<text, base, guard, registry, lock, stmt>>
  BY DEF CompactIndex
<1> DEFINE ref == index.ref
           R == Posts(ref, clock)
           table == EndPlaces(segments[ref]) \o PostingRow(R)
<1>4. index \in registry /\ Visible(index, clock) /\ ref \in 1 .. clock /\ ref \in 1 .. MaxCommit
      /\ index.hwm \in Nat
  <2>1. index \in registry /\ Visible(index, clock)
    BY DEF Current
  <2> QED BY <1>1, <2>1 DEF HostTypes, RegistryTypes, Registered
<1>5. PostsBelowMark(clock) /\ Covers(clock)
  <2>1. clock \in 0 .. clock /\ clock \in Oldest .. clock
    BY <1>1, OldestType DEF RunInv
  <2> QED BY <2>1 DEF IndexInv
<1>6. R \subseteq 1 .. index.hwm
  BY <1>4, <1>5 DEF PostsBelowMark, Posts, Places
<1>7. segments' = [segments EXCEPT ![ref] = table]
  BY <1>2 DEF Posts
<1>8. AfterPosting(segments[ref], table, R)
  <2>1. segments[ref] \in Seq(Posting)
    BY <1>4 DEF HostTypes, SegmentTypes
  <2>2. AfterPosting(segments[ref], EndPlaces(segments[ref]), {})
        /\ DOMAIN EndPlaces(segments[ref]) = DOMAIN segments[ref]
    BY <1>1, <2>1, AllEnded
  <2>3. R \in SUBSET Nat
    BY <1>4, <1>6
  <2> HIDE DEF R
  <2> QED BY <1>1, <2>2, <2>3, OneMore
<1> HIDE DEF R, table
<1>9. /\ SegmentTypes'
      /\ \A r \in 1 .. clock :
            /\ Succeeds(segments[r], segments'[r])
            /\ \A n \in DOMAIN segments[r] : segments'[r][n].rowids = segments[r][n].rowids
  <2>1. IF ref <= clock THEN segments[ref] = segments[ref] ELSE segments[ref] = <<>>
    BY <1>4
  <2> QED BY <1>1, <1>4, <1>7, <1>8, <2>1, OnePosted
<1>10. BaseTypes' /\ Succeeds(base, base') /\ \A n \in DOMAIN base : base'[n].row = base[n].row
  BY <1>1, <1>3, KeptBase
<1>11. /\ RegistryTypes' /\ OneIndex'
       /\ \A row \in registry : Visible(row, clock + 1) => row = index
  BY <1>1, <1>3, KeptRegistry DEF IndexInv, OneIndex
<1>12. Commits
  BY <1>1, <1>3, <1>9, <1>10 DEF Commits
<1>13. HostTypes'
  <2>1. ClockTypes'
    BY <1>1, <1>3 DEF HostTypes, ClockTypes
  <2> QED BY <1>9, <1>10, <1>11, <2>1 DEF HostTypes
<1>14. segments'[ref] = table
  BY <1>4, <1>7 DEF HostTypes, SegmentTypes
<1>15. IndexInv'
  <2>1. MarkInTable'
    BY <1>3 DEF IndexInv, MarkInTable
  <2>2. ASSUME NEW s, s = clock + 1 PROVE PostsBelowMark(s)'
    <3> SUFFICES ASSUME NEW row \in registry, NEW k \in DOMAIN segments'[row.ref],
                        Visible(row, s), Visible(segments'[row.ref][k], s)
                 PROVE  /\ segments'[row.ref][k].rowids # {}
                        /\ segments'[row.ref][k].rowids \subseteq 1 .. row.hwm
      BY <1>3 DEF PostsBelowMark, Visible
    <3>1. row = index
      BY <1>11, <2>2
    <3>2. \/ /\ k \in DOMAIN segments[ref] /\ Visible(segments[ref][k], clock)
             /\ segments'[ref][k].rowids = segments[ref][k].rowids
          \/ R # {} /\ segments'[ref][k].rowids = R
      BY <1>4, <1>8, <1>12, <1>14, <2>2, <3>1, NewPlaces
    <3> QED BY <1>4, <1>5, <1>6, <3>1, <3>2 DEF PostsBelowMark
  <2>3. ASSUME NEW s, s = clock + 1 PROVE Covers(s)'
    <3> SUFFICES ASSUME NEW row \in registry, Visible(row, s), row.ref = guard
                 PROVE  Marked(s, row.hwm, row.ci)' \subseteq Posts(row.ref, s)'
      BY <1>3 DEF Covers, Visible
    <3>1. row = index
      BY <1>11, <2>3
    <3>2. index.hwm <= Len(base)
      BY <1>4, <3>1 DEF IndexInv, MarkInTable
    <3>3. Marked(s, index.hwm, index.ci)' \subseteq Marked(clock, index.hwm, index.ci)
      BY <1>4, <1>10, <1>12, <2>3, <3>2, NewMarked
    <3>4. Marked(clock, index.hwm, index.ci) \subseteq R
      BY <1>4, <1>5, <3>1 DEF Covers, R
    <3>5. R \subseteq Posts(ref, s)'
      <4> HIDE DEF ref
      <4> QED BY <1>4, <1>8, <1>12, <1>14, <2>3, NewPosts
    <3> QED BY <3>1, <3>3, <3>4, <3>5
  <2> QED BY <1>11, <1>12, <2>1, <2>2, <2>3, IndexStep
<1> QED BY <1>12, <1>13, <1>15, CommitKeepsRun

-----------------------------------------------------------------------------
(* A refresh *)

\* Postings past a mark are places of the table.
LEMMA PostedPlaces ==
    ASSUME HostTypes, NEW mark, NEW ci
    PROVE  Posted(mark, ci) \subseteq 1 .. Len(base)
<1>1. DOMAIN base = 1 .. Len(base)
  BY DEF HostTypes, BaseTypes
<1> QED BY <1>1 DEF Posted, Places

\* A refresh posts the rows between the old mark and the new.
LEMMA RefreshIndexStep ==
    ASSUME HostTypes, IndexInv, RunInv, RefreshIndex
    PROVE  HostTypes' /\ IndexInv' /\ RunInv'
<1>1. clock < MaxCommit /\ clock' = clock + 1 /\ clock \in 0 .. MaxCommit - 1 /\ MaxCommit \in Nat
  BY PlanInputs DEF RefreshIndex, Commit, HostTypes, ClockTypes
<1>2. PICK index \in Current :
          /\ index.hwm < Len(base)
          /\ registry' = Ended(registry, index) \union
                           {[index EXCEPT !.hwm = Len(base), !.from = clock']}
          /\ segments' = [segments EXCEPT ![index.ref] =
                              @ \o PostingRow(Posted(index.hwm, index.ci))]
  BY DEF RefreshIndex
<1>3. UNCHANGED <<text, base, guard, lock, stmt>>
  BY DEF RefreshIndex
<1> DEFINE ref == index.ref
           R == Posted(index.hwm, index.ci)
           table == segments[ref] \o PostingRow(R)
           added == [ref |-> ref, ci |-> index.ci, hwm |-> Len(base), from |-> clock + 1,
                     to |-> Forever]
<1>4. index \in registry /\ Visible(index, clock) /\ ref \in 1 .. clock /\ ref \in 1 .. MaxCommit
      /\ index.hwm \in Nat /\ index.ci \in BOOLEAN /\ index \in Registered /\ index.to = Forever
  <2>1. index \in registry /\ Visible(index, clock) /\ Lived(index) /\ index \in Registered
    BY DEF Current, HostTypes, RegistryTypes
  <2>2. index.to = Forever
    BY <1>1, <2>1 DEF Visible, Lived
  <2> QED BY <1>1, <2>1, <2>2 DEF HostTypes, RegistryTypes, Registered
<1>5. PostsBelowMark(clock) /\ Covers(clock)
  <2>1. clock \in 0 .. clock /\ clock \in Oldest .. clock
    BY <1>1, OldestType DEF RunInv
  <2> QED BY <2>1 DEF IndexInv
<1>6. R \subseteq 1 .. Len(base) /\ Len(base) \in Nat
  BY PostedPlaces DEF HostTypes, BaseTypes
<1>7. [index EXCEPT !.hwm = Len(base), !.from = clock'] = added
  <2>1. index = [ref |-> ref, ci |-> index.ci, hwm |-> index.hwm, from |-> index.from, to |-> Forever]
    BY <1>4 DEF Registered
  <2>2. [index EXCEPT !.hwm = Len(base)]
          = [ref |-> ref, ci |-> index.ci, hwm |-> Len(base), from |-> index.from, to |-> Forever]
    BY <2>1
  <2>3. [index EXCEPT !.hwm = Len(base), !.from = clock']
          = [[index EXCEPT !.hwm = Len(base)] EXCEPT !.from = clock']
    OBVIOUS
  <2>4. [[index EXCEPT !.hwm = Len(base)] EXCEPT !.from = clock'] = added
    <3>1. ASSUME NEW a, NEW b, NEW c, NEW d, NEW e, NEW f
          PROVE  [[ref |-> a, ci |-> b, hwm |-> c, from |-> d, to |-> e] EXCEPT !.from = f]
                   = [ref |-> a, ci |-> b, hwm |-> c, from |-> f, to |-> e]
      OBVIOUS
    <3>2. [[index EXCEPT !.hwm = Len(base)] EXCEPT !.from = clock']
            = [[ref |-> ref, ci |-> index.ci, hwm |-> Len(base), from |-> index.from, to |-> Forever]
                 EXCEPT !.from = clock']
      BY <2>2
    <3>3. [[ref |-> ref, ci |-> index.ci, hwm |-> Len(base), from |-> index.from, to |-> Forever]
                 EXCEPT !.from = clock']
            = [ref |-> ref, ci |-> index.ci, hwm |-> Len(base), from |-> clock', to |-> Forever]
      BY <3>1
    <3> QED BY <1>1, <3>2, <3>3
  <2> QED BY <2>3, <2>4
<1>8. segments' = [segments EXCEPT ![ref] = table]
  BY <1>2
<1>9. AfterPosting(segments[ref], table, R)
      /\ \A k \in DOMAIN segments[ref] : k \in DOMAIN table /\ table[k] = segments[ref][k]
  <2>1. segments[ref] \in Seq(Posting)
    BY <1>4 DEF HostTypes, SegmentTypes
  <2>2. AfterPosting(segments[ref], segments[ref], {})
    BY <2>1, LeftAlone
  <2>3. R \in SUBSET Nat
    BY <1>6
  <2> HIDE DEF R
  <2>4. AfterPosting(segments[ref], table, R)
    BY <1>1, <2>2, <2>3, OneMore
  <2>5. PostingRow(R) \in Seq(Posting)
    <3>1. [rowids |-> R, from |-> clock', to |-> Forever] \in Posting
      BY <1>1, <2>3 DEF Posting, Forever
    <3> QED BY <3>1 DEF PostingRow
  <2>6. \A k \in DOMAIN segments[ref] : k \in DOMAIN table /\ table[k] = segments[ref][k]
    <3>1. \A T : \A a, b \in Seq(T) : \A k \in DOMAIN a : k \in DOMAIN (a \o b) /\ (a \o b)[k] = a[k]
      OBVIOUS
    <3> HIDE DEF ref
    <3> QED BY <2>1, <2>5, <3>1
  <2> QED BY <2>4, <2>6
<1>10. PICK new :
           /\ new = added
           /\ new \in Registered /\ new.ref = ref /\ new.ci = index.ci /\ new.hwm = Len(base)
           /\ new.from = clock + 1 /\ new.to = Forever
  <2>1. added \in Registered
    BY <1>1, <1>4, <1>6 DEF Registered, Forever
  <2> QED BY <2>1
<1> HIDE DEF R, table, added
<1>11. registry' = Ended(registry, index) \union {new}
  BY <1>2, <1>7, <1>10
<1>12. /\ Ended(registry, index) \subseteq Registered
       /\ \A row \in Ended(registry, index) :
             /\ Lived(row)' /\ row.ref \in 1 .. clock'
             /\ ~Visible(row, clock + 1)
             /\ \E old \in registry :
                   /\ row.ref = old.ref /\ row.ci = old.ci /\ row.hwm = old.hwm /\ row.from = old.from
                   /\ row.to = old.to \/ (old.to = Forever /\ row.to = clock + 1)
  BY <1>1, EndedRegistry DEF IndexInv
<1>13. /\ SegmentTypes'
       /\ \A r \in 1 .. clock :
             /\ Succeeds(segments[r], segments'[r])
             /\ \A n \in DOMAIN segments[r] : segments'[r][n].rowids = segments[r][n].rowids
  <2>1. IF ref <= clock THEN segments[ref] = segments[ref] ELSE segments[ref] = <<>>
    BY <1>4
  <2> QED BY <1>1, <1>4, <1>8, <1>9, <2>1, OnePosted
<1>14. BaseTypes' /\ Succeeds(base, base') /\ \A n \in DOMAIN base : base'[n].row = base[n].row
  BY <1>1, <1>3, KeptBase
<1>15. Commits
  BY <1>1, <1>3, <1>10, <1>11, <1>12, <1>13, <1>14 DEF Commits
<1>16. HostTypes'
  <2>1. ClockTypes'
    BY <1>1, <1>3 DEF HostTypes, ClockTypes
  <2>2. Lived(new)' /\ new.ref \in 1 .. clock'
    BY <1>1, <1>4, <1>10 DEF Lived, Forever
  <2>3. RegistryTypes'
    BY <1>10, <1>11, <1>12, <2>2 DEF RegistryTypes
  <2> QED BY <1>13, <1>14, <2>1, <2>3 DEF HostTypes
<1>17. segments'[ref] = table
  BY <1>4, <1>8 DEF HostTypes, SegmentTypes
<1>18. \A row \in registry' : Visible(row, clock + 1) => row = new
  BY <1>11, <1>12
<1>19. IndexInv'
  <2>1. OneIndex'
    BY <1>1, <1>18 DEF OneIndex, Current, Visible
  <2>2. MarkInTable'
    <3> SUFFICES ASSUME NEW row \in registry', row.ref = guard PROVE row.hwm <= Len(base)
      BY <1>3 DEF MarkInTable
    <3>1. CASE row = new
      BY <1>6, <1>10, <3>1
    <3>2. CASE row \in Ended(registry, index)
      BY <1>12, <3>2 DEF IndexInv, MarkInTable
    <3> QED BY <1>11, <3>1, <3>2
  <2>3. ASSUME NEW s, s = clock + 1 PROVE PostsBelowMark(s)'
    <3> SUFFICES ASSUME NEW row \in registry', NEW k \in DOMAIN segments'[row.ref],
                        Visible(row, s), Visible(segments'[row.ref][k], s)
                 PROVE  /\ segments'[row.ref][k].rowids # {}
                        /\ segments'[row.ref][k].rowids \subseteq 1 .. row.hwm
      BY DEF PostsBelowMark, Visible
    <3>1. row = new
      BY <1>18, <2>3
    <3>2. \/ /\ k \in DOMAIN segments[ref] /\ Visible(segments[ref][k], clock)
             /\ segments'[ref][k].rowids = segments[ref][k].rowids
          \/ R # {} /\ segments'[ref][k].rowids = R
      <4>1. k \in DOMAIN segments'[ref] /\ Visible(segments'[ref][k], clock + 1)
        BY <1>10, <2>3, <3>1
      <4>2. AfterPosting(segments[ref], segments'[ref], R)
        BY <1>9, <1>17
      <4>3. PICK r : r = R
        OBVIOUS
      <4>4. AfterPosting(segments[ref], segments'[ref], r)
        BY <4>2, <4>3
      <4>5. ref \in 1 .. clock
        BY <1>4
      <4> HIDE DEF ref
      <4>6. \/ /\ k \in DOMAIN segments[ref] /\ Visible(segments[ref][k], clock)
               /\ segments'[ref][k].rowids = segments[ref][k].rowids
            \/ r # {} /\ segments'[ref][k].rowids = r
        <5>1. HostTypes /\ Commits
          BY <1>15
        <5>2. \A m \in DOMAIN segments'[ref] :
                 Visible(segments'[ref][m], clock + 1) =>
                     \/ /\ m \in DOMAIN segments[ref] /\ Visible(segments[ref][m], clock)
                        /\ segments'[ref][m].rowids = segments[ref][m].rowids
                     \/ r # {} /\ segments'[ref][m].rowids = r
          BY <5>1, <4>4, <4>5, NewPlaces
        <5> QED BY <4>1, <5>2
      <4> QED BY <4>3, <4>6
    <3>3. CASE k \in DOMAIN segments[ref] /\ Visible(segments[ref][k], clock)
               /\ segments'[ref][k].rowids = segments[ref][k].rowids
      <4>1. segments[ref][k].rowids # {} /\ segments[ref][k].rowids \subseteq 1 .. index.hwm
        BY <1>4, <1>5, <3>3 DEF PostsBelowMark
      <4>2. 1 .. index.hwm \subseteq 1 .. Len(base)
        BY <1>2, <1>4, <1>6
      <4> QED BY <1>10, <3>1, <3>3, <4>1, <4>2
    <3>4. CASE R # {} /\ segments'[ref][k].rowids = R
      BY <1>6, <1>10, <3>1, <3>4
    <3> QED BY <3>2, <3>3, <3>4
  <2>4. ASSUME NEW s, s = clock + 1 PROVE Covers(s)'
    <3> SUFFICES ASSUME NEW row \in registry', Visible(row, s), row.ref = guard
                 PROVE  Marked(s, row.hwm, row.ci)' \subseteq Posts(row.ref, s)'
      BY <1>3 DEF Covers, Visible
    <3>1. row = new
      BY <1>18, <2>4
    <3>2. Marked(s, Len(base), index.ci)' \subseteq Marked(clock, Len(base), index.ci)
      <4>1. PICK m : m = Len(base)
        OBVIOUS
      <4>2. Marked(s, m, index.ci)' \subseteq Marked(clock, m, index.ci)
        BY <1>6, <1>14, <1>15, <2>4, <4>1, NewMarked
      <4>3. Marked(s, m, index.ci)' = Marked(s, Len(base), index.ci)'
        BY <1>3, <4>1 DEF Marked
      <4> QED BY <4>1, <4>2, <4>3
    <3>3. Marked(clock, Len(base), index.ci) \subseteq Marked(clock, index.hwm, index.ci) \union R
      <4> SUFFICES ASSUME NEW n \in Places(base, clock), Holds(base[n].row, index.ci)
                   PROVE  n <= index.hwm \/ n > index.hwm
        BY DEF Marked, R, Posted
      <4>1. n \in Nat
        BY <1>6 DEF Places, HostTypes, BaseTypes
      <4> QED BY <1>4, <4>1
    <3>4. Marked(clock, index.hwm, index.ci) \subseteq Posts(ref, clock)
      BY <1>4, <1>5, <1>10, <3>1 DEF Covers
    <3>5. Posts(ref, clock) \subseteq Posts(ref, s)'
      <4> HIDE DEF ref
      <4> QED BY <1>4, <1>9, <1>15, <1>17, <2>4, PostsStayed
    <3>6. R \subseteq Posts(ref, s)'
      <4> HIDE DEF ref
      <4> QED BY <1>4, <1>9, <1>15, <1>17, <2>4, NewPosts
    <3>7. Marked(s, row.hwm, row.ci)' = Marked(s, Len(base), index.ci)'
      BY <1>3, <1>10, <3>1 DEF Marked
    <3>8. Posts(row.ref, s)' = Posts(ref, s)'
      BY <1>10, <3>1
    <3> QED BY <3>2, <3>3, <3>4, <3>5, <3>6, <3>7, <3>8
  <2> QED BY <1>15, <2>1, <2>2, <2>3, <2>4, IndexStep
<1> QED BY <1>15, <1>16, <1>19, CommitKeepsRun

-----------------------------------------------------------------------------
(* Creation, and the vacuum *)

\* A new index posts the rows of the whole table.
LEMMA CreateIndexStep ==
    ASSUME HostTypes, IndexInv, RunInv, NEW ci \in BOOLEAN, CreateIndex(ci)
    PROVE  HostTypes' /\ IndexInv' /\ RunInv'
<1>1. clock < MaxCommit /\ clock' = clock + 1 /\ clock \in 0 .. MaxCommit - 1 /\ MaxCommit \in Nat
  BY PlanInputs DEF CreateIndex, Commit, HostTypes, ClockTypes
<1>2. Current = {} /\ guard' = clock + 1 /\ UNCHANGED <<text, base, lock, stmt>>
  BY <1>1 DEF CreateIndex
<1> DEFINE added == [ref |-> clock + 1, ci |-> ci, hwm |-> Len(base), from |-> clock + 1,
                     to |-> Forever]
           R == Posted(0, ci)
           table == PostingRow(R)
<1>3. registry' = registry \union {added} /\ segments' = [segments EXCEPT ![clock + 1] = table]
  BY <1>1 DEF CreateIndex
<1>4. R \subseteq 1 .. Len(base) /\ Len(base) \in Nat
  BY PostedPlaces DEF HostTypes, BaseTypes
<1>5. AfterPosting(<<>>, table, R)
  <2>1. R \in SUBSET Nat
    BY <1>4
  <2> HIDE DEF R
  <2>2. CASE R = {}
    <3>1. table = <<>>
      BY <2>2 DEF PostingRow
    <3>2. <<>> \in Seq(Posting)
      OBVIOUS
    <3> QED BY <2>2, <3>1, <3>2, LeftAlone
  <2>3. CASE R # {}
    <3> DEFINE item == [rowids |-> R, from |-> clock + 1, to |-> Forever]
    <3>1. table = <<item>> /\ item \in Posting /\ item.from = clock + 1
      <4>1. table = <<item>>
        BY <1>1, <2>3 DEF PostingRow
      <4>2. item \in Posting
        BY <1>1, <2>1 DEF Posting, Forever
      <4> QED BY <4>1, <4>2
    <3> HIDE DEF table
    <3>2. table \in Seq(Posting) /\ DOMAIN table = {1} /\ table[1] = item
      BY <3>1
    <3>3. DOMAIN <<>> = {}
      OBVIOUS
    <3> QED BY <2>3, <3>1, <3>2, <3>3 DEF AfterPosting, Succeeds
  <2> QED BY <2>2, <2>3
<1>6. PICK new :
          /\ new = added
          /\ new \in Registered /\ new.ref = clock + 1 /\ new.ci = ci /\ new.hwm = Len(base)
          /\ new.from = clock + 1 /\ new.to = Forever
  <2>1. added \in Registered
    BY <1>1, <1>4 DEF Registered, Forever
  <2> QED BY <2>1
<1> HIDE DEF R, table, added
<1>7. PICK ref, r : ref = clock + 1 /\ r = R
  OBVIOUS
<1>8. ref \in 1 .. MaxCommit /\ ref \notin 1 .. clock
  BY <1>1, <1>7
<1>9. segments'[ref] = table /\ AfterPosting(<<>>, segments'[ref], r)
  BY <1>3, <1>5, <1>7, <1>8 DEF HostTypes, SegmentTypes
<1>10. /\ SegmentTypes'
       /\ \A q \in 1 .. clock :
             /\ Succeeds(segments[q], segments'[q])
             /\ \A n \in DOMAIN segments[q] : segments'[q][n].rowids = segments[q][n].rowids
  <2>1. IF ref <= clock THEN <<>> = segments[ref] ELSE <<>> = <<>>
    BY <1>1, <1>8
  <2>2. segments' = [segments EXCEPT ![ref] = table] /\ AfterPosting(<<>>, table, r)
    BY <1>3, <1>5, <1>7
  <2> QED BY <1>1, <1>8, <2>1, <2>2, OnePosted
<1>11. BaseTypes' /\ Succeeds(base, base') /\ \A n \in DOMAIN base : base'[n].row = base[n].row
  BY <1>1, <1>2, KeptBase
<1>12. \A row \in registry : row \in Registered /\ Lived(row) /\ row.ref \in 1 .. clock
  BY DEF HostTypes, RegistryTypes
<1>13. registry' = registry \union {new}
  BY <1>3, <1>6
<1>14. Commits
  BY <1>1, <1>2, <1>6, <1>10, <1>11, <1>13 DEF Commits
<1>15. HostTypes'
  <2>1. ClockTypes'
    BY <1>1, <1>2 DEF HostTypes, ClockTypes
  <2>2. Lived(new)' /\ new.ref \in 1 .. clock'
    BY <1>1, <1>6 DEF Lived, Forever
  <2>3. \A row \in registry : Lived(row)' /\ row.ref \in 1 .. clock'
    BY <1>1, <1>12 DEF Lived, Forever
  <2>4. RegistryTypes'
    BY <1>6, <1>12, <1>13, <2>2, <2>3 DEF RegistryTypes
  <2> QED BY <1>10, <1>11, <2>1, <2>4 DEF HostTypes
<1>16. \A row \in registry' : Visible(row, clock + 1) => row = new
  <2>1. \A row \in registry : ~Visible(row, clock + 1)
    BY <1>1, <1>2, <1>12, StillVisible DEF Current
  <2> QED BY <1>13, <2>1
<1>17. IndexInv'
  <2>1. OneIndex'
    BY <1>1, <1>16 DEF OneIndex, Current, Visible
  <2>2. MarkInTable'
    <3> SUFFICES ASSUME NEW row \in registry', row.ref = clock + 1 PROVE row.hwm <= Len(base)
      BY <1>2 DEF MarkInTable
    <3>1. row = new
      <4>1. clock + 1 \notin 1 .. clock
        BY <1>1
      <4> QED BY <1>12, <1>13, <4>1
    <3> QED BY <1>4, <1>6, <3>1
  <2>3. ASSUME NEW s, s = clock + 1 PROVE PostsBelowMark(s)'
    <3> SUFFICES ASSUME NEW row \in registry', NEW k \in DOMAIN segments'[row.ref], Visible(row, s)
                 PROVE  /\ segments'[row.ref][k].rowids # {}
                        /\ segments'[row.ref][k].rowids \subseteq 1 .. row.hwm
      BY DEF PostsBelowMark, Visible
    <3>1. row = new /\ row.ref = ref
      BY <1>6, <1>7, <1>16, <2>3
    <3>2. DOMAIN <<>> = {}
      OBVIOUS
    <3>3. r # {} /\ segments'[ref][k].rowids = r
      BY <1>9, <3>1, <3>2 DEF AfterPosting
    <3> QED BY <1>4, <1>6, <1>7, <3>1, <3>3
  <2>4. ASSUME NEW s, s = clock + 1 PROVE Covers(s)'
    <3> SUFFICES ASSUME NEW row \in registry', Visible(row, s)
                 PROVE  Marked(s, row.hwm, row.ci)' \subseteq Posts(row.ref, s)'
      BY DEF Covers, Visible
    <3>1. row = new
      BY <1>16, <2>4
    <3>2. PICK m : m = Len(base)
      OBVIOUS
    <3>3. Marked(s, m, ci)' \subseteq Marked(clock, m, ci)
      BY <1>4, <1>11, <1>14, <2>4, <3>2, NewMarked
    <3>4. Marked(clock, m, ci) \subseteq r
      <4> SUFFICES ASSUME NEW n \in Places(base, clock) PROVE n > 0
        BY <1>7 DEF Marked, R, Posted
      <4>1. n \in 1 .. Len(base)
        BY <1>4 DEF Places, HostTypes, BaseTypes
      <4> QED BY <1>4, <4>1
    <3>5. r \subseteq Posts(ref, s)'
      BY <1>8, <1>9, <1>14, <2>4, NewPosts
    <3>6. Marked(s, row.hwm, row.ci)' = Marked(s, m, ci)'
      BY <1>2, <1>6, <3>1, <3>2 DEF Marked
    <3>7. Posts(row.ref, s)' = Posts(ref, s)'
      BY <1>6, <1>7, <3>1
    <3> QED BY <3>3, <3>4, <3>5, <3>6, <3>7
  <2> QED BY <1>14, <2>1, <2>2, <2>3, <2>4, IndexStep
<1> QED BY <1>14, <1>15, <1>17, CommitKeepsRun

\* A checkpoint takes what nobody sees, and no row of a run that found any.
LEMMA VacuumStep ==
    ASSUME HostTypes, IndexInv, RunInv, Vacuum
    PROVE  HostTypes' /\ IndexInv' /\ RunInv'
<1>1. /\ ~lock /\ UNCHANGED <<text, guard, registry, clock, lock, stmt>>
      /\ base' = IF guard = None THEN Vacuumed(base) ELSE base
      /\ segments' = [ref \in DOMAIN segments |-> Vacuumed(segments[ref])]
  BY DEF Vacuum
<1>2. Oldest \in 0 .. clock /\ (Running => stmt.snap \in 0 .. clock) /\ clock \in Nat
  BY OldestType DEF RunInv, HostTypes, ClockTypes
<1>3. Oldest' = Oldest /\ Running' = Running
  BY <1>1 DEF Oldest, Running
<1>4. \A ref \in 1 .. MaxCommit :
         /\ segments[ref] \in Seq(Posting)
         /\ \A n \in DOMAIN segments[ref] : Lived(segments[ref][n])
  BY DEF HostTypes, SegmentTypes
<1>5. DOMAIN segments = 1 .. MaxCommit
  BY DEF HostTypes, SegmentTypes
<1>6. ASSUME NEW ref \in 1 .. MaxCommit
      PROVE  /\ segments'[ref] \in Seq(Posting)
             /\ \A k \in DOMAIN segments'[ref] :
                   \E n \in DOMAIN segments[ref] : segments'[ref][k] = segments[ref][n]
             /\ \A n \in DOMAIN segments[ref] :
                   segments[ref][n].to > Oldest =>
                       \E k \in DOMAIN segments'[ref] : segments'[ref][k] = segments[ref][n]
  <2>1. segments'[ref] = Vacuumed(segments[ref])
    BY <1>1, <1>5
  <2> QED BY <1>4, <2>1, VacuumedTable
<1>7. /\ base' \in Seq(Item)
      /\ \A k \in DOMAIN base' : \E n \in DOMAIN base : base'[k] = base[n]
      /\ \A n \in DOMAIN base : base[n].to > Oldest => \E k \in DOMAIN base' : base'[k] = base[n]
  <2>1. base \in Seq(Item)
    BY DEF HostTypes, BaseTypes
  <2> QED BY <1>1, <2>1, VacuumedTable
<1>8. HostTypes'
  <2>1. ClockTypes' /\ RegistryTypes'
    BY <1>1 DEF HostTypes, ClockTypes, RegistryTypes, Lived
  <2>2. BaseTypes'
    BY <1>1, <1>7 DEF HostTypes, BaseTypes, Lived
  <2>3. SegmentTypes'
    <3>1. segments' \in [1 .. MaxCommit -> Seq(Posting)]
      BY <1>1, <1>5, <1>6
    <3>2. ASSUME NEW ref \in 1 .. MaxCommit, NEW k \in DOMAIN segments'[ref]
          PROVE  Lived(segments[ref][k])'
      BY <1>1, <1>4, <1>6 DEF Lived
    <3> QED BY <3>1, <3>2 DEF SegmentTypes
  <2> QED BY <2>1, <2>2, <2>3 DEF HostTypes
<1>9. \A index \in registry : index.ref \in 1 .. MaxCommit /\ index.ref # None
  BY DEF HostTypes, RegistryTypes, Registered, None
<1>10. IndexInv'
  <2>1. OneIndex' /\ MarkInTable'
    BY <1>1, <1>9 DEF IndexInv, OneIndex, Current, Visible, MarkInTable
  <2>2. ASSUME NEW s \in 0 .. clock PROVE PostsBelowMark(s)'
    <3> SUFFICES ASSUME NEW row \in registry, NEW k \in DOMAIN segments'[row.ref],
                        Visible(row, s), Visible(segments'[row.ref][k], s)
                 PROVE  /\ segments'[row.ref][k].rowids # {}
                        /\ segments'[row.ref][k].rowids \subseteq 1 .. row.hwm
      BY <1>1 DEF PostsBelowMark, Visible
    <3>1. PICK n \in DOMAIN segments[row.ref] : segments'[row.ref][k] = segments[row.ref][n]
      BY <1>6, <1>9
    <3> QED BY <3>1 DEF IndexInv, PostsBelowMark
  <2>3. ASSUME NEW s \in Oldest .. clock PROVE Covers(s)'
    <3> SUFFICES ASSUME NEW row \in registry, Visible(row, s), row.ref = guard
                 PROVE  Marked(s, row.hwm, row.ci)' \subseteq Posts(row.ref, s)'
      BY <1>1 DEF Covers, Visible
    <3>1. base' = base
      BY <1>1, <1>9
    <3>2. Marked(s, row.hwm, row.ci)' = Marked(s, row.hwm, row.ci)
      BY <1>1, <3>1 DEF Marked, Places, Visible, Holds
    <3>3. Marked(s, row.hwm, row.ci) \subseteq Posts(row.ref, s)
      BY DEF IndexInv, Covers
    <3>4. ASSUME NEW n \in DOMAIN segments[row.ref], Visible(segments[row.ref][n], s)
          PROVE  segments[row.ref][n].rowids \subseteq Posts(row.ref, s)'
      <4>1. segments[row.ref][n].to > Oldest
        <5>1. Lived(segments[row.ref][n])
          BY <1>4, <1>9
        <5>2. s < segments[row.ref][n].to
          BY <3>4 DEF Visible
        <5> QED BY <1>2, <5>1, <5>2, PlanInputs DEF Lived, Forever
      <4>2. PICK k \in DOMAIN segments'[row.ref] : segments'[row.ref][k] = segments[row.ref][n]
        BY <1>6, <1>9, <4>1
      <4>3. Visible(segments'[row.ref][k], s)
        BY <3>4, <4>2
      <4>4. segments'[row.ref][k].rowids \subseteq Posts(row.ref, s)'
        BY <4>3 DEF Posts, Places, Visible
      <4> QED BY <4>2, <4>4
    <3>5. Posts(row.ref, s) \subseteq Posts(row.ref, s)'
      BY <3>4 DEF Posts, Places
    <3> QED BY <3>2, <3>3, <3>5
  <2> QED BY <1>1, <1>3, <2>1, <2>2, <2>3 DEF IndexInv
<1>11. StmtForm'
  <2>1. RunForm => RunForm'
    BY <1>1 DEF RunForm
  <2>2. PlanForm => PlanForm'
    BY <1>1 DEF PlanForm
  <2> QED BY <1>1, <1>3, <2>1, <2>2 DEF RunInv, StmtForm
<1>12. ASSUME Running PROVE Expected' = Expected
  <2>1. Oldest = stmt.snap
    BY <1>12 DEF Oldest
  <2>2. \A n \in DOMAIN base : Visible(base[n], stmt.snap) => base[n].to > Oldest
    <3>1. \A n \in DOMAIN base : Lived(base[n])
      BY DEF HostTypes, BaseTypes
    <3> QED BY <1>2, <2>1, <3>1, PlanInputs DEF Visible, Lived, Forever
  <2>3. Expected = {base[n].row : n \in {m \in DOMAIN base :
                        Visible(base[m], stmt.snap) /\ Holds(base[m].row, stmt.ci)}}
    BY DEF Expected, Places
  <2>4. Expected' = {base'[n].row : n \in {m \in DOMAIN base' :
                        Visible(base'[m], stmt.snap) /\ Holds(base'[m].row, stmt.ci)}}
    BY <1>1 DEF Expected, Places, Visible, Holds
  <2>5. Expected' \subseteq Expected
    BY <1>7, <2>3, <2>4
  <2>6. Expected \subseteq Expected'
    BY <1>7, <2>2, <2>3, <2>4
  <2> QED BY <2>5, <2>6
<1>13. ASSUME Running, stmt.hwm = 0 PROVE Wanted' = {}
  <2>1. \A n \in DOMAIN base' : n \in Nat /\ n >= 1
    BY <1>7
  <2> QED BY <1>1, <1>13, <2>1 DEF Wanted, Marked, Places
<1>14. \A found : Held(found) => stmt.hwm = 0 /\ found = {}
  BY <1>1 DEF Held
<1>15. /\ stmt.at # "locked"
       /\ ProbeInv' /\ FetchInv' /\ TailInv'
  <2>1. stmt.at # "locked"
    BY <1>1 DEF RunInv
  <2>2. ProbeInv'
    <3> SUFFICES ASSUME stmt.at = "probing" PROVE ProbeInv'
      BY <1>1 DEF ProbeInv
    <3>1. stmt.hwm = 0 /\ DOMAIN stmt.manifest = {} /\ Running
      BY <1>14 DEF RunInv, ProbeInv, Running
    <3> QED BY <1>1, <1>13, <3>1 DEF ProbeInv, ManifestStays, Held
  <2>3. FetchInv'
    <3> SUFFICES ASSUME stmt.at \in {"fetching", "joining"} PROVE FetchInv'
      BY <1>1 DEF FetchInv
    <3>1. stmt.hwm = 0 /\ stmt.rowids = {} /\ Running
      BY <1>14 DEF RunInv, FetchInv, Running
    <3> QED BY <1>1, <1>13, <3>1 DEF FetchInv, Held
  <2>4. TailInv'
    <3> SUFFICES ASSUME stmt.at = "tail" PROVE TailInv'
      BY <1>1 DEF TailInv
    <3>1. stmt.hwm = 0 /\ Running /\ stmt.result \subseteq Expected
      BY <1>14 DEF RunInv, TailInv, Running
    <3>2. {base[n].row : n \in Wanted}' = {}
      BY <1>13, <3>1
    <3> QED BY <1>1, <1>12, <3>1, <3>2 DEF TailInv, Held
  <2> QED BY <2>1, <2>2, <2>3, <2>4
<1>16. DoneInv'
  BY <1>1, <1>12 DEF RunInv, DoneInv, Running
<1>17. RunInv'
  BY <1>1, <1>11, <1>15, <1>16 DEF RunInv, PostingsStay
<1> QED BY <1>8, <1>10, <1>17

\* The invariant holds over what other connections do.
LEMMA HostStep ==
    ASSUME IInv, Host
    PROVE  IInv'
<1>1. HostTypes /\ IndexInv /\ RunInv
  BY DEF IInv
<1>2. HostTypes' /\ IndexInv' /\ RunInv'
  BY <1>1, AppendRowStep, DeleteRowStep, DropIndexStep, RefreshIndexStep, CompactIndexStep,
     CreateIndexStep, VacuumStep DEF Host
<1> QED BY <1>2 DEF IInv

-----------------------------------------------------------------------------
(* The steps of the statement *)

\* What the statement does leaves the commits alone.
LEMMA ClientStep ==
    ASSUME IInv, UNCHANGED host, lock' \in BOOLEAN, RunInv',
           \/ Running /\ Running' /\ stmt'.snap = stmt.snap
           \/ Oldest' = clock
    PROVE  IInv'
<1>1. /\ UNCHANGED <<text, base, guard, registry, segments, clock>> /\ HostTypes /\ IndexInv
      /\ StmtForm /\ clock \in Nat
  BY DEF host, IInv, RunInv, HostTypes, ClockTypes
<1>2. HostTypes'
  BY <1>1 DEF HostTypes, ClockTypes, BaseTypes, RegistryTypes, SegmentTypes, Lived
<1>3. Oldest \in 0 .. clock
  BY <1>1, OldestType
<1>4. Oldest' \in Oldest .. clock
  <2>1. CASE Running /\ Running' /\ stmt'.snap = stmt.snap
    BY <1>3, <2>1 DEF Oldest
  <2>2. CASE Oldest' = clock
    BY <1>1, <1>3, <2>2
  <2> QED BY <2>1, <2>2
<1>5. IndexInv'
  <2>1. OneIndex' /\ MarkInTable'
    BY <1>1 DEF IndexInv, OneIndex, Current, Visible, MarkInTable
  <2>2. ASSUME NEW s \in 0 .. clock PROVE PostsBelowMark(s)'
    BY <1>1 DEF IndexInv, PostsBelowMark, Visible
  <2>3. ASSUME NEW s \in Oldest .. clock PROVE Covers(s)'
    <3>1. Covers(s)
      BY <1>1 DEF IndexInv
    <3> QED BY <1>1, <3>1 DEF Covers, Visible, Marked, Posts, Places, Holds
  <2>4. \A s \in Oldest' .. clock : s \in Oldest .. clock
    BY <1>1, <1>3, <1>4
  <2> QED BY <1>1, <2>1, <2>2, <2>3, <2>4 DEF IndexInv
<1> QED BY <1>2, <1>5 DEF IInv

\* The fields of a run, after a step.
Fields(kind, ci, short, ref, at, snap, hwm, manifest, rowids, result) ==
    [kind |-> kind, ci |-> ci, short |-> short, ref |-> ref, at |-> at, snap |-> snap, hwm |-> hwm,
     manifest |-> manifest, rowids |-> rowids, result |-> result]

RunsOn(at, hwm, manifest, rowids, result) ==
    stmt' = Fields(stmt.kind, stmt.ci, stmt.short, stmt.ref, at, stmt.snap, hwm, manifest, rowids, result)

\* The fields a step of the run changes.
LEMMA RunChanges ==
    ASSUME RunForm
    PROVE  /\ \A at : stmt' = [stmt EXCEPT !.at = at]
                => RunsOn(at, stmt.hwm, stmt.manifest, stmt.rowids, stmt.result)
           /\ \A at, rowids : stmt' = [stmt EXCEPT !.at = at, !.rowids = rowids]
                => RunsOn(at, stmt.hwm, stmt.manifest, rowids, stmt.result)
           /\ \A at, result : stmt' = [stmt EXCEPT !.at = at, !.result = result]
                => RunsOn(at, stmt.hwm, stmt.manifest, stmt.rowids, result)
           /\ \A at, hwm, manifest :
                stmt' = [stmt EXCEPT !.at = at, !.hwm = hwm, !.manifest = manifest]
                => RunsOn(at, hwm, manifest, stmt.rowids, stmt.result)
           /\ \A at, hwm, rowids :
                stmt' = [stmt EXCEPT !.at = at, !.hwm = hwm, !.rowids = rowids]
                => RunsOn(at, hwm, stmt.manifest, rowids, stmt.result)
<1> DEFINE F(at, hwm, manifest, rowids, result) ==
               Fields(stmt.kind, stmt.ci, stmt.short, stmt.ref, at, stmt.snap, hwm, manifest, rowids,
                      result)
<1>1. stmt = F(stmt.at, stmt.hwm, stmt.manifest, stmt.rowids, stmt.result)
  BY DEF RunForm, Fields
<1> HIDE DEF F
<1>2. ASSUME NEW at
      PROVE  [stmt EXCEPT !.at = at] = F(at, stmt.hwm, stmt.manifest, stmt.rowids, stmt.result)
  <2>1. [stmt EXCEPT !.at = at]
          = [F(stmt.at, stmt.hwm, stmt.manifest, stmt.rowids, stmt.result) EXCEPT !.at = at]
    BY <1>1
  <2>2. [F(stmt.at, stmt.hwm, stmt.manifest, stmt.rowids, stmt.result) EXCEPT !.at = at]
          = F(at, stmt.hwm, stmt.manifest, stmt.rowids, stmt.result)
    BY DEF F, Fields
  <2> QED BY <2>1, <2>2
<1>3. ASSUME NEW at, NEW rowids
      PROVE  [stmt EXCEPT !.at = at, !.rowids = rowids]
               = F(at, stmt.hwm, stmt.manifest, rowids, stmt.result)
  <2>1. [stmt EXCEPT !.at = at, !.rowids = rowids] = [[stmt EXCEPT !.at = at] EXCEPT !.rowids = rowids]
    OBVIOUS
  <2>2. [[stmt EXCEPT !.at = at] EXCEPT !.rowids = rowids]
          = [F(at, stmt.hwm, stmt.manifest, stmt.rowids, stmt.result) EXCEPT !.rowids = rowids]
    BY <1>2
  <2>3. [F(at, stmt.hwm, stmt.manifest, stmt.rowids, stmt.result) EXCEPT !.rowids = rowids]
          = F(at, stmt.hwm, stmt.manifest, rowids, stmt.result)
    BY DEF F, Fields
  <2> QED BY <2>1, <2>2, <2>3
<1>4. ASSUME NEW at, NEW result
      PROVE  [stmt EXCEPT !.at = at, !.result = result]
               = F(at, stmt.hwm, stmt.manifest, stmt.rowids, result)
  <2>1. [stmt EXCEPT !.at = at, !.result = result] = [[stmt EXCEPT !.at = at] EXCEPT !.result = result]
    OBVIOUS
  <2>2. [[stmt EXCEPT !.at = at] EXCEPT !.result = result]
          = [F(at, stmt.hwm, stmt.manifest, stmt.rowids, stmt.result) EXCEPT !.result = result]
    BY <1>2
  <2>3. [F(at, stmt.hwm, stmt.manifest, stmt.rowids, stmt.result) EXCEPT !.result = result]
          = F(at, stmt.hwm, stmt.manifest, stmt.rowids, result)
    BY DEF F, Fields
  <2> QED BY <2>1, <2>2, <2>3
<1>5. ASSUME NEW at, NEW hwm
      PROVE  [stmt EXCEPT !.at = at, !.hwm = hwm]
               = F(at, hwm, stmt.manifest, stmt.rowids, stmt.result)
  <2>1. [stmt EXCEPT !.at = at, !.hwm = hwm] = [[stmt EXCEPT !.at = at] EXCEPT !.hwm = hwm]
    OBVIOUS
  <2>2. [[stmt EXCEPT !.at = at] EXCEPT !.hwm = hwm]
          = [F(at, stmt.hwm, stmt.manifest, stmt.rowids, stmt.result) EXCEPT !.hwm = hwm]
    BY <1>2
  <2>3. [F(at, stmt.hwm, stmt.manifest, stmt.rowids, stmt.result) EXCEPT !.hwm = hwm]
          = F(at, hwm, stmt.manifest, stmt.rowids, stmt.result)
    BY DEF F, Fields
  <2> QED BY <2>1, <2>2, <2>3
<1>6. ASSUME NEW at, NEW hwm, NEW manifest
      PROVE  [stmt EXCEPT !.at = at, !.hwm = hwm, !.manifest = manifest]
               = F(at, hwm, manifest, stmt.rowids, stmt.result)
  <2>1. [stmt EXCEPT !.at = at, !.hwm = hwm, !.manifest = manifest]
          = [[stmt EXCEPT !.at = at, !.hwm = hwm] EXCEPT !.manifest = manifest]
    OBVIOUS
  <2>2. [[stmt EXCEPT !.at = at, !.hwm = hwm] EXCEPT !.manifest = manifest]
          = [F(at, hwm, stmt.manifest, stmt.rowids, stmt.result) EXCEPT !.manifest = manifest]
    BY <1>5
  <2>3. [F(at, hwm, stmt.manifest, stmt.rowids, stmt.result) EXCEPT !.manifest = manifest]
          = F(at, hwm, manifest, stmt.rowids, stmt.result)
    BY DEF F, Fields
  <2> QED BY <2>1, <2>2, <2>3
<1>7. ASSUME NEW at, NEW hwm, NEW rowids
      PROVE  [stmt EXCEPT !.at = at, !.hwm = hwm, !.rowids = rowids]
               = F(at, hwm, stmt.manifest, rowids, stmt.result)
  <2>1. [stmt EXCEPT !.at = at, !.hwm = hwm, !.rowids = rowids]
          = [[stmt EXCEPT !.at = at, !.hwm = hwm] EXCEPT !.rowids = rowids]
    OBVIOUS
  <2>2. [[stmt EXCEPT !.at = at, !.hwm = hwm] EXCEPT !.rowids = rowids]
          = [F(at, hwm, stmt.manifest, stmt.rowids, stmt.result) EXCEPT !.rowids = rowids]
    BY <1>5
  <2>3. [F(at, hwm, stmt.manifest, stmt.rowids, stmt.result) EXCEPT !.rowids = rowids]
          = F(at, hwm, stmt.manifest, rowids, stmt.result)
    BY DEF F, Fields
  <2> QED BY <2>1, <2>2, <2>3
<1> QED BY <1>2, <1>3, <1>4, <1>6, <1>7 DEF RunsOn, F

\* A run that goes on keeps its form, its plan and its snapshot.
LEMMA RunGoesOn ==
    ASSUME RunForm, clock' = clock, NEW at \in RunPhases, NEW hwm \in Nat, NEW manifest, NEW rowids,
           NEW result, RunsOn(at, hwm, manifest, rowids, result)
    PROVE  /\ StmtForm' /\ Running /\ Running'
           /\ stmt'.kind = stmt.kind /\ stmt'.ci = stmt.ci /\ stmt'.ref = stmt.ref
           /\ stmt'.snap = stmt.snap /\ stmt'.at = at /\ stmt'.hwm = hwm
           /\ stmt'.manifest = manifest /\ stmt'.rowids = rowids /\ stmt'.result = result
<1>1. /\ stmt'.kind = stmt.kind /\ stmt'.ci = stmt.ci /\ stmt'.short = stmt.short /\ stmt'.ref = stmt.ref
      /\ stmt'.snap = stmt.snap /\ stmt'.at = at /\ stmt'.hwm = hwm
      /\ stmt'.manifest = manifest /\ stmt'.rowids = rowids /\ stmt'.result = result
  BY DEF RunsOn, Fields
<1>2. stmt' = Fields(stmt'.kind, stmt'.ci, stmt'.short, stmt'.ref, stmt'.at, stmt'.snap, stmt'.hwm,
                     stmt'.manifest, stmt'.rowids, stmt'.result)
  BY <1>1 DEF RunsOn
<1>3. Running /\ Running' /\ stmt'.at # "planned"
  BY <1>1 DEF Running, RunForm, RunPhases
<1>4. RunForm'
  BY <1>1, <1>2 DEF RunForm, Fields
<1> QED BY <1>1, <1>3, <1>4 DEF StmtForm

-----------------------------------------------------------------------------
(* Planning, starting and validating *)

\* A plan names a committed index.
LEMMA PlanStep ==
    ASSUME IInv, PlanScan \/ Bind
    PROVE  IInv'
<1>1. UNCHANGED <<text, base, guard, registry, segments, clock>> /\ UNCHANGED host /\ lock' = lock
      /\ lock \in BOOLEAN
  BY DEF PlanScan, Bind, host, IInv, HostTypes, ClockTypes
<1>2. \E kind, ci, short : \E index \in Current :
         stmt' = [at |-> "planned", kind |-> kind, ci |-> ci, short |-> short, ref |-> index.ref]
  <2>1. CASE PlanScan
    BY <2>1 DEF PlanScan
  <2>2. CASE Bind
    BY <2>2 DEF Bind
  <2> QED BY <2>1, <2>2
<1>3. PICK kind, ci, short :
          \E index \in Current :
             stmt' = [at |-> "planned", kind |-> kind, ci |-> ci, short |-> short, ref |-> index.ref]
  BY <1>2
<1>4. PICK index \in Current :
          stmt' = [at |-> "planned", kind |-> kind, ci |-> ci, short |-> short, ref |-> index.ref]
  BY <1>3
<1>5. index.ref \in 1 .. clock
  BY DEF Current, IInv, HostTypes, RegistryTypes
<1>6. StmtForm' /\ ~Running' /\ stmt'.at = "planned"
  BY <1>1, <1>4, <1>5 DEF StmtForm, PlanForm, Running
<1>7. RunInv'
  BY <1>6 DEF RunInv, ProbeInv, FetchInv, TailInv, DoneInv, PostingsStay
<1>8. Oldest' = clock
  BY <1>1, <1>6 DEF Oldest
<1> QED BY <1>1, <1>7, <1>8, ClientStep

\* A run starts under the last snapshot.
LEMMA BeginStep ==
    ASSUME IInv, Begin
    PROVE  IInv'
<1>1. UNCHANGED <<text, base, guard, registry, segments, clock>> /\ UNCHANGED host /\ lock' = lock
      /\ lock \in BOOLEAN /\ clock \in Nat
  BY DEF Begin, host, IInv, HostTypes, ClockTypes
<1>2. stmt.ref \in 1 .. clock
  BY DEF Begin, IInv, RunInv, StmtForm
<1>3. stmt' = [kind |-> stmt.kind, ci |-> stmt.ci, short |-> stmt.short, ref |-> stmt.ref,
               at |-> "started", snap |-> clock, hwm |-> None, manifest |-> <<>>, rowids |-> {},
               result |-> {}]
  BY DEF Begin, Run
<1>4. StmtForm' /\ Running' /\ stmt'.at = "started" /\ stmt'.snap = clock
  <2>1. Running' /\ stmt'.at = "started" /\ stmt'.snap = clock
    BY <1>3 DEF Running
  <2>2. RunForm'
    BY <1>1, <1>2, <1>3 DEF RunForm, RunPhases, None
  <2> QED BY <2>1, <2>2 DEF StmtForm
<1>5. RunInv'
  BY <1>4 DEF RunInv, ProbeInv, FetchInv, TailInv, DoneInv, PostingsStay
<1>6. Oldest' = clock
  BY <1>4 DEF Oldest
<1> QED BY <1>1, <1>5, <1>6, ClientStep

\* A run ends, and its lock with it.
LEMMA EndStep ==
    ASSUME IInv, End
    PROVE  IInv'
<1>1. UNCHANGED <<text, base, guard, registry, segments, clock>> /\ UNCHANGED host /\ lock' \in BOOLEAN
  BY DEF End, host
<1>2. stmt.ref \in 1 .. clock
  BY DEF End, IInv, RunInv, StmtForm, Running, RunForm
<1>3. StmtForm' /\ ~Running' /\ stmt'.at \in {"idle", "planned"}
  <2>1. CASE stmt' = Closed
    BY <2>1 DEF StmtForm, PlanForm, Running, Closed
  <2>2. CASE stmt' = [kind |-> stmt.kind, ci |-> stmt.ci, short |-> stmt.short, ref |-> stmt.ref,
                      at |-> "planned"]
    BY <1>1, <1>2, <2>2 DEF StmtForm, PlanForm, Running
  <2> QED BY <2>1, <2>2 DEF End
<1>4. RunInv'
  BY <1>3 DEF RunInv, ProbeInv, FetchInv, TailInv, DoneInv, PostingsStay
<1>5. Oldest' = clock
  BY <1>1, <1>3 DEF Oldest
<1> QED BY <1>1, <1>4, <1>5, ClientStep

\* A run that goes on.
LEMMA GoOn ==
    ASSUME IInv, Running, UNCHANGED host, lock' \in BOOLEAN, NEW at \in RunPhases, NEW hwm \in Nat,
           NEW manifest, NEW rowids, NEW result, RunsOn(at, hwm, manifest, rowids, result),
           at = "locked" => lock',
           ProbeInv' /\ FetchInv' /\ TailInv' /\ DoneInv' /\ PostingsStay'
    PROVE  IInv'
<1>1. RunForm /\ clock' = clock
  BY DEF host, IInv, RunInv, StmtForm
<1>2. StmtForm' /\ Running' /\ stmt'.snap = stmt.snap /\ stmt'.at = at
  BY <1>1, RunGoesOn
<1>3. RunInv'
  BY <1>2 DEF RunInv
<1> QED BY <1>2, <1>3, ClientStep

\* A step to a phase of which nothing is claimed but the lock.
LEMMA GoPlain ==
    ASSUME IInv, Running, UNCHANGED host, lock' \in BOOLEAN, NEW at \in {"locked", "full", "error"},
           stmt' = [stmt EXCEPT !.at = at], at = "locked" => lock'
    PROVE  IInv'
<1>1. RunForm /\ clock' = clock /\ stmt.hwm \in Nat
  BY DEF host, IInv, RunInv, StmtForm, RunForm
<1>2. RunsOn(at, stmt.hwm, stmt.manifest, stmt.rowids, stmt.result) /\ at \in RunPhases
  BY <1>1, RunChanges DEF RunPhases
<1>3. stmt'.at = at
  BY <1>1, <1>2, RunGoesOn
<1>4. ProbeInv' /\ FetchInv' /\ TailInv' /\ DoneInv' /\ PostingsStay'
  BY <1>3 DEF ProbeInv, FetchInv, TailInv, DoneInv, PostingsStay
<1> QED BY <1>1, <1>2, <1>4, GoOn

\* The lock is taken.
LEMMA TakeLockStep ==
    ASSUME IInv, TakeLock
    PROVE  IInv'
<1>1. Running /\ UNCHANGED host /\ lock' = TRUE /\ stmt' = [stmt EXCEPT !.at = "locked"]
  BY DEF TakeLock, Running
<1>2. lock' \in BOOLEAN
  BY <1>1
<1> QED BY <1>1, <1>2, GoPlain

\* The lookup of a usable index finds all it is to find; a run keeps the lock for it.
LEMMA ValidateStep ==
    ASSUME IInv, Validate
    PROVE  IInv'
<1>1. /\ stmt.at = "locked" /\ Running /\ UNCHANGED host /\ RunForm /\ lock /\ lock \in BOOLEAN
      /\ UNCHANGED <<text, base, guard, registry, segments, clock>>
      /\ stmt.snap \in 0 .. clock /\ stmt.ref \in 1 .. clock /\ clock \in Nat
  <2>1. stmt.at = "locked" /\ Running /\ UNCHANGED host
    BY DEF Validate, Running
  <2> QED BY <2>1 DEF host, IInv, RunInv, StmtForm, RunForm, HostTypes, ClockTypes
<1>2. CASE FullScan \/ Raise
  <2>1. lock' \in BOOLEAN /\ (stmt' = [stmt EXCEPT !.at = "full"] \/ stmt' = [stmt EXCEPT !.at = "error"])
    BY <1>2 DEF FullScan, Raise
  <2> QED BY <1>1, <2>1, GoPlain
<1>3. ASSUME NEW index \in Recorded(stmt.ref, stmt.snap), GuardExact(index), Probeable(stmt, index),
             Probe(index)
      PROVE  IInv'
  <2> DEFINE ref == stmt.ref
             places == Places(segments[ref], stmt.snap)
  <2>1. /\ index \in registry /\ index.ref = stmt.ref /\ Visible(index, stmt.snap)
        /\ guard = index.ref /\ (stmt.ci => index.ci) /\ index.hwm \in Nat
    BY <1>3 DEF Recorded, GuardExact, Probeable, IInv, HostTypes, RegistryTypes, Registered
  <2>2. /\ stmt' = [stmt EXCEPT !.at = "probing", !.hwm = index.hwm, !.manifest = Manifest(index)]
        /\ lock' = (lock /\ (index.hwm # None \/ stmt.kind = "candidates"))
    BY <1>3 DEF Probe, LockForProbe
  <2>3. RunsOn("probing", index.hwm, Manifest(index), stmt.rowids, stmt.result)
    BY <1>1, <2>2, RunChanges
  <2>4. /\ stmt'.at = "probing" /\ stmt'.snap = stmt.snap /\ stmt'.ci = stmt.ci /\ stmt'.ref = stmt.ref
        /\ stmt'.hwm = index.hwm /\ stmt'.manifest = Manifest(index)
    BY <1>1, <2>1, <2>3, RunGoesOn DEF RunPhases
  <2>5. DOMAIN Manifest(index) = places
        /\ \A n \in places : n \in DOMAIN segments[ref] /\ Manifest(index)[n] = segments[ref][n]
    BY <2>1 DEF Manifest, Places
  <2>6. PostsBelowMark(stmt.snap) /\ Covers(stmt.snap)
    <3>1. stmt.snap \in Oldest .. clock
      BY <1>1 DEF Oldest
    <3> QED BY <1>1, <3>1 DEF IInv, IndexInv
  <2>7. ManifestStays'
    BY <1>1, <2>4, <2>5 DEF ManifestStays
  <2>8. Held(DOMAIN stmt.manifest)'
    <3> SUFFICES ASSUME ~lock' PROVE index.hwm = 0 /\ places = {}
      BY <2>4, <2>5 DEF Held
    <3>1. index.hwm = 0
      BY <1>1, <2>2 DEF None
    <3>2. \A n \in places : segments[ref][n].rowids # {} /\ segments[ref][n].rowids \subseteq 1 .. 0
      BY <2>1, <2>6, <3>1 DEF PostsBelowMark, Places
    <3> QED BY <3>1, <3>2
  <2>9. Marked(stmt.snap, index.hwm, stmt.ci) \subseteq Posts(ref, stmt.snap)
    <3>1. Marked(stmt.snap, index.hwm, stmt.ci) \subseteq Marked(stmt.snap, index.hwm, index.ci)
      BY <2>1 DEF Marked, Holds
    <3>2. Marked(stmt.snap, index.hwm, index.ci) \subseteq Posts(index.ref, stmt.snap)
      BY <2>1, <2>6 DEF Covers
    <3> QED BY <2>1, <3>1, <3>2
  <2>10. Wanted' = Marked(stmt.snap, index.hwm, stmt.ci)
    BY <1>1, <2>4 DEF Wanted, Marked, Places, Visible, Holds
  <2>11. UNION {stmt'.manifest[n].rowids : n \in DOMAIN stmt'.manifest} = Posts(ref, stmt.snap)
    BY <2>4, <2>5 DEF Posts
  <2>12. ProbeInv'
    BY <2>7, <2>8, <2>9, <2>10, <2>11 DEF ProbeInv
  <2>13. FetchInv' /\ TailInv' /\ DoneInv' /\ PostingsStay'
    BY <2>4 DEF FetchInv, TailInv, DoneInv, PostingsStay
  <2>14. lock' \in BOOLEAN /\ "probing" \in RunPhases
    BY <2>2 DEF RunPhases
  <2> QED BY <1>1, <2>1, <2>3, <2>12, <2>13, <2>14, GoOn
<1>4. ASSUME NEW index \in Recorded(stmt.ref, stmt.snap), AllRowids(index)
      PROVE  IInv'
  <2> DEFINE rowids == {n \in Places(base, stmt.snap) : n <= index.hwm}
  <2>1. index.hwm \in Nat
    BY <1>4 DEF Recorded, IInv, HostTypes, RegistryTypes, Registered
  <2>2. stmt' = [stmt EXCEPT !.at = "fetching", !.hwm = index.hwm, !.rowids = rowids] /\ lock' = lock
    BY <1>4 DEF AllRowids
  <2>3. RunsOn("fetching", index.hwm, stmt.manifest, rowids, stmt.result)
    BY <1>1, <2>2, RunChanges
  <2>4. /\ stmt'.at = "fetching" /\ stmt'.snap = stmt.snap /\ stmt'.ci = stmt.ci
        /\ stmt'.hwm = index.hwm /\ stmt'.rowids = rowids
    BY <1>1, <2>1, <2>3, RunGoesOn DEF RunPhases
  <2>5. Wanted' = Marked(stmt.snap, index.hwm, stmt.ci)
    BY <1>1, <2>4 DEF Wanted, Marked, Places, Visible, Holds
  <2>6. FetchInv'
    BY <1>1, <2>2, <2>4, <2>5 DEF FetchInv, Held, Marked
  <2>7. ProbeInv' /\ TailInv' /\ DoneInv' /\ PostingsStay'
    BY <2>4 DEF ProbeInv, TailInv, DoneInv, PostingsStay
  <2>8. lock' \in BOOLEAN /\ "fetching" \in RunPhases
    BY <1>1, <2>2 DEF RunPhases
  <2> QED BY <1>1, <2>1, <2>3, <2>6, <2>7, <2>8, GoOn
<1> QED BY <1>2, <1>3, <1>4 DEF Validate

-----------------------------------------------------------------------------
(* Decoding, fetching and scanning; the theorems *)

\* What a running statement has.
LEMMA RunFacts ==
    ASSUME IInv, Running
    PROVE  /\ RunForm /\ stmt.snap \in 0 .. clock /\ stmt.hwm \in Nat /\ stmt.ref \in 1 .. clock
           /\ lock \in BOOLEAN /\ clock \in Nat
           /\ DOMAIN base \subseteq Nat
BY DEF IInv, RunInv, StmtForm, RunForm, HostTypes, ClockTypes, BaseTypes

\* The manifest's posting rows are decoded.
LEMMA DecodeStep ==
    ASSUME IInv, Decode
    PROVE  IInv'
<1>1. /\ stmt.at = "probing" /\ Running /\ UNCHANGED host /\ lock' = lock
      /\ UNCHANGED <<text, base, guard, registry, segments, clock>>
  BY DEF Decode, Running, host
<1>2. RunForm /\ stmt.hwm \in Nat /\ lock \in BOOLEAN
  BY <1>1, RunFacts
<1>3. /\ Held(DOMAIN stmt.manifest) /\ ManifestStays
      /\ Wanted \subseteq UNION {stmt.manifest[n].rowids : n \in DOMAIN stmt.manifest}
  BY <1>1 DEF IInv, RunInv, ProbeInv
<1> DEFINE rowids == UNION {segments[stmt.ref][n].rowids : n \in DOMAIN stmt.manifest}
<1>4. stmt' = [stmt EXCEPT !.at = "fetching", !.rowids = rowids]
  BY <1>3 DEF Decode, ManifestStays
<1>5. RunsOn("fetching", stmt.hwm, stmt.manifest, rowids, stmt.result)
  BY <1>2, <1>4, RunChanges
<1>6. /\ stmt'.at = "fetching" /\ stmt'.snap = stmt.snap /\ stmt'.ci = stmt.ci
      /\ stmt'.hwm = stmt.hwm /\ stmt'.rowids = rowids
  BY <1>1, <1>2, <1>5, RunGoesOn DEF RunPhases
<1>7. rowids = UNION {stmt.manifest[n].rowids : n \in DOMAIN stmt.manifest}
  BY <1>3 DEF ManifestStays
<1>8. Wanted' = Wanted
  BY <1>1, <1>6 DEF Wanted, Marked, Places, Visible, Holds
<1>9. FetchInv'
  BY <1>1, <1>3, <1>6, <1>7, <1>8 DEF FetchInv, Held
<1>10. ProbeInv' /\ TailInv' /\ DoneInv' /\ PostingsStay'
  BY <1>6 DEF ProbeInv, TailInv, DoneInv, PostingsStay
<1>11. lock' \in BOOLEAN /\ "fetching" \in RunPhases
  BY <1>1, <1>2 DEF RunPhases
<1> QED BY <1>1, <1>2, <1>5, <1>9, <1>10, <1>11, GoOn

\* The last rowid goes to the caller, the lock stays.
LEMMA EmitStep ==
    ASSUME IInv, Emit
    PROVE  IInv'
<1>1. /\ stmt.at = "fetching" /\ Running /\ UNCHANGED host /\ lock' = lock
      /\ UNCHANGED <<text, base, guard, registry, segments, clock>>
      /\ stmt' = [stmt EXCEPT !.at = "joining"]
  BY DEF Emit, Running, host, LockUntilEnd
<1>2. RunForm /\ stmt.hwm \in Nat /\ lock \in BOOLEAN
  BY <1>1, RunFacts
<1>3. RunsOn("joining", stmt.hwm, stmt.manifest, stmt.rowids, stmt.result)
  BY <1>1, <1>2, RunChanges
<1>4. /\ stmt'.at = "joining" /\ stmt'.snap = stmt.snap /\ stmt'.ci = stmt.ci
      /\ stmt'.hwm = stmt.hwm /\ stmt'.rowids = stmt.rowids
  BY <1>1, <1>2, <1>3, RunGoesOn DEF RunPhases
<1>5. Wanted' = Wanted
  BY <1>1, <1>4 DEF Wanted, Marked, Places, Visible, Holds
<1>6. FetchInv'
  BY <1>1, <1>4, <1>5 DEF IInv, RunInv, FetchInv, Held
<1>7. ProbeInv' /\ TailInv' /\ DoneInv' /\ PostingsStay'
  BY <1>4 DEF ProbeInv, TailInv, DoneInv, PostingsStay
<1>8. lock' \in BOOLEAN /\ "joining" \in RunPhases
  BY <1>1, <1>2 DEF RunPhases
<1> QED BY <1>1, <1>2, <1>3, <1>6, <1>7, <1>8, GoOn

\* The rows at the candidates are fetched.
LEMMA FetchStep ==
    ASSUME IInv, Fetch
    PROVE  IInv'
<1> DEFINE result == Matching(stmt.rowids \intersect DOMAIN base)
<1>1. /\ stmt.at \in {"fetching", "joining"} /\ Running /\ UNCHANGED host /\ lock' = lock
      /\ UNCHANGED <<text, base, guard, registry, segments, clock>>
      /\ stmt' = [stmt EXCEPT !.at = "tail", !.result = result]
  BY DEF Fetch, Running, host
<1>2. RunForm /\ stmt.hwm \in Nat /\ lock \in BOOLEAN
  BY <1>1, RunFacts
<1>3. Held(stmt.rowids) /\ Wanted \subseteq stmt.rowids
  BY <1>1 DEF IInv, RunInv, FetchInv
<1>4. RunsOn("tail", stmt.hwm, stmt.manifest, stmt.rowids, result)
  BY <1>1, <1>2, RunChanges
<1>5. /\ stmt'.at = "tail" /\ stmt'.snap = stmt.snap /\ stmt'.ci = stmt.ci
      /\ stmt'.hwm = stmt.hwm /\ stmt'.result = result
  BY <1>1, <1>2, <1>4, RunGoesOn DEF RunPhases
<1>6. Wanted' = Wanted /\ Expected' = Expected
  BY <1>1, <1>5 DEF Wanted, Marked, Expected, Places, Visible, Holds
<1>7. result \subseteq Expected
  BY DEF Matching, Expected, Places
<1>8. {base[n].row : n \in Wanted} \subseteq result
  BY <1>3 DEF Matching, Wanted, Marked, Places
<1>9. {base[n].row : n \in Wanted}' = {base[n].row : n \in Wanted}
  BY <1>1, <1>6
<1>10. TailInv'
  BY <1>1, <1>3, <1>5, <1>6, <1>7, <1>8, <1>9 DEF TailInv, Held
<1>11. ProbeInv' /\ FetchInv' /\ DoneInv' /\ PostingsStay'
  BY <1>5 DEF ProbeInv, FetchInv, DoneInv, PostingsStay
<1>12. lock' \in BOOLEAN /\ "tail" \in RunPhases
  BY <1>1, <1>2 DEF RunPhases
<1> QED BY <1>1, <1>2, <1>4, <1>10, <1>11, <1>12, GoOn

\* The tail, or the whole table, is scanned.
LEMMA ScanStep ==
    ASSUME IInv, ScanTail \/ ScanAll
    PROVE  IInv'
<1>1. /\ Running /\ UNCHANGED host /\ lock' = lock
      /\ UNCHANGED <<text, base, guard, registry, segments, clock>>
  BY DEF ScanTail, ScanAll, Running, host
<1>2. RunForm /\ stmt.hwm \in Nat /\ lock \in BOOLEAN /\ DOMAIN base \subseteq Nat
  BY <1>1, RunFacts
<1>3. stmt' = [stmt EXCEPT !.at = "done", !.result = Expected]
  <2>1. CASE ScanAll
    <3>1. Matching(DOMAIN base) = Expected
      BY DEF Matching, Expected, Places
    <3> QED BY <2>1, <3>1 DEF ScanAll
  <2>2. CASE ScanTail
    <3>1. stmt.result \subseteq Expected /\ {base[n].row : n \in Wanted} \subseteq stmt.result
      BY <2>2 DEF ScanTail, IInv, RunInv, TailInv
    <3>2. Matching({n \in DOMAIN base : n > stmt.hwm}) \subseteq Expected
      BY DEF Matching, Expected, Places
    <3>3. ASSUME NEW n \in Places(base, stmt.snap), Holds(base[n].row, stmt.ci)
          PROVE  base[n].row \in stmt.result \union Matching({m \in DOMAIN base : m > stmt.hwm})
      <4>1. n \in DOMAIN base /\ Visible(base[n], stmt.snap)
        BY DEF Places
      <4>2. n <= stmt.hwm \/ n > stmt.hwm
        <5>1. n \in Nat
          BY <1>2, <4>1
        <5> QED BY <1>2, <5>1
      <4>3. CASE n <= stmt.hwm
        BY <3>1, <3>3, <4>3 DEF Wanted, Marked
      <4>4. CASE n > stmt.hwm
        BY <3>3, <4>1, <4>4 DEF Matching
      <4> QED BY <4>2, <4>3, <4>4
    <3>4. stmt.result \union Matching({n \in DOMAIN base : n > stmt.hwm}) = Expected
      BY <3>1, <3>2, <3>3 DEF Expected
    <3> QED BY <2>2, <3>4 DEF ScanTail
  <2> QED BY <2>1, <2>2
<1>4. RunsOn("done", stmt.hwm, stmt.manifest, stmt.rowids, Expected)
  BY <1>2, <1>3, RunChanges
<1>5. /\ stmt'.at = "done" /\ stmt'.snap = stmt.snap /\ stmt'.ci = stmt.ci /\ stmt'.result = Expected
  BY <1>1, <1>2, <1>4, RunGoesOn DEF RunPhases
<1>6. Expected' = Expected
  BY <1>1, <1>5 DEF Expected, Places, Visible, Holds
<1>7. ProbeInv' /\ FetchInv' /\ TailInv' /\ DoneInv' /\ PostingsStay'
  BY <1>5, <1>6 DEF ProbeInv, FetchInv, TailInv, DoneInv, PostingsStay
<1>8. lock' \in BOOLEAN /\ "done" \in RunPhases
  BY <1>1, <1>2 DEF RunPhases
<1> QED BY <1>1, <1>2, <1>4, <1>7, <1>8, GoOn

\* The invariant holds at first.
LEMMA InitInv ==
    ASSUME Init
    PROVE  IInv
<1>1. Present \in Seq(Rows) /\ MaxCommit \in Nat
  BY PlanInputs
<1>2. /\ base = [n \in DOMAIN Present |-> [row |-> Present[n], from |-> 0, to |-> Forever]]
      /\ guard = 0 /\ registry = {} /\ clock = 0 /\ segments = [ref \in 1 .. MaxCommit |-> <<>>]
      /\ lock = FALSE /\ stmt = Closed
  BY DEF Init, None
<1>3. BaseTypes
  <2>1. Len(Present) \in Nat /\ DOMAIN Present = 1 .. Len(Present)
        /\ \A n \in 1 .. Len(Present) : Present[n] \in Rows
    BY <1>1
  <2>2. \A n \in 1 .. Len(Present) :
            [row |-> Present[n], from |-> 0, to |-> Forever] \in Item
    BY <1>1, <2>1 DEF Item, Forever
  <2>3. base = [n \in 1 .. Len(Present) |-> [row |-> Present[n], from |-> 0, to |-> Forever]]
    BY <1>2, <2>1
  <2>4. base \in Seq(Item)
    BY <2>1, <2>2, <2>3
  <2>5. \A n \in DOMAIN base : base[n].from = 0 /\ base[n].to = Forever
    BY <2>3
  <2> QED BY <1>2, <2>4, <2>5 DEF BaseTypes, Lived
<1>4. HostTypes
  <2>1. SegmentTypes
    <3>1. <<>> \in Seq(Posting) /\ DOMAIN <<>> = {}
      OBVIOUS
    <3> QED BY <1>2, <3>1 DEF SegmentTypes
  <2>2. RegistryTypes /\ ClockTypes
    <3>1. RegistryTypes
      BY <1>2 DEF RegistryTypes
    <3>2. clock \in 0 .. MaxCommit /\ guard \in 0 .. clock
      BY <1>1, <1>2
    <3> QED BY <1>2, <3>1, <3>2 DEF ClockTypes
  <2> QED BY <1>3, <2>1, <2>2 DEF HostTypes
<1>5. IndexInv
  BY <1>2 DEF IndexInv, OneIndex, Current, MarkInTable, PostsBelowMark, Covers
<1>6. RunInv
  BY <1>2 DEF RunInv, StmtForm, PlanForm, Running, Closed, ProbeInv, FetchInv, TailInv, DoneInv,
              PostingsStay
<1> QED BY <1>4, <1>5, <1>6 DEF IInv

\* Every step keeps it.
LEMMA NextInv ==
    ASSUME IInv, [Next]_vars
    PROVE  IInv'
<1>1. CASE UNCHANGED vars
  <2>1. /\ UNCHANGED host /\ stmt' = stmt /\ lock' = lock /\ lock \in BOOLEAN
        /\ UNCHANGED <<text, base, guard, registry, segments, clock>> /\ RunInv
    BY <1>1 DEF vars, host, IInv, HostTypes, ClockTypes
  <2>2. StmtForm'
    BY <2>1 DEF RunInv, StmtForm, RunForm, PlanForm, Running
  <2>3. Wanted' = Wanted /\ Expected' = Expected
    BY <2>1 DEF Wanted, Marked, Expected, Places, Visible, Holds
  <2>4. ProbeInv' /\ FetchInv'
    BY <2>1, <2>3 DEF RunInv, ProbeInv, FetchInv, Held, ManifestStays
  <2>5. TailInv'
    <3>1. {base[n].row : n \in Wanted}' = {base[n].row : n \in Wanted}
      BY <2>1, <2>3
    <3> QED BY <2>1, <2>3, <3>1 DEF RunInv, TailInv, Held
  <2>6. DoneInv' /\ PostingsStay'
    BY <2>1, <2>3 DEF RunInv, DoneInv, PostingsStay
  <2>7. RunInv'
    BY <2>1, <2>2, <2>4, <2>5, <2>6 DEF RunInv
  <2>8. (Running /\ Running' /\ stmt'.snap = stmt.snap) \/ Oldest' = clock
    BY <2>1 DEF Oldest, Running
  <2> QED BY <2>1, <2>7, <2>8, ClientStep
<1>2. CASE Host
  BY <1>2, HostStep
<1>3. CASE Client
  BY <1>3, PlanStep, BeginStep, TakeLockStep, ValidateStep, DecodeStep, EmitStep, FetchStep, ScanStep,
     EndStep DEF Client
<1> QED BY <1>1, <1>2, <1>3 DEF Next

\* The invariant of the plan and its runs.
THEOREM Invariance == Spec => []IInv
<1>1. Init => IInv
  BY InitInv
<1>2. IInv /\ [Next]_vars => IInv'
  BY NextInv
<1> QED BY <1>1, <1>2, PTL DEF Spec

\* A rewritten scan or a search answers what a scan of its snapshot would.
THEOREM RunsExact == Spec => []AnswerExact
<1>1. IInv => AnswerExact
  BY DEF IInv, RunInv, DoneInv, AnswerExact
<1> QED BY <1>1, Invariance, PTL

\* The rowids of ngram_candidates, joined later, and the rows past the mark are
\* the rows of the answer.
THEOREM CandidatesSuffice == Spec => []CandidatesCover
<1>1. IInv => CandidatesCover
  BY DEF IInv, RunInv, DoneInv, CandidatesCover
<1> QED BY <1>1, Invariance, PTL

\* No posting row of a manifest vanishes before it is decoded.
THEOREM ManifestsHold == Spec => []PostingsStay
<1>1. IInv => PostingsStay
  BY DEF IInv, RunInv
<1> QED BY <1>1, Invariance, PTL
=============================================================================
