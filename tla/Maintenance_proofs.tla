-------------------------- MODULE Maintenance_proofs --------------------------
(***************************************************************************)
(* No refresh or compaction of Maintenance loses a posting, keeps one twice *)
(* or moves the mark over a row it did not index, for any number of         *)
(* connections and rows.                                                    *)
(*                                                                         *)
(* The invariant says of a state of the index, committed or seen by a       *)
(* transaction, that it is sound; and of a transaction what its snapshot    *)
(* and its changes are to the committed state, so that they may be          *)
(* committed over what others committed since.  From it follows that the    *)
(* committed index is a PostedIndex.  A second invariant, on the            *)
(* generations, says that a merge leaves one row of a key.                  *)
(***************************************************************************)
EXTENDS Maintenance, Ordered, FiniteSetTheorems, TLAPS

\* A nonempty set of naturals has a least element.
LEMMA Lowest ==
    ASSUME NEW S \in SUBSET Nat, S # {}
    PROVE  \E m \in S : \A r \in S : m <= r
<1> DEFINE R == {ss \in Nat \X Nat : ss[1] < ss[2]}
<1>1. IsWellFoundedOn(R, Nat)
  BY NatLessThanWellFounded, Zenon DEF OpToRel
<1>2. \A x, y \in Nat : y < x => <<y, x>> \in R
  OBVIOUS
<1>3. PICK x \in S : \A y \in S : ~(<<y, x>> \in R)
  <2> HIDE DEF R
  <2> QED BY <1>1, WFMin
<1>4. \A y \in S : ~(y < x)
  BY <1>2, <1>3
<1> QED BY <1>4

\* A nonempty bounded set of marks has a greatest element.
LEMMA Highest ==
    ASSUME NEW N \in Nat, NEW S \in SUBSET (-1 .. N), S # {}
    PROVE  \E m \in S : \A r \in S : r <= m
<1> DEFINE Below == {N - m : m \in S}
<1>1. Below \subseteq Nat /\ Below # {}
  <2>1. PICK s \in S : TRUE
    OBVIOUS
  <2>2. N - s \in Below
    OBVIOUS
  <2>3. ASSUME NEW m \in S PROVE N - m \in Nat
    <3>1. m \in -1 .. N
      OBVIOUS
    <3> QED BY <3>1
  <2> QED BY <2>2, <2>3
<1>2. PICK x \in Below : \A y \in Below : x <= y
  <2> HIDE DEF Below
  <2> QED BY <1>1, Lowest
<1>3. PICK m \in S : x = N - m
  OBVIOUS
<1>4. ASSUME NEW r \in S PROVE r <= m
  <2>1. N - r \in Below
    OBVIOUS
  <2>2. N - m <= N - r
    BY <1>2, <1>3, <2>1
  <2>3. r \in Int /\ m \in Int
    OBVIOUS
  <2> QED BY <2>2, <2>3
<1> QED BY <1>4

\* The ranks of the elements of a finite set are the numbers below its size.
LEMMA Ranks ==
    ASSUME NEW S \in SUBSET Int, IsFiniteSet(S)
    PROVE  /\ Cardinality(S) \in Nat
           /\ \A n \in S : Rank(S, n) \in 0 .. Cardinality(S) - 1
           /\ \A m, n \in S : m < n => Rank(S, m) < Rank(S, n)
           /\ \A i \in 0 .. Cardinality(S) - 1 : \E n \in S : Rank(S, n) = i
<1> DEFINE Below(n) == {m \in S : m < n}
<1>1. Cardinality(S) \in Nat
  BY FS_CardinalityType
<1>2. \A n \in Int : IsFiniteSet(Below(n)) /\ Rank(S, n) \in Nat
  <2> TAKE n \in Int
  <2>1. Below(n) \in SUBSET S
    OBVIOUS
  <2>2. IsFiniteSet(Below(n))
    BY <2>1, FS_Subset
  <2> QED BY <2>2, FS_CardinalityType DEF Rank
<1>3. ASSUME NEW n \in S PROVE Rank(S, n) \in 0 .. Cardinality(S) - 1
  <2>1. Below(n) \in SUBSET S /\ Below(n) # S
    OBVIOUS
  <2>2. Cardinality(Below(n)) <= Cardinality(S) /\ Cardinality(Below(n)) # Cardinality(S)
    BY <2>1, FS_Subset
  <2> QED BY <2>2, <1>1, <1>2 DEF Rank
<1>4. ASSUME NEW m \in S, NEW n \in S, m < n PROVE Rank(S, m) < Rank(S, n)
  <2>0. S \subseteq Int /\ m \in Int /\ n \in Int
    OBVIOUS
  <2>1. Below(m) \in SUBSET Below(n) /\ m \in Below(n) /\ m \notin Below(m)
    <3>1. \A r \in Below(m) : r \in S /\ r \in Int /\ r < m
      BY <2>0
    <3>2. ASSUME NEW r \in Below(m) PROVE r \in Below(n)
      BY <1>4, <2>0, <3>1
    <3>3. m \in Below(n) /\ m \notin Below(m)
      BY <1>4, <2>0
    <3> QED BY <3>2, <3>3
  <2>2. Cardinality(Below(m)) <= Cardinality(Below(n)) /\ Cardinality(Below(m)) # Cardinality(Below(n))
    BY <2>1, <1>2, FS_Subset
  <2> QED BY <2>2, <1>2 DEF Rank
<1>5. ASSUME NEW i \in 0 .. Cardinality(S) - 1 PROVE \E n \in S : Rank(S, n) = i
  <2> DEFINE T == 0 .. Cardinality(S) - 1
             f == [n \in S |-> Rank(S, n)]
  <2>1. IsFiniteSet(T) /\ Cardinality(T) = Cardinality(S)
    BY <1>1, FS_Interval
  <2>2. f \in [S -> T]
    BY <1>3
  <2>3. ASSUME NEW m \in S, NEW n \in S, f[m] = f[n] PROVE m = n
    <3>1. Rank(S, m) = Rank(S, n) /\ Rank(S, m) \in Nat /\ m \in Int /\ n \in Int
      BY <2>3, <1>2
    <3>2. ~(m < n) /\ ~(n < m)
      BY <3>1, <1>4
    <3> QED BY <3>2
  <2>4. f \in Injection(S, T)
    BY <2>2, <2>3 DEF Injection, IsInjective
  <2>5. f \in Surjection(S, T)
    BY <2>1, <2>4, FS_Injection, Zenon
  <2> QED BY <2>5 DEF Surjection
<1> QED BY <1>1, <1>3, <1>4, <1>5
-----------------------------------------------------------------------------

\* The rows of a segments table hold rowids of their segment up to the mark,
\* each in one row only, and all the visible ones.
Sound(visible, mark, segs) ==
    /\ \A s \in segs : \A r \in s.rowids : r \in Rowid /\ s.segment = SegmentOf(r)
    /\ OneRowUnder(visible, mark, segs)
    /\ Covered(visible, mark, segs)

\* What the rows of a table may be.
TableInv ==
    /\ rows \subseteq Rowid /\ flushing \subseteq Rowid
    /\ allocated \in Nat /\ hwm \in Mark /\ hwm < allocated
    /\ \A r \in rows : r < allocated
    /\ \A f \in flushing : f < allocated /\ hwm < f /\ \A r \in rows : r < f

\* A transaction's snapshot lies below every row that is not in it, and what
\* it removes is still there to be removed.
SnapshotInv(t) ==
    /\ t.open \in BOOLEAN /\ t.advanced \in BOOLEAN /\ t.moved \in BOOLEAN
    /\ t.visible \subseteq Rowid /\ t.hwm \in Mark /\ t.hwm < allocated
    /\ \A r \in t.visible : r < allocated
    /\ \A f \in flushing : t.hwm < f /\ \A v \in t.visible : v < f
    /\ \A r \in rows : r \in t.visible \/ (t.hwm < r /\ \A v \in t.visible : v < r)
    /\ t.removed \subseteq t.base \cap segments
    /\ t.base \ t.replaced \subseteq segments
    /\ \A r \in Posted(t.base) : r <= hwm /\ r <= t.hwm
    /\ t.moved \/ hwm <= t.hwm
    /\ t.advanced => ~t.moved

\* Its added rows take the place of the removed ones, but for those past the
\* mark that it advances.
ChangesInv(t) ==
    /\ t.added \cap (t.base \ t.removed) = {}
    /\ \A r \in Posted(t.removed) : r \in t.visible => r \in Posted(t.added)
    /\ \A r \in Posted(t.added) : r \in Posted(t.removed) \/ (t.advanced /\ hwm < r)
    /\ Sound(t.visible, t.hwm, Seen(t))

Transaction(t) == SnapshotInv(t) /\ ChangesInv(t)

\* A transaction record has these fields, and a call what its script needs.
Shape(t) ==
    t = [open |-> t.open, explicit |-> t.explicit, visible |-> t.visible, hwm |-> t.hwm,
         base |-> t.base, removed |-> t.removed, added |-> t.added, advanced |-> t.advanced,
         replaced |-> t.replaced, moved |-> t.moved, call |-> t.call]

CallInv(call) ==
    call.kind = "refresh" => call.hwm \in Mark /\ call.bound_end \in Int /\ call.hwm < call.bound_end

\* No two transactions remove one row, or both advance the mark.
Apart(c, d) ==
    /\ conn[c].removed \cap conn[d].removed = {}
    /\ ~(conn[c].advanced /\ conn[d].advanced)

Inv ==
    /\ TableInv
    /\ Sound(rows, hwm, segments)
    /\ DOMAIN conn = Conns
    /\ \A c \in Conns :
         /\ Shape(conn[c]) /\ CallInv(conn[c].call)
         /\ conn[c].open \in BOOLEAN
         /\ conn[c].open => Transaction(conn[c])
         /\ ~conn[c].open => conn[c].removed = {} /\ ~conn[c].advanced
    /\ \A c \in Conns : \A d \in Conns \ {c} : Apart(c, d)
-----------------------------------------------------------------------------
\* Max and Min are what they say on the sets they are used on.
LEMMA MaxIs ==
    ASSUME NEW S \in SUBSET Mark, S # {}
    PROVE  Max(S) \in S /\ \A r \in S : r <= Max(S)
<1>1. MaxRowid \in Nat
  BY MaintenanceConstants
<1>2. \E m \in S : \A r \in S : r <= m
  BY <1>1, Highest DEF Mark
<1>3. \E m \in S : \A r \in S : m >= r
  BY <1>2, <1>1 DEF Mark
<1> QED BY <1>1, <1>3 DEF Max, Mark

LEMMA MinIs ==
    ASSUME NEW S \in SUBSET Nat, S # {}
    PROVE  Min(S) \in S /\ \A r \in S : Min(S) <= r
<1>1. \E m \in S : \A r \in S : m <= r
  BY Lowest
<1> QED BY <1>1 DEF Min

\* The packed rows of a set of rowids hold them all, each in its segment's row.
LEMMA PackedIs ==
    ASSUME NEW rowids, NEW g
    PROVE  /\ Posted(Packed(rowids, g)) = rowids
           /\ \A s \in Packed(rowids, g) :
                 /\ s.rowids = {r \in rowids : SegmentOf(r) = s.segment}
                 /\ s.rowids # {}
           /\ \A s, u \in Packed(rowids, g) : s.segment = u.segment => s = u
<1> DEFINE Row(k) == [segment |-> k, generation |-> g,
                      rowids |-> {r \in rowids : SegmentOf(r) = k}]
<1>1. Packed(rowids, g) = {Row(k) : k \in {SegmentOf(r) : r \in rowids}}
  BY DEF Packed
<1>2. \A k : Row(k).segment = k /\ Row(k).rowids = {r \in rowids : SegmentOf(r) = k}
  OBVIOUS
<1>3. ASSUME NEW r \in rowids PROVE Row(SegmentOf(r)) \in Packed(rowids, g)
  BY <1>1
<1> HIDE DEF Row
<1>4. ASSUME NEW s \in Packed(rowids, g)
      PROVE  /\ s.rowids = {r \in rowids : SegmentOf(r) = s.segment}
             /\ s.rowids # {} /\ s = Row(s.segment)
  <2>1. PICK r \in rowids : s = Row(SegmentOf(r))
    BY <1>1
  <2> QED BY <2>1, <1>2
<1>5. Posted(Packed(rowids, g)) = rowids
  <2>1. ASSUME NEW r \in rowids PROVE r \in Posted(Packed(rowids, g))
    <3>1. r \in Row(SegmentOf(r)).rowids
      BY <1>2
    <3> QED BY <3>1, <1>3 DEF Posted
  <2>2. ASSUME NEW r \in Posted(Packed(rowids, g)) PROVE r \in rowids
    <3>1. PICK s \in Packed(rowids, g) : r \in s.rowids
      BY DEF Posted
    <3> QED BY <3>1, <1>4
  <2> QED BY <2>1, <2>2
<1> QED BY <1>4, <1>5

\* What a rowid being posted means.
LEMMA PostedIs ==
    ASSUME NEW segs, NEW r
    PROVE  r \in Posted(segs) <=> \E s \in segs : r \in s.rowids
BY DEF Posted

\* Packed rowids up to the mark, the visible ones among them, are sound.
LEMMA PackedSound ==
    ASSUME NEW visible, NEW mark, NEW rowids \in SUBSET Rowid, NEW g,
           \A r \in rowids : r <= mark,
           \A r \in visible : r <= mark => r \in rowids
    PROVE  Sound(visible, mark, Packed(rowids, g))
<1> DEFINE P == Packed(rowids, g)
<1>1. /\ Posted(P) = rowids
      /\ \A s \in P : s.rowids = {r \in rowids : SegmentOf(r) = s.segment}
      /\ \A s, u \in P : s.segment = u.segment => s = u
  BY PackedIs
<1> HIDE DEF P
<1>2. \A s \in P : \A r \in s.rowids : r \in Rowid /\ s.segment = SegmentOf(r)
  BY <1>1
<1>3. OneRowUnder(visible, mark, P)
  BY <1>1 DEF OneRowUnder
<1>4. Covered(visible, mark, P)
  BY <1>1 DEF Covered
<1> QED BY <1>2, <1>3, <1>4 DEF Sound, P
-----------------------------------------------------------------------------
\* What may be said of the transaction a script runs in, besides its own
\* invariant: nobody else removes what it removes.
Alone(c, t) ==
    \A d \in Conns \ {c} : /\ t.removed \cap conn[d].removed = {}
                           /\ ~(t.advanced /\ conn[d].advanced)

\* A snapshot just taken is a transaction that changed nothing.
LEMMA SnapshotIs ==
    ASSUME Inv
    PROVE  /\ Shape(Snapshot) /\ Transaction(Snapshot)
           /\ Snapshot.open = TRUE /\ Snapshot.removed = {} /\ Snapshot.advanced = FALSE
           /\ Snapshot.call = NoCall
<1>1. Snapshot = [open |-> TRUE, explicit |-> FALSE, visible |-> rows, hwm |-> hwm,
                  base |-> segments, removed |-> {}, added |-> {}, advanced |-> FALSE,
                  replaced |-> {}, moved |-> FALSE, call |-> NoCall]
  BY DEF Snapshot, Unwritten
<1> DEFINE t == Snapshot
<1>2. /\ t.open = TRUE /\ t.visible = rows /\ t.hwm = hwm /\ t.base = segments
      /\ t.removed = {} /\ t.added = {} /\ t.advanced = FALSE /\ t.replaced = {}
      /\ t.moved = FALSE /\ t.call = NoCall /\ Shape(t)
  BY <1>1 DEF Shape
<1> HIDE DEF t
<1>3. TableInv /\ Sound(rows, hwm, segments)
  BY DEF Inv
<1>4. Seen(t) = segments
  BY <1>2 DEF Seen
<1>5. \A r \in Posted(segments) : r <= hwm
  BY <1>3 DEF Posted, Sound, OneRowUnder
<1>6. SnapshotInv(t)
  <2>1. hwm <= hwm
    BY <1>3 DEF TableInv, Mark
  <2> QED BY <1>2, <1>3, <1>5, <2>1 DEF SnapshotInv, TableInv
<1>7. ChangesInv(t)
  BY <1>2, <1>3, <1>4 DEF ChangesInv, Posted
<1> QED BY <1>2, <1>6, <1>7 DEF Transaction, t

\* A script runs in a transaction that keeps the invariant.
LEMMA RunningIs ==
    ASSUME Inv, NEW c \in Conns
    PROVE  /\ Shape(Running(c)) /\ Transaction(Running(c)) /\ Running(c).open = TRUE
           /\ Running(c).call = conn[c].call /\ CallInv(Running(c).call)
           /\ Alone(c, Running(c))
<1>1. CASE conn[c].open
  <2>1. Running(c) = conn[c]
    BY <1>1 DEF Running
  <2>2. Alone(c, conn[c])
    BY DEF Inv, Alone, Apart
  <2> QED BY <1>1, <2>1, <2>2 DEF Inv
<1>2. CASE ~conn[c].open
  <2> DEFINE t == Running(c)
  <2>1. t = [Snapshot EXCEPT !.call = conn[c].call]
    BY <1>2 DEF Running
  <2>2. /\ t.open = Snapshot.open /\ t.visible = Snapshot.visible /\ t.hwm = Snapshot.hwm
        /\ t.base = Snapshot.base /\ t.removed = Snapshot.removed /\ t.added = Snapshot.added
        /\ t.advanced = Snapshot.advanced /\ t.replaced = Snapshot.replaced
        /\ t.moved = Snapshot.moved /\ t.call = conn[c].call /\ Shape(t)
    BY <2>1, SnapshotIs DEF Shape
  <2> HIDE DEF t
  <2>3. Seen(t) = Seen(Snapshot)
    BY <2>2 DEF Seen
  <2>4. Transaction(t)
    BY <2>2, <2>3, SnapshotIs DEF Transaction, SnapshotInv, ChangesInv
  <2>5. CallInv(t.call)
    BY <2>2 DEF Inv
  <2>6. Alone(c, t)
    BY <2>2, SnapshotIs DEF Alone
  <2> QED BY <2>2, <2>4, <2>5, <2>6, SnapshotIs DEF t
<1> QED BY <1>1, <1>2

\* A step that changes one connection keeps the invariant if it leaves it in
\* order.
LEMMA OneChange ==
    ASSUME Inv, NEW c \in Conns, NEW n,
           conn' = [conn EXCEPT ![c] = n],
           UNCHANGED <<rows, allocated, flushing, hwm, segments>>,
           Shape(n), CallInv(n.call), n.open \in BOOLEAN,
           n.open => Transaction(n),
           ~n.open => n.removed = {} /\ ~n.advanced,
           Alone(c, n)
    PROVE  Inv'
<1>1. DOMAIN conn = Conns
  BY DEF Inv
<1>2. conn'[c] = n /\ DOMAIN conn' = Conns
  BY <1>1
<1>3. \A d \in Conns \ {c} : conn'[d] = conn[d]
  BY <1>1
<1>4. TableInv' /\ Sound(rows, hwm, segments)'
  BY DEF Inv, TableInv
<1>5. \A x : SnapshotInv(x) => SnapshotInv(x)'
  BY DEF SnapshotInv
<1>6. \A x : ChangesInv(x) => ChangesInv(x)'
  BY DEF ChangesInv
<1>7. ASSUME NEW d \in Conns
      PROVE  (/\ Shape(conn[d]) /\ CallInv(conn[d].call)
              /\ conn[d].open \in BOOLEAN
              /\ conn[d].open => Transaction(conn[d])
              /\ ~conn[d].open => conn[d].removed = {} /\ ~conn[d].advanced)'
  BY <1>2, <1>3, <1>5, <1>6 DEF Inv, Transaction
<1>8. ASSUME NEW d \in Conns, NEW e \in Conns \ {d} PROVE Apart(d, e)'
  BY <1>2, <1>3 DEF Inv, Apart, Alone
<1> QED BY <1>2, <1>4, <1>7, <1>8 DEF Inv

\* A transaction whose call alone is another is as it was.
LEMMA CallFields ==
    ASSUME NEW t, Shape(t), NEW call
    PROVE  LET n == [t EXCEPT !.call = call]
           IN  /\ n.open = t.open /\ n.visible = t.visible /\ n.hwm = t.hwm
               /\ n.base = t.base /\ n.removed = t.removed /\ n.added = t.added
               /\ n.advanced = t.advanced /\ n.replaced = t.replaced
               /\ n.moved = t.moved /\ n.call = call /\ Shape(n)
               /\ Transaction(t) => Transaction(n)
<1> DEFINE n == [t EXCEPT !.call = call]
<1>1. /\ n.open = t.open /\ n.visible = t.visible /\ n.hwm = t.hwm
      /\ n.base = t.base /\ n.removed = t.removed /\ n.added = t.added
      /\ n.advanced = t.advanced /\ n.replaced = t.replaced
      /\ n.moved = t.moved /\ n.call = call /\ Shape(n)
  BY DEF Shape
<1> HIDE DEF n
<1>2. Seen(n) = Seen(t)
  BY <1>1 DEF Seen
<1>3. Transaction(t) => Transaction(n)
  BY <1>1, <1>2 DEF Transaction, SnapshotInv, ChangesInv
<1> QED BY <1>1, <1>3 DEF n

\* A script that leaves a transaction in order keeps the invariant.
LEMMA RanInv ==
    ASSUME Inv, NEW c \in Conns, NEW t, Ran(c, t),
           Shape(t), Transaction(t), t.open = TRUE, Alone(c, t)
    PROVE  Inv'
<1> DEFINE n == [t EXCEPT !.call = NoCall]
<1>1. /\ n.open = t.open /\ n.removed = t.removed /\ n.advanced = t.advanced
      /\ n.call = NoCall /\ Shape(n) /\ Transaction(n)
  BY CallFields
<1>2. conn' = [conn EXCEPT ![c] = n] /\ UNCHANGED <<rows, allocated, flushing, hwm, segments>>
  BY DEF Ran
<1> HIDE DEF n
<1>3. CallInv(NoCall)
  BY DEF CallInv, NoCall
<1>4. Alone(c, n)
  BY <1>1 DEF Alone
<1> QED BY <1>1, <1>2, <1>3, <1>4, OneChange

-----------------------------------------------------------------------------
\* A refresh moves the mark to a row it sees, or below one, and posts every
\* row it sees from the old mark to the new one.
LEMMA RefreshedIs ==
    ASSUME NEW t, SnapshotInv(t), CallInv(t.call), t.call.kind = "refresh",
           t.hwm = t.call.hwm
    PROVE  LET mark == RefreshedHighWaterMark(t)
           IN  /\ mark \in Mark /\ t.hwm <= mark
               /\ mark = t.hwm \/ \E v \in t.visible : mark <= v
               /\ Increment(t) = {r \in t.visible : t.hwm < r /\ r <= mark}
               /\ mark = t.hwm => \A r \in t.visible : r <= t.hwm
<1> DEFINE end == t.call.bound_end
           mark == RefreshedHighWaterMark(t)
           Upto(last) == {r \in TailRows(t) : r <= last} \union {t.hwm}
<1>1. /\ t.visible \subseteq Rowid /\ t.hwm \in Mark
      /\ end \in Int /\ t.hwm < end /\ MaxRowid \in Nat
  BY MaintenanceConstants DEF SnapshotInv, CallInv
<1>2. TailRows(t) = {r \in t.visible : t.hwm < r}
  BY <1>1 DEF TailRows, Rowid, Mark
<1>3. ASSUME NEW last \in Int
      PROVE  /\ CommittedMax(t, last) \in Upto(last)
             /\ \A r \in Upto(last) : r <= CommittedMax(t, last)
  <2>1. CommittedMax(t, last) = Max(Upto(last))
    BY DEF CommittedMax
  <2>2. Upto(last) \in SUBSET Mark /\ Upto(last) # {}
    BY <1>1, <1>2 DEF Rowid, Mark
  <2> HIDE DEF Upto
  <2> QED BY <2>1, <2>2, MaxIs
<1>4. CASE ~StopsShort(t.call)
  <2>1. mark = CommittedMax(t, MaxRowid)
    BY <1>4 DEF RefreshedHighWaterMark
  <2>2. Upto(MaxRowid) = TailRows(t) \union {t.hwm}
    BY <1>1, <1>2 DEF Rowid
  <2>3. mark \in TailRows(t) \union {t.hwm} /\ \A r \in TailRows(t) \union {t.hwm} : r <= mark
    BY <1>1, <1>3, <2>1, <2>2
  <2>4. Increment(t) = TailRows(t)
    BY <1>4 DEF Increment
  <2> QED BY <1>1, <1>2, <2>3, <2>4 DEF Rowid, Mark
<1>5. CASE StopsShort(t.call) /\ \E v \in t.visible : v > end
  <2>1. mark = end
    BY <1>5 DEF RefreshedHighWaterMark
  <2>2. Increment(t) = {r \in TailRows(t) : r <= end}
    BY <1>5 DEF Increment
  <2>3. PICK v \in t.visible : v > end
    BY <1>5
  <2> QED BY <1>1, <1>2, <2>1, <2>2, <2>3 DEF Rowid, Mark
<1>6. CASE StopsShort(t.call) /\ ~\E v \in t.visible : v > end
  <2>1. mark = CommittedMax(t, end)
    BY <1>6 DEF RefreshedHighWaterMark
  <2>2. Increment(t) = {r \in TailRows(t) : r <= end}
    BY <1>6 DEF Increment
  <2>3. mark \in Upto(end) /\ \A r \in Upto(end) : r <= mark
    BY <1>1, <1>3, <2>1
  <2>4. \A r \in t.visible : r <= end
    BY <1>1, <1>6 DEF Rowid
  <2> QED BY <1>1, <1>2, <2>2, <2>3, <2>4 DEF Rowid, Mark
<1> QED BY <1>4, <1>5, <1>6

\* What a transaction is after changes to some of its fields.
LEMMA SetMark ==
    ASSUME NEW t, Shape(t), NEW x
    PROVE  [t EXCEPT !.hwm = x] =
               [open |-> t.open, explicit |-> t.explicit, visible |-> t.visible, hwm |-> x,
                base |-> t.base, removed |-> t.removed, added |-> t.added,
                advanced |-> t.advanced, replaced |-> t.replaced, moved |-> t.moved,
                call |-> t.call]
BY DEF Shape

LEMMA SetAdvanced ==
    ASSUME NEW t, Shape(t), NEW x
    PROVE  [t EXCEPT !.advanced = x] =
               [open |-> t.open, explicit |-> t.explicit, visible |-> t.visible, hwm |-> t.hwm,
                base |-> t.base, removed |-> t.removed, added |-> t.added,
                advanced |-> x, replaced |-> t.replaced, moved |-> t.moved,
                call |-> t.call]
BY DEF Shape

LEMMA SetAdded ==
    ASSUME NEW t, Shape(t), NEW x
    PROVE  [t EXCEPT !.added = x] =
               [open |-> t.open, explicit |-> t.explicit, visible |-> t.visible, hwm |-> t.hwm,
                base |-> t.base, removed |-> t.removed, added |-> x,
                advanced |-> t.advanced, replaced |-> t.replaced, moved |-> t.moved,
                call |-> t.call]
BY DEF Shape

LEMMA SetRemoved ==
    ASSUME NEW t, Shape(t), NEW x
    PROVE  [t EXCEPT !.removed = x] =
               [open |-> t.open, explicit |-> t.explicit, visible |-> t.visible, hwm |-> t.hwm,
                base |-> t.base, removed |-> x, added |-> t.added,
                advanced |-> t.advanced, replaced |-> t.replaced, moved |-> t.moved,
                call |-> t.call]
BY DEF Shape

\* The changes of a refresh's script, and of a compaction's.
LEMMA RefreshFields ==
    ASSUME NEW t, Shape(t), NEW mark, NEW added
    PROVE  LET n == [t EXCEPT !.hwm = mark, !.advanced = TRUE, !.added = added]
           IN  /\ n.open = t.open /\ n.visible = t.visible /\ n.hwm = mark
               /\ n.base = t.base /\ n.removed = t.removed /\ n.added = added
               /\ n.advanced = TRUE /\ n.replaced = t.replaced
               /\ n.moved = t.moved /\ n.call = t.call /\ Shape(n)
<1> DEFINE a == [t EXCEPT !.hwm = mark]
           b == [a EXCEPT !.advanced = TRUE]
           n == [b EXCEPT !.added = added]
<1>1. /\ Shape(a) /\ a.hwm = mark /\ a.open = t.open /\ a.visible = t.visible
      /\ a.base = t.base /\ a.removed = t.removed /\ a.replaced = t.replaced
      /\ a.moved = t.moved /\ a.call = t.call
  BY SetMark DEF Shape
<1> HIDE DEF a
<1>2. /\ Shape(b) /\ b.hwm = mark /\ b.open = t.open /\ b.visible = t.visible
      /\ b.base = t.base /\ b.removed = t.removed /\ b.replaced = t.replaced
      /\ b.moved = t.moved /\ b.call = t.call /\ b.advanced = TRUE
  BY <1>1, SetAdvanced DEF Shape
<1> HIDE DEF b
<1>3. /\ Shape(n) /\ n.hwm = mark /\ n.open = t.open /\ n.visible = t.visible
      /\ n.base = t.base /\ n.removed = t.removed /\ n.replaced = t.replaced
      /\ n.moved = t.moved /\ n.call = t.call /\ n.advanced = TRUE /\ n.added = added
  BY <1>2, SetAdded DEF Shape
<1> HIDE DEF n
<1>4. n = [t EXCEPT !.hwm = mark, !.advanced = TRUE, !.added = added]
  BY DEF n, b, a
<1> QED BY <1>3, <1>4

LEMMA CompactFields ==
    ASSUME NEW t, Shape(t), NEW removed, NEW added
    PROVE  LET n == [t EXCEPT !.removed = removed, !.added = added]
           IN  /\ n.open = t.open /\ n.visible = t.visible /\ n.hwm = t.hwm
               /\ n.base = t.base /\ n.removed = removed /\ n.added = added
               /\ n.advanced = t.advanced /\ n.replaced = t.replaced
               /\ n.moved = t.moved /\ n.call = t.call /\ Shape(n)
<1> DEFINE a == [t EXCEPT !.removed = removed]
           n == [a EXCEPT !.added = added]
<1>1. /\ Shape(a) /\ a.hwm = t.hwm /\ a.open = t.open /\ a.visible = t.visible
      /\ a.base = t.base /\ a.removed = removed /\ a.replaced = t.replaced
      /\ a.moved = t.moved /\ a.call = t.call /\ a.advanced = t.advanced
  BY SetRemoved DEF Shape
<1> HIDE DEF a
<1>2. /\ Shape(n) /\ n.hwm = t.hwm /\ n.open = t.open /\ n.visible = t.visible
      /\ n.base = t.base /\ n.removed = removed /\ n.replaced = t.replaced
      /\ n.moved = t.moved /\ n.call = t.call /\ n.advanced = t.advanced /\ n.added = added
  BY <1>1, SetAdded DEF Shape
<1> HIDE DEF n
<1>3. n = [t EXCEPT !.removed = removed, !.added = added]
  BY DEF n, a
<1> QED BY <1>2, <1>3

\* The script of a refresh leaves its transaction in order.
LEMMA RefreshKeeps ==
    ASSUME Inv, NEW t, NEW g, Transaction(t), Shape(t), CallInv(t.call),
           t.call.kind = "refresh", t.hwm = t.call.hwm, ~t.moved
    PROVE  LET n == [t EXCEPT !.hwm = RefreshedHighWaterMark(t), !.advanced = TRUE,
                              !.added = @ \union Packed(Increment(t), g)]
           IN  Shape(n) /\ Transaction(n) /\ n.open = t.open /\ n.removed = t.removed
<1> DEFINE mark == RefreshedHighWaterMark(t)
           inc == Increment(t)
           new == Packed(inc, g)
           n == [t EXCEPT !.hwm = mark, !.advanced = TRUE, !.added = @ \union new]
<1>1. /\ n.open = t.open /\ n.visible = t.visible /\ n.hwm = mark
      /\ n.base = t.base /\ n.removed = t.removed /\ n.added = t.added \union new
      /\ n.advanced = TRUE /\ n.replaced = t.replaced
      /\ n.moved = t.moved /\ n.call = t.call /\ Shape(n)
  <2> HIDE DEF mark, new
  <2> QED BY RefreshFields
<1>2. /\ mark \in Mark /\ t.hwm <= mark
      /\ mark = t.hwm \/ \E v \in t.visible : mark <= v
      /\ inc = {r \in t.visible : t.hwm < r /\ r <= mark}
  BY RefreshedIs DEF Transaction
<1>3. /\ Posted(new) = inc
      /\ \A s \in new : s.rowids = {r \in inc : SegmentOf(r) = s.segment} /\ s.rowids # {}
      /\ \A s, u \in new : s.segment = u.segment => s = u
  BY PackedIs
<1> HIDE DEF mark, inc, new, n
<1>4. /\ t.visible \subseteq Rowid /\ t.hwm \in Mark /\ hwm \in Mark /\ MaxRowid \in Nat
      /\ Sound(t.visible, t.hwm, Seen(t)) /\ hwm <= t.hwm
  BY MaintenanceConstants DEF Inv, TableInv, Transaction, SnapshotInv, ChangesInv
<1>5. SnapshotInv(n)
  <2>1. mark < allocated
    BY <1>2, <1>4 DEF Transaction, SnapshotInv, Inv, TableInv, Rowid, Mark
  <2>2. \A f \in flushing : mark < f
    BY <1>2, <1>4 DEF Transaction, SnapshotInv, Inv, TableInv, Rowid, Mark
  <2>3. \A r \in rows : r \in t.visible \/ (mark < r /\ \A v \in t.visible : v < r)
    BY <1>2, <1>4 DEF Transaction, SnapshotInv, Inv, TableInv, Rowid, Mark
  <2>4. \A r \in Posted(t.base) : r <= hwm /\ r <= mark
    <3>1. ASSUME NEW r \in Posted(t.base) PROVE r <= hwm /\ r <= mark
      <4>1. r <= hwm /\ r <= t.hwm
        BY DEF Transaction, SnapshotInv
      <4>2. PICK s \in t.base : r \in s.rowids
        BY PostedIs
      <4>3. r \in Rowid
        <5>1. CASE s \in t.removed
          BY <4>2, <5>1 DEF Transaction, SnapshotInv, Inv, Sound
        <5>2. CASE s \notin t.removed
          BY <1>4, <4>2, <5>2 DEF Seen, Sound
        <5> QED BY <5>1, <5>2
      <4> QED BY <1>2, <1>4, <4>1, <4>3 DEF Rowid, Mark
    <3> QED BY <3>1
  <2>5. hwm <= mark
    BY <1>2, <1>4 DEF Mark
  <2> QED BY <1>1, <1>2, <2>1, <2>2, <2>3, <2>4, <2>5 DEF Transaction, SnapshotInv
<1>6. Seen(n) = Seen(t) \union new
  BY <1>1 DEF Seen
<1>7. \A s \in Seen(t) : \A r \in s.rowids : r \in Rowid /\ r <= t.hwm
  BY <1>4 DEF Sound, OneRowUnder
<1>8. \A r \in inc : r \in Rowid /\ t.hwm < r /\ hwm < r /\ r <= mark
  BY <1>2, <1>4 DEF Rowid, Mark
<1>9. \A s \in new : s \notin Seen(t)
  BY <1>3, <1>4, <1>7, <1>8 DEF Rowid, Mark
<1>10. Sound(t.visible, mark, Seen(n))
  <2>1. \A s \in Seen(n) : \A r \in s.rowids : r \in Rowid /\ s.segment = SegmentOf(r)
    BY <1>3, <1>4, <1>6, <1>8 DEF Sound
  <2>2. OneRowUnder(t.visible, mark, Seen(n))
    <3>1. ASSUME NEW s \in Seen(n), NEW r \in s.rowids PROVE r <= mark
      BY <1>2, <1>3, <1>4, <1>6, <1>7, <1>8 DEF Rowid, Mark
    <3>2. ASSUME NEW s \in Seen(n), NEW r \in s.rowids, NEW u \in Seen(n), r \in u.rowids
          PROVE  u = s
      <4>1. CASE s \in Seen(t) /\ u \in Seen(t)
        BY <1>4, <3>2, <4>1 DEF Sound, OneRowUnder
      <4>2. CASE s \in new /\ u \in new
        BY <1>3, <3>2, <4>2
      <4>3. CASE (s \in Seen(t) /\ u \in new) \/ (s \in new /\ u \in Seen(t))
        BY <1>3, <1>4, <1>7, <1>8, <3>2, <4>3 DEF Rowid, Mark
      <4> QED BY <1>6, <4>1, <4>2, <4>3
    <3> QED BY <3>1, <3>2 DEF OneRowUnder
  <2>3. Covered(t.visible, mark, Seen(n))
    <3>1. ASSUME NEW r \in t.visible, r <= mark PROVE r \in Posted(Seen(n))
      <4>1. CASE r <= t.hwm
        <5>1. r \in Posted(Seen(t))
          BY <1>4, <4>1 DEF Sound, Covered
        <5> QED BY <1>6, <5>1, PostedIs
      <4>2. CASE t.hwm < r
        <5>1. r \in Posted(new)
          BY <1>2, <1>3, <3>1, <4>2
        <5> QED BY <1>6, <5>1, PostedIs
      <4> QED BY <1>4, <4>1, <4>2 DEF Rowid, Mark
    <3> QED BY <3>1 DEF Covered
  <2> QED BY <2>1, <2>2, <2>3 DEF Sound
<1>11. ChangesInv(n)
  <2>1. (t.added \union new) \cap (t.base \ t.removed) = {}
    BY <1>9 DEF Transaction, ChangesInv, Seen
  <2>2. Posted(t.added \union new) = Posted(t.added) \union inc
    BY <1>3 DEF Posted
  <2>3. \A r \in Posted(t.removed) : r \in t.visible => r \in Posted(t.added \union new)
    BY <2>2 DEF Transaction, ChangesInv
  <2>4. \A r \in Posted(t.added \union new) : r \in Posted(t.removed) \/ hwm < r
    BY <1>8, <2>2 DEF Transaction, ChangesInv
  <2> QED BY <1>1, <1>10, <2>1, <2>3, <2>4 DEF ChangesInv
<1> QED BY <1>1, <1>5, <1>11 DEF Transaction, n, mark, new, inc
-----------------------------------------------------------------------------
\* `after` may take the place of the segment rows that t sees: it is sound and
\* posts the rowids they post, those of rows that t does not see aside.
Replaces(t, after) ==
    /\ Sound(t.visible, t.hwm, after)
    /\ Posted(after) \subseteq Posted(Seen(t))
    /\ \A r \in Posted(Seen(t)) : r \in t.visible => r \in Posted(after)

\* A rowid has one row among those a transaction sees.
LEMMA OneSeen ==
    ASSUME NEW visible, NEW mark, NEW segs, Sound(visible, mark, segs),
           NEW s \in segs, NEW u \in segs, NEW r \in s.rowids, r \in u.rowids
    PROVE  s = u
BY DEF Sound, OneRowUnder

\* The script of a compaction that rewrites the rows that changed leaves its
\* transaction in order, and makes it see what the script computed.
LEMMA CompactKeeps ==
    ASSUME Inv, NEW t, NEW after, Transaction(t), Shape(t), Replaces(t, after),
           ((Seen(t) \ after) \ t.added) \cap t.replaced = {}
    PROVE  LET changed == Seen(t) \ after
               n == [t EXCEPT !.removed = @ \union (changed \ t.added),
                              !.added = (@ \ changed) \union (after \ Seen(t))]
           IN  /\ Shape(n) /\ Transaction(n) /\ n.open = t.open /\ n.advanced = t.advanced
               /\ n.removed = t.removed \union (changed \ t.added) /\ Seen(n) = after
<1> DEFINE changed == Seen(t) \ after
           removed == t.removed \union (changed \ t.added)
           added == (t.added \ changed) \union (after \ Seen(t))
           n == [t EXCEPT !.removed = removed, !.added = added]
<1>1. /\ n.open = t.open /\ n.visible = t.visible /\ n.hwm = t.hwm
      /\ n.base = t.base /\ n.removed = removed /\ n.added = added
      /\ n.advanced = t.advanced /\ n.replaced = t.replaced
      /\ n.moved = t.moved /\ n.call = t.call /\ Shape(n)
  <2> HIDE DEF removed, added
  <2> QED BY CompactFields
<1>2. n = [t EXCEPT !.removed = @ \union (changed \ t.added),
                    !.added = (@ \ changed) \union (after \ Seen(t))]
  OBVIOUS
<1> HIDE DEF n
<1>3. t.added \cap (t.base \ t.removed) = {} /\ Sound(t.visible, t.hwm, Seen(t))
  BY DEF Transaction, ChangesInv
<1>4. Seen(n) = after /\ added \cap (t.base \ removed) = {}
  BY <1>1, <1>3 DEF Seen
<1>5. removed \subseteq t.base \cap segments
  <2>1. changed \ t.added \subseteq t.base \ t.removed
    BY DEF Seen
  <2>2. changed \ t.added \subseteq t.base \ t.replaced
    BY <2>1
  <2> QED BY <2>1, <2>2 DEF Transaction, SnapshotInv
<1>6. SnapshotInv(n)
  <2> HIDE DEF removed
  <2> QED BY <1>1, <1>5 DEF Transaction, SnapshotInv
<1>7. ASSUME NEW r \in Posted(removed), r \in t.visible
      PROVE  r \in Posted(added)
  <2>1. r \in Posted(t.added) \union Posted(changed)
    <3>1. PICK s \in removed : r \in s.rowids
      BY PostedIs
    <3>2. CASE s \in t.removed
      BY <1>7, <3>1, <3>2, PostedIs DEF Transaction, ChangesInv
    <3>3. CASE s \in changed
      BY <3>1, <3>3, PostedIs
    <3> QED BY <3>2, <3>3
  <2>2. PICK s \in Seen(t) : r \in s.rowids /\ (s \in t.added \/ s \in changed)
    BY <2>1, PostedIs DEF Seen
  <2>3. CASE s \in after
    BY <2>2, <2>3, PostedIs
  <2>4. CASE s \notin after
    <3>1. r \in Posted(Seen(t))
      BY <2>2, PostedIs
    <3>2. PICK a \in after : r \in a.rowids
      BY <1>7, <3>1, PostedIs DEF Replaces
    <3>3. a \notin Seen(t)
      BY <1>3, <2>2, <2>4, <3>2, OneSeen
    <3> QED BY <3>2, <3>3, PostedIs
  <2> QED BY <2>3, <2>4
<1>8. ASSUME NEW r \in Posted(added)
      PROVE  r \in Posted(removed) \/ (t.advanced /\ hwm < r)
  <2>1. PICK a \in added : r \in a.rowids
    BY PostedIs
  <2>2. \A x \in Posted(t.added) : x \in Posted(t.removed) \/ (t.advanced /\ hwm < x)
    BY DEF Transaction, ChangesInv
  <2>3. \A x \in Posted(t.removed) : x \in Posted(removed)
    BY PostedIs
  <2>4. CASE a \in t.added
    BY <2>1, <2>2, <2>3, <2>4, PostedIs
  <2>5. CASE a \in after \ Seen(t)
    <3>1. r \in Posted(after)
      BY <2>1, <2>5, PostedIs
    <3>2. r \in Posted(Seen(t))
      BY <3>1 DEF Replaces
    <3>3. PICK s \in Seen(t) : r \in s.rowids
      BY <3>2, PostedIs
    <3>4. s \in changed
      BY <2>1, <2>5, <3>3, OneSeen DEF Replaces
    <3>5. CASE s \in t.added
      BY <2>2, <2>3, <3>3, <3>5, PostedIs
    <3>6. CASE s \notin t.added
      BY <3>3, <3>4, <3>6, PostedIs
    <3> QED BY <3>5, <3>6
  <2> QED BY <2>1, <2>4, <2>5
<1>9. ChangesInv(n)
  <2> HIDE DEF removed, added
  <2> QED BY <1>1, <1>4, <1>7, <1>8 DEF ChangesInv, Replaces
<1> QED BY <1>1, <1>2, <1>4, <1>6, <1>9 DEF Transaction

\* So does that of a compaction that rewrites every row.
LEMMA RewriteKeeps ==
    ASSUME Inv, NEW t, NEW after, Transaction(t), Shape(t), Replaces(t, after),
           (t.base \ t.removed) \cap t.replaced = {}
    PROVE  LET n == [t EXCEPT !.removed = t.base, !.added = after]
           IN  /\ Shape(n) /\ Transaction(n) /\ n.open = t.open /\ n.advanced = t.advanced
               /\ n.removed = t.base
<1> DEFINE n == [t EXCEPT !.removed = t.base, !.added = after]
<1>1. /\ n.open = t.open /\ n.visible = t.visible /\ n.hwm = t.hwm
      /\ n.base = t.base /\ n.removed = t.base /\ n.added = after
      /\ n.advanced = t.advanced /\ n.replaced = t.replaced
      /\ n.moved = t.moved /\ n.call = t.call /\ Shape(n)
  BY CompactFields
<1> HIDE DEF n
<1>2. Seen(n) = after
  BY <1>1 DEF Seen
<1>3. SnapshotInv(n)
  <2>1. t.base \subseteq segments
    BY DEF Transaction, SnapshotInv
  <2> QED BY <1>1, <2>1 DEF Transaction, SnapshotInv
<1>4. ASSUME NEW r \in Posted(t.base), r \in t.visible
      PROVE  r \in Posted(after)
  <2>1. r <= t.hwm
    BY DEF Transaction, SnapshotInv
  <2>2. r \in Posted(Seen(t))
    BY <1>4, <2>1 DEF Transaction, ChangesInv, Sound, Covered
  <2> QED BY <1>4, <2>2 DEF Replaces
<1>5. ASSUME NEW r \in Posted(after)
      PROVE  r \in Posted(t.base) \/ (t.advanced /\ hwm < r)
  <2>1. r \in Posted(Seen(t))
    BY DEF Replaces
  <2>2. PICK s \in Seen(t) : r \in s.rowids
    BY <2>1, PostedIs
  <2>3. CASE s \in t.base
    BY <2>2, <2>3, PostedIs
  <2>4. CASE s \in t.added
    <3>1. r \in Posted(t.added)
      BY <2>2, <2>4, PostedIs
    <3>2. r \in Posted(t.removed) \/ (t.advanced /\ hwm < r)
      BY <3>1 DEF Transaction, ChangesInv
    <3>3. t.removed \subseteq t.base
      BY DEF Transaction, SnapshotInv
    <3> QED BY <3>2, <3>3, PostedIs
  <2> QED BY <2>2, <2>3, <2>4 DEF Seen
<1>6. ChangesInv(n)
  BY <1>1, <1>2, <1>4, <1>5 DEF ChangesInv, Replaces
<1> QED BY <1>1, <1>3, <1>6 DEF Transaction, n

\* A merge replaces the rows of every segment.
LEMMA MergedReplaces ==
    ASSUME NEW t, Sound(t.visible, t.hwm, Seen(t))
    PROVE  Replaces(t, Merged(Seen(t)))
<1> DEFINE segs == Seen(t)
           P(k) == Packed(Posted(Key(segs, k)), 0)
           after == Merged(segs)
<1>1. \A a : a \in after <=> \E s \in segs : a \in P(s.segment)
  BY DEF Merged
<1>2. ASSUME NEW k
      PROVE  /\ Posted(P(k)) = Posted(Key(segs, k))
             /\ \A a \in P(k) : a.segment = k /\ a.rowids = Posted(Key(segs, k))
             /\ \A a, b \in P(k) : a = b
  <2>1. /\ Posted(P(k)) = Posted(Key(segs, k))
        /\ \A s \in P(k) :
              /\ s.rowids = {r \in Posted(Key(segs, k)) : SegmentOf(r) = s.segment}
              /\ s.rowids # {}
        /\ \A s, u \in P(k) : s.segment = u.segment => s = u
    BY PackedIs
  <2>2. ASSUME NEW r \in Posted(Key(segs, k)) PROVE SegmentOf(r) = k
    <3>1. PICK s \in Key(segs, k) : r \in s.rowids
      BY PostedIs
    <3> QED BY <3>1 DEF Key, Sound
  <2> HIDE DEF P, segs
  <2>3. \A a \in P(k) : a.segment = k
    BY <2>1, <2>2
  <2> QED BY <2>1, <2>2, <2>3
<1> HIDE DEF P, after
<1>3. ASSUME NEW s \in segs, NEW r \in s.rowids
      PROVE  \E a \in after : r \in a.rowids
  <2>1. r \in Posted(Key(segs, s.segment))
    BY PostedIs DEF Key
  <2>2. PICK a \in P(s.segment) : r \in a.rowids
    BY <1>2, <2>1, PostedIs
  <2> QED BY <1>1, <2>2
<1>4. ASSUME NEW a \in after, NEW r \in a.rowids
      PROVE  \E s \in segs : r \in s.rowids /\ a \in P(s.segment) /\ a.segment = s.segment
  <2>1. PICK s \in segs : a \in P(s.segment)
    BY <1>1
  <2>2. r \in Posted(Key(segs, s.segment)) /\ a.segment = s.segment
    BY <1>2, <2>1
  <2>3. PICK u \in Key(segs, s.segment) : r \in u.rowids
    BY <2>2, PostedIs
  <2>4. u \in segs /\ u.segment = s.segment
    BY DEF Key
  <2> QED BY <2>1, <2>2, <2>3, <2>4
<1>5. \A a \in after : \A r \in a.rowids : r \in Rowid /\ a.segment = SegmentOf(r)
  BY <1>4 DEF Sound
<1>6. OneRowUnder(t.visible, t.hwm, after)
  <2>1. ASSUME NEW a \in after, NEW r \in a.rowids PROVE r <= t.hwm
    BY <1>4 DEF Sound, OneRowUnder
  <2>2. ASSUME NEW a \in after, NEW r \in a.rowids, NEW b \in after, r \in b.rowids
        PROVE  b = a
    <3>1. PICK s \in segs : r \in s.rowids /\ a \in P(s.segment)
      BY <1>4
    <3>2. PICK u \in segs : r \in u.rowids /\ b \in P(u.segment)
      BY <1>4, <2>2
    <3>3. s = u
      BY <3>1, <3>2, OneSeen
    <3> QED BY <1>2, <3>1, <3>2, <3>3
  <2> QED BY <2>1, <2>2 DEF OneRowUnder
<1>7. Posted(after) = Posted(segs)
  <2>1. ASSUME NEW r \in Posted(after) PROVE r \in Posted(segs)
    BY <1>4, PostedIs
  <2>2. ASSUME NEW r \in Posted(segs) PROVE r \in Posted(after)
    BY <1>3, PostedIs
  <2> QED BY <2>1, <2>2
<1>8. Covered(t.visible, t.hwm, after)
  BY <1>7 DEF Sound, Covered
<1> QED BY <1>5, <1>6, <1>7, <1>8 DEF Sound, Replaces, after

\* A purge keeps the postings of the rows it sees.
LEMMA PurgedReplaces ==
    ASSUME NEW t, Sound(t.visible, t.hwm, Seen(t)), t.hwm = t.call.hwm
    PROVE  Replaces(t, Purged(t))
<1> DEFINE live == {r \in Posted(Seen(t)) : r \in t.visible /\ r <= t.hwm}
<1>1. Purged(t) = Packed(live, 0)
  BY DEF Purged
<1>2. \A r \in Posted(Seen(t)) : r \in Rowid /\ r <= t.hwm
  BY PostedIs DEF Sound, OneRowUnder
<1>3. Posted(Packed(live, 0)) = live
  BY PackedIs
<1>4. \A r \in t.visible : r <= t.hwm => r \in live
  BY DEF Sound, Covered
<1>5. live \in SUBSET Rowid /\ \A r \in live : r <= t.hwm
  BY <1>2
<1>6. live \subseteq Posted(Seen(t)) /\ \A r \in Posted(Seen(t)) : r \in t.visible => r \in live
  BY <1>2
<1> HIDE DEF live
<1>7. Sound(t.visible, t.hwm, Packed(live, 0))
  BY <1>4, <1>5, PackedSound
<1> QED BY <1>1, <1>3, <1>6, <1>7 DEF Replaces
-----------------------------------------------------------------------------
\* Idle connections hold nothing.
LEMMA IdleIs ==
    /\ Shape(Idle) /\ CallInv(Idle.call) /\ Idle.open = FALSE
    /\ Idle.removed = {} /\ Idle.advanced = FALSE
<1>1. Idle = [open |-> FALSE, explicit |-> FALSE, visible |-> {}, hwm |-> -1,
              base |-> {}, removed |-> {}, added |-> {}, advanced |-> FALSE,
              replaced |-> {}, moved |-> FALSE, call |-> NoCall]
  BY DEF Idle, Unwritten
<1> QED BY <1>1 DEF Shape, CallInv, NoCall

LEMMA InitInv ==
    ASSUME Init
    PROVE  Inv
<1>1. /\ MaxRowid \in Nat /\ SEGMENT_ROWS \in Nat /\ SEGMENT_ROWS <= MaxRowid + 1
  BY MaintenanceConstants
<1>2. /\ allocated \in Nat /\ allocated <= MaxRowid + 1 /\ rows \in SUBSET (0 .. allocated - 1)
      /\ flushing = {} /\ hwm = Max(rows \union {-1})
  BY <1>1 DEF Init
<1>3. rows \subseteq Rowid /\ rows \union {-1} \in SUBSET Mark
  BY <1>1, <1>2 DEF Rowid, Mark
<1>4. hwm \in rows \union {-1} /\ \A r \in rows : r <= hwm
  BY <1>2, <1>3, MaxIs
<1>5. TableInv
  BY <1>2, <1>3, <1>4 DEF TableInv, Rowid, Mark
<1>6. Sound(rows, hwm, segments)
  BY <1>3, <1>4, PackedSound DEF Init
<1>7. DOMAIN conn = Conns /\ \A c \in Conns : conn[c] = Idle
  BY DEF Init
<1>8. \A c \in Conns :
         /\ Shape(conn[c]) /\ CallInv(conn[c].call)
         /\ conn[c].open \in BOOLEAN
         /\ conn[c].open => Transaction(conn[c])
         /\ ~conn[c].open => conn[c].removed = {} /\ ~conn[c].advanced
  BY <1>7, IdleIs
<1>9. \A c \in Conns : \A d \in Conns \ {c} : Apart(c, d)
  BY <1>7, IdleIs DEF Apart
<1> QED BY <1>5, <1>6, <1>7, <1>8, <1>9 DEF Inv

\* A step of the table keeps the invariant if it keeps every snapshot below
\* what it does not see.
LEMMA TableStep ==
    ASSUME Inv, UNCHANGED <<hwm, segments, conn>>, TableInv', Covered(rows, hwm, segments)',
           \A t : SnapshotInv(t) => SnapshotInv(t)'
    PROVE  Inv'
<1>1. \A t : ChangesInv(t) => ChangesInv(t)'
  BY DEF ChangesInv
<1>2. Sound(rows, hwm, segments)'
  BY DEF Inv, Sound, OneRowUnder
<1>3. ASSUME NEW d \in Conns
      PROVE  (/\ Shape(conn[d]) /\ CallInv(conn[d].call)
              /\ conn[d].open \in BOOLEAN
              /\ conn[d].open => Transaction(conn[d])
              /\ ~conn[d].open => conn[d].removed = {} /\ ~conn[d].advanced)'
  BY <1>1 DEF Inv, Transaction
<1>4. ASSUME NEW d \in Conns, NEW e \in Conns \ {d} PROVE Apart(d, e)'
  BY DEF Inv, Apart
<1> QED BY <1>2, <1>3, <1>4 DEF Inv

\* Rowids are handed out above every row, mark and snapshot.
LEMMA FlushKeeps ==
    ASSUME Inv, NEW last \in allocated .. MaxRowid, Flush(last)
    PROVE  Inv'
<1>1. /\ flushing = {} /\ flushing' = allocated .. last /\ allocated' = last + 1
      /\ UNCHANGED <<rows, hwm, segments, conn>> /\ MaxRowid \in Nat
  BY MaintenanceConstants DEF Flush
<1>2. TableInv
  BY DEF Inv
<1>3. allocated \in Nat /\ last \in Nat /\ allocated <= last
  BY <1>1, <1>2 DEF TableInv
<1>4. \A f \in flushing' : f \in Rowid /\ allocated <= f /\ f < allocated'
  BY <1>1, <1>3 DEF Rowid
<1>5. TableInv'
  BY <1>1, <1>2, <1>3, <1>4 DEF TableInv, Rowid, Mark
<1>6. Covered(rows, hwm, segments)'
  BY <1>1 DEF Inv, Sound, Covered
<1>7. ASSUME NEW t, SnapshotInv(t) PROVE SnapshotInv(t)'
  <2>1. t.hwm < allocated' /\ \A r \in t.visible : r < allocated'
    BY <1>1, <1>3, <1>7 DEF SnapshotInv, Rowid, Mark
  <2>2. \A f \in flushing' : t.hwm < f /\ \A v \in t.visible : v < f
    BY <1>3, <1>4, <1>7 DEF SnapshotInv, Rowid, Mark
  <2> QED BY <1>1, <1>7, <2>1, <2>2 DEF SnapshotInv
<1> QED BY <1>1, <1>5, <1>6, <1>7, TableStep

\* The rows a commit makes visible are above every mark and snapshot.
LEMMA FlushCommitKeeps ==
    ASSUME Inv, FlushCommit
    PROVE  Inv'
<1>1. /\ rows' = rows \union flushing /\ flushing' = {}
      /\ UNCHANGED <<allocated, hwm, segments, conn>>
  BY DEF FlushCommit
<1>2. TableInv'
  BY <1>1 DEF Inv, TableInv
<1>3. Covered(rows, hwm, segments)'
  BY <1>1 DEF Inv, TableInv, Sound, Covered, Rowid, Mark
<1>4. ASSUME NEW t, SnapshotInv(t) PROVE SnapshotInv(t)'
  BY <1>1, <1>4 DEF SnapshotInv
<1> QED BY <1>1, <1>2, <1>3, <1>4, TableStep

\* A rejected commit takes back the rowids it was handed out.
LEMMA FlushRejectKeeps ==
    ASSUME Inv, FlushReject
    PROVE  Inv'
<1>1. /\ flushing # {} /\ allocated' = Min(flushing) /\ flushing' = {}
      /\ UNCHANGED <<rows, hwm, segments, conn>>
  BY DEF FlushReject
<1>2. TableInv
  BY DEF Inv
<1>3. flushing \in SUBSET Nat
  BY <1>2 DEF TableInv, Rowid
<1>4. allocated' \in flushing
  BY <1>1, <1>3, MinIs
<1>5. TableInv'
  BY <1>1, <1>2, <1>3, <1>4 DEF TableInv
<1>6. Covered(rows, hwm, segments)'
  BY <1>1 DEF Inv, Sound, Covered
<1>7. ASSUME NEW t, SnapshotInv(t) PROVE SnapshotInv(t)'
  BY <1>1, <1>4, <1>7 DEF SnapshotInv
<1> QED BY <1>1, <1>5, <1>6, <1>7, TableStep

LEMMA DeleteKeeps ==
    ASSUME Inv, NEW r \in rows, Delete(r)
    PROVE  Inv'
<1>1. rows' = rows \ {r} /\ UNCHANGED <<allocated, flushing, hwm, segments, conn>>
  BY DEF Delete
<1>2. TableInv'
  BY <1>1 DEF Inv, TableInv
<1>3. Covered(rows, hwm, segments)'
  BY <1>1 DEF Inv, Sound, Covered
<1>4. ASSUME NEW t, SnapshotInv(t) PROVE SnapshotInv(t)'
  BY <1>1, <1>4 DEF SnapshotInv
<1> QED BY <1>1, <1>2, <1>3, <1>4, TableStep
-----------------------------------------------------------------------------
LEMMA SetExplicit ==
    ASSUME NEW t, Shape(t), NEW x
    PROVE  [t EXCEPT !.explicit = x] =
               [open |-> t.open, explicit |-> x, visible |-> t.visible, hwm |-> t.hwm,
                base |-> t.base, removed |-> t.removed, added |-> t.added,
                advanced |-> t.advanced, replaced |-> t.replaced, moved |-> t.moved,
                call |-> t.call]
BY DEF Shape

LEMMA BeginKeeps ==
    ASSUME Inv, NEW c \in Conns, Begin(c)
    PROVE  Inv'
<1> DEFINE n == [Snapshot EXCEPT !.explicit = TRUE]
<1>1. conn' = [conn EXCEPT ![c] = n] /\ UNCHANGED <<rows, allocated, flushing, hwm, segments>>
  BY DEF Begin
<1>2. /\ n.open = Snapshot.open /\ n.visible = Snapshot.visible /\ n.hwm = Snapshot.hwm
      /\ n.base = Snapshot.base /\ n.removed = Snapshot.removed /\ n.added = Snapshot.added
      /\ n.advanced = Snapshot.advanced /\ n.replaced = Snapshot.replaced
      /\ n.moved = Snapshot.moved /\ n.call = Snapshot.call /\ Shape(n)
  BY SnapshotIs, SetExplicit DEF Shape
<1> HIDE DEF n
<1>3. Seen(n) = Seen(Snapshot)
  BY <1>2 DEF Seen
<1>4. Transaction(n)
  BY <1>2, <1>3, SnapshotIs DEF Transaction, SnapshotInv, ChangesInv
<1>5. CallInv(n.call)
  BY <1>2, SnapshotIs DEF CallInv, NoCall
<1>6. Alone(c, n)
  BY <1>2, SnapshotIs DEF Alone
<1> QED BY <1>1, <1>2, <1>4, <1>5, <1>6, SnapshotIs, OneChange

LEMMA ExpandedKeeps ==
    ASSUME Inv, NEW c \in Conns, NEW call, CallInv(call), Expanded(c, call)
    PROVE  Inv'
<1> DEFINE t == conn[c]
           n == [t EXCEPT !.call = call]
<1>1. conn' = [conn EXCEPT ![c] = n] /\ UNCHANGED <<rows, allocated, flushing, hwm, segments>>
  BY DEF Expanded
<1>2. /\ Shape(t) /\ t.open \in BOOLEAN
      /\ t.open => Transaction(t)
      /\ ~t.open => t.removed = {} /\ ~t.advanced
      /\ Alone(c, t)
  BY DEF Inv, Alone, Apart
<1> HIDE DEF t
<1>3. /\ n.open = t.open /\ n.removed = t.removed /\ n.advanced = t.advanced
      /\ n.call = call /\ Shape(n)
      /\ Transaction(t) => Transaction(n)
  <2>1. Shape(t)
    BY <1>2
  <2> QED BY <2>1, CallFields
<1> HIDE DEF n
<1>4. Alone(c, n)
  BY <1>2, <1>3 DEF Alone
<1> QED BY <1>1, <1>2, <1>3, <1>4, OneChange

\* The bound of a refresh lies past the mark it was computed from.
LEMMA BoundPastMark ==
    ASSUME Inv, NEW c \in Conns, NEW bound_end \in BoundEnds(c)
    PROVE  /\ Reading(c).hwm \in Mark /\ Unbounded \in Int /\ Reading(c).hwm < Unbounded
           /\ bound_end \in Int /\ Reading(c).hwm < bound_end
<1> DEFINE mark == Reading(c).hwm
<1>1. mark \in Mark
  <2>1. CASE conn[c].open
    BY <2>1 DEF Reading, Inv, Transaction, SnapshotInv
  <2>2. CASE ~conn[c].open
    BY <2>2, SnapshotIs DEF Reading, Transaction, SnapshotInv
  <2> QED BY <2>1, <2>2
<1> HIDE DEF mark
<1>2. Unbounded \in Int /\ mark < Unbounded /\ mark \in Int
  BY <1>1, MaintenanceConstants DEF Mark, Unbounded
<1>3. CASE bound_end = Unbounded
  BY <1>1, <1>2, <1>3 DEF mark
<1>4. ASSUME NEW max_rows \in MaxRows, bound_end = BoundedRefreshEnd(mark, max_rows)
      PROVE  bound_end \in Int /\ mark < bound_end
  <2> DEFINE target  == mark + max_rows
             aligned == ((target + 1) \div SEGMENT_ROWS) * SEGMENT_ROWS - 1
  <2>1. max_rows \in Nat \ {0} /\ SEGMENT_ROWS \in Nat \ {0}
    BY MaintenanceConstants
  <2>2. target \in Int /\ mark < target
    BY <1>2, <2>1
  <2>3. aligned \in Int
    <3>1. (target + 1) \div SEGMENT_ROWS \in Int
      BY <2>1, <2>2
    <3> HIDE DEF target
    <3> QED BY <2>1, <3>1
  <2>4. bound_end \in {Unbounded, aligned, target} /\ (bound_end = aligned => mark < aligned \/ aligned = target \/ aligned = Unbounded)
    <3> HIDE DEF aligned
    <3> QED BY <1>4, <2>3, <1>2 DEF BoundedRefreshEnd, aligned
  <2> HIDE DEF aligned, target
  <2> QED BY <1>2, <2>2, <2>3, <2>4
<1> QED BY <1>1, <1>2, <1>3, <1>4 DEF mark, BoundEnds

LEMMA ExpandRefreshKeeps ==
    ASSUME Inv, NEW c \in Conns, NEW bound_end \in BoundEnds(c), ExpandRefresh(c, bound_end)
    PROVE  Inv'
<1> DEFINE call == [kind |-> IF Reading(c).hwm < allocated - 1 THEN "refresh" ELSE "report",
                    hwm |-> Reading(c).hwm, fragmented |-> FALSE,
                    bound_end |-> IF bound_end < allocated - 1 THEN bound_end ELSE Unbounded]
<1>1. Expanded(c, call)
  BY DEF ExpandRefresh
<1>2. /\ call.hwm = Reading(c).hwm
      /\ call.bound_end = bound_end \/ call.bound_end = Unbounded
  OBVIOUS
<1> HIDE DEF call
<1>3. CallInv(call)
  BY <1>2, BoundPastMark DEF CallInv
<1> QED BY <1>1, <1>3, ExpandedKeeps

LEMMA ExpandCompactKeeps ==
    ASSUME Inv, NEW c \in Conns, NEW may, NEW kind \in {"merge", "purge"},
           ExpandCompact(c, kind, may)
    PROVE  Inv'
<1> DEFINE call == [kind |-> kind, hwm |-> Reading(c).hwm, bound_end |-> Unbounded,
                    fragmented |-> may]
<1>1. Expanded(c, call)
  BY DEF ExpandCompact
<1>2. CallInv(call)
  BY DEF CallInv
<1> HIDE DEF call
<1> QED BY <1>1, <1>2, ExpandedKeeps

LEMMA ReportOnlyKeeps ==
    ASSUME Inv, NEW c \in Conns, ReportOnly(c)
    PROVE  Inv'
<1>1. Ran(c, Running(c))
  BY DEF ReportOnly
<1> QED BY <1>1, RunningIs, RanInv

LEMMA RunRefreshKeeps ==
    ASSUME Inv, NEW c \in Conns, RunRefresh(c)
    PROVE  Inv'
<1> DEFINE t == Running(c)
           g == NextGeneration(Seen(t))
           n == [t EXCEPT !.hwm = RefreshedHighWaterMark(t), !.advanced = TRUE,
                          !.added = @ \union Packed(Increment(t), g)]
<1>1. t.call.kind = "refresh" /\ Unchanged(t) /\ MayAdvance(c, t) /\ Ran(c, n)
  BY DEF RunRefresh
<1>2. /\ Shape(t) /\ Transaction(t) /\ t.open = TRUE /\ CallInv(t.call) /\ Alone(c, t)
  BY RunningIs
<1>3. t.hwm = t.call.hwm /\ ~t.moved
  BY <1>1 DEF Unchanged, MayAdvance
<1> HIDE DEF t, g
<1>4. Shape(n) /\ Transaction(n) /\ n.open = t.open /\ n.removed = t.removed
  BY <1>1, <1>2, <1>3, RefreshKeeps
<1> HIDE DEF n
<1>5. Alone(c, n)
  BY <1>1, <1>2, <1>4 DEF Alone, MayAdvance
<1> QED BY <1>1, <1>2, <1>4, <1>5, RanInv

LEMMA RunCompactKeeps ==
    ASSUME Inv, NEW c \in Conns, NEW t, NEW after, RunCompact(c, t, after),
           Shape(t), Transaction(t), t.open = TRUE, Alone(c, t), Replaces(t, after)
    PROVE  Inv'
<1> DEFINE changed == Seen(t) \ after
           n == [t EXCEPT !.removed = @ \union (changed \ t.added),
                          !.added = (@ \ changed) \union (after \ Seen(t))]
<1>1. MayRemove(c, t, changed \ t.added) /\ Ran(c, n)
  BY DEF RunCompact
<1>2. /\ (changed \ t.added) \cap t.replaced = {}
      /\ \A d \in Conns \ {c} : (changed \ t.added) \cap conn[d].removed = {}
  BY <1>1 DEF MayRemove
<1>3. /\ Shape(n) /\ Transaction(n) /\ n.open = t.open /\ n.advanced = t.advanced
      /\ n.removed = t.removed \union (changed \ t.added)
  BY <1>2, CompactKeeps
<1> HIDE DEF n
<1>4. Alone(c, n)
  BY <1>2, <1>3 DEF Alone
<1> QED BY <1>1, <1>3, <1>4, RanInv

LEMMA RunMergeKeeps ==
    ASSUME Inv, NEW c \in Conns, RunMerge(c)
    PROVE  Inv'
<1> DEFINE t == Running(c)
           after == IF t.call.fragmented THEN Merged(Seen(t)) ELSE Seen(t)
<1>1. RunCompact(c, t, after)
  BY DEF RunMerge
<1>2. Shape(t) /\ Transaction(t) /\ t.open = TRUE /\ Alone(c, t)
  BY RunningIs
<1> HIDE DEF t
<1>3. Sound(t.visible, t.hwm, Seen(t))
  BY <1>2 DEF Transaction, ChangesInv
<1>4. Replaces(t, Seen(t))
  BY <1>3 DEF Replaces
<1>5. Replaces(t, after)
  BY <1>3, <1>4, MergedReplaces
<1> HIDE DEF after
<1> QED BY <1>1, <1>2, <1>5, RunCompactKeeps

LEMMA RunPurgeKeeps ==
    ASSUME Inv, NEW c \in Conns, RunPurge(c)
    PROVE  Inv'
<1> DEFINE t == Running(c)
           n == [t EXCEPT !.removed = t.base, !.added = Purged(t)]
<1>1. Unchanged(t) /\ MayRemove(c, t, t.base \ t.removed) /\ Ran(c, n)
  BY DEF RunPurge
<1>2. Shape(t) /\ Transaction(t) /\ t.open = TRUE /\ Alone(c, t)
  BY RunningIs
<1> HIDE DEF t
<1>3. Replaces(t, Purged(t))
  BY <1>1, <1>2, PurgedReplaces DEF Unchanged, Transaction, ChangesInv
<1>4. /\ (t.base \ t.removed) \cap t.replaced = {}
      /\ \A d \in Conns \ {c} : (t.base \ t.removed) \cap conn[d].removed = {}
  BY <1>1 DEF MayRemove
<1>5. Shape(n) /\ Transaction(n) /\ n.open = t.open /\ n.advanced = t.advanced /\ n.removed = t.base
  BY <1>2, <1>3, <1>4, RewriteKeeps
<1> HIDE DEF n
<1>6. Alone(c, n)
  BY <1>2, <1>4, <1>5 DEF Alone
<1> QED BY <1>1, <1>2, <1>5, <1>6, RanInv

LEMMA RollbackKeeps ==
    ASSUME Inv, NEW c \in Conns, Rollback(c)
    PROVE  Inv'
<1>1. conn' = [conn EXCEPT ![c] = Idle] /\ UNCHANGED <<rows, allocated, flushing, hwm, segments>>
  BY DEF Rollback
<1>2. Alone(c, Idle)
  BY IdleIs DEF Alone
<1> QED BY <1>1, <1>2, IdleIs, OneChange
-----------------------------------------------------------------------------
\* What another transaction's commit does to a transaction's record.
LEMMA OvertakenFields ==
    ASSUME NEW t, Shape(t), NEW moved, NEW replaced
    PROVE  LET n == [t EXCEPT !.moved = moved, !.replaced = replaced]
           IN  /\ n.open = t.open /\ n.visible = t.visible /\ n.hwm = t.hwm
               /\ n.base = t.base /\ n.removed = t.removed /\ n.added = t.added
               /\ n.advanced = t.advanced /\ n.replaced = replaced
               /\ n.moved = moved /\ n.call = t.call /\ Shape(n)
<1> DEFINE a == [t EXCEPT !.moved = moved]
           n == [a EXCEPT !.replaced = replaced]
<1>1. a = [open |-> t.open, explicit |-> t.explicit, visible |-> t.visible, hwm |-> t.hwm,
           base |-> t.base, removed |-> t.removed, added |-> t.added,
           advanced |-> t.advanced, replaced |-> t.replaced, moved |-> moved,
           call |-> t.call]
  BY DEF Shape
<1> HIDE DEF a
<1>2. n = [open |-> t.open, explicit |-> t.explicit, visible |-> t.visible, hwm |-> t.hwm,
           base |-> t.base, removed |-> t.removed, added |-> t.added,
           advanced |-> t.advanced, replaced |-> replaced, moved |-> moved,
           call |-> t.call]
  BY <1>1
<1> HIDE DEF n
<1>3. n = [t EXCEPT !.moved = moved, !.replaced = replaced]
  BY DEF n, a
<1> QED BY <1>2, <1>3 DEF Shape

\* The committed index after a commit is sound: what the transaction added
\* takes the place of what it removed, and lies past everyone else's postings
\* where it does not.
LEMMA CommitSound ==
    ASSUME Inv, NEW t, Transaction(t), NEW mark,
           mark = IF t.advanced THEN t.hwm ELSE hwm
    PROVE  /\ mark \in Mark /\ hwm <= mark /\ mark < allocated
           /\ \A f \in flushing : mark < f
           /\ Sound(rows, mark, (segments \ t.removed) \union t.added)
<1> DEFINE segs == (segments \ t.removed) \union t.added
<1>1. /\ hwm \in Mark /\ t.hwm \in Mark /\ rows \subseteq Rowid /\ hwm < allocated
      /\ \A f \in flushing : hwm < f
      /\ Sound(rows, hwm, segments) /\ MaxRowid \in Nat
  BY MaintenanceConstants DEF Inv, TableInv, Transaction, SnapshotInv
<1>2. /\ Sound(t.visible, t.hwm, Seen(t)) /\ t.added \subseteq Seen(t)
      /\ t.removed \subseteq t.base \cap segments /\ t.visible \subseteq Rowid
      /\ t.advanced => hwm <= t.hwm
  BY DEF Transaction, SnapshotInv, ChangesInv, Seen
<1>3. /\ mark \in Mark /\ hwm <= mark /\ mark < allocated
      /\ \A f \in flushing : mark < f
      /\ t.advanced => mark = t.hwm
      /\ ~t.advanced => mark = hwm
  BY <1>1, <1>2 DEF Transaction, SnapshotInv, Mark
<1>4. \A r \in Posted(segments) : r \in Rowid /\ r <= hwm
  BY <1>1, PostedIs DEF Sound, OneRowUnder
<1>5. \A r \in Posted(t.added) :
         /\ r \in Rowid /\ r <= t.hwm
         /\ r \in Posted(t.removed) \/ (t.advanced /\ hwm < r)
  BY <1>2, PostedIs DEF Transaction, ChangesInv, Sound, OneRowUnder
<1>6. \A r \in Posted(t.removed) : r \in Posted(segments) /\ r \in Posted(t.base)
  BY <1>2, PostedIs
<1>7. \A s \in segs : \A r \in s.rowids : r \in Rowid /\ s.segment = SegmentOf(r)
  BY <1>1, <1>2 DEF Sound
<1>8. OneRowUnder(rows, mark, segs)
  <2>1. ASSUME NEW s \in segs, NEW r \in s.rowids PROVE r <= mark
    <3>1. CASE s \in segments
      <4>1. r \in Rowid /\ r <= hwm
        BY <1>4, <3>1, PostedIs
      <4> QED BY <1>1, <1>3, <4>1 DEF Rowid, Mark
    <3>2. CASE s \in t.added
      <4>1. r \in Posted(t.added)
        BY <3>2, PostedIs
      <4>2. CASE t.advanced
        BY <1>3, <1>5, <4>1, <4>2
      <4>3. CASE ~t.advanced
        BY <1>3, <1>4, <1>5, <1>6, <4>1, <4>3
      <4> QED BY <4>2, <4>3
    <3> QED BY <3>1, <3>2
  <2>2. ASSUME NEW s \in segments \ t.removed, NEW u \in t.added, NEW r \in s.rowids, r \in u.rowids
        PROVE  FALSE
    <3>1. r \in Posted(t.added) /\ r \in Posted(segments)
      BY <2>2, PostedIs
    <3>2. r \in Posted(t.removed)
      BY <1>1, <1>4, <1>5, <3>1 DEF Rowid, Mark
    <3>3. PICK v \in t.removed : r \in v.rowids
      BY <3>2, PostedIs
    <3>4. v \in segments
      BY <1>2
    <3>5. v = s
      BY <1>1, <3>3, <3>4, OneSeen
    <3> QED BY <3>3, <3>5
  <2>3. ASSUME NEW s \in segs, NEW r \in s.rowids, NEW u \in segs, r \in u.rowids
        PROVE  u = s
    <3>1. CASE s \in t.added /\ u \in t.added
      BY <1>2, <2>3, <3>1, OneSeen
    <3>2. CASE s \in segments \ t.removed /\ u \in segments \ t.removed
      BY <1>1, <2>3, <3>2, OneSeen
    <3>3. CASE s \in segments \ t.removed /\ u \in t.added
      BY <2>2, <2>3, <3>3
    <3>4. CASE s \in t.added /\ u \in segments \ t.removed
      BY <2>2, <2>3, <3>4
    <3> QED BY <3>1, <3>2, <3>3, <3>4
  <2> QED BY <2>1, <2>3 DEF OneRowUnder
<1>9. Covered(rows, mark, segs)
  <2>1. ASSUME NEW r \in rows, r <= mark PROVE r \in Posted(segs)
    <3>1. r \in t.visible \/ t.hwm < r
      BY DEF Transaction, SnapshotInv
    <3>2. CASE r <= hwm
      <4>1. PICK s \in segments : r \in s.rowids
        BY <1>1, <3>2, PostedIs DEF Sound, Covered
      <4>2. CASE s \notin t.removed
        BY <4>1, <4>2, PostedIs
      <4>3. CASE s \in t.removed
        <5>1. r \in Posted(t.removed) /\ r \in Posted(t.base)
          BY <1>6, <4>1, <4>3, PostedIs
        <5>2. r <= t.hwm
          BY <5>1 DEF Transaction, SnapshotInv
        <5>3. r \in t.visible
          BY <1>1, <3>1, <5>2 DEF Rowid, Mark
        <5>4. r \in Posted(t.added)
          BY <5>1, <5>3 DEF Transaction, ChangesInv
        <5> QED BY <5>4, PostedIs
      <4> QED BY <4>2, <4>3
    <3>3. CASE hwm < r
      <4>1. t.advanced /\ r <= t.hwm
        BY <1>1, <1>3, <2>1, <3>3 DEF Rowid, Mark
      <4>2. r \in t.visible
        BY <1>1, <3>1, <4>1 DEF Rowid, Mark
      <4>3. r \in Posted(Seen(t))
        BY <1>2, <4>1, <4>2 DEF Sound, Covered
      <4>4. PICK s \in Seen(t) : r \in s.rowids
        BY <4>3, PostedIs
      <4>5. s \in t.added
        <5>1. ASSUME s \in t.base PROVE FALSE
          <6>1. r \in Posted(t.base)
            BY <4>4, <5>1, PostedIs
          <6>2. r <= hwm
            BY <6>1 DEF Transaction, SnapshotInv
          <6> QED BY <1>1, <3>3, <6>2 DEF Rowid, Mark
        <5> QED BY <4>4, <5>1 DEF Seen
      <4> QED BY <4>4, <4>5, PostedIs
    <3> QED BY <1>1, <3>2, <3>3 DEF Rowid, Mark
  <2> QED BY <2>1 DEF Covered
<1> QED BY <1>3, <1>7, <1>8, <1>9 DEF Sound

\* A transaction stays in order when another one commits.
LEMMA OvertakenKeeps ==
    ASSUME Inv, NEW t,
           hwm' = IF t.advanced THEN t.hwm ELSE hwm,
           segments' = (segments \ t.removed) \union t.added,
           UNCHANGED <<rows, allocated, flushing>>, hwm' \in Mark, hwm <= hwm',
           NEW o, Transaction(o), o.open, o.removed \cap t.removed = {},
           ~(t.advanced /\ o.advanced),
           NEW m, m.open = o.open, m.visible = o.visible, m.hwm = o.hwm, m.base = o.base,
           m.removed = o.removed, m.added = o.added, m.advanced = o.advanced,
           m.replaced = o.replaced \union (o.base \cap t.removed),
           m.moved \in BOOLEAN, m.moved <=> (o.moved \/ t.advanced)
    PROVE  Transaction(m)'
<1>1. m.removed \subseteq m.base \cap segments' /\ m.base \ m.replaced \subseteq segments'
  BY DEF Transaction, SnapshotInv
<1>2. ASSUME NEW r \in Posted(o.base) PROVE r <= hwm' /\ r <= o.hwm
  <2>1. r <= hwm /\ r <= o.hwm
    BY DEF Transaction, SnapshotInv
  <2>2. r \in Rowid
    <3>1. PICK s \in o.base : r \in s.rowids
      BY PostedIs
    <3>2. CASE s \in o.removed
      BY <3>1, <3>2 DEF Transaction, SnapshotInv, Inv, Sound
    <3>3. CASE s \notin o.removed
      BY <3>1, <3>3 DEF Transaction, ChangesInv, Seen, Sound
    <3> QED BY <3>2, <3>3
  <2>3. hwm \in Mark
    BY DEF Inv, TableInv
  <2> QED BY <2>1, <2>2, <2>3, MaintenanceConstants DEF Rowid, Mark
<1>3. m.moved \/ hwm' <= m.hwm
  BY DEF Transaction, SnapshotInv
<1>4. m.advanced => ~m.moved
  BY DEF Transaction, SnapshotInv
<1>5. SnapshotInv(m)'
  BY <1>1, <1>2, <1>3, <1>4 DEF Transaction, SnapshotInv
<1>6. Seen(m) = Seen(o)
  BY DEF Seen
<1>7. ChangesInv(m)'
  BY <1>6 DEF Transaction, ChangesInv
<1> QED BY <1>5, <1>7 DEF Transaction

LEMMA CommitKeeps ==
    ASSUME Inv, NEW c \in Conns, Commit(c)
    PROVE  Inv'
<1> DEFINE t == conn[c]
           moved(d) == conn[d].moved \/ t.advanced
           replaced(d) == conn[d].replaced \union (conn[d].base \cap t.removed)
           n(d) == [conn[d] EXCEPT !.moved = moved(d), !.replaced = replaced(d)]
<1>1. /\ t.open
      /\ hwm' = IF t.advanced THEN t.hwm ELSE hwm
      /\ segments' = (segments \ t.removed) \union t.added
      /\ UNCHANGED <<rows, allocated, flushing>>
  BY DEF Commit
<1>2. DOMAIN conn' = Conns /\ conn'[c] = Idle
  BY DEF Commit
<1>3. \A d \in Conns \ {c} : conn'[d] = IF conn[d].open THEN n(d) ELSE conn[d]
  BY DEF Commit
<1>4. Transaction(t) /\ \A d \in Conns \ {c} : Apart(c, d)
  BY <1>1 DEF Inv
<1>5. /\ \A d \in Conns \ {c} : conn[d].removed \cap t.removed = {}
      /\ \A d \in Conns \ {c} : ~(t.advanced /\ conn[d].advanced)
  BY <1>4 DEF Apart
<1> HIDE DEF t
<1>6. /\ hwm' \in Mark /\ hwm <= hwm' /\ hwm' < allocated
      /\ \A f \in flushing : hwm' < f
      /\ Sound(rows, hwm', segments')
  BY <1>1, <1>4, CommitSound
<1>7. TableInv'
  BY <1>1, <1>6 DEF Inv, TableInv
<1>8. Sound(rows, hwm, segments)'
  BY <1>1, <1>6
<1>9. ASSUME NEW d \in Conns \ {c}, conn[d].open
      PROVE  /\ Shape(conn'[d]) /\ conn'[d].call = conn[d].call /\ conn'[d].open = conn[d].open
             /\ conn'[d].removed = conn[d].removed /\ conn'[d].advanced = conn[d].advanced
             /\ Transaction(conn[d])'
  <2>1. Shape(conn[d]) /\ Transaction(conn[d])
    BY <1>9 DEF Inv
  <2>2. conn'[d] = n(d)
    BY <1>3, <1>9
  <2>3. LET m == n(d)
            o == conn[d]
        IN  /\ m.open = o.open /\ m.visible = o.visible /\ m.hwm = o.hwm
            /\ m.base = o.base /\ m.removed = o.removed /\ m.added = o.added
            /\ m.advanced = o.advanced /\ m.replaced = replaced(d)
            /\ m.moved = moved(d) /\ m.call = o.call /\ Shape(m)
    <3> HIDE DEF moved, replaced
    <3> QED BY <2>1, OvertakenFields
  <2>4. moved(d) \in BOOLEAN /\ (moved(d) <=> (conn[d].moved \/ t.advanced))
    OBVIOUS
  <2>5. replaced(d) = conn[d].replaced \union (conn[d].base \cap t.removed)
    OBVIOUS
  <2> HIDE DEF n, moved, replaced
  <2>6. ASSUME NEW m, m = n(d) PROVE Transaction(m)'
    BY <1>1, <1>5, <1>6, <1>9, <2>1, <2>3, <2>4, <2>5, <2>6, OvertakenKeeps
  <2>7. ASSUME NEW m, m = conn'[d] PROVE SnapshotInv(m)' /\ ChangesInv(m)'
    BY <2>2, <2>6, <2>7 DEF Transaction
  <2>8. Transaction(conn[d])'
    BY <2>7 DEF Transaction, SnapshotInv, ChangesInv
  <2> QED BY <2>2, <2>3, <2>8
<1> HIDE DEF n
<1>10. ASSUME NEW d \in Conns
       PROVE  (/\ Shape(conn[d]) /\ CallInv(conn[d].call)
               /\ conn[d].open \in BOOLEAN
               /\ conn[d].open => Transaction(conn[d])
               /\ ~conn[d].open => conn[d].removed = {} /\ ~conn[d].advanced)'
  <2>1. CASE d = c
    BY <1>2, <2>1, IdleIs
  <2>2. CASE d # c /\ conn[d].open
    <3>1. CallInv(conn[d].call) /\ conn[d].open \in BOOLEAN
      BY DEF Inv
    <3> QED BY <1>9, <2>2, <3>1
  <2>3. CASE d # c /\ ~conn[d].open
    BY <1>3, <2>3 DEF Inv
  <2> QED BY <2>1, <2>2, <2>3
<1>11. ASSUME NEW d \in Conns, NEW e \in Conns \ {d} PROVE Apart(d, e)'
  <2>1. \A x \in Conns : \/ conn'[x].removed = {} /\ ~conn'[x].advanced
                         \/ conn'[x].removed = conn[x].removed
                            /\ conn'[x].advanced = conn[x].advanced
    BY <1>2, <1>3, <1>9, IdleIs
  <2>2. Apart(d, e)
    BY DEF Inv
  <2> QED BY <2>1, <2>2 DEF Apart
<1> QED BY <1>2, <1>7, <1>8, <1>10, <1>11 DEF Inv
-----------------------------------------------------------------------------
LEMMA StutterKeeps ==
    ASSUME Inv, UNCHANGED vars
    PROVE  Inv'
<1>1. UNCHANGED <<rows, allocated, flushing, hwm, segments, conn>>
  BY DEF vars
<1>2. TableInv' /\ Covered(rows, hwm, segments)'
  BY <1>1 DEF Inv, TableInv, Sound, Covered
<1>3. \A t : SnapshotInv(t) => SnapshotInv(t)'
  BY <1>1 DEF SnapshotInv
<1> QED BY <1>1, <1>2, <1>3, TableStep

LEMMA NextKeeps ==
    ASSUME Inv, Next
    PROVE  Inv'
<1>1. CASE \E last \in allocated .. MaxRowid : Flush(last)
  BY <1>1, FlushKeeps
<1>2. CASE FlushCommit
  BY <1>2, FlushCommitKeeps
<1>3. CASE FlushReject
  BY <1>3, FlushRejectKeeps
<1>4. CASE \E r \in rows : Delete(r)
  BY <1>4, DeleteKeeps
<1>5. ASSUME NEW c \in Conns, Begin(c) PROVE Inv'
  BY <1>5, BeginKeeps
<1>6. ASSUME NEW c \in Conns, NEW bound_end \in BoundEnds(c), ExpandRefresh(c, bound_end)
      PROVE  Inv'
  BY <1>6, ExpandRefreshKeeps
<1>7. ASSUME NEW c \in Conns, NEW may \in BOOLEAN, ExpandCompact(c, "merge", may) PROVE Inv'
  BY <1>7, ExpandCompactKeeps
<1>8. ASSUME NEW c \in Conns, ExpandCompact(c, "purge", TRUE) PROVE Inv'
  BY <1>8, ExpandCompactKeeps
<1>9. ASSUME NEW c \in Conns, ReportOnly(c) PROVE Inv'
  BY <1>9, ReportOnlyKeeps
<1>10. ASSUME NEW c \in Conns, RunRefresh(c) PROVE Inv'
  BY <1>10, RunRefreshKeeps
<1>11. ASSUME NEW c \in Conns, RunMerge(c) PROVE Inv'
  BY <1>11, RunMergeKeeps
<1>12. ASSUME NEW c \in Conns, RunPurge(c) PROVE Inv'
  BY <1>12, RunPurgeKeeps
<1>13. ASSUME NEW c \in Conns, Rollback(c) PROVE Inv'
  BY <1>13, RollbackKeeps
<1>14. ASSUME NEW c \in Conns, Commit(c) PROVE Inv'
  BY <1>14, CommitKeeps
<1> QED
  BY <1>1, <1>2, <1>3, <1>4, <1>5, <1>6, <1>7, <1>8, <1>9, <1>10, <1>11, <1>12, <1>13, <1>14
     DEF Next

\* A call that is no longer there, while its transaction is, was run.
LEMMA OwnScript ==
    ASSUME Inv, Next, NEW c \in Conns, conn[c].call # NoCall,
           conn'[c].open, conn'[c].call = NoCall
    PROVE  ReportOnly(c) \/ RunRefresh(c) \/ RunMerge(c) \/ RunPurge(c)
<1>1. DOMAIN conn = Conns
  BY DEF Inv
<1>2. conn'[c] # conn[c]
  OBVIOUS
<1>3. ~\E last \in allocated .. MaxRowid : Flush(last)
  BY <1>2 DEF Flush
<1>4. ~FlushCommit /\ ~FlushReject /\ ~\E r \in rows : Delete(r)
  BY <1>2 DEF FlushCommit, FlushReject, Delete
<1>5. ASSUME NEW d \in Conns, NEW n, conn' = [conn EXCEPT ![d] = n]
      PROVE  d = c /\ n = conn'[c]
  BY <1>1, <1>2, <1>5
<1>6. ASSUME NEW d \in Conns PROVE ~Begin(d) /\ ~Rollback(d)
  <2>1. ~Begin(d)
    BY <1>5 DEF Begin
  <2>2. ~Rollback(d)
    BY <1>5, IdleIs DEF Rollback
  <2> QED BY <2>1, <2>2
<1>7. ASSUME NEW d \in Conns, NEW call, Expanded(d, call) PROVE FALSE
  BY <1>5, <1>7 DEF Expanded
<1>8. ASSUME NEW d \in Conns, Commit(d) PROVE FALSE
  <2>1. d # c
    BY <1>8 DEF Commit
  <2>2. conn[c].open
    BY <1>2, <1>8, <2>1 DEF Commit
  <2>3. Shape(conn[c])
    BY DEF Inv
  <2> DEFINE moved == conn[c].moved \/ conn[d].advanced
             replaced == conn[c].replaced \union (conn[c].base \cap conn[d].removed)
             n == [conn[c] EXCEPT !.moved = moved, !.replaced = replaced]
  <2>4. conn'[c] = n
    BY <1>8, <2>1, <2>2 DEF Commit
  <2> HIDE DEF moved, replaced
  <2>5. LET o == conn[c]
        IN  /\ n.open = o.open /\ n.visible = o.visible /\ n.hwm = o.hwm
            /\ n.base = o.base /\ n.removed = o.removed /\ n.added = o.added
            /\ n.advanced = o.advanced /\ n.replaced = replaced
            /\ n.moved = moved /\ n.call = o.call /\ Shape(n)
    BY <2>3, OvertakenFields
  <2> HIDE DEF n
  <2> QED BY <2>4, <2>5
<1>9. ASSUME NEW d \in Conns, NEW t, Ran(d, t) PROVE d = c
  BY <1>5, <1>9 DEF Ran
<1>10. PICK d \in Conns : ReportOnly(d) \/ RunRefresh(d) \/ RunMerge(d) \/ RunPurge(d)
  BY <1>3, <1>4, <1>6, <1>7, <1>8 DEF Next, ExpandRefresh, ExpandCompact
<1>11. \E t : Ran(d, t)
  BY <1>10 DEF ReportOnly, RunRefresh, RunMerge, RunPurge, RunCompact
<1> QED BY <1>9, <1>10, <1>11

\* Every state of the index and of the transactions on it is in order: rows,
\* marks and postings fit each other in the committed index and in every open
\* transaction, whatever the scripts of refresh and compaction and the
\* writers do in between (maintenance_sql.cpp).
THEOREM IndexInvariant == Spec => []Inv
<1>1. Init => Inv
  BY InitInv
<1>2. Inv /\ [Next]_vars => Inv'
  BY NextKeeps, StutterKeeps
<1> QED BY <1>1, <1>2, PTL DEF Spec

\* No refresh, merge or purge leaves a visible row at or below the mark out of
\* the postings (maintenance_sql.cpp:134-167).
THEOREM NothingBuried == Spec => []NoBuriedRow
<1>1. Inv => NoBuriedRow
  BY DEF Inv, Transaction, ChangesInv, Sound, NoBuriedRow, Everywhere
<1> QED BY <1>1, IndexInvariant, PTL

\* Each posting lies at or below the mark, and in one row of the segments
\* table (maintenance_sql.cpp:338-396).
THEOREM OnePosting == Spec => []PostingsUnderMark
<1>1. Inv => PostingsUnderMark
  BY DEF Inv, Transaction, ChangesInv, Sound, PostingsUnderMark, Everywhere
<1> QED BY <1>1, IndexInvariant, PTL

\* Only a commit of a writer changes the rows, and what it adds is above the
\* mark; only a commit of a transaction changes mark and postings.
LEMMA CommittedStep ==
    ASSUME Inv, Next
    PROVE  \/ UNCHANGED <<rows, hwm, segments>>
           \/ /\ UNCHANGED <<hwm, segments>>
              /\ \A r \in rows' \ rows : hwm < r
           \/ \E c \in Conns : Commit(c)
<1>1. FlushCommit => UNCHANGED <<hwm, segments>> /\ \A r \in rows' \ rows : hwm < r
  BY DEF FlushCommit, Inv, TableInv
<1>2. ASSUME NEW r \in rows, Delete(r) PROVE UNCHANGED <<hwm, segments>> /\ rows' \subseteq rows
  BY <1>2 DEF Delete
<1>3. ASSUME NEW last, Flush(last) PROVE UNCHANGED <<rows, hwm, segments>>
  BY <1>3 DEF Flush
<1>4. FlushReject => UNCHANGED <<rows, hwm, segments>>
  BY DEF FlushReject
<1>5. ASSUME NEW c \in Conns
      PROVE  /\ Begin(c) => UNCHANGED <<rows, hwm, segments>>
             /\ Rollback(c) => UNCHANGED <<rows, hwm, segments>>
             /\ \A call : Expanded(c, call) => UNCHANGED <<rows, hwm, segments>>
             /\ \A t : Ran(c, t) => UNCHANGED <<rows, hwm, segments>>
  BY DEF Begin, Rollback, Expanded, Ran
<1>6. ASSUME NEW c \in Conns
      PROVE  /\ \A end : ExpandRefresh(c, end) => UNCHANGED <<rows, hwm, segments>>
             /\ \A kind, may : ExpandCompact(c, kind, may) => UNCHANGED <<rows, hwm, segments>>
             /\ ReportOnly(c) \/ RunRefresh(c) \/ RunMerge(c) \/ RunPurge(c) =>
                   UNCHANGED <<rows, hwm, segments>>
  BY <1>5 DEF ExpandRefresh, ExpandCompact, ReportOnly, RunRefresh, RunMerge, RunPurge, RunCompact
<1> QED BY <1>1, <1>2, <1>3, <1>4, <1>5, <1>6 DEF Next

\* What a commit does to the committed index.
LEMMA CommitPromise ==
    ASSUME Inv, Inv', NEW c \in Conns, Commit(c)
    PROVE  /\ UNCHANGED rows /\ hwm <= hwm'
           /\ \A r \in Posted(segments') \ Posted(segments) : hwm < r /\ r <= hwm'
           /\ \A r \in rows : r \in Posted(segments) \/ r <= hwm' => r \in Posted(segments')
<1> DEFINE t == conn[c]
<1>1. /\ UNCHANGED rows
      /\ hwm' = IF t.advanced THEN t.hwm ELSE hwm
      /\ segments' = (segments \ t.removed) \union t.added
  BY DEF Commit
<1>2. Transaction(t)
  BY DEF Commit, Inv
<1> HIDE DEF t
<1>3. hwm \in Int /\ hwm <= hwm'
  <2>1. hwm \in Int
    BY MaintenanceConstants DEF Inv, TableInv, Mark
  <2>2. t.advanced => hwm <= t.hwm
    BY <1>2 DEF Transaction, SnapshotInv
  <2> QED BY <1>1, <2>1, <2>2
<1>4. ASSUME NEW r \in Posted(segments') \ Posted(segments) PROVE hwm < r /\ r <= hwm'
  <2>1. PICK s \in segments' : r \in s.rowids
    BY PostedIs
  <2>2. s \in t.added /\ s \notin segments
    BY <1>1, <1>4, <2>1, PostedIs
  <2>3. r \in Posted(t.added)
    BY <2>1, <2>2, PostedIs
  <2>4. r \notin Posted(t.removed)
    BY <1>2, <1>4, PostedIs DEF Transaction, SnapshotInv
  <2>5. hwm < r
    BY <1>2, <2>3, <2>4 DEF Transaction, ChangesInv
  <2>6. r <= hwm'
    BY <2>1 DEF Inv, Sound, OneRowUnder
  <2> QED BY <2>5, <2>6
<1>5. ASSUME NEW r \in rows, r \in Posted(segments) \/ r <= hwm' PROVE r \in Posted(segments')
  <2>1. r \in Int /\ hwm' \in Int
    BY MaintenanceConstants DEF Inv, TableInv, Mark, Rowid
  <2>2. r \in Posted(segments) => r <= hwm
    BY PostedIs DEF Inv, Sound, OneRowUnder
  <2>3. r <= hwm'
    BY <1>3, <1>5, <2>1, <2>2
  <2> QED BY <1>1, <2>3 DEF Inv, Sound, Covered
<1> QED BY <1>1, <1>3, <1>4, <1>5

\* To those who see only what is committed, the index is a growing mark and a
\* set of postings (PostedIndex): no commit over another's snapshot moves the
\* mark back, posts a purged rowid again or takes the posting of a row
\* (maintenance_sql.cpp:134-167, 302-407).
THEOREM Refinement == Spec => ImplementsPostedIndex
<1>1. ASSUME Inv PROVE rows \in SUBSET Rowid /\ hwm \in Rowid \union {-1} /\ Posted(segments) \in SUBSET Rowid
  <2>1. rows \in SUBSET Rowid /\ hwm \in Rowid \union {-1}
    BY <1>1, MaintenanceConstants DEF Inv, TableInv, Mark, Rowid
  <2>2. Posted(segments) \in SUBSET Rowid
    BY <1>1, PostedIs DEF Inv, Sound
  <2> QED BY <2>1, <2>2
<1>2. Init => Committed!Init
  <2> SUFFICES ASSUME Init PROVE Committed!Init
    OBVIOUS
  <2>1. Inv
    BY InitInv
  <2>2. Posted(segments) = rows
    BY PackedIs DEF Init
  <2>3. rows \union {-1} \in SUBSET Mark /\ hwm = Max(rows \union {-1})
    BY <1>1, <2>1, MaintenanceConstants DEF Init, Rowid, Mark
  <2>4. \A r \in rows : r <= hwm
    BY <2>3, MaxIs
  <2> QED BY <1>1, <2>1, <2>2, <2>4 DEF Committed!Init
<1>3. Inv /\ Inv' /\ [Next]_vars => [Committed!Next]_(Committed!vars)
  <2> SUFFICES ASSUME Inv, Inv', [Next]_vars PROVE [Committed!Next]_(Committed!vars)
    OBVIOUS
  <2>0. /\ rows' \in SUBSET Rowid /\ hwm' \in Rowid \union {-1} /\ Posted(segments') \in SUBSET Rowid
    <3>1. PICK m, s : m = hwm' /\ s = segments'
      OBVIOUS
    <3>2. rows' \in SUBSET Rowid /\ m \in Rowid \union {-1}
      BY <3>1, MaintenanceConstants DEF Inv, TableInv, Mark, Rowid
    <3>3. Posted(s) \in SUBSET Rowid
      BY <3>1, PostedIs DEF Inv, Sound
    <3> QED BY <3>1, <3>2, <3>3
  <2>1. CASE UNCHANGED <<rows, hwm, segments>>
    BY <2>1 DEF Committed!vars, Posted
  <2>2. CASE UNCHANGED <<hwm, segments>> /\ \A r \in rows' \ rows : hwm < r
    BY <2>0, <2>2 DEF Committed!Next, Committed!Write, Posted
  <2>3. ASSUME NEW c \in Conns, Commit(c) PROVE Committed!Next
    <3>1. /\ UNCHANGED rows /\ hwm <= hwm'
          /\ \A r \in Posted(segments') \ Posted(segments) : hwm < r /\ r <= hwm'
          /\ \A r \in rows : r \in Posted(segments) \/ r <= hwm' => r \in Posted(segments')
      BY <2>3, CommitPromise
    <3>2. Posted(segments)' = Posted(segments')
      BY DEF Posted
    <3> QED BY <2>0, <3>1, <3>2 DEF Committed!Next, Committed!Maintain
  <2>4. CASE UNCHANGED vars
    BY <2>1, <2>4 DEF vars
  <2> QED BY <2>1, <2>2, <2>3, <2>4, CommittedStep
<1> QED BY <1>2, <1>3, IndexInvariant, PTL DEF Spec, ImplementsPostedIndex, Committed!Spec

\* A refresh that leaves a tail has moved the mark, so that repeating it ends
\* (maintenance_sql.cpp:134-139).
THEOREM RefreshProgresses == Spec => NoSpin
<1> DEFINE Step ==
      \A c \in Conns :
         LET call == conn[c].call
         IN  (/\ call.kind = "refresh"
              /\ conn'[c].open /\ conn'[c].call = NoCall
              /\ RemainingTail(conn'[c]) # {})
                 => conn'[c].hwm > call.hwm
<1>1. ASSUME Inv, Next PROVE Step
  <2> SUFFICES ASSUME NEW c \in Conns, conn[c].call.kind = "refresh",
                      conn'[c].open, conn'[c].call = NoCall, RemainingTail(conn'[c]) # {}
               PROVE  conn'[c].hwm > conn[c].call.hwm
    OBVIOUS
  <2>1. conn[c].call # NoCall /\ DOMAIN conn = Conns
    BY <1>1 DEF NoCall, Inv
  <2>2. RunRefresh(c)
    <3>1. Running(c).call = conn[c].call
      BY <1>1, RunningIs
    <3> QED BY <1>1, <2>1, <3>1, OwnScript DEF ReportOnly, RunMerge, RunPurge
  <2> DEFINE t == Running(c)
             mark == RefreshedHighWaterMark(t)
             n == [t EXCEPT !.hwm = mark, !.advanced = TRUE,
                            !.added = @ \union Packed(Increment(t), NextGeneration(Seen(t)))]
  <2>3. /\ t.call.kind = "refresh" /\ t.hwm = t.call.hwm /\ Ran(c, n)
    BY <2>2 DEF RunRefresh, Unchanged
  <2>4. Shape(t) /\ SnapshotInv(t) /\ CallInv(t.call) /\ t.call = conn[c].call
    BY <1>1, RunningIs DEF Transaction
  <2>5. Shape(n) /\ n.hwm = mark /\ n.visible = t.visible
    <3> DEFINE added == t.added \union Packed(Increment(t), NextGeneration(Seen(t)))
               m == [t EXCEPT !.hwm = mark, !.advanced = TRUE, !.added = added]
    <3>1. n = m
      OBVIOUS
    <3> HIDE DEF mark, added, t
    <3>2. /\ m.open = t.open /\ m.visible = t.visible /\ m.hwm = mark
          /\ m.base = t.base /\ m.removed = t.removed /\ m.added = added
          /\ m.advanced = TRUE /\ m.replaced = t.replaced
          /\ m.moved = t.moved /\ m.call = t.call /\ Shape(m)
      BY <2>4, RefreshFields
    <3> HIDE DEF n, m
    <3> QED BY <3>1, <3>2
  <2>6. /\ mark \in Mark /\ t.hwm <= mark /\ t.hwm \in Mark /\ t.visible \subseteq Rowid
        /\ mark = t.hwm => \A r \in t.visible : r <= t.hwm
    BY <2>3, <2>4, RefreshedIs DEF SnapshotInv
  <2> HIDE DEF mark, n, t
  <2>7. conn'[c].hwm = mark /\ conn'[c].visible = t.visible
    <3> DEFINE m == [n EXCEPT !.call = NoCall]
    <3>1. m.hwm = n.hwm /\ m.visible = n.visible
      BY <2>5, CallFields
    <3>2. conn'[c] = m
      BY <2>1, <2>3 DEF Ran
    <3> HIDE DEF m
    <3> QED BY <2>5, <3>1, <3>2
  <2>8. PICK r \in t.visible : r > mark
    BY <2>7 DEF RemainingTail
  <2>9. mark # t.hwm
    BY <2>6, <2>8, MaintenanceConstants DEF Rowid, Mark
  <2> QED BY <2>3, <2>4, <2>6, <2>7, <2>9, MaintenanceConstants DEF Mark
<1>2. Inv /\ [Next]_vars => [Step]_vars
  BY <1>1
<1>3. NoSpin <=> [][Step]_vars
  BY DEF NoSpin
<1> QED BY <1>2, <1>3, IndexInvariant, PTL DEF Spec
-----------------------------------------------------------------------------
(* A merge leaves no key fragmented *)

\* A segments table's rows hold rowids and carry a generation; a segment has one
\* of each generation, or only one.
Filled(segs) == \A s \in segs : s.generation \in Nat /\ s.rowids # {}
Distinct(segs) ==
    \A s, u \in segs : s.segment = u.segment /\ s.generation = u.generation => s = u
Single(segs) == \A s, u \in segs : s.segment = u.segment => s = u

\* What a transaction adds past the mark has a generation of its own, and what it
\* adds at generation 0 takes the place of all its snapshot has in that segment.
AddedInv(t) ==
    /\ Filled(t.added) /\ Distinct(Seen(t)) /\ t.removed \cap t.replaced = {}
    /\ \A a \in t.added : a.generation # 0 => t.advanced /\ \A r \in a.rowids : hwm < r
    /\ \A a \in t.added : \A s \in t.base :
         a.generation = 0 /\ s.segment = a.segment => s \in t.removed

\* What others committed over its snapshot is at generation 0 unless they moved
\* the mark, and replaced what the snapshot has there.
OvertakenInv(t) ==
    /\ IsFiniteSet(t.base) /\ Filled(t.base)
    /\ t.moved \/ (/\ Posted(segments) \subseteq Posted(t.base)
                   /\ \A s \in segments \ t.base : s.generation = 0)
    /\ \A s \in segments \ t.base : \A y \in t.base :
         s.generation = 0 /\ y.segment = s.segment =>
            \E z \in t.base \cap t.replaced : z.segment = s.segment

Generational(t) == AddedInv(t) /\ OvertakenInv(t)

\* Of two snapshots one is the older.
Nested(t, u) == t.base \ t.replaced \subseteq u.base \/ u.base \ u.replaced \subseteq t.base

\* A merge whose script does nothing has nothing to do, unless its check fails.
MergeInv(t) ==
    t.call.kind = "merge" =>
      \/ t.call.fragmented
      \/ t.open /\ Single(Seen(t))
      \/ ~t.open /\ t.call.hwm \in Mark /\ t.call.hwm <= hwm /\ (t.call.hwm = hwm => Single(segments))

GenerationInv ==
    /\ Filled(segments) /\ Distinct(segments)
    /\ \A c \in Conns : conn[c].open => Generational(conn[c])
    /\ \A c, d \in Conns : conn[c].open /\ conn[d].open => Nested(conn[c], conn[d])
    /\ \A c \in Conns : MergeInv(conn[c])

\* A sound segments table is finite.
LEMMA SoundFinite ==
    ASSUME NEW visible, NEW mark, NEW segs, Sound(visible, mark, segs), Filled(segs)
    PROVE  IsFiniteSet(segs)
<1> DEFINE f == [s \in segs |-> CHOOSE r \in s.rowids : TRUE]
<1>1. \A s \in segs : f[s] \in s.rowids
  BY DEF Filled
<1>2. f \in [segs -> Rowid]
  BY <1>1 DEF Sound
<1>3. DOMAIN f = segs
  OBVIOUS
<1> HIDE DEF f
<1>4. \A s, u \in segs : f[s] = f[u] => s = u
  BY <1>1 DEF Sound, OneRowUnder
<1>5. f \in Injection(segs, Rowid)
  BY <1>2, <1>4 DEF Injection, IsInjective
<1>6. IsFiniteSet(Rowid)
  BY MaintenanceConstants, FS_Interval DEF Rowid
<1> QED BY <1>5, <1>6, FS_Injection

\* So are its generations.
LEMMA GenerationsFinite ==
    ASSUME NEW segs, IsFiniteSet(segs)
    PROVE  IsFiniteSet(Generations(segs))
<1> DEFINE f == [s \in segs |-> s.generation]
<1>1. f \in Surjection(segs, Generations(segs))
  BY DEF Surjection, Generations
<1> HIDE DEF f
<1> QED BY <1>1, FS_Surjection

\* A finite set of naturals that is not empty has a greatest element.
LEMMA GreatestIs ==
    ASSUME NEW S \in SUBSET Nat, IsFiniteSet(S), S # {}
    PROVE  Max(S) \in S /\ \A r \in S : r <= Max(S)
<1>1. /\ Cardinality(S) \in Nat /\ \A n \in S : Rank(S, n) \in 0 .. Cardinality(S) - 1
      /\ \A m, n \in S : m < n => Rank(S, m) < Rank(S, n)
      /\ \A i \in 0 .. Cardinality(S) - 1 : \E n \in S : Rank(S, n) = i
  <2>1. S \in SUBSET Int
    OBVIOUS
  <2> QED BY <2>1, Ranks
<1>2. Cardinality(S) - 1 \in 0 .. Cardinality(S) - 1
  <2>1. Cardinality(S) # 0
    BY FS_EmptySet
  <2> QED BY <1>1, <2>1
<1>3. PICK m \in S : Rank(S, m) = Cardinality(S) - 1
  BY <1>1, <1>2
<1>4. \A r \in S : m >= r
  <2> TAKE r \in S
  <2>1. Rank(S, r) \in 0 .. Cardinality(S) - 1
    BY <1>1
  <2>2. ~(m < r)
    BY <1>1, <1>3, <2>1
  <2> QED BY <2>2
<1>5. \E n \in S : \A r \in S : n >= r
  BY <1>4
<1> QED BY <1>5 DEF Max

\* A refresh's generation is higher than all there are.
LEMMA NextGenerationIs ==
    ASSUME NEW segs, IsFiniteSet(segs), Filled(segs)
    PROVE  /\ NextGeneration(segs) \in Nat \ {0}
           /\ \A s \in segs : s.generation < NextGeneration(segs)
<1> DEFINE G == Generations(segs) \union {0}
<1>1. \A s \in segs : s.generation \in G
  BY DEF Generations
<1>2. G \in SUBSET Nat /\ G # {}
  BY DEF Generations, Filled
<1>3. IsFiniteSet(G)
  BY GenerationsFinite, FS_AddElement
<1>4. NextGeneration(segs) = Max(G) + 1
  BY DEF NextGeneration
<1> HIDE DEF G
<1>5. Max(G) \in Nat /\ \A g \in G : g <= Max(G)
  BY <1>2, <1>3, GreatestIs
<1>6. ASSUME NEW s \in segs PROVE s.generation < Max(G) + 1
  <2>1. s.generation \in Nat /\ s.generation <= Max(G)
    BY <1>1, <1>2, <1>5
  <2> QED BY <1>5, <2>1
<1> QED BY <1>4, <1>5, <1>6

\* A set of one element at most has no two.
LEMMA AtMostOne ==
    ASSUME NEW S, IsFiniteSet(S), Cardinality(S) <= 1, NEW a \in S, NEW b \in S
    PROVE  a = b
<1> SUFFICES ASSUME a # b PROVE FALSE
  OBVIOUS
<1>1. Cardinality({a}) = 1 /\ IsFiniteSet({a})
  BY FS_Singleton
<1>2. IsFiniteSet({a} \union {b}) /\ Cardinality({a} \union {b}) = 2
  <2>1. b \notin {a}
    OBVIOUS
  <2> QED BY <1>1, <2>1, FS_AddElement
<1>3. {a} \union {b} \in SUBSET S
  OBVIOUS
<1>4. Cardinality({a} \union {b}) <= Cardinality(S) /\ Cardinality(S) \in Nat
  BY <1>3, FS_Subset, FS_CardinalityType
<1> QED BY <1>2, <1>4

\* A table with one row in each segment has no fragmented key.
LEMMA SingleUnfragmented ==
    ASSUME NEW segs, Single(segs)
    PROVE  Fragmented(segs) = {}
<1>1. ASSUME NEW s \in segs PROVE ~(Cardinality(Key(segs, s.segment)) > 1)
  <2>1. Key(segs, s.segment) = {s}
    BY DEF Key, Single
  <2> QED BY <2>1, FS_Singleton
<1> QED BY <1>1 DEF Fragmented

\* Packed rows are at the generation they were packed at, one in each segment.
LEMMA PackedSingle ==
    ASSUME NEW rowids, NEW g \in Nat
    PROVE  /\ \A s \in Packed(rowids, g) : s.generation = g
           /\ Single(Packed(rowids, g)) /\ Filled(Packed(rowids, g))
<1>1. \A s \in Packed(rowids, g) : s.generation = g
  BY DEF Packed
<1> QED BY <1>1, PackedIs DEF Single, Filled

\* So are merged ones, at generation 0.
LEMMA MergedSingle ==
    ASSUME NEW visible, NEW mark, NEW segs, Sound(visible, mark, segs)
    PROVE  /\ \A s \in Merged(segs) : s.generation = 0
           /\ Single(Merged(segs)) /\ Filled(Merged(segs))
<1> DEFINE P(k) == Packed(Posted(Key(segs, k)), 0)
<1>1. \A a \in Merged(segs) : \E k : a \in P(k)
  BY DEF Merged
<1>2. ASSUME NEW k, NEW a \in P(k)
      PROVE  a.generation = 0 /\ a.rowids # {} /\ a.segment = k
  <2>1. a.generation = 0 /\ a.rowids # {} /\ a.rowids = {r \in Posted(Key(segs, k)) : SegmentOf(r) = a.segment}
    BY <1>2, PackedSingle, PackedIs
  <2>2. PICK r \in Posted(Key(segs, k)) : SegmentOf(r) = a.segment
    BY <2>1
  <2>3. PICK s \in Key(segs, k) : r \in s.rowids
    BY PostedIs
  <2>4. s \in segs /\ s.segment = k
    BY DEF Key
  <2>5. SegmentOf(r) = k
    BY <2>3, <2>4 DEF Sound
  <2> QED BY <2>1, <2>2, <2>5
<1>3. \A k : Single(P(k))
  BY PackedSingle
<1> HIDE DEF P
<1>4. \A a \in Merged(segs) : a \in P(a.segment) /\ a.generation = 0 /\ a.rowids # {}
  BY <1>1, <1>2
<1> QED BY <1>3, <1>4 DEF Single, Filled

-----------------------------------------------------------------------------
\* What a transaction adds to a segment at generation 0 takes the place of a row
\* that is committed, if it or the committed table says that there is one.
LEMMA TakesPlace ==
    ASSUME Inv, NEW t, Transaction(t), Generational(t), Filled(segments),
           NEW a \in t.added, a.generation = 0,
           ~t.advanced \/ \E s \in segments : s.segment = a.segment
    PROVE  \E x \in t.removed : x.segment = a.segment
<1>1. /\ Sound(rows, hwm, segments) /\ Sound(t.visible, t.hwm, Seen(t))
      /\ t.removed \subseteq t.base \cap segments
  BY DEF Inv, Transaction, SnapshotInv, ChangesInv
<1>2. CASE ~t.advanced
  <2>1. PICK r \in a.rowids : TRUE
    BY DEF Generational, AddedInv, Filled
  <2>2. r \in Posted(t.removed)
    BY <1>2, PostedIs DEF Transaction, ChangesInv
  <2>3. PICK x \in t.removed : r \in x.rowids
    BY <2>2, PostedIs
  <2>4. a.segment = SegmentOf(r)
    BY <1>1 DEF Sound, Seen
  <2>5. x.segment = SegmentOf(r)
    BY <1>1, <2>3 DEF Sound
  <2> QED BY <2>3, <2>4, <2>5
<1>3. CASE t.advanced
  <2>1. PICK s \in segments : s.segment = a.segment
    BY <1>3
  <2>2. PICK r \in s.rowids : TRUE
    BY DEF Filled
  <2>3. ~t.moved
    BY <1>3 DEF Transaction, SnapshotInv
  <2>4. r \in Posted(t.base)
    BY <2>2, <2>3, PostedIs DEF Generational, OvertakenInv
  <2>5. PICK y \in t.base : r \in y.rowids
    BY <2>4, PostedIs
  <2>6. y.segment = SegmentOf(r)
    BY <1>1, <2>5 DEF Sound, Seen
  <2>7. s.segment = SegmentOf(r)
    BY <1>1, <2>2 DEF Sound
  <2>8. y \in t.removed
    BY <2>1, <2>6, <2>7 DEF Generational, AddedInv
  <2> QED BY <2>1, <2>6, <2>7, <2>8
<1> QED BY <1>2, <1>3

\* Two transactions do not both add to a segment at generation 0.
LEMMA AddedApart ==
    ASSUME Inv, NEW t, NEW u, Transaction(t), Generational(t), Transaction(u), Generational(u),
           Filled(segments), Nested(t, u),
           t.removed \cap u.removed = {}, ~(t.advanced /\ u.advanced),
           NEW a \in t.added, a.generation = 0, NEW b \in u.added, b.generation = 0,
           a.segment = b.segment
    PROVE  FALSE
<1>1. /\ t.removed \subseteq t.base \cap segments /\ u.removed \subseteq u.base \cap segments
      /\ t.removed \cap t.replaced = {} /\ u.removed \cap u.replaced = {}
      /\ \A s \in t.base : s.segment = a.segment => s \in t.removed
      /\ \A s \in u.base : s.segment = a.segment => s \in u.removed
  BY DEF Transaction, SnapshotInv, Generational, AddedInv
<1>2. (\E x \in t.removed : x.segment = a.segment) /\ (\E z \in u.removed : z.segment = a.segment)
  <2>1. CASE ~t.advanced
    <3>1. PICK x \in t.removed : x.segment = a.segment
      BY <2>1, TakesPlace
    <3>2. \E z \in u.removed : z.segment = b.segment
      BY <1>1, <3>1, TakesPlace
    <3> QED BY <3>1, <3>2
  <2>2. CASE ~u.advanced
    <3>1. PICK z \in u.removed : z.segment = b.segment
      BY <2>2, TakesPlace
    <3>2. \E x \in t.removed : x.segment = a.segment
      BY <1>1, <3>1, TakesPlace
    <3> QED BY <3>1, <3>2
  <2> QED BY <2>1, <2>2
<1> QED BY <1>1, <1>2 DEF Nested

\* The committed table after a commit has one row of each generation in a segment.
LEMMA CommitDistinct ==
    ASSUME Inv, NEW t, Transaction(t), Generational(t), Filled(segments), Distinct(segments)
    PROVE  LET segs == (segments \ t.removed) \union t.added
           IN  Filled(segs) /\ Distinct(segs)
<1>1. ASSUME NEW s \in segments \ t.removed, NEW a \in t.added,
             s.segment = a.segment, s.generation = a.generation
      PROVE  s = a
  <2>1. CASE s \in t.base
    BY <1>1, <2>1 DEF Generational, AddedInv, Distinct, Seen
  <2>2. CASE s \notin t.base /\ a.generation # 0
    <3>1. t.advanced
      BY <2>2 DEF Generational, AddedInv
    <3>2. ~t.moved
      BY <3>1 DEF Transaction, SnapshotInv
    <3> QED BY <1>1, <2>2, <3>2 DEF Generational, OvertakenInv
  <2>3. CASE s \notin t.base /\ a.generation = 0
    <3>1. PICK x \in t.removed : x.segment = a.segment
      BY <1>1, <2>3, TakesPlace
    <3>2. x \in t.base
      BY DEF Transaction, SnapshotInv
    <3>3. PICK z \in t.base \cap t.replaced : z.segment = s.segment
      BY <1>1, <2>3, <3>1, <3>2 DEF Generational, OvertakenInv
    <3>4. z \in t.removed
      BY <1>1, <2>3, <3>3 DEF Generational, AddedInv
    <3> QED BY <3>3, <3>4 DEF Generational, AddedInv
  <2> QED BY <2>1, <2>2, <2>3
<1>2. Distinct(t.added) /\ Filled(t.added)
  BY DEF Generational, AddedInv, Distinct, Seen
<1> QED BY <1>1, <1>2 DEF Distinct, Filled

\* A commit that leaves the mark where it was leaves a table with one row in each
\* segment so.
LEMMA CommitSingle ==
    ASSUME Inv, NEW t, Transaction(t), Generational(t), Filled(segments), Single(segments),
           t.advanced => t.hwm = hwm
    PROVE  Single((segments \ t.removed) \union t.added)
<1>1. /\ Sound(t.visible, t.hwm, Seen(t)) /\ t.added \subseteq Seen(t)
      /\ t.removed \subseteq segments
  BY DEF Transaction, SnapshotInv, ChangesInv, Seen
<1>2. ASSUME NEW a \in t.added PROVE a.generation = 0
  <2> SUFFICES ASSUME a.generation # 0 PROVE FALSE
    OBVIOUS
  <2>1. PICK r \in a.rowids : TRUE
    BY DEF Generational, AddedInv, Filled
  <2>2. hwm < r /\ t.hwm = hwm
    BY <2>1 DEF Generational, AddedInv
  <2>3. r \in Rowid /\ r <= t.hwm
    BY <1>1, <2>1 DEF Sound, OneRowUnder
  <2>4. hwm \in Mark
    BY DEF Inv, TableInv
  <2> QED BY <2>2, <2>3, <2>4, MaintenanceConstants DEF Rowid, Mark
<1>3. ASSUME NEW s \in segments \ t.removed, NEW a \in t.added, s.segment = a.segment
      PROVE  FALSE
  <2>1. PICK x \in t.removed : x.segment = a.segment
    BY <1>2, <1>3, TakesPlace
  <2> QED BY <1>1, <1>3, <2>1 DEF Single
<1>4. Single(t.added)
  BY <1>1, <1>2 DEF Generational, AddedInv, Distinct, Single
<1> QED BY <1>3, <1>4 DEF Single

\* A transaction stays in order when another one commits.
LEMMA OvertakenGenerational ==
    ASSUME Inv, NEW t, Transaction(t), Generational(t), Filled(segments),
           hwm' = IF t.advanced THEN t.hwm ELSE hwm,
           segments' = (segments \ t.removed) \union t.added,
           NEW o, Transaction(o), Generational(o), Nested(t, o), o.removed \cap t.removed = {},
           ~(t.advanced /\ o.advanced),
           NEW m, m.base = o.base, m.hwm = o.hwm,
           m.removed = o.removed, m.added = o.added, m.advanced = o.advanced,
           m.replaced = o.replaced \union (o.base \cap t.removed),
           m.moved <=> (o.moved \/ t.advanced)
    PROVE  Generational(m)'
<1>1. AddedInv(o) /\ OvertakenInv(o) /\ AddedInv(t)
  BY DEF Generational
<1>2. AddedInv(m)'
  <2>1. Seen(m) = Seen(o)
    BY DEF Seen
  <2>2. m.removed \cap m.replaced = {}
    BY <1>1 DEF AddedInv
  <2>3. o.advanced => hwm' = hwm
    OBVIOUS
  <2> QED BY <1>1, <2>1, <2>2, <2>3 DEF AddedInv
<1>3. m.moved \/ (/\ Posted(segments') \subseteq Posted(m.base)
                  /\ \A s \in segments' \ m.base : s.generation = 0)
  <2> SUFFICES ASSUME ~o.moved, ~t.advanced
               PROVE  /\ Posted(segments') \subseteq Posted(o.base)
                      /\ \A s \in segments' \ o.base : s.generation = 0
    OBVIOUS
  <2>1. Posted(segments) \subseteq Posted(o.base) /\ \A s \in segments \ o.base : s.generation = 0
    BY <1>1 DEF OvertakenInv
  <2>2. \A a \in t.added : a.generation = 0
    BY <1>1 DEF AddedInv
  <2>3. \A r \in Posted(t.added) : r \in Posted(t.removed)
    BY DEF Transaction, ChangesInv
  <2>4. t.removed \subseteq segments
    BY DEF Transaction, SnapshotInv
  <2>5. ASSUME NEW r \in Posted(segments') PROVE r \in Posted(segments)
    <3>1. PICK s \in segments' : r \in s.rowids
      BY <2>5, PostedIs
    <3>2. CASE s \in segments
      BY <3>1, <3>2, PostedIs
    <3>3. CASE s \in t.added
      BY <2>3, <2>4, <3>1, <3>3, PostedIs
    <3> QED BY <3>2, <3>3
  <2> QED BY <2>1, <2>2, <2>5
<1>4. ASSUME NEW s \in segments' \ o.base, NEW y \in o.base, s.generation = 0, y.segment = s.segment
      PROVE  \E z \in m.base \cap m.replaced : z.segment = s.segment
  <2>1. CASE s \in segments
    BY <1>1, <1>4, <2>1 DEF OvertakenInv
  <2>2. CASE y \in o.replaced
    BY <1>4, <2>2
  <2>3. CASE s \in t.added /\ y \notin o.replaced
    <3>1. y \in segments
      BY <2>3 DEF Transaction, SnapshotInv
    <3>2. PICK x \in t.removed : x.segment = s.segment
      BY <1>4, <2>3, <3>1, TakesPlace
    <3>3. x \in t.base /\ x \notin t.replaced
      BY <1>1, <3>2 DEF Transaction, SnapshotInv, AddedInv
    <3>4. CASE o.base \ o.replaced \subseteq t.base
      <4>1. y \in t.removed
        BY <1>1, <1>4, <2>3, <3>4 DEF AddedInv
      <4> QED BY <1>4, <4>1
    <3>5. CASE t.base \ t.replaced \subseteq o.base
      BY <3>2, <3>3, <3>5
    <3> QED BY <3>4, <3>5 DEF Nested
  <2> QED BY <2>1, <2>2, <2>3
<1>5. OvertakenInv(m)'
  BY <1>1, <1>3, <1>4 DEF OvertakenInv
<1> QED BY <1>2, <1>5 DEF Generational

-----------------------------------------------------------------------------
\* What Generational and Nested say of a transaction is what these fields say.
LEMMA SameChanges ==
    ASSUME NEW t, Generational(t), NEW n, n.base = t.base, n.removed = t.removed,
           n.added = t.added, n.advanced = t.advanced, n.replaced = t.replaced,
           n.moved = t.moved
    PROVE  Generational(n) /\ Seen(n) = Seen(t)
<1>1. Seen(n) = Seen(t)
  BY DEF Seen
<1>2. AddedInv(n)
  BY <1>1 DEF Generational, AddedInv
<1>3. OvertakenInv(n)
  BY DEF Generational, OvertakenInv
<1> QED BY <1>1, <1>2, <1>3 DEF Generational

\* A step that changes one connection keeps the invariant if it leaves it in
\* order.
LEMMA OneGenerational ==
    ASSUME Inv, GenerationInv, NEW c \in Conns, NEW n,
           conn' = [conn EXCEPT ![c] = n], UNCHANGED <<hwm, segments>>,
           n.open => Generational(n) /\ \A d \in Conns \ {c} : conn[d].open => Nested(n, conn[d]),
           MergeInv(n)
    PROVE  GenerationInv'
<1>1. conn'[c] = n /\ \A d \in Conns \ {c} : conn'[d] = conn[d]
  BY DEF Inv
<1>2. \A x : Generational(x) => Generational(x)'
  BY DEF Generational, AddedInv, OvertakenInv
<1>3. \A x : MergeInv(x) => MergeInv(x)'
  BY DEF MergeInv
<1>4. ASSUME NEW d \in Conns PROVE (conn[d].open => Generational(conn[d]))' /\ MergeInv(conn[d])'
  BY <1>1, <1>2, <1>3 DEF GenerationInv
<1>5. ASSUME NEW d \in Conns, NEW e \in Conns, conn'[d].open, conn'[e].open
      PROVE  Nested(conn'[d], conn'[e])
  <2>1. CASE d = e
    BY <2>1 DEF Nested
  <2>2. CASE d # e /\ d = c
    BY <1>1, <1>5, <2>2
  <2>3. CASE d # e /\ e = c
    BY <1>1, <1>5, <2>3 DEF Nested
  <2>4. CASE d # c /\ e # c
    BY <1>1, <1>5, <2>4 DEF GenerationInv
  <2> QED BY <2>1, <2>2, <2>3, <2>4
<1> QED BY <1>4, <1>5 DEF GenerationInv, Filled, Distinct

\* A snapshot just taken.
LEMMA SnapshotGenerational ==
    ASSUME Inv, GenerationInv
    PROVE  /\ Generational(Snapshot) /\ Seen(Snapshot) = segments /\ Snapshot.hwm = hwm
           /\ \A d \in Conns : conn[d].open => Nested(Snapshot, conn[d])
<1> DEFINE t == Snapshot
<1>1. /\ t.open = TRUE /\ t.hwm = hwm /\ t.base = segments
      /\ t.removed = {} /\ t.added = {} /\ t.advanced = FALSE /\ t.replaced = {}
      /\ t.moved = FALSE
  BY DEF Snapshot, Unwritten
<1> HIDE DEF t
<1>2. IsFiniteSet(segments)
  BY SoundFinite DEF Inv, GenerationInv
<1>3. Seen(t) = segments
  BY <1>1 DEF Seen
<1>4. AddedInv(t)
  BY <1>1, <1>3 DEF AddedInv, GenerationInv, Filled
<1>5. OvertakenInv(t)
  BY <1>1, <1>2 DEF OvertakenInv, GenerationInv
<1>6. ASSUME NEW d \in Conns, conn[d].open PROVE Nested(t, conn[d])
  <2>1. conn[d].base \ conn[d].replaced \subseteq segments
    BY <1>6 DEF Inv, Transaction, SnapshotInv
  <2> QED BY <1>1, <2>1 DEF Nested
<1> QED BY <1>1, <1>3, <1>4, <1>5, <1>6 DEF Generational, t

\* The transaction a script runs in.
LEMMA RunningGenerational ==
    ASSUME Inv, GenerationInv, NEW c \in Conns
    PROVE  /\ Generational(Running(c))
           /\ \A d \in Conns \ {c} : conn[d].open => Nested(Running(c), conn[d])
           /\ conn[c].open => Running(c) = conn[c]
           /\ ~conn[c].open => Seen(Running(c)) = segments /\ Running(c).hwm = hwm
<1>1. CASE conn[c].open
  <2>1. Running(c) = conn[c]
    BY <1>1 DEF Running
  <2> QED BY <1>1, <2>1 DEF GenerationInv
<1>2. CASE ~conn[c].open
  <2> DEFINE t == Running(c)
  <2>1. t = [Snapshot EXCEPT !.call = conn[c].call]
    BY <1>2 DEF Running
  <2>2. /\ t.base = Snapshot.base /\ t.removed = Snapshot.removed /\ t.added = Snapshot.added
        /\ t.advanced = Snapshot.advanced /\ t.replaced = Snapshot.replaced
        /\ t.moved = Snapshot.moved /\ t.hwm = Snapshot.hwm
    BY <2>1, SnapshotIs DEF Shape
  <2> HIDE DEF t
  <2>3. Generational(t) /\ Seen(t) = Seen(Snapshot)
    BY <2>2, SnapshotGenerational, SameChanges
  <2>4. \A d \in Conns \ {c} : conn[d].open => Nested(t, conn[d])
    BY <2>2, SnapshotGenerational DEF Nested
  <2> QED BY <1>2, <2>2, <2>3, <2>4, SnapshotGenerational DEF t
<1> QED BY <1>1, <1>2

\* A script that leaves its transaction in order.
LEMMA RanGenerational ==
    ASSUME Inv, GenerationInv, NEW c \in Conns, NEW t, Ran(c, t), Shape(t), Generational(t),
           \A d \in Conns \ {c} : conn[d].open => Nested(t, conn[d])
    PROVE  GenerationInv'
<1> DEFINE n == [t EXCEPT !.call = NoCall]
<1>1. /\ n.base = t.base /\ n.removed = t.removed /\ n.added = t.added
      /\ n.advanced = t.advanced /\ n.replaced = t.replaced
      /\ n.moved = t.moved /\ n.call = NoCall
  BY CallFields
<1>2. conn' = [conn EXCEPT ![c] = n] /\ UNCHANGED <<hwm, segments>>
  BY DEF Ran
<1> HIDE DEF n
<1>3. Generational(n)
  BY <1>1, SameChanges
<1>4. \A d \in Conns \ {c} : conn[d].open => Nested(n, conn[d])
  BY <1>1 DEF Nested
<1>5. MergeInv(n)
  BY <1>1 DEF MergeInv, NoCall
<1> QED BY <1>2, <1>3, <1>4, <1>5, OneGenerational
-----------------------------------------------------------------------------
LEMMA BeginGenerational ==
    ASSUME Inv, GenerationInv, NEW c \in Conns, Begin(c)
    PROVE  GenerationInv'
<1> DEFINE n == [Snapshot EXCEPT !.explicit = TRUE]
<1>1. conn' = [conn EXCEPT ![c] = n] /\ UNCHANGED <<hwm, segments>>
  BY DEF Begin
<1>2. /\ n.base = Snapshot.base /\ n.removed = Snapshot.removed /\ n.added = Snapshot.added
      /\ n.advanced = Snapshot.advanced /\ n.replaced = Snapshot.replaced
      /\ n.moved = Snapshot.moved /\ n.call = Snapshot.call
  BY SnapshotIs, SetExplicit
<1> HIDE DEF n
<1>3. Generational(n)
  BY <1>2, SnapshotGenerational, SameChanges
<1>4. \A d \in Conns \ {c} : conn[d].open => Nested(n, conn[d])
  BY <1>2, SnapshotGenerational DEF Nested
<1>5. MergeInv(n)
  BY <1>2, SnapshotIs DEF MergeInv, NoCall
<1> QED BY <1>1, <1>3, <1>4, <1>5, OneGenerational

LEMMA ExpandedGenerational ==
    ASSUME Inv, GenerationInv, NEW c \in Conns, NEW call, Expanded(c, call),
           NEW n, n = [conn[c] EXCEPT !.call = call], MergeInv(n)
    PROVE  GenerationInv'
<1>1. conn' = [conn EXCEPT ![c] = n] /\ UNCHANGED <<hwm, segments>>
  BY DEF Expanded
<1>2. /\ n.open = conn[c].open /\ n.base = conn[c].base /\ n.removed = conn[c].removed
      /\ n.added = conn[c].added
      /\ n.advanced = conn[c].advanced /\ n.replaced = conn[c].replaced
      /\ n.moved = conn[c].moved
  BY CallFields DEF Inv
<1>3. n.open => Generational(n)
  <2>1. conn[c].open => Generational(conn[c])
    BY DEF GenerationInv
  <2> QED BY <1>2, <2>1, SameChanges
<1>4. n.open => \A d \in Conns \ {c} : conn[d].open => Nested(n, conn[d])
  BY <1>2 DEF GenerationInv, Nested
<1> QED BY <1>1, <1>3, <1>4, OneGenerational

\* A merge whose script is to do nothing sees one generation, in every committed
\* row and in its snapshot.
LEMMA ExpandCompactGenerational ==
    ASSUME Inv, GenerationInv, NEW c \in Conns, NEW may \in BOOLEAN, NEW kind \in {"merge", "purge"},
           ExpandCompact(c, kind, may)
    PROVE  GenerationInv'
<1> DEFINE call == [kind |-> kind, hwm |-> Reading(c).hwm, bound_end |-> Unbounded,
                    fragmented |-> may]
           n == [conn[c] EXCEPT !.call = call]
<1>1. Expanded(c, call) /\ MayHoldFragmentedKeys(c, may)
  BY DEF ExpandCompact
<1>2. /\ call.kind = kind /\ call.hwm = Reading(c).hwm /\ call.fragmented = may
  OBVIOUS
<1> HIDE DEF call
<1>3. /\ n.open = conn[c].open /\ n.base = conn[c].base /\ n.removed = conn[c].removed
      /\ n.added = conn[c].added /\ n.call = call
  BY CallFields DEF Inv
<1> HIDE DEF n
<1>4. ASSUME ~may PROVE \/ n.open /\ Single(Seen(n))
                        \/ ~n.open /\ call.hwm \in Mark /\ call.hwm <= hwm /\ Single(segments)
  <2> DEFINE t == Reading(c)
             G == Generations(t.base \union segments)
  <2>1. t.added = {} /\ Cardinality(G) <= 1
    BY <1>1, <1>4 DEF MayHoldFragmentedKeys
  <2>2. t = IF conn[c].open THEN conn[c] ELSE Snapshot
    BY DEF Reading
  <2>3. Generational(t)
    BY <2>2, SnapshotGenerational DEF GenerationInv
  <2> HIDE DEF t
  <2>4. IsFiniteSet(t.base \union segments)
    <3>1. IsFiniteSet(t.base) /\ IsFiniteSet(segments)
      BY <2>3, SoundFinite DEF Inv, GenerationInv, Generational, OvertakenInv
    <3> QED BY <3>1, FS_Union
  <2>5. IsFiniteSet(G)
    BY <2>4, GenerationsFinite
  <2>6. ASSUME NEW s \in t.base \union segments, NEW u \in t.base \union segments
        PROVE  s.generation = u.generation
    <3>1. s.generation \in G /\ u.generation \in G
      BY DEF Generations
    <3> HIDE DEF G
    <3> QED BY <2>1, <2>5, <3>1, AtMostOne
  <2>7. CASE conn[c].open
    <3>1. Seen(n) \subseteq t.base /\ Seen(n) = Seen(t)
      BY <1>3, <2>1, <2>2, <2>7 DEF Seen
    <3>2. Single(Seen(n))
      BY <2>3, <2>6, <3>1 DEF Generational, AddedInv, Distinct, Single
    <3>3. n.open
      BY <1>3, <2>7
    <3> QED BY <3>2, <3>3
  <2>8. CASE ~conn[c].open
    <3>1. Single(segments)
      BY <2>6 DEF GenerationInv, Distinct, Single
    <3>2. call.hwm = hwm
      BY <1>2, <2>2, <2>8, SnapshotGenerational DEF t
    <3>3. hwm \in Mark /\ hwm <= hwm
      BY DEF Inv, TableInv, Mark
    <3> QED BY <1>3, <2>8, <3>1, <3>2, <3>3
  <2> QED BY <2>7, <2>8
<1>5. MergeInv(n)
  BY <1>2, <1>3, <1>4 DEF MergeInv
<1> QED BY <1>1, <1>5, ExpandedGenerational DEF n

LEMMA ExpandRefreshGenerational ==
    ASSUME Inv, GenerationInv, NEW c \in Conns, NEW bound_end, ExpandRefresh(c, bound_end)
    PROVE  GenerationInv'
<1> DEFINE call == [kind |-> IF Reading(c).hwm < allocated - 1 THEN "refresh" ELSE "report",
                    hwm |-> Reading(c).hwm, fragmented |-> FALSE,
                    bound_end |-> IF bound_end < allocated - 1 THEN bound_end ELSE Unbounded]
           n == [conn[c] EXCEPT !.call = call]
<1>1. Expanded(c, call)
  BY DEF ExpandRefresh
<1>2. call.kind # "merge"
  OBVIOUS
<1> HIDE DEF call
<1>3. n.call = call
  BY CallFields DEF Inv
<1>4. MergeInv(n)
  <2> HIDE DEF n
  <2> QED BY <1>2, <1>3 DEF MergeInv
<1> QED BY <1>1, <1>4, ExpandedGenerational

LEMMA ReportOnlyGenerational ==
    ASSUME Inv, GenerationInv, NEW c \in Conns, ReportOnly(c)
    PROVE  GenerationInv'
<1>1. Ran(c, Running(c))
  BY DEF ReportOnly
<1> QED BY <1>1, RunningIs, RunningGenerational, RanGenerational

\* A refresh adds past the mark, at a generation of its own.
LEMMA RunRefreshGenerational ==
    ASSUME Inv, GenerationInv, NEW c \in Conns, RunRefresh(c)
    PROVE  GenerationInv'
<1> DEFINE t == Running(c)
           mark == RefreshedHighWaterMark(t)
           g == NextGeneration(Seen(t))
           new == Packed(Increment(t), g)
           added == t.added \union new
           n == [t EXCEPT !.hwm = mark, !.advanced = TRUE, !.added = added]
<1>1. t.call.kind = "refresh" /\ t.hwm = t.call.hwm /\ ~t.moved /\ Ran(c, n)
  BY DEF RunRefresh, Unchanged, MayAdvance
<1>2. /\ Shape(t) /\ Transaction(t) /\ CallInv(t.call) /\ Generational(t)
      /\ \A d \in Conns \ {c} : conn[d].open => Nested(t, conn[d])
  BY RunningIs, RunningGenerational
<1>3. /\ n.open = t.open /\ n.visible = t.visible /\ n.hwm = mark
      /\ n.base = t.base /\ n.removed = t.removed /\ n.added = added
      /\ n.advanced = TRUE /\ n.replaced = t.replaced
      /\ n.moved = t.moved /\ n.call = t.call /\ Shape(n)
  <2> HIDE DEF t, mark, added
  <2> QED BY <1>2, RefreshFields
<1> HIDE DEF n, t
<1>4. Increment(t) = {r \in t.visible : t.hwm < r /\ r <= mark}
  BY <1>1, <1>2, RefreshedIs DEF Transaction
<1>5. \A r \in Increment(t) : hwm < r
  <2>1. hwm <= t.hwm /\ hwm \in Mark /\ t.hwm \in Mark /\ t.visible \subseteq Rowid
    BY <1>1, <1>2 DEF Transaction, SnapshotInv, Inv, TableInv
  <2> HIDE DEF mark
  <2> QED BY <1>4, <2>1, MaintenanceConstants DEF Rowid, Mark
<1> HIDE DEF mark
<1>6. Filled(Seen(t)) /\ Sound(t.visible, t.hwm, Seen(t))
  BY <1>2 DEF Transaction, ChangesInv, Generational, AddedInv, OvertakenInv, Filled, Seen
<1>7. g \in Nat \ {0} /\ \A s \in Seen(t) : s.generation < g
  BY <1>6, SoundFinite, NextGenerationIs
<1> HIDE DEF g
<1>8. /\ \A s \in new : s.generation = g
      /\ Single(new) /\ Filled(new)
  BY <1>7, PackedSingle
<1>9. \A a \in new : \A r \in a.rowids : hwm < r
  BY <1>5, PackedIs
<1> HIDE DEF new
<1>10. Seen(n) = Seen(t) \union new
  BY <1>3 DEF Seen
<1>11. Distinct(Seen(n))
  <2>1. ASSUME NEW s \in Seen(t), NEW u \in new PROVE s.generation # u.generation
    <3>1. s.generation \in Nat /\ s.generation < g /\ u.generation = g
      BY <1>6, <1>7, <1>8 DEF Filled
    <3> QED BY <3>1, <1>7
  <2>2. Distinct(Seen(t)) /\ Distinct(new)
    BY <1>2, <1>8 DEF Generational, AddedInv, Single, Distinct
  <2> QED BY <1>10, <2>1, <2>2 DEF Distinct
<1>12. AddedInv(n)
  <2>1. AddedInv(t)
    BY <1>2 DEF Generational
  <2>2. \A a \in new : a.generation # 0
    BY <1>7, <1>8
  <2> QED BY <1>3, <1>8, <1>9, <1>11, <2>1, <2>2 DEF AddedInv, Filled
<1>13. OvertakenInv(n)
  BY <1>2, <1>3 DEF Generational, OvertakenInv
<1>14. \A d \in Conns \ {c} : conn[d].open => Nested(n, conn[d])
  BY <1>2, <1>3 DEF Nested
<1> QED BY <1>1, <1>3, <1>12, <1>13, <1>14, RanGenerational DEF Generational

\* A compaction that rewrites rows rewrites all of a segment.
LEMMA CompactGenerational ==
    ASSUME Inv, GenerationInv, NEW c \in Conns, NEW t, Shape(t), Transaction(t), Generational(t),
           \A d \in Conns \ {c} : conn[d].open => Nested(t, conn[d]),
           NEW after, RunCompact(c, t, after), Replaces(t, after),
           \/ after = Seen(t)
           \/ Single(after) /\ Filled(after) /\ \A a \in after : a.generation = 0
    PROVE  GenerationInv'
<1> DEFINE changed == Seen(t) \ after
           removed == t.removed \union (changed \ t.added)
           added == (t.added \ changed) \union (after \ Seen(t))
           n == [t EXCEPT !.removed = removed, !.added = added]
<1>1. Ran(c, n) /\ (changed \ t.added) \cap t.replaced = {}
  BY DEF RunCompact, MayRemove
<1>2. /\ n.open = t.open /\ n.visible = t.visible /\ n.hwm = t.hwm
      /\ n.base = t.base /\ n.removed = removed /\ n.added = added
      /\ n.advanced = t.advanced /\ n.replaced = t.replaced
      /\ n.moved = t.moved /\ n.call = t.call /\ Shape(n)
  <2> HIDE DEF removed, added
  <2> QED BY CompactFields
<1>3. t.added \cap (t.base \ t.removed) = {} /\ AddedInv(t) /\ OvertakenInv(t)
  BY DEF Transaction, ChangesInv, Generational
<1> HIDE DEF n
<1>4. Seen(n) = after /\ added \cap (t.base \ removed) = {}
  BY <1>2, <1>3 DEF Seen
<1>5. AddedInv(n)
  <2>1. CASE after = Seen(t)
    <3>1. removed = t.removed /\ added = t.added
      BY <2>1
    <3> HIDE DEF removed, added
    <3> QED BY <1>2, <1>3, <1>4, <2>1, <3>1 DEF AddedInv
  <2>2. CASE Single(after) /\ Filled(after) /\ \A a \in after : a.generation = 0
    <3>1. added \subseteq after
      BY DEF Seen
    <3>2. removed \cap t.replaced = {}
      BY <1>1, <1>3 DEF AddedInv
    <3>3. Filled(added) /\ Distinct(after) /\ \A a \in added : a.generation = 0
      BY <2>2, <3>1 DEF Filled, Single, Distinct
    <3>4. ASSUME NEW a \in added, NEW s \in t.base, s.segment = a.segment, s \notin removed
          PROVE  FALSE
      <4>1. s \in Seen(t) /\ s \notin t.added
        BY <1>3, <3>4 DEF Seen
      <4>2. s \in after
        BY <3>4, <4>1
      <4>3. s = a
        BY <2>2, <3>1, <3>4, <4>2 DEF Single
      <4> QED BY <1>4, <3>4, <4>3
    <3> HIDE DEF removed, added
    <3> QED BY <1>2, <1>4, <3>2, <3>3, <3>4 DEF AddedInv
  <2> QED BY <2>1, <2>2
<1>6. OvertakenInv(n)
  BY <1>2, <1>3 DEF OvertakenInv
<1>7. \A d \in Conns \ {c} : conn[d].open => Nested(n, conn[d])
  BY <1>2 DEF Nested
<1> QED BY <1>1, <1>2, <1>5, <1>6, <1>7, RanGenerational DEF Generational

LEMMA RunMergeGenerational ==
    ASSUME Inv, GenerationInv, NEW c \in Conns, RunMerge(c)
    PROVE  GenerationInv'
<1> DEFINE t == Running(c)
           after == IF t.call.fragmented THEN Merged(Seen(t)) ELSE Seen(t)
<1>1. RunCompact(c, t, after)
  BY DEF RunMerge
<1>2. /\ Shape(t) /\ Transaction(t) /\ Generational(t)
      /\ \A d \in Conns \ {c} : conn[d].open => Nested(t, conn[d])
  BY RunningIs, RunningGenerational
<1> HIDE DEF t
<1>3. Sound(t.visible, t.hwm, Seen(t))
  BY <1>2 DEF Transaction, ChangesInv
<1>4. Replaces(t, Seen(t))
  BY <1>3 DEF Replaces
<1>5. Replaces(t, after)
  BY <1>3, <1>4, MergedReplaces
<1>6. \/ after = Seen(t)
      \/ Single(after) /\ Filled(after) /\ \A a \in after : a.generation = 0
  BY <1>3, MergedSingle
<1> HIDE DEF after
<1> QED BY <1>1, <1>2, <1>5, <1>6, CompactGenerational

LEMMA RunPurgeGenerational ==
    ASSUME Inv, GenerationInv, NEW c \in Conns, RunPurge(c)
    PROVE  GenerationInv'
<1> DEFINE t == Running(c)
           after == Purged(t)
           n == [t EXCEPT !.removed = t.base, !.added = after]
<1>1. (t.base \ t.removed) \cap t.replaced = {} /\ Ran(c, n)
  BY DEF RunPurge, MayRemove
<1>2. /\ Shape(t) /\ Transaction(t) /\ Generational(t)
      /\ \A d \in Conns \ {c} : conn[d].open => Nested(t, conn[d])
  BY RunningIs, RunningGenerational
<1>3. /\ n.open = t.open /\ n.visible = t.visible /\ n.hwm = t.hwm
      /\ n.base = t.base /\ n.removed = t.base /\ n.added = after
      /\ n.advanced = t.advanced /\ n.replaced = t.replaced
      /\ n.moved = t.moved /\ n.call = t.call /\ Shape(n)
  <2> HIDE DEF t, after
  <2> QED BY <1>2, CompactFields
<1>4. Single(after) /\ Filled(after) /\ \A a \in after : a.generation = 0
  BY PackedSingle DEF Purged
<1> HIDE DEF n, t, after
<1>5. Seen(n) = after
  BY <1>3 DEF Seen
<1>6. AddedInv(n)
  BY <1>1, <1>2, <1>3, <1>4, <1>5 DEF Generational, AddedInv, Single, Distinct
<1>7. OvertakenInv(n)
  BY <1>2, <1>3 DEF Generational, OvertakenInv
<1>8. \A d \in Conns \ {c} : conn[d].open => Nested(n, conn[d])
  BY <1>2, <1>3 DEF Nested
<1> QED BY <1>1, <1>3, <1>6, <1>7, <1>8, RanGenerational DEF Generational

LEMMA RollbackGenerational ==
    ASSUME Inv, GenerationInv, NEW c \in Conns, Rollback(c)
    PROVE  GenerationInv'
<1>1. conn' = [conn EXCEPT ![c] = Idle] /\ UNCHANGED <<hwm, segments>>
  BY DEF Rollback
<1>2. Idle.open = FALSE /\ Idle.call = NoCall
  BY DEF Idle, Unwritten
<1>3. MergeInv(Idle)
  BY <1>2 DEF MergeInv, NoCall
<1> QED BY <1>1, <1>2, <1>3, OneGenerational

LEMMA CommitGenerational ==
    ASSUME Inv, GenerationInv, NEW c \in Conns, Commit(c)
    PROVE  GenerationInv'
<1> DEFINE t == conn[c]
           moved(d) == conn[d].moved \/ t.advanced
           replaced(d) == conn[d].replaced \union (conn[d].base \cap t.removed)
           n(d) == [conn[d] EXCEPT !.moved = moved(d), !.replaced = replaced(d)]
<1>1. /\ t.open
      /\ hwm' = IF t.advanced THEN t.hwm ELSE hwm
      /\ segments' = (segments \ t.removed) \union t.added
  BY DEF Commit
<1>2. conn'[c] = Idle /\ \A d \in Conns \ {c} : conn'[d] = IF conn[d].open THEN n(d) ELSE conn[d]
  BY DEF Commit
<1>3. /\ Transaction(t) /\ Generational(t) /\ \A d \in Conns \ {c} : Apart(c, d)
      /\ Filled(segments) /\ Distinct(segments)
  BY <1>1 DEF Inv, GenerationInv
<1>4. Idle.open = FALSE /\ Idle.call = NoCall
  BY DEF Idle, Unwritten
<1>5. ASSUME NEW d \in Conns \ {c}, conn[d].open
      PROVE  LET m == n(d)
                 o == conn[d]
             IN  /\ m.open = o.open /\ m.visible = o.visible /\ m.hwm = o.hwm
                 /\ m.base = o.base /\ m.removed = o.removed /\ m.added = o.added
                 /\ m.advanced = o.advanced /\ m.replaced = replaced(d)
                 /\ m.moved = moved(d) /\ m.call = o.call /\ Shape(m)
  <2>1. Shape(conn[d])
    BY DEF Inv
  <2> HIDE DEF moved, replaced
  <2> QED BY <2>1, OvertakenFields
<1> HIDE DEF n
<1>6. ASSUME NEW d \in Conns \ {c}, conn[d].open, NEW m, m = n(d) PROVE Generational(m)'
  <2>1. Transaction(conn[d]) /\ Generational(conn[d]) /\ Nested(t, conn[d]) /\ Apart(c, d)
    BY <1>1, <1>3, <1>6 DEF Inv, GenerationInv
  <2>2. conn[d].removed \cap t.removed = {} /\ ~(t.advanced /\ conn[d].advanced)
    BY <2>1 DEF Apart
  <2> DEFINE o == conn[d]
  <2>3. /\ m.hwm = o.hwm
        /\ m.base = o.base /\ m.removed = o.removed /\ m.added = o.added
        /\ m.advanced = o.advanced /\ m.replaced = o.replaced \union (o.base \cap t.removed)
        /\ m.moved <=> (o.moved \/ t.advanced)
    BY <1>5, <1>6
  <2> HIDE DEF o, t
  <2>4. Transaction(o) /\ Generational(o) /\ Nested(t, o)
    BY <2>1 DEF o
  <2>5. o.removed \cap t.removed = {} /\ ~(t.advanced /\ o.advanced)
    BY <2>2 DEF o
  <2> QED BY <1>1, <1>3, <2>3, <2>4, <2>5, OvertakenGenerational
<1>7. ASSUME NEW d \in Conns, conn'[d].open PROVE Generational(conn[d])'
  <2>1. d # c /\ conn[d].open /\ conn'[d] = n(d)
    BY <1>2, <1>4, <1>7
  <2>2. ASSUME NEW m, m = conn'[d] PROVE AddedInv(m)' /\ OvertakenInv(m)'
    BY <1>6, <2>1, <2>2 DEF Generational
  <2> QED BY <2>2 DEF Generational, AddedInv, OvertakenInv
<1>8. ASSUME NEW d \in Conns, NEW e \in Conns, conn'[d].open, conn'[e].open
      PROVE  Nested(conn'[d], conn'[e])
  <2>1. /\ d # c /\ conn[d].open /\ conn'[d] = n(d)
        /\ e # c /\ conn[e].open /\ conn'[e] = n(e)
    BY <1>2, <1>4, <1>8
  <2>2. Nested(conn[d], conn[e])
    BY <2>1 DEF GenerationInv
  <2>3. /\ conn'[d].base = conn[d].base /\ conn[d].replaced \subseteq conn'[d].replaced
        /\ conn'[e].base = conn[e].base /\ conn[e].replaced \subseteq conn'[e].replaced
    BY <1>5, <2>1
  <2> QED BY <2>2, <2>3 DEF Nested
<1>9. hwm \in Mark /\ hwm' \in Mark /\ hwm <= hwm'
  <2>1. hwm \in Mark
    BY DEF Inv, TableInv
  <2> HIDE DEF t
  <2> QED BY <1>1, <1>3, <2>1, CommitSound
<1>10. ASSUME NEW d \in Conns, NEW m, m = conn'[d] PROVE MergeInv(m)'
  <2>1. CASE d = c
    BY <1>2, <1>4, <1>10, <2>1 DEF MergeInv, NoCall
  <2>2. CASE d # c /\ conn[d].open
    <3>1. /\ m.open = conn[d].open /\ m.call = conn[d].call
          /\ Seen(m) = Seen(conn[d])
      <4>1. m = n(d)
        BY <1>2, <1>10, <2>2
      <4>2. /\ m.open = conn[d].open /\ m.call = conn[d].call /\ m.base = conn[d].base
            /\ m.removed = conn[d].removed /\ m.added = conn[d].added
        BY <1>5, <2>2, <4>1
      <4> QED BY <4>2 DEF Seen
    <3> QED BY <2>2, <3>1 DEF GenerationInv, MergeInv
  <2>3. CASE d # c /\ ~conn[d].open
    <3>1. m = conn[d]
      BY <1>2, <1>10, <2>3
    <3>2. MergeInv(conn[d])
      BY DEF GenerationInv
    <3> DEFINE call == conn[d].call
    <3>3. ASSUME call.hwm \in Mark, call.hwm <= hwm, call.hwm = hwm => Single(segments),
                 call.hwm = hwm'
          PROVE  Single(segments')
      <4>1. hwm' = hwm
        BY <1>9, <3>3 DEF Mark
      <4>2. Single(segments)
        BY <3>3, <4>1
      <4>3. t.advanced => t.hwm = hwm
        BY <1>1, <4>1
      <4> HIDE DEF t
      <4> QED BY <1>1, <1>3, <4>2, <4>3, CommitSingle
    <3>4. ASSUME call.hwm \in Mark, call.hwm <= hwm PROVE call.hwm <= hwm'
      BY <1>9, <3>4 DEF Mark
    <3> QED BY <2>3, <3>1, <3>2, <3>3, <3>4 DEF MergeInv
  <2> QED BY <2>1, <2>2, <2>3
<1>11. Filled(segments') /\ Distinct(segments')
  <2> HIDE DEF t
  <2> QED BY <1>1, <1>3, CommitDistinct
<1>12. \A d \in Conns : MergeInv(conn[d])'
  BY <1>10 DEF MergeInv
<1> QED BY <1>7, <1>8, <1>11, <1>12 DEF GenerationInv, Filled, Distinct

LEMMA InitGenerational ==
    ASSUME Init
    PROVE  GenerationInv
<1>1. segments = Packed(rows, 0) /\ conn = [c \in Conns |-> Idle]
  BY DEF Init
<1>2. Single(segments) /\ Filled(segments)
  BY <1>1, PackedSingle
<1>3. Idle.open = FALSE /\ Idle.call = NoCall
  BY DEF Idle, Unwritten
<1>4. \A c \in Conns : ~conn[c].open /\ conn[c].call.kind # "merge"
  BY <1>1, <1>3 DEF NoCall
<1> QED BY <1>2, <1>4 DEF GenerationInv, MergeInv, Single, Distinct

\* Steps of the host change no part of it.
LEMMA SameGenerational ==
    ASSUME GenerationInv, UNCHANGED <<hwm, segments, conn>>
    PROVE  GenerationInv'
<1>1. \A c \in Conns : (conn[c].open => Generational(conn[c]))'
  BY DEF GenerationInv, Generational, AddedInv, OvertakenInv
<1>2. \A c \in Conns : MergeInv(conn[c])'
  BY DEF GenerationInv, MergeInv
<1>3. \A c, d \in Conns : (conn[c].open /\ conn[d].open => Nested(conn[c], conn[d]))'
  BY DEF GenerationInv
<1> QED BY <1>1, <1>2, <1>3 DEF GenerationInv, Filled, Distinct

LEMMA NextGenerational ==
    ASSUME Inv, GenerationInv, [Next]_vars
    PROVE  GenerationInv'
<1>1. CASE \E last \in allocated .. MaxRowid : Flush(last)
  BY <1>1, SameGenerational DEF Flush
<1>2. CASE FlushCommit \/ FlushReject \/ \E r \in rows : Delete(r)
  BY <1>2, SameGenerational DEF FlushCommit, FlushReject, Delete
<1>3. CASE UNCHANGED vars
  BY <1>3, SameGenerational DEF vars
<1>4. ASSUME NEW c \in Conns, Begin(c) PROVE GenerationInv'
  BY <1>4, BeginGenerational
<1>5. ASSUME NEW c \in Conns, NEW bound_end \in BoundEnds(c), ExpandRefresh(c, bound_end)
      PROVE  GenerationInv'
  BY <1>5, ExpandRefreshGenerational
<1>6. ASSUME NEW c \in Conns, NEW may \in BOOLEAN, ExpandCompact(c, "merge", may) PROVE GenerationInv'
  BY <1>6, ExpandCompactGenerational
<1>7. ASSUME NEW c \in Conns, ExpandCompact(c, "purge", TRUE) PROVE GenerationInv'
  BY <1>7, ExpandCompactGenerational
<1>8. ASSUME NEW c \in Conns, ReportOnly(c) PROVE GenerationInv'
  BY <1>8, ReportOnlyGenerational
<1>9. ASSUME NEW c \in Conns, RunRefresh(c) PROVE GenerationInv'
  BY <1>9, RunRefreshGenerational
<1>10. ASSUME NEW c \in Conns, RunMerge(c) PROVE GenerationInv'
  BY <1>10, RunMergeGenerational
<1>11. ASSUME NEW c \in Conns, RunPurge(c) PROVE GenerationInv'
  BY <1>11, RunPurgeGenerational
<1>12. ASSUME NEW c \in Conns, Rollback(c) PROVE GenerationInv'
  BY <1>12, RollbackGenerational
<1>13. ASSUME NEW c \in Conns, Commit(c) PROVE GenerationInv'
  BY <1>13, CommitGenerational
<1> QED
  BY <1>1, <1>2, <1>3, <1>4, <1>5, <1>6, <1>7, <1>8, <1>9, <1>10, <1>11, <1>12, <1>13 DEF Next

\* In every committed table a segment has one row of each generation, whatever
\* refreshes and compactions overlapped; and a merge that was told there is only
\* one generation has nothing to merge (maintenance_sql.cpp:277-282).
THEOREM GenerationInvariant == Spec => [](Inv /\ GenerationInv)
<1>1. Init => Inv /\ GenerationInv
  BY InitInv, InitGenerational
<1>2. Inv /\ GenerationInv /\ [Next]_vars => (Inv /\ GenerationInv)'
  BY NextKeeps, StutterKeeps, NextGenerational
<1> QED BY <1>1, <1>2, PTL DEF Spec

\* Once a merge ran, no key its transaction sees is fragmented.
THEOREM MergesComplete == Spec => MergeComplete
<1> DEFINE Step ==
      \A c \in Conns :
         conn[c].call.kind = "merge" /\ conn'[c].open /\ conn'[c].call = NoCall
            => Fragmented(Seen(conn'[c])) = {}
<1>1. ASSUME Inv, GenerationInv, Next PROVE Step
  <2> SUFFICES ASSUME NEW c \in Conns, conn[c].call.kind = "merge",
                      conn'[c].open, conn'[c].call = NoCall
               PROVE  Fragmented(Seen(conn'[c])) = {}
    OBVIOUS
  <2>1. conn[c].call # NoCall
    BY DEF NoCall
  <2> DEFINE t == Running(c)
             after == IF t.call.fragmented THEN Merged(Seen(t)) ELSE Seen(t)
             changed == Seen(t) \ after
             removed == t.removed \union (changed \ t.added)
             added == (t.added \ changed) \union (after \ Seen(t))
             n == [t EXCEPT !.removed = removed, !.added = added]
             m == [n EXCEPT !.call = NoCall]
  <2>2. /\ Shape(t) /\ Transaction(t) /\ t.call = conn[c].call /\ Sound(t.visible, t.hwm, Seen(t))
    BY <1>1, RunningIs DEF Transaction, ChangesInv
  <2>3. RunMerge(c)
    BY <1>1, <2>1, <2>2, OwnScript DEF ReportOnly, RunRefresh, RunPurge
  <2>4. /\ t.hwm = t.call.hwm /\ conn' = [conn EXCEPT ![c] = m]
        /\ (changed \ t.added) \cap t.replaced = {}
    BY <2>3 DEF RunMerge, RunCompact, Ran, MayRemove, Unchanged
  <2>5. Replaces(t, after)
    BY <2>2, MergedReplaces DEF Replaces
  <2>6. Single(after)
    <3>1. CASE t.call.fragmented
      BY <2>2, <3>1, MergedSingle
    <3>2. CASE ~t.call.fragmented /\ conn[c].open
      BY <1>1, <2>2, <3>2, RunningGenerational DEF GenerationInv, MergeInv
    <3>3. CASE ~t.call.fragmented /\ ~conn[c].open
      <4>1. Seen(t) = segments /\ t.hwm = hwm
        BY <1>1, <3>3, RunningGenerational
      <4>2. Single(segments)
        BY <1>1, <2>2, <2>4, <3>3, <4>1 DEF GenerationInv, MergeInv
      <4> QED BY <3>3, <4>1, <4>2
    <3> QED BY <3>1, <3>2, <3>3
  <2> HIDE DEF t, after
  <2>7. Shape(n) /\ Seen(n) = after
    BY <1>1, <2>2, <2>4, <2>5, CompactKeeps
  <2> HIDE DEF n
  <2>8. m.base = n.base /\ m.removed = n.removed /\ m.added = n.added
    BY <2>7, CallFields
  <2>9. conn'[c] = m
    BY <1>1, <2>4 DEF Inv
  <2> HIDE DEF m
  <2>10. Seen(conn'[c]) = after
    BY <2>7, <2>8, <2>9 DEF Seen
  <2> QED BY <2>6, <2>10, SingleUnfragmented
<1>2. (Inv /\ GenerationInv) /\ [Next]_vars => [Step]_vars
  BY <1>1
<1>3. MergeComplete <=> [][Step]_vars
  BY DEF MergeComplete
<1> QED BY <1>2, <1>3, GenerationInvariant, PTL DEF Spec
=============================================================================
