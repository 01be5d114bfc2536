-------------------------- MODULE IndexProbe_proofs --------------------------
(***************************************************************************)
(* A probe of any legal index hands out exactly the rows that hold every   *)
(* selected key, within the query's budget and within what it charged, and *)
(* reports no legal index malformed.                                       *)
(*                                                                         *)
(* The invariant has three parts.  While the workers read the segments     *)
(* table, every row of a claimed key was read or is still unread by one    *)
(* worker, and no row is both (ReadInv, CompleteInv): the spans of a key   *)
(* are apart and cover its rows (ScansOfKey).  What was charged is told by *)
(* a number of rows that, with the chunks counted and not charged yet,     *)
(* stays below the row limit (BudgetInv).  A plan is one of all the rows   *)
(* of its keys (Selection), so that the rows decoded so far are those that *)
(* hold the keys decoded so far (DecodeInv), and the posting counts it     *)
(* charged are the sizes of the lists.                                     *)
(***************************************************************************)
EXTENDS IndexProbe, FiniteSetTheorems, SequenceTheorems, NaturalsInduction, TLAPS

Places == 0 .. Len(SegmentsTable) - 1
Row(n) == SegmentsTable[n + 1]
Descriptors == {Descriptor(n) : n \in Places}

\* The segments table of a legal index: every row holds rowids of one segment
\* that have its key, every posting is in a row, and the rows of a key are apart.
TableInv ==
    /\ Hwm \in Int /\ Hwm >= -1
    /\ index.postings \in [0 .. Hwm -> SUBSET Keys]
    /\ index.budget \in Nat /\ index.columnRows \in Nat \ {0}
    /\ Len(SegmentsTable) \in Nat /\ DOMAIN SegmentsTable = 1 .. Len(SegmentsTable)
    /\ Committed \in 0 .. Len(SegmentsTable)
    /\ \A n \in Places : Row(n).key \in Keys /\ Row(n).segment \in Nat /\ Row(n).rowids # {}
    /\ \A n \in Places : \A r \in Row(n).rowids :
           /\ r \in 0 .. Hwm /\ r \div SEGMENT_ROWS = Row(n).segment
           /\ Row(n).key \in index.postings[r]
    /\ \A r \in 0 .. Hwm : \A k \in index.postings[r] :
           \E n \in Places : Row(n).key = k /\ r \in Row(n).rowids
    /\ \A m, n \in Places :
           m # n /\ Row(m).key = Row(n).key => Row(m).rowids \cap Row(n).rowids = {}

\* The rows a worker has still to read, and those it holds a count for.
Unread(w) == worker[w].left \union UNION {worker[w].scans[i] : i \in DOMAIN worker[w].scans}
Claimed(k) == \E j \in 1 .. Cardinality(Keys) : j <= cursor /\ Ascending(Keys)[j] = k

WorkerStates == [at : {"idle", "scan", "charge"}, key : Keys \union {0},
                 scans : Seq(SUBSET Places), left : SUBSET Places]

WorkersInv ==
    /\ cursor \in Nat /\ total_rows \in Nat /\ declined \in BOOLEAN
    /\ worker \in [Workers -> WorkerStates]
    /\ DOMAIN per_key = Keys /\ per_key = [k \in Keys |-> per_key[k]]
    /\ \A w \in Workers :
           /\ worker[w].at = "idle" => worker[w].left = {} /\ worker[w].scans = <<>>
           /\ worker[w].at = "charge" => worker[w].left # {}
    /\ outcome \in {"preflight", "planning", "declined", "probing", "done"}
    /\ outcome # "planning" => \A w \in Workers : worker[w].at = "idle"
    /\ outcome = "preflight" => cursor = 0 /\ reservation = 0 /\ total_rows = 0 /\ ~declined

ReadInv ==
    /\ \A w \in Workers : \A n \in Unread(w) :
           /\ Row(n).key = worker[w].key
           /\ Claimed(worker[w].key)
           /\ Descriptor(n) \notin per_key[worker[w].key]
    /\ \A w \in Workers : \A i \in DOMAIN worker[w].scans :
           /\ worker[w].scans[i] \cap worker[w].left = {}
           /\ \A j \in DOMAIN worker[w].scans : i # j => worker[w].scans[i] \cap worker[w].scans[j] = {}
    /\ \A v, w \in Workers : v # w => Unread(v) \cap Unread(w) = {}
    /\ \A k \in Keys : \A d \in per_key[k] : \E n \in Places : d = Descriptor(n) /\ Row(n).key = k
    /\ \A k \in Keys : ~Claimed(k) => per_key[k] = {}

CompleteInv ==
    /\ ~declined => \A n \in Places : Claimed(Row(n).key) =>
           Descriptor(n) \in per_key[Row(n).key] \/ \E w \in Workers : n \in Unread(w)
    /\ outcome = "planning" /\ cursor < Cardinality(Keys) => \E w \in Workers : worker[w].at # "idle"

Pending == UNION {{w} \X Chunk(w) : w \in {v \in Workers : worker[v].at = "charge"}}

BudgetInv ==
    /\ reservation \in Nat /\ reservation <= index.budget
    /\ outcome = "planning" =>
         /\ KeyBytes + PREFLIGHT_PER_WORKER <= index.budget
         /\ \E charged \in 0 .. total_rows :
              /\ reservation = Preflight + charged * MANIFEST_PER_ROW
              /\ Cardinality(UNION {per_key[k] : k \in Keys}) <= charged
              /\ charged + Cardinality(Pending) <= total_rows
              /\ charged + Cardinality(Pending) <= MaxManifestRows

\* The keys a plan was made for and the descriptors it kept of them: all there are.
Selection(rows, keys) ==
    /\ Len(keys) \in Nat \ {0} /\ DOMAIN keys = 1 .. Len(keys)
    /\ \A i \in DOMAIN keys : keys[i] \in Keys
    /\ rows = {Descriptor(n) : n \in {m \in Places : Row(m).key \in Range(keys)}}

AdmittedOf(rows, keys) == {s \in {d.segment : d \in rows} : Admits(rows, s, keys)}
PeakWorkerOf(rows, keys) ==
    Max({0} \union {SegmentWorkerBytes(Counts(rows, s, keys), SegmentCapacity(s, Hwm)) :
                        s \in AdmittedOf(rows, keys)})
PeakCandidatesOf(rows, keys) ==
    Max({0} \union {CandidateRows(rows, s, keys, Hwm) : s \in AdmittedOf(rows, keys)})
UpperBoundOf(rows, keys) ==
    Cardinality(UNION {{s} \X (1 .. CandidateBound(rows, s, keys, Hwm)) : s \in AdmittedOf(rows, keys)})

PlanInv == outcome \in {"probing", "done"} =>
    /\ Selection(plan.rows, plan.keys)
    /\ plan.segments = Ascending(AdmittedOf(plan.rows, plan.keys))
    /\ plan.worker = PeakWorkerOf(plan.rows, plan.keys)
    /\ plan.candidate = PeakCandidatesOf(plan.rows, plan.keys)
    /\ plan.bound = UpperBoundOf(plan.rows, plan.keys)

Holders(segment, keys) == {r \in 0 .. Hwm : r \div SEGMENT_ROWS = segment /\ keys \subseteq index.postings[r]}
First == PostingCount(plan.rows, Segment, Order[1])

ScratchInv ==
    /\ scratch \in [next : Nat, position : Nat, rowids : SUBSET (0 .. Hwm), candidates : Nat,
                     postings : Nat, intersection : Nat]
    /\ outcome \notin {"probing", "done"} => scratch = NoScratch /\ found = {}

DecodeInv == outcome \in {"probing", "done"} =>
    /\ scratch.next \in 1 .. Len(plan.segments) + 1
    /\ scratch.position \in 0 .. Len(plan.keys)
    /\ outcome = "done" => scratch.next > Len(plan.segments)
    /\ found = UNION {Holders(plan.segments[i], Range(plan.keys)) : i \in 1 .. scratch.next - 1}
    /\ scratch.position = 0 =>
          /\ scratch.postings = 0 /\ scratch.intersection = 0
          /\ scratch.candidates + SCRATCH <= Max({plan.worker, SCRATCH})
    /\ scratch.position > 0 =>
          /\ scratch.next <= Len(plan.segments)
          /\ scratch.rowids = Holders(Segment, {Order[q] : q \in 1 .. scratch.position})
          /\ scratch.candidates <= First /\ scratch.intersection <= First
          /\ scratch.intersection > 0 => MoreLists
          /\ \/ scratch.postings = 0 /\ scratch.intersection = 0
             \/ \E q \in 2 .. Len(plan.keys) : scratch.postings = PostingCount(plan.rows, Segment, Order[q])

ManifestInv == WorkersInv /\ ReadInv /\ CompleteInv /\ BudgetInv
IInv == TableInv /\ ManifestInv /\ PlanInv /\ ScratchInv /\ DecodeInv

-----------------------------------------------------------------------------
(* Order. *)

\* A nonempty set of naturals has a least element.
LEMMA Lowest ==
    ASSUME NEW S \in SUBSET Nat, S # {}
    PROVE  \E m \in S : \A r \in S : m <= r
<1> DEFINE R == {ss \in Nat \X Nat : ss[1] < ss[2]}
<1>1. IsWellFoundedOn(R, Nat)
  BY NatLessThanWellFounded, Zenon DEF OpToRel
<1>2. \A x, y \in Nat : y < x => <<y, x>> \in R
  OBVIOUS
<1>3. PICK x \in S : \A y \in S : ~(<<y, x>> \in R)
  <2> HIDE DEF R
  <2> QED BY <1>1, WFMin
<1>4. \A y \in S : ~(y < x)
  BY <1>2, <1>3
<1> QED BY <1>4

StrictOrder(S, before) ==
    /\ \A x \in S : <<x, x>> \notin before
    /\ \A x, y \in S : x # y => <<x, y>> \in before \/ <<y, x>> \in before
    /\ \A x, y, z \in S : <<x, y>> \in before /\ <<y, z>> \in before => <<x, z>> \in before

\* `list` has every element of S once, each before those that follow it.
Lists(list, S, before) ==
    /\ Cardinality(S) \in Nat
    /\ list \in Seq(S) /\ DOMAIN list = 1 .. Cardinality(S)
    /\ \A i \in 1 .. Cardinality(S) : list[i] \in S
    /\ \A x \in S : \E i \in 1 .. Cardinality(S) : list[i] = x
    /\ \A i, k \in 1 .. Cardinality(S) : i < k => <<list[i], list[k]>> \in before

\* Sorted lists a finite set.
LEMMA SortedLists ==
    ASSUME NEW S, IsFiniteSet(S), NEW before, StrictOrder(S, before)
    PROVE  Lists(Sorted(S, before), S, before)
<1> DEFINE Below(x) == {y \in S : <<y, x>> \in before}
           rank(x) == Cardinality(Below(x))
           size == Cardinality(S)
           A == Sorted(S, before)
<1>0. /\ \A x \in S : <<x, x>> \notin before
      /\ \A x, y \in S : x # y => <<x, y>> \in before \/ <<y, x>> \in before
      /\ \A x, y, z \in S : <<x, y>> \in before /\ <<y, z>> \in before => <<x, z>> \in before
  BY DEF StrictOrder
<1>1. size \in Nat
  BY FS_CardinalityType
<1>2. \A x \in S : IsFiniteSet(Below(x)) /\ rank(x) \in 0 .. size - 1 /\ rank(x) \in Int
  <2> TAKE x \in S
  <2>1. Below(x) \in SUBSET S /\ x \notin Below(x)
    BY <1>0
  <2>2. IsFiniteSet(Below(x)) /\ rank(x) <= size /\ (size = rank(x) => S = Below(x))
    BY <2>1, FS_Subset
  <2>3. rank(x) \in Nat
    BY <2>2, FS_CardinalityType
  <2>4. rank(x) # size
    BY <2>1, <2>2
  <2> HIDE DEF Below
  <2> QED BY <1>1, <2>2, <2>3, <2>4
<1>3. \A x, y \in S : <<x, y>> \in before => rank(x) < rank(y)
  <2> TAKE x \in S, y \in S
  <2> HAVE <<x, y>> \in before
  <2>1. Below(x) \in SUBSET Below(y) /\ x \in Below(y) /\ x \notin Below(x)
    BY <1>0
  <2>2. rank(x) <= rank(y) /\ (rank(y) = rank(x) => Below(y) = Below(x))
    BY <2>1, <1>2, FS_Subset
  <2>3. rank(x) # rank(y)
    BY <2>1, <2>2
  <2>4. rank(x) \in Int /\ rank(y) \in Int
    BY <1>2
  <2> HIDE DEF rank
  <2> QED BY <2>2, <2>3, <2>4
<1> HIDE DEF rank, size
<1>4. \A x, y \in S : rank(x) = rank(y) => x = y
  <2> TAKE x \in S, y \in S
  <2> HAVE rank(x) = rank(y)
  <2>1. rank(x) \in Int
    BY <1>2
  <2>2. ~(rank(x) < rank(y)) /\ ~(rank(y) < rank(x))
    BY <2>1
  <2> QED BY <2>2, <1>3, <1>0
<1>5. \A i \in 0 .. size - 1 : \E x \in S : rank(x) = i
  <2> DEFINE T == 0 .. size - 1
             f == [x \in S |-> rank(x)]
  <2>1. IsFiniteSet(T) /\ Cardinality(T) = size
    <3>1. 0 \in Int /\ size - 1 \in Int
      BY <1>1
    <3>2. IsFiniteSet(T) /\ Cardinality(T) = IF 0 > size - 1 THEN 0 ELSE size - 1 - 0 + 1
      BY <3>1, FS_Interval
    <3> QED BY <1>1, <3>2
  <2>2. f \in [S -> T]
    BY <1>2
  <2>3. f \in Injection(S, T)
    BY <2>2, <1>4 DEF Injection, IsInjective
  <2>4. f \in Surjection(S, T)
    BY <2>1, <2>3, FS_Injection DEF size
  <2> QED BY <2>4 DEF Surjection
<1>6. DOMAIN A = 1 .. size
  BY DEF Sorted, size
<1>7. \A i \in 1 .. size : A[i] \in S /\ rank(A[i]) = i - 1
  <2> TAKE i \in 1 .. size
  <2>1. i - 1 \in 0 .. size - 1
    BY <1>1
  <2>2. \E x \in S : rank(x) = i - 1
    BY <2>1, <1>5
  <2>3. A[i] = CHOOSE x \in S : rank(x) = i - 1
    BY DEF Sorted, size, rank
  <2> HIDE DEF A
  <2> QED BY <2>2, <2>3
<1>8. \A x \in S : \E i \in 1 .. size : A[i] = x
  <2> TAKE x \in S
  <2>0. rank(x) \in Int /\ rank(x) \in 0 .. size - 1
    BY <1>2
  <2>1. PICK i \in 1 .. size : rank(x) = i - 1
    <3>1. \A r \in Int : r \in 0 .. size - 1 => r + 1 \in 1 .. size /\ r = (r + 1) - 1
      BY <1>1
    <3> QED BY <2>0, <3>1
  <2>2. A[i] \in S /\ rank(A[i]) = rank(x)
    <3> HIDE DEF A
    <3> QED BY <1>7, <2>1
  <2> HIDE DEF A
  <2> QED BY <1>4, <2>1, <2>2
<1>9. \A i, k \in 1 .. size : i < k => <<A[i], A[k]>> \in before
  <2> TAKE i \in 1 .. size, k \in 1 .. size
  <2> HAVE i < k
  <2>1. A[i] \in S /\ A[k] \in S /\ rank(A[i]) < rank(A[k]) /\ rank(A[i]) \in Int
    <3> HIDE DEF A
    <3>1. A[i] \in S /\ A[k] \in S /\ rank(A[i]) = i - 1 /\ rank(A[k]) = k - 1
      BY <1>7
    <3> QED BY <1>1, <3>1
  <2>2. A[i] # A[k]
    <3> HIDE DEF A
    <3> QED BY <2>1
  <2>3. ~(<<A[k], A[i]>> \in before)
    <3>1. \A a, b \in Int : a < b => ~(b < a)
      OBVIOUS
    <3> HIDE DEF A
    <3>2. <<A[k], A[i]>> \in before => rank(A[k]) < rank(A[i])
      BY <1>3, <2>1
    <3>3. rank(A[k]) \in Int
      BY <1>2, <2>1
    <3> QED BY <2>1, <3>2, <3>3
  <2> HIDE DEF A
  <2> QED BY <1>0, <2>1, <2>2, <2>3
<1>10. A \in Seq(S)
  <2>1. A \in [1 .. size -> S]
    <3>1. A = [i \in 1 .. size |-> CHOOSE x \in S : rank(x) = i - 1]
      BY DEF Sorted, size, rank
    <3> HIDE DEF A
    <3>2. \A i \in 1 .. size : A[i] = CHOOSE x \in S : rank(x) = i - 1
      BY <3>1
    <3> QED BY <1>7, <3>1, <3>2
  <2> HIDE DEF A
  <2> QED BY <1>1, <2>1
<1> QED BY <1>1, <1>6, <1>7, <1>8, <1>9, <1>10 DEF size, Lists

\* The same of Ascending.
LEMMA AscendingLists ==
    ASSUME NEW S \in SUBSET Int, IsFiniteSet(S)
    PROVE  /\ Cardinality(S) \in Nat
           /\ DOMAIN Ascending(S) = 1 .. Cardinality(S)
           /\ Len(Ascending(S)) = Cardinality(S) /\ Ascending(S) \in Seq(S)
           /\ \A i \in 1 .. Cardinality(S) : Ascending(S)[i] \in S
           /\ \A x \in S : \E i \in 1 .. Cardinality(S) : Ascending(S)[i] = x
           /\ \A i, k \in 1 .. Cardinality(S) : i < k => Ascending(S)[i] < Ascending(S)[k]
<1> DEFINE before == {p \in S \X S : p[1] < p[2]}
<1>1. StrictOrder(S, before)
  BY DEF StrictOrder
<1>2. \A x \in S : Rank(S, x) = Cardinality({y \in S : <<y, x>> \in before})
  <2> TAKE x \in S
  <2>1. {y \in S : <<y, x>> \in before} = {m \in S : m < x}
    OBVIOUS
  <2> QED BY <2>1 DEF Rank
<1>3. ASSUME NEW i \in 1 .. Cardinality(S) PROVE Ascending(S)[i] = Sorted(S, before)[i]
  <2>1. Ascending(S)[i] = CHOOSE n \in S : Rank(S, n) = i - 1
    BY DEF Ascending
  <2>2. Sorted(S, before)[i] = CHOOSE x \in S : Cardinality({y \in S : <<y, x>> \in before}) = i - 1
    BY DEF Sorted
  <2> HIDE DEF before
  <2> QED BY <2>1, <2>2, <1>2
<1>4. \A x, y \in S : <<x, y>> \in before => x < y
  OBVIOUS
<1> HIDE DEF before
<1>8. Lists(Sorted(S, before), S, before)
  BY <1>1, SortedLists
<1>9. DOMAIN Ascending(S) = 1 .. Cardinality(S)
  BY DEF Ascending
<1>5. /\ Cardinality(S) \in Nat
      /\ DOMAIN Ascending(S) = 1 .. Cardinality(S)
      /\ \A i \in 1 .. Cardinality(S) : Ascending(S)[i] \in S
      /\ \A x \in S : \E i \in 1 .. Cardinality(S) : Ascending(S)[i] = x
      /\ \A i, k \in 1 .. Cardinality(S) :
             i < k => <<Ascending(S)[i], Ascending(S)[k]>> \in before
  BY <1>3, <1>8, <1>9 DEF Lists
<1>6. Len(Ascending(S)) = Cardinality(S)
  BY <1>5
<1>7. Ascending(S) \in Seq(S)
  <2>1. Ascending(S) = [i \in 1 .. Cardinality(S) |-> CHOOSE n \in S : Rank(S, n) = i - 1]
    BY DEF Ascending
  <2>2. Ascending(S) \in [1 .. Cardinality(S) -> S]
    <3>1. \A i \in 1 .. Cardinality(S) : Ascending(S)[i] = CHOOSE n \in S : Rank(S, n) = i - 1
      BY <2>1
    <3> QED BY <1>5, <2>1, <3>1
  <2> QED BY <1>5, <2>2
<1> QED BY <1>4, <1>5, <1>6, <1>7

\* A finite set of numbers has a least and a greatest element.
LEMMA MinMaxOf ==
    ASSUME NEW S \in SUBSET Int, IsFiniteSet(S), S # {}
    PROVE  /\ Min(S) \in S /\ Min(S) \in Int /\ \A x \in S : Min(S) <= x
           /\ Max(S) \in S /\ Max(S) \in Int /\ \A x \in S : x <= Max(S)
<1> DEFINE A == Ascending(S)
           n == Cardinality(S)
<1>1. /\ n \in Nat /\ \A i \in 1 .. n : A[i] \in S
      /\ \A x \in S : \E i \in 1 .. n : A[i] = x
      /\ \A i, k \in 1 .. n : i < k => A[i] < A[k]
  BY AscendingLists
<1> HIDE DEF A, n
<1>2. n \in Nat \ {0} /\ 1 \in 1 .. n /\ n \in 1 .. n
  <2>1. PICK x \in S : TRUE
    OBVIOUS
  <2>2. PICK i \in 1 .. n : A[i] = x
    BY <1>1, <2>1
  <2> QED BY <1>1, <2>2
<1>3. \A x \in S : A[1] <= x /\ x <= A[n]
  <2> TAKE x \in S
  <2>1. PICK i \in 1 .. n : A[i] = x
    BY <1>1
  <2>2. A[1] \in Int /\ A[n] \in Int /\ x \in Int
    BY <1>1, <1>2
  <2>3. (i = 1 \/ 1 < i) /\ (i = n \/ i < n)
    BY <1>2
  <2> QED BY <1>1, <1>2, <2>1, <2>2, <2>3
<1>4. \E x \in S : \A y \in S : x <= y
  BY <1>1, <1>2, <1>3
<1>5. \E x \in S : \A y \in S : y <= x
  BY <1>1, <1>2, <1>3
<1>6. \E x \in S : \A y \in S : x >= y
  BY <1>5
<1>7. Min(S) \in S /\ \A x \in S : Min(S) <= x
  BY <1>4 DEF Min
<1>8. Max(S) \in S /\ \A x \in S : Max(S) >= x
  BY <1>6 DEF Max
<1> QED BY <1>7, <1>8

\* The lesser and the greater of two numbers.
LEMMA PairMinMax ==
    ASSUME NEW a \in Int, NEW b \in Int
    PROVE  /\ Min({a, b}) = IF a <= b THEN a ELSE b
           /\ Max({a, b}) = IF a <= b THEN b ELSE a
<1>1. IsFiniteSet({a, b})
  <2>1. {a, b} = {a} \cup {b}
    OBVIOUS
  <2>2. IsFiniteSet({a})
    BY FS_Singleton
  <2>3. IsFiniteSet({a} \cup {b})
    BY <2>2, FS_AddElement
  <2> QED BY <2>1, <2>3
<1>2. {a, b} \in SUBSET Int /\ {a, b} # {}
  OBVIOUS
<1>3. /\ Min({a, b}) \in {a, b} /\ Min({a, b}) \in Int /\ \A x \in {a, b} : Min({a, b}) <= x
      /\ Max({a, b}) \in {a, b} /\ Max({a, b}) \in Int /\ \A x \in {a, b} : x <= Max({a, b})
  BY <1>1, <1>2, MinMaxOf
<1> QED BY <1>3

\* The least of three numbers.
LEMMA TripleMinMax ==
    ASSUME NEW a \in Int, NEW b \in Int, NEW c \in Int
    PROVE  /\ Min({a, b, c}) \in {a, b, c} /\ Min({a, b, c}) \in Int
           /\ Min({a, b, c}) <= a /\ Min({a, b, c}) <= b /\ Min({a, b, c}) <= c
<1>1. IsFiniteSet({a, b, c})
  <2>1. {a, b, c} = ({a} \cup {b}) \cup {c}
    OBVIOUS
  <2>2. IsFiniteSet({a})
    BY FS_Singleton
  <2>3. IsFiniteSet({a} \cup {b})
    BY <2>2, FS_AddElement
  <2>4. IsFiniteSet(({a} \cup {b}) \cup {c})
    BY <2>3, FS_AddElement
  <2> QED BY <2>1, <2>4
<1>2. {a, b, c} \in SUBSET Int /\ {a, b, c} # {}
  OBVIOUS
<1> QED BY <1>1, <1>2, MinMaxOf

-----------------------------------------------------------------------------
(* The segments table. *)

\* A refresh's rows: each holds rowids of one segment that have its key, every
\* posting is in one, and two rows of a key share no rowid.
RefreshRows(run, postings, rowids) ==
    /\ \E T : run \in Seq(T)
    /\ \A i \in DOMAIN run :
           /\ run[i].key \in Keys /\ run[i].segment \in Nat /\ run[i].rowids # {}
           /\ \A r \in run[i].rowids : /\ r \in rowids /\ r \div SEGMENT_ROWS = run[i].segment
                                       /\ run[i].key \in postings[r]
    /\ \A r \in rowids : \A k \in postings[r] : \E i \in DOMAIN run : run[i].key = k /\ r \in run[i].rowids
    /\ \A i, j \in DOMAIN run : i # j /\ run[i].key = run[j].key => run[i].rowids \cap run[j].rowids = {}

\* A refresh posts each of its rows once under each of the row's keys.
LEMMA RunRows ==
    ASSUME NEW postings, NEW size \in Nat, postings \in [0 .. size - 1 -> SUBSET Keys],
           NEW rowids \in SUBSET (0 .. size - 1)
    PROVE  RefreshRows(Run(postings, rowids), postings, rowids)
<1> DEFINE Of2(s, k) == [segment |-> s, key |-> k,
                         rowids |-> {q \in rowids : k \in postings[q] /\ q \div SEGMENT_ROWS = s}]
           rows == {Of2(r \div SEGMENT_ROWS, k) : r \in rowids, k \in Keys}
           posted == {row \in rows : row.rowids # {}}
           before == {p \in posted \X posted :
                        p[1].key < p[2].key \/ (p[1].key = p[2].key /\ p[1].segment < p[2].segment)}
           run == Run(postings, rowids)
<1>1. run = Sorted(posted, before)
  BY DEF Run
<1>2. SEGMENT_ROWS \in Nat \ {0} /\ IsFiniteSet(Keys) /\ Keys \subseteq Int
  BY AdmissionConstants, ProbeConstants
<1>3. \A r \in rowids : r \in Nat /\ r \div SEGMENT_ROWS \in Nat
  BY <1>2
<1>4. \A row \in rows : \E s \in Nat, k \in Keys : row = Of2(s, k)
  BY <1>3
<1>5. \A r \in rowids, k \in Keys : Of2(r \div SEGMENT_ROWS, k) \in rows
  <2> HIDE DEF Of2
  <2> QED OBVIOUS
<1>6. IsFiniteSet(rows)
  <2> DEFINE f == [p \in rowids \X Keys |-> Of2(p[1] \div SEGMENT_ROWS, p[2])]
  <2>1. IsFiniteSet(rowids)
    <3>1. IsFiniteSet(0 .. size - 1)
      BY FS_Interval
    <3> QED BY <3>1, FS_Subset
  <2>2. IsFiniteSet(rowids \X Keys)
    BY <1>2, <2>1, FS_Product
  <2>3. f \in Surjection(rowids \X Keys, rows)
    <3>1. f \in [rowids \X Keys -> rows]
      <4> HIDE DEF rows, Of2
      <4> QED BY <1>5
    <3>2. \A row \in rows : \E p \in rowids \X Keys : f[p] = row
      <4> TAKE row \in rows
      <4>1. PICK r \in rowids, k \in Keys : row = Of2(r \div SEGMENT_ROWS, k)
        <5> HIDE DEF Of2, f
        <5> QED OBVIOUS
      <4>2. <<r, k>> \in rowids \X Keys /\ f[<<r, k>>] = Of2(r \div SEGMENT_ROWS, k)
        <5> HIDE DEF Of2
        <5> QED OBVIOUS
      <4> HIDE DEF f, rows, Of2
      <4> QED BY <4>1, <4>2
    <3> HIDE DEF f, rows
    <3> QED BY <3>1, <3>2 DEF Surjection
  <2> HIDE DEF f, rows
  <2> QED BY <2>2, <2>3, FS_Surjection
<1>7. IsFiniteSet(posted) /\ posted \in SUBSET rows
  <2>1. posted \in SUBSET rows
    OBVIOUS
  <2> HIDE DEF posted, rows
  <2> QED BY <1>6, <2>1, FS_Subset
<1>8. \A x \in posted : /\ x.key \in Keys /\ x.key \in Int /\ x.segment \in Nat /\ x.rowids # {}
                        /\ x = Of2(x.segment, x.key)
                        /\ \A r \in x.rowids : r \in rowids /\ x.key \in postings[r] /\ r \div SEGMENT_ROWS = x.segment
  <2> TAKE x \in posted
  <2>1. x \in rows /\ x.rowids # {}
    OBVIOUS
  <2>2. PICK s \in Nat, k \in Keys : x = Of2(s, k)
    <3> HIDE DEF Of2, rows, posted
    <3> QED BY <1>4, <2>1
  <2>3. x.segment = s /\ x.key = k /\ x.rowids = {q \in rowids : k \in postings[q] /\ q \div SEGMENT_ROWS = s}
    BY <2>2
  <2>4. x = Of2(x.segment, x.key)
    BY <2>2, <2>3
  <2> HIDE DEF rows, posted
  <2> QED BY <1>2, <2>1, <2>3, <2>4
<1>9. StrictOrder(posted, before)
  <2>1. \A x, y \in posted : <<x, y>> \in before <=>
           x.key < y.key \/ (x.key = y.key /\ x.segment < y.segment)
    <3> HIDE DEF posted
    <3> QED OBVIOUS
  <2>2. \A x, y \in posted : x.key = y.key /\ x.segment = y.segment => x = y
    <3> HIDE DEF posted, Of2
    <3> QED BY <1>8
  <2>3. \A x \in posted : x.key \in Int /\ x.segment \in Int
    <3> HIDE DEF posted, Of2
    <3> QED BY <1>8
  <2> HIDE DEF posted, before
  <2>4. \A x \in posted : <<x, x>> \notin before
    BY <2>1, <2>3
  <2>5. ASSUME NEW x \in posted, NEW y \in posted, x # y
        PROVE  <<x, y>> \in before \/ <<y, x>> \in before
    <3>1. x.key # y.key \/ x.segment # y.segment
      BY <2>2, <2>5
    <3>2. x.key < y.key \/ y.key < x.key \/ x.key = y.key
      BY <2>3
    <3>3. x.segment < y.segment \/ y.segment < x.segment \/ x.segment = y.segment
      BY <2>3
    <3> QED BY <2>1, <3>1, <3>2, <3>3
  <2>6. ASSUME NEW x \in posted, NEW y \in posted, NEW z \in posted,
               <<x, y>> \in before, <<y, z>> \in before
        PROVE  <<x, z>> \in before
    <3>1. /\ x.key < y.key \/ (x.key = y.key /\ x.segment < y.segment)
          /\ y.key < z.key \/ (y.key = z.key /\ y.segment < z.segment)
      BY <2>1, <2>6
    <3>2. x.key < z.key \/ (x.key = z.key /\ x.segment < z.segment)
      BY <2>3, <3>1
    <3> QED BY <2>1, <3>2
  <2> QED BY <2>4, <2>5, <2>6 DEF StrictOrder
<1>10. /\ Cardinality(posted) \in Nat
       /\ run \in Seq(posted)
       /\ DOMAIN run = 1 .. Cardinality(posted)
       /\ \A i \in 1 .. Cardinality(posted) : run[i] \in posted
       /\ \A x \in posted : \E i \in 1 .. Cardinality(posted) : run[i] = x
       /\ \A i, k \in 1 .. Cardinality(posted) : i < k => <<run[i], run[k]>> \in before
  <2> HIDE DEF posted, before, run
  <2>1. Lists(run, posted, before)
    BY <1>1, <1>7, <1>9, SortedLists
  <2> QED BY <2>1 DEF Lists
<1>11. Len(run) = Cardinality(posted)
  <2> HIDE DEF posted, before, run
  <2> QED BY <1>10
<1>12. \A i \in DOMAIN run :
          /\ run[i].key \in Keys /\ run[i].segment \in Nat /\ run[i].rowids # {}
          /\ \A r \in run[i].rowids : /\ r \in rowids /\ r \div SEGMENT_ROWS = run[i].segment
                                      /\ run[i].key \in postings[r]
  <2> HIDE DEF posted, before, run, Of2
  <2> QED BY <1>8, <1>10
<1>13. ASSUME NEW r \in rowids, NEW k \in postings[r]
       PROVE  \E i \in DOMAIN run : run[i].key = k /\ r \in run[i].rowids
  <2>1. k \in Keys
    OBVIOUS
  <2> DEFINE x == Of2(r \div SEGMENT_ROWS, k)
  <2>2. x \in rows /\ x.key = k /\ r \in x.rowids
    <3>1. x \in rows
      <4> HIDE DEF Of2, rows
      <4> QED BY <1>5, <2>1
    <3>2. x.key = k /\ r \in x.rowids
      OBVIOUS
    <3> HIDE DEF x, rows, Of2
    <3> QED BY <3>1, <3>2
  <2>3. x \in posted
    <3> HIDE DEF rows, x
    <3> QED BY <2>2
  <2> HIDE DEF posted, before, run, Of2, x
  <2>4. PICK i \in DOMAIN run : run[i] = x
    BY <1>10, <2>3
  <2> QED BY <2>2, <2>4
<1>14. ASSUME NEW i \in DOMAIN run, NEW j \in DOMAIN run, i # j, run[i].key = run[j].key
       PROVE  run[i].rowids \cap run[j].rowids = {}
  <2> HIDE DEF posted, before, run, Of2
  <2>1. run[i] \in posted /\ run[j] \in posted
    BY <1>10
  <2>2. run[i] # run[j]
    <3>1. i < j \/ j < i
      BY <1>10, <1>14
    <3>2. <<run[i], run[j]>> \in before \/ <<run[j], run[i]>> \in before
      BY <1>10, <3>1
    <3> QED BY <1>9, <2>1, <3>2 DEF StrictOrder
  <2>3. run[i].segment # run[j].segment
    BY <1>8, <1>14, <2>1, <2>2
  <2> QED BY <1>8, <2>1, <2>3
<1> HIDE DEF run, posted, rows, Of2, before
<1>16. RefreshRows(run, postings, rowids)
  BY <1>10, <1>12, <1>13, <1>14 DEF RefreshRows
<1> QED BY <1>16 DEF run

\* The rows of a refresh, of two refreshes.
LEMMA IndexRows ==
    ASSUME NEW p \in Postings, NEW b \in Boundaries, NEW local \in BOOLEAN,
           NEW n \in ColumnRows, NEW m \in Budgets, index = Index(p, b, local, n, m)
    PROVE  TableInv
<1> DEFINE size == Cardinality(DOMAIN p)
           low == {r \in DOMAIN p : r < b}
           high == {r \in DOMAIN p : r >= b}
           one == Run(p, low)
           two == Run(p, high)
<1>1. size \in Nat /\ p \in [0 .. size - 1 -> SUBSET Keys] /\ DOMAIN p = 0 .. size - 1
  <2>1. IsFiniteSet(DOMAIN p) /\ p \in [0 .. size - 1 -> SUBSET Keys]
    BY ProbeConstants
  <2> QED BY <2>1, FS_CardinalityType
<1> HIDE DEF size
<1>2. b \in Int /\ m \in Nat /\ n \in Nat \ {0}
  BY ProbeConstants
<1>3. low \in SUBSET (0 .. size - 1) /\ high \in SUBSET (0 .. size - 1) /\ low \cap high = {}
      /\ low \cup high = 0 .. size - 1
  BY <1>1, <1>2
<1> HIDE DEF low, high
<1>4. RefreshRows(one, p, low) /\ RefreshRows(two, p, high)
  BY <1>1, <1>3, RunRows
<1> HIDE DEF one, two
<1>5. /\ Len(one) \in Nat /\ DOMAIN one = 1 .. Len(one)
      /\ Len(two) \in Nat /\ DOMAIN two = 1 .. Len(two)
  BY <1>4 DEF RefreshRows
<1>6. /\ index.postings = p /\ index.columnRows = n /\ index.budget = m
      /\ SegmentsTable = one \o two
      /\ Committed = IF local THEN Len(one) ELSE Len(one) + Len(two)
  BY DEF Index, SegmentsTable, Committed, one, two, low, high
<1>7. Hwm = size - 1
  BY <1>6 DEF Hwm, size
<1>8. /\ Len(SegmentsTable) = Len(one) + Len(two) /\ DOMAIN SegmentsTable = 1 .. Len(SegmentsTable)
      /\ \A i \in 1 .. Len(one) : SegmentsTable[i] = one[i]
      /\ \A i \in Len(one) + 1 .. Len(one) + Len(two) : SegmentsTable[i] = two[i - Len(one)]
  <2>1. PICK T1 : one \in Seq(T1)
    BY <1>4 DEF RefreshRows
  <2>2. PICK T2 : two \in Seq(T2)
    BY <1>4 DEF RefreshRows
  <2>3. one \in Seq(T1 \cup T2) /\ two \in Seq(T1 \cup T2)
    BY <2>1, <2>2
  <2> QED BY <2>3, <1>5, <1>6
<1>9. /\ \A i \in 1 .. Len(one) : Row(i - 1) = one[i] /\ i - 1 \in Places
      /\ \A i \in 1 .. Len(two) : Row(Len(one) + i - 1) = two[i] /\ Len(one) + i - 1 \in Places
  <2>1. ASSUME NEW i \in 1 .. Len(one) PROVE Row(i - 1) = one[i] /\ i - 1 \in Places
    <3>1. i - 1 + 1 = i /\ i - 1 \in Places
      BY <1>4, <1>5, <1>8 DEF Places
    <3> QED BY <1>8, <3>1 DEF Row
  <2>2. ASSUME NEW i \in 1 .. Len(two)
        PROVE  Row(Len(one) + i - 1) = two[i] /\ Len(one) + i - 1 \in Places
    <3>1. /\ Len(one) + i - 1 + 1 = Len(one) + i /\ Len(one) + i - 1 \in Places
          /\ Len(one) + i - Len(one) = i /\ Len(one) + i \in Len(one) + 1 .. Len(one) + Len(two)
      BY <1>4, <1>5, <1>8 DEF Places
    <3> QED BY <1>8, <3>1 DEF Row
  <2> QED BY <2>1, <2>2
<1>10. \A q \in Places : \/ \E i \in 1 .. Len(one) : q = i - 1
                         \/ \E i \in 1 .. Len(two) : q = Len(one) + i - 1
  <2> TAKE q \in Places
  <2>1. q \in Nat /\ q <= Len(one) + Len(two) - 1
    BY <1>4, <1>5, <1>8 DEF Places
  <2>2. CASE q < Len(one)
    <3>1. q + 1 \in 1 .. Len(one) /\ q = (q + 1) - 1
      BY <1>4, <2>1, <2>2
    <3> QED BY <3>1
  <2>3. CASE q >= Len(one)
    <3>1. q + 1 - Len(one) \in 1 .. Len(two) /\ q = Len(one) + (q + 1 - Len(one)) - 1
      BY <1>4, <1>5, <2>1, <2>3
    <3> QED BY <3>1
  <2> QED BY <1>4, <2>1, <2>2, <2>3
<1>11. \A q \in Places : /\ Row(q).key \in Keys /\ Row(q).segment \in Nat /\ Row(q).rowids # {}
                         /\ \A r \in Row(q).rowids :
                              /\ r \in 0 .. size - 1 /\ r \div SEGMENT_ROWS = Row(q).segment
                              /\ Row(q).key \in p[r]
  <2> TAKE q \in Places
  <2>1. CASE \E i \in 1 .. Len(one) : q = i - 1
    <3>1. PICK i \in DOMAIN one : q = i - 1
      BY <1>5, <2>1
    <3>2. Row(q) = one[i]
      BY <1>5, <1>9, <3>1
    <3> QED BY <1>3, <1>4, <3>2 DEF RefreshRows
  <2>2. CASE \E i \in 1 .. Len(two) : q = Len(one) + i - 1
    <3>1. PICK i \in DOMAIN two : q = Len(one) + i - 1
      BY <1>5, <2>2
    <3>2. Row(q) = two[i]
      BY <1>5, <1>9, <3>1
    <3> QED BY <1>3, <1>4, <3>2 DEF RefreshRows
  <2> QED BY <1>10, <2>1, <2>2
<1>12. \A r \in 0 .. size - 1 : \A k \in p[r] : \E q \in Places : Row(q).key = k /\ r \in Row(q).rowids
  <2> TAKE r \in 0 .. size - 1
  <2> TAKE k \in p[r]
  <2>1. CASE r \in low
    <3>1. PICK i \in DOMAIN one : one[i].key = k /\ r \in one[i].rowids
      BY <1>4, <2>1 DEF RefreshRows
    <3> QED BY <1>5, <1>9, <3>1
  <2>2. CASE r \in high
    <3>1. PICK i \in DOMAIN two : two[i].key = k /\ r \in two[i].rowids
      BY <1>4, <2>2 DEF RefreshRows
    <3> QED BY <1>5, <1>9, <3>1
  <2> QED BY <1>3, <2>1, <2>2
<1>13. ASSUME NEW q \in Places, NEW s \in Places, q # s, Row(q).key = Row(s).key
       PROVE  Row(q).rowids \cap Row(s).rowids = {}
  <2>1. ASSUME NEW i \in DOMAIN one, NEW j \in DOMAIN one, q = i - 1, s = j - 1
        PROVE  Row(q).rowids \cap Row(s).rowids = {}
    <3>1. Row(q) = one[i] /\ Row(s) = one[j] /\ i # j
      BY <1>5, <1>9, <1>13, <2>1
    <3> QED BY <1>4, <1>13, <3>1 DEF RefreshRows
  <2>2. ASSUME NEW i \in DOMAIN two, NEW j \in DOMAIN two, q = Len(one) + i - 1, s = Len(one) + j - 1
        PROVE  Row(q).rowids \cap Row(s).rowids = {}
    <3>1. Row(q) = two[i] /\ Row(s) = two[j] /\ i # j
      BY <1>5, <1>9, <1>13, <2>2
    <3> QED BY <1>4, <1>13, <3>1 DEF RefreshRows
  <2>3. ASSUME NEW i \in DOMAIN one, NEW j \in DOMAIN two,
               {q, s} = {i - 1, Len(one) + j - 1}
        PROVE  Row(q).rowids \cap Row(s).rowids = {}
    <3>1. Row(i - 1) = one[i] /\ Row(Len(one) + j - 1) = two[j]
      BY <1>5, <1>9
    <3>2. one[i].rowids \subseteq low /\ two[j].rowids \subseteq high
      BY <1>4 DEF RefreshRows
    <3>3. one[i].rowids \cap two[j].rowids = {}
      BY <1>3, <3>2
    <3>4. \/ q = i - 1 /\ s = Len(one) + j - 1
          \/ s = i - 1 /\ q = Len(one) + j - 1
      BY <1>13, <2>3
    <3> QED BY <3>1, <3>3, <3>4
  <2>4. \/ \E i \in DOMAIN one : q = i - 1
        \/ \E i \in DOMAIN two : q = Len(one) + i - 1
    BY <1>5, <1>10
  <2>5. \/ \E i \in DOMAIN one : s = i - 1
        \/ \E i \in DOMAIN two : s = Len(one) + i - 1
    BY <1>5, <1>10
  <2> QED BY <2>1, <2>2, <2>3, <2>4, <2>5
<1>14. Committed \in 0 .. Len(SegmentsTable) /\ Len(SegmentsTable) \in Nat
  BY <1>4, <1>5, <1>6, <1>8
<1>15. Hwm \in Int /\ Hwm >= -1 /\ 0 .. Hwm = 0 .. size - 1
  BY <1>1, <1>7
<1>16. index.postings \in [0 .. Hwm -> SUBSET Keys] /\ index.budget \in Nat /\ index.columnRows \in Nat \ {0}
  BY <1>1, <1>2, <1>6, <1>15
<1>17. \A q \in Places : \A r \in Row(q).rowids :
          r \in 0 .. Hwm /\ r \div SEGMENT_ROWS = Row(q).segment /\ Row(q).key \in index.postings[r]
  BY <1>6, <1>11, <1>15
<1>18. \A r \in 0 .. Hwm : \A k \in index.postings[r] :
          \E q \in Places : Row(q).key = k /\ r \in Row(q).rowids
  BY <1>6, <1>12, <1>15
<1>19. \A q \in Places : Row(q).key \in Keys /\ Row(q).segment \in Nat /\ Row(q).rowids # {}
  BY <1>11
<1>20. \A q, s \in Places : q # s /\ Row(q).key = Row(s).key => Row(q).rowids \cap Row(s).rowids = {}
  BY <1>13
<1> QED BY <1>8, <1>14, <1>15, <1>16, <1>17, <1>18, <1>19, <1>20 DEF TableInv

-----------------------------------------------------------------------------
(* The scans of a key. *)

\* Quotient and remainder.
LEMMA Division ==
    ASSUME NEW a \in Nat, NEW d \in Nat \ {0}
    PROVE  /\ a \div d \in Nat /\ a % d \in 0 .. d - 1
           /\ a = d * (a \div d) + (a % d)
  OBVIOUS

\* A number by its quotient and remainder.
LEMMA DivisionOf ==
    ASSUME NEW d \in Nat \ {0}, NEW q \in Nat, NEW r \in 0 .. d - 1
    PROVE  (d * q + r) \div d = q /\ (d * q + r) % d = r
<1> DEFINE a == d * q + r
           p == a \div d
<1>1. a \in Nat
  OBVIOUS
<1>2. p \in Nat /\ a % d \in 0 .. d - 1 /\ a = d * p + (a % d)
  BY <1>1, Division
<1>3. p = q
  <2>1. d * (q - p) = (a % d) - r
    BY <1>2
  <2>2. p - q >= 1 => d * (p - q) >= d
    BY <1>2
  <2>3. q - p >= 1 => d * (q - p) >= d
    BY <1>2
  <2> HIDE DEF p, a
  <2> QED BY <1>2, <2>1, <2>2, <2>3
<1> HIDE DEF p
<1>4. a % d = r
  BY <1>2, <1>3
<1> QED BY <1>3, <1>4 DEF p

\* What a step of AdmittedKeySpans makes of the spans before it.
Aligned(segment) ==
    [start |-> segment.start - (segment.start % STANDARD_VECTOR_SIZE),
     end   |-> Min({Ceiling(segment.end, STANDARD_VECTOR_SIZE) * STANDARD_VECTOR_SIZE,
                    (segment.start \div ROW_GROUP_ROWS + 1) * ROW_GROUP_ROWS,
                    Committed})]
SpanStep(spans, i, key) ==
    IF i = 0 THEN <<>>
    ELSE IF ZonemapAdmits(ColumnSegments[i], key) THEN AddSpan(spans[i - 1], Aligned(ColumnSegments[i]))
    ELSE spans[i - 1]

\* The recursive function of the spans exists: up to n by induction.
LEMMA SpansExist ==
    ASSUME NEW key, NEW n \in Nat
    PROVE  \E spans : spans = [i \in 0 .. n |-> SpanStep(spans, i, key)]
<1> DEFINE P(m) == \E spans : spans = [i \in 0 .. m |-> SpanStep(spans, i, key)]
           Bad == {m \in Nat : ~P(m)}
<1>1. P(0)
  <2> DEFINE f == [i \in 0 .. 0 |-> <<>>]
  <2>1. f = [i \in 0 .. 0 |-> SpanStep(f, i, key)]
    BY DEF SpanStep
  <2> HIDE DEF f
  <2> QED BY <2>1
<1>2. ASSUME NEW m \in Nat, P(m) PROVE P(m + 1)
  <2>1. PICK f : f = [i \in 0 .. m |-> SpanStep(f, i, key)]
    BY <1>2
  <2> DEFINE g == [i \in 0 .. m + 1 |-> IF i = m + 1 THEN SpanStep(f, i, key) ELSE f[i]]
  <2>2. ASSUME NEW i \in 0 .. m + 1 PROVE g[i] = SpanStep(g, i, key)
    <3>1. i # 0 => i - 1 \in 0 .. m /\ g[i - 1] = f[i - 1]
      OBVIOUS
    <3>2. SpanStep(g, i, key) = SpanStep(f, i, key)
      <4> HIDE DEF g
      <4> QED BY <3>1 DEF SpanStep
    <3>3. i # m + 1 => i \in 0 .. m /\ f[i] = SpanStep(f, i, key)
      BY <2>1
    <3>4. g[i] = IF i = m + 1 THEN SpanStep(f, i, key) ELSE f[i]
      OBVIOUS
    <3> HIDE DEF g
    <3> QED BY <3>2, <3>3, <3>4
  <2>3. g = [i \in 0 .. m + 1 |-> g[i]]
    OBVIOUS
  <2> HIDE DEF g
  <2>4. g = [i \in 0 .. m + 1 |-> SpanStep(g, i, key)]
    BY <2>2, <2>3
  <2> QED BY <2>4
<1> HIDE DEF P
<1>3. Bad = {}
  <2> SUFFICES ASSUME Bad # {} PROVE FALSE
    OBVIOUS
  <2>0. Bad \in SUBSET Nat
    OBVIOUS
  <2>1. PICK m \in Bad : \A k \in Bad : m <= k
    <3> HIDE DEF Bad
    <3> QED BY <2>0, Lowest
  <2>2. m # 0 /\ m - 1 \in Nat /\ m - 1 \notin Bad
    BY <1>1, <2>1
  <2> QED BY <1>2, <2>1, <2>2
<1> QED BY <1>3 DEF P

\* AdmittedKeySpans is the last value of that function.
LEMMA SpansAre ==
    ASSUME NEW key, Len(ColumnSegments) \in Nat
    PROVE  \E spans : /\ spans = [i \in 0 .. Len(ColumnSegments) |-> SpanStep(spans, i, key)]
                      /\ AdmittedKeySpans(key) = spans[Len(ColumnSegments)]
<1> DEFINE f == CHOOSE spans : spans = [i \in 0 .. Len(ColumnSegments) |-> SpanStep(spans, i, key)]
<1>1. f = [i \in 0 .. Len(ColumnSegments) |-> SpanStep(f, i, key)]
  <2> HIDE DEF SpanStep
  <2> QED BY SpansExist
<1>2. AdmittedKeySpans(key) = f[Len(ColumnSegments)]
  BY DEF AdmittedKeySpans, SpanStep, Aligned
<1> HIDE DEF f
<1> QED BY <1>1, <1>2

\* The descriptor of a row.
LEMMA DescriptorIs ==
    ASSUME TableInv, NEW n \in Places
    PROVE  /\ Descriptor(n).segment = Row(n).segment /\ Descriptor(n).key = Row(n).key
           /\ Descriptor(n).at = n
           /\ Descriptor(n).count = Cardinality(Row(n).rowids) /\ Descriptor(n).count \in Nat \ {0}
           /\ IsFiniteSet(Row(n).rowids) /\ Row(n).rowids \in SUBSET (0 .. Hwm)
           /\ Descriptor(n).low \in Row(n).rowids /\ Descriptor(n).high \in Row(n).rowids
           /\ \A r \in Row(n).rowids : Descriptor(n).low <= r /\ r <= Descriptor(n).high
<1>1. /\ Row(n).rowids # {} /\ Row(n).rowids \in SUBSET (0 .. Hwm) /\ Hwm \in Int
  BY DEF TableInv
<1>2. IsFiniteSet(Row(n).rowids)
  <2>1. IsFiniteSet(0 .. Hwm)
    BY <1>1, FS_Interval
  <2> QED BY <1>1, <2>1, FS_Subset
<1>3. Row(n).rowids \in SUBSET Int
  BY <1>1
<1>4. Cardinality(Row(n).rowids) \in Nat \ {0}
  BY <1>1, <1>2, FS_CardinalityType, FS_EmptySet
<1> DEFINE S == Row(n).rowids
<1>5. Descriptor(n) = [segment |-> Row(n).segment, key |-> Row(n).key, at |-> n,
                       count |-> Cardinality(S), low |-> Min(S), high |-> Max(S)]
  BY DEF Descriptor, Row
<1>6. /\ Min(S) \in S /\ \A x \in S : Min(S) <= x
      /\ Max(S) \in S /\ \A x \in S : x <= Max(S)
  BY <1>1, <1>2, <1>3, MinMaxOf
<1> HIDE DEF S
<1> QED BY <1>1, <1>2, <1>4, <1>5, <1>6 DEF S

\* The column segments follow each other and cover the committed rows.
ColumnSegmentsCover ==
    /\ Len(ColumnSegments) \in Nat /\ DOMAIN ColumnSegments = 1 .. Len(ColumnSegments)
    /\ \A i \in 1 .. Len(ColumnSegments) :
           /\ ColumnSegments[i].start \in 0 .. Committed - 1 /\ ColumnSegments[i].end \in Int
           /\ ColumnSegments[i].start < ColumnSegments[i].end
           /\ ColumnSegments[i].end <= Committed
           /\ ColumnSegments[i].end <= (ColumnSegments[i].start \div ROW_GROUP_ROWS + 1) * ROW_GROUP_ROWS
    /\ \A i, j \in 1 .. Len(ColumnSegments) : i < j => ColumnSegments[i].start < ColumnSegments[j].start
    /\ \A n \in 0 .. Committed - 1 : \E i \in 1 .. Len(ColumnSegments) :
           ColumnSegments[i].start <= n /\ n < ColumnSegments[i].end

\* A row lies below the end of its group.
LEMMA NextGroup ==
    ASSUME NEW n \in Nat, NEW d \in Nat \ {0}
    PROVE  (n \div d + 1) * d \in Nat /\ n < (n \div d + 1) * d
<1> DEFINE q == n \div d
<1>1. q \in Nat /\ n % d \in 0 .. d - 1 /\ n = d * q + (n % d)
  BY Division
<1> HIDE DEF q
<1>2. (q + 1) * d = d * q + d
  BY <1>1
<1>3. d * q \in Nat /\ d \in Nat
  BY <1>1
<1> QED BY <1>1, <1>2, <1>3 DEF q

\* The start of the column segment that holds row n.
LEMMA StartOf ==
    ASSUME NEW n \in Nat, NEW d \in Nat \ {0}, NEW c \in Nat \ {0}
    PROVE  \E s \in Nat : /\ (s % d) % c = 0 /\ s <= n /\ n < s + c
                          /\ n < (s \div d + 1) * d
<1> DEFINE q == n \div d
           m == n % d
           p == m \div c
           s == d * q + c * p
<1>1. q \in Nat /\ m \in 0 .. d - 1 /\ n = d * q + m
  BY Division
<1>2. p \in Nat /\ m % c \in 0 .. c - 1 /\ m = c * p + (m % c)
  <2> HIDE DEF q, m
  <2>1. m \in Nat
    BY <1>1
  <2> QED BY <2>1, Division DEF p
<1> HIDE DEF q, m, p
<1>3. c * p \in Nat /\ c * p <= m /\ c * p \in 0 .. d - 1 /\ d * q \in Nat
  BY <1>1, <1>2
<1>4. s \div d = q /\ s % d = c * p
  BY <1>1, <1>3, DivisionOf
<1>5. (c * p) % c = 0
  <2>0. 0 \in 0 .. c - 1
    OBVIOUS
  <2>1. (c * p + 0) % c = 0
    BY <1>2, <2>0, DivisionOf
  <2> QED BY <2>1, <1>3
<1>6. s \in Nat /\ s <= n /\ n < s + c
  BY <1>1, <1>2, <1>3
<1>7. (q + 1) * d = d * q + d /\ (q + 1) * d \in Int
  BY <1>1
<1>8. n < (q + 1) * d
  BY <1>1, <1>3, <1>7
<1> HIDE DEF s
<1> QED BY <1>4, <1>5, <1>6, <1>8

\* The column segments cover the committed rows, in ascending order.
LEMMA SegmentsCover ==
    ASSUME TableInv
    PROVE  ColumnSegmentsCover
<1> DEFINE N == Committed
           c == index.columnRows
           starts == {n \in 0 .. N - 1 : (n % ROW_GROUP_ROWS) % c = 0}
           order == Ascending(starts)
           end(n) == Min({n + c, N, (n \div ROW_GROUP_ROWS + 1) * ROW_GROUP_ROWS})
           S == ColumnSegments
<1>1. N \in Nat /\ c \in Nat \ {0} /\ ROW_GROUP_ROWS \in Nat \ {0}
  BY ProbeConstants DEF TableInv
<1>2. S = [i \in DOMAIN order |-> [start |-> order[i], end |-> end(order[i])]]
  BY DEF ColumnSegments
<1>3. starts \in SUBSET Int /\ IsFiniteSet(starts)
  <2>1. starts \in SUBSET (0 .. N - 1) /\ N - 1 \in Int /\ starts \in SUBSET Int
    BY <1>1
  <2>2. IsFiniteSet(0 .. N - 1)
    BY <2>1, FS_Interval
  <2> HIDE DEF starts
  <2> QED BY <2>1, <2>2, FS_Subset
<1> DEFINE size == Cardinality(starts)
<1>4. /\ size \in Nat /\ DOMAIN order = 1 .. size
      /\ \A i \in 1 .. size : order[i] \in starts
      /\ \A x \in starts : \E i \in 1 .. size : order[i] = x
      /\ \A i, k \in 1 .. size : i < k => order[i] < order[k]
  <2> HIDE DEF starts
  <2> QED BY <1>3, AscendingLists
<1>5. \A x \in starts : x \in 0 .. N - 1 /\ x \in Nat
  BY <1>1
<1>6. ASSUME NEW x \in Nat, x < N
      PROVE  /\ end(x) \in Int /\ x < end(x) /\ end(x) <= N
             /\ end(x) <= (x \div ROW_GROUP_ROWS + 1) * ROW_GROUP_ROWS
             /\ \A n \in Int : n < x + c /\ n < N /\ n < (x \div ROW_GROUP_ROWS + 1) * ROW_GROUP_ROWS => n < end(x)
  <2> DEFINE g == (x \div ROW_GROUP_ROWS + 1) * ROW_GROUP_ROWS
  <2>1. g \in Nat /\ x < g
    BY <1>1, NextGroup
  <2> HIDE DEF g
  <2>2. x + c \in Int /\ x < x + c
    BY <1>1
  <2>3. end(x) = Min({x + c, N, g})
    BY DEF g
  <2>4. /\ end(x) \in {x + c, N, g} /\ end(x) \in Int
        /\ end(x) <= N /\ end(x) <= g
    <3> DEFINE a == x + c
    <3>1. a \in Int /\ N \in Int /\ g \in Int
      BY <1>1, <2>1
    <3> HIDE DEF end, N, c, a
    <3>2. /\ Min({a, N, g}) \in {a, N, g} /\ Min({a, N, g}) \in Int
          /\ Min({a, N, g}) <= N /\ Min({a, N, g}) <= g
      BY <3>1, TripleMinMax
    <3> QED BY <2>3, <3>2 DEF a
  <2> HIDE DEF end, N, c
  <2> QED BY <1>1, <1>6, <2>1, <2>2, <2>4 DEF g
<1> HIDE DEF order, starts, end, N, size, S, c
<1>7. /\ DOMAIN S = 1 .. size /\ Len(S) = size
      /\ \A i \in 1 .. size : S[i].start = order[i] /\ S[i].end = end(order[i])
  BY <1>2, <1>4
<1>8. \A i \in 1 .. size : order[i] \in Nat /\ order[i] < N /\ order[i] \in 0 .. N - 1
  BY <1>1, <1>4, <1>5
<1>9. ASSUME NEW n \in 0 .. N - 1
      PROVE  \E i \in 1 .. size : S[i].start <= n /\ n < S[i].end
  <2>0. n \in Nat /\ n \in Int /\ n < N
    BY <1>1
  <2>1. PICK s \in Nat : /\ (s % ROW_GROUP_ROWS) % c = 0 /\ s <= n /\ n < s + c
                         /\ n < (s \div ROW_GROUP_ROWS + 1) * ROW_GROUP_ROWS
    BY <1>1, <2>0, StartOf
  <2>2. s \in 0 .. N - 1 /\ s < N
    BY <1>1, <2>0, <2>1
  <2>3. s \in starts
    BY <2>1, <2>2 DEF starts
  <2>4. PICK i \in 1 .. size : order[i] = s
    BY <1>4, <2>3
  <2>5. n < end(s)
    BY <1>6, <2>0, <2>1, <2>2
  <2> QED BY <2>1, <2>4, <2>5, <1>7
<1> HIDE DEF ColumnSegmentsCover
<1>10. \A i \in 1 .. size : /\ S[i].start \in 0 .. N - 1 /\ S[i].end \in Int
                            /\ S[i].start < S[i].end /\ S[i].end <= N
                            /\ S[i].end <= (S[i].start \div ROW_GROUP_ROWS + 1) * ROW_GROUP_ROWS
  BY <1>6, <1>7, <1>8
<1>11. \A i, j \in 1 .. size : i < j => S[i].start < S[j].start
  BY <1>4, <1>7
<1> QED BY <1>4, <1>7, <1>9, <1>10, <1>11 DEF ColumnSegmentsCover, N, S

\* An admitted segment, widened, still holds its rows; a later one starts later.
LEMMA AlignedHolds ==
    ASSUME TableInv, ColumnSegmentsCover, NEW i \in 1 .. Len(ColumnSegments)
    PROVE  /\ Aligned(ColumnSegments[i]) \in [start : Nat, end : Nat]
           /\ Aligned(ColumnSegments[i]).start <= ColumnSegments[i].start
           /\ ColumnSegments[i].end <= Aligned(ColumnSegments[i]).end
           /\ Aligned(ColumnSegments[i]).end <= Committed
           /\ \A j \in 1 .. Len(ColumnSegments) : i < j =>
                 Aligned(ColumnSegments[i]).start <= Aligned(ColumnSegments[j]).start
<1> DEFINE V == STANDARD_VECTOR_SIZE
           N == Committed
           c == ColumnSegments[i]
           s == c.start
           e == c.end
           g == (s \div ROW_GROUP_ROWS + 1) * ROW_GROUP_ROWS
           u == Ceiling(e, V) * V
           down(n) == n - (n % V)
<1>1. V \in Nat \ {0} /\ ROW_GROUP_ROWS \in Nat \ {0} /\ N \in Nat
  BY ProbeConstants DEF TableInv
<1>2. s \in Nat /\ e \in Int /\ s < e /\ e <= N /\ e <= g
  BY <1>1 DEF ColumnSegmentsCover
<1>3. g \in Nat
  <2> HIDE DEF s
  <2> QED BY <1>1, <1>2, NextGroup
<1>4. u \in Nat /\ e <= u
  <2> DEFINE a == e + V - 1
             q == a \div V
  <2> HIDE DEF e, V, N, s, g
  <2>1. a \in Nat
    BY <1>1, <1>2
  <2>2. q \in Nat /\ a % V \in 0 .. V - 1 /\ a = V * q + (a % V)
    <3> HIDE DEF a
    <3> QED BY <1>1, <2>1, Division
  <2>3. u = V * q /\ V * q \in Nat
    <3>1. u = q * V
      BY DEF Ceiling
    <3> HIDE DEF u, q, a
    <3> QED BY <1>1, <2>2, <3>1
  <2> HIDE DEF q
  <2> QED BY <1>1, <1>2, <2>2, <2>3
<1>5. Aligned(c) = [start |-> down(s), end |-> Min({u, g, N})]
  BY DEF Aligned
<1>6. \A n \in Nat : down(n) \in Nat /\ down(n) <= n /\ down(n) = V * (n \div V) /\ n \div V \in Nat
  <2> TAKE n \in Nat
  <2> HIDE DEF V
  <2>1. n \div V \in Nat /\ n % V \in 0 .. V - 1 /\ n = V * (n \div V) + (n % V)
    BY <1>1, Division
  <2>2. V * (n \div V) \in Nat
    BY <1>1, <2>1
  <2> QED BY <1>1, <2>1, <2>2
<1>7. \A m, n \in Nat : m < n => down(m) <= down(n)
  <2> TAKE m \in Nat, n \in Nat
  <2> HAVE m < n
  <2> DEFINE p == m \div V
             q == n \div V
  <2> HIDE DEF V
  <2>1. p \in Nat /\ m % V \in 0 .. V - 1 /\ m = V * p + (m % V)
    BY <1>1, Division
  <2>2. q \in Nat /\ n % V \in 0 .. V - 1 /\ n = V * q + (n % V)
    BY <1>1, Division
  <2> HIDE DEF p, q
  <2>3. p > q => V * p >= V * q + V
    <3> HAVE p > q
    <3>1. p - q - 1 \in Nat
      BY <2>1, <2>2
    <3>2. V * p = V * q + V + V * (p - q - 1) /\ V * (p - q - 1) >= 0
      BY <1>1, <2>1, <2>2, <3>1
    <3> QED BY <1>1, <2>1, <2>2, <3>2
  <2>4. p <= q
    <3> DEFINE a == V * p
               b == V * q
               y == m % V
               z == n % V
    <3>1. a \in Int /\ b \in Int /\ p \in Int /\ q \in Int /\ V \in Int
      BY <1>1, <2>1, <2>2
    <3>2. y \in 0 .. V - 1 /\ z \in 0 .. V - 1 /\ m = a + y /\ n = b + z
      BY <2>1, <2>2
    <3>3. p > q => a >= b + V
      BY <2>3
    <3> HIDE DEF a, b, y, z
    <3> QED BY <3>1, <3>2, <3>3
  <2>5. V * p <= V * q
    <3>1. q - p \in Nat
      BY <2>1, <2>2, <2>4
    <3>2. V * q = V * p + V * (q - p) /\ V * (q - p) >= 0
      BY <1>1, <2>1, <2>2, <3>1
    <3> QED BY <1>1, <2>1, <2>2, <3>2
  <2>6. down(m) = V * p /\ down(n) = V * q
    BY <1>6 DEF p, q
  <2> QED BY <2>5, <2>6
<1> HIDE DEF u, g, N, down, V
<1>8. /\ Min({u, g, N}) \in {u, g, N} /\ Min({u, g, N}) \in Int
      /\ Min({u, g, N}) <= N
  <2>1. u \in Int /\ g \in Int /\ N \in Int
    BY <1>1, <1>3, <1>4
  <2> QED BY <2>1, TripleMinMax
<1>9. e <= Min({u, g, N}) /\ Min({u, g, N}) \in Nat
  <2> HIDE DEF e
  <2> QED BY <1>1, <1>2, <1>3, <1>4, <1>8
<1>10. ASSUME NEW j \in 1 .. Len(ColumnSegments), i < j
       PROVE  Aligned(c).start <= Aligned(ColumnSegments[j]).start
  <2>1. ColumnSegments[j].start \in Nat /\ s < ColumnSegments[j].start
    BY <1>1, <1>10 DEF ColumnSegmentsCover, N
  <2>2. Aligned(ColumnSegments[j]).start = down(ColumnSegments[j].start)
    BY DEF Aligned, down, V
  <2>3. Aligned(c).start = down(s)
    BY <1>5
  <2> QED BY <1>2, <1>7, <2>1, <2>2, <2>3
<1>11. Aligned(c).start = down(s) /\ Aligned(c).end = Min({u, g, N}) /\ Aligned(c) \in [start : Nat, end : Nat]
  <2> DEFINE a == down(s)
             b == Min({u, g, N})
  <2>1. a \in Nat /\ b \in Nat
    BY <1>2, <1>6, <1>9
  <2>2. Aligned(c) = [start |-> a, end |-> b]
    BY <1>5
  <2> HIDE DEF a, b
  <2>3. Aligned(c).start = a /\ Aligned(c).end = b /\ Aligned(c) \in [start : Nat, end : Nat]
    BY <2>1, <2>2
  <2> QED BY <2>3 DEF a, b
<1> QED BY <1>2, <1>6, <1>8, <1>9, <1>10, <1>11 DEF N

\* Spans of committed rows, none of which reaches into the next.
Apart(spans) ==
    /\ spans \in Seq([start : Nat, end : Nat])
    /\ \A j \in 1 .. Len(spans) : spans[j].start < spans[j].end /\ spans[j].end <= Committed
    /\ \A j, k \in 1 .. Len(spans) : j < k => spans[j].end <= spans[k].start
Spanned(spans, n) == \E k \in 1 .. Len(spans) : spans[k].start <= n /\ n < spans[k].end

\* Adding a span keeps the spans apart and covers what it adds.
LEMMA AddSpanApart ==
    ASSUME NEW spans, Apart(spans), NEW span \in [start : Nat, end : Nat],
           span.start < span.end, span.end <= Committed, Committed \in Nat,
           Len(spans) > 0 => spans[Len(spans)].start <= span.start
    PROVE  /\ Apart(AddSpan(spans, span)) /\ Len(AddSpan(spans, span)) > 0
           /\ AddSpan(spans, span)[Len(AddSpan(spans, span))].start <= span.start
           /\ \A n \in Int : Spanned(spans, n) \/ (span.start <= n /\ n < span.end) =>
                 Spanned(AddSpan(spans, span), n)
<1> DEFINE L == Len(spans)
           new == AddSpan(spans, span)
           R == [start : Nat, end : Nat]
<1>1. spans \in Seq(R) /\ L \in Nat /\ \A j \in 1 .. L : spans[j] \in R /\ spans[j].start \in Nat /\ spans[j].end \in Nat
  <2>1. \A r \in R : r.start \in Nat /\ r.end \in Nat
    OBVIOUS
  <2>2. spans \in Seq(R)
    BY DEF Apart
  <2> HIDE DEF R
  <2>3. L \in Nat /\ \A j \in 1 .. L : spans[j] \in R
    BY <2>2
  <2> QED BY <2>1, <2>2, <2>3
<1>2. /\ \A j \in 1 .. L : spans[j].start < spans[j].end /\ spans[j].end <= Committed
      /\ \A j, k \in 1 .. L : j < k => spans[j].end <= spans[k].start
  BY DEF Apart
<1>3. span.start \in Nat /\ span.end \in Nat
  OBVIOUS
<1>4. CASE spans # <<>> /\ spans[L].end >= span.start
  <2>1. L \in 1 .. L /\ L > 0
    BY <1>1, <1>4
  <2> DEFINE e == Max({spans[L].end, span.end})
  <2>2. e \in Nat /\ spans[L].end <= e /\ span.end <= e /\ e <= Committed
    <3>1. spans[L].end \in Int /\ span.end \in Int /\ spans[L].end <= Committed
      BY <1>1, <1>2, <2>1
    <3> DEFINE a == spans[L].end
               b == span.end
    <3>2. a \in Nat /\ b \in Nat /\ a \in Int /\ b \in Int /\ a <= Committed /\ b <= Committed
      BY <1>1, <1>3, <2>1, <3>1
    <3> HIDE DEF a, b
    <3>3. Max({a, b}) = IF a <= b THEN b ELSE a
      BY <3>2, PairMinMax
    <3>4. e = Max({a, b})
      BY DEF a, b
    <3> HIDE DEF e
    <3>5. e \in Nat /\ a <= e /\ b <= e /\ e <= Committed
      BY <3>2, <3>3, <3>4
    <3> QED BY <3>5 DEF a, b
  <2>3. new = [spans EXCEPT ![L].end = e]
    BY <1>4 DEF AddSpan, Last
  <2> HIDE DEF new, e
  <2>4. /\ Len(new) = L /\ new \in Seq(R)
        /\ \A j \in 1 .. L : j # L => new[j] = spans[j]
        /\ new[L].start = spans[L].start /\ new[L].end = e
    <3> DEFINE last == [spans[L] EXCEPT !.end = e]
    <3>1. spans[L] \in R
      BY <1>1, <2>1
    <3>2. last \in R /\ last.start = spans[L].start /\ last.end = e
      BY <2>2, <3>1
    <3>3. new = [spans EXCEPT ![L] = last]
      BY <2>3
    <3> HIDE DEF last, R
    <3>4. /\ Len(new) = L /\ new \in Seq(R) /\ new[L] = last
          /\ \A j \in 1 .. L : j # L => new[j] = spans[j]
      BY <1>1, <2>1, <3>2, <3>3
    <3> QED BY <3>2, <3>4
  <2>5. spans[L].start <= span.start
    BY <2>1
  <2>6. \A j \in 1 .. L : new[j].start < new[j].end /\ new[j].end <= Committed
    <3> TAKE j \in 1 .. L
    <3>1. CASE j = L
      BY <1>1, <1>2, <2>1, <2>2, <2>4, <3>1
    <3> QED BY <1>2, <2>4, <3>1
  <2>7. \A j, k \in 1 .. L : j < k => new[j].end <= new[k].start
    <3> TAKE j \in 1 .. L, k \in 1 .. L
    <3> HAVE j < k
    <3>1. j # L
      BY <1>1
    <3> QED BY <1>2, <2>4, <3>1
  <2>8. \A n \in Int : Spanned(spans, n) \/ (span.start <= n /\ n < span.end) => Spanned(new, n)
    <3> TAKE n \in Int
    <3>1. ASSUME span.start <= n, n < span.end PROVE new[L].start <= n /\ n < new[L].end
      BY <1>1, <1>3, <2>1, <2>2, <2>4, <2>5, <3>1, SMTT(20)
    <3>2. ASSUME NEW k \in 1 .. L, spans[k].start <= n, n < spans[k].end
          PROVE  new[k].start <= n /\ n < new[k].end
      <4>1. CASE k = L
        BY <1>1, <2>1, <2>2, <2>4, <3>2, <4>1, SMTT(20)
      <4> QED BY <2>4, <3>2, <4>1
    <3> QED BY <2>1, <2>4, <3>1, <3>2 DEF Spanned
  <2> QED BY <2>1, <2>4, <2>5, <2>6, <2>7, <2>8 DEF Apart, new
<1>5. CASE ~(spans # <<>> /\ spans[L].end >= span.start)
  <2>1. new = Append(spans, span)
    BY <1>5 DEF AddSpan, Last
  <2> HIDE DEF new
  <2>2. /\ Len(new) = L + 1 /\ new \in Seq(R) /\ L + 1 > 0 /\ L + 1 \in 1 .. L + 1
        /\ \A j \in 1 .. L : new[j] = spans[j] /\ j \in 1 .. L + 1
        /\ new[L + 1] = span
    BY <1>1, <2>1
  <2>3. \A j \in 1 .. L + 1 : j \in 1 .. L \/ j = L + 1
    BY <1>1
  <2>4. \A j \in 1 .. L : spans[j].end <= span.start
    <3> TAKE j \in 1 .. L
    <3>1. L \in 1 .. L /\ L > 0 /\ spans # <<>>
      BY <1>1
    <3>2. spans[L].end < span.start
      BY <1>1, <1>3, <1>5, <3>1, SMTT(20)
    <3>3. CASE j = L
      BY <1>1, <1>3, <3>1, <3>2, <3>3
    <3>4. CASE j < L
      <4>1. spans[j].end <= spans[L].start /\ spans[L].start < spans[L].end
        BY <1>2, <3>1, <3>4
      <4>2. spans[j] \in R /\ spans[L] \in R
        BY <1>1, <3>1
      <4>3. spans[j].end \in Int /\ spans[L].start \in Int /\ spans[L].end \in Int /\ span.start \in Int
        BY <1>3, <4>2
      <4> QED BY <3>2, <4>1, <4>3
    <3> QED BY <1>1, <3>3, <3>4
  <2>5. \A j \in 1 .. L + 1 : new[j].start < new[j].end /\ new[j].end <= Committed
    BY <1>2, <2>2, <2>3
  <2>6. \A j, k \in 1 .. L + 1 : j < k => new[j].end <= new[k].start
    <3> TAKE j \in 1 .. L + 1, k \in 1 .. L + 1
    <3> HAVE j < k
    <3>1. j \in 1 .. L
      BY <1>1
    <3>2. CASE k = L + 1
      BY <2>2, <2>4, <3>1, <3>2
    <3>3. CASE k \in 1 .. L
      BY <1>2, <2>2, <3>1, <3>3
    <3> QED BY <2>3, <3>2, <3>3
  <2>7. \A n \in Int : Spanned(spans, n) \/ (span.start <= n /\ n < span.end) => Spanned(new, n)
    BY <2>2 DEF Spanned
  <2>8. span.start <= span.start
    BY <1>3
  <2> QED BY <2>2, <2>5, <2>6, <2>7, <2>8 DEF Apart, new
<1> QED BY <1>4, <1>5

SpansGood(spans, i, key) ==
    /\ Apart(spans)
    /\ Len(spans) > 0 => i > 0 /\ spans[Len(spans)].start <= Aligned(ColumnSegments[i]).start
    /\ \A j \in 1 .. i : ZonemapAdmits(ColumnSegments[j], key) =>
          \A n \in Int : ColumnSegments[j].start <= n /\ n < ColumnSegments[j].end => Spanned(spans, n)

\* The spans of a key are apart and hold every row of an admitted segment.
LEMMA SpansOfKey ==
    ASSUME TableInv, NEW key
    PROVE  SpansGood(AdmittedKeySpans(key), Len(ColumnSegments), key)
<1> DEFINE N == Len(ColumnSegments)
<1>1. ColumnSegmentsCover
  BY SegmentsCover
<1>2. N \in Nat
  BY <1>1 DEF ColumnSegmentsCover
<1>3. PICK spans : spans = [i \in 0 .. N |-> SpanStep(spans, i, key)] /\ AdmittedKeySpans(key) = spans[N]
  BY <1>2, SpansAre
<1>4. \A i \in 0 .. N : spans[i] = SpanStep(spans, i, key)
  BY <1>3
<1> DEFINE P(i) == SpansGood(spans[i], i, key)
           Bad == {i \in 0 .. N : ~P(i)}
<1>5. P(0)
  <2>1. spans[0] = <<>>
    BY <1>2, <1>4 DEF SpanStep
  <2>2. Len(spans[0]) = 0 /\ spans[0] \in Seq([start : Nat, end : Nat])
    BY <2>1
  <2>3. 1 .. 0 = {}
    OBVIOUS
  <2> QED BY <2>2, <2>3 DEF SpansGood, Apart
<1>6. ASSUME NEW i \in 1 .. N, P(i - 1) PROVE P(i)
  <2> DEFINE old == spans[i - 1]
             new == spans[i]
             seg == ColumnSegments[i]
             span == Aligned(seg)
  <2>0. i \in Nat /\ i > 0 /\ i \in 0 .. N /\ \A j \in 1 .. i : j \in 1 .. N /\ (j = i \/ j \in 1 .. i - 1)
    BY <1>2
  <2>1. new = IF ZonemapAdmits(seg, key) THEN AddSpan(old, span) ELSE old
    BY <1>4, <2>0 DEF SpanStep
  <2>2. /\ span \in [start : Nat, end : Nat] /\ span.start <= seg.start
        /\ seg.end <= span.end /\ span.end <= Committed
    BY <1>1, AlignedHolds
  <2>3. seg.start \in Int /\ seg.end \in Int /\ seg.start < seg.end /\ Committed \in Nat
    BY <1>1 DEF ColumnSegmentsCover, TableInv
  <2>4. span.start < span.end /\ span.start \in Int /\ span.end \in Int
    BY <2>2, <2>3
  <2>5. /\ Apart(old)
        /\ Len(old) > 0 => i - 1 > 0 /\ old[Len(old)].start <= Aligned(ColumnSegments[i - 1]).start
        /\ \A j \in 1 .. i - 1 : ZonemapAdmits(ColumnSegments[j], key) =>
              \A n \in Int : ColumnSegments[j].start <= n /\ n < ColumnSegments[j].end => Spanned(old, n)
    BY <1>6 DEF SpansGood
  <2>6. Len(old) > 0 => old[Len(old)].start <= span.start
    <3> HAVE Len(old) > 0
    <3>1. i - 1 > 0 /\ i - 1 \in 1 .. N /\ i - 1 < i
      BY <1>2, <2>5
    <3>2. /\ Aligned(ColumnSegments[i - 1]) \in [start : Nat, end : Nat]
          /\ Aligned(ColumnSegments[i - 1]).start <= span.start
      BY <1>1, <3>1, AlignedHolds
    <3>3. old[Len(old)] \in [start : Nat, end : Nat]
      <4> DEFINE R == [start : Nat, end : Nat]
      <4>1. old \in Seq(R) /\ Len(old) > 0
        BY <2>5 DEF Apart
      <4> HIDE DEF R, old
      <4>2. Len(old) \in Nat /\ \A k \in 1 .. Len(old) : old[k] \in R
        BY <4>1
      <4>3. Len(old) \in 1 .. Len(old)
        BY <4>1, <4>2
      <4>4. old[Len(old)] \in R
        BY <4>2, <4>3
      <4> QED BY <4>4 DEF R
    <3> HIDE DEF old, span
    <3> QED BY <2>4, <2>5, <3>1, <3>2, <3>3
  <2> HIDE DEF old, new, seg, span, N
  <2>7. CASE ZonemapAdmits(seg, key)
    <3>1. /\ Apart(new) /\ Len(new) > 0 /\ new[Len(new)].start <= span.start
          /\ \A n \in Int : Spanned(old, n) \/ (span.start <= n /\ n < span.end) => Spanned(new, n)
      BY <2>1, <2>2, <2>3, <2>4, <2>5, <2>6, <2>7, AddSpanApart
    <3>2. \A n \in Int : seg.start <= n /\ n < seg.end => span.start <= n /\ n < span.end
      BY <2>2, <2>3, <2>4
    <3> QED BY <2>0, <2>5, <3>1, <3>2 DEF SpansGood, new, span, seg
  <2>8. CASE ~ZonemapAdmits(seg, key)
    <3>1. new = old
      BY <2>1, <2>8
    <3> QED BY <2>0, <2>5, <2>6, <2>8, <3>1 DEF SpansGood, new, span, seg
  <2> QED BY <2>7, <2>8
<1>7. Bad = {}
  <2> HIDE DEF P, N
  <2> SUFFICES ASSUME Bad # {} PROVE FALSE
    OBVIOUS
  <2>0. Bad \in SUBSET Nat
    OBVIOUS
  <2>1. PICK m \in Bad : \A k \in Bad : m <= k
    <3> HIDE DEF Bad
    <3> QED BY <2>0, Lowest
  <2>2. m \in 1 .. N /\ m - 1 \in 0 .. N /\ m - 1 \notin Bad
    BY <1>2, <1>5, <2>1
  <2> QED BY <1>6, <2>1, <2>2
<1>8. P(N)
  <2> HIDE DEF P
  <2>1. N \in 0 .. N
    BY <1>2
  <2> QED BY <1>7, <2>1
<1> QED BY <1>3, <1>8

\* The scans of a key: each of its rows once.
ScansOf(scans, key) ==
    /\ scans \in Seq(SUBSET Places)
    /\ \A i \in DOMAIN scans : \A n \in scans[i] : Row(n).key = key
    /\ \A i, j \in DOMAIN scans : i # j => scans[i] \cap scans[j] = {}
    /\ \A n \in Places : Row(n).key = key => \E i \in DOMAIN scans : n \in scans[i]

\* The scans of a key find each of its rows, and no row twice.
LEMMA ScansOfKey ==
    ASSUME TableInv, NEW key \in Keys
    PROVE  ScansOf(KeyScans(key), key)
<1> DEFINE spans == AdmittedKeySpans(key)
           L == Len(spans)
           C == Committed
           T == Len(SegmentsTable)
           hits(i) == Hits(spans[i].start, spans[i].end, key)
           own == Hits(C, T, key)
           scans == KeyScans(key)
<1>1. SpansGood(spans, Len(ColumnSegments), key) /\ ColumnSegmentsCover
  BY SpansOfKey, SegmentsCover
<1>2. T \in Nat /\ C \in 0 .. T /\ C \in Nat /\ Places = 0 .. T - 1 /\ C <= T
  BY DEF TableInv, Places
<1>3. /\ spans \in Seq([start : Nat, end : Nat])
      /\ \A j \in 1 .. L : spans[j].start < spans[j].end /\ spans[j].end <= C
      /\ \A j, k \in 1 .. L : j < k => spans[j].end <= spans[k].start
  BY <1>1 DEF SpansGood, Apart
<1>4. L \in Nat /\ DOMAIN spans = 1 .. L /\ \A j \in 1 .. L : spans[j].start \in Nat /\ spans[j].end \in Nat
  <2> DEFINE R == [start : Nat, end : Nat]
  <2>1. \A r \in R : r.start \in Nat /\ r.end \in Nat
    OBVIOUS
  <2>2. spans \in Seq(R)
    BY <1>3
  <2> HIDE DEF R, spans
  <2>3. L \in Nat /\ DOMAIN spans = 1 .. L /\ \A j \in 1 .. L : spans[j] \in R
    BY <2>2
  <2> QED BY <2>1, <2>3
<1>5. scans = Append([i \in 1 .. L |-> hits(i)], own)
  BY <1>4 DEF KeyScans
<1> HIDE DEF spans, T, C, L
<1>6. /\ \A i \in 1 .. L : \A n \in hits(i) :
            n \in Int /\ spans[i].start <= n /\ n < spans[i].end /\ n < C /\ n \in Places /\ Row(n).key = key
      /\ \A n \in own : n \in Int /\ C <= n /\ n \in Places /\ Row(n).key = key
  <2>1. ASSUME NEW i \in 1 .. L, NEW n \in hits(i)
        PROVE  n \in Int /\ spans[i].start <= n /\ n < spans[i].end /\ n < C /\ n \in Places /\ Row(n).key = key
    <3> DEFINE a == spans[i].start
               b == spans[i].end
    <3>1. a \in Nat /\ b \in Nat /\ b <= C /\ a < b
      BY <1>3, <1>4
    <3>2. n \in a .. b - 1 /\ SegmentsTable[n + 1].key = key
      BY DEF Hits
    <3> HIDE DEF a, b
    <3>3. n \in Int /\ a <= n /\ n < b /\ n < C /\ n \in 0 .. T - 1
      BY <1>2, <3>1, <3>2
    <3> QED BY <1>2, <3>2, <3>3 DEF Row, a, b
  <2>2. ASSUME NEW n \in own
        PROVE  n \in Int /\ C <= n /\ n \in Places /\ Row(n).key = key
    <3>1. n \in C .. T - 1 /\ SegmentsTable[n + 1].key = key
      BY DEF Hits
    <3>2. n \in Int /\ C <= n /\ n \in 0 .. T - 1
      BY <1>2, <3>1
    <3> QED BY <1>2, <3>1, <3>2 DEF Row
  <2> HIDE DEF hits, own
  <2> QED BY <2>1, <2>2
<1>7. /\ \A n \in Places : Row(n).key = key /\ C <= n => n \in own
      /\ \A i \in 1 .. L : \A n \in Places :
            Row(n).key = key /\ spans[i].start <= n /\ n < spans[i].end => n \in hits(i)
  BY <1>2, <1>4 DEF Hits, Row
<1>8. \A n \in Places : Row(n).key = key /\ n < C => \E i \in 1 .. L : n \in hits(i)
  <2> TAKE n \in Places
  <2> HAVE Row(n).key = key /\ n < C
  <2>0. n \in Int /\ n \in 0 .. C - 1
    BY <1>2
  <2>1. PICK i \in 1 .. Len(ColumnSegments) : ColumnSegments[i].start <= n /\ n < ColumnSegments[i].end
    BY <1>1, <2>0 DEF ColumnSegmentsCover, C
  <2>2. ZonemapAdmits(ColumnSegments[i], key)
    <3>1. ColumnSegments[i].start \in Int /\ ColumnSegments[i].end \in Int
      BY <1>1 DEF ColumnSegmentsCover
    <3>2. n + 1 \in ColumnSegments[i].start + 1 .. ColumnSegments[i].end
      BY <2>0, <2>1, <3>1
    <3>3. SegmentsTable[n + 1].key = key /\ key \in Int
      BY ProbeConstants DEF Row
    <3>4. SegmentsTable[n + 1].key <= key /\ SegmentsTable[n + 1].key >= key
      BY <3>3
    <3> QED BY <3>2, <3>4 DEF ZonemapAdmits
  <2>3. Spanned(spans, n)
    BY <1>1, <2>0, <2>1, <2>2 DEF SpansGood
  <2>4. PICK k \in 1 .. L : spans[k].start <= n /\ n < spans[k].end
    BY <2>3 DEF Spanned, L
  <2> HIDE DEF hits
  <2> QED BY <1>7, <2>4
<1> DEFINE list == [i \in 1 .. L |-> hits(i)]
<1>9. list \in Seq(SUBSET Places) /\ own \in SUBSET Places /\ Len(list) = L
  <2>1. \A i \in 1 .. L : hits(i) \in SUBSET Places
    BY <1>6
  <2>2. own \in SUBSET Places
    BY <1>6
  <2> HIDE DEF hits, own
  <2> QED BY <1>4, <2>1, <2>2
<1>10. \A i \in 1 .. L : list[i] = hits(i)
  BY <1>4
<1> HIDE DEF hits, own, list, scans
<1>11. /\ scans \in Seq(SUBSET Places) /\ DOMAIN scans = 1 .. L + 1
       /\ \A i \in 1 .. L : scans[i] = hits(i)
       /\ scans[L + 1] = own /\ L + 1 \in 1 .. L + 1 /\ \A i \in 1 .. L : i \in 1 .. L + 1
       /\ \A i \in 1 .. L + 1 : i \in 1 .. L \/ i = L + 1
  <2>1. scans = Append(list, own)
    BY <1>5 DEF list
  <2> QED BY <1>4, <1>9, <1>10, <2>1
<1>12. \A i, j \in 1 .. L : i # j => hits(i) \cap hits(j) = {}
  <2>1. ASSUME NEW i \in 1 .. L, NEW j \in 1 .. L, i < j PROVE hits(i) \cap hits(j) = {}
    <3> SUFFICES ASSUME NEW n \in hits(i), n \in hits(j) PROVE FALSE
      OBVIOUS
    <3>1. n \in Int /\ n < spans[i].end /\ spans[j].start <= n /\ spans[i].end <= spans[j].start
      BY <1>3, <1>6, <2>1
    <3>2. spans[i].end \in Nat /\ spans[j].start \in Nat
      BY <1>4
    <3> QED BY <3>1, <3>2
  <2> TAKE i \in 1 .. L, j \in 1 .. L
  <2> HAVE i # j
  <2>2. i < j \/ j < i
    BY <1>4
  <2> QED BY <2>1, <2>2
<1>13. \A i \in 1 .. L : hits(i) \cap own = {}
  <2> TAKE i \in 1 .. L
  <2> SUFFICES ASSUME NEW n \in hits(i), n \in own PROVE FALSE
    OBVIOUS
  <2>1. n \in Int /\ n < C /\ C <= n
    BY <1>6
  <2> QED BY <1>2, <2>1
<1>14. \A i, j \in 1 .. L + 1 : i # j => scans[i] \cap scans[j] = {}
  <2> TAKE i \in 1 .. L + 1, j \in 1 .. L + 1
  <2> HAVE i # j
  <2>1. CASE i \in 1 .. L /\ j \in 1 .. L
    BY <1>11, <1>12, <2>1
  <2>2. CASE i = L + 1 /\ j \in 1 .. L
    BY <1>11, <1>13, <2>2
  <2>3. CASE j = L + 1 /\ i \in 1 .. L
    BY <1>11, <1>13, <2>3
  <2> QED BY <1>11, <2>1, <2>2, <2>3
<1>15. \A i \in 1 .. L + 1 : \A n \in scans[i] : Row(n).key = key
  BY <1>6, <1>11
<1>16. \A n \in Places : Row(n).key = key => \E i \in 1 .. L + 1 : n \in scans[i]
  <2> TAKE n \in Places
  <2> HAVE Row(n).key = key
  <2>1. n < C \/ C <= n
    BY <1>2
  <2> QED BY <1>7, <1>8, <1>11, <2>1
<1> QED BY <1>11, <1>14, <1>15, <1>16 DEF ScansOf, scans

-----------------------------------------------------------------------------
(* The manifest workers. *)

\* What is read of the index stays as it is.
LEMMA SameTable ==
    ASSUME UNCHANGED index
    PROVE  /\ Places' = Places /\ (\A n : Row(n)' = Row(n)) /\ (\A n : Descriptor(n)' = Descriptor(n))
           /\ Hwm' = Hwm /\ Committed' = Committed
           /\ ManifestWorkers' = ManifestWorkers /\ Preflight' = Preflight
           /\ MaxManifestRows' = MaxManifestRows /\ index.budget' = index.budget
           /\ (\A n : Vector(n)' = Vector(n))
           /\ TableInv' = TableInv
<1>1. SegmentsTable' = SegmentsTable /\ Committed' = Committed /\ Hwm' = Hwm
  BY DEF SegmentsTable, Committed, Hwm
<1>2. Places' = Places
  BY <1>1 DEF Places
<1>3. \A n : Row(n)' = Row(n)
  BY <1>1 DEF Row
<1>4. \A n : Descriptor(n)' = Descriptor(n)
  BY <1>1 DEF Descriptor
<1>5. ManifestWorkers' = ManifestWorkers
  BY DEF ManifestWorkers, KeyBytes
<1>6. Preflight' = Preflight
  BY <1>5 DEF Preflight, KeyBytes
<1>7. MaxManifestRows' = MaxManifestRows
  BY <1>6 DEF MaxManifestRows
<1>8. \A n : Vector(n)' = Vector(n)
  BY <1>1 DEF Vector
<1>9. TableInv' = TableInv
  BY <1>1, <1>2, <1>3, SMTT(20) DEF TableInv
<1> QED BY <1>1, <1>2, <1>3, <1>4, <1>5, <1>6, <1>7, <1>8, <1>9

\* There are a key and a worker, and finitely many of each.
LEMMA KeysFinite ==
    /\ IsFiniteSet(Keys) /\ Keys \in SUBSET Int /\ Cardinality(Keys) \in Nat \ {0}
    /\ IsFiniteSet(Workers) /\ Cardinality(Workers) \in Nat \ {0}
<1>1. /\ IsFiniteSet(Keys) /\ Keys \in SUBSET Int /\ Keys # {}
      /\ IsFiniteSet(Workers) /\ Workers # {}
  BY ProbeConstants
<1> QED BY <1>1, FS_CardinalityType, FS_EmptySet

\* What the budget leaves for descriptors after the preflight.
LEMMA BudgetNumbers ==
    ASSUME TableInv
    PROVE  /\ KeyBytes \in Nat /\ index.budget \in Nat
           /\ KeyBytes + PREFLIGHT_PER_WORKER <= index.budget =>
                 /\ ManifestWorkers \in Nat \ {0} /\ Preflight \in Nat
                 /\ Preflight <= index.budget /\ MaxManifestRows \in Nat
                 /\ \A n \in 0 .. MaxManifestRows :
                       n * MANIFEST_PER_ROW \in Nat /\ Preflight + n * MANIFEST_PER_ROW <= index.budget
<1> DEFINE P == PREFLIGHT_PER_WORKER
           M == MANIFEST_PER_ROW
           B == index.budget
           left == B - KeyBytes
           q == left \div P
           W == ManifestWorkers
<1>1. P \in Nat \ {0} /\ M \in Nat \ {0} /\ B \in Nat /\ PREFLIGHT_FIXED \in Nat /\ PREFLIGHT_PER_KEY \in Nat
  BY ProbeConstants DEF TableInv
<1>2. /\ Cardinality(Keys) \in Nat \ {0} /\ Cardinality(Workers) \in Nat \ {0}
  BY KeysFinite
<1>3. KeyBytes \in Nat
  <2> DEFINE n == Cardinality(Keys)
  <2> HIDE DEF n
  <2>1. n * PREFLIGHT_PER_KEY \in Nat
    BY <1>1, <1>2 DEF n
  <2> QED BY <1>1, <2>1 DEF KeyBytes, n
<1> HIDE DEF B, P, M
<1>4. ASSUME KeyBytes + P <= B
      PROVE  /\ W \in Nat \ {0} /\ Preflight \in Nat
             /\ Preflight <= B /\ MaxManifestRows \in Nat
             /\ \A n \in 0 .. MaxManifestRows : n * M \in Nat /\ Preflight + n * M <= B
  <2>1. left \in Nat /\ P <= left
    BY <1>1, <1>3, <1>4
  <2> HIDE DEF left
  <2>2. q \in Nat /\ left % P \in 0 .. P - 1 /\ left = P * q + (left % P)
    BY <1>1, <2>1, Division
  <2> HIDE DEF q
  <2>3. q # 0
    BY <1>1, <2>1, <2>2
  <2>4. W = Min({Cardinality(Workers), Cardinality(Keys), q})
    BY DEF ManifestWorkers, q, left, P, B
  <2>5. W \in {Cardinality(Workers), Cardinality(Keys), q} /\ W <= q
    <3>1. Cardinality(Workers) \in Int /\ Cardinality(Keys) \in Int /\ q \in Int
      BY <1>2, <2>2
    <3> HIDE DEF W
    <3> QED BY <3>1, <2>4, TripleMinMax
  <2> HIDE DEF W
  <2>6. W \in Nat \ {0} /\ W <= q
    BY <1>2, <2>2, <2>3, <2>5
  <2>7. W * P \in Nat /\ W * P <= left
    <3>1. q - W \in Nat
      BY <2>2, <2>6
    <3>2. P * q = W * P + P * (q - W) /\ P * (q - W) \in Nat /\ W * P \in Nat /\ P * q \in Nat
      BY <1>1, <2>2, <2>6, <3>1
    <3> QED BY <1>1, <2>1, <2>2, <3>2
  <2>8. Preflight = KeyBytes + W * P
    BY DEF Preflight, W, P
  <2>9. Preflight \in Nat /\ Preflight <= B
    BY <1>1, <1>3, <2>1, <2>7, <2>8 DEF left
  <2> DEFINE room == B - Preflight
             rows == room \div M
  <2>10. room \in Nat
    BY <1>1, <2>9
  <2> HIDE DEF room
  <2>11. rows \in Nat /\ room % M \in 0 .. M - 1 /\ room = M * rows + (room % M)
    BY <1>1, <2>10, Division
  <2> HIDE DEF rows
  <2>12. MaxManifestRows = rows
    BY DEF MaxManifestRows, rows, room, B, M
  <2>13. ASSUME NEW n \in 0 .. rows PROVE n * M \in Nat /\ Preflight + n * M <= B
    <3>1. rows - n \in Nat /\ n \in Nat
      BY <2>11
    <3>2. M * rows = n * M + M * (rows - n) /\ M * (rows - n) \in Nat /\ n * M \in Nat /\ M * rows \in Nat
      BY <1>1, <2>11, <3>1
    <3>3. n * M <= room
      BY <1>1, <2>10, <2>11, <3>2
    <3> QED BY <1>1, <2>9, <3>2, <3>3 DEF room
  <2> QED BY <2>6, <2>9, <2>11, <2>12, <2>13
<1> QED BY <1>1, <1>3, <1>4 DEF B, P, M

\* A worker's state, and what it has still to read.
UnreadOf(s) == s.left \union UNION {s.scans[i] : i \in DOMAIN s.scans}

\* What holds of one worker's state.
Reading(s) ==
    /\ \A n \in UnreadOf(s) :
           Row(n).key = s.key /\ Claimed(s.key) /\ Descriptor(n) \notin per_key[s.key]
    /\ \A i \in DOMAIN s.scans :
           /\ s.scans[i] \cap s.left = {}
           /\ \A j \in DOMAIN s.scans : i # j => s.scans[i] \cap s.scans[j] = {}

\* The invariants of one worker.
LEMMA WorkerIs ==
    ASSUME WorkersInv, ReadInv, NEW w \in Workers
    PROVE  /\ worker[w] \in WorkerStates /\ UnreadOf(worker[w]) = Unread(w) /\ Reading(worker[w])
           /\ DOMAIN worker = Workers
  BY DEF WorkersInv, ReadInv, UnreadOf, Unread, Reading

\* A step of one worker that counts and charges nothing.
LEMMA WorkerMoves ==
    ASSUME TableInv, WorkersInv, ReadInv, NEW w \in Workers, NEW s \in WorkerStates,
           worker' = [worker EXCEPT ![w] = s], outcome = "planning",
           s.at = "idle" => s.left = {} /\ s.scans = <<>>,
           s.at = "charge" => s.left # {},
           UNCHANGED <<index, per_key, outcome>>, total_rows' \in Nat, declined' \in BOOLEAN, cursor' \in Nat,
           \A k \in Keys : Claimed(k) => Claimed(k)',
           \A n \in UnreadOf(s) :
               Row(n).key = s.key /\ Claimed(s.key)' /\ Descriptor(n) \notin per_key[s.key],
           \A i \in DOMAIN s.scans :
               /\ s.scans[i] \cap s.left = {}
               /\ \A j \in DOMAIN s.scans : i # j => s.scans[i] \cap s.scans[j] = {},
           \A v \in Workers : v # w => Unread(v) \cap UnreadOf(s) = {}
    PROVE  /\ WorkersInv' /\ ReadInv'
           /\ Unread(w)' = UnreadOf(s) /\ \A v \in Workers : v # w => Unread(v)' = Unread(v)
<1>1. /\ worker'[w] = s /\ \A v \in Workers : v # w => worker'[v] = worker[v]
      /\ worker' \in [Workers -> WorkerStates]
  BY DEF WorkersInv
<1>2. Unread(w)' = UnreadOf(s)
  BY <1>1 DEF Unread, UnreadOf
<1>3. \A v \in Workers : v # w => Unread(v)' = Unread(v)
  BY <1>1 DEF Unread
<1>4. /\ Places' = Places /\ (\A n : Row(n)' = Row(n)) /\ (\A n : Descriptor(n)' = Descriptor(n))
  BY SameTable
<1>5. WorkerStates' = WorkerStates
  BY <1>4 DEF WorkerStates
<1>6. WorkersInv'
  <2>1. \A v \in Workers : /\ worker'[v].at = "idle" => worker'[v].left = {} /\ worker'[v].scans = <<>>
                           /\ worker'[v].at = "charge" => worker'[v].left # {}
    BY <1>1 DEF WorkersInv
  <2> QED BY <1>1, <1>5, <2>1 DEF WorkersInv
<1>7. \A v \in Workers : \A n \in Unread(v)' :
          /\ Row(n).key = worker'[v].key
          /\ Claimed(worker[v].key)'
          /\ Descriptor(n) \notin per_key[worker'[v].key]
  <2> TAKE v \in Workers
  <2> TAKE n \in Unread(v)'
  <2>1. CASE v = w
    BY <1>1, <1>2, <2>1
  <2>2. CASE v # w
    <3>1. /\ n \in Unread(v) /\ Row(n).key = worker[v].key /\ Claimed(worker[v].key)
          /\ Descriptor(n) \notin per_key[worker[v].key]
      BY <1>3, <2>2 DEF ReadInv
    <3>2. worker[v].key \in Keys
      <4>1. n \in Places
        <5>1. worker[v].left \in SUBSET Places /\ worker[v].scans \in Seq(SUBSET Places)
          BY DEF WorkersInv, WorkerStates
        <5>2. \A i \in DOMAIN worker[v].scans : worker[v].scans[i] \in SUBSET Places
          BY <5>1
        <5> QED BY <3>1, <5>1, <5>2 DEF Unread
      <4> QED BY <3>1, <4>1 DEF TableInv
    <3>3. \A k \in Keys : k = worker[v].key => Claimed(k)'
      BY <3>1
    <3>4. worker'[v] = worker[v]
      BY <1>1, <2>2
    <3>5. Claimed(worker[v].key)'
      BY <3>2, <3>3, <3>4
    <3> QED BY <3>1, <3>4, <3>5
  <2> QED BY <2>1, <2>2
<1>8. \A v \in Workers : \A i \in DOMAIN worker'[v].scans :
          /\ worker'[v].scans[i] \cap worker'[v].left = {}
          /\ \A j \in DOMAIN worker'[v].scans : i # j => worker'[v].scans[i] \cap worker'[v].scans[j] = {}
  <2> TAKE v \in Workers
  <2>1. CASE v = w
    BY <1>1, <2>1
  <2>2. CASE v # w
    BY <1>1, <2>2 DEF ReadInv
  <2> QED BY <2>1, <2>2
<1>9. \A u, v \in Workers : u # v => Unread(u)' \cap Unread(v)' = {}
  BY <1>2, <1>3 DEF ReadInv
<1>10. \A k \in Keys : ~Claimed(k)' => per_key[k] = {}
  BY DEF ReadInv
<1>11. \A k \in Keys : \A d \in per_key[k] : \E n \in Places : d = Descriptor(n) /\ Row(n).key = k
  BY DEF ReadInv
<1>12. per_key' = per_key
  OBVIOUS
<1>13. ReadInv'
  BY <1>4, <1>7, <1>8, <1>9, <1>10, <1>11, <1>12 DEF ReadInv
<1> QED BY <1>2, <1>3, <1>6, <1>13

\* A worker's chunk is told by the rows it has left.
LEMMA ChunkOf ==
    ASSUME UNCHANGED index, NEW v, worker'[v].left = worker[v].left
    PROVE  Chunk(v)' = Chunk(v)
<1>1. \A n : Vector(n)' = Vector(n)
  BY SameTable
<1> QED BY <1>1 DEF Chunk

\* A step of one worker that holds no count before or after it.
LEMMA NothingPending ==
    ASSUME WorkersInv, NEW w \in Workers, NEW s, worker' = [worker EXCEPT ![w] = s],
           worker[w].at # "charge", s.at # "charge", UNCHANGED index
    PROVE  Pending' = Pending
<1>1. worker'[w] = s /\ \A v \in Workers : v # w => worker'[v] = worker[v]
  BY DEF WorkersInv
<1>2. {v \in Workers : worker'[v].at = "charge"} = {v \in Workers : worker[v].at = "charge"}
  BY <1>1
<1>3. \A v \in {u \in Workers : worker[u].at = "charge"} : Chunk(v)' = Chunk(v)
  BY <1>1, ChunkOf
<1> DEFINE S == {u \in Workers : worker[u].at = "charge"}
<1>4. Pending = UNION {{v} \X Chunk(v) : v \in S}
  BY DEF Pending
<1>5. Pending' = UNION {{v} \X Chunk(v)' : v \in S}
  BY <1>2 DEF Pending
<1> HIDE DEF S
<1>6. {{v} \X Chunk(v)' : v \in S} = {{v} \X Chunk(v) : v \in S}
  BY <1>3 DEF S
<1> QED BY <1>4, <1>5, <1>6

\* The segments table is finite.
LEMMA PlacesFinite ==
    ASSUME TableInv
    PROVE  IsFiniteSet(Places) /\ Places \in SUBSET Int
<1>1. 0 \in Int /\ Len(SegmentsTable) - 1 \in Int
  BY DEF TableInv
<1>2. IsFiniteSet(Places)
  BY <1>1, FS_Interval DEF Places
<1>3. Places \in SUBSET Int
  BY <1>1 DEF Places
<1> QED BY <1>2, <1>3

\* So are the chunks, and the counts not charged yet.
LEMMA PendingFinite ==
    ASSUME TableInv, WorkersInv
    PROVE  /\ IsFiniteSet(Pending) /\ Cardinality(Pending) \in Nat /\ Cardinality(Pending) \in Int
           /\ \A w \in Workers : IsFiniteSet(Chunk(w)) /\ Chunk(w) \in SUBSET Places /\ Cardinality(Chunk(w)) \in Nat
<1>1. IsFiniteSet(Places)
  BY PlacesFinite
<1>2. IsFiniteSet(Workers \X Places)
  BY <1>1, KeysFinite, FS_Product
<1>3. \A v \in Workers : Chunk(v) \in SUBSET Places
  BY DEF Chunk, WorkersInv, WorkerStates
<1>4. Pending \in SUBSET (Workers \X Places)
  BY <1>3 DEF Pending
<1>5. IsFiniteSet(Pending)
  BY <1>2, <1>4, FS_Subset
<1>6. Cardinality(Pending) \in Nat
  BY <1>5, FS_CardinalityType
<1>7. \A w \in Workers : IsFiniteSet(Chunk(w)) /\ Cardinality(Chunk(w)) \in Nat
  BY <1>1, <1>3, FS_Subset, FS_CardinalityType
<1> QED BY <1>3, <1>5, <1>6, <1>7

\* The rows one worker holds a count for.
LEMMA PendingOf ==
    ASSUME NEW w, NEW C, IsFiniteSet(C)
    PROVE  IsFiniteSet({w} \X C) /\ Cardinality({w} \X C) = Cardinality(C)
<1>1. IsFiniteSet({w}) /\ Cardinality({w}) = 1
  BY FS_Singleton
<1>2. IsFiniteSet({w} \X C) /\ Cardinality({w} \X C) = 1 * Cardinality(C)
  BY <1>1, FS_Product
<1>3. Cardinality(C) \in Nat
  BY FS_CardinalityType
<1> QED BY <1>2, <1>3

\* The size of two sets without a common element.
LEMMA DisjointUnion ==
    ASSUME NEW S, NEW T, IsFiniteSet(S), IsFiniteSet(T), S \cap T = {}
    PROVE  /\ IsFiniteSet(S \union T)
           /\ Cardinality(S \union T) = Cardinality(S) + Cardinality(T)
<1>1. /\ IsFiniteSet(S \union T)
      /\ Cardinality(S \union T) = Cardinality(S) + Cardinality(T) - Cardinality({})
  BY FS_Union
<1>2. Cardinality({}) = 0
  BY FS_EmptySet
<1>3. Cardinality(S) \in Nat /\ Cardinality(T) \in Nat
  BY FS_CardinalityType
<1> QED BY <1>1, <1>2, <1>3

\* A step that charges nothing, and counts no less, keeps the budget.
LEMMA BudgetKept ==
    ASSUME TableInv, WorkersInv, BudgetInv, UNCHANGED <<index, reservation, per_key, outcome>>,
           Pending' = Pending, total_rows' \in Nat, total_rows <= total_rows'
    PROVE  BudgetInv'
<1>1. /\ Preflight' = Preflight /\ MaxManifestRows' = MaxManifestRows /\ index.budget' = index.budget
  BY SameTable
<1>2. reservation' \in Nat /\ reservation' <= index'.budget
  BY DEF BudgetInv
<1>3. ASSUME outcome' = "planning"
      PROVE  /\ KeyBytes + PREFLIGHT_PER_WORKER <= index'.budget
             /\ \E charged \in 0 .. total_rows' :
                  /\ reservation' = Preflight' + charged * MANIFEST_PER_ROW
                  /\ Cardinality(UNION {per_key'[k] : k \in Keys}) <= charged
                  /\ charged + Cardinality(Pending') <= total_rows'
                  /\ charged + Cardinality(Pending') <= MaxManifestRows'
  <2>1. PICK charged \in 0 .. total_rows :
              /\ reservation = Preflight + charged * MANIFEST_PER_ROW
              /\ Cardinality(UNION {per_key[k] : k \in Keys}) <= charged
              /\ charged + Cardinality(Pending) <= total_rows
              /\ charged + Cardinality(Pending) <= MaxManifestRows
    BY <1>3 DEF BudgetInv
  <2>2. total_rows \in Nat /\ Cardinality(Pending) \in Int
    <3> QED BY PendingFinite DEF WorkersInv
  <2>3. charged \in 0 .. total_rows' /\ charged + Cardinality(Pending') <= total_rows'
    BY <2>1, <2>2
  <2> QED BY <1>1, <1>3, <2>1, <2>3 DEF BudgetInv
<1>4. KeyBytes' = KeyBytes
  BY DEF KeyBytes
<1> QED BY <1>2, <1>3, <1>4 DEF BudgetInv

\* The keys are claimed one after another.
LEMMA NextClaim ==
    ASSUME NEW c \in Nat, c < Cardinality(Keys), NEW key, key = Ascending(Keys)[c + 1]
    PROVE  /\ key \in Keys
           /\ \A j \in 1 .. Cardinality(Keys) : j <= c => Ascending(Keys)[j] # key
<1> DEFINE N == Cardinality(Keys)
           A == Ascending(Keys)
<1>1. Keys \in SUBSET Int /\ N \in Nat
  BY KeysFinite
<1>2. /\ \A i \in 1 .. N : A[i] \in Keys
      /\ \A i, k \in 1 .. N : i < k => A[i] < A[k]
  BY <1>1, KeysFinite, AscendingLists
<1> HIDE DEF A
<1>3. c + 1 \in 1 .. N
  BY <1>1
<1>4. \A j \in 1 .. N : j <= c => A[j] # key
  <2> TAKE j \in 1 .. N
  <2> HAVE j <= c
  <2>1. j < c + 1
    BY <1>1
  <2>2. A[j] < A[c + 1] /\ A[j] \in Int /\ A[c + 1] \in Int
    BY <1>1, <1>2, <1>3, <2>1
  <2> QED BY <2>2 DEF A
<1> QED BY <1>2, <1>3, <1>4 DEF A

\* A claimed key's rows are unread, by this worker alone.
LEMMA ClaimKeyStep ==
    ASSUME TableInv, ManifestInv, NEW w \in Workers, ClaimKey(w)
    PROVE  ManifestInv'
<1> DEFINE old == worker[w]
<1>0. WorkersInv /\ ReadInv /\ CompleteInv /\ BudgetInv
  BY DEF ManifestInv
<1>1. old.at = "scan" /\ UnitEnds(w)
  BY DEF ClaimKey
<1>2. outcome = "planning"
  BY <1>0, <1>1 DEF WorkersInv
<1>3. UNCHANGED <<index, per_key, outcome>> /\ total_rows' = total_rows /\ declined' = declined
      /\ cursor' = cursor + 1 /\ reservation' = reservation
  BY DEF ClaimKey
<1>4. total_rows' \in Nat /\ declined' \in BOOLEAN /\ cursor' \in Nat /\ cursor \in Nat
  BY <1>0, <1>3 DEF WorkersInv
<1>5. \A k \in Keys : Claimed(k) => Claimed(k)'
  <2> TAKE k \in Keys
  <2>1. \A j \in Int : j <= cursor => j <= cursor'
    BY <1>3, <1>4
  <2> QED BY <2>1, KeysFinite DEF Claimed
<1>6. ~declined => Unread(w) = {}
  <2> HAVE ~declined
  <2>1. worker[w].left = {} /\ worker[w].scans = <<>>
    BY <1>1 DEF UnitEnds
  <2>2. DOMAIN worker[w].scans = {}
    BY <2>1
  <2> QED BY <2>1, <2>2 DEF Unread
<1>7. \A n : Row(n)' = Row(n) /\ Descriptor(n)' = Descriptor(n)
  BY <1>3, SameTable
<1>8. Places' = Places
  BY <1>3, SameTable
<1>9. CASE cursor < Cardinality(Keys)
  <2> DEFINE key == Ascending(Keys)[cursor + 1]
             scans == KeyScans(key)
             s == [at |-> "scan", key |-> key, scans |-> scans, left |-> {}]
  <2>1. worker' = [worker EXCEPT ![w] = s]
    BY <1>9 DEF ClaimKey
  <2>2. /\ key \in Keys /\ \A j \in 1 .. Cardinality(Keys) : j <= cursor => Ascending(Keys)[j] # key
    BY <1>4, <1>9, NextClaim
  <2>3. ScansOf(scans, key)
    BY <2>2, ScansOfKey
  <2> HIDE DEF key, scans
  <2>4. ~Claimed(key) /\ per_key[key] = {}
    <3>1. ~Claimed(key)
      BY <2>2 DEF Claimed, key
    <3> QED BY <1>0, <2>2, <3>1 DEF ReadInv
  <2>5. \A k : k = key => Claimed(k)'
    <3> TAKE k
    <3> HAVE k = key
    <3>1. cursor + 1 \in 1 .. Cardinality(Keys) /\ cursor + 1 <= cursor'
      BY <1>3, <1>4, <1>9, KeysFinite
    <3>2. Ascending(Keys)[cursor + 1] = k
      BY DEF key
    <3> HIDE DEF key
    <3> QED BY <3>1, <3>2 DEF Claimed
  <2>6. /\ s \in WorkerStates /\ UnreadOf(s) = UNION {scans[i] : i \in DOMAIN scans}
        /\ s.at = "scan" /\ s.left = {} /\ s.scans = scans /\ s.key = key
    BY <2>2, <2>3 DEF WorkerStates, UnreadOf, ScansOf
  <2> HIDE DEF s
  <2>7. \A n \in UnreadOf(s) : n \in Places /\ Row(n).key = key
    <3>1. \A i \in DOMAIN scans : scans[i] \in SUBSET Places
      BY <2>3 DEF ScansOf
    <3> QED BY <2>3, <2>6, <3>1 DEF ScansOf
  <2>8. \A v \in Workers : v # w => Unread(v) \cap UnreadOf(s) = {}
    <3> TAKE v \in Workers
    <3> SUFFICES ASSUME NEW n \in Unread(v), n \in UnreadOf(s) PROVE FALSE
      OBVIOUS
    <3>1. Row(n).key = worker[v].key /\ Claimed(worker[v].key) /\ Row(n).key = key
      BY <1>0, <2>7 DEF ReadInv
    <3> QED BY <2>4, <3>1
  <2>9. \A i \in DOMAIN s.scans :
               /\ s.scans[i] \cap s.left = {}
               /\ \A j \in DOMAIN s.scans : i # j => s.scans[i] \cap s.scans[j] = {}
    BY <2>3, <2>6 DEF ScansOf
  <2>10. \A n \in UnreadOf(s) : Row(n).key = s.key /\ Descriptor(n) \notin per_key[s.key]
    BY <2>4, <2>6, <2>7
  <2>11. PICK t : t = s
    OBVIOUS
  <2>12. Claimed(t.key)'
    BY <2>5, <2>6, <2>11
  <2> HIDE DEF s
  <2>13. /\ WorkersInv' /\ ReadInv'
         /\ Unread(w)' = UnreadOf(t) /\ \A v \in Workers : v # w => Unread(v)' = Unread(v)
    BY <1>0, <1>2, <1>3, <1>4, <1>5, <2>1, <2>6, <2>8, <2>9, <2>10, <2>11, <2>12, WorkerMoves
  <2>14. CompleteInv'
    <3>1. ~declined => \A n \in Places : Claimed(Row(n).key)' =>
              Descriptor(n) \in per_key[Row(n).key] \/ \E v \in Workers : n \in Unread(v)'
      <4> HAVE ~declined
      <4> TAKE n \in Places
      <4> HAVE Claimed(Row(n).key)'
      <4>1. CASE Row(n).key = key
        <5>1. \E i \in DOMAIN scans : n \in scans[i]
          BY <2>3, <4>1 DEF ScansOf
        <5> QED BY <2>6, <2>11, <2>13, <5>1
      <4>2. CASE Row(n).key # key
        <5>1. Claimed(Row(n).key)
          <6>1. PICK j \in 1 .. Cardinality(Keys) : j <= cursor' /\ Ascending(Keys)[j] = Row(n).key
            BY <1>7 DEF Claimed
          <6>2. j # cursor + 1
            BY <4>2, <6>1 DEF key
          <6>3. j <= cursor
            BY <1>3, <1>4, <6>1, <6>2, KeysFinite
          <6> QED BY <6>1, <6>3 DEF Claimed
        <5>2. Descriptor(n) \in per_key[Row(n).key] \/ \E v \in Workers : n \in Unread(v)
          BY <1>0, <5>1 DEF CompleteInv
        <5> QED BY <1>6, <2>13, <5>2
      <4> QED BY <4>1, <4>2
    <3>2. \E v \in Workers : worker'[v].at # "idle"
      <4>1. worker'[w] = s
        BY <1>0, <2>1 DEF WorkersInv
      <4> QED BY <2>6, <4>1
    <3> QED BY <1>3, <1>7, <1>8, <3>1, <3>2 DEF CompleteInv
  <2>15. BudgetInv'
    <3>1. Pending' = Pending
      BY <1>0, <1>1, <1>3, <2>1, <2>6, NothingPending
    <3>2. total_rows <= total_rows'
      BY <1>3, <1>4
    <3> QED BY <1>0, <1>3, <1>4, <3>1, <3>2, BudgetKept
  <2> QED BY <2>13, <2>14, <2>15 DEF ManifestInv
<1>10. CASE ~(cursor < Cardinality(Keys))
  <2>1. worker' = [worker EXCEPT ![w] = Idle]
    BY <1>10 DEF ClaimKey
  <2>2. /\ Idle \in WorkerStates /\ UnreadOf(Idle) = {}
        /\ Idle.at = "idle" /\ Idle.left = {} /\ Idle.scans = <<>> /\ DOMAIN Idle.scans = {}
    BY DEF Idle, WorkerStates, UnreadOf
  <2>3. /\ WorkersInv' /\ ReadInv'
        /\ Unread(w)' = {} /\ \A v \in Workers : v # w => Unread(v)' = Unread(v)
    BY <1>0, <1>2, <1>3, <1>4, <1>5, <2>1, <2>2, WorkerMoves
  <2>4. \A k : Claimed(k)' => Claimed(k)
    <3>1. \A j \in 1 .. Cardinality(Keys) : j <= cursor
      BY <1>4, <1>10, KeysFinite
    <3> QED BY <3>1 DEF Claimed
  <2>5. CompleteInv'
    <3>1. ~declined => \A n \in Places : Claimed(Row(n).key)' =>
              Descriptor(n) \in per_key[Row(n).key] \/ \E v \in Workers : n \in Unread(v)'
      <4> HAVE ~declined
      <4> TAKE n \in Places
      <4> HAVE Claimed(Row(n).key)'
      <4>1. Claimed(Row(n).key)
        <5>1. PICK k : k = Row(n).key
          OBVIOUS
        <5>2. Claimed(k)'
          BY <1>7, <5>1
        <5> QED BY <2>4, <5>1, <5>2
      <4>2. Descriptor(n) \in per_key[Row(n).key] \/ \E v \in Workers : n \in Unread(v)
        BY <1>0, <4>1 DEF CompleteInv
      <4> QED BY <1>6, <2>3, <4>2
    <3>2. ~(cursor' < Cardinality(Keys))
      BY <1>3, <1>4, <1>10, KeysFinite
    <3> QED BY <1>3, <1>7, <1>8, <3>1, <3>2 DEF CompleteInv
  <2>6. BudgetInv'
    <3>1. Pending' = Pending
      BY <1>0, <1>1, <1>3, <2>1, <2>2, NothingPending
    <3>2. total_rows <= total_rows'
      BY <1>3, <1>4
    <3> QED BY <1>0, <1>3, <1>4, <3>1, <3>2, BudgetKept
  <2> QED BY <2>3, <2>5, <2>6 DEF ManifestInv
<1> QED BY <1>9, <1>10

\* A scan begun leaves the same rows unread.
LEMMA BeginScanStep ==
    ASSUME TableInv, ManifestInv, NEW w \in Workers, BeginScan(w)
    PROVE  ManifestInv'
<1> DEFINE old == worker[w]
           s == [old EXCEPT !.left = Head(old.scans), !.scans = Tail(old.scans)]
<1>0. WorkersInv /\ ReadInv /\ CompleteInv /\ BudgetInv
  BY DEF ManifestInv
<1>1. old.at = "scan" /\ old.left = {} /\ old.scans # <<>> /\ ~declined
  BY DEF BeginScan, UnitEnds
<1>2. outcome = "planning"
  BY <1>0, <1>1 DEF WorkersInv
<1>3. UNCHANGED <<index, per_key, outcome>> /\ total_rows' = total_rows /\ declined' = declined
      /\ cursor' = cursor /\ reservation' = reservation
  BY DEF BeginScan
<1>4. total_rows' \in Nat /\ declined' \in BOOLEAN /\ cursor' \in Nat
  BY <1>0, <1>3 DEF WorkersInv
<1>5. \A k : Claimed(k)' = Claimed(k)
  BY <1>3 DEF Claimed
<1>6. old \in WorkerStates /\ UnreadOf(old) = Unread(w) /\ Reading(old) /\ DOMAIN worker = Workers
  BY <1>0, WorkerIs
<1>7. worker' = [worker EXCEPT ![w] = s]
  BY <1>6 DEF BeginScan
<1>8. old.scans \in Seq(SUBSET Places) /\ old.key \in Keys \union {0}
  BY <1>6 DEF WorkerStates
<1> DEFINE L == Len(old.scans)
<1>9. /\ s.at = "scan" /\ s.key = old.key /\ s.left = Head(old.scans) /\ s.scans = Tail(old.scans)
      /\ s \in WorkerStates
  <2>1. Head(old.scans) \in SUBSET Places /\ Tail(old.scans) \in Seq(SUBSET Places)
    BY <1>1, <1>8
  <2> QED BY <1>1, <1>6, <2>1 DEF WorkerStates
<1> HIDE DEF s
<1>10. /\ L \in Nat /\ L > 0 /\ DOMAIN old.scans = 1 .. L /\ DOMAIN s.scans = 1 .. L - 1
       /\ s.left = old.scans[1] /\ 1 \in 1 .. L
       /\ \A i \in 1 .. L - 1 : s.scans[i] = old.scans[i + 1] /\ i + 1 \in 1 .. L /\ i + 1 # 1
       /\ \A i \in 1 .. L : i = 1 \/ (i - 1 \in 1 .. L - 1 /\ (i - 1) + 1 = i)
  BY <1>1, <1>8, <1>9
<1>11. UnreadOf(s) = Unread(w)
  <2>1. ASSUME NEW n \in UnreadOf(s) PROVE n \in UnreadOf(old)
    BY <1>10, <2>1, SMTT(20) DEF UnreadOf
  <2>2. ASSUME NEW n \in UnreadOf(old) PROVE n \in UnreadOf(s)
    <3>1. PICK i \in 1 .. L : n \in old.scans[i]
      BY <1>1, <1>10 DEF UnreadOf
    <3>2. CASE i = 1
      BY <1>10, <3>1, <3>2 DEF UnreadOf
    <3>3. CASE i # 1
      <4>1. i - 1 \in 1 .. L - 1 /\ s.scans[i - 1] = old.scans[i]
        BY <1>10, <3>3
      <4> QED BY <1>10, <3>1, <4>1 DEF UnreadOf
    <3> QED BY <3>2, <3>3
  <2> QED BY <1>6, <2>1, <2>2
<1>12. \A i \in DOMAIN s.scans :
               /\ s.scans[i] \cap s.left = {}
               /\ \A j \in DOMAIN s.scans : i # j => s.scans[i] \cap s.scans[j] = {}
  <2>1. \A i, j \in 1 .. L : i # j => old.scans[i] \cap old.scans[j] = {}
    BY <1>6, <1>10 DEF Reading
  <2> TAKE i \in DOMAIN s.scans
  <2>2. i \in 1 .. L - 1 /\ i \in Int
    BY <1>10
  <2>3. \A j \in DOMAIN s.scans : i # j => s.scans[i] \cap s.scans[j] = {}
    <3> TAKE j \in DOMAIN s.scans
    <3> HAVE i # j
    <3>1. j \in 1 .. L - 1 /\ j \in Int /\ i + 1 # j + 1
      BY <1>10, <2>2
    <3>2. /\ i + 1 \in 1 .. L /\ j + 1 \in 1 .. L
          /\ s.scans[i] = old.scans[i + 1] /\ s.scans[j] = old.scans[j + 1]
      BY <1>10, <2>2, <3>1
    <3> HIDE DEF old, L
    <3> QED BY <2>1, <3>1, <3>2
  <2> QED BY <1>10, <2>1, <2>2, <2>3
<1>13. \A n \in UnreadOf(s) : Row(n).key = s.key /\ Claimed(s.key) /\ Descriptor(n) \notin per_key[s.key]
  BY <1>6, <1>9, <1>11 DEF Reading
<1>14. PICK t : t = s
  OBVIOUS
<1>15. \A n \in UnreadOf(t) : Row(n).key = t.key /\ Claimed(t.key)' /\ Descriptor(n) \notin per_key[t.key]
  BY <1>5, <1>13, <1>14
<1>16. \A v \in Workers : v # w => Unread(v) \cap UnreadOf(t) = {}
  BY <1>0, <1>11, <1>14 DEF ReadInv
<1>17. /\ WorkersInv' /\ ReadInv'
       /\ Unread(w)' = UnreadOf(t) /\ \A v \in Workers : v # w => Unread(v)' = Unread(v)
  BY <1>0, <1>2, <1>3, <1>4, <1>5, <1>7, <1>9, <1>12, <1>14, <1>15, <1>16, WorkerMoves
<1>18. \A n : Row(n)' = Row(n) /\ Descriptor(n)' = Descriptor(n)
  BY <1>3, SameTable
<1>19. Places' = Places
  BY <1>3, SameTable
<1>20. CompleteInv'
  <2>1. \A v \in Workers : Unread(v)' = Unread(v)
    BY <1>11, <1>14, <1>17
  <2>2. worker'[w].at # "idle"
    BY <1>6, <1>7, <1>9
  <2>3. \A n : Claimed(Row(n).key)' = Claimed(Row(n).key)
    BY <1>3, <1>18 DEF Claimed
  <2> QED BY <1>0, <1>3, <1>18, <1>19, <2>1, <2>2, <2>3 DEF CompleteInv
<1>21. BudgetInv'
  <2>1. Pending' = Pending
    BY <1>0, <1>1, <1>3, <1>7, <1>9, NothingPending
  <2>2. total_rows <= total_rows'
    BY <1>3, <1>4
  <2> QED BY <1>0, <1>3, <1>4, <2>1, <2>2, BudgetKept
<1> QED BY <1>17, <1>20, <1>21 DEF ManifestInv

\* A count that fits leaves room for what others have counted; one that does
\* not declines.
LEMMA CountChunkStep ==
    ASSUME TableInv, ManifestInv, NEW w \in Workers, CountChunk(w)
    PROVE  ManifestInv'
<1> DEFINE old == worker[w]
           rows == Cardinality(Chunk(w))
<1>0. WorkersInv /\ ReadInv /\ CompleteInv /\ BudgetInv
  BY DEF ManifestInv
<1>1. old.at = "scan" /\ ~UnitEnds(w) /\ old.left # {}
  BY DEF CountChunk
<1>2. outcome = "planning"
  BY <1>0, <1>1 DEF WorkersInv
<1>3. UNCHANGED <<index, per_key, outcome>> /\ total_rows' = total_rows + rows
      /\ cursor' = cursor /\ reservation' = reservation
  BY DEF CountChunk
<1>4. rows \in Nat /\ IsFiniteSet(Chunk(w))
  BY <1>0, PendingFinite
<1>5. total_rows' \in Nat /\ total_rows \in Nat /\ cursor' \in Nat /\ total_rows <= total_rows'
  <2> HIDE DEF rows
  <2> QED BY <1>0, <1>3, <1>4 DEF WorkersInv
<1>6. \A k : Claimed(k)' = Claimed(k)
  BY <1>3 DEF Claimed
<1>7. old \in WorkerStates /\ UnreadOf(old) = Unread(w) /\ Reading(old) /\ DOMAIN worker = Workers
  BY <1>0, WorkerIs
<1>8. \A n : Row(n)' = Row(n) /\ Descriptor(n)' = Descriptor(n)
  BY <1>3, SameTable
<1>9. Places' = Places /\ MaxManifestRows' = MaxManifestRows /\ Preflight' = Preflight
  BY <1>3, SameTable
<1>10. CASE ManifestFits(total_rows, rows)
  <2> DEFINE s == [old EXCEPT !.at = "charge"]
  <2>1. worker' = [worker EXCEPT ![w] = s] /\ declined' = declined
    BY <1>7, <1>10 DEF CountChunk
  <2>2. /\ s \in WorkerStates /\ s.at = "charge" /\ s.key = old.key /\ s.left = old.left
        /\ s.scans = old.scans
    BY <1>7 DEF WorkerStates
  <2> HIDE DEF s
  <2>3. UnreadOf(s) = Unread(w)
    BY <1>7, <2>2 DEF UnreadOf
  <2>4. Reading(s)
    BY <1>7, <2>2, <2>3 DEF Reading
  <2>5. PICK t : t = s
    OBVIOUS
  <2>51. /\ worker' = [worker EXCEPT ![w] = t] /\ t \in WorkerStates /\ t.at = "charge" /\ t.left # {}
    BY <1>1, <2>1, <2>2, <2>5
  <2>6. \A n \in UnreadOf(t) : Row(n).key = t.key /\ Claimed(t.key)' /\ Descriptor(n) \notin per_key[t.key]
    BY <1>6, <2>4, <2>5 DEF Reading
  <2>7. \A i \in DOMAIN t.scans :
               /\ t.scans[i] \cap t.left = {}
               /\ \A j \in DOMAIN t.scans : i # j => t.scans[i] \cap t.scans[j] = {}
    BY <2>4, <2>5 DEF Reading
  <2>8. \A v \in Workers : v # w => Unread(v) \cap UnreadOf(t) = {}
    BY <1>0, <2>3, <2>5 DEF ReadInv
  <2>9. declined' \in BOOLEAN
    BY <1>0, <2>1 DEF WorkersInv
  <2>10. /\ WorkersInv' /\ ReadInv'
         /\ Unread(w)' = UnreadOf(t) /\ \A v \in Workers : v # w => Unread(v)' = Unread(v)
    BY <1>0, <1>1, <1>2, <1>3, <1>5, <1>6, <2>51, <2>6, <2>7, <2>8, <2>9, WorkerMoves
  <2>11. CompleteInv'
    <3>1. \A v \in Workers : Unread(v)' = Unread(v)
      BY <2>3, <2>5, <2>10
    <3>2. worker'[w].at # "idle"
      BY <1>7, <2>1, <2>2
    <3>3. \A n : Claimed(Row(n).key)' = Claimed(Row(n).key)
      BY <1>3, <1>8 DEF Claimed
    <3> QED BY <1>0, <1>3, <1>8, <1>9, <2>1, <3>1, <3>2, <3>3 DEF CompleteInv
  <2>12. Pending' = Pending \union ({w} \X Chunk(w))
    <3>1. worker'[w] = s /\ \A v \in Workers : v # w => worker'[v] = worker[v]
      BY <1>7, <2>1
    <3>2. \A v \in Workers : Chunk(v)' = Chunk(v)
      BY <1>3, <2>2, <3>1, ChunkOf
    <3> DEFINE S == {u \in Workers : worker[u].at = "charge"}
    <3>3. {u \in Workers : worker'[u].at = "charge"} = S \union {w}
      BY <2>2, <3>1
    <3>4. Pending = UNION {{v} \X Chunk(v) : v \in S}
      BY DEF Pending
    <3>5. Pending' = UNION {{v} \X Chunk(v)' : v \in S \union {w}}
      BY <3>3 DEF Pending
    <3>6. \A v \in S : v \in Workers
      OBVIOUS
    <3> HIDE DEF S
    <3>7. {{v} \X Chunk(v)' : v \in S \union {w}} = {{v} \X Chunk(v) : v \in S} \union {{w} \X Chunk(w)}
      BY <3>2, <3>6
    <3> QED BY <3>4, <3>5, <3>7
  <2>13. Cardinality(Pending') = Cardinality(Pending) + rows /\ Cardinality(Pending) \in Nat
    <3>1. Pending \cap ({w} \X Chunk(w)) = {}
      BY <1>1 DEF Pending
    <3>2. IsFiniteSet(Pending) /\ Cardinality(Pending) \in Nat
      BY <1>0, PendingFinite
    <3>3. IsFiniteSet({w} \X Chunk(w)) /\ Cardinality({w} \X Chunk(w)) = rows
      BY <1>4, PendingOf
    <3> DEFINE T == {w} \X Chunk(w)
    <3> HIDE DEF T, rows
    <3>4. Cardinality(Pending \union T) = Cardinality(Pending) + Cardinality(T)
      BY <3>1, <3>2, <3>3, DisjointUnion DEF T
    <3> QED BY <2>12, <3>2, <3>3, <3>4 DEF T, rows
  <2>14. BudgetInv'
    <3>1. PICK charged \in 0 .. total_rows :
              /\ reservation = Preflight + charged * MANIFEST_PER_ROW
              /\ Cardinality(UNION {per_key[k] : k \in Keys}) <= charged
              /\ charged + Cardinality(Pending) <= total_rows
              /\ charged + Cardinality(Pending) <= MaxManifestRows
      BY <1>0, <1>2 DEF BudgetInv
    <3>2. total_rows + rows <= MaxManifestRows
      BY <1>10 DEF ManifestFits
    <3>3. KeyBytes + PREFLIGHT_PER_WORKER <= index.budget /\ reservation \in Nat /\ reservation <= index.budget
      BY <1>0, <1>2 DEF BudgetInv
    <3>4. MaxManifestRows \in Nat
      BY <3>3, BudgetNumbers
    <3> DEFINE p == Cardinality(Pending)
               q == Cardinality(Pending')
    <3>5. q = p + rows /\ p \in Nat
      BY <2>13
    <3> HIDE DEF rows, p, q
    <3>6. /\ charged \in 0 .. total_rows' /\ charged + q <= total_rows'
          /\ charged + q <= MaxManifestRows
      BY <1>3, <1>4, <1>5, <3>1, <3>2, <3>4, <3>5 DEF p
    <3>7. KeyBytes' = KeyBytes /\ index' = index
      BY <1>3 DEF KeyBytes
    <3>8. /\ reservation' = Preflight' + charged * MANIFEST_PER_ROW
          /\ Cardinality(UNION {per_key'[k] : k \in Keys}) <= charged
      BY <1>3, <1>9, <3>1
    <3> QED BY <1>3, <1>9, <3>3, <3>6, <3>7, <3>8 DEF BudgetInv, q
  <2> QED BY <2>10, <2>11, <2>14 DEF ManifestInv
<1>11. CASE ~ManifestFits(total_rows, rows)
  <2> DEFINE s == [old EXCEPT !.left = {}, !.scans = <<>>]
  <2>1. worker' = [worker EXCEPT ![w] = s] /\ declined' = TRUE
    BY <1>7, <1>11 DEF CountChunk
  <2>2. /\ s.at = "scan" /\ s.key = old.key /\ s.left = {} /\ s.scans = <<>> /\ DOMAIN s.scans = {}
    BY <1>1, <1>7 DEF WorkerStates
  <2>3. s \in WorkerStates
    <3>1. <<>> \in Seq(SUBSET Places) /\ {} \in SUBSET Places
      OBVIOUS
    <3> DEFINE A == Seq(SUBSET Places)
               B == SUBSET Places
    <3>2. old \in [at : {"idle", "scan", "charge"}, key : Keys \union {0}, scans : A, left : B]
      BY <1>7 DEF WorkerStates
    <3>3. <<>> \in A /\ {} \in B
      BY <3>1
    <3> HIDE DEF A, B, old
    <3>4. s \in [at : {"idle", "scan", "charge"}, key : Keys \union {0}, scans : A, left : B]
      BY <3>2, <3>3
    <3> QED BY <3>4 DEF WorkerStates, A, B
  <2> HIDE DEF s
  <2>4. UnreadOf(s) = {}
    BY <2>2 DEF UnreadOf
  <2>5. /\ WorkersInv' /\ ReadInv'
    BY <1>0, <1>2, <1>3, <1>5, <1>6, <2>1, <2>2, <2>3, <2>4, WorkerMoves
  <2>6. CompleteInv'
    <3>1. worker'[w].at # "idle"
      BY <1>7, <2>1, <2>2
    <3> QED BY <2>1, <3>1 DEF CompleteInv
  <2>7. BudgetInv'
    <3>1. Pending' = Pending
      BY <1>0, <1>1, <1>3, <2>1, <2>2, NothingPending
    <3> QED BY <1>0, <1>3, <1>5, <3>1, BudgetKept
  <2> QED BY <2>5, <2>6, <2>7 DEF ManifestInv
<1> QED BY <1>10, <1>11

\* Planning begins with every key unclaimed and nothing charged.
LEMMA ReserveStep ==
    ASSUME TableInv, ManifestInv, Reserve
    PROVE  ManifestInv'
<1>0. WorkersInv /\ ReadInv /\ CompleteInv /\ BudgetInv
  BY DEF ManifestInv
<1>1. outcome = "preflight" /\ UNCHANGED <<index, per_key, cursor, total_rows, declined>>
  BY DEF Reserve
<1>2. /\ cursor = 0 /\ reservation = 0 /\ total_rows = 0 /\ ~declined
      /\ \A w \in Workers : worker[w].at = "idle" /\ worker[w].left = {} /\ worker[w].scans = <<>>
      /\ worker \in [Workers -> WorkerStates]
  BY <1>0, <1>1 DEF WorkersInv
<1>3. \A k : ~Claimed(k) /\ ~Claimed(k)'
  BY <1>1, <1>2 DEF Claimed
<1>4. \A k \in Keys : per_key[k] = {}
  BY <1>0, <1>3 DEF ReadInv
<1>5. Places' = Places
  BY <1>1, SameTable
<1>6. (\A n : Row(n)' = Row(n)) /\ (\A n : Descriptor(n)' = Descriptor(n))
  BY <1>1, SameTable
<1>7. Preflight' = Preflight /\ MaxManifestRows' = MaxManifestRows /\ KeyBytes' = KeyBytes
  <2>1. Preflight' = Preflight /\ MaxManifestRows' = MaxManifestRows
    BY <1>1, SameTable
  <2> QED BY <2>1 DEF KeyBytes
<1>8. WorkerStates' = WorkerStates
  BY <1>5 DEF WorkerStates
<1>9. ASSUME worker' \in [Workers -> WorkerStates],
             \A w \in Workers : worker'[w].left = {} /\ worker'[w].scans = <<>> /\ worker'[w].at # "charge"
      PROVE  ReadInv' /\ Pending' = {} /\ Cardinality(Pending') = 0
  <2>1. \A w \in Workers : DOMAIN worker'[w].scans = {}
    BY <1>9
  <2>2. \A w \in Workers : Unread(w)' = {}
    BY <1>9, <2>1 DEF Unread
  <2>3. \A k \in Keys : per_key'[k] = {}
    BY <1>1, <1>4
  <2>4. ReadInv'
    BY <2>1, <2>2, <2>3 DEF ReadInv
  <2>5. Pending' = {}
    BY <1>9 DEF Pending
  <2> QED BY <2>4, <2>5, FS_EmptySet
<1>10. CASE KeyBytes + PREFLIGHT_PER_WORKER > index.budget
  <2>1. outcome' = "declined" /\ reservation' = reservation /\ worker' = worker
    BY <1>10 DEF Reserve
  <2>2. WorkersInv'
    BY <1>0, <1>1, <1>2, <1>8, <2>1 DEF WorkersInv
  <2>3. ReadInv'
    BY <1>2, <1>9, <2>1
  <2>4. CompleteInv'
    BY <1>3, <2>1 DEF CompleteInv
  <2>5. BudgetInv'
    BY <1>0, <1>1, <2>1 DEF BudgetInv
  <2> QED BY <2>2, <2>3, <2>4, <2>5 DEF ManifestInv
<1>11. CASE ~(KeyBytes + PREFLIGHT_PER_WORKER > index.budget)
  <2>0. KeyBytes + PREFLIGHT_PER_WORKER <= index.budget
    <3>1. KeyBytes \in Nat /\ index.budget \in Nat /\ PREFLIGHT_PER_WORKER \in Nat
      BY BudgetNumbers, ProbeConstants
    <3> QED BY <1>11, <3>1
  <2>1. /\ ManifestWorkers \in Nat \ {0} /\ Preflight \in Nat
        /\ Preflight <= index.budget /\ MaxManifestRows \in Nat
    BY <2>0, BudgetNumbers
  <2>2. outcome' = "planning" /\ reservation' = Preflight
    BY <1>11 DEF Reserve
  <2>3. PICK team \in SUBSET Workers :
                  /\ Cardinality(team) = ManifestWorkers
                  /\ worker' = [w \in Workers |-> IF w \in team THEN [Idle EXCEPT !.at = "scan"] ELSE Idle]
    BY <1>11 DEF Reserve
  <2> DEFINE s == [Idle EXCEPT !.at = "scan"]
  <2>4. /\ s \in WorkerStates /\ s.at = "scan" /\ s.left = {} /\ s.scans = <<>>
        /\ Idle \in WorkerStates /\ Idle.at = "idle" /\ Idle.left = {} /\ Idle.scans = <<>>
    <3> DEFINE A == Seq(SUBSET Places)
               B == SUBSET Places
    <3>1. <<>> \in A /\ {} \in B
      OBVIOUS
    <3> HIDE DEF A, B
    <3>2. WorkerStates = [at : {"idle", "scan", "charge"}, key : Keys \union {0}, scans : A, left : B]
      BY DEF WorkerStates, A, B
    <3> QED BY <3>1, <3>2 DEF Idle
  <2> HIDE DEF s
  <2>5. /\ worker' \in [Workers -> WorkerStates]
        /\ \A w \in Workers : worker'[w].left = {} /\ worker'[w].scans = <<>> /\ worker'[w].at # "charge"
    BY <2>3, <2>4 DEF s
  <2>6. \E w \in Workers : worker'[w].at # "idle"
    <3>1. team # {}
      BY <2>1, <2>3, FS_EmptySet
    <3>2. PICK w \in team : TRUE
      BY <3>1
    <3> QED BY <2>3, <2>4, <3>2 DEF s
  <2>7. WorkersInv'
    <3>1. per_key' = [k \in Keys |-> per_key'[k]] /\ DOMAIN per_key' = Keys
      BY <1>0, <1>1 DEF WorkersInv
    <3>2. \A w \in Workers : /\ worker'[w].at = "idle" => worker'[w].left = {} /\ worker'[w].scans = <<>>
                             /\ worker'[w].at = "charge" => worker'[w].left # {}
      BY <2>5
    <3>3. cursor' \in Nat /\ total_rows' \in Nat /\ declined' \in BOOLEAN
      BY <1>0, <1>1 DEF WorkersInv
    <3> QED BY <1>8, <2>2, <2>5, <3>1, <3>2, <3>3 DEF WorkersInv
  <2>8. ReadInv' /\ Cardinality(Pending') = 0
    BY <1>9, <2>5
  <2>9. CompleteInv'
    BY <1>3, <2>6 DEF CompleteInv
  <2>10. BudgetInv'
    <3>1. UNION {per_key'[k] : k \in Keys} = {}
      BY <1>1, <1>4
    <3>2. Cardinality(UNION {per_key'[k] : k \in Keys}) = 0
      BY <3>1, FS_EmptySet
    <3>3. 0 \in 0 .. total_rows' /\ 0 * MANIFEST_PER_ROW = 0 /\ 0 + Cardinality(Pending') <= total_rows'
          /\ 0 + Cardinality(Pending') <= MaxManifestRows
      BY <1>1, <1>2, <2>1, <2>8, ProbeConstants
    <3>4. reservation' = Preflight' + 0 * MANIFEST_PER_ROW
      BY <1>7, <2>1, <2>2, <3>3
    <3>5. index' = index
      BY <1>1
    <3>6. Cardinality(UNION {per_key'[k] : k \in Keys}) <= 0
      BY <3>2
    <3> QED BY <1>7, <2>0, <2>1, <2>2, <3>3, <3>4, <3>5, <3>6 DEF BudgetInv
  <2> QED BY <2>7, <2>8, <2>9, <2>10 DEF ManifestInv
<1> QED BY <1>10, <1>11

\* The descriptors of some rows: as many as the rows.
LEMMA DescriptorsOf ==
    ASSUME TableInv, NEW rows \in SUBSET Places
    PROVE  /\ IsFiniteSet({Descriptor(n) : n \in rows})
           /\ Cardinality({Descriptor(n) : n \in rows}) = Cardinality(rows)
           /\ IsFiniteSet(rows)
<1> DEFINE T == {Descriptor(n) : n \in rows}
           f == [n \in rows |-> Descriptor(n)]
<1>1. IsFiniteSet(rows)
  BY PlacesFinite, FS_Subset
<1>2. \A m, n \in rows : Descriptor(m) = Descriptor(n) => m = n
  <2> TAKE m \in rows, n \in rows
  <2>1. Descriptor(m).at = m /\ Descriptor(n).at = n
    BY DescriptorIs
  <2> QED BY <2>1
<1>3. f \in Surjection(rows, T) /\ f \in Injection(rows, T)
  BY <1>2 DEF Surjection, Injection, IsInjective
<1> HIDE DEF f, T
<1>4. IsFiniteSet(T) /\ Cardinality(T) <= Cardinality(rows)
  BY <1>1, <1>3, FS_Surjection
<1>5. Cardinality(rows) <= Cardinality(T)
  BY <1>3, <1>4, FS_Injection
<1>6. Cardinality(rows) \in Nat /\ Cardinality(T) \in Nat
  BY <1>1, <1>4, FS_CardinalityType
<1> QED BY <1>1, <1>4, <1>5, <1>6 DEF T

\* The descriptors read are descriptors of the table.
LEMMA ReadFinite ==
    ASSUME TableInv, ReadInv
    PROVE  /\ IsFiniteSet(UNION {per_key[k] : k \in Keys})
           /\ Cardinality(UNION {per_key[k] : k \in Keys}) \in Nat
           /\ UNION {per_key[k] : k \in Keys} \in SUBSET Descriptors
<1>1. \A k \in Keys : per_key[k] \in SUBSET Descriptors
  BY DEF ReadInv, Descriptors
<1>2. UNION {per_key[k] : k \in Keys} \in SUBSET Descriptors
  BY <1>1
<1>3. IsFiniteSet(Descriptors)
  BY DescriptorsOf DEF Descriptors
<1> QED BY <1>2, <1>3, FS_Subset, FS_CardinalityType

\* A chunk's charge covers its descriptors, none of which was there.
LEMMA AppendChunkStep ==
    ASSUME TableInv, ManifestInv, NEW w \in Workers, AppendChunk(w)
    PROVE  ManifestInv'
<1> DEFINE old == worker[w]
           rows == Chunk(w)
           key == worker[w].key
           new == {Descriptor(n) : n \in rows}
           s == [old EXCEPT !.at = "scan", !.left = old.left \ rows]
<1>0. WorkersInv /\ ReadInv /\ CompleteInv /\ BudgetInv
  BY DEF ManifestInv
<1>1. old.at = "charge"
  BY DEF AppendChunk
<1>2. outcome = "planning" /\ old.left # {}
  BY <1>0, <1>1 DEF WorkersInv
<1>3. /\ UNCHANGED <<index, cursor, total_rows, declined>>
      /\ reservation' = reservation + Cardinality(rows) * MANIFEST_PER_ROW
      /\ per_key' = [per_key EXCEPT ![key] = @ \union new]
      /\ outcome' = IF rows \cap {d.at : d \in per_key[key]} = {} THEN outcome ELSE "malformed"
  BY DEF AppendChunk
<1>4. old \in WorkerStates /\ UnreadOf(old) = Unread(w) /\ Reading(old) /\ DOMAIN worker = Workers
  BY <1>0, WorkerIs
<1>5. worker' = [worker EXCEPT ![w] = s]
  BY <1>4 DEF AppendChunk
<1>6. /\ s \in WorkerStates /\ s.at = "scan" /\ s.key = key /\ s.left = old.left \ rows
      /\ s.scans = old.scans
  BY <1>4 DEF WorkerStates
<1> HIDE DEF s, new
<1>7. rows \in SUBSET old.left /\ rows \in SUBSET Places /\ rows \in SUBSET Unread(w) /\ IsFiniteSet(rows)
      /\ Cardinality(rows) \in Nat
  <2>1. rows \in SUBSET old.left
    BY DEF Chunk
  <2>2. rows \in SUBSET Places /\ IsFiniteSet(rows) /\ Cardinality(rows) \in Nat
    BY <1>0, PendingFinite
  <2> QED BY <2>1, <2>2 DEF Unread
<1>8. \A v \in Workers : Unread(v) \in SUBSET Places
  <2> TAKE v \in Workers
  <2>1. worker[v].left \in SUBSET Places /\ worker[v].scans \in Seq(SUBSET Places)
    BY <1>0 DEF WorkersInv, WorkerStates
  <2>2. \A i \in DOMAIN worker[v].scans : worker[v].scans[i] \in SUBSET Places
    BY <2>1
  <2> QED BY <2>1, <2>2 DEF Unread
<1>9. key \in Keys
  <2>1. PICK n \in old.left : TRUE
    BY <1>2
  <2>2. n \in Unread(w) /\ n \in Places
    BY <1>8, <2>1 DEF Unread
  <2>3. Row(n).key = key
    BY <1>0, <2>2 DEF ReadInv
  <2> QED BY <2>2, <2>3 DEF TableInv
<1>10. \A n \in rows : Row(n).key = key /\ Descriptor(n) \notin per_key[key]
  BY <1>0, <1>7 DEF ReadInv
<1>11. \A n \in Places : \A d \in per_key[key] : d.at = n => d = Descriptor(n)
  <2> TAKE n \in Places
  <2> TAKE d \in per_key[key]
  <2> HAVE d.at = n
  <2>1. PICK m \in Places : d = Descriptor(m)
    BY <1>0, <1>9 DEF ReadInv
  <2>2. Descriptor(m).at = m
    BY DescriptorIs
  <2> QED BY <2>1, <2>2
<1>12. outcome' = outcome
  <2>1. rows \cap {d.at : d \in per_key[key]} = {}
    BY <1>7, <1>10, <1>11
  <2> QED BY <1>3, <2>1
<1>13. /\ DOMAIN per_key = Keys
       /\ per_key'[key] = per_key[key] \union new
       /\ \A k \in Keys : k # key => per_key'[k] = per_key[k]
       /\ DOMAIN per_key' = Keys /\ per_key' = [k \in Keys |-> per_key'[k]]
  BY <1>0, <1>3, <1>9 DEF WorkersInv
<1>14. worker'[w] = s /\ \A v \in Workers : v # w => worker'[v] = worker[v]
  BY <1>4, <1>5
<1>15. /\ Places' = Places /\ MaxManifestRows' = MaxManifestRows /\ Preflight' = Preflight /\ KeyBytes' = KeyBytes
  BY <1>3, SameTable DEF KeyBytes
<1>16. \A n : Row(n)' = Row(n) /\ Descriptor(n)' = Descriptor(n)
  BY <1>3, SameTable
<1>17. \A k : Claimed(k)' = Claimed(k)
  BY <1>3 DEF Claimed
<1>18. Unread(w)' = Unread(w) \ rows
  <2>1. \A i \in DOMAIN old.scans : old.scans[i] \cap rows = {}
    BY <1>4, <1>7 DEF Reading
  <2> QED BY <1>6, <1>14, <2>1 DEF Unread
<1>19. \A v \in Workers : v # w => Unread(v)' = Unread(v)
  BY <1>14 DEF Unread
<1>20. WorkersInv'
  <2>1. worker' \in [Workers -> WorkerStates] /\ WorkerStates' = WorkerStates
    BY <1>0, <1>5, <1>6, <1>15 DEF WorkersInv, WorkerStates
  <2>2. \A v \in Workers : /\ worker'[v].at = "idle" => worker'[v].left = {} /\ worker'[v].scans = <<>>
                           /\ worker'[v].at = "charge" => worker'[v].left # {}
    BY <1>0, <1>6, <1>14 DEF WorkersInv
  <2> QED BY <1>0, <1>2, <1>3, <1>12, <1>13, <2>1, <2>2 DEF WorkersInv
<1>21. ReadInv'
  <2>1. ASSUME NEW v \in Workers, NEW n \in Unread(v)'
        PROVE  /\ Row(n).key = worker'[v].key
               /\ Claimed(worker[v].key)'
               /\ Descriptor(n) \notin per_key'[worker'[v].key]
    <3>1. n \in Unread(v) /\ n \notin rows /\ worker'[v].key = worker[v].key
      <4>1. CASE v = w
        BY <1>6, <1>14, <1>18, <2>1, <4>1
      <4>2. CASE v # w
        BY <1>0, <1>7, <1>14, <1>19, <2>1, <4>2 DEF ReadInv
      <4> QED BY <4>1, <4>2
    <3> DEFINE k == worker[v].key
    <3>2. Row(n).key = k /\ Claimed(k) /\ Descriptor(n) \notin per_key[k] /\ n \in Places
      BY <1>0, <1>8, <3>1 DEF ReadInv
    <3>3. k \in Keys
      BY <3>2 DEF TableInv
    <3> HIDE DEF k
    <3>4. PICK l : l = k
      OBVIOUS
    <3>5. Claimed(l)'
      BY <1>17, <3>2, <3>4
    <3>6. Claimed(worker[v].key)'
      BY <3>1, <3>4, <3>5 DEF k
    <3>7. Descriptor(n) \notin new
      <4> SUFFICES ASSUME NEW m \in rows, Descriptor(n) = Descriptor(m) PROVE FALSE
        BY DEF new
      <4>1. Descriptor(n).at = n /\ Descriptor(m).at = m
        BY <1>7, <3>2, DescriptorIs
      <4> QED BY <3>1, <4>1
    <3>8. Descriptor(n) \notin per_key'[k]
      BY <1>13, <3>2, <3>3, <3>7
    <3> QED BY <3>1, <3>2, <3>6, <3>8 DEF k
  <2>2. \A v \in Workers : \A i \in DOMAIN worker'[v].scans :
            /\ worker'[v].scans[i] \cap worker'[v].left = {}
            /\ \A j \in DOMAIN worker'[v].scans : i # j => worker'[v].scans[i] \cap worker'[v].scans[j] = {}
    <3> TAKE v \in Workers
    <3>1. worker'[v].scans = worker[v].scans /\ worker'[v].left \in SUBSET worker[v].left
      BY <1>6, <1>14
    <3>2. \A i \in DOMAIN worker[v].scans :
            /\ worker[v].scans[i] \cap worker[v].left = {}
            /\ \A j \in DOMAIN worker[v].scans : i # j => worker[v].scans[i] \cap worker[v].scans[j] = {}
      BY <1>0 DEF ReadInv
    <3> QED BY <3>1, <3>2
  <2>3. \A u, v \in Workers : u # v => Unread(u)' \cap Unread(v)' = {}
    <3>1. \A v \in Workers : Unread(v)' \in SUBSET Unread(v)
      BY <1>18, <1>19
    <3> QED BY <1>0, <3>1 DEF ReadInv
  <2>4. \A k \in Keys : \A d \in per_key'[k] : \E n \in Places : d = Descriptor(n) /\ Row(n).key = k
    <3> TAKE k \in Keys
    <3> TAKE d \in per_key'[k]
    <3>1. CASE d \in per_key[k]
      BY <1>0, <3>1 DEF ReadInv
    <3>2. CASE d \notin per_key[k]
      <4>1. k = key /\ d \in new
        BY <1>13, <3>2
      <4> QED BY <1>7, <1>10, <4>1 DEF new
    <3> QED BY <3>1, <3>2
  <2>5. \A k \in Keys : ~Claimed(k)' => per_key'[k] = {}
    <3> TAKE k \in Keys
    <3> HAVE ~Claimed(k)'
    <3>1. ~Claimed(k)
      BY <1>17
    <3>2. per_key[k] = {}
      BY <1>0, <3>1 DEF ReadInv
    <3>3. k # key
      <4>1. PICK n \in old.left : TRUE
        BY <1>2
      <4>2. Claimed(key)
        BY <1>0, <4>1 DEF ReadInv, Unread
      <4> QED BY <3>1, <4>2
    <3> QED BY <1>13, <3>2, <3>3
  <2> QED BY <1>15, <1>16, <2>1, <2>2, <2>3, <2>4, <2>5 DEF ReadInv
<1>22. CompleteInv'
  <2>1. ~declined => \A n \in Places : Claimed(Row(n).key)' =>
            Descriptor(n) \in per_key'[Row(n).key] \/ \E v \in Workers : n \in Unread(v)'
    <3> HAVE ~declined
    <3> TAKE n \in Places
    <3> HAVE Claimed(Row(n).key)'
    <3>1. Claimed(Row(n).key)
      BY <1>3, <1>16 DEF Claimed
    <3>2. Row(n).key \in Keys
      BY DEF TableInv
    <3>3. CASE Descriptor(n) \in per_key[Row(n).key]
      BY <1>13, <3>2, <3>3
    <3>4. CASE \E v \in Workers : n \in Unread(v)
      <4>1. CASE n \in rows
        <5>1. Row(n).key = key /\ Descriptor(n) \in new
          BY <1>10, <4>1 DEF new
        <5> QED BY <1>13, <5>1
      <4>2. CASE n \notin rows
        BY <1>18, <1>19, <3>4, <4>2
      <4> QED BY <4>1, <4>2
    <3> QED BY <1>0, <3>1, <3>3, <3>4 DEF CompleteInv
  <2>2. worker'[w].at # "idle"
    BY <1>6, <1>14
  <2> QED BY <1>3, <1>15, <1>16, <2>1, <2>2 DEF CompleteInv
<1>23. /\ Pending = Pending' \union ({w} \X rows) /\ Pending' \cap ({w} \X rows) = {}
  <2> DEFINE S == {u \in Workers : worker[u].at = "charge"}
             R == {u \in Workers : worker'[u].at = "charge"}
  <2>1. S = R \union {w} /\ w \notin R
    BY <1>1, <1>6, <1>14
  <2>2. \A v \in R : Chunk(v)' = Chunk(v)
    BY <1>3, <1>14, <2>1, ChunkOf
  <2>3. Pending = UNION {{v} \X Chunk(v) : v \in S}
    BY DEF Pending
  <2>4. Pending' = UNION {{v} \X Chunk(v)' : v \in R}
    BY DEF Pending
  <2> HIDE DEF S, R, rows
  <2>5. {{v} \X Chunk(v)' : v \in R} = {{v} \X Chunk(v) : v \in R}
    BY <2>2
  <2>6. {{v} \X Chunk(v) : v \in S} = {{v} \X Chunk(v) : v \in R} \union {{w} \X rows}
    BY <2>1 DEF rows
  <2>7. Pending = Pending' \union ({w} \X rows)
    BY <2>3, <2>4, <2>5, <2>6
  <2>8. Pending' \cap ({w} \X rows) = {}
    BY <2>1, <2>4
  <2> QED BY <2>7, <2>8
<1>24. Cardinality(Pending) = Cardinality(Pending') + Cardinality(rows) /\ Cardinality(Pending') \in Nat
  <2> DEFINE T == {w} \X rows
  <2>1. IsFiniteSet(Pending)
    BY <1>0, PendingFinite
  <2>2. IsFiniteSet(Pending') /\ Cardinality(Pending') \in Nat
    BY <1>23, <2>1, FS_Subset, FS_CardinalityType
  <2>3. IsFiniteSet(T) /\ Cardinality(T) = Cardinality(rows)
    BY <1>7, PendingOf
  <2> HIDE DEF T, rows
  <2>4. Pending = Pending' \union T /\ Pending' \cap T = {}
    BY <1>23 DEF T
  <2>5. Cardinality(Pending' \union T) = Cardinality(Pending') + Cardinality(T)
    BY <2>2, <2>3, <2>4, DisjointUnion
  <2> QED BY <2>2, <2>3, <2>4, <2>5
<1>25. BudgetInv'
  <2> DEFINE r == Cardinality(rows)
             U == UNION {per_key[k] : k \in Keys}
             U2 == UNION {per_key'[k] : k \in Keys}
             M == MANIFEST_PER_ROW
  <2>1. PICK charged \in 0 .. total_rows :
              /\ reservation = Preflight + charged * M
              /\ Cardinality(U) <= charged
              /\ charged + Cardinality(Pending) <= total_rows
              /\ charged + Cardinality(Pending) <= MaxManifestRows
    BY <1>0, <1>2 DEF BudgetInv
  <2>2. KeyBytes + PREFLIGHT_PER_WORKER <= index.budget
    BY <1>0, <1>2 DEF BudgetInv
  <2>3. MaxManifestRows \in Nat /\ Preflight \in Nat
        /\ \A n \in 0 .. MaxManifestRows : n * M \in Nat /\ Preflight + n * M <= index.budget
    BY <2>2, BudgetNumbers
  <2>4. U2 = U \union new
    BY <1>9, <1>13
  <2>5. Cardinality(U2) <= Cardinality(U) + r
    <3>1. IsFiniteSet(U) /\ Cardinality(U) \in Nat
      BY <1>0, ReadFinite
    <3>2. IsFiniteSet(new) /\ Cardinality(new) = r
      BY <1>7, DescriptorsOf DEF new
    <3> HIDE DEF U, U2, r
    <3>3. Cardinality(U \union new) = Cardinality(U) + Cardinality(new) - Cardinality(U \cap new)
      BY <3>1, <3>2, FS_Union
    <3>4. Cardinality(U \cap new) \in Nat
      <4>1. U \cap new \in SUBSET U
        OBVIOUS
      <4> QED BY <3>1, <4>1, FS_Subset, FS_CardinalityType
    <3>5. r \in Nat
      BY <1>7 DEF r
    <3> QED BY <2>4, <3>1, <3>2, <3>3, <3>4, <3>5
  <2>6. Cardinality(U) \in Nat /\ Cardinality(U2) \in Nat
    <3>1. IsFiniteSet(U) /\ Cardinality(U) \in Nat
      BY <1>0, ReadFinite
    <3>2. IsFiniteSet(new)
      BY <1>7, DescriptorsOf DEF new
    <3> HIDE DEF U, U2
    <3>3. IsFiniteSet(U2)
      BY <2>4, <3>1, <3>2, FS_Union
    <3> QED BY <3>1, <3>3, FS_CardinalityType
  <2>7. r \in Nat /\ total_rows \in Nat /\ M \in Nat /\ Cardinality(Pending) = Cardinality(Pending') + r
        /\ Cardinality(Pending') \in Nat
    BY <1>0, <1>7, <1>24, ProbeConstants DEF WorkersInv
  <2> DEFINE c == charged + r
             p == Cardinality(Pending)
             q == Cardinality(Pending')
  <2> HIDE DEF r, U, U2, M, p, q
  <2>8. c \in 0 .. total_rows /\ c + q <= total_rows /\ c + q <= MaxManifestRows /\ c \in 0 .. MaxManifestRows
    BY <2>1, <2>3, <2>7 DEF p, q
  <2>9. reservation' = Preflight + c * M
    <3>1. reservation' = reservation + r * M
      BY <1>3 DEF r, M
    <3>2. c * M = charged * M + r * M /\ charged * M \in Nat /\ r * M \in Nat
      BY <2>1, <2>7
    <3> HIDE DEF c
    <3> QED BY <2>1, <2>3, <3>1, <3>2
  <2>10. Cardinality(U2) <= c
    BY <2>1, <2>5, <2>6, <2>7
  <2> HIDE DEF c
  <2>11. c * M \in Nat /\ Preflight + c * M <= index.budget
    BY <2>3, <2>8
  <2>12. reservation' \in Nat /\ reservation' <= index.budget
    BY <2>3, <2>9, <2>11
  <2> QED BY <1>3, <1>15, <2>2, <2>8, <2>9, <2>10, <2>12 DEF BudgetInv, U2, q, M
<1> QED BY <1>20, <1>21, <1>22, <1>25 DEF ManifestInv

-----------------------------------------------------------------------------
(* The arithmetic of a plan. *)

\* The pairs a sum counts are finitely many.
LEMMA PairsFinite ==
    ASSUME NEW S, IsFiniteSet(S), NEW f, \A x \in S : f[x] \in Nat
    PROVE  /\ IsFiniteSet(UNION {{x} \X (1 .. f[x]) : x \in S})
           /\ Cardinality(UNION {{x} \X (1 .. f[x]) : x \in S}) \in Nat
<1> DEFINE T == {{x} \X (1 .. f[x]) : x \in S}
           g == [x \in S |-> {x} \X (1 .. f[x])]
<1>1. g \in Surjection(S, T)
  BY DEF Surjection
<1>2. IsFiniteSet(T)
  <2> HIDE DEF g, T
  <2> QED BY <1>1, FS_Surjection
<1>3. \A t \in T : IsFiniteSet(t)
  <2>1. ASSUME NEW x \in S PROVE IsFiniteSet({x} \X (1 .. f[x]))
    <3>1. IsFiniteSet(1 .. f[x])
      <4>1. 1 \in Int /\ f[x] \in Int
        OBVIOUS
      <4> QED BY <4>1, FS_Interval
    <3> QED BY <3>1, PendingOf
  <2> QED BY <2>1
<1> HIDE DEF T
<1>4. IsFiniteSet(UNION T)
  BY <1>2, <1>3, FS_UNION
<1> QED BY <1>4, FS_CardinalityType DEF T

\* LeastFirst is a permutation that never puts a greater count first.
Permutes(list, count) ==
    /\ Cardinality(DOMAIN count) \in Nat /\ DOMAIN list = 1 .. Cardinality(DOMAIN count)
    /\ \A i \in DOMAIN list : list[i] \in DOMAIN count
    /\ \A x \in DOMAIN count : \E i \in DOMAIN list : list[i] = x
    /\ \A i, j \in DOMAIN list : i < j => list[i] # list[j] /\ count[list[i]] <= count[list[j]]

\* LeastFirst is such a permutation.
LEMMA LeastFirstPermutes ==
    ASSUME NEW count, IsFiniteSet(DOMAIN count), DOMAIN count \in SUBSET Int,
           \A x \in DOMAIN count : count[x] \in Int
    PROVE  Permutes(LeastFirst(count), count)
<1> DEFINE D == DOMAIN count
           before == {p \in D \X D : count[p[1]] < count[p[2]] \/ (count[p[1]] = count[p[2]] /\ p[1] < p[2])}
           list == LeastFirst(count)
<1>1. list = Sorted(D, before)
  BY DEF LeastFirst
<1>2. \A x, y \in D : <<x, y>> \in before <=> (count[x] < count[y] \/ (count[x] = count[y] /\ x < y))
  OBVIOUS
<1>3. \A x \in D : x \in Int /\ count[x] \in Int
  OBVIOUS
<1> HIDE DEF before, D, list
<1>4. StrictOrder(D, before)
  BY <1>2, <1>3 DEF StrictOrder
<1>5. Lists(list, D, before)
  BY <1>1, <1>4, SortedLists DEF D
<1>6. /\ Cardinality(D) \in Nat /\ DOMAIN list = 1 .. Cardinality(D)
      /\ \A i \in DOMAIN list : list[i] \in D
      /\ \A x \in D : \E i \in DOMAIN list : list[i] = x
      /\ \A i, k \in DOMAIN list : i < k => <<list[i], list[k]>> \in before
  BY <1>5 DEF Lists
<1>7. \A i, j \in DOMAIN list : i < j => list[i] # list[j] /\ count[list[i]] <= count[list[j]]
  <2> TAKE i \in DOMAIN list, j \in DOMAIN list
  <2> HAVE i < j
  <2>1. list[i] \in D /\ list[j] \in D /\ <<list[i], list[j]>> \in before
    BY <1>6
  <2> QED BY <1>2, <1>3, <2>1
<1> QED BY <1>6, <1>7 DEF Permutes, D, list

\* The rows of a key in a segment.
RowsOf(segment, key) == {n \in Places : Row(n).key = key /\ Row(n).segment = segment}

\* The descriptors a selection kept of a key in a segment.
LEMMA OfRows ==
    ASSUME TableInv, NEW rows, NEW keys, Selection(rows, keys), NEW segment, NEW key \in Range(keys)
    PROVE  /\ Of(rows, segment, key) = {Descriptor(n) : n \in RowsOf(segment, key)}
           /\ IsFiniteSet(Of(rows, segment, key)) /\ RowsOf(segment, key) \in SUBSET Places
           /\ key \in Keys
<1> DEFINE S == {m \in Places : Row(m).key \in Range(keys)}
<1>1. rows = {Descriptor(n) : n \in S}
  BY DEF Selection
<1>2. \A n \in Places : Descriptor(n).segment = Row(n).segment /\ Descriptor(n).key = Row(n).key
  BY DescriptorIs
<1>3. Of(rows, segment, key) = {Descriptor(n) : n \in RowsOf(segment, key)}
  <2>1. ASSUME NEW d \in Of(rows, segment, key) PROVE d \in {Descriptor(n) : n \in RowsOf(segment, key)}
    <3>1. PICK n \in S : d = Descriptor(n)
      BY <1>1 DEF Of
    <3>2. d.segment = segment /\ d.key = key
      BY DEF Of
    <3> QED BY <1>2, <3>1, <3>2 DEF RowsOf
  <2>2. ASSUME NEW n \in RowsOf(segment, key) PROVE Descriptor(n) \in Of(rows, segment, key)
    <3>1. n \in S /\ Descriptor(n).segment = segment /\ Descriptor(n).key = key
      BY <1>2 DEF RowsOf
    <3>2. Descriptor(n) \in rows
      BY <1>1, <3>1
    <3> QED BY <3>1, <3>2 DEF Of
  <2> QED BY <2>1, <2>2
<1>4. RowsOf(segment, key) \in SUBSET Places
  BY DEF RowsOf
<1>5. IsFiniteSet(Of(rows, segment, key))
  BY <1>3, <1>4, DescriptorsOf
<1>6. key \in Keys
  BY DEF Selection, Range
<1> QED BY <1>3, <1>4, <1>5, <1>6

\* Holders are indexed rows.
LEMMA HoldersFinite ==
    ASSUME TableInv, NEW segment, NEW keys
    PROVE  /\ IsFiniteSet(Holders(segment, keys)) /\ Cardinality(Holders(segment, keys)) \in Nat
           /\ Holders(segment, keys) \in SUBSET (0 .. Hwm)
<1>1. IsFiniteSet(0 .. Hwm)
  <2>1. 0 \in Int /\ Hwm \in Int
    BY DEF TableInv
  <2> QED BY <2>1, FS_Interval
<1>2. Holders(segment, keys) \in SUBSET (0 .. Hwm)
  BY DEF Holders
<1> QED BY <1>1, <1>2, FS_Subset, FS_CardinalityType

\* The rowids in the rows a descriptor names.
Gathered(rows, segment, key) == UNION {SegmentsTable[d.at + 1].rowids : d \in Of(rows, segment, key)}

\* What is decoded of a key in a segment: the rows that hold it, each posted once.
LEMMA PostingsAre ==
    ASSUME TableInv, NEW rows, NEW keys, Selection(rows, keys), NEW segment, NEW key \in Range(keys)
    PROVE  /\ Gathered(rows, segment, key) = Holders(segment, {key})
           /\ PostingCount(rows, segment, key) = Cardinality(Holders(segment, {key}))
           /\ PostingCount(rows, segment, key) \in Nat
           /\ Of(rows, segment, key) # {} => PostingCount(rows, segment, key) > 0
<1> DEFINE O == Of(rows, segment, key)
           H == Holders(segment, {key})
           N == RowsOf(segment, key)
           ids(d) == SegmentsTable[d.at + 1].rowids
<1>1. O = {Descriptor(n) : n \in N} /\ IsFiniteSet(O) /\ N \in SUBSET Places /\ key \in Keys
  BY OfRows
<1>2. \A n \in Places : Descriptor(n).at = n /\ ids(Descriptor(n)) = Row(n).rowids
  BY DescriptorIs DEF Row
<1>3. \A d \in O : \E n \in N : d = Descriptor(n) /\ ids(d) = Row(n).rowids /\ d.at = n
  <2> TAKE d \in O
  <2>1. PICK n \in N : d = Descriptor(n)
    BY <1>1
  <2> QED BY <1>1, <1>2, <2>1
<1>4. \A n \in N : \A r \in Row(n).rowids : r \in H
  <2> TAKE n \in N
  <2> TAKE r \in Row(n).rowids
  <2>1. n \in Places /\ Row(n).key = key /\ Row(n).segment = segment
    BY DEF RowsOf
  <2>2. r \in 0 .. Hwm /\ r \div SEGMENT_ROWS = segment /\ key \in index.postings[r]
    BY <2>1 DEF TableInv
  <2> QED BY <2>2 DEF Holders
<1>5. \A r \in H : \E n \in N : r \in Row(n).rowids
  <2> TAKE r \in H
  <2>1. r \in 0 .. Hwm /\ r \div SEGMENT_ROWS = segment /\ key \in index.postings[r]
    BY DEF Holders
  <2>2. PICK n \in Places : Row(n).key = key /\ r \in Row(n).rowids
    BY <2>1 DEF TableInv
  <2>3. Row(n).segment = segment
    BY <2>1, <2>2 DEF TableInv
  <2> QED BY <2>2, <2>3 DEF RowsOf
<1>6. UNION {ids(d) : d \in O} = H
  <2> HIDE DEF ids, H, O, N
  <2>1. \A n \in N : Descriptor(n) \in O /\ ids(Descriptor(n)) = Row(n).rowids
    BY <1>1, <1>2
  <2> QED BY <1>3, <1>4, <1>5, <2>1
<1> DEFINE P == UNION {{d} \X (1 .. d.count) : d \in O}
           place(p) == Ascending(ids(p[1]))[p[2]]
           f == [p \in P |-> place(p)]
<1>7. PostingCount(rows, segment, key) = Cardinality(P)
  BY DEF PostingCount, SumOf
<1>8. \A n \in N : /\ Descriptor(n).count = Cardinality(Row(n).rowids)
                   /\ Row(n).rowids \in SUBSET Int /\ IsFiniteSet(Row(n).rowids)
                   /\ Descriptor(n).count \in Nat \ {0}
  <2> TAKE n \in N
  <2>1. /\ Descriptor(n).count = Cardinality(Row(n).rowids) /\ Descriptor(n).count \in Nat \ {0}
        /\ IsFiniteSet(Row(n).rowids) /\ Row(n).rowids \in SUBSET (0 .. Hwm)
    BY <1>1, DescriptorIs
  <2>2. 0 .. Hwm \in SUBSET Int
    BY DEF TableInv
  <2> QED BY <2>1, <2>2
<1>9. \A d \in O : d.count \in Nat \ {0}
  BY <1>3, <1>8
<1>10. IsFiniteSet(P) /\ Cardinality(P) \in Nat
  <2> DEFINE c == [d \in O |-> d.count]
  <2>1. \A d \in O : c[d] \in Nat /\ c[d] = d.count
    BY <1>9
  <2>2. {{d} \X (1 .. d.count) : d \in O} = {{d} \X (1 .. c[d]) : d \in O}
    BY <2>1
  <2>3. P = UNION {{d} \X (1 .. c[d]) : d \in O}
    BY <2>2
  <2> HIDE DEF c, O, P
  <2> DEFINE Q == UNION {{d} \X (1 .. c[d]) : d \in O}
  <2>4. IsFiniteSet(Q) /\ Cardinality(Q) \in Nat
    BY <1>1, <2>1, PairsFinite
  <2> QED BY <2>3, <2>4
<1>11. \A d \in O : /\ DOMAIN Ascending(ids(d)) = 1 .. d.count
                    /\ \A i \in 1 .. d.count : Ascending(ids(d))[i] \in ids(d)
                    /\ \A x \in ids(d) : \E i \in 1 .. d.count : Ascending(ids(d))[i] = x
                    /\ \A i, k \in 1 .. d.count : i < k => Ascending(ids(d))[i] < Ascending(ids(d))[k]
                    /\ ids(d) \in SUBSET Int
  <2> TAKE d \in O
  <2>1. PICK n \in N : d = Descriptor(n) /\ ids(d) = Row(n).rowids
    BY <1>3
  <2>2. ids(d) \in SUBSET Int /\ IsFiniteSet(ids(d)) /\ Cardinality(ids(d)) = d.count
    BY <1>8, <2>1
  <2> DEFINE A == ids(d)
  <2> HIDE DEF A
  <2>3. /\ DOMAIN Ascending(A) = 1 .. Cardinality(A)
        /\ \A i \in 1 .. Cardinality(A) : Ascending(A)[i] \in A
        /\ \A x \in A : \E i \in 1 .. Cardinality(A) : Ascending(A)[i] = x
        /\ \A i, k \in 1 .. Cardinality(A) : i < k => Ascending(A)[i] < Ascending(A)[k]
    BY <2>2, AscendingLists DEF A
  <2> QED BY <2>2, <2>3 DEF A
<1>12. \A p \in P : p[1] \in O /\ p[2] \in 1 .. p[1].count /\ p = <<p[1], p[2]>>
  OBVIOUS
<1>13. \A d \in O : \A i \in 1 .. d.count : <<d, i>> \in P
  OBVIOUS
<1> HIDE DEF P, ids, O
<1>14. \A p \in P : f[p] = place(p) /\ f[p] \in ids(p[1]) /\ f[p] \in H
  <2> TAKE p \in P
  <2>1. f[p] \in ids(p[1])
    BY <1>11, <1>12
  <2> QED BY <1>6, <1>12, <2>1
<1>15. f \in Surjection(P, H)
  <2>1. ASSUME NEW r \in H PROVE \E p \in P : f[p] = r
    <3>1. PICK d \in O : r \in ids(d)
      BY <1>6
    <3>2. PICK i \in 1 .. d.count : Ascending(ids(d))[i] = r
      BY <1>11, <3>1
    <3>3. <<d, i>> \in P /\ <<d, i>>[1] = d /\ <<d, i>>[2] = i
      BY <1>13
    <3>4. f[<<d, i>>] = r
      BY <3>2, <3>3
    <3> QED BY <3>3, <3>4
  <2>2. f \in [P -> H]
    BY <1>14
  <2> HIDE DEF f
  <2> QED BY <2>1, <2>2 DEF Surjection
<1>16. \A p, q \in P : f[p] = f[q] => p = q
  <2> TAKE p \in P, q \in P
  <2> HAVE f[p] = f[q]
  <2>1. p[1] \in O /\ q[1] \in O /\ f[p] \in ids(p[1]) /\ f[p] \in ids(q[1])
    BY <1>12, <1>14
  <2>2. p[1] = q[1]
    <3>1. PICK m \in N : p[1] = Descriptor(m) /\ ids(p[1]) = Row(m).rowids
      BY <1>3, <2>1
    <3>2. PICK n \in N : q[1] = Descriptor(n) /\ ids(q[1]) = Row(n).rowids
      BY <1>3, <2>1
    <3>3. m \in Places /\ n \in Places /\ Row(m).key = Row(n).key
      BY DEF RowsOf
    <3>4. m = n
      BY <2>1, <3>1, <3>2, <3>3 DEF TableInv
    <3> QED BY <3>1, <3>2, <3>4
  <2> DEFINE d == p[1]
             i == p[2]
             j == q[2]
             A == Ascending(ids(d))
  <2>3. d \in O /\ i \in 1 .. d.count /\ j \in 1 .. d.count /\ p = <<d, i>> /\ q = <<d, j>>
    BY <1>12, <2>2
  <2>4. A[i] = A[j]
    BY <1>14, <2>2
  <2>5. A[i] \in Int /\ \A k, l \in 1 .. d.count : k < l => A[k] < A[l]
    BY <1>11, <2>3
  <2>6. i \in Int /\ j \in Int
    BY <2>3
  <2> HIDE DEF d, i, j, A
  <2>7. ~(i < j) /\ ~(j < i)
    BY <2>3, <2>4, <2>5
  <2>8. i = j
    BY <2>6, <2>7
  <2> QED BY <2>3, <2>8
<1> HIDE DEF f
<1>17. Cardinality(H) = Cardinality(P)
  <2>1. f \in Injection(P, H)
    BY <1>15, <1>16 DEF Surjection, Injection, IsInjective
  <2> HIDE DEF H
  <2> QED BY <1>10, <1>15, <2>1, FS_Surjection
<1>18. O # {} => PostingCount(rows, segment, key) > 0
  <2> HAVE O # {}
  <2>1. PICK d \in O : TRUE
    OBVIOUS
  <2>2. <<d, 1>> \in P
    BY <1>9, <1>13
  <2>3. Cardinality(P) # 0
    BY <1>10, <2>2, FS_EmptySet
  <2> QED BY <1>7, <1>10, <2>3
<1>19. Gathered(rows, segment, key) = H
  BY <1>6 DEF Gathered, O, ids
<1> QED BY <1>7, <1>10, <1>17, <1>18, <1>19 DEF O

\* The image of a finite set is finite.
LEMMA ImageFinite ==
    ASSUME NEW S, IsFiniteSet(S), NEW f
    PROVE  IsFiniteSet({f[x] : x \in S})
<1> DEFINE T == {f[x] : x \in S}
           g == [x \in S |-> f[x]]
<1>1. g \in Surjection(S, T)
  BY DEF Surjection
<1> HIDE DEF g, T
<1>2. IsFiniteSet(T)
  BY <1>1, FS_Surjection
<1> QED BY <1>2 DEF T

\* A plan has a key, and finitely many.
LEMMA RangeFinite ==
    ASSUME NEW rows, NEW keys, Selection(rows, keys)
    PROVE  /\ IsFiniteSet(Range(keys)) /\ Range(keys) # {} /\ Range(keys) \in SUBSET Keys
           /\ Range(keys) = {keys[i] : i \in 1 .. Len(keys)} /\ keys[1] \in Range(keys)
<1>1. Range(keys) = {keys[i] : i \in 1 .. Len(keys)} /\ Len(keys) \in Nat \ {0}
  BY DEF Range, Selection
<1>2. 1 \in 1 .. Len(keys)
  BY <1>1
<1>3. Range(keys) # {} /\ keys[1] \in Range(keys)
  BY <1>1, <1>2
<1>4. Range(keys) \in SUBSET Keys
  BY <1>1 DEF Selection
<1>5. IsFiniteSet(Range(keys))
  BY <1>4, KeysFinite, FS_Subset
<1> QED BY <1>1, <1>3, <1>4, <1>5

\* The least and the greatest element of a bound and some counts.
LeastOf(m, c, S, f) ==
    /\ m \in Int /\ m <= c /\ \A x \in S : m <= f[x]
    /\ \A b \in Int : b <= c /\ (\A x \in S : b <= f[x]) => b <= m
GreatestOf(m, c, S, f) == m \in Int /\ c <= m /\ \A x \in S : f[x] <= m

\* Min of a cap and some values.
LEMMA BoundMin ==
    ASSUME NEW c \in Int, NEW S, IsFiniteSet(S), NEW f, \A x \in S : f[x] \in Int
    PROVE  LeastOf(Min({c} \union {f[x] : x \in S}), c, S, f)
<1> DEFINE T == {f[x] : x \in S}
           U == T \union {c}
<1>1. IsFiniteSet(T)
  BY ImageFinite
<1>2. T \in SUBSET Int
  OBVIOUS
<1>3. \A x \in S : f[x] \in U
  OBVIOUS
<1>4. \A y \in U : y = c \/ \E x \in S : y = f[x]
  OBVIOUS
<1> HIDE DEF T
<1>5. IsFiniteSet(U)
  BY <1>1, FS_AddElement
<1>6. U \in SUBSET Int /\ U # {} /\ c \in U
  BY <1>2
<1>7. U = {c} \union {f[x] : x \in S}
  BY DEF T
<1> HIDE DEF U
<1>8. Min(U) \in U /\ Min(U) \in Int /\ \A x \in U : Min(U) <= x
  BY <1>5, <1>6, MinMaxOf
<1>9. \A b \in Int : b <= c /\ (\A x \in S : b <= f[x]) => b <= Min(U)
  BY <1>4, <1>8
<1> QED BY <1>3, <1>6, <1>7, <1>8, <1>9 DEF LeastOf

\* Max of a floor and some values.
LEMMA BoundMax ==
    ASSUME NEW c \in Int, NEW S, IsFiniteSet(S), NEW f, \A x \in S : f[x] \in Int
    PROVE  GreatestOf(Max({c} \union {f[x] : x \in S}), c, S, f)
<1> DEFINE T == {f[x] : x \in S}
           U == T \union {c}
<1>1. IsFiniteSet(T)
  BY ImageFinite
<1>2. T \in SUBSET Int
  OBVIOUS
<1>3. \A x \in S : f[x] \in U
  OBVIOUS
<1> HIDE DEF T
<1>5. IsFiniteSet(U)
  BY <1>1, FS_AddElement
<1>6. U \in SUBSET Int /\ U # {} /\ c \in U
  BY <1>2
<1>7. U = {c} \union {f[x] : x \in S}
  BY DEF T
<1> HIDE DEF U
<1>8. Max(U) \in U /\ Max(U) \in Int /\ \A x \in U : x <= Max(U)
  BY <1>5, <1>6, MinMaxOf
<1> QED BY <1>3, <1>6, <1>7, <1>8 DEF GreatestOf

\* The span of a key's descriptors.
LEMMA KeySpan ==
    ASSUME TableInv, NEW rows, NEW keys, Selection(rows, keys), NEW segment, NEW k \in Range(keys),
           Of(rows, segment, k) # {}
    PROVE  /\ Min({d.low : d \in Of(rows, segment, k)}) \in Int
           /\ Max({d.high : d \in Of(rows, segment, k)}) \in Int
           /\ \A r \in Holders(segment, {k}) :
                 /\ Min({d.low : d \in Of(rows, segment, k)}) <= r
                 /\ r <= Max({d.high : d \in Of(rows, segment, k)})
<1> DEFINE O == Of(rows, segment, k)
           lows == {d.low : d \in O}
           highs == {d.high : d \in O}
           low == [d \in O |-> d.low]
           high == [d \in O |-> d.high]
<1>1. O = {Descriptor(n) : n \in RowsOf(segment, k)} /\ IsFiniteSet(O) /\ RowsOf(segment, k) \in SUBSET Places
  BY OfRows
<1>2. \A n \in Places : /\ Descriptor(n).low \in Int /\ Descriptor(n).high \in Int
                        /\ Descriptor(n).at = n
                        /\ \A r \in Row(n).rowids : Descriptor(n).low <= r /\ r <= Descriptor(n).high
  <2> TAKE n \in Places
  <2>1. 0 .. Hwm \in SUBSET Int
    BY DEF TableInv
  <2> QED BY <2>1, DescriptorIs
<1>3. \A d \in O : d.low \in Int /\ d.high \in Int
  BY <1>1, <1>2
<1>4. \A r \in Holders(segment, {k}) : r \in Int /\ \E d \in O : d.low <= r /\ r <= d.high
  <2> TAKE r \in Holders(segment, {k})
  <2>1. Gathered(rows, segment, k) = Holders(segment, {k})
    BY PostingsAre
  <2>2. PICK d \in O : r \in SegmentsTable[d.at + 1].rowids
    BY <2>1 DEF Gathered
  <2>3. PICK n \in Places : d = Descriptor(n)
    BY <1>1, <2>2
  <2>4. r \in Row(n).rowids
    BY <1>2, <2>2, <2>3 DEF Row
  <2>5. r \in Int
    BY <2>4 DEF TableInv
  <2> QED BY <1>2, <2>2, <2>3, <2>4, <2>5
<1> HIDE DEF O
<1>5. lows = {low[d] : d \in O} /\ highs = {high[d] : d \in O}
  OBVIOUS
<1>6. IsFiniteSet(lows) /\ IsFiniteSet(highs)
  <2> HIDE DEF low, high, lows, highs
  <2> QED BY <1>1, <1>5, ImageFinite
<1>7. lows \in SUBSET Int /\ highs \in SUBSET Int /\ lows # {} /\ highs # {}
  BY <1>3 DEF O
<1>8. \A d \in O : d.low \in lows /\ d.high \in highs
  OBVIOUS
<1> HIDE DEF lows, highs
<1>9. /\ Min(lows) \in Int /\ \A x \in lows : Min(lows) <= x
      /\ Max(highs) \in Int /\ \A x \in highs : x <= Max(highs)
  BY <1>6, <1>7, MinMaxOf
<1>10. \A r \in Holders(segment, {k}) : Min(lows) <= r /\ r <= Max(highs)
  <2> TAKE r \in Holders(segment, {k})
  <2>1. PICK d \in O : d.low <= r /\ r <= d.high
    BY <1>4
  <2>2. d.low \in Int /\ d.high \in Int /\ r \in Int /\ Min(lows) <= d.low /\ d.high <= Max(highs)
    BY <1>3, <1>4, <1>8, <1>9
  <2> QED BY <1>9, <2>1, <2>2
<1> QED BY <1>9, <1>10 DEF lows, highs, O

\* The rows that hold every key lie in the span all keys share.
LEMMA SpanHolds ==
    ASSUME TableInv, NEW rows, NEW keys, Selection(rows, keys), NEW segment, CarriesAll(rows, segment, keys)
    PROVE  /\ SpanLow(rows, segment, keys) \in Int /\ SpanHigh(rows, segment, keys) \in Int
           /\ \A r \in Holders(segment, Range(keys)) :
                 SpanLow(rows, segment, keys) <= r /\ r <= SpanHigh(rows, segment, keys)
<1> DEFINE R == Range(keys)
           mn(k) == Min({d.low : d \in Of(rows, segment, k)})
           mx(k) == Max({d.high : d \in Of(rows, segment, k)})
           lo == [k \in R |-> mn(k)]
           hi == [k \in R |-> mx(k)]
           lows == {mn(k) : k \in R}
           highs == {mx(k) : k \in R}
<1>1. IsFiniteSet(R) /\ R # {}
  BY RangeFinite
<1>2. \A k \in R : mn(k) \in Int /\ mx(k) \in Int /\ \A r \in Holders(segment, {k}) : mn(k) <= r /\ r <= mx(k)
  <2> TAKE k \in R
  <2>1. Of(rows, segment, k) # {}
    BY DEF CarriesAll
  <2> QED BY <2>1, KeySpan
<1>3. \A r \in Holders(segment, R) : r \in Int /\ \A k \in R : r \in Holders(segment, {k})
  <2>1. Hwm \in Int
    BY DEF TableInv
  <2> QED BY <2>1 DEF Holders
<1> HIDE DEF mn, mx, R
<1>4. lows = {lo[k] : k \in R} /\ highs = {hi[k] : k \in R}
  OBVIOUS
<1>5. IsFiniteSet(lows) /\ IsFiniteSet(highs)
  <2> HIDE DEF lo, hi, lows, highs
  <2> QED BY <1>1, <1>4, ImageFinite
<1>6. lows \in SUBSET Int /\ highs \in SUBSET Int /\ lows # {} /\ highs # {}
  BY <1>1, <1>2
<1>7. /\ \A x \in lows : \E k \in R : x = mn(k)
      /\ \A x \in highs : \E k \in R : x = mx(k)
  OBVIOUS
<1>8. SpanLow(rows, segment, keys) = Max(lows) /\ SpanHigh(rows, segment, keys) = Min(highs)
  BY DEF SpanLow, SpanHigh, mn, mx, R
<1> HIDE DEF lows, highs
<1>9. Max(lows) \in lows /\ Max(lows) \in Int /\ Min(highs) \in highs /\ Min(highs) \in Int
  BY <1>5, <1>6, MinMaxOf
<1>10. \A r \in Holders(segment, R) : Max(lows) <= r /\ r <= Min(highs)
  BY <1>2, <1>3, <1>7, <1>9
<1> QED BY <1>8, <1>9, <1>10 DEF R

\* A segment that is not admitted holds no candidate.
LEMMA HeldIsAdmitted ==
    ASSUME TableInv, NEW rows, NEW keys, Selection(rows, keys), NEW segment, Holders(segment, Range(keys)) # {}
    PROVE  segment \in AdmittedOf(rows, keys)
<1>1. PICK r \in Holders(segment, Range(keys)) : TRUE
  OBVIOUS
<1>2. \A k \in Range(keys) : Of(rows, segment, k) # {}
  <2> TAKE k \in Range(keys)
  <2>1. r \in Holders(segment, {k})
    BY <1>1 DEF Holders
  <2>2. Gathered(rows, segment, k) = Holders(segment, {k})
    BY PostingsAre
  <2> QED BY <2>1, <2>2 DEF Gathered
<1>3. CarriesAll(rows, segment, keys)
  BY <1>2 DEF CarriesAll
<1>4. SpanLow(rows, segment, keys) <= SpanHigh(rows, segment, keys)
  <2>1. /\ SpanLow(rows, segment, keys) \in Int /\ SpanHigh(rows, segment, keys) \in Int
        /\ SpanLow(rows, segment, keys) <= r /\ r <= SpanHigh(rows, segment, keys)
    BY <1>3, SpanHolds
  <2>2. r \in Int
    BY DEF TableInv, Holders
  <2> QED BY <2>1, <2>2
<1>5. segment \in {d.segment : d \in rows}
  <2>1. PICK d \in Of(rows, segment, keys[1]) : TRUE
    BY <1>2, RangeFinite
  <2>2. d \in rows /\ d.segment = segment
    BY DEF Of
  <2> QED BY <2>2
<1> QED BY <1>3, <1>4, <1>5 DEF AdmittedOf, Admits

\* The admitted segments are finitely many.
LEMMA AdmittedSegmentsAre ==
    ASSUME TableInv, NEW rows, NEW keys, Selection(rows, keys)
    PROVE  IsFiniteSet(AdmittedOf(rows, keys)) /\ AdmittedOf(rows, keys) \in SUBSET Nat
           /\ AdmittedOf(rows, keys) \in SUBSET Int
<1> DEFINE S == {m \in Places : Row(m).key \in Range(keys)}
           T == {d.segment : d \in rows}
           f == [d \in rows |-> d.segment]
<1>1. rows = {Descriptor(n) : n \in S} /\ S \in SUBSET Places
  BY DEF Selection
<1>2. IsFiniteSet(rows)
  <2> HIDE DEF S
  <2> QED BY <1>1, DescriptorsOf
<1>3. T = {f[d] : d \in rows}
  OBVIOUS
<1>4. IsFiniteSet(T)
  <2> HIDE DEF f, T
  <2> QED BY <1>2, <1>3, ImageFinite
<1>5. T \in SUBSET Nat
  <2>1. ASSUME NEW d \in rows PROVE d.segment \in Nat
    <3>1. PICK n \in Places : d = Descriptor(n)
      BY <1>1
    <3>2. Descriptor(n).segment = Row(n).segment
      BY DescriptorIs
    <3> QED BY <3>1, <3>2 DEF TableInv
  <2> QED BY <2>1
<1>6. AdmittedOf(rows, keys) \in SUBSET T
  BY DEF AdmittedOf
<1> HIDE DEF T
<1>7. IsFiniteSet(AdmittedOf(rows, keys))
  BY <1>4, <1>6, FS_Subset
<1>8. AdmittedOf(rows, keys) \in SUBSET Nat
  BY <1>5, <1>6
<1>9. AdmittedOf(rows, keys) \in SUBSET Int
  BY <1>8
<1> QED BY <1>7, <1>8, <1>9

\* A segment has room for the rows of a key.
LEMMA CapacityHolds ==
    ASSUME TableInv, NEW segment \in Nat, NEW k, Holders(segment, {k}) # {}
    PROVE  /\ SegmentCapacity(segment, Hwm) \in Nat
           /\ Cardinality(Holders(segment, {k})) <= SegmentCapacity(segment, Hwm)
<1> DEFINE S == SEGMENT_ROWS
           H == Holders(segment, {k})
           a == segment * S
           over == Hwm - a + 1
           b == IF S <= over THEN a + S - 1 ELSE Hwm
<1>1. S \in Nat \ {0} /\ Hwm \in Int
  BY AdmissionConstants DEF TableInv
<1>2. a \in Nat
  BY <1>1
<1>3. \A r \in H : r \in Nat /\ r <= Hwm /\ a <= r /\ r <= a + S - 1
  <2> TAKE r \in H
  <2>1. r \in 0 .. Hwm /\ r \div S = segment
    BY DEF Holders
  <2>2. r \in Nat /\ r <= Hwm
    BY <1>1, <2>1
  <2>3. r % S \in 0 .. S - 1 /\ r = S * (r \div S) + (r % S)
    BY <1>1, <2>2, Division
  <2>4. r = a + (r % S)
    BY <1>1, <2>1, <2>3
  <2> HIDE DEF S, a
  <2> QED BY <1>1, <1>2, <2>2, <2>3, <2>4
<1> HIDE DEF S, a, H
<1>4. H \in SUBSET (a .. b) /\ b \in Int
  BY <1>1, <1>2, <1>3
<1>5. a <= b
  <2>1. PICK r \in H : TRUE
    BY DEF H
  <2> QED BY <1>1, <1>2, <1>3, <2>1
<1>6. IsFiniteSet(a .. b) /\ Cardinality(a .. b) = b - a + 1
  <2>1. IsFiniteSet(a .. b) /\ Cardinality(a .. b) = IF a > b THEN 0 ELSE b - a + 1
    <3>1. a \in Int /\ b \in Int
      BY <1>2, <1>4
    <3> HIDE DEF b
    <3> QED BY <3>1, FS_Interval
  <2> HIDE DEF b
  <2> QED BY <1>2, <1>4, <1>5, <2>1
<1>7. Cardinality(H) <= b - a + 1
  <2> HIDE DEF b
  <2> QED BY <1>4, <1>6, FS_Subset
<1>8. SegmentCapacity(segment, Hwm) = Min({S, over})
  BY DEF SegmentCapacity, S, a
<1>9. over \in Int /\ S \in Int
  BY <1>1, <1>2
<1>10. Min({S, over}) = IF S <= over THEN S ELSE over
  <2> HIDE DEF over
  <2> QED BY <1>9, PairMinMax
<1>11. Min({S, over}) = b - a + 1 /\ b - a + 1 \in Nat
  BY <1>1, <1>2, <1>5, <1>9, <1>10
<1> QED BY <1>7, <1>8, <1>11 DEF H

\* An admitted segment: the counts of its keys and the bound on its candidates.
AdmittedFacts(rows, keys, s) ==
    /\ SegmentCapacity(s, Hwm) \in Nat
    /\ \A k \in Range(keys) : /\ PostingCount(rows, s, k) \in Nat \ {0}
                              /\ PostingCount(rows, s, k) <= SegmentCapacity(s, Hwm)
    /\ CandidateRows(rows, s, keys, Hwm) \in Nat
    /\ \A f \in Int : (\A k \in Range(keys) : f <= PostingCount(rows, s, k)) /\ f <= SegmentCapacity(s, Hwm) =>
           f <= CandidateRows(rows, s, keys, Hwm)
    /\ CandidateBound(rows, s, keys, Hwm) \in Nat
    /\ Cardinality(Holders(s, Range(keys))) <= CandidateBound(rows, s, keys, Hwm)

\* The bounds of an admitted segment.
LEMMA AdmittedBounds ==
    ASSUME TableInv, NEW rows, NEW keys, Selection(rows, keys), NEW s \in AdmittedOf(rows, keys)
    PROVE  AdmittedFacts(rows, keys, s)
<1> DEFINE R == Range(keys)
           cap == SegmentCapacity(s, Hwm)
           f == [k \in R |-> PostingCount(rows, s, k)]
           lo == SpanLow(rows, s, keys)
           hi == SpanHigh(rows, s, keys)
           vb == VectorBound(rows, s, keys, Hwm)
           cb == CandidateBound(rows, s, keys, Hwm)
           H == Holders(s, R)
<1>1. s \in Nat /\ CarriesAll(rows, s, keys) /\ lo <= hi
  BY AdmittedSegmentsAre DEF AdmittedOf, Admits
<1>2. IsFiniteSet(R) /\ R # {}
  BY RangeFinite
<1>3. \A k \in R : /\ PostingCount(rows, s, k) = Cardinality(Holders(s, {k}))
                   /\ PostingCount(rows, s, k) \in Nat \ {0} /\ Holders(s, {k}) # {}
  <2> TAKE k \in R
  <2>1. /\ PostingCount(rows, s, k) = Cardinality(Holders(s, {k}))
        /\ PostingCount(rows, s, k) \in Nat /\ PostingCount(rows, s, k) > 0
    <3>1. Of(rows, s, k) # {}
      BY <1>1 DEF CarriesAll
    <3>2. Of(rows, s, k) # {} => PostingCount(rows, s, k) > 0
      BY PostingsAre
    <3>3. PostingCount(rows, s, k) = Cardinality(Holders(s, {k})) /\ PostingCount(rows, s, k) \in Nat
      BY PostingsAre
    <3> QED BY <3>1, <3>2, <3>3
  <2>2. Holders(s, {k}) # {}
    BY <2>1, FS_EmptySet
  <2> QED BY <2>1, <2>2
<1>4. \A k \in R : cap \in Nat /\ PostingCount(rows, s, k) <= cap
  BY <1>1, <1>3, CapacityHolds
<1>5. cap \in Nat
  BY <1>2, <1>4
<1>6. \A k \in R : f[k] = PostingCount(rows, s, k) /\ f[k] \in Int
  <2> TAKE k \in R
  <2>1. f[k] = PostingCount(rows, s, k)
    OBVIOUS
  <2>2. PostingCount(rows, s, k) \in Int
    <3>1. PostingCount(rows, s, k) \in Nat
      BY PostingsAre
    <3> QED BY <3>1
  <2> HIDE DEF f
  <2> QED BY <2>1, <2>2
<1>7. vb = Min({cap} \union {f[k] : k \in R})
  BY DEF VectorBound
<1> HIDE DEF cap, f, vb, R
<1>8. /\ vb \in Int /\ vb <= cap /\ (\A x \in R : vb <= f[x])
      /\ \A b \in Int : b <= cap /\ (\A x \in R : b <= f[x]) => b <= vb
  <2>1. cap \in Int
    BY <1>5
  <2>2. LeastOf(Min({cap} \union {f[k] : k \in R}), cap, R, f)
    BY <1>2, <1>6, <2>1, BoundMin
  <2> QED BY <1>7, <2>2 DEF LeastOf
<1>9. vb \in Nat
  <2>1. 0 <= vb
    <3>1. ASSUME NEW x \in R PROVE 0 <= f[x]
      <4>1. PostingCount(rows, s, x) \in Nat
        BY PostingsAre DEF R
      <4> QED BY <1>6, <4>1
    <3> QED BY <1>5, <1>8, <3>1
  <2> QED BY <1>8, <2>1
<1>10. /\ lo \in Int /\ hi \in Int /\ \A r \in H : lo <= r /\ r <= hi
  BY <1>1, SpanHolds DEF R
<1>11. IsFiniteSet(H) /\ Cardinality(H) \in Nat /\ H \in SUBSET (0 .. Hwm) /\ H \in SUBSET Int
  <2>1. Hwm \in Int
    BY DEF TableInv
  <2>2. IsFiniteSet(H) /\ Cardinality(H) \in Nat /\ H \in SUBSET (0 .. Hwm)
    BY HoldersFinite
  <2> QED BY <2>1, <2>2
<1>12. \A k \in R : Cardinality(H) <= f[k]
  <2> TAKE k \in R
  <2>1. H \in SUBSET Holders(s, {k})
    BY DEF Holders
  <2>2. IsFiniteSet(Holders(s, {k}))
    BY HoldersFinite
  <2> HIDE DEF H
  <2> QED BY <1>3, <1>6, <2>1, <2>2, FS_Subset
<1>13. Cardinality(H) <= vb
  <2>1. PICK k \in R : TRUE
    BY <1>2
  <2>2. Cardinality(H) <= cap
    BY <1>3, <1>4, <1>5, <1>6, <1>11, <1>12, <2>1
  <2>3. Cardinality(H) \in Int
    BY <1>11
  <2> HIDE DEF H
  <2> QED BY <1>8, <1>12, <2>2, <2>3
<1> DEFINE span == hi - lo + 1
<1>14. Cardinality(H) <= span /\ span \in Nat
  <2> HIDE DEF lo, hi, H
  <2>1. IsFiniteSet(lo .. hi) /\ Cardinality(lo .. hi) = IF lo > hi THEN 0 ELSE hi - lo + 1
    BY <1>10, FS_Interval
  <2>2. H \in SUBSET (lo .. hi)
    BY <1>10, <1>11
  <2>3. Cardinality(H) <= Cardinality(lo .. hi)
    BY <2>1, <2>2, FS_Subset
  <2>4. ~(lo > hi) /\ span \in Nat
    BY <1>1, <1>10
  <2> HIDE DEF span
  <2> QED BY <2>1, <2>3, <2>4 DEF span
<1>15. cb = Min({vb, span})
  BY DEF CandidateBound, vb
<1> HIDE DEF span, H, lo, hi, cb
<1>16. cb = IF vb <= span THEN vb ELSE span
  <2>1. vb \in Int /\ span \in Int
    BY <1>9, <1>14
  <2> QED BY <1>15, <2>1, PairMinMax
<1>17. cb \in Nat /\ Cardinality(H) <= cb
  BY <1>9, <1>13, <1>14, <1>16
<1>18. CandidateRows(rows, s, keys, Hwm) = vb
  BY DEF CandidateRows, vb
<1> QED BY <1>3, <1>4, <1>5, <1>6, <1>8, <1>9, <1>17, <1>18 DEF AdmittedFacts, H, cb, cap, R

\* The gram order of a segment is a permutation of the keys, least count first.
OrderHolds(rows, keys, s, order) ==
    /\ \A i \in 1 .. Len(keys) : order[i] \in Range(keys)
    /\ \A k \in Range(keys) : \E i \in 1 .. Len(keys) : order[i] = k
    /\ \A k \in Range(keys) : PostingCount(rows, s, order[1]) <= PostingCount(rows, s, k)
    /\ \A i \in 2 .. Len(keys) : \E g, h \in 1 .. Len(keys) : order[1] = keys[h] /\ order[i] = keys[g]

\* GramOrder gives such an order of a selection's keys.
LEMMA OrderIs ==
    ASSUME TableInv, NEW rows, NEW keys, Selection(rows, keys), NEW s
    PROVE  OrderHolds(rows, keys, s, GramOrder(rows, s, keys))
<1> DEFINE n == Len(keys)
           counts == Counts(rows, s, keys)
           list == LeastFirst(counts)
           O == GramOrder(rows, s, keys)
<1>1. n \in Nat \ {0} /\ DOMAIN keys = 1 .. n /\ 1 \in 1 .. n
  BY DEF Selection
<1>2. \A g \in 1 .. n : keys[g] \in Range(keys)
  BY <1>1 DEF Range
<1>3. DOMAIN counts = 1 .. n /\ \A g \in 1 .. n : counts[g] = PostingCount(rows, s, keys[g])
  BY <1>1 DEF Counts
<1>4. \A g \in 1 .. n : counts[g] \in Int
  <2> TAKE g \in 1 .. n
  <2>1. PostingCount(rows, s, keys[g]) \in Nat
    BY <1>2, PostingsAre
  <2> QED BY <1>3, <2>1
<1> HIDE DEF counts
<1>5. IsFiniteSet(1 .. n) /\ Cardinality(1 .. n) = n /\ 1 .. n \in SUBSET Int
  <2>1. 1 \in Int /\ n \in Int
    BY <1>1
  <2>2. IsFiniteSet(1 .. n) /\ Cardinality(1 .. n) = IF 1 > n THEN 0 ELSE n - 1 + 1
    BY <2>1, FS_Interval
  <2> HIDE DEF n
  <2> QED BY <1>1, <2>1, <2>2
<1>6. Permutes(list, counts)
  BY <1>3, <1>4, <1>5, LeastFirstPermutes
<1> HIDE DEF list
<1>7. /\ DOMAIN list = 1 .. n
      /\ \A i \in 1 .. n : list[i] \in 1 .. n
      /\ \A x \in 1 .. n : \E i \in 1 .. n : list[i] = x
      /\ \A i, j \in 1 .. n : i < j => list[i] # list[j] /\ counts[list[i]] <= counts[list[j]]
  BY <1>3, <1>5, <1>6 DEF Permutes
<1>8. O = [g \in 1 .. n |-> keys[list[g]]]
  BY <1>7 DEF GramOrder, counts, list
<1> HIDE DEF O
<1>9. DOMAIN O = 1 .. n /\ \A i \in 1 .. n : O[i] = keys[list[i]]
  BY <1>8
<1>10. \A i \in 1 .. n : O[i] \in Range(keys)
  BY <1>2, <1>7, <1>9
<1>11. \A k \in Range(keys) : \E i \in 1 .. n : O[i] = k
  <2> TAKE k \in Range(keys)
  <2>1. PICK g \in 1 .. n : keys[g] = k
    BY <1>1 DEF Range
  <2> QED BY <1>7, <1>9, <2>1, SMTT(20)
<1>12. \A k \in Range(keys) : PostingCount(rows, s, O[1]) <= PostingCount(rows, s, k)
  <2> TAKE k \in Range(keys)
  <2>1. PICK g \in 1 .. n : keys[g] = k
    BY <1>1 DEF Range
  <2>2. PICK i \in 1 .. n : list[i] = g
    BY <1>7
  <2>3. i \in Int /\ (i = 1 \/ 1 < i)
    BY <1>5
  <2>4. counts[list[1]] <= counts[list[i]]
    <3>1. CASE i = 1
      <4>1. counts[list[i]] \in Int
        BY <1>4, <1>7
      <4> QED BY <3>1, <4>1
    <3>2. CASE 1 < i
      BY <1>1, <1>7, <3>2
    <3> QED BY <2>3, <3>1, <3>2
  <2>5. counts[list[1]] = PostingCount(rows, s, O[1]) /\ counts[list[i]] = PostingCount(rows, s, k)
    BY <1>1, <1>3, <1>7, <1>9, <2>1, <2>2
  <2> QED BY <2>4, <2>5
<1>13. \A i \in 2 .. n : \E g, h \in 1 .. n : O[1] = keys[h] /\ O[i] = keys[g]
  <2> TAKE i \in 2 .. n
  <2>1. i \in 1 .. n /\ 1 < i
    BY <1>1
  <2>2. list[1] \in 1 .. n /\ list[i] \in 1 .. n
    BY <1>1, <1>7, <2>1
  <2> QED BY <1>1, <1>9, <2>1, <2>2
<1>14. OrderHolds(rows, keys, s, O)
  BY <1>10, <1>11, <1>12, <1>13 DEF OrderHolds
<1> QED BY <1>14 DEF O

\* What a worker is charged for covers its buffers in any order of the keys.
LEMMA WorkerPeak ==
    ASSUME NEW n \in Nat \ {0}, NEW counts, Len(counts) = n, NEW cap \in Nat,
           \A i \in 1 .. n : counts[i] \in Nat /\ counts[i] <= cap,
           NEW f \in Nat, \A i \in 1 .. n : f <= counts[i]
    PROVE  /\ SegmentWorkerBytes(counts, cap) \in Nat
           /\ f + SCRATCH <= SegmentWorkerBytes(counts, cap)
           /\ n >= 2 => \A g \in 1 .. n : 2 * f + counts[g] + SCRATCH <= SegmentWorkerBytes(counts, cap)
<1> DEFINE bound(g) == Min({cap} \union {counts[i] : i \in 1 .. g})
           top(g) == bound(g - 1) + counts[g] + bound(g)
           t == [g \in 2 .. n |-> top(g)]
           peak == Max({counts[1]} \union {t[g] : g \in 2 .. n})
<1>0. f <= cap /\ 1 \in 1 .. n
  <2>1. 1 \in 1 .. n
    OBVIOUS
  <2> QED BY <2>1
<1>1. SegmentWorkerBytes(counts, cap) = peak + SCRATCH
  <2>1. {t[g] : g \in 2 .. n} = {top(g) : g \in 2 .. n}
    OBVIOUS
  <2> HIDE DEF t
  <2> QED BY <2>1 DEF SegmentWorkerBytes
<1>2. ASSUME NEW g \in 1 .. n
      PROVE  /\ bound(g) \in Int /\ f <= bound(g)
             /\ g = 1 => bound(g) = counts[1]
  <2>1. IsFiniteSet(1 .. g) /\ \A i \in 1 .. g : i \in 1 .. n
    <3>1. 1 \in Int /\ g \in Int /\ \A i \in 1 .. g : i \in 1 .. n
      OBVIOUS
    <3>2. IsFiniteSet(1 .. g)
      BY <3>1, FS_Interval
    <3> QED BY <3>1, <3>2
  <2>2. cap \in Int /\ \A i \in 1 .. g : counts[i] \in Int /\ f <= counts[i]
    BY <2>1
  <2>3. /\ bound(g) \in Int /\ bound(g) <= cap /\ (\A x \in 1 .. g : bound(g) <= counts[x])
        /\ \A b \in Int : b <= cap /\ (\A x \in 1 .. g : b <= counts[x]) => b <= bound(g)
    <3> DEFINE S == 1 .. g
    <3>1. IsFiniteSet(S) /\ \A x \in S : counts[x] \in Int
      BY <2>1, <2>2
    <3> HIDE DEF S
    <3>2. LeastOf(Min({cap} \union {counts[i] : i \in S}), cap, S, counts)
      BY <2>2, <3>1, BoundMin
    <3> QED BY <3>2 DEF LeastOf, S
  <2> HIDE DEF bound
  <2>4. f <= bound(g)
    BY <1>0, <2>2, <2>3
  <2>5. g = 1 => bound(g) = counts[1]
    <3> HAVE g = 1
    <3>1. \A x \in 1 .. g : x = 1
      OBVIOUS
    <3>2. counts[1] \in Int /\ counts[1] <= cap /\ counts[1] <= counts[1] /\ 1 \in 1 .. g
      BY <1>0
    <3>3. counts[1] <= bound(g) /\ bound(g) <= counts[1]
      BY <2>3, <3>1, <3>2
    <3> QED BY <2>3, <3>2, <3>3
  <2> QED BY <2>3, <2>4, <2>5
<1> HIDE DEF bound
<1>3. ASSUME NEW g \in 2 .. n
      PROVE  /\ t[g] \in Int /\ 2 * f + counts[g] <= t[g]
             /\ g = 2 => 2 * f + counts[1] <= t[g]
  <2>1. g \in 1 .. n /\ g - 1 \in 1 .. n /\ g \in Int
    OBVIOUS
  <2>2. /\ bound(g) \in Int /\ f <= bound(g) /\ bound(g - 1) \in Int /\ f <= bound(g - 1)
        /\ g = 2 => bound(g - 1) = counts[1]
    BY <1>2, <2>1
  <2>3. counts[g] \in Int /\ f <= counts[g] /\ counts[1] \in Int
    BY <1>0, <2>1
  <2>4. t[g] = top(g)
    OBVIOUS
  <2> DEFINE a == bound(g - 1)
             b == bound(g)
             x == counts[g]
             y == t[g]
             z == counts[1]
  <2>5. /\ a \in Int /\ b \in Int /\ x \in Int /\ z \in Int /\ f <= a /\ f <= b /\ f <= x
        /\ g = 2 => a = z
    BY <2>2, <2>3
  <2>6. y = a + x + b
    BY <2>4
  <2> HIDE DEF t, a, b, x, y, z
  <2>7. /\ y \in Int /\ 2 * f + x <= y
        /\ g = 2 => 2 * f + z <= y
    BY <2>5, <2>6
  <2> QED BY <2>7 DEF x, y, z
<1> HIDE DEF t
<1>31. \A g \in 2 .. n : t[g] \in Int
  BY <1>3
<1>32. 2 \in 2 .. n => 2 * f + counts[1] <= t[2]
  BY <1>3
<1>33. \A g \in 2 .. n : 2 * f + counts[g] <= t[g]
  BY <1>3
<1>4. /\ peak \in Int /\ counts[1] <= peak /\ \A g \in 2 .. n : t[g] <= peak
  <2>1. IsFiniteSet(2 .. n)
    <3>1. 2 \in Int /\ n \in Int
      OBVIOUS
    <3> QED BY <3>1, FS_Interval
  <2>2. counts[1] \in Int
    BY <1>0
  <2> DEFINE S == 2 .. n
  <2> HIDE DEF S
  <2>3. GreatestOf(Max({counts[1]} \union {t[g] : g \in S}), counts[1], S, t)
    BY <1>31, <2>1, <2>2, BoundMax DEF S
  <2> QED BY <2>3 DEF GreatestOf, S
<1> HIDE DEF peak
<1>5. SCRATCH \in Nat /\ counts[1] \in Nat /\ f <= counts[1]
  BY <1>0, AdmissionConstants
<1>6. ASSUME n >= 2, NEW g \in 1 .. n PROVE 2 * f + counts[g] <= peak
  <2>1. CASE g = 1
    <3>1. 2 \in 2 .. n
      BY <1>6
    <3>2. t[2] \in Int /\ 2 * f + counts[1] <= t[2] /\ t[2] <= peak
      BY <1>31, <1>32, <1>4, <3>1
    <3> QED BY <1>4, <1>5, <2>1, <3>2
  <2>2. CASE g # 1
    <3>1. g \in 2 .. n
      BY <2>2
    <3>2. t[g] \in Int /\ 2 * f + counts[g] <= t[g] /\ t[g] <= peak /\ counts[g] \in Int
      BY <1>31, <1>33, <1>4, <3>1
    <3> QED BY <1>4, <3>2
  <2> QED BY <2>1, <2>2
<1>7. f <= peak /\ peak \in Nat
  BY <1>4, <1>5
<1>8. n >= 2 => \A g \in 1 .. n : 2 * f + counts[g] + SCRATCH <= peak + SCRATCH
  <2> HAVE n >= 2
  <2> TAKE g \in 1 .. n
  <2>1. 2 * f + counts[g] <= peak /\ counts[g] \in Int
    BY <1>6
  <2> QED BY <1>4, <1>5, <2>1
<1> QED BY <1>1, <1>4, <1>5, <1>7, <1>8

\* What a plan is charged for covers each of its segments.
PeaksCover(rows, keys) ==
    /\ PeakWorkerOf(rows, keys) \in Nat /\ PeakCandidatesOf(rows, keys) \in Nat
    /\ UpperBoundOf(rows, keys) \in Nat
    /\ \A s \in AdmittedOf(rows, keys) :
          /\ SegmentWorkerBytes(Counts(rows, s, keys), SegmentCapacity(s, Hwm)) <= PeakWorkerOf(rows, keys)
          /\ CandidateRows(rows, s, keys, Hwm) <= PeakCandidatesOf(rows, keys)
          /\ SCRATCH <= PeakWorkerOf(rows, keys)
    /\ Cardinality(UNION {Holders(s, Range(keys)) : s \in AdmittedOf(rows, keys)}) <= UpperBoundOf(rows, keys)

\* The counts of a segment as its worker bytes take them.
CountsOf(rows, keys, s) ==
    /\ Len(Counts(rows, s, keys)) = Len(keys)
    /\ \A g \in 1 .. Len(keys) : /\ Counts(rows, s, keys)[g] = PostingCount(rows, s, keys[g])
                                 /\ Counts(rows, s, keys)[g] \in Nat
                                 /\ Counts(rows, s, keys)[g] <= SegmentCapacity(s, Hwm)
                                 /\ keys[g] \in Range(keys)

\* They are the posting counts, within the segment's capacity.
LEMMA CountsAre ==
    ASSUME TableInv, NEW rows, NEW keys, Selection(rows, keys), NEW s \in AdmittedOf(rows, keys)
    PROVE  CountsOf(rows, keys, s)
<1> DEFINE n == Len(keys)
           counts == Counts(rows, s, keys)
<1>1. n \in Nat \ {0} /\ DOMAIN keys = 1 .. n
  BY DEF Selection
<1>2. \A g \in 1 .. n : keys[g] \in Range(keys)
  BY <1>1 DEF Range
<1>3. DOMAIN counts = 1 .. n /\ \A g \in 1 .. n : counts[g] = PostingCount(rows, s, keys[g])
  BY <1>1 DEF Counts
<1>4. Len(counts) = n
  <2>1. counts = [g \in 1 .. n |-> PostingCount(rows, s, keys[g])]
    BY <1>1 DEF Counts
  <2> HIDE DEF counts
  <2> QED BY <1>1, <2>1
<1>5. AdmittedFacts(rows, keys, s)
  BY AdmittedBounds
<1> HIDE DEF counts, n
<1>6. \A g \in 1 .. n : counts[g] \in Nat /\ counts[g] <= SegmentCapacity(s, Hwm)
  BY <1>2, <1>3, <1>5 DEF AdmittedFacts
<1> QED BY <1>2, <1>3, <1>4, <1>6 DEF CountsOf, counts, n

\* The peaks are no less than any segment's, and the bound no less than all
\* holders together.
LEMMA PlanCovers ==
    ASSUME TableInv, NEW rows, NEW keys, Selection(rows, keys)
    PROVE  PeaksCover(rows, keys)
<1> DEFINE A == AdmittedOf(rows, keys)
           R == Range(keys)
           work(s) == SegmentWorkerBytes(Counts(rows, s, keys), SegmentCapacity(s, Hwm))
           cand(s) == CandidateRows(rows, s, keys, Hwm)
           bnd(s) == CandidateBound(rows, s, keys, Hwm)
           w == [s \in A |-> work(s)]
           c == [s \in A |-> cand(s)]
           b == [s \in A |-> bnd(s)]
<1>1. IsFiniteSet(A) /\ A \in SUBSET Nat
  BY AdmittedSegmentsAre
<1>2. \A s \in A : work(s) \in Nat /\ SCRATCH <= work(s)
  <2> TAKE s \in A
  <2> DEFINE n == Len(keys)
             counts == Counts(rows, s, keys)
             cap == SegmentCapacity(s, Hwm)
  <2>1. n \in Nat \ {0} /\ cap \in Nat
    BY AdmittedBounds DEF Selection, AdmittedFacts
  <2>2. Len(counts) = n /\ \A g \in 1 .. n : counts[g] \in Nat /\ counts[g] <= cap
    BY CountsAre DEF CountsOf
  <2>3. 0 \in Nat /\ \A g \in 1 .. n : 0 <= counts[g]
    BY <2>2
  <2> HIDE DEF n, counts, cap
  <2>4. /\ SegmentWorkerBytes(counts, cap) \in Nat /\ 0 + SCRATCH <= SegmentWorkerBytes(counts, cap)
    BY <2>1, <2>2, <2>3, WorkerPeak
  <2>5. SCRATCH \in Nat
    BY AdmissionConstants
  <2> QED BY <2>4, <2>5 DEF counts, cap
<1>3. \A s \in A : /\ cand(s) \in Nat /\ bnd(s) \in Nat /\ Cardinality(Holders(s, R)) <= bnd(s)
  BY AdmittedBounds DEF AdmittedFacts
<1> HIDE DEF work, cand, bnd, A, R
<1>4. /\ {w[s] : s \in A} = {work(s) : s \in A} /\ {c[s] : s \in A} = {cand(s) : s \in A}
      /\ \A s \in A : w[s] = work(s) /\ c[s] = cand(s) /\ b[s] = bnd(s)
  OBVIOUS
<1> HIDE DEF w, c, b
<1>5. PeakWorkerOf(rows, keys) = Max({0} \union {w[s] : s \in A})
  <2>1. PeakWorkerOf(rows, keys) = Max({0} \union {work(s) : s \in A})
    BY DEF PeakWorkerOf, work, A
  <2> QED BY <1>4, <2>1
<1>6. PeakCandidatesOf(rows, keys) = Max({0} \union {c[s] : s \in A})
  <2>1. PeakCandidatesOf(rows, keys) = Max({0} \union {cand(s) : s \in A})
    BY DEF PeakCandidatesOf, cand, A
  <2> QED BY <1>4, <2>1
<1>7. \A s \in A : w[s] \in Int /\ c[s] \in Int /\ b[s] \in Nat
  BY <1>2, <1>3, <1>4
<1>8. GreatestOf(PeakWorkerOf(rows, keys), 0, A, w)
  <2>1. IsFiniteSet(A) /\ 0 \in Int /\ \A s \in A : w[s] \in Int
    BY <1>1, <1>7
  <2>2. GreatestOf(Max({0} \union {w[s] : s \in A}), 0, A, w)
    BY <2>1, BoundMax
  <2> QED BY <1>5, <2>2
<1>9. GreatestOf(PeakCandidatesOf(rows, keys), 0, A, c)
  <2>1. IsFiniteSet(A) /\ 0 \in Int /\ \A s \in A : c[s] \in Int
    BY <1>1, <1>7
  <2>2. GreatestOf(Max({0} \union {c[s] : s \in A}), 0, A, c)
    BY <2>1, BoundMax
  <2> QED BY <1>6, <2>2
<1>10. PeakWorkerOf(rows, keys) \in Nat /\ PeakCandidatesOf(rows, keys) \in Nat
  BY <1>8, <1>9 DEF GreatestOf
<1>11. \A s \in A : /\ work(s) <= PeakWorkerOf(rows, keys) /\ cand(s) <= PeakCandidatesOf(rows, keys)
                    /\ SCRATCH <= PeakWorkerOf(rows, keys)
  <2> TAKE s \in A
  <2>1. work(s) <= PeakWorkerOf(rows, keys) /\ cand(s) <= PeakCandidatesOf(rows, keys)
    BY <1>4, <1>8, <1>9 DEF GreatestOf
  <2>2. work(s) \in Nat /\ SCRATCH <= work(s) /\ SCRATCH \in Nat
    BY <1>2, AdmissionConstants
  <2> QED BY <1>10, <2>1, <2>2
<1> DEFINE P == UNION {{s} \X (1 .. b[s]) : s \in A}
<1>12. IsFiniteSet(P) /\ Cardinality(P) \in Nat
  <2>1. IsFiniteSet(A) /\ \A s \in A : b[s] \in Nat
    BY <1>1, <1>7
  <2>2. /\ IsFiniteSet(UNION {{s} \X (1 .. b[s]) : s \in A})
        /\ Cardinality(UNION {{s} \X (1 .. b[s]) : s \in A}) \in Nat
    BY <2>1, PairsFinite
  <2> QED BY <2>2
<1>13. UpperBoundOf(rows, keys) = Cardinality(P)
  <2>1. UpperBoundOf(rows, keys) = Cardinality(UNION {{s} \X (1 .. bnd(s)) : s \in A})
    BY DEF UpperBoundOf, bnd, A
  <2>2. {{s} \X (1 .. bnd(s)) : s \in A} = {{s} \X (1 .. b[s]) : s \in A}
    BY <1>4
  <2> QED BY <2>1, <2>2
<1> DEFINE H(s) == Holders(s, R)
           U == UNION {H(s) : s \in A}
           Q == {p \in P : p[2] <= Cardinality(H(p[1]))}
           place(p) == Ascending(H(p[1]))[p[2]]
           f == [p \in Q |-> place(p)]
<1>14. \A s \in A : /\ Cardinality(H(s)) \in Nat /\ Cardinality(H(s)) <= b[s]
                    /\ \A i \in 1 .. Cardinality(H(s)) : Ascending(H(s))[i] \in H(s)
                    /\ \A x \in H(s) : \E i \in 1 .. Cardinality(H(s)) : Ascending(H(s))[i] = x
  <2> TAKE s \in A
  <2>1. IsFiniteSet(H(s)) /\ Cardinality(H(s)) \in Nat /\ H(s) \in SUBSET (0 .. Hwm)
    BY HoldersFinite
  <2>2. H(s) \in SUBSET Int
    <3>1. 0 .. Hwm \in SUBSET Int
      BY DEF TableInv
    <3> HIDE DEF H
    <3> QED BY <2>1, <3>1
  <2> HIDE DEF H
  <2>3. /\ \A i \in 1 .. Cardinality(H(s)) : Ascending(H(s))[i] \in H(s)
        /\ \A x \in H(s) : \E i \in 1 .. Cardinality(H(s)) : Ascending(H(s))[i] = x
    BY <2>1, <2>2, AscendingLists
  <2>4. Cardinality(H(s)) <= b[s]
    BY <1>3, <1>4 DEF H
  <2> QED BY <2>1, <2>3, <2>4
<1>15. \A p \in P : p[1] \in A /\ p[2] \in 1 .. b[p[1]]
  OBVIOUS
<1>16. \A s \in A : \A i \in 1 .. b[s] : <<s, i>> \in P
  OBVIOUS
<1> HIDE DEF P, H
<1>17. \A p \in Q : f[p] = place(p) /\ f[p] \in U
  <2> TAKE p \in Q
  <2>1. p[1] \in A /\ p[2] \in 1 .. Cardinality(H(p[1]))
    <3>1. p[1] \in A /\ p[2] \in 1 .. b[p[1]] /\ p[2] <= Cardinality(H(p[1]))
      BY <1>15
    <3> QED BY <1>7, <1>14, <3>1
  <2>2. place(p) \in H(p[1])
    BY <1>14, <2>1
  <2> QED BY <2>1, <2>2
<1>18. \A x \in U : \E p \in Q : f[p] = x
  <2> TAKE x \in U
  <2>1. PICK s \in A : x \in H(s)
    OBVIOUS
  <2>2. PICK i \in 1 .. Cardinality(H(s)) : Ascending(H(s))[i] = x
    BY <1>14, <2>1
  <2>3. i \in 1 .. b[s] /\ i <= Cardinality(H(s))
    BY <1>7, <1>14, <2>1, <2>2
  <2>4. <<s, i>> \in P /\ <<s, i>>[1] = s /\ <<s, i>>[2] = i
    BY <1>16, <2>3
  <2>5. <<s, i>> \in Q
    BY <2>3, <2>4
  <2>6. f[<<s, i>>] = x
    BY <2>2, <2>4, <2>5
  <2> QED BY <2>5, <2>6
<1>19. f \in Surjection(Q, U)
  <2>1. f \in [Q -> U]
    BY <1>17
  <2> HIDE DEF f, Q, U
  <2> QED BY <1>18, <2>1 DEF Surjection
<1>20. IsFiniteSet(Q) /\ Cardinality(Q) <= Cardinality(P) /\ Cardinality(Q) \in Nat
  <2>1. Q \in SUBSET P
    OBVIOUS
  <2> HIDE DEF Q
  <2> QED BY <1>12, <2>1, FS_Subset, FS_CardinalityType
<1>21. Cardinality(U) <= Cardinality(P)
  <2> HIDE DEF f, Q, U
  <2>1. IsFiniteSet(U) /\ Cardinality(U) <= Cardinality(Q)
    BY <1>19, <1>20, FS_Surjection
  <2>2. Cardinality(U) \in Nat
    BY <2>1, FS_CardinalityType
  <2> QED BY <1>12, <1>20, <2>1, <2>2
<1> HIDE DEF U
<1>22. Cardinality(UNION {Holders(s, Range(keys)) : s \in AdmittedOf(rows, keys)}) = Cardinality(U)
  BY DEF U, H, R, A
<1> QED BY <1>10, <1>11, <1>12, <1>13, <1>21, <1>22 DEF PeaksCover, work, cand, A

\* The threads a plan is given fit what the query's budget has left.
LEMMA WorkspaceFits ==
    ASSUME NEW a \in Nat, NEW w \in Nat \ {0}, NEW c \in Nat, w <= a, NEW n \in Nat, NEW u \in Nat, NEW cap \in Nat,
           NEW t, t = MaxThreads(a, w, c, n, u, cap)
    PROVE  t \in Nat \ {0} /\ Workspace(t, w, c) \in Nat /\ Workspace(t, w, c) <= a
<1> DEFINE m == Max({n, Ceiling(u, FETCH_BATCH_ROWS)})
           p == PossibleWorkers(a, w, c)
           low == Min({m, cap, p})
           d == w + c
           e == a + 2 * c
<1>1. FETCH_BATCH_ROWS \in Nat \ {0}
  BY AdmissionConstants
<1>2. Ceiling(u, FETCH_BATCH_ROWS) \in Int
  <2> DEFINE F == FETCH_BATCH_ROWS
  <2>1. u + F - 1 \in Nat
    BY <1>1
  <2>2. (u + F - 1) \div F \in Nat
    BY <1>1, <2>1, Division
  <2> QED BY <2>2 DEF Ceiling
<1>3. m \in Int
  <2> DEFINE x == Ceiling(u, FETCH_BATCH_ROWS)
  <2> HIDE DEF x
  <2>1. x \in Int /\ n \in Int
    BY <1>2 DEF x
  <2>2. Max({n, x}) = IF n <= x THEN x ELSE n
    BY <2>1, PairMinMax
  <2>3. Max({n, x}) \in Int
    BY <2>1, <2>2
  <2> QED BY <2>3 DEF x
<1>4. d \in Nat \ {0} /\ e \in Nat
  OBVIOUS
<1> DEFINE q == e \div d
<1> HIDE DEF d, e
<1>5. q \in Nat /\ e % d \in 0 .. d - 1 /\ e = d * q + (e % d)
  BY <1>4, Division
<1> HIDE DEF q
<1>6. p = q
  BY DEF PossibleWorkers, q, d, e
<1> HIDE DEF m, p
<1>7. low \in Int /\ low <= p
  <2>1. m \in Int /\ cap \in Int /\ p \in Int
    BY <1>3, <1>5, <1>6
  <2> QED BY <2>1, TripleMinMax
<1>8. t = Max({1, low})
  BY DEF MaxThreads, m, p
<1> HIDE DEF low
<1>9. t = IF 1 <= low THEN low ELSE 1
  BY <1>7, <1>8, PairMinMax
<1>10. t \in Nat \ {0} /\ (t = 1 \/ (t >= 2 /\ t <= q))
  BY <1>5, <1>6, <1>7, <1>9
<1> DEFINE z == Max({t - 2, 0})
<1>11. z = IF t - 2 <= 0 THEN 0 ELSE t - 2
  <2>1. t - 2 \in Int /\ 0 \in Int
    BY <1>10
  <2> QED BY <2>1, PairMinMax
<1>12. Workspace(t, w, c) = w * t + c * z
  BY DEF Workspace
<1> HIDE DEF z
<1>13. CASE t = 1
  <2>1. z = 0
    BY <1>11, <1>13
  <2>2. w * t + c * z = w
    BY <1>13, <2>1
  <2> QED BY <1>10, <1>12, <2>2
<1>14. CASE t >= 2 /\ t <= q
  <2>1. z = t - 2 /\ z \in Nat
    BY <1>10, <1>11, <1>14
  <2>2. d * t <= d * q
    <3>1. q - t \in Nat
      BY <1>5, <1>10, <1>14
    <3>2. d * q = d * t + d * (q - t) /\ d * (q - t) \in Nat /\ d * t \in Nat
      BY <1>4, <1>5, <1>10, <3>1
    <3> QED BY <3>2
  <2>3. d * t = w * t + c * t
    BY <1>10 DEF d
  <2>4. c * z = c * t - 2 * c
    BY <1>10, <2>1
  <2>5. w * t \in Nat /\ c * t \in Nat /\ c * z \in Nat /\ d * q \in Nat
    BY <1>4, <1>5, <1>10, <2>1
  <2>6. e >= d * q
    BY <1>4, <1>5, <2>5
  <2>7. w * t + c * z <= a
    BY <2>2, <2>3, <2>4, <2>5, <2>6 DEF e
  <2> QED BY <1>10, <1>12, <2>5, <2>7
<1> QED BY <1>10, <1>13, <1>14

-----------------------------------------------------------------------------
(* Admission. *)

\* Once the scans are over and nothing was declined, every row was read.
LEMMA AllRead ==
    ASSUME TableInv, ManifestInv, outcome = "planning", ScansOver, ~declined
    PROVE  \A k \in Keys : per_key[k] = {Descriptor(n) : n \in {m \in Places : Row(m).key = k}}
<1>0. WorkersInv /\ ReadInv /\ CompleteInv
  BY DEF ManifestInv
<1>1. cursor \in Nat /\ cursor >= Cardinality(Keys) /\ Cardinality(Keys) \in Nat
  <2>1. ~(cursor < Cardinality(Keys))
    BY <1>0 DEF CompleteInv, ScansOver
  <2> QED BY <1>0, <2>1, KeysFinite DEF WorkersInv
<1>2. \A k \in Keys : Claimed(k)
  <2> TAKE k \in Keys
  <2>1. PICK j \in 1 .. Cardinality(Keys) : Ascending(Keys)[j] = k
    BY KeysFinite, AscendingLists
  <2>2. j <= cursor
    BY <1>1
  <2> QED BY <2>1, <2>2 DEF Claimed
<1>3. \A w \in Workers : Unread(w) = {}
  <2> TAKE w \in Workers
  <2>1. worker[w].left = {} /\ worker[w].scans = <<>>
    BY <1>0 DEF WorkersInv, ScansOver
  <2>2. DOMAIN worker[w].scans = {}
    BY <2>1
  <2> QED BY <2>1, <2>2 DEF Unread
<1>4. \A n \in Places : Row(n).key \in Keys
  BY DEF TableInv
<1>5. \A n \in Places : Descriptor(n) \in per_key[Row(n).key]
  BY <1>0, <1>2, <1>3, <1>4 DEF CompleteInv
<1> TAKE k \in Keys
<1>6. \A d \in per_key[k] : \E n \in Places : d = Descriptor(n) /\ Row(n).key = k
  BY <1>0 DEF ReadInv
<1> QED BY <1>5, <1>6

\* What the planner keeps are the keys it selects, with all their rows.
LEMMA TotalIs ==
    ASSUME TableInv, ReadInv, NEW k \in Keys
    PROVE  Total(k) \in Int
<1> DEFINE O == per_key[k]
           c == [d \in O |-> d.count]
<1>1. \A d \in O : \E n \in Places : d = Descriptor(n)
  BY DEF ReadInv
<1>2. \A d \in O : d.count \in Nat
  BY <1>1, DescriptorIs
<1>3. IsFiniteSet(O)
  <2>1. O \in SUBSET UNION {per_key[l] : l \in Keys}
    OBVIOUS
  <2> QED BY <2>1, ReadFinite, FS_Subset
<1>4. \A d \in O : c[d] \in Nat /\ c[d] = d.count
  BY <1>2
<1> DEFINE Q == UNION {{d} \X (1 .. c[d]) : d \in O}
<1>5. Total(k) = Cardinality(Q)
  <2>1. Total(k) = Cardinality(UNION {{d} \X (1 .. d.count) : d \in O})
    BY DEF Total, SumOf
  <2> HIDE DEF c, O
  <2>2. {{d} \X (1 .. d.count) : d \in O} = {{d} \X (1 .. c[d]) : d \in O}
    BY <1>4
  <2> QED BY <2>1, <2>2
<1>6. Cardinality(Q) \in Nat
  <2> HIDE DEF c, O
  <2>1. IsFiniteSet(O) /\ \A d \in O : c[d] \in Nat
    BY <1>3, <1>4
  <2>2. IsFiniteSet(Q) /\ Cardinality(Q) \in Nat
    BY <2>1, PairsFinite
  <2> QED BY <2>2
<1> HIDE DEF Q
<1> QED BY <1>5, <1>6

\* The planner's selection is one of all the rows of its keys.
LEMMA SelectionIs ==
    ASSUME TableInv, ManifestInv, outcome = "planning", ScansOver, ~declined
    PROVE  Selection(Manifest, Selected) /\ Manifest \in SUBSET UNION {per_key[k] : k \in Keys}
<1> DEFINE total == [k \in Keys |-> Total(k)]
           list == LeastFirst(total)
           n == Cardinality(Keys)
           len == Min({n, MAX_GRAMS})
<1>0. ReadInv
  BY DEF ManifestInv
<1>1. DOMAIN total = Keys /\ \A k \in DOMAIN total : total[k] \in Int
  BY <1>0, TotalIs
<1>2. n \in Nat \ {0} /\ IsFiniteSet(Keys) /\ Keys \in SUBSET Int
  BY KeysFinite
<1>3. Selected = [i \in 1 .. len |-> list[i]]
  BY <1>1 DEF Selected, RarestKeys
<1> HIDE DEF total
<1>4. Permutes(list, total)
  BY <1>1, <1>2, LeastFirstPermutes
<1>5. len \in Nat \ {0} /\ len <= n
  <2>1. MAX_GRAMS \in Nat \ {0}
    BY ProbeConstants
  <2>2. n \in Int /\ MAX_GRAMS \in Int
    BY <1>2, <2>1
  <2>3. len = IF n <= MAX_GRAMS THEN n ELSE MAX_GRAMS
    BY <2>2, PairMinMax
  <2> QED BY <1>2, <2>1, <2>3
<1> HIDE DEF list, n, len
<1>6. \A i \in 1 .. len : list[i] \in Keys
  <2>1. DOMAIN list = 1 .. n /\ \A i \in DOMAIN list : list[i] \in Keys
    BY <1>1, <1>4 DEF Permutes, n
  <2>2. \A i \in 1 .. len : i \in 1 .. n
    BY <1>2, <1>5
  <2> QED BY <2>1, <2>2
<1>7. Len(Selected) = len /\ DOMAIN Selected = 1 .. len /\ \A i \in 1 .. len : Selected[i] \in Keys
  BY <1>3, <1>5, <1>6
<1>8. \A k \in Range(Selected) : k \in Keys
  BY <1>7 DEF Range
<1>9. \A k \in Keys : per_key[k] = {Descriptor(m) : m \in {m \in Places : Row(m).key = k}}
  BY AllRead
<1> DEFINE R == Range(Selected)
           S == {m \in Places : Row(m).key \in R}
<1>10. Manifest = UNION {per_key[k] : k \in R}
  BY DEF Manifest
<1> HIDE DEF R
<1>11. Manifest = {Descriptor(m) : m \in S}
  <2>1. ASSUME NEW d \in Manifest PROVE d \in {Descriptor(m) : m \in S}
    <3>1. PICK k \in R : d \in per_key[k]
      BY <1>10
    <3>2. k \in Keys
      BY <1>8 DEF R
    <3>3. PICK m \in Places : Row(m).key = k /\ d = Descriptor(m)
      BY <1>9, <3>1, <3>2
    <3> QED BY <3>1, <3>3
  <2>2. ASSUME NEW m \in S PROVE Descriptor(m) \in Manifest
    <3>1. m \in Places /\ Row(m).key \in R /\ Row(m).key \in Keys
      BY <1>8 DEF R
    <3>2. Descriptor(m) \in per_key[Row(m).key]
      BY <1>9, <3>1
    <3> QED BY <1>10, <3>1, <3>2
  <2> QED BY <2>1, <2>2
<1>12. Manifest \in SUBSET UNION {per_key[k] : k \in Keys}
  BY <1>8, <1>10 DEF R
<1> HIDE DEF S
<1>13. Selection(Manifest, Selected)
  <2>1. Len(Selected) \in Nat \ {0} /\ DOMAIN Selected = 1 .. Len(Selected)
        /\ \A i \in DOMAIN Selected : Selected[i] \in Keys
    BY <1>5, <1>7
  <2> QED BY <1>11, <2>1 DEF Selection, S, R
<1> QED BY <1>12, <1>13

\* What the planner charges is what the peaks of its selection are.
LEMMA ChargesAre ==
    /\ AdmittedSegments = Ascending(AdmittedOf(Manifest, Selected))
    /\ PeakWorker = PeakWorkerOf(Manifest, Selected)
    /\ PeakCandidates = PeakCandidatesOf(Manifest, Selected)
    /\ UpperBound = UpperBoundOf(Manifest, Selected)
<1>1. Admitted = AdmittedOf(Manifest, Selected)
  BY DEF Admitted, AdmittedOf
<1>2. AdmittedSegments = Ascending(AdmittedOf(Manifest, Selected))
  BY <1>1 DEF AdmittedSegments
<1>3. PeakWorker = PeakWorkerOf(Manifest, Selected)
  BY <1>1 DEF PeakWorker, PeakOver, PeakWorkerOf
<1>4. PeakCandidates = PeakCandidatesOf(Manifest, Selected)
  BY <1>1 DEF PeakCandidates, PeakOver, PeakCandidatesOf
<1>5. UpperBound = UpperBoundOf(Manifest, Selected)
  BY <1>1 DEF UpperBound, SumOf, UpperBoundOf
<1> QED BY <1>2, <1>3, <1>4, <1>5

\* A plan's terms are those of its index.
SamePlan(r, k) ==
    /\ Selection(r, k)' = Selection(r, k) /\ AdmittedOf(r, k)' = AdmittedOf(r, k)
    /\ PeakWorkerOf(r, k)' = PeakWorkerOf(r, k) /\ PeakCandidatesOf(r, k)' = PeakCandidatesOf(r, k)
    /\ UpperBoundOf(r, k)' = UpperBoundOf(r, k)

\* They depend on the index alone.
LEMMA PlanTerms ==
    ASSUME UNCHANGED index, NEW r, NEW k
    PROVE  SamePlan(r, k)
<1>1. Hwm' = Hwm /\ Places' = Places
  BY SameTable
<1>2. \A n : Row(n)' = Row(n)
  BY SameTable
<1>3. \A n : Descriptor(n)' = Descriptor(n)
  BY SameTable
<1>4. Selection(r, k)' = Selection(r, k)
  BY <1>1, <1>2, <1>3 DEF Selection
<1>5. AdmittedOf(r, k)' = AdmittedOf(r, k)
  BY DEF AdmittedOf
<1>6. PeakWorkerOf(r, k)' = PeakWorkerOf(r, k)
  BY <1>1, <1>5 DEF PeakWorkerOf
<1>7. PeakCandidatesOf(r, k)' = PeakCandidatesOf(r, k)
  BY <1>1, <1>5 DEF PeakCandidatesOf
<1>8. UpperBoundOf(r, k)' = UpperBoundOf(r, k)
  BY <1>1, <1>5 DEF UpperBoundOf
<1> QED BY <1>4, <1>5, <1>6, <1>7, <1>8 DEF SamePlan

\* Past the scans, the manifest stays as it is.
LEMMA ManifestKept ==
    ASSUME TableInv, ManifestInv, UNCHANGED <<index, manifest>>,
           outcome' \in {"declined", "probing", "done"}, \A w \in Workers : worker[w].at = "idle",
           reservation' \in Nat, reservation' <= index.budget
    PROVE  ManifestInv'
<1>0. WorkersInv /\ ReadInv /\ CompleteInv /\ BudgetInv
  BY DEF ManifestInv
<1>1. UNCHANGED <<index, cursor, worker, total_rows, declined, per_key>>
  BY DEF manifest
<1>2. Places' = Places
  BY <1>1, SameTable
<1>3. (\A n : Row(n)' = Row(n)) /\ (\A n : Descriptor(n)' = Descriptor(n))
  BY <1>1, SameTable
<1>4. (\A k : Claimed(k)' = Claimed(k)) /\ (\A w : Unread(w)' = Unread(w)) /\ WorkerStates' = WorkerStates
  BY <1>1, <1>2 DEF Claimed, Unread, WorkerStates
<1>5. WorkersInv'
  BY <1>0, <1>1, <1>4 DEF WorkersInv
<1>6. ReadInv'
  <2>1. \A w \in Workers : \A n \in Unread(w)' :
            /\ Row(n)'.key = worker'[w].key
            /\ Claimed(worker[w].key)'
            /\ Descriptor(n)' \notin per_key'[worker'[w].key]
    BY <1>0, <1>1, <1>3, <1>4 DEF WorkersInv, Unread
  <2> QED BY <1>0, <1>1, <1>2, <1>3, <1>4, <2>1 DEF ReadInv
<1>7. CompleteInv'
  BY <1>0, <1>1, <1>2, <1>3, <1>4 DEF CompleteInv
<1>8. BudgetInv'
  BY <1>1 DEF BudgetInv
<1> QED BY <1>5, <1>6, <1>7, <1>8 DEF ManifestInv

\* What reading charged leaves the planner room for what it selects.
LEMMA ReservedFits ==
    ASSUME TableInv, ManifestInv, outcome = "planning", ScansOver, ~declined
    PROVE  Reserved \in Nat /\ Reserved <= index.budget
<1>0. ReadInv /\ BudgetInv /\ WorkersInv
  BY DEF ManifestInv
<1> DEFINE U == UNION {per_key[k] : k \in Keys}
<1>1. PICK charged \in 0 .. total_rows :
         /\ Cardinality(U) <= charged
         /\ charged + Cardinality(Pending) <= MaxManifestRows
  BY <1>0 DEF BudgetInv
<1>2. KeyBytes + PREFLIGHT_PER_WORKER <= index.budget
  BY <1>0 DEF BudgetInv
<1>3. IsFiniteSet(Manifest) /\ Cardinality(Manifest) <= Cardinality(U)
  <2>1. Manifest \in SUBSET U
    BY SelectionIs
  <2>2. IsFiniteSet(U)
    BY <1>0, ReadFinite
  <2> HIDE DEF U
  <2> QED BY <2>1, <2>2, FS_Subset
<1> HIDE DEF U
<1> DEFINE n == Cardinality(Manifest)
<1>4. n \in Nat /\ Cardinality(U) \in Nat
  BY <1>0, <1>3, ReadFinite, FS_CardinalityType DEF U
<1>5. charged \in Nat /\ Cardinality(Pending) \in Nat
  BY <1>0, PendingFinite DEF WorkersInv
<1>6. MaxManifestRows \in Nat
  BY <1>2, BudgetNumbers
<1>7. n \in 0 .. MaxManifestRows
  <2> HIDE DEF n
  <2>1. n <= Cardinality(U)
    BY <1>3 DEF n
  <2> QED BY <1>1, <1>4, <1>5, <1>6, <2>1
<1>8. n * MANIFEST_PER_ROW \in Nat /\ Preflight + n * MANIFEST_PER_ROW <= index.budget /\ Preflight \in Nat
  BY <1>2, <1>7, BudgetNumbers
<1>9. Reserved = Preflight + n * MANIFEST_PER_ROW
  BY DEF Reserved
<1> HIDE DEF n
<1> QED BY <1>8, <1>9

\* An admitted plan is of a whole selection, and its workspace fits the
\* budget.
LEMMA AdmitStep ==
    ASSUME IInv, Admit
    PROVE  IInv'
<1>0. TableInv /\ ManifestInv /\ WorkersInv /\ BudgetInv /\ ScratchInv
  BY DEF IInv, ManifestInv
<1>1. /\ outcome = "planning" /\ ScansOver /\ UNCHANGED <<index, manifest, scratch, found>>
      /\ outcome' \in {"declined", "probing"}
  BY DEF Admit
<1>2. TableInv'
  BY <1>0, <1>1, SameTable
<1>3. \A w \in Workers : worker[w].at = "idle"
  BY <1>1 DEF ScansOver
<1>4. ScratchInv'
  <2>1. scratch = NoScratch /\ found = {}
    BY <1>0, <1>1 DEF ScratchInv
  <2>2. NoScratch \in [next : Nat, position : Nat, rowids : SUBSET (0 .. Hwm'), candidates : Nat,
                     postings : Nat, intersection : Nat]
    BY DEF NoScratch
  <2> QED BY <1>1, <2>1, <2>2 DEF ScratchInv
<1>5. CASE outcome' = "declined"
  <2>1. Declines /\ reservation' = IF declined THEN reservation ELSE Reserved
    BY <1>5 DEF Admit
  <2>2. reservation' \in Nat /\ reservation' <= index.budget
    <3>1. CASE declined
      BY <1>0, <2>1, <3>1 DEF BudgetInv
    <3>2. CASE ~declined
      BY <1>0, <1>1, <2>1, <3>2, ReservedFits
    <3> QED BY <3>1, <3>2
  <2>3. ManifestInv'
    BY <1>0, <1>1, <1>3, <2>2, ManifestKept
  <2>4. PlanInv' /\ DecodeInv'
    BY <1>5 DEF PlanInv, DecodeInv
  <2> QED BY <1>2, <1>4, <2>3, <2>4 DEF IInv
<1>6. CASE outcome' = "probing"
  <2> DEFINE available == index.budget - Reserved
             threads == IF AdmittedSegments = <<>> THEN 0
                        ELSE MaxThreads(available, PeakWorker, PeakCandidates, Len(AdmittedSegments),
                                        UpperBound, Cardinality(Workers))
  <2>1. /\ ~Declines
        /\ plan' = [keys |-> Selected, rows |-> Manifest, segments |-> AdmittedSegments,
                    worker |-> PeakWorker, candidate |-> PeakCandidates,
                    bound |-> UpperBound, threads |-> threads]
        /\ reservation' = Reserved +
              (IF threads = 0 THEN 0 ELSE Workspace(threads, PeakWorker, PeakCandidates))
    BY <1>6 DEF Admit
  <2>2. ~declined
    BY <2>1 DEF Declines
  <2> DEFINE A == AdmittedOf(Manifest, Selected)
  <2>3. Selection(Manifest, Selected)
    BY <1>0, <1>1, <2>2, SelectionIs
  <2>4. PeaksCover(Manifest, Selected)
    BY <1>0, <2>3, PlanCovers
  <2>5. Reserved \in Nat /\ Reserved <= index.budget /\ index.budget \in Nat
    BY <1>0, <1>1, <2>2, ReservedFits, BudgetNumbers
  <2>6. /\ PeakWorker \in Nat /\ PeakCandidates \in Nat /\ UpperBound \in Nat
        /\ A # {} => PeakWorker \in Nat \ {0}
    <3>1. /\ PeakWorker \in Nat /\ PeakCandidates \in Nat /\ UpperBound \in Nat
          /\ \A s \in A : SCRATCH <= PeakWorker
      BY <2>4, ChargesAre DEF PeaksCover
    <3>2. SCRATCH \in Nat \ {0}
      BY AdmissionConstants
    <3> QED BY <3>1, <3>2
  <2>7. IsFiniteSet(A) /\ A \in SUBSET Int /\ AdmittedSegments = Ascending(A)
    BY <1>0, <2>3, AdmittedSegmentsAre, ChargesAre
  <2> HIDE DEF A
  <2>8. Len(AdmittedSegments) \in Nat /\ (A = {} <=> AdmittedSegments = <<>>)
    <3>1. /\ Len(Ascending(A)) = Cardinality(A) /\ Cardinality(A) \in Nat /\ Ascending(A) \in Seq(A)
      BY <2>7, AscendingLists
    <3>2. A = {} <=> Cardinality(A) = 0
      BY <2>7, FS_EmptySet
    <3>3. Ascending(A) = <<>> <=> Len(Ascending(A)) = 0
      BY <3>1, EmptySeq
    <3> QED BY <2>7, <3>1, <3>2, <3>3
  <2>9. reservation' \in Nat /\ reservation' <= index.budget
    <3>1. CASE AdmittedSegments = <<>>
      BY <2>1, <2>5, <3>1
    <3>2. CASE AdmittedSegments # <<>>
      <4> DEFINE t == MaxThreads(available, PeakWorker, PeakCandidates, Len(AdmittedSegments),
                                        UpperBound, Cardinality(Workers))
      <4>1. available \in Nat /\ PeakWorker \in Nat \ {0} /\ PeakCandidates \in Nat
            /\ Len(AdmittedSegments) \in Nat /\ UpperBound \in Nat /\ Cardinality(Workers) \in Nat
        BY <2>5, <2>6, <2>8, <3>2, KeysFinite
      <4>2. PeakWorker <= available
        <5>1. ~(PeakWorker > index.budget - Reserved)
          BY <2>1, <3>2 DEF Declines
        <5> QED BY <4>1, <5>1
      <4> HIDE DEF t, available
      <4>3. t \in Nat \ {0} /\ Workspace(t, PeakWorker, PeakCandidates) \in Nat
            /\ Workspace(t, PeakWorker, PeakCandidates) <= available
        BY <4>1, <4>2, WorkspaceFits DEF t
      <4>4. threads = t
        BY <3>2 DEF t
      <4>5. reservation' = Reserved + Workspace(t, PeakWorker, PeakCandidates)
        BY <2>1, <4>3, <4>4
      <4> QED BY <2>5, <4>3, <4>5 DEF available
    <3> QED BY <3>1, <3>2
  <2>10. ManifestInv'
    BY <1>0, <1>1, <1>3, <2>9, ManifestKept
  <2>11. PICK r : r = Manifest
    OBVIOUS
  <2>12. PICK k : k = Selected
    OBVIOUS
  <2>13. SamePlan(r, k)
    BY <1>1, PlanTerms
  <2>14. plan'.rows = r /\ plan'.keys = k /\ plan'.segments = Ascending(AdmittedOf(r, k))
         /\ plan'.worker = PeakWorkerOf(r, k) /\ plan'.candidate = PeakCandidatesOf(r, k)
         /\ plan'.bound = UpperBoundOf(r, k) /\ Selection(r, k)
    BY <2>1, <2>3, <2>11, <2>12, ChargesAre
  <2>15. PlanInv'
    <3>1. /\ Selection(r, k)' /\ AdmittedOf(r, k)' = AdmittedOf(r, k)
          /\ PeakWorkerOf(r, k)' = PeakWorkerOf(r, k) /\ PeakCandidatesOf(r, k)' = PeakCandidatesOf(r, k)
          /\ UpperBoundOf(r, k)' = UpperBoundOf(r, k)
      BY <2>13, <2>14 DEF SamePlan
    <3>2. /\ Selection(plan.rows, plan.keys)' /\ AdmittedOf(plan.rows, plan.keys)' = AdmittedOf(r, k)
          /\ PeakWorkerOf(plan.rows, plan.keys)' = plan'.worker /\ PeakCandidatesOf(plan.rows, plan.keys)' = plan'.candidate
          /\ UpperBoundOf(plan.rows, plan.keys)' = plan'.bound
      BY <2>14, <3>1
    <3> QED BY <2>14, <3>2 DEF PlanInv
  <2>16. DecodeInv'
    <3>1. scratch' = NoScratch /\ found' = {}
      BY <1>0, <1>1 DEF ScratchInv
    <3>2. /\ scratch'.next = 1 /\ scratch'.position = 0 /\ scratch'.postings = 0 /\ scratch'.intersection = 0
          /\ scratch'.candidates = 0
      BY <3>1 DEF NoScratch
    <3>3. Len(plan'.segments) \in Nat /\ Len(plan'.keys) \in Nat
      BY <2>1, <2>3, <2>8 DEF Selection
    <3>4. 0 + SCRATCH <= Max({plan'.worker, SCRATCH})
      <4>1. plan'.worker \in Int /\ SCRATCH \in Int
        BY <2>1, <2>6, AdmissionConstants
      <4>2. Max({plan'.worker, SCRATCH}) = IF plan'.worker <= SCRATCH THEN SCRATCH ELSE plan'.worker
        BY <4>1, PairMinMax
      <4> QED BY <4>1, <4>2
    <3>5. found' = UNION {Holders(plan.segments[i], Range(plan.keys))' : i \in 1 .. scratch'.next - 1}
      <4>1. 1 .. scratch'.next - 1 = {}
        BY <3>2
      <4> QED BY <3>1, <4>1
    <3> QED BY <1>6, <3>2, <3>3, <3>4, <3>5 DEF DecodeInv
  <2> QED BY <1>2, <1>4, <2>10, <2>15, <2>16 DEF IInv
<1> QED BY <1>1, <1>5, <1>6

-----------------------------------------------------------------------------
(* Decoding. *)

\* What the decoding of an admitted segment relies on: each posting list it
\* reads, in the segment's order, and the memory the plan charged for them.
Decoding ==
    /\ Segment \in AdmittedOf(plan.rows, plan.keys) /\ Segment = plan.segments[scratch.next]
    /\ Len(plan.keys) \in Nat \ {0} /\ plan.worker \in Nat /\ plan.candidate \in Nat
    /\ First \in Nat /\ First <= plan.candidate /\ First + SCRATCH <= plan.worker
    /\ {Order[i] : i \in 1 .. Len(plan.keys)} = Range(plan.keys)
    /\ \A i \in 1 .. Len(plan.keys) :
          /\ Decoded(Segment, Order[i]) = Holders(Segment, {Order[i]})
          /\ PostingCount(plan.rows, Segment, Order[i]) = Cardinality(Holders(Segment, {Order[i]}))
          /\ PostingCount(plan.rows, Segment, Order[i]) \in Nat
          /\ i >= 2 => 2 * First + PostingCount(plan.rows, Segment, Order[i]) + SCRATCH <= plan.worker

\* PostingsAre of a segment, by name.
PostingsHold(rows, segment, key) ==
    /\ Gathered(rows, segment, key) = Holders(segment, {key})
    /\ PostingCount(rows, segment, key) = Cardinality(Holders(segment, {key}))
    /\ PostingCount(rows, segment, key) \in Nat

\* PostingsAre, as PostingsHold.
LEMMA PostingsByName ==
    ASSUME TableInv, NEW rows, NEW keys, Selection(rows, keys), NEW segment, NEW key \in Range(keys)
    PROVE  PostingsHold(rows, segment, key)
  BY PostingsAre DEF PostingsHold

\* A plan's segments are the admitted ones.
LEMMA SegmentIsAdmitted ==
    ASSUME TableInv, PlanInv, outcome \in {"probing", "done"}, NEW i \in 1 .. Len(plan.segments)
    PROVE  plan.segments[i] \in AdmittedOf(plan.rows, plan.keys)
<1> DEFINE A == AdmittedOf(plan.rows, plan.keys)
<1>1. plan.segments = Ascending(A)
  BY DEF PlanInv
<1>2. IsFiniteSet(A) /\ A \in SUBSET Int
  BY AdmittedSegmentsAre DEF PlanInv
<1> HIDE DEF A
<1>3. Len(Ascending(A)) = Cardinality(A) /\ \A j \in 1 .. Cardinality(A) : Ascending(A)[j] \in A
  BY <1>2, AscendingLists
<1>4. plan.segments[i] \in A
  BY <1>1, <1>3
<1> QED BY <1>4 DEF A

\* A segment under decoding has what Decoding says.
LEMMA DecodingHolds ==
    ASSUME TableInv, PlanInv, DecodeInv, outcome = "probing", scratch.next <= Len(plan.segments)
    PROVE  Decoding
<1> DEFINE rows == plan.rows
           keys == plan.keys
           n == Len(plan.keys)
           counts == Counts(rows, Segment, keys)
           cap == SegmentCapacity(Segment, Hwm)
<1>0. TableInv
  OBVIOUS
<1>1. Selection(rows, keys) /\ n \in Nat \ {0}
  BY DEF PlanInv, Selection
<1>2. Segment \in AdmittedOf(rows, keys)
  <2>1. Len(plan.segments) \in Nat
    <3>1. IsFiniteSet(AdmittedOf(rows, keys)) /\ AdmittedOf(rows, keys) \in SUBSET Int
      BY <1>1, AdmittedSegmentsAre
    <3>2. Len(Ascending(AdmittedOf(rows, keys))) \in Nat
      BY <3>1, AscendingLists
    <3> QED BY <3>2 DEF PlanInv
  <2>2. scratch.next \in 1 .. Len(plan.segments)
    BY <2>1 DEF DecodeInv
  <2> QED BY <2>2, SegmentIsAdmitted DEF Segment
<1>3. /\ plan.worker = PeakWorkerOf(rows, keys) /\ plan.candidate = PeakCandidatesOf(rows, keys)
  BY DEF PlanInv
<1>4. /\ plan.worker \in Nat /\ plan.candidate \in Nat
      /\ SegmentWorkerBytes(counts, cap) <= plan.worker
      /\ CandidateRows(rows, Segment, keys, Hwm) <= plan.candidate
  BY <1>1, <1>2, <1>3, PlanCovers DEF PeaksCover
<1>5. /\ Len(counts) = n
      /\ \A g \in 1 .. n : /\ counts[g] = PostingCount(rows, Segment, keys[g])
                           /\ counts[g] \in Nat /\ counts[g] <= cap /\ keys[g] \in Range(keys)
  BY <1>1, <1>2, CountsAre DEF CountsOf
<1>6. /\ \A i \in 1 .. n : Order[i] \in Range(keys)
      /\ \A k \in Range(keys) : \E i \in 1 .. n : Order[i] = k
      /\ \A k \in Range(keys) : First <= PostingCount(rows, Segment, k)
      /\ \A i \in 2 .. n : \E g, h \in 1 .. n : Order[1] = keys[h] /\ Order[i] = keys[g]
  <2>1. Order = GramOrder(rows, Segment, keys)
    BY DEF Order
  <2>2. OrderHolds(rows, keys, Segment, Order)
    BY <1>1, <2>1, OrderIs
  <2>3. First = PostingCount(rows, Segment, Order[1])
    BY DEF First
  <2> HIDE DEF rows, keys
  <2> QED BY <2>2, <2>3 DEF OrderHolds, keys
<1>7. /\ cap \in Nat
      /\ \A k \in Range(keys) : PostingCount(rows, Segment, k) \in Nat
      /\ \A k \in Range(keys) : PostingCount(rows, Segment, k) <= cap
      /\ CandidateRows(rows, Segment, keys, Hwm) \in Nat
      /\ \A f \in Int : (\A k \in Range(keys) : f <= PostingCount(rows, Segment, k)) /\ f <= cap =>
             f <= CandidateRows(rows, Segment, keys, Hwm)
  BY <1>1, <1>2, AdmittedBounds DEF AdmittedFacts
<1>8. Order[1] \in Range(keys) /\ First = PostingCount(rows, Segment, Order[1])
  BY <1>1, <1>6 DEF First
<1>9. First \in Nat /\ First <= cap
  BY <1>7, <1>8
<1>10. First <= plan.candidate
  BY <1>4, <1>6, <1>7, <1>9
<1>11. \A g \in 1 .. n : First <= counts[g]
  BY <1>5, <1>6
<1> HIDE DEF counts, cap, n
<1>12. SCRATCH \in Nat
  BY AdmissionConstants
<1>13. /\ SegmentWorkerBytes(counts, cap) \in Nat
       /\ First + SCRATCH <= SegmentWorkerBytes(counts, cap)
       /\ n >= 2 => \A g \in 1 .. n : 2 * First + counts[g] + SCRATCH <= SegmentWorkerBytes(counts, cap)
  <2>1. n \in Nat \ {0} /\ Len(counts) = n /\ cap \in Nat /\ First \in Nat
    BY <1>1, <1>5, <1>7, <1>9
  <2>2. \A g \in 1 .. n : counts[g] \in Nat /\ counts[g] <= cap
    BY <1>5
  <2> QED BY <2>1, <2>2, <1>11, WorkerPeak
<1>14. First + SCRATCH <= plan.worker
  BY <1>4, <1>9, <1>12, <1>13
<1>15. ASSUME NEW i \in 1 .. n
       PROVE  /\ Decoded(Segment, Order[i]) = Holders(Segment, {Order[i]})
              /\ PostingCount(rows, Segment, Order[i]) = Cardinality(Holders(Segment, {Order[i]}))
              /\ PostingCount(rows, Segment, Order[i]) \in Nat
  <2>1. Order[i] \in Range(keys)
    BY <1>6
  <2> DEFINE k == Order[i]
  <2>2. k \in Range(keys)
    BY <2>1
  <2> HIDE DEF k, rows, keys
  <2>3. PostingsHold(rows, Segment, k)
    BY <1>0, <1>1, <2>2, PostingsByName
  <2> QED BY <2>3 DEF PostingsHold, Decoded, Gathered, k, rows
<1>16. ASSUME NEW i \in 1 .. n, i >= 2
       PROVE  2 * First + PostingCount(rows, Segment, Order[i]) + SCRATCH <= plan.worker
  <2>1. i \in 2 .. n /\ n >= 2
    BY <1>1, <1>16
  <2>2. PICK g \in 1 .. n : Order[i] = keys[g]
    BY <1>6, <2>1
  <2>3. counts[g] = PostingCount(rows, Segment, Order[i]) /\ counts[g] \in Nat
    BY <1>5, <2>2
  <2>4. 2 * First + counts[g] + SCRATCH <= SegmentWorkerBytes(counts, cap)
    BY <1>13, <2>1
  <2> QED BY <1>4, <1>9, <1>12, <1>13, <2>3, <2>4
<1>17. {Order[i] : i \in 1 .. n} = Range(keys)
  BY <1>6
<1>18. Segment = plan.segments[scratch.next]
  BY DEF Segment
<1> QED BY <1>1, <1>2, <1>4, <1>9, <1>10, <1>14, <1>15, <1>16, <1>17, <1>18 DEF Decoding, n

\* Holders depend on the index alone.
LEMMA SameHolders ==
    ASSUME UNCHANGED index, NEW s, NEW keys
    PROVE  Holders(s, keys)' = Holders(s, keys)
<1>1. Hwm' = Hwm
  BY SameTable
<1> QED BY <1>1 DEF Holders

\* The rows of two sets of keys.
LEMMA HoldersMeet ==
    ASSUME NEW s, NEW keys, NEW more
    PROVE  /\ Holders(s, keys \union more) = Holders(s, keys) \cap Holders(s, more)
  BY DEF Holders

\* A step that leaves the index and the plan alone keeps the plan's facts.
LEMMA PlanKept ==
    ASSUME PlanInv, outcome \in {"probing", "done"}, UNCHANGED <<index, plan>>
    PROVE  PlanInv'
<1>1. PICK r : r = plan.rows
  OBVIOUS
<1>2. PICK k : k = plan.keys
  OBVIOUS
<1>3. SamePlan(r, k)
  BY PlanTerms
<1>4. plan' = plan /\ plan'.rows = r /\ plan'.keys = k
  BY <1>1, <1>2
<1>5. /\ Selection(r, k) /\ plan.segments = Ascending(AdmittedOf(r, k))
        /\ plan.worker = PeakWorkerOf(r, k) /\ plan.candidate = PeakCandidatesOf(r, k)
        /\ plan.bound = UpperBoundOf(r, k)
  BY <1>1, <1>2 DEF PlanInv
<1>6. /\ Selection(r, k)' /\ AdmittedOf(r, k)' = AdmittedOf(r, k)
        /\ PeakWorkerOf(r, k)' = PeakWorkerOf(r, k) /\ PeakCandidatesOf(r, k)' = PeakCandidatesOf(r, k)
        /\ UpperBoundOf(r, k)' = UpperBoundOf(r, k)
  BY <1>3, <1>5 DEF SamePlan
<1>7. /\ Selection(plan.rows, plan.keys)' /\ AdmittedOf(plan.rows, plan.keys)' = AdmittedOf(r, k)
        /\ PeakWorkerOf(plan.rows, plan.keys)' = PeakWorkerOf(r, k)
        /\ PeakCandidatesOf(plan.rows, plan.keys)' = PeakCandidatesOf(r, k)
        /\ UpperBoundOf(plan.rows, plan.keys)' = UpperBoundOf(r, k)
  BY <1>4, <1>6
<1> QED BY <1>4, <1>5, <1>7 DEF PlanInv

\* A decoding step leaves the index, the manifest and the plan alone.
LEMMA DecodeKeeps ==
    ASSUME IInv, outcome = "probing", UNCHANGED <<index, manifest, reservation, plan>>,
           outcome' \in {"probing", "done"}
    PROVE  TableInv' /\ ManifestInv' /\ PlanInv'
<1>0. TableInv /\ ManifestInv /\ PlanInv /\ WorkersInv /\ BudgetInv
  BY DEF IInv, ManifestInv
<1>1. TableInv'
  BY <1>0, SameTable
<1>2. ManifestInv'
  <2>1. \A w \in Workers : worker[w].at = "idle"
    BY <1>0 DEF WorkersInv
  <2>2. reservation' \in Nat /\ reservation' <= index.budget
    BY <1>0 DEF BudgetInv
  <2> QED BY <1>0, <2>1, <2>2, ManifestKept
<1>3. PlanInv'
  BY <1>0, PlanKept
<1> QED BY <1>1, <1>2, <1>3

\* What decoding has handed out, after a step of the segments before `next`.
LEMMA SameFound ==
    ASSUME UNCHANGED <<index, plan>>, NEW n
    PROVE  UNION {Holders(plan.segments[i], Range(plan.keys))' : i \in 1 .. n}
             = UNION {Holders(plan.segments[i], Range(plan.keys)) : i \in 1 .. n}
<1>1. \A i : Holders(plan.segments[i], Range(plan.keys))' = Holders(plan.segments[i], Range(plan.keys))
  <2> TAKE i
  <2>1. PICK s : s = plan.segments[i]
    OBVIOUS
  <2>2. PICK k : k = Range(plan.keys)
    OBVIOUS
  <2>3. Holders(s, k)' = Holders(s, k)
    BY SameHolders
  <2> QED BY <2>1, <2>2, <2>3
<1> QED BY <1>1

\* The terms of a decoding step that stays in its segment.
SameSegment ==
    /\ Segment' = Segment /\ Order' = Order /\ First' = First
    /\ \A p : Holders(Segment, {Order[q] : q \in 1 .. p})' = Holders(Segment, {Order[q] : q \in 1 .. p})

\* A step that stays in its segment keeps its terms.
LEMMA StaysInSegment ==
    ASSUME UNCHANGED <<index, plan>>, scratch'.next = scratch.next
    PROVE  SameSegment
<1>1. Segment' = Segment
  BY DEF Segment
<1>2. Order' = Order
  BY <1>1 DEF Order
<1>3. First' = First
  BY <1>1, <1>2 DEF First
<1>4. ASSUME NEW p
      PROVE  Holders(Segment, {Order[q] : q \in 1 .. p})' = Holders(Segment, {Order[q] : q \in 1 .. p})
  <2>1. PICK s : s = Segment
    OBVIOUS
  <2>2. PICK k : k = {Order[q] : q \in 1 .. p}
    OBVIOUS
  <2>3. Holders(s, k)' = Holders(s, k)
    BY SameHolders
  <2>4. Segment' = s /\ {Order'[q] : q \in 1 .. p} = k
    BY <1>1, <1>2, <2>1, <2>2
  <2> QED BY <2>1, <2>2, <2>3, <2>4
<1> QED BY <1>1, <1>2, <1>3, <1>4 DEF SameSegment

\* The first list is the rows that hold its key.
LEMMA DecodeFirstStep ==
    ASSUME IInv, DecodeFirst
    PROVE  IInv'
<1>0. TableInv /\ PlanInv /\ ScratchInv /\ DecodeInv
  BY DEF IInv
<1>1. /\ outcome = "probing" /\ scratch.position = 0 /\ scratch.next <= Len(plan.segments)
      /\ UNCHANGED <<index, manifest, reservation, plan, found, outcome>>
      /\ scratch' = [scratch EXCEPT !.position = 1,
                                    !.rowids = Decoded(Segment, Order[1]),
                                    !.candidates = First]
  BY DEF DecodeFirst, First
<1>2. TableInv' /\ ManifestInv' /\ PlanInv'
  BY <1>1, DecodeKeeps
<1>3. Decoding
  BY <1>0, <1>1, DecodingHolds
<1>4. /\ Len(plan.keys) \in Nat \ {0} /\ First \in Nat
      /\ Decoded(Segment, Order[1]) = Holders(Segment, {Order[1]})
  <2>1. Len(plan.keys) \in Nat \ {0} /\ First \in Nat
    BY <1>3 DEF Decoding
  <2>2. 1 \in 1 .. Len(plan.keys)
    BY <2>1
  <2> QED BY <1>3, <2>1, <2>2 DEF Decoding
<1>5. {Order[q] : q \in 1 .. 1} = {Order[1]}
  OBVIOUS
<1>6. /\ scratch.next \in Nat /\ scratch.postings = 0 /\ scratch.intersection = 0
      /\ scratch \in [next : Nat, position : Nat, rowids : SUBSET (0 .. Hwm), candidates : Nat,
                     postings : Nat, intersection : Nat]
  BY <1>0, <1>1 DEF ScratchInv, DecodeInv
<1>7. /\ scratch'.next = scratch.next /\ scratch'.position = 1 /\ scratch'.candidates = First
      /\ scratch'.postings = 0 /\ scratch'.intersection = 0
      /\ scratch'.rowids = Holders(Segment, {Order[q] : q \in 1 .. 1})
  BY <1>1, <1>4, <1>5, <1>6
<1>8. SameSegment
  BY <1>1, <1>7, StaysInSegment
<1>9. scratch'.rowids \in SUBSET (0 .. Hwm)
  BY <1>7 DEF Holders
<1>10. ScratchInv'
  <2>1. Hwm' = Hwm
    BY <1>1, SameTable
  <2>2. scratch' \in [next : Nat, position : Nat, rowids : SUBSET (0 .. Hwm), candidates : Nat,
                     postings : Nat, intersection : Nat]
    BY <1>1, <1>4, <1>6, <1>7, <1>9
  <2> QED BY <1>1, <2>1, <2>2 DEF ScratchInv
<1>11. scratch'.rowids = Holders(Segment, {Order[q] : q \in 1 .. scratch.position})'
  <2>1. PICK p : p = 1
    OBVIOUS
  <2>2. Holders(Segment, {Order[q] : q \in 1 .. p})' = Holders(Segment, {Order[q] : q \in 1 .. p})
    BY <1>8 DEF SameSegment
  <2> QED BY <1>7, <2>1, <2>2
<1>12. found' = UNION {Holders(plan.segments[i], Range(plan.keys))' : i \in 1 .. scratch'.next - 1}
  <2>1. found = UNION {Holders(plan.segments[i], Range(plan.keys)) : i \in 1 .. scratch.next - 1}
    BY <1>0, <1>1 DEF DecodeInv
  <2> QED BY <1>1, <1>7, <2>1, SameFound
<1>13. DecodeInv'
  <2>1. First' = First
    BY <1>8 DEF SameSegment
  <2> QED BY <1>0, <1>1, <1>4, <1>7, <1>11, <1>12, <2>1 DEF DecodeInv
<1> QED BY <1>2, <1>10, <1>13 DEF IInv

\* The rows decoded so far hold the keys read so far: no more than the first list.
LEMMA ReadSoFar ==
    ASSUME TableInv, Decoding, NEW p \in 1 .. Len(plan.keys)
    PROVE  /\ Cardinality(Holders(Segment, {Order[q] : q \in 1 .. p})) \in Nat
           /\ Cardinality(Holders(Segment, {Order[q] : q \in 1 .. p})) <= First
<1> DEFINE H == Holders(Segment, {Order[q] : q \in 1 .. p})
           G == Holders(Segment, {Order[1]})
<1>1. p \in Nat /\ 1 <= p /\ 1 \in 1 .. Len(plan.keys)
  BY DEF Decoding
<1>2. First = Cardinality(G)
  BY <1>1 DEF Decoding, First
<1>3. H \in SUBSET G
  <2>1. Order[1] \in {Order[q] : q \in 1 .. p}
    BY <1>1
  <2> QED BY <2>1 DEF Holders
<1>4. IsFiniteSet(G)
  BY HoldersFinite
<1> HIDE DEF H, G
<1>5. IsFiniteSet(H) /\ Cardinality(H) <= Cardinality(G)
  BY <1>3, <1>4, FS_Subset
<1> QED BY <1>2, <1>5, FS_CardinalityType DEF H

\* The room for an intersection is no more than the first list.
LEMMA DecodeNextStep ==
    ASSUME IInv, DecodeNext
    PROVE  IInv'
<1> DEFINE p == scratch.position
           postings == PostingCount(plan.rows, Segment, Order[p + 1])
           size == Cardinality(scratch.rowids)
           room == Min({size, postings})
<1>0. TableInv /\ PlanInv /\ ScratchInv /\ DecodeInv
  BY DEF IInv
<1>1. /\ outcome = "probing" /\ MoreLists /\ scratch.intersection = 0
      /\ UNCHANGED <<index, manifest, reservation, plan, found, outcome>>
      /\ scratch' = [scratch EXCEPT !.postings = postings, !.intersection = room]
  BY DEF DecodeNext
<1>2. TableInv' /\ ManifestInv' /\ PlanInv'
  BY <1>1, DecodeKeeps
<1>3. p \in Nat /\ p > 0 /\ p \in 1 .. Len(plan.keys) - 1
  BY <1>0, <1>1 DEF ScratchInv, MoreLists
<1>4. /\ scratch.next <= Len(plan.segments)
      /\ scratch.rowids = Holders(Segment, {Order[q] : q \in 1 .. p})
      /\ scratch.candidates <= First
      /\ scratch \in [next : Nat, position : Nat, rowids : SUBSET (0 .. Hwm), candidates : Nat,
                     postings : Nat, intersection : Nat]
  BY <1>0, <1>1, <1>3 DEF ScratchInv, DecodeInv
<1>5. Decoding
  BY <1>0, <1>1, <1>4, DecodingHolds
<1>6. Len(plan.keys) \in Nat \ {0} /\ First \in Nat
  BY <1>5 DEF Decoding
<1>7. p \in 1 .. Len(plan.keys) /\ p + 1 \in 2 .. Len(plan.keys) /\ p + 1 \in 1 .. Len(plan.keys)
  BY <1>3, <1>6
<1>8. postings \in Nat
  BY <1>5, <1>7 DEF Decoding
<1>9. size \in Nat /\ size <= First
  BY <1>0, <1>4, <1>5, <1>7, ReadSoFar
<1> HIDE DEF postings, size
<1>10. room \in Nat /\ room <= First
  <2>1. room = IF size <= postings THEN size ELSE postings
    BY <1>8, <1>9, PairMinMax
  <2> QED BY <1>6, <1>8, <1>9, <2>1
<1> HIDE DEF room
<1>11. /\ scratch'.next = scratch.next /\ scratch'.position = p /\ scratch'.candidates = scratch.candidates
       /\ scratch'.rowids = scratch.rowids /\ scratch'.postings = postings /\ scratch'.intersection = room
  BY <1>1, <1>4
<1>12. SameSegment
  BY <1>1, <1>11, StaysInSegment
<1>13. ScratchInv'
  <2>1. Hwm' = Hwm
    BY <1>1, SameTable
  <2>2. scratch' \in [next : Nat, position : Nat, rowids : SUBSET (0 .. Hwm), candidates : Nat,
                     postings : Nat, intersection : Nat]
    BY <1>1, <1>4, <1>8, <1>10
  <2> QED BY <1>1, <2>1, <2>2 DEF ScratchInv
<1>14. scratch'.rowids = Holders(Segment, {Order[q] : q \in 1 .. scratch.position})'
  <2>1. PICK t : t = p
    OBVIOUS
  <2>2. Holders(Segment, {Order[q] : q \in 1 .. t})' = Holders(Segment, {Order[q] : q \in 1 .. t})
    BY <1>12 DEF SameSegment
  <2> QED BY <1>4, <1>11, <2>1, <2>2
<1>15. found' = UNION {Holders(plan.segments[i], Range(plan.keys))' : i \in 1 .. scratch'.next - 1}
  <2>1. found = UNION {Holders(plan.segments[i], Range(plan.keys)) : i \in 1 .. scratch.next - 1}
    BY <1>0, <1>1 DEF DecodeInv
  <2> QED BY <1>1, <1>11, <2>1, SameFound
<1>16. \E q \in 2 .. Len(plan'.keys) : scratch'.postings = PostingCount(plan.rows, Segment, Order[q])'
  <2>1. scratch'.postings = PostingCount(plan.rows, Segment, Order[p + 1])
    BY <1>11 DEF postings
  <2>2. PICK q \in 2 .. Len(plan.keys) : q = p + 1
    BY <1>7
  <2>3. scratch'.postings = PostingCount(plan.rows, Segment, Order[q])
    BY <2>1, <2>2
  <2>4. PostingCount(plan.rows, Segment, Order[q])' = PostingCount(plan.rows, Segment, Order[q])
    BY <1>1, <1>12 DEF SameSegment
  <2> QED BY <1>1, <2>3, <2>4
<1>17. MoreLists'
  BY <1>1, <1>11 DEF MoreLists
<1>18. DecodeInv'
  <2>1. First' = First
    BY <1>12 DEF SameSegment
  <2>2. /\ scratch'.next \in 1 .. Len(plan'.segments) + 1 /\ scratch'.position \in 0 .. Len(plan'.keys)
        /\ outcome' # "done" /\ scratch'.position > 0 /\ scratch'.next <= Len(plan'.segments)
        /\ scratch'.candidates <= First' /\ scratch'.intersection <= First'
    BY <1>0, <1>1, <1>3, <1>4, <1>10, <1>11, <2>1 DEF DecodeInv
  <2>3. scratch'.position # 0
    BY <1>3, <1>11
  <2> QED BY <1>14, <1>15, <1>16, <1>17, <2>2, <2>3 DEF DecodeInv
<1> QED BY <1>2, <1>13, <1>18 DEF IInv

\* An intersection is the rows that hold one key more.
LEMMA IntersectStep ==
    ASSUME IInv, Intersect
    PROVE  IInv'
<1> DEFINE p == scratch.position
           next == Decoded(Segment, Order[p + 1])
<1>0. TableInv /\ PlanInv /\ ScratchInv /\ DecodeInv
  BY DEF IInv
<1>1. /\ outcome = "probing" /\ MoreLists /\ scratch.intersection > 0
      /\ UNCHANGED <<index, manifest, reservation, plan, found, outcome>>
      /\ scratch' = [scratch EXCEPT !.rowids = @ \cap next, !.candidates = scratch.intersection,
                                    !.intersection = 0, !.position = @ + 1]
  BY DEF Intersect
<1>2. TableInv' /\ ManifestInv' /\ PlanInv'
  BY <1>1, DecodeKeeps
<1>3. p \in Nat /\ p > 0 /\ p \in 1 .. Len(plan.keys) - 1
  BY <1>0, <1>1 DEF ScratchInv, MoreLists
<1>4. /\ scratch.next <= Len(plan.segments)
      /\ scratch.rowids = Holders(Segment, {Order[q] : q \in 1 .. p})
      /\ scratch.intersection <= First
      /\ scratch \in [next : Nat, position : Nat, rowids : SUBSET (0 .. Hwm), candidates : Nat,
                     postings : Nat, intersection : Nat]
  BY <1>0, <1>1, <1>3 DEF ScratchInv, DecodeInv
<1>5. Decoding
  BY <1>0, <1>1, <1>4, DecodingHolds
<1>6. Len(plan.keys) \in Nat \ {0} /\ First \in Nat
  BY <1>5 DEF Decoding
<1>7. p + 1 \in 1 .. Len(plan.keys) /\ p + 1 \in Nat
  BY <1>3, <1>6
<1>8. next = Holders(Segment, {Order[p + 1]})
  BY <1>5, <1>7 DEF Decoding
<1>9. {Order[q] : q \in 1 .. p + 1} = {Order[q] : q \in 1 .. p} \union {Order[p + 1]}
  <2>1. 1 .. p + 1 = (1 .. p) \union {p + 1}
    BY <1>3
  <2> HIDE DEF p
  <2> QED BY <2>1
<1> HIDE DEF next
<1>10. scratch.rowids \cap next = Holders(Segment, {Order[q] : q \in 1 .. p + 1})
  <2> DEFINE read == {Order[q] : q \in 1 .. p}
             more == {Order[p + 1]}
             all == {Order[q] : q \in 1 .. p + 1}
  <2>1. all = read \union more
    BY <1>9
  <2>2. scratch.rowids = Holders(Segment, read) /\ next = Holders(Segment, more)
    BY <1>4, <1>8
  <2> HIDE DEF read, more, all
  <2>3. Holders(Segment, read \union more) = Holders(Segment, read) \cap Holders(Segment, more)
    BY HoldersMeet
  <2>4. scratch.rowids \cap next = Holders(Segment, all)
    BY <2>1, <2>2, <2>3
  <2> QED BY <2>4 DEF all
<1>11. /\ scratch'.next = scratch.next /\ scratch'.position = p + 1
       /\ scratch'.candidates = scratch.intersection
       /\ scratch'.rowids = Holders(Segment, {Order[q] : q \in 1 .. p + 1})
       /\ scratch'.postings = scratch.postings /\ scratch'.intersection = 0
  BY <1>1, <1>4, <1>10
<1>12. SameSegment
  BY <1>1, <1>11, StaysInSegment
<1>13. ScratchInv'
  <2>1. Hwm' = Hwm
    BY <1>1, SameTable
  <2>2. scratch' \in [next : Nat, position : Nat, rowids : SUBSET (0 .. Hwm), candidates : Nat,
                     postings : Nat, intersection : Nat]
    BY <1>1, <1>4, <1>7
  <2> QED BY <1>1, <2>1, <2>2 DEF ScratchInv
<1>14. scratch'.rowids = Holders(Segment, {Order[q] : q \in 1 .. scratch.position})'
  <2>1. PICK t : t = p + 1
    OBVIOUS
  <2>2. Holders(Segment, {Order[q] : q \in 1 .. t})' = Holders(Segment, {Order[q] : q \in 1 .. t})
    BY <1>12 DEF SameSegment
  <2> QED BY <1>11, <2>1, <2>2
<1>15. found' = UNION {Holders(plan.segments[i], Range(plan.keys))' : i \in 1 .. scratch'.next - 1}
  <2>1. found = UNION {Holders(plan.segments[i], Range(plan.keys)) : i \in 1 .. scratch.next - 1}
    BY <1>0, <1>1 DEF DecodeInv
  <2> QED BY <1>1, <1>11, <2>1, SameFound
<1>16. \E q \in 2 .. Len(plan'.keys) : scratch'.postings = PostingCount(plan.rows, Segment, Order[q])'
  <2>1. PICK q \in 2 .. Len(plan.keys) : scratch.postings = PostingCount(plan.rows, Segment, Order[q])
    BY <1>0, <1>1, <1>3, <1>4 DEF DecodeInv
  <2>2. PostingCount(plan.rows, Segment, Order[q])' = PostingCount(plan.rows, Segment, Order[q])
    BY <1>1, <1>12 DEF SameSegment
  <2> QED BY <1>1, <1>11, <2>1, <2>2
<1>17. DecodeInv'
  <2>1. First' = First
    BY <1>12 DEF SameSegment
  <2>2. /\ scratch'.next \in 1 .. Len(plan'.segments) + 1 /\ scratch'.position \in 0 .. Len(plan'.keys)
        /\ outcome' # "done" /\ scratch'.next <= Len(plan'.segments)
        /\ scratch'.candidates <= First' /\ scratch'.intersection <= First' /\ ~(scratch'.intersection > 0)
    BY <1>0, <1>1, <1>3, <1>4, <1>6, <1>7, <1>11, <2>1 DEF DecodeInv
  <2>3. scratch'.position # 0
    BY <1>3, <1>11
  <2> QED BY <1>14, <1>15, <1>16, <2>2, <2>3 DEF DecodeInv
<1> QED BY <1>2, <1>13, <1>17 DEF IInv

\* A plan has finitely many segments.
LEMMA LengthsAre ==
    ASSUME TableInv, PlanInv, outcome \in {"probing", "done"}
    PROVE  Len(plan.segments) \in Nat
<1>1. /\ IsFiniteSet(AdmittedOf(plan.rows, plan.keys)) /\ AdmittedOf(plan.rows, plan.keys) \in SUBSET Int
      /\ plan.segments = Ascending(AdmittedOf(plan.rows, plan.keys))
  BY AdmittedSegmentsAre DEF PlanInv
<1> QED BY <1>1, AscendingLists

\* What is handed out of a segment is the rows that hold every key.
LEMMA DeliverStep ==
    ASSUME IInv, Deliver
    PROVE  IInv'
<1> DEFINE p == scratch.position
           n == Len(plan.keys)
           K == {Order[q] : q \in 1 .. p}
<1>0. TableInv /\ PlanInv /\ ScratchInv /\ DecodeInv
  BY DEF IInv
<1>1. /\ outcome = "probing" /\ p > 0 /\ ~MoreLists
      /\ UNCHANGED <<index, manifest, reservation, plan, outcome>>
      /\ found' = found \union scratch.rowids
      /\ scratch' = [scratch EXCEPT !.next = @ + 1, !.position = 0, !.postings = 0]
  BY DEF Deliver
<1>2. TableInv' /\ ManifestInv' /\ PlanInv'
  BY <1>1, DecodeKeeps
<1>3. /\ scratch \in [next : Nat, position : Nat, rowids : SUBSET (0 .. Hwm), candidates : Nat,
                     postings : Nat, intersection : Nat]
  BY <1>0 DEF ScratchInv
<1>4. /\ scratch.next \in 1 .. Len(plan.segments) + 1 /\ p \in 0 .. n
      /\ scratch.next <= Len(plan.segments)
      /\ scratch.rowids = Holders(Segment, K)
      /\ scratch.candidates <= First /\ ~(scratch.intersection > 0)
      /\ found = UNION {Holders(plan.segments[i], Range(plan.keys)) : i \in 1 .. scratch.next - 1}
  BY <1>0, <1>1 DEF DecodeInv
<1>5. Decoding
  BY <1>0, <1>1, <1>4, DecodingHolds
<1>6. /\ n \in Nat \ {0} /\ plan.worker \in Nat /\ First \in Nat /\ First + SCRATCH <= plan.worker
      /\ {Order[i] : i \in 1 .. n} = Range(plan.keys) /\ Segment = plan.segments[scratch.next]
  BY <1>5 DEF Decoding
<1>7. scratch.rowids = Holders(Segment, Range(plan.keys))
  <2>1. CASE p = n
    BY <1>4, <1>6, <2>1
  <2>2. CASE p # n
    <3>1. scratch.rowids = {}
      <4>1. p \in 1 .. n - 1
        BY <1>1, <1>3, <1>4, <1>6, <2>2
      <4> QED BY <1>1, <4>1 DEF MoreLists
    <3>2. K \in SUBSET Range(plan.keys)
      <4>1. \A q \in 1 .. p : q \in 1 .. n
        BY <1>3, <1>4, <1>6
      <4> QED BY <1>6, <4>1
    <3> DEFINE R == Range(plan.keys)
    <3> HIDE DEF K, R
    <3>3. Holders(Segment, R) \in SUBSET Holders(Segment, K)
      BY <3>2 DEF Holders, R
    <3>4. Holders(Segment, R) = {}
      BY <1>4, <3>1, <3>3
    <3> QED BY <3>1, <3>4 DEF R
  <2> QED BY <2>1, <2>2
<1>8. /\ scratch'.next = scratch.next + 1 /\ scratch'.position = 0 /\ scratch'.postings = 0
      /\ scratch'.intersection = 0 /\ scratch'.candidates = scratch.candidates
      /\ scratch'.rowids = scratch.rowids
  BY <1>1, <1>3, <1>4
<1>9. scratch.next \in Nat /\ scratch.next >= 1 /\ scratch'.next - 1 = scratch.next
  BY <1>3, <1>4, <1>8
<1>10. ScratchInv'
  <2>1. Hwm' = Hwm
    BY <1>1, SameTable
  <2>2. scratch' \in [next : Nat, position : Nat, rowids : SUBSET (0 .. Hwm), candidates : Nat,
                     postings : Nat, intersection : Nat]
    <3>1. scratch.next + 1 \in Nat /\ 0 \in Nat
      BY <1>9
    <3>2. scratch' = [scratch EXCEPT !.next = scratch.next + 1, !.position = 0, !.postings = 0]
      BY <1>1
    <3> QED BY <1>3, <3>1, <3>2
  <2> QED BY <1>1, <2>1, <2>2 DEF ScratchInv
<1>11. found' = UNION {Holders(plan.segments[i], Range(plan.keys))' : i \in 1 .. scratch'.next - 1}
  <2> DEFINE H(i) == Holders(plan.segments[i], Range(plan.keys))
             m == scratch.next
  <2>1. 1 .. m = (1 .. m - 1) \union {m}
    BY <1>9
  <2>2. scratch.rowids = H(m) /\ found = UNION {H(i) : i \in 1 .. m - 1}
    BY <1>4, <1>6, <1>7
  <2> HIDE DEF H, m
  <2>3. found' = UNION {H(i) : i \in 1 .. m}
    BY <1>1, <2>1, <2>2
  <2>4. found' = UNION {Holders(plan.segments[i], Range(plan.keys)) : i \in 1 .. scratch'.next - 1}
    BY <1>9, <2>3 DEF H, m
  <2> QED BY <1>1, <2>4, SameFound
<1>12. scratch'.candidates + SCRATCH <= Max({plan'.worker, SCRATCH})
  <2>1. SCRATCH \in Nat
    BY AdmissionConstants
  <2>2. Max({plan.worker, SCRATCH}) = IF plan.worker <= SCRATCH THEN SCRATCH ELSE plan.worker
    <3>1. plan.worker \in Int /\ SCRATCH \in Int
      BY <1>6, <2>1
    <3> DEFINE w == plan.worker
    <3> HIDE DEF w
    <3>2. Max({w, SCRATCH}) = IF w <= SCRATCH THEN SCRATCH ELSE w
      BY <3>1, PairMinMax DEF w
    <3> QED BY <3>2 DEF w
  <2>3. scratch.candidates \in Nat
    BY <1>3
  <2> QED BY <1>1, <1>4, <1>6, <1>8, <2>1, <2>2, <2>3
<1>13. DecodeInv'
  <2>1. scratch'.next \in 1 .. Len(plan'.segments) + 1 /\ scratch'.position \in 0 .. Len(plan'.keys)
    <3>1. \A x \in Nat : 0 \in 0 .. x
      OBVIOUS
    <3>2. scratch'.next \in 1 .. Len(plan.segments) + 1
      <4> DEFINE l == Len(plan.segments)
      <4>1. l \in Int
        BY <1>0, <1>1, LengthsAre
      <4> HIDE DEF l
      <4> QED BY <1>4, <1>8, <1>9, <4>1 DEF l
    <3> QED BY <1>1, <1>6, <1>8, <3>1, <3>2
  <2> QED BY <1>1, <1>8, <1>11, <1>12, <2>1 DEF DecodeInv
<1> QED BY <1>2, <1>10, <1>13 DEF IInv

\* A probe ends with all segments decoded.
LEMMA ExhaustStep ==
    ASSUME IInv, Exhaust
    PROVE  IInv'
<1>0. TableInv /\ PlanInv /\ ScratchInv /\ DecodeInv
  BY DEF IInv
<1>1. /\ outcome = "probing" /\ scratch.next > Len(plan.segments) /\ outcome' = "done"
      /\ UNCHANGED <<index, manifest, reservation, plan, scratch, found>>
  BY DEF Exhaust
<1>2. TableInv' /\ ManifestInv' /\ PlanInv'
  BY <1>1, DecodeKeeps
<1>3. ScratchInv'
  <2>1. Hwm' = Hwm
    BY <1>1, SameTable
  <2> QED BY <1>0, <1>1, <2>1 DEF ScratchInv
<1>4. /\ scratch.next \in 1 .. Len(plan.segments) + 1 /\ scratch.position \in 0 .. Len(plan.keys)
      /\ found = UNION {Holders(plan.segments[i], Range(plan.keys)) : i \in 1 .. scratch.next - 1}
      /\ scratch.position > 0 => scratch.next <= Len(plan.segments)
      /\ scratch.position = 0 =>
            /\ scratch.postings = 0 /\ scratch.intersection = 0
            /\ scratch.candidates + SCRATCH <= Max({plan.worker, SCRATCH})
  BY <1>0, <1>1 DEF DecodeInv
<1>5. scratch.position = 0
  <2>1. scratch.position \in Nat /\ scratch.next \in Nat
    BY <1>0 DEF ScratchInv
  <2>2. Len(plan.segments) \in Int
    BY <1>0, <1>1, LengthsAre
  <2> QED BY <1>1, <1>4, <2>1, <2>2
<1>6. found' = UNION {Holders(plan.segments[i], Range(plan.keys))' : i \in 1 .. scratch'.next - 1}
  BY <1>1, <1>4, SameFound
<1>7. DecodeInv'
  <2>1. /\ scratch'.next \in 1 .. Len(plan'.segments) + 1 /\ scratch'.position \in 0 .. Len(plan'.keys)
        /\ scratch'.next > Len(plan'.segments)
    BY <1>1, <1>4
  <2>2. /\ scratch'.position = 0 /\ scratch'.postings = 0 /\ scratch'.intersection = 0
        /\ scratch'.candidates + SCRATCH <= Max({plan'.worker, SCRATCH})
    BY <1>1, <1>4, <1>5
  <2>3. ~(scratch'.position > 0)
    BY <2>2
  <2> QED BY <1>1, <1>6, <2>1, <2>2, <2>3 DEF DecodeInv
<1> QED BY <1>2, <1>3, <1>7 DEF IInv

-----------------------------------------------------------------------------
(* The invariant. *)

\* The manifest's steps leave the plan and the decoding as they are.
LEMMA NotYetProbing ==
    ASSUME IInv, UNCHANGED <<index, scratch, found>>, outcome \notin {"probing", "done"},
           outcome' \notin {"probing", "done"}
    PROVE  TableInv' /\ PlanInv' /\ ScratchInv' /\ DecodeInv'
<1>1. TableInv' /\ Hwm' = Hwm
  BY SameTable DEF IInv
<1>2. ScratchInv'
  BY <1>1 DEF IInv, ScratchInv
<1>3. PlanInv' /\ DecodeInv'
  BY DEF PlanInv, DecodeInv
<1> QED BY <1>1, <1>2, <1>3

\* The steps of the manifest workers keep the invariant.
LEMMA ManifestSteps ==
    ASSUME IInv, Reserve \/ (\E w \in Workers : ClaimKey(w) \/ BeginScan(w) \/ CountChunk(w) \/ AppendChunk(w))
    PROVE  IInv'
<1>0. TableInv /\ ManifestInv /\ WorkersInv
  BY DEF IInv, ManifestInv
<1>1. ManifestInv'
  <2>1. CASE Reserve
    BY <1>0, <2>1, ReserveStep
  <2>2. ASSUME NEW w \in Workers, ClaimKey(w) PROVE ManifestInv'
    BY <1>0, <2>2, ClaimKeyStep
  <2>3. ASSUME NEW w \in Workers, BeginScan(w) PROVE ManifestInv'
    BY <1>0, <2>3, BeginScanStep
  <2>4. ASSUME NEW w \in Workers, CountChunk(w) PROVE ManifestInv'
    BY <1>0, <2>4, CountChunkStep
  <2>5. ASSUME NEW w \in Workers, AppendChunk(w) PROVE ManifestInv'
    BY <1>0, <2>5, AppendChunkStep
  <2> QED BY <2>1, <2>2, <2>3, <2>4, <2>5
<1>2. UNCHANGED <<index, scratch, found>>
  BY DEF Reserve, ClaimKey, BeginScan, CountChunk, AppendChunk
<1>3. outcome \notin {"probing", "done"}
  BY <1>0 DEF WorkersInv, Reserve, ClaimKey, BeginScan, CountChunk, AppendChunk
<1>4. outcome' \notin {"probing", "done"}
  BY <1>3 DEF Reserve, ClaimKey, BeginScan, CountChunk, AppendChunk
<1>5. TableInv' /\ PlanInv' /\ ScratchInv' /\ DecodeInv'
  BY <1>2, <1>3, <1>4, NotYetProbing
<1> QED BY <1>1, <1>5 DEF IInv

\* Every initial state satisfies the invariant.
LEMMA InitIInv ==
    ASSUME Init
    PROVE  IInv
<1>1. TableInv
  <2>1. PICK p \in Postings, b \in Boundaries, local \in BOOLEAN, n \in ColumnRows, m \in Budgets :
           index = Index(p, b, local, n, m)
    BY DEF Init
  <2> QED BY <2>1, IndexRows
<1>2. /\ cursor = 0 /\ total_rows = 0 /\ declined = FALSE /\ reservation = 0
      /\ worker = [w \in Workers |-> Idle] /\ per_key = [k \in Keys |-> {}]
      /\ scratch = NoScratch /\ found = {} /\ outcome = "preflight"
  BY DEF Init
<1>3. Idle \in WorkerStates /\ Idle.at = "idle" /\ Idle.left = {} /\ Idle.scans = <<>> /\ DOMAIN Idle.scans = {}
  <2> DEFINE A == Seq(SUBSET Places)
             B == SUBSET Places
  <2>1. <<>> \in A /\ {} \in B /\ DOMAIN <<>> = {}
    OBVIOUS
  <2> HIDE DEF A, B
  <2>2. WorkerStates = [at : {"idle", "scan", "charge"}, key : Keys \union {0}, scans : A, left : B]
    BY DEF WorkerStates, A, B
  <2> QED BY <2>1, <2>2 DEF Idle
<1>4. \A w \in Workers : worker[w] = Idle
  BY <1>2
<1>5. WorkersInv
  <2>1. worker \in [Workers -> WorkerStates]
    BY <1>2, <1>3
  <2>2. \A w \in Workers : worker[w].at = "idle" /\ worker[w].left = {} /\ worker[w].scans = <<>>
    BY <1>3, <1>4
  <2>3. DOMAIN per_key = Keys /\ per_key = [k \in Keys |-> per_key[k]]
    BY <1>2
  <2>4. \A w \in Workers : worker[w].at # "charge"
    BY <2>2
  <2> QED BY <1>2, <2>1, <2>2, <2>3, <2>4 DEF WorkersInv
<1>6. \A w \in Workers : Unread(w) = {} /\ DOMAIN worker[w].scans = {}
  BY <1>3, <1>4 DEF Unread
<1>7. \A k \in Keys : per_key[k] = {}
  BY <1>2
<1>8. ReadInv
  BY <1>6, <1>7 DEF ReadInv
<1>9. \A k : ~Claimed(k)
  BY <1>2 DEF Claimed
<1>10. CompleteInv
  BY <1>2, <1>9 DEF CompleteInv
<1>11. BudgetInv
  <2>1. index.budget \in Nat
    BY <1>1 DEF TableInv
  <2> QED BY <1>2, <2>1 DEF BudgetInv
<1>12. PlanInv /\ DecodeInv
  BY <1>2 DEF PlanInv, DecodeInv
<1>13. ScratchInv
  <2>1. NoScratch \in [next : Nat, position : Nat, rowids : SUBSET (0 .. Hwm), candidates : Nat,
                     postings : Nat, intersection : Nat]
    BY DEF NoScratch
  <2> QED BY <1>2, <2>1 DEF ScratchInv
<1> QED BY <1>1, <1>5, <1>8, <1>10, <1>11, <1>12, <1>13 DEF IInv, ManifestInv

\* A step that changes nothing keeps the invariant.
LEMMA StutterIInv ==
    ASSUME IInv, UNCHANGED vars
    PROVE  IInv'
<1>0. TableInv /\ WorkersInv /\ ReadInv /\ CompleteInv /\ BudgetInv /\ PlanInv /\ ScratchInv /\ DecodeInv
  BY DEF IInv, ManifestInv
<1>1. UNCHANGED <<index, cursor, worker, total_rows, declined, per_key, reservation, plan, scratch, found, outcome>>
  BY DEF vars, manifest
<1>2. /\ Places' = Places /\ Hwm' = Hwm /\ Preflight' = Preflight /\ MaxManifestRows' = MaxManifestRows
      /\ TableInv'
  BY <1>0, <1>1, SameTable
<1>3. (\A n : Row(n)' = Row(n)) /\ (\A n : Descriptor(n)' = Descriptor(n))
  BY <1>1, SameTable
<1>4. (\A k : Claimed(k)' = Claimed(k)) /\ (\A w : Unread(w)' = Unread(w)) /\ WorkerStates' = WorkerStates
  BY <1>1, <1>2 DEF Claimed, Unread, WorkerStates
<1>5. WorkersInv'
  BY <1>0, <1>1, <1>4 DEF WorkersInv
<1>6. ReadInv'
  <2>1. \A w \in Workers : \A n \in Unread(w)' :
            /\ Row(n)'.key = worker'[w].key
            /\ Claimed(worker[w].key)'
            /\ Descriptor(n)' \notin per_key'[worker'[w].key]
    <3> TAKE w \in Workers
    <3>1. PICK k : k = worker[w].key
      OBVIOUS
    <3>2. \A n \in Unread(w) : Row(n).key = k /\ Claimed(k) /\ Descriptor(n) \notin per_key[k]
      BY <1>0, <3>1 DEF ReadInv
    <3>3. Claimed(k)' = Claimed(k) /\ worker'[w].key = k /\ Unread(w)' = Unread(w)
      BY <1>1, <1>4, <3>1
    <3> QED BY <1>1, <1>3, <3>2, <3>3
  <2> QED BY <1>0, <1>1, <1>2, <1>3, <1>4, <2>1 DEF ReadInv
<1>7. CompleteInv'
  BY <1>0, <1>1, <1>2, <1>3, <1>4 DEF CompleteInv
<1>8. BudgetInv'
  <2>1. \A v : Chunk(v)' = Chunk(v)
    BY <1>1, ChunkOf
  <2>2. Pending' = Pending
    BY <1>1, <2>1 DEF Pending
  <2>3. KeyBytes' = KeyBytes
    BY DEF KeyBytes
  <2> QED BY <1>0, <1>1, <1>2, <2>2, <2>3 DEF BudgetInv
<1>9. ScratchInv'
  BY <1>0, <1>1, <1>2 DEF ScratchInv
<1>10. PlanInv'
  <2>1. CASE outcome \in {"probing", "done"}
    BY <1>0, <1>1, <2>1, PlanKept
  <2>2. CASE outcome \notin {"probing", "done"}
    BY <1>1, <2>2 DEF PlanInv
  <2> QED BY <2>1, <2>2
<1>11. DecodeInv'
  <2>1. /\ Segment' = Segment /\ Order' = Order /\ First' = First
        /\ \A p : Holders(Segment, {Order[q] : q \in 1 .. p})' = Holders(Segment, {Order[q] : q \in 1 .. p})
    BY <1>1, StaysInSegment DEF SameSegment
  <2>2. scratch.rowids = Holders(Segment, {Order[q] : q \in 1 .. scratch.position})
           => scratch'.rowids = Holders(Segment, {Order[q] : q \in 1 .. scratch.position})'
    <3>1. PICK t : t = scratch.position
      OBVIOUS
    <3>2. Holders(Segment, {Order[q] : q \in 1 .. t})' = Holders(Segment, {Order[q] : q \in 1 .. t})
      BY <2>1
    <3> QED BY <1>1, <3>1, <3>2
  <2>3. found = UNION {Holders(plan.segments[i], Range(plan.keys)) : i \in 1 .. scratch.next - 1}
          => found' = UNION {Holders(plan.segments[i], Range(plan.keys))' : i \in 1 .. scratch'.next - 1}
    BY <1>1, SameFound
  <2>4. MoreLists' = MoreLists
    BY <1>1 DEF MoreLists
  <2>5. \A q : PostingCount(plan.rows, Segment, Order[q])' = PostingCount(plan.rows, Segment, Order[q])
    BY <1>1, <2>1
  <2> QED BY <1>0, <1>1, <2>1, <2>2, <2>3, <2>4, <2>5 DEF DecodeInv
<1> QED BY <1>2, <1>5, <1>6, <1>7, <1>8, <1>9, <1>10, <1>11 DEF IInv, ManifestInv

\* The invariant holds in every state of every probe.
THEOREM Invariance == Spec => []IInv
<1>1. Init => IInv
  BY InitIInv
<1>2. IInv /\ [Next]_vars => IInv'
  <2> SUFFICES ASSUME IInv, [Next]_vars PROVE IInv'
    OBVIOUS
  <2>1. CASE Reserve \/ (\E w \in Workers : ClaimKey(w) \/ BeginScan(w) \/ CountChunk(w) \/ AppendChunk(w))
    BY <2>1, ManifestSteps
  <2>2. CASE Admit
    BY <2>2, AdmitStep
  <2>3. CASE DecodeFirst
    BY <2>3, DecodeFirstStep
  <2>4. CASE DecodeNext
    BY <2>4, DecodeNextStep
  <2>5. CASE Intersect
    BY <2>5, IntersectStep
  <2>6. CASE Deliver
    BY <2>6, DeliverStep
  <2>7. CASE Exhaust
    BY <2>7, ExhaustStep
  <2>8. CASE UNCHANGED vars
    BY <2>8, StutterIInv
  <2> QED BY <2>1, <2>2, <2>3, <2>4, <2>5, <2>6, <2>7, <2>8 DEF Next
<1> QED BY <1>1, <1>2, PTL DEF Spec

-----------------------------------------------------------------------------
(* The theorems. *)

\* WithinBudget: the query's memory stays within ngram's budget, while workers
\* that claim, count and charge interleave as they may and when the planner
\* reserves the decoding's workspace, for any index, budget and number of workers.
THEOREM BudgetHeld == Spec => []WithinBudget
<1>1. IInv => WithinBudget
  BY DEF IInv, ManifestInv, BudgetInv, WithinBudget
<1> QED BY <1>1, Invariance, PTL

\* NeverMalformed: the scans of a key read no row twice, however column segments,
\* row groups and vectors overlap, so that no legal index is reported malformed.
THEOREM NeverReportsMalformed == Spec => []NeverMalformed
<1>1. IInv => NeverMalformed
  BY DEF IInv, ManifestInv, WorkersInv, NeverMalformed
<1> QED BY <1>1, Invariance, PTL

\* CandidatesExact: a probe that ends has handed out exactly the rows that hold
\* every selected key: every descriptor of those keys was read, a segment that
\* holds such a row is admitted, and the intersections keep the rows of all keys.
THEOREM ProbesExact == Spec => []CandidatesExact
<1>1. IInv => CandidatesExact
  <2> SUFFICES ASSUME IInv, outcome = "done"
               PROVE  found = {r \in 0 .. Hwm : Range(plan.keys) \subseteq index.postings[r]}
    BY DEF CandidatesExact
  <2> DEFINE K == Range(plan.keys)
             A == AdmittedOf(plan.rows, plan.keys)
             n == Len(plan.segments)
  <2>0. TableInv /\ PlanInv /\ DecodeInv
    BY DEF IInv
  <2>1. Selection(plan.rows, plan.keys) /\ plan.segments = Ascending(A)
    BY <2>0 DEF PlanInv
  <2>2. IsFiniteSet(A) /\ A \in SUBSET Int
    BY <2>0, <2>1, AdmittedSegmentsAre
  <2> HIDE DEF A
  <2>3. n \in Nat /\ \A s \in A : \E i \in 1 .. n : plan.segments[i] = s
    BY <2>1, <2>2, AscendingLists
  <2>4. scratch.next - 1 = n
    <3>1. scratch.next \in 1 .. n + 1 /\ scratch.next > n
      BY <2>0 DEF DecodeInv
    <3> QED BY <2>3, <3>1
  <2>5. found = UNION {Holders(plan.segments[i], K) : i \in 1 .. n}
    BY <2>0, <2>4 DEF DecodeInv
  <2> HIDE DEF K, n
  <2>6. ASSUME NEW r \in found PROVE r \in 0 .. Hwm /\ K \subseteq index.postings[r]
    <3>1. PICK i \in 1 .. n : r \in Holders(plan.segments[i], K)
      BY <2>5
    <3> QED BY <3>1 DEF Holders
  <2>7. ASSUME NEW r \in 0 .. Hwm, K \subseteq index.postings[r] PROVE r \in found
    <3> DEFINE s == r \div SEGMENT_ROWS
    <3>1. r \in Holders(s, K)
      BY <2>7 DEF Holders
    <3> HIDE DEF s
    <3>2. s \in A
      <4>1. Holders(s, Range(plan.keys)) # {}
        BY <3>1 DEF K
      <4> QED BY <2>0, <2>1, <4>1, HeldIsAdmitted DEF A
    <3>3. PICK i \in 1 .. n : plan.segments[i] = s
      BY <2>3, <3>2
    <3> QED BY <2>5, <3>1, <3>3
  <2> QED BY <2>6, <2>7 DEF K
<1> QED BY <1>1, Invariance, PTL

\* ReservationCovers: what the plan charged in the keys' own order covers a
\* worker's buffers at every step of the segment's order, the capacity a vector
\* keeps, and the candidates of all segments together.
THEOREM ReservationsCover == Spec => []ReservationCovers
<1>1. ASSUME IInv, outcome = "probing"
      PROVE  /\ scratch.candidates + scratch.postings + scratch.intersection + SCRATCH
                   <= Max({plan.worker, SCRATCH})
             /\ scratch.position > 0 => scratch.candidates <= plan.candidate
  <2>0. TableInv /\ PlanInv /\ DecodeInv /\ ScratchInv
    BY <1>1 DEF IInv
  <2>1. scratch.candidates \in Nat /\ scratch.postings \in Nat /\ scratch.intersection \in Nat
        /\ scratch.position \in Nat /\ SCRATCH \in Nat
    BY <2>0, AdmissionConstants DEF ScratchInv
  <2>2. CASE scratch.position = 0
    <3>1. scratch.postings = 0 /\ scratch.intersection = 0
          /\ scratch.candidates + SCRATCH <= Max({plan.worker, SCRATCH})
      BY <1>1, <2>0, <2>2 DEF DecodeInv
    <3>2. scratch.candidates + scratch.postings + scratch.intersection + SCRATCH = scratch.candidates + SCRATCH
      BY <2>1, <3>1
    <3> QED BY <2>2, <3>1, <3>2
  <2>3. CASE scratch.position > 0
    <3>1. /\ scratch.next <= Len(plan.segments)
          /\ scratch.candidates <= First /\ scratch.intersection <= First
          /\ \/ scratch.postings = 0 /\ scratch.intersection = 0
             \/ \E q \in 2 .. Len(plan.keys) : scratch.postings = PostingCount(plan.rows, Segment, Order[q])
      BY <1>1, <2>0, <2>3 DEF DecodeInv
    <3>2. Decoding
      BY <1>1, <2>0, <3>1, DecodingHolds
    <3>3. /\ First \in Nat /\ First <= plan.candidate /\ First + SCRATCH <= plan.worker
          /\ plan.worker \in Nat /\ plan.candidate \in Nat /\ Len(plan.keys) \in Nat \ {0}
      BY <3>2 DEF Decoding
    <3>4. scratch.candidates + scratch.postings + scratch.intersection + SCRATCH <= plan.worker
      <4>1. CASE scratch.postings = 0 /\ scratch.intersection = 0
        BY <2>1, <3>1, <3>3, <4>1
      <4>2. CASE \E q \in 2 .. Len(plan.keys) : scratch.postings = PostingCount(plan.rows, Segment, Order[q])
        <5>1. PICK q \in 2 .. Len(plan.keys) : scratch.postings = PostingCount(plan.rows, Segment, Order[q])
          BY <4>2
        <5>2. q \in 1 .. Len(plan.keys) /\ q >= 2
          BY <3>3
        <5>3. 2 * First + scratch.postings + SCRATCH <= plan.worker
          BY <3>2, <5>1, <5>2 DEF Decoding
        <5> DEFINE c == scratch.candidates
                   p == scratch.postings
                   x == scratch.intersection
                   f == First
                   w == plan.worker
        <5>4. /\ c \in Nat /\ p \in Nat /\ x \in Nat /\ f \in Nat /\ w \in Nat /\ SCRATCH \in Nat
              /\ c <= f /\ x <= f /\ 2 * f + p + SCRATCH <= w
          BY <2>1, <3>1, <3>3, <5>3
        <5> HIDE DEF c, p, x, f, w
        <5>5. c + p + x + SCRATCH <= w
          BY <5>4
        <5> QED BY <5>5 DEF c, p, x, w
      <4> QED BY <3>1, <4>1, <4>2
    <3>5. plan.worker <= Max({plan.worker, SCRATCH}) /\ Max({plan.worker, SCRATCH}) \in Int
      <4> DEFINE w == plan.worker
      <4>1. w \in Int /\ SCRATCH \in Int
        BY <2>1, <3>3
      <4> HIDE DEF w
      <4>2. Max({w, SCRATCH}) = IF w <= SCRATCH THEN SCRATCH ELSE w
        BY <4>1, PairMinMax
      <4>3. w <= Max({w, SCRATCH}) /\ Max({w, SCRATCH}) \in Int
        BY <4>1, <4>2
      <4> QED BY <4>3 DEF w
    <3>6. scratch.candidates <= plan.candidate
      BY <2>1, <3>1, <3>3
    <3>7. scratch.candidates + scratch.postings + scratch.intersection + SCRATCH
             <= Max({plan.worker, SCRATCH})
      <4> DEFINE s == scratch.candidates + scratch.postings + scratch.intersection + SCRATCH
                 w == plan.worker
                 x == Max({plan.worker, SCRATCH})
      <4>1. s \in Int
        BY <2>1
      <4>2. s <= w
        BY <3>4
      <4>3. w <= x /\ x \in Int
        BY <3>5
      <4>4. w \in Int
        BY <3>3
      <4> HIDE DEF s, w, x
      <4>5. s <= x
        BY <4>1, <4>2, <4>3, <4>4
      <4> QED BY <4>5 DEF s, x
    <3> QED BY <2>1, <3>6, <3>7
  <2> QED BY <2>1, <2>2, <2>3
<1>2. ASSUME IInv, outcome \in {"probing", "done"}
      PROVE  Cardinality(found) <= plan.bound
  <2> DEFINE A == AdmittedOf(plan.rows, plan.keys)
             K == Range(plan.keys)
             U == UNION {Holders(s, K) : s \in A}
  <2>0. TableInv /\ PlanInv /\ DecodeInv
    BY <1>2 DEF IInv
  <2>1. Selection(plan.rows, plan.keys) /\ plan.segments = Ascending(A) /\ plan.bound = UpperBoundOf(plan.rows, plan.keys)
    BY <1>2, <2>0 DEF PlanInv
  <2>2. PeaksCover(plan.rows, plan.keys)
    BY <2>0, <2>1, PlanCovers
  <2>3. Cardinality(U) <= plan.bound /\ plan.bound \in Nat
    BY <2>1, <2>2 DEF PeaksCover
  <2>4. found = UNION {Holders(plan.segments[i], K) : i \in 1 .. scratch.next - 1}
        /\ scratch.next \in 1 .. Len(plan.segments) + 1
    BY <1>2, <2>0 DEF DecodeInv
  <2>5. Len(plan.segments) \in Nat
    BY <1>2, <2>0, LengthsAre
  <2>6. \A i \in 1 .. scratch.next - 1 : plan.segments[i] \in A
    <3>1. \A i \in 1 .. scratch.next - 1 : i \in 1 .. Len(plan.segments)
      BY <2>4, <2>5
    <3>2. \A i \in 1 .. Len(plan.segments) : plan.segments[i] \in AdmittedOf(plan.rows, plan.keys)
      BY <1>2, <2>0, SegmentIsAdmitted
    <3> QED BY <3>1, <3>2
  <2>7. U \in SUBSET (0 .. Hwm)
    BY DEF Holders
  <2> HIDE DEF A, K
  <2>8. found \in SUBSET U
    BY <2>4, <2>6
  <2>9. IsFiniteSet(U)
    <3>1. IsFiniteSet(0 .. Hwm)
      BY <2>0, FS_Interval DEF TableInv
    <3> HIDE DEF U
    <3> QED BY <2>7, <3>1, FS_Subset
  <2> HIDE DEF U
  <2>10. IsFiniteSet(found) /\ Cardinality(found) <= Cardinality(U)
    BY <2>8, <2>9, FS_Subset
  <2>11. Cardinality(found) \in Nat /\ Cardinality(U) \in Nat
    BY <2>9, <2>10, FS_CardinalityType
  <2> QED BY <2>3, <2>10, <2>11
<1>3. IInv => ReservationCovers
  BY <1>1, <1>2 DEF ReservationCovers
<1> QED BY <1>3, Invariance, PTL
=============================================================================
