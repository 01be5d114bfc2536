------------------------ MODULE CandidateQueue_proofs ------------------------
(***************************************************************************)
(* A search's rows come out in order and once, all of them when it runs to *)
(* its end; every batch a worker takes has a higher index than its last;   *)
(* range scans share no vector; and memory stays within the workspace.     *)
(*                                                                         *)
(* The batches of a segment are known before any is cut: Starts(rowids),   *)
(* the offsets that a run from 0 reaches.  A batch is handed out (Claimed) *)
(* when its segment was published and the first entry of the queue lies    *)
(* behind it.  All else is told by that: which indexes a worker may have,  *)
(* under which rows were emitted, and what is left when a search ends.     *)
(***************************************************************************)
EXTENDS CandidateQueue, Ordered, FiniteSetTheorems, TLAPS

\* A nonempty set of naturals has a least element.
LEMMA Lowest ==
    ASSUME NEW S \in SUBSET Nat, S # {}
    PROVE  \E m \in S : \A r \in S : m <= r
<1> DEFINE R == {ss \in Nat \X Nat : ss[1] < ss[2]}
<1>1. IsWellFoundedOn(R, Nat)
  BY NatLessThanWellFounded, Zenon DEF OpToRel
<1>2. \A x, y \in Nat : y < x => <<y, x>> \in R
  OBVIOUS
<1>3. PICK x \in S : \A y \in S : ~(<<y, x>> \in R)
  <2> HIDE DEF R
  <2> QED BY <1>1, WFMin
<1>4. \A y \in S : ~(y < x)
  BY <1>2, <1>3
<1> QED BY <1>4

\* A nonempty bounded set of marks has a greatest element.
LEMMA Highest ==
    ASSUME NEW N \in Nat, NEW S \in SUBSET (-1 .. N), S # {}
    PROVE  \E m \in S : \A r \in S : r <= m
<1> DEFINE Below == {N - m : m \in S}
<1>1. Below \subseteq Nat /\ Below # {}
  <2>1. PICK s \in S : TRUE
    OBVIOUS
  <2>2. N - s \in Below
    OBVIOUS
  <2>3. ASSUME NEW m \in S PROVE N - m \in Nat
    <3>1. m \in -1 .. N
      OBVIOUS
    <3> QED BY <3>1
  <2> QED BY <2>2, <2>3
<1>2. PICK x \in Below : \A y \in Below : x <= y
  <2> HIDE DEF Below
  <2> QED BY <1>1, Lowest
<1>3. PICK m \in S : x = N - m
  OBVIOUS
<1>4. ASSUME NEW r \in S PROVE r <= m
  <2>1. N - r \in Below
    OBVIOUS
  <2>2. N - m <= N - r
    BY <1>2, <1>3, <2>1
  <2>3. r \in Int /\ m \in Int
    OBVIOUS
  <2> QED BY <2>2, <2>3
<1> QED BY <1>4

\* The ranks of the elements of a finite set are the numbers below its size.
LEMMA Ranks ==
    ASSUME NEW S \in SUBSET Int, IsFiniteSet(S)
    PROVE  /\ Cardinality(S) \in Nat
           /\ \A n \in S : Rank(S, n) \in 0 .. Cardinality(S) - 1
           /\ \A m, n \in S : m < n => Rank(S, m) < Rank(S, n)
           /\ \A i \in 0 .. Cardinality(S) - 1 : \E n \in S : Rank(S, n) = i
<1> DEFINE Below(n) == {m \in S : m < n}
<1>1. Cardinality(S) \in Nat
  BY FS_CardinalityType
<1>2. \A n \in Int : IsFiniteSet(Below(n)) /\ Rank(S, n) \in Nat
  <2> TAKE n \in Int
  <2>1. Below(n) \in SUBSET S
    OBVIOUS
  <2>2. IsFiniteSet(Below(n))
    BY <2>1, FS_Subset
  <2> QED BY <2>2, FS_CardinalityType DEF Rank
<1>3. ASSUME NEW n \in S PROVE Rank(S, n) \in 0 .. Cardinality(S) - 1
  <2>1. Below(n) \in SUBSET S /\ Below(n) # S
    OBVIOUS
  <2>2. Cardinality(Below(n)) <= Cardinality(S) /\ Cardinality(Below(n)) # Cardinality(S)
    BY <2>1, FS_Subset
  <2> QED BY <2>2, <1>1, <1>2 DEF Rank
<1>4. ASSUME NEW m \in S, NEW n \in S, m < n PROVE Rank(S, m) < Rank(S, n)
  <2>0. S \subseteq Int /\ m \in Int /\ n \in Int
    OBVIOUS
  <2>1. Below(m) \in SUBSET Below(n) /\ m \in Below(n) /\ m \notin Below(m)
    <3>1. \A r \in Below(m) : r \in S /\ r \in Int /\ r < m
      BY <2>0
    <3>2. ASSUME NEW r \in Below(m) PROVE r \in Below(n)
      BY <1>4, <2>0, <3>1
    <3>3. m \in Below(n) /\ m \notin Below(m)
      BY <1>4, <2>0
    <3> QED BY <3>2, <3>3
  <2>2. Cardinality(Below(m)) <= Cardinality(Below(n)) /\ Cardinality(Below(m)) # Cardinality(Below(n))
    BY <2>1, <1>2, FS_Subset
  <2> QED BY <2>2, <1>2 DEF Rank
<1>5. ASSUME NEW i \in 0 .. Cardinality(S) - 1 PROVE \E n \in S : Rank(S, n) = i
  <2> DEFINE T == 0 .. Cardinality(S) - 1
             f == [n \in S |-> Rank(S, n)]
  <2>1. IsFiniteSet(T) /\ Cardinality(T) = Cardinality(S)
    BY <1>1, FS_Interval
  <2>2. f \in [S -> T]
    BY <1>3
  <2>3. ASSUME NEW m \in S, NEW n \in S, f[m] = f[n] PROVE m = n
    <3>1. Rank(S, m) = Rank(S, n) /\ Rank(S, m) \in Nat /\ m \in Int /\ n \in Int
      BY <2>3, <1>2
    <3>2. ~(m < n) /\ ~(n < m)
      BY <3>1, <1>4
    <3> QED BY <3>2
  <2>4. f \in Injection(S, T)
    BY <2>2, <2>3 DEF Injection, IsInjective
  <2>5. f \in Surjection(S, T)
    BY <2>1, <2>4, FS_Injection, Zenon
  <2> QED BY <2>5 DEF Surjection
<1> QED BY <1>1, <1>3, <1>4, <1>5

\* Ascending lists every element of a finite set, each before the greater ones.
LEMMA InAscendingOrder ==
    ASSUME NEW S \in SUBSET Int, IsFiniteSet(S)
    PROVE  /\ Cardinality(S) \in Nat
           /\ DOMAIN Ascending(S) = 1 .. Cardinality(S)
           /\ Ascending(S) \in Seq(S) /\ Len(Ascending(S)) = Cardinality(S)
           /\ \A i \in DOMAIN Ascending(S) : Ascending(S)[i] \in S
           /\ \A n \in S : \E i \in DOMAIN Ascending(S) : Ascending(S)[i] = n
           /\ \A i, k \in DOMAIN Ascending(S) : i < k => Ascending(S)[i] < Ascending(S)[k]
<1> DEFINE A == Ascending(S)
<1>1. Cardinality(S) \in Nat /\ DOMAIN A = 1 .. Cardinality(S)
  BY Ranks DEF Ascending
<1>2. ASSUME NEW i \in DOMAIN A PROVE A[i] \in S /\ Rank(S, A[i]) = i - 1
  <2>1. i - 1 \in 0 .. Cardinality(S) - 1 /\ i \in 1 .. Cardinality(S)
    BY <1>1
  <2>2. \E n \in S : Rank(S, n) = i - 1
    BY <2>1, Ranks
  <2> QED BY <2>1, <2>2 DEF Ascending
<1>3. ASSUME NEW n \in S PROVE \E i \in DOMAIN A : A[i] = n
  <2>1. Rank(S, n) + 1 \in DOMAIN A /\ Rank(S, n) \in Nat
    BY <1>1, Ranks
  <2>2. A[Rank(S, n) + 1] \in S /\ Rank(S, A[Rank(S, n) + 1]) = Rank(S, n)
    BY <2>1, <1>2
  <2>3. \A m \in S : Rank(S, m) = Rank(S, n) => m = n
    <3> TAKE m \in S
    <3>1. m < n \/ n < m \/ m = n
      OBVIOUS
    <3> QED BY <3>1, <2>1, Ranks
  <2> QED BY <2>1, <2>2, <2>3
<1>4. ASSUME NEW i \in DOMAIN A, NEW k \in DOMAIN A, i < k PROVE A[i] < A[k]
  <2>1. A[i] \in S /\ A[k] \in S /\ Rank(S, A[i]) < Rank(S, A[k])
    <3>1. i \in Int /\ k \in Int
      BY <1>1
    <3> QED BY <1>1, <1>2, <1>4, <3>1
  <2>2. A[i] \in Int /\ A[k] \in Int /\ Rank(S, A[i]) \in Int /\ Rank(S, A[k]) \in Int
    <3>1. S \subseteq Int /\ i - 1 \in Int /\ k - 1 \in Int
      BY <1>1
    <3> QED BY <1>2, <3>1
  <2>3. ~(A[k] < A[i]) /\ A[k] # A[i]
    BY <2>1, <2>2, Ranks
  <2> QED BY <2>2, <2>3
<1>5. A \in Seq(S) /\ Len(A) = Cardinality(S)
  BY <1>1, <1>2 DEF Ascending
<1> QED BY <1>1, <1>2, <1>3, <1>4, <1>5
-----------------------------------------------------------------------------

\* The candidates of a segment.
AreCandidates(rowids) ==
    /\ rowids \in Seq(Nat)
    /\ \A i, k \in DOMAIN rowids : i < k =>
         rowids[i] < rowids[k] /\ SegmentOf(rowids[i]) = SegmentOf(rowids[k])

\* Where a batch of these candidates starts: at 0 and where another ended.
Starts(rowids) ==
    {k \in 0 .. Len(rowids) - 1 :
       \A S \in SUBSET (0 .. Len(rowids)) :
         (0 \in S /\ \A e \in S : e < Len(rowids) => BatchEnd(rowids, e) \in S) => k \in S}
-----------------------------------------------------------------------------
\* Sequences are functions on the numbers up to their length.
LEMMA ElementOfSeq ==
    ASSUME NEW S, NEW s \in Seq(S)
    PROVE  /\ Len(s) \in Nat /\ DOMAIN s = 1 .. Len(s)
           /\ \A k \in 1 .. Len(s) : s[k] \in S
OBVIOUS

LEMMA SeqOfElements ==
    ASSUME NEW S, NEW n \in Nat, NEW s \in [1 .. n -> S]
    PROVE  s \in Seq(S) /\ Len(s) = n
OBVIOUS

LEMMA SeqConcat ==
    ASSUME NEW S, NEW s \in Seq(S), NEW t \in Seq(S)
    PROVE  /\ s \o t \in Seq(S) /\ Len(s \o t) = Len(s) + Len(t)
           /\ \A k \in 1 .. Len(s) : (s \o t)[k] = s[k]
           /\ \A k \in 1 .. Len(t) : (s \o t)[Len(s) + k] = t[k]
OBVIOUS

LEMMA SeqTail ==
    ASSUME NEW S, NEW s \in Seq(S), s # <<>>
    PROVE  /\ Tail(s) \in Seq(S) /\ Len(Tail(s)) = Len(s) - 1 /\ Len(s) \in Nat \ {0}
           /\ \A k \in 1 .. Len(s) - 1 : Tail(s)[k] = s[k + 1]
OBVIOUS

\* Division by a positive number.
LEMMA Division ==
    ASSUME NEW F \in Nat \ {0}, NEW a \in Int
    PROVE  /\ a \div F \in Int /\ a % F \in 0 .. F - 1
           /\ a = F * (a \div F) + (a % F)
OBVIOUS

\* It keeps the order.
LEMMA DivisionMonotone ==
    ASSUME NEW F \in Nat \ {0}, NEW a \in Int, NEW b \in Int, a <= b
    PROVE  a \div F <= b \div F
OBVIOUS

\* A step of the divisor raises the quotient.
LEMMA DivisionSteps ==
    ASSUME NEW F \in Nat \ {0}, NEW a \in Int, NEW b \in Int, a + F <= b
    PROVE  a \div F < b \div F
<1>1. (a + F) \div F = a \div F + 1
  OBVIOUS
<1>2. (a + F) \div F <= b \div F
  BY DivisionMonotone
<1>3. a \div F \in Int /\ b \div F \in Int
  BY Division
<1> QED BY <1>1, <1>2, <1>3

\* The multiples of a number lie at least the number apart.
LEMMA Multiples ==
    ASSUME NEW F \in Nat \ {0}, NEW a \in Int, NEW b \in Int, a < b
    PROVE  a * F + F <= b * F
OBVIOUS

\* What divides a segment's rows counts the parts of each segment.
LEMMA PartsOfSegment ==
    ASSUME NEW F \in Nat \ {0}, NEW S \in Nat \ {0}, S % F = 0
    PROVE  /\ S \div F \in Nat \ {0} /\ S = F * (S \div F)
           /\ \A a \in 0 .. S - 1 : a \div F \in 0 .. (S \div F) - 1
           /\ \A a, b \in Nat : a \div S < b \div S => a \div F < b \div F
<1> DEFINE K == S \div F
<1>1. K \in Int /\ S = F * K
  BY Division
<1>2. K > 0
  BY <1>1
<1>3. \A a \in 0 .. S - 1 : a \div F \in 0 .. K - 1
  <2> TAKE a \in 0 .. S - 1
  <2>1. a \div F \in Int /\ a = F * (a \div F) + (a % F) /\ a % F \in 0 .. F - 1
    BY Division
  <2>2. a \div F >= 0
    BY <2>1
  <2>3. ~(a \div F >= K)
    <3>1. a \div F >= K => F * (a \div F) >= F * K
      BY <2>1, <1>1
    <3> QED BY <3>1, <2>1, <1>1
  <2> QED BY <2>1, <2>2, <2>3, <1>1
<1>4. ASSUME NEW a \in Nat, NEW b \in Nat, a \div S < b \div S PROVE a \div F < b \div F
  <2> DEFINE p == a \div S
             q == b \div S
             m == q * K
  <2>1. /\ p \in Int /\ q \in Int /\ a = S * p + (a % S) /\ b = S * q + (b % S)
        /\ a % S \in 0 .. S - 1 /\ b % S \in 0 .. S - 1
    BY Division
  <2>2. p * S + S <= q * S
    BY <2>1, <1>4, Multiples
  <2>3. a < q * S /\ q * S <= b
    <3>1. S * p = p * S /\ S * q = q * S
      BY <2>1
    <3> QED BY <2>1, <2>2, <3>1
  <2>4. q * S = m * F /\ m \in Int
    <3>1. q * (F * K) = (q * K) * F
      BY <2>1, <1>1
    <3> QED BY <2>1, <1>1, <3>1
  <2>5. b \div F >= m
    <3>1. (m * F) \div F = m
      BY <2>4
    <3> QED BY <2>3, <2>4, <3>1, DivisionMonotone
  <2>6. a \div F < m
    <3> HIDE DEF m
    <3>1. a \div F \in Int /\ a >= F * (a \div F)
      BY Division
    <3>2. a \div F >= m => F * (a \div F) >= F * m
      BY <3>1, <2>4
    <3>3. F * m = m * F
      BY <2>4
    <3> QED BY <3>1, <3>2, <3>3, <2>3, <2>4
  <2>7. a \div F \in Int /\ b \div F \in Int
    BY Division
  <2> QED BY <2>4, <2>5, <2>6, <2>7
<1> QED BY <1>1, <1>2, <1>3, <1>4

LEMMA Sizes ==
    /\ FETCH_BATCH_ROWS \in Nat \ {0} /\ RANGE_BATCH_ROWS \in Nat \ {0}
    /\ STANDARD_VECTOR_SIZE \in Nat \ {0} /\ SEGMENT_ROWS \in Nat \ {0}
    /\ FETCH_BATCHES_PER_SEGMENT \in Nat \ {0}
    /\ \A a \in 0 .. SEGMENT_ROWS - 1 :
         a \div FETCH_BATCH_ROWS \in 0 .. FETCH_BATCHES_PER_SEGMENT - 1
    /\ \A r, q \in Nat : SegmentOf(r) < SegmentOf(q) => Block(r) < Block(q)
<1>1. /\ FETCH_BATCH_ROWS \in Nat \ {0} /\ RANGE_BATCH_ROWS \in Nat \ {0}
      /\ STANDARD_VECTOR_SIZE \in Nat \ {0} /\ SEGMENT_ROWS \in Nat \ {0}
  BY BatchConstants
<1>2. SEGMENT_ROWS % FETCH_BATCH_ROWS = 0 /\ SEGMENT_ROWS % STANDARD_VECTOR_SIZE = 0
  BY BatchConstants
<1> QED BY <1>1, <1>2, PartsOfSegment, Zenon DEF FETCH_BATCHES_PER_SEGMENT, SegmentOf, Block

LEMMA BlocksAscend ==
    ASSUME NEW r \in Nat, NEW q \in Nat, r <= q
    PROVE  Block(r) \in Int /\ Block(q) \in Int /\ Block(r) <= Block(q)
BY Sizes, Division, DivisionMonotone DEF Block
-----------------------------------------------------------------------------
\* A batch takes a candidate at least, all it asked for or all that are left,
\* and ends where a block does.
LEMMA BatchEnds ==
    ASSUME NEW rowids, AreCandidates(rowids), NEW e \in 0 .. Len(rowids) - 1
    PROVE  /\ BatchEnd(rowids, e) \in e + 1 .. Len(rowids)
           /\ BatchEnd(rowids, e) < Len(rowids) =>
                /\ BatchEnd(rowids, e) >= e + FETCH_BATCH_ROWS
                /\ Block(rowids[BatchEnd(rowids, e)]) < Block(rowids[BatchEnd(rowids, e) + 1])
<1> DEFINE n == Len(rowids)
           a == AskedEnd(rowids, e)
           last == Block(rowids[a])
           ends == {k \in a .. n : Block(rowids[k]) = last}
<1>1. n \in Nat /\ DOMAIN rowids = 1 .. n /\ \A k \in 1 .. n : rowids[k] \in Nat
  BY DEF AreCandidates
<1>2. a \in e + 1 .. n /\ (a < n => a >= e + FETCH_BATCH_ROWS)
  <2>1. FETCH_BATCH_ROWS <= RANGE_BATCH_ROWS /\ FETCH_BATCH_ROWS \in Nat \ {0}
        /\ RANGE_BATCH_ROWS \in Nat \ {0}
    BY BatchConstants, Sizes
  <2> QED BY <1>1, <2>1 DEF AskedEnd, RangeEnd, Smaller
<1>3. PICK m \in ends : \A k \in ends : k <= m
  <2>1. a \in ends /\ ends \in SUBSET (-1 .. n)
    BY <1>1, <1>2
  <2> HIDE DEF ends
  <2> QED BY <1>1, <2>1, Highest
<1> HIDE DEF a
<1>4. m < n => Block(rowids[m + 1]) # last
  <2>1. m < n => m + 1 \in a .. n /\ ~(m + 1 <= m)
    BY <1>1, <1>2, <1>3
  <2> QED BY <2>1, <1>3
<1>5. \E k \in a .. n : Block(rowids[k]) = last /\ (k < n => Block(rowids[k + 1]) # last)
  BY <1>3, <1>4
<1> DEFINE b == BatchEnd(rowids, e)
<1>6. b \in a .. n /\ Block(rowids[b]) = last /\ (b < n => Block(rowids[b + 1]) # last)
  <2>1. b = CHOOSE k \in a .. n : Block(rowids[k]) = last /\ (k < n => Block(rowids[k + 1]) # last)
    BY DEF BatchEnd, a
  <2> HIDE DEF b, last
  <2> QED BY <1>5, <2>1
<1> HIDE DEF b, last
<1>7. b < n => Block(rowids[b]) < Block(rowids[b + 1])
  <2> SUFFICES ASSUME b < n PROVE Block(rowids[b]) < Block(rowids[b + 1])
    OBVIOUS
  <2>0. a \in 1 .. n /\ b \in Int /\ b < b + 1
    BY <1>1, <1>2, <1>6
  <2>1. b \in 1 .. n /\ b + 1 \in 1 .. n
    BY <1>1, <1>6, <2>0
  <2> DEFINE c == b + 1
  <2> HIDE DEF c
  <2>2. rowids[b] \in Nat /\ rowids[c] \in Nat /\ rowids[b] < rowids[c]
    BY <2>0, <2>1, <1>1 DEF AreCandidates, c
  <2>3. Block(rowids[b]) <= Block(rowids[c]) /\ Block(rowids[b]) \in Int /\ Block(rowids[c]) \in Int
    BY <2>2, BlocksAscend
  <2> QED BY <2>3, <1>6 DEF c
<1> DEFINE c == BatchEnd(rowids, e)
<1>8. b = c
  BY DEF b
<1> HIDE DEF c
<1>9. c \in e + 1 .. n /\ (c < n => c >= e + FETCH_BATCH_ROWS)
  <2>1. FETCH_BATCH_ROWS \in Nat
    BY Sizes
  <2> QED BY <1>1, <1>2, <1>6, <1>8, <2>1
<1> QED BY <1>7, <1>8, <1>9 DEF c

\* The first batch starts at 0, and where a batch ends the next one starts.
LEMMA BatchesFollow ==
    ASSUME NEW rowids, AreCandidates(rowids)
    PROVE  /\ Len(rowids) \in Nat /\ Starts(rowids) \subseteq 0 .. Len(rowids) - 1
           /\ rowids # <<>> => 0 \in Starts(rowids)
           /\ \A f \in Starts(rowids) :
                \/ BatchEnd(rowids, f) = Len(rowids)
                \/ BatchEnd(rowids, f) \in Starts(rowids)
<1>1. Len(rowids) \in Nat /\ (rowids # <<>> => Len(rowids) > 0)
  BY DEF AreCandidates
<1>2. ASSUME NEW f \in Starts(rowids), BatchEnd(rowids, f) # Len(rowids)
      PROVE  BatchEnd(rowids, f) \in Starts(rowids)
  <2>1. f \in 0 .. Len(rowids) - 1
    BY DEF Starts
  <2>2. BatchEnd(rowids, f) \in 0 .. Len(rowids) - 1
    BY <1>1, <1>2, <2>1, BatchEnds
  <2>3. ASSUME NEW S \in SUBSET (0 .. Len(rowids)), 0 \in S,
               \A e \in S : e < Len(rowids) => BatchEnd(rowids, e) \in S
        PROVE  BatchEnd(rowids, f) \in S
    BY <1>1, <2>1, <2>3 DEF Starts
  <2> QED BY <2>2, <2>3 DEF Starts
<1> QED BY <1>1, <1>2 DEF Starts

\* What holds of 0 and of the end of each batch holds of every start.
LEMMA StartsInduction ==
    ASSUME NEW rowids, AreCandidates(rowids), NEW S,
           0 \in S, \A f \in Starts(rowids) : f \in S => BatchEnd(rowids, f) \in S
    PROVE  Starts(rowids) \subseteq S
<1> DEFINE T == S \cap (Starts(rowids) \union {Len(rowids)})
<1>1. Len(rowids) \in Nat /\ Starts(rowids) \subseteq 0 .. Len(rowids) - 1
  BY BatchesFollow
<1>2. ASSUME NEW k \in Starts(rowids) PROVE k \in S
  <2>1. T \in SUBSET (0 .. Len(rowids)) 
    BY <1>1
  <2>2. 0 \in T
    <3>1. Len(rowids) > 0
      BY <1>1, <1>2
    <3>2. rowids # <<>>
      BY <3>1, <1>1
    <3> QED BY <3>2, BatchesFollow
  <2>3. ASSUME NEW e \in T, e < Len(rowids) PROVE BatchEnd(rowids, e) \in T
    <3>1. e \in Starts(rowids)
      BY <1>1, <2>3
    <3> QED BY <3>1, BatchesFollow
  <2>4. k \in T
    <3> HIDE DEF T
    <3> QED BY <2>1, <2>2, <2>3, <1>2 DEF Starts
  <2> QED BY <2>4
<1> QED BY <1>2

\* A batch ends before the next one starts, and in an earlier block.
LEMMA StartsApart ==
    ASSUME NEW rowids, AreCandidates(rowids),
           NEW f \in Starts(rowids), NEW g \in Starts(rowids), f < g
    PROVE  /\ BatchEnd(rowids, f) <= g
           /\ f \div FETCH_BATCH_ROWS < g \div FETCH_BATCH_ROWS
           /\ Block(rowids[BatchEnd(rowids, f)]) < Block(rowids[g + 1])
<1> DEFINE n == Len(rowids)
           Places == Starts(rowids) \union {n}
           \* No batch that starts before h runs past it.
           Met(h) == \A e \in Starts(rowids) : e < h => BatchEnd(rowids, e) <= h
           Cut(h) == h \in 1 .. n - 1 => Block(rowids[h]) < Block(rowids[h + 1])
<1>1. n \in Nat /\ Starts(rowids) \subseteq 0 .. n - 1 /\ n > 0
  BY BatchesFollow
<1>2. \A e \in Starts(rowids) : /\ BatchEnd(rowids, e) \in Places
                                /\ BatchEnd(rowids, e) \in e + 1 .. n
  BY <1>1, BatchesFollow, BatchEnds
<1>3. ASSUME NEW h \in Starts(rowids), Met(h) PROVE Met(BatchEnd(rowids, h))
  <2> DEFINE b == BatchEnd(rowids, h)
             T == {k \in Places : k <= h \/ k >= b}
  <2>0. b \in h + 1 .. n /\ h \in 0 .. n - 1
    BY <1>1, <1>2
  <2>1. 0 \in T
    <3>1. 0 \in Starts(rowids)
      <4>1. rowids # <<>>
        BY <1>1
      <4> QED BY <4>1, BatchesFollow
    <3> QED BY <3>1, <2>0
  <2>2. ASSUME NEW e \in Starts(rowids), e \in T PROVE BatchEnd(rowids, e) \in T
    <3>1. e \in 0 .. n - 1 /\ BatchEnd(rowids, e) \in e + 1 .. n /\ BatchEnd(rowids, e) \in Places
      BY <1>1, <1>2
    <3>2. CASE e < h
      <4>1. BatchEnd(rowids, e) <= h
        BY <1>3, <3>2
      <4> QED BY <3>1, <4>1
    <3>3. CASE e = h
      BY <3>1, <3>3, <2>0
    <3>4. CASE e > h
      <4>1. e >= b
        BY <2>0, <2>2, <3>1, <3>4
      <4> QED BY <2>0, <3>1, <4>1
    <3> QED BY <2>0, <3>1, <3>2, <3>3, <3>4
  <2>3. Starts(rowids) \subseteq T
    <3> HIDE DEF T
    <3> QED BY <2>1, <2>2, StartsInduction
  <2>4. ASSUME NEW e \in Starts(rowids), e < b PROVE BatchEnd(rowids, e) <= b
    <3>1. e \in 0 .. n - 1 /\ e \in T /\ BatchEnd(rowids, e) \in e + 1 .. n
      BY <1>1, <1>2, <2>3
    <3>2. e <= h
      BY <2>0, <2>4, <3>1
    <3>3. CASE e < h
      <4>1. BatchEnd(rowids, e) <= h
        BY <1>3, <3>3
      <4> QED BY <2>0, <3>1, <4>1
    <3>4. CASE e = h
      BY <2>0, <3>4
    <3> QED BY <2>0, <3>1, <3>2, <3>3, <3>4
  <2> QED BY <2>4
<1>4. Met(g)
  <2> DEFINE S == {h \in Places : Met(h)}
  <2>1. 0 \in S
    <3>1. rowids # <<>>
      BY <1>1
    <3> QED BY <1>1, <3>1, BatchesFollow
  <2>2. \A e \in Starts(rowids) : e \in S => BatchEnd(rowids, e) \in S
    <3> HIDE DEF Met, Places
    <3> QED BY <1>2, <1>3
  <2>3. Starts(rowids) \subseteq S
    <3> HIDE DEF S
    <3> QED BY <2>1, <2>2, StartsInduction
  <2> QED BY <2>3
<1>5. Cut(g)
  <2> DEFINE S == {h \in Int : Cut(h)}
  <2>1. 0 \in S
    BY <1>1
  <2>2. ASSUME NEW e \in Starts(rowids) PROVE BatchEnd(rowids, e) \in S
    <3>1. e \in 0 .. n - 1
      BY <1>1
    <3>2. BatchEnd(rowids, e) \in Int
      BY <1>2, <3>1
    <3> QED BY <1>1, <3>1, <3>2, BatchEnds
  <2>3. Starts(rowids) \subseteq S
    <3> HIDE DEF S
    <3> QED BY <2>1, <2>2, StartsInduction
  <2> QED BY <2>3
<1> DEFINE b == BatchEnd(rowids, f)
<1>6. /\ b <= g /\ b \in f + 1 .. n /\ g \in 1 .. n - 1 /\ f \in 0 .. n - 1
      /\ b < n => b >= f + FETCH_BATCH_ROWS
  <2>1. f \in 0 .. n - 1 /\ g \in 0 .. n - 1
    BY <1>1
  <2> QED BY <1>1, <1>2, <1>4, <2>1, BatchEnds
<1> HIDE DEF b
<1>7. f \div FETCH_BATCH_ROWS < g \div FETCH_BATCH_ROWS
  <2>1. FETCH_BATCH_ROWS \in Nat \ {0}
    BY Sizes
  <2>2. f + FETCH_BATCH_ROWS <= g /\ f \in Int /\ g \in Int
    BY <1>1, <1>6, <2>1
  <2> QED BY <2>1, <2>2, DivisionSteps
<1>8. Block(rowids[b]) < Block(rowids[g + 1])
  <2>1. b \in 1 .. n /\ g \in 1 .. n /\ g + 1 \in 1 .. n
    BY <1>1, <1>6
  <2>2. \A k \in 1 .. n : rowids[k] \in Nat
    BY <1>1 DEF AreCandidates
  <2>3. rowids[b] <= rowids[g]
    <3>1. b < g => rowids[b] < rowids[g]
      BY <2>1 DEF AreCandidates
    <3> QED BY <1>6, <2>1, <2>2, <3>1
  <2>4. Block(rowids[b]) <= Block(rowids[g]) /\ Block(rowids[b]) \in Int /\ Block(rowids[g]) \in Int
    BY <2>1, <2>2, <2>3, BlocksAscend
  <2>5. Block(rowids[g + 1]) \in Int
    BY <2>1, <2>2, BlocksAscend
  <2> QED BY <1>5, <1>6, <2>4, <2>5
<1> QED BY <1>6, <1>7, <1>8 DEF b

\* Every candidate is in a batch.
LEMMA StartsCover ==
    ASSUME NEW rowids, AreCandidates(rowids), NEW k \in 1 .. Len(rowids)
    PROVE  \E f \in Starts(rowids) : k \in f + 1 .. BatchEnd(rowids, f)
<1> DEFINE n == Len(rowids)
           S == {f \in Starts(rowids) : f < k}
<1>1. n \in Nat /\ Starts(rowids) \subseteq 0 .. n - 1 /\ rowids # <<>>
  BY BatchesFollow
<1>2. 0 \in S
  BY <1>1, BatchesFollow
<1>3. PICK f \in S : \A g \in S : g <= f
  <2>1. S \in SUBSET (-1 .. n)
    BY <1>1
  <2> HIDE DEF S
  <2> QED BY <1>1, <1>2, <2>1, Highest
<1>4. /\ f \in Starts(rowids) /\ f < k /\ f \in 0 .. n - 1
      /\ BatchEnd(rowids, f) \in f + 1 .. n
      /\ BatchEnd(rowids, f) = n \/ BatchEnd(rowids, f) \in Starts(rowids)
  BY <1>1, <1>3, BatchesFollow, BatchEnds
<1>5. BatchEnd(rowids, f) >= k
  <2>1. ~(BatchEnd(rowids, f) <= f)
    BY <1>4
  <2>2. ~(BatchEnd(rowids, f) \in S)
    BY <1>3, <2>1
  <2> QED BY <1>1, <1>4, <2>2
<1> QED BY <1>1, <1>4, <1>5
-----------------------------------------------------------------------------
\* The candidates of an admitted segment are candidates; they fit a segment.
LEMMA CandidatesFit ==
    ASSUME NEW o \in Ordinal
    PROVE  /\ AreCandidates(Candidates(o))
           /\ Candidates(o) \in Seq(0 .. Hwm)
           /\ Len(Candidates(o)) \in 0 .. SEGMENT_ROWS
           /\ Segments \in Nat
<1> DEFINE C == Candidates(o)
           n == Len(C)
<1>1. Segments \in Nat /\ o + 1 \in DOMAIN Decoded /\ Decoded \in Seq(Seq(0 .. Hwm)) /\ Hwm \in Int
  BY SearchInputs DEF Segments, Ordinal
<1>2. C \in Seq(0 .. Hwm)
  <2>1. \A s \in DOMAIN Decoded : Decoded[s] \in Seq(0 .. Hwm)
    BY <1>1
  <2> QED BY <1>1, <2>1 DEF Candidates
<1>3. AreCandidates(C)
  <2>1. C \in Seq(Nat)
    BY <1>1, <1>2
  <2>2. \A i, k \in DOMAIN C : i < k => C[i] < C[k] /\ SegmentOf(C[i]) = SegmentOf(C[k])
    BY <1>1, SearchInputs DEF Candidates
  <2> QED BY <2>1, <2>2 DEF AreCandidates
<1>4. n <= SEGMENT_ROWS
  <2> HIDE DEF C
  <2>1. CASE n = 0
    BY <2>1, Sizes
  <2>2. CASE n > 0
    <3> DEFINE s == SegmentOf(C[1])
               T == SEGMENT_ROWS * s .. SEGMENT_ROWS * s + SEGMENT_ROWS - 1
    <3>1. n \in Nat /\ DOMAIN C = 1 .. n /\ \A k \in 1 .. n : C[k] \in Nat
      BY <1>3 DEF AreCandidates
    <3>2. SEGMENT_ROWS \in Nat \ {0} /\ s \in Int
      <4>1. C[1] \in Int
        BY <2>2, <3>1
      <4> QED BY <4>1, Sizes, Division DEF SegmentOf
    <3>3. \A k \in 1 .. n : SegmentOf(C[k]) = s
      <4> TAKE k \in 1 .. n
      <4>1. (k = 1 \/ 1 < k) /\ 1 \in DOMAIN C /\ k \in DOMAIN C
        BY <2>2, <3>1
      <4>2. 1 < k => SegmentOf(C[1]) = SegmentOf(C[k])
        BY <1>3, <4>1 DEF AreCandidates
      <4> QED BY <4>1, <4>2
    <3>4. \A k \in 1 .. n : C[k] \in T
      <4> TAKE k \in 1 .. n
      <4> DEFINE r == C[k]
                 m == SEGMENT_ROWS * s
      <4>1. r \in Int /\ r \div SEGMENT_ROWS = s
        BY <3>1, <3>3 DEF SegmentOf
      <4>2. m \in Int
        BY <3>2
      <4>3. r \in m .. m + SEGMENT_ROWS - 1
        <5> HIDE DEF r, s
        <5>1. r = SEGMENT_ROWS * (r \div SEGMENT_ROWS) + (r % SEGMENT_ROWS)
              /\ r % SEGMENT_ROWS \in 0 .. SEGMENT_ROWS - 1
          BY <3>2, <4>1, Division
        <5>2. r = m + (r % SEGMENT_ROWS)
          BY <4>1, <5>1
        <5> HIDE DEF m
        <5> QED BY <3>2, <4>1, <4>2, <5>1, <5>2
      <4> QED BY <4>3
    <3>5. IsFiniteSet(T) /\ Cardinality(T) = SEGMENT_ROWS
      <4> HIDE DEF s
      <4>1. SEGMENT_ROWS * s \in Int
        BY <3>2
      <4> DEFINE m == SEGMENT_ROWS * s
      <4> HIDE DEF m
      <4>2. IsFiniteSet(m .. m + SEGMENT_ROWS - 1)
            /\ Cardinality(m .. m + SEGMENT_ROWS - 1) = SEGMENT_ROWS
        BY <3>2, <4>1, FS_Interval DEF m
      <4> QED BY <4>2 DEF m
    <3>6. [k \in 1 .. n |-> C[k]] \in Injection(1 .. n, T)
      <4> HIDE DEF T
      <4> DEFINE h == [k \in 1 .. n |-> C[k]]
      <4>1. h \in [1 .. n -> T]
        BY <3>4
      <4>2. ASSUME NEW i \in 1 .. n, NEW k \in 1 .. n, h[i] = h[k] PROVE i = k
        <5>1. C[i] = C[k] /\ C[i] \in Nat /\ C[k] \in Nat
          BY <3>1, <4>2
        <5>2. ~(i < k) /\ ~(k < i)
          BY <1>3, <3>1, <5>1 DEF AreCandidates
        <5> QED BY <3>1, <5>2
      <4> QED BY <4>1, <4>2 DEF Injection, IsInjective
    <3>7. Cardinality(1 .. n) <= Cardinality(T)
      <4> HIDE DEF T
      <4> QED BY <3>5, <3>6, FS_Injection
    <3>8. Cardinality(1 .. n) = n
      BY <2>2, <3>1, FS_Interval
    <3> QED BY <3>5, <3>7, <3>8
  <2> QED BY <1>3, <2>1, <2>2 DEF AreCandidates
<1>5. n \in Nat
  BY <1>2
<1>6. SEGMENT_ROWS \in Nat
  BY Sizes
<1> QED BY <1>1, <1>2, <1>3, <1>4, <1>5, <1>6

\* A batch lies in its segment: its indexes are the segment's, and its
\* candidates rowids up to the mark.
LEMMA BatchInSegment ==
    ASSUME NEW o \in Ordinal, NEW f \in Starts(Candidates(o))
    PROVE  /\ f \in Nat /\ f \div FETCH_BATCH_ROWS \in 0 .. FETCH_BATCHES_PER_SEGMENT - 1
           /\ BatchEnd(Candidates(o), f) \in f + 1 .. Len(Candidates(o))
           /\ BatchIndex(o, f) \in 0 .. FetchBatchBase - 1
           /\ \A k \in f + 1 .. BatchEnd(Candidates(o), f) : Candidates(o)[k] \in 0 .. Hwm
<1>1. /\ AreCandidates(Candidates(o)) /\ Candidates(o) \in Seq(0 .. Hwm)
      /\ Len(Candidates(o)) \in 0 .. SEGMENT_ROWS /\ Segments \in Nat
      /\ f \in 0 .. Len(Candidates(o)) - 1
  BY CandidatesFit, BatchesFollow
<1>2. f \in 0 .. SEGMENT_ROWS - 1 /\ SEGMENT_ROWS \in Nat
  BY <1>1, Sizes
<1>3. f \div FETCH_BATCH_ROWS \in 0 .. FETCH_BATCHES_PER_SEGMENT - 1
  BY <1>2, Sizes
<1>4. BatchEnd(Candidates(o), f) \in f + 1 .. Len(Candidates(o))
  BY <1>1, BatchEnds
<1>5. BatchIndex(o, f) \in 0 .. FetchBatchBase - 1
  <2> DEFINE K == FETCH_BATCHES_PER_SEGMENT
             d == f \div FETCH_BATCH_ROWS
  <2>1. K \in Nat \ {0} /\ d \in 0 .. K - 1 /\ o \in 0 .. Segments - 1
    BY <1>3, Sizes DEF Ordinal
  <2>2. o * K + K <= Segments * K /\ o * K >= 0 /\ o * K \in Int /\ Segments * K \in Int
    <3> HIDE DEF K
    <3> QED BY <1>1, <2>1, Multiples
  <2>3. BatchIndex(o, f) = o * K + d /\ FetchBatchBase = Segments * K
    BY DEF BatchIndex, FetchBatchBase
  <2> HIDE DEF K, d
  <2> DEFINE p == o * K
             q == Segments * K
  <2>4. BatchIndex(o, f) = p + d /\ FetchBatchBase = q /\ p + K <= q /\ p >= 0 /\ p \in Int /\ q \in Int
    BY <2>2, <2>3
  <2> HIDE DEF p, q
  <2> QED BY <2>1, <2>4
<1>6. \A k \in f + 1 .. BatchEnd(Candidates(o), f) : Candidates(o)[k] \in 0 .. Hwm
  <2> TAKE k \in f + 1 .. BatchEnd(Candidates(o), f)
  <2>1. k \in 1 .. Len(Candidates(o))
    BY <1>1, <1>4
  <2> DEFINE C == Candidates(o)
  <2>2. C \in Seq(0 .. Hwm) /\ k \in 1 .. Len(C)
    BY <1>1, <2>1
  <2>3. C[k] \in 0 .. Hwm
    <3> HIDE DEF C
    <3> QED BY <2>2, ElementOfSeq
  <2> QED BY <2>3
<1> QED BY <1>2, <1>3, <1>4, <1>5, <1>6

\* The order in which batches are handed out.
Before(o, f, p, g) == o < p \/ (o = p /\ f < g)

\* A later batch has a higher index, and its candidates lie in higher blocks.
LEMMA BatchesAscend ==
    ASSUME NEW o \in Ordinal, NEW f \in Starts(Candidates(o)),
           NEW p \in Ordinal, NEW g \in Starts(Candidates(p)), Before(o, f, p, g)
    PROVE  /\ BatchIndex(o, f) < BatchIndex(p, g)
           /\ \A k \in f + 1 .. BatchEnd(Candidates(o), f),
                 l \in g + 1 .. BatchEnd(Candidates(p), g) :
                /\ Candidates(o)[k] < Candidates(p)[l]
                /\ Block(Candidates(o)[k]) < Block(Candidates(p)[l])
<1> DEFINE C == Candidates(o)
           D == Candidates(p)
<1>1. /\ AreCandidates(C) /\ AreCandidates(D) /\ Len(C) \in Nat /\ Len(D) \in Nat
      /\ DOMAIN C = 1 .. Len(C) /\ DOMAIN D = 1 .. Len(D)
      /\ \A k \in 1 .. Len(C) : C[k] \in Nat
      /\ \A k \in 1 .. Len(D) : D[k] \in Nat
  BY CandidatesFit DEF AreCandidates
<1>2. /\ f \in Nat /\ g \in Nat /\ BatchEnd(C, f) \in f + 1 .. Len(C)
      /\ BatchEnd(D, g) \in g + 1 .. Len(D)
  BY BatchInSegment
<1>3. o \in Nat /\ p \in Nat
  BY DEF Ordinal
<1>4. \A r, q \in Nat : Block(r) < Block(q) => r < q
  <2> TAKE r \in Nat, q \in Nat
  <2>1. q <= r => Block(q) <= Block(r)
    BY BlocksAscend
  <2>2. Block(q) \in Int /\ Block(r) \in Int
    BY BlocksAscend
  <2> QED BY <2>1, <2>2
<1>5. CASE o < p
  <2>1. BatchIndex(o, f) < BatchIndex(p, g)
    <3> DEFINE K == FETCH_BATCHES_PER_SEGMENT
               d == f \div FETCH_BATCH_ROWS
               e == g \div FETCH_BATCH_ROWS
               m == o * K
               n == p * K
    <3>1. K \in Nat \ {0} /\ d \in 0 .. K - 1 /\ e \in 0 .. K - 1
      BY BatchInSegment, Sizes
    <3>2. m + K <= n /\ m \in Int /\ n \in Int
      <4> HIDE DEF K
      <4> QED BY <1>3, <1>5, <3>1, Multiples
    <3>3. BatchIndex(o, f) = m + d /\ BatchIndex(p, g) = n + e
      BY DEF BatchIndex
    <3> HIDE DEF K, d, e, m, n
    <3> QED BY <3>1, <3>2, <3>3
  <2>2. \A k \in 1 .. Len(C), l \in 1 .. Len(D) : Block(C[k]) < Block(D[l])
    <3> TAKE k \in 1 .. Len(C), l \in 1 .. Len(D)
    <3>1. C[k] \in Range(C) /\ D[l] \in Range(D)
      BY <1>1 DEF Range
    <3>2. o + 1 \in DOMAIN Decoded /\ p + 1 \in DOMAIN Decoded /\ o + 1 < p + 1
      <4>1. Decoded \in Seq(Seq(0 .. Hwm))
        BY SearchInputs
      <4> QED BY <1>3, <1>5, <4>1 DEF Ordinal, Segments
    <3>3. SegmentOf(C[k]) < SegmentOf(D[l])
      <4>1. C = Decoded[o + 1] /\ D = Decoded[p + 1]
        BY DEF Candidates
      <4> HIDE DEF C, D
      <4> QED BY <3>1, <3>2, <4>1, SearchInputs
    <3> QED BY <1>1, <3>3, Sizes
  <2> QED BY <1>1, <1>2, <1>4, <2>1, <2>2
<1>6. CASE o = p /\ f < g
  <2>1. /\ BatchEnd(C, f) <= g /\ f \div FETCH_BATCH_ROWS < g \div FETCH_BATCH_ROWS
        /\ Block(C[BatchEnd(C, f)]) < Block(C[g + 1])
    BY <1>1, <1>6, StartsApart
  <2>2. BatchIndex(o, f) < BatchIndex(p, g)
    <3> DEFINE m == o * FETCH_BATCHES_PER_SEGMENT
               d == f \div FETCH_BATCH_ROWS
               e == g \div FETCH_BATCH_ROWS
    <3>1. m \in Int /\ d \in Int /\ e \in Int
      BY <1>3, Sizes, BatchInSegment
    <3>2. BatchIndex(o, f) = m + d /\ BatchIndex(p, g) = m + e /\ d < e
      BY <1>6, <2>1 DEF BatchIndex
    <3> HIDE DEF m, d, e
    <3> QED BY <3>1, <3>2
  <2>3. ASSUME NEW k \in f + 1 .. BatchEnd(C, f), NEW l \in g + 1 .. BatchEnd(D, g)
        PROVE  Block(C[k]) < Block(C[l])
    <3> DEFINE b == BatchEnd(C, f)
    <3>1. b \in 1 .. Len(C) /\ k \in 1 .. Len(C) /\ l \in 1 .. Len(C) /\ g + 1 \in 1 .. Len(C)
          /\ k <= b /\ g + 1 <= l
      BY <1>1, <1>2, <1>6
    <3> HIDE DEF b
    <3> DEFINE a == g + 1
    <3> HIDE DEF a
    <3>2. a \in 1 .. Len(C) /\ a <= l
      BY <3>1 DEF a
    <3>3. C[k] <= C[b] /\ C[a] <= C[l]
      <4>1. k < b => C[k] < C[b]
        BY <1>1, <3>1 DEF AreCandidates
      <4>2. a < l => C[a] < C[l]
        BY <1>1, <3>1, <3>2 DEF AreCandidates
      <4> QED BY <1>1, <3>1, <3>2, <4>1, <4>2
    <3>4. C[k] \in Nat /\ C[b] \in Nat /\ C[a] \in Nat /\ C[l] \in Nat
      BY <1>1, <3>1, <3>2
    <3>5. Block(C[k]) <= Block(C[b]) /\ Block(C[a]) <= Block(C[l])
      BY <3>3, <3>4, BlocksAscend
    <3>6. Block(C[b]) < Block(C[a])
      BY <2>1 DEF a, b
    <3>7. Block(C[k]) \in Int /\ Block(C[b]) \in Int /\ Block(C[a]) \in Int /\ Block(C[l]) \in Int
      BY <3>4, BlocksAscend
    <3> QED BY <3>5, <3>6, <3>7
  <2>4. \A k \in f + 1 .. BatchEnd(C, f), l \in g + 1 .. BatchEnd(D, g) :
          C[k] \in Nat /\ D[l] \in Nat
    BY <1>1, <1>2
  <2> QED BY <1>4, <1>6, <2>2, <2>3, <2>4
<1> QED BY <1>5, <1>6 DEF Before

\* No two batches have the same index.
LEMMA IndexTells ==
    ASSUME NEW o \in Ordinal, NEW f \in Starts(Candidates(o)),
           NEW p \in Ordinal, NEW g \in Starts(Candidates(p))
    PROVE  /\ BatchIndex(o, f) = BatchIndex(p, g) => o = p /\ f = g
           /\ BatchIndex(o, f) < BatchIndex(p, g) => Before(o, f, p, g)
<1>1. o \in Nat /\ p \in Nat /\ f \in Nat /\ g \in Nat
  BY BatchInSegment DEF Ordinal
<1>2. BatchIndex(o, f) \in Int /\ BatchIndex(p, g) \in Int
  BY BatchInSegment
<1>3. Before(o, f, p, g) \/ Before(p, g, o, f) \/ (o = p /\ f = g)
  BY <1>1 DEF Before
<1>4. Before(o, f, p, g) => BatchIndex(o, f) < BatchIndex(p, g)
  BY BatchesAscend
<1>5. Before(p, g, o, f) => BatchIndex(p, g) < BatchIndex(o, f)
  BY BatchesAscend
<1> QED BY <1>2, <1>3, <1>4, <1>5

\* The rows of a batch match and lie between two of its candidates; the
\* candidates that match are among them.
LEMMA BatchRowsBetween ==
    ASSUME NEW o \in Ordinal, NEW f \in Starts(Candidates(o))
    PROVE  LET C == Candidates(o)
               e == BatchEnd(Candidates(o), f)
           IN  /\ BatchRows(o, f, e) \subseteq Matches
               /\ \A r \in BatchRows(o, f, e) :
                    \E k, l \in f + 1 .. e : C[k] <= r /\ r <= C[l]
               /\ \A k \in f + 1 .. e : C[k] \in Matches => C[k] \in BatchRows(o, f, e)
<1> DEFINE C == Candidates(o)
           e == BatchEnd(C, f)
<1>1. f \in Nat /\ e \in f + 1 .. Len(C) /\ \A k \in f + 1 .. e : C[k] \in 0 .. Hwm
  BY BatchInSegment
<1>2. AreCandidates(C) /\ Len(C) \in Nat /\ DOMAIN C = 1 .. Len(C) /\ Hwm \in Int
  BY CandidatesFit, SearchInputs DEF AreCandidates
<1> HIDE DEF C, e
<1>3. \A k \in f + 1 .. e : C[k] \in C[f + 1] .. C[e]
  <2> TAKE k \in f + 1 .. e
  <2>1. k \in DOMAIN C /\ f + 1 \in DOMAIN C /\ e \in DOMAIN C
    BY <1>1, <1>2
  <2>2. (k = f + 1 \/ f + 1 < k) /\ (k = e \/ k < e)
    BY <1>1
  <2>3. f + 1 \in f + 1 .. e /\ e \in f + 1 .. e
    BY <1>1
  <2>4. C[k] \in Int /\ C[f + 1] \in Int /\ C[e] \in Int
    BY <1>1, <1>2, <2>3
  <2>5. f + 1 < k => C[f + 1] < C[k]
    BY <1>2, <2>1 DEF AreCandidates
  <2>6. k < e => C[k] < C[e]
    BY <1>2, <2>1 DEF AreCandidates
  <2> QED BY <2>2, <2>4, <2>5, <2>6
<1>4. \/ BatchRows(o, f, e) = Matches \cap (C[f + 1] .. C[e])
      \/ BatchRows(o, f, e) = Matches \cap {C[k] : k \in f + 1 .. e}
  BY DEF BatchRows, C
<1>5. ASSUME NEW r \in BatchRows(o, f, e)
      PROVE  r \in Matches /\ \E k, l \in f + 1 .. e : C[k] <= r /\ r <= C[l]
  <2>1. f + 1 \in f + 1 .. e /\ e \in f + 1 .. e
    BY <1>1
  <2>2. CASE BatchRows(o, f, e) = Matches \cap (C[f + 1] .. C[e])
    BY <2>1, <2>2
  <2>3. CASE BatchRows(o, f, e) = Matches \cap {C[k] : k \in f + 1 .. e}
    <3>1. PICK k \in f + 1 .. e : r = C[k]
      BY <2>3
    <3> QED BY <1>1, <1>2, <2>3, <3>1
  <2> QED BY <1>4, <2>2, <2>3
<1>6. ASSUME NEW k \in f + 1 .. e, C[k] \in Matches PROVE C[k] \in BatchRows(o, f, e)
  BY <1>3, <1>4, <1>6
<1> QED BY <1>5, <1>6 DEF C, e

\* The rows of batches ascend with their indexes, below those of the tail.
LEMMA BatchRowsAscend ==
    ASSUME NEW o \in Ordinal, NEW f \in Starts(Candidates(o)),
           NEW r \in BatchRows(o, f, BatchEnd(Candidates(o), f))
    PROVE  /\ r \in Matches /\ r \in 0 .. Hwm
           /\ \A p \in Ordinal : \A g \in Starts(Candidates(p)) :
                Before(o, f, p, g) =>
                  \A s \in BatchRows(p, g, BatchEnd(Candidates(p), g)) : r < s
<1> DEFINE C == Candidates(o)
           e == BatchEnd(C, f)
<1>1. r \in Matches /\ Matches \subseteq Nat /\ Hwm \in Int
  BY BatchRowsBetween, SearchInputs
<1>2. PICK k \in f + 1 .. e, l \in f + 1 .. e : C[k] <= r /\ r <= C[l]
  BY BatchRowsBetween
<1>3. C[k] \in 0 .. Hwm /\ C[l] \in 0 .. Hwm
  BY BatchInSegment
<1>4. ASSUME NEW p \in Ordinal, NEW g \in Starts(Candidates(p)), Before(o, f, p, g),
             NEW s \in BatchRows(p, g, BatchEnd(Candidates(p), g))
      PROVE  r < s
  <2> DEFINE D == Candidates(p)
             d == BatchEnd(D, g)
  <2>1. PICK i \in g + 1 .. d, j \in g + 1 .. d : D[i] <= s /\ s <= D[j]
    BY BatchRowsBetween
  <2>2. s \in Matches /\ D[i] \in 0 .. Hwm
    BY BatchInSegment, BatchRowsBetween
  <2>3. C[l] < D[i]
    BY <1>4, BatchesAscend
  <2> HIDE DEF C, D, d, e
  <2> QED BY <1>1, <1>2, <1>3, <2>1, <2>2, <2>3
<1> HIDE DEF C, e
<1> QED BY <1>1, <1>2, <1>3, <1>4

-----------------------------------------------------------------------------
(* The queue: what is published and what was handed out *)

\* Candidates are handed out in order: what is published and not handed out
\* starts with the first entry.
Claimed(o, f) ==
    /\ o \in Ordinal /\ f \in Starts(Candidates(o))
    /\ o < next_publish
    /\ ready # <<>> => Before(o, f, ready[1].ordinal, ready[1].next)

\* Entries ascend, only the first is begun, and none after it is left out.
ReadyInv ==
    /\ ready \in Seq([ordinal : Ordinal, next : Nat])
    /\ \A k \in DOMAIN ready :
         /\ ready[k].ordinal < next_publish
         /\ ready[k].next \in Starts(Candidates(ready[k].ordinal))
         /\ k > 1 => ready[k].next = 0
    /\ \A k, l \in DOMAIN ready : k < l => ready[k].ordinal < ready[l].ordinal
    /\ \A o \in Ordinal :
         Candidates(o) # <<>> /\ o < next_publish /\ ready # <<>> /\ ready[1].ordinal <= o
         => \E k \in DOMAIN ready : ready[k].ordinal = o

QueueInv ==
    /\ next_publish \in 0 .. next_segment /\ next_segment \in 0 .. Segments
    /\ pending \subseteq next_publish + 1 .. next_segment - 1
    /\ failed \in BOOLEAN
    /\ ReadyInv

\* The entries PublishInOrder adds: the segments with candidates, in order, not begun.
LEMMA PublishedEntries ==
    ASSUME NEW first \in Nat, NEW end \in first .. Segments
    PROVE  LET P == Published(first, end) IN
           /\ P \in Seq([ordinal : Ordinal, next : Nat])
           /\ \A k \in DOMAIN P : /\ P[k].ordinal \in first .. end - 1 /\ P[k].next = 0
                                  /\ Candidates(P[k].ordinal) # <<>>
           /\ \A k, l \in DOMAIN P : k < l => P[k].ordinal < P[l].ordinal
           /\ \A o \in first .. end - 1 : Candidates(o) # <<>> =>
                \E k \in DOMAIN P : P[k].ordinal = o
<1> DEFINE S == {o \in first .. end - 1 : Candidates(o) # <<>>}
           A == Ascending(S)
           P == Published(first, end)
<1>0. Segments \in Nat
  BY SearchInputs DEF Segments
<1>1. S \in SUBSET Int /\ IsFiniteSet(S) /\ S \subseteq Ordinal
  <2>1. S \in SUBSET (first .. end - 1) /\ first \in Int /\ end - 1 \in Int
    BY <1>0
  <2>2. IsFiniteSet(first .. end - 1)
    BY <2>1, FS_Interval
  <2>3. IsFiniteSet(S)
    <3> HIDE DEF S
    <3> QED BY <2>1, <2>2, FS_Subset
  <2> QED BY <1>0, <2>1, <2>3 DEF Ordinal
<1> HIDE DEF S
<1>2. /\ Cardinality(S) \in Nat /\ DOMAIN A = 1 .. Cardinality(S)
      /\ \A i \in DOMAIN A : A[i] \in S
      /\ \A n \in S : \E i \in DOMAIN A : A[i] = n
      /\ \A i, k \in DOMAIN A : i < k => A[i] < A[k]
  BY <1>1, InAscendingOrder
<1>3. P = [k \in DOMAIN A |-> [ordinal |-> A[k], next |-> 0]]
  BY DEF Published, S
<1> HIDE DEF A, P
<1>4. /\ DOMAIN P = 1 .. Cardinality(S) /\ DOMAIN A = DOMAIN P
      /\ \A k \in DOMAIN P : P[k].ordinal = A[k] /\ P[k].next = 0
                             /\ P[k] \in [ordinal : Ordinal, next : Nat]
  BY <1>1, <1>2, <1>3
<1>5. P \in Seq([ordinal : Ordinal, next : Nat])
  <2>1. P \in [1 .. Cardinality(S) -> [ordinal : Ordinal, next : Nat]]
    BY <1>3, <1>4
  <2> QED BY <1>2, <2>1, SeqOfElements
<1>6. \A k \in DOMAIN P : P[k].ordinal \in S
  BY <1>2, <1>4
<1>7. \A k, l \in DOMAIN P : k < l => P[k].ordinal < P[l].ordinal
  BY <1>2, <1>4
<1>8. \A o \in S : \E k \in DOMAIN P : P[k].ordinal = o
  BY <1>2, <1>4
<1> QED BY <1>4, <1>5, <1>6, <1>7, <1>8 DEF S, P

\* The types of the queue, and its head.
LEMMA ReadyEntries ==
    ASSUME QueueInv
    PROVE  /\ next_publish \in Nat /\ next_segment \in Nat /\ Segments \in Nat
           /\ Len(ready) \in Nat /\ DOMAIN ready = 1 .. Len(ready)
           /\ \A k \in DOMAIN ready : ready[k].ordinal \in Ordinal /\ ready[k].next \in Nat
           /\ ready # <<>> => 1 \in DOMAIN ready /\ Head(ready) = ready[1]
<1>1. ready \in Seq([ordinal : Ordinal, next : Nat])
  BY DEF QueueInv, ReadyInv
<1>2. Segments \in Nat
  BY SearchInputs DEF Segments
<1>3. \A k \in DOMAIN ready : ready[k] \in [ordinal : Ordinal, next : Nat]
  <2> DEFINE Entry == [ordinal : Ordinal, next : Nat]
  <2>1. ready \in Seq(Entry)
    BY <1>1
  <2> HIDE DEF Entry
  <2>2. \A k \in DOMAIN ready : ready[k] \in Entry
    BY <2>1, ElementOfSeq
  <2> QED BY <2>2 DEF Entry
<1> QED BY <1>1, <1>2, <1>3 DEF QueueInv

\* A batch is handed out: the first entry's next.
LEMMA ClaimReadyQueue ==
    ASSUME QueueInv, NEW w \in Workers, ClaimReady(w)
    PROVE  LET p == ready[1].ordinal
               g == ready[1].next
           IN  /\ QueueInv'
               /\ p \in Ordinal /\ p < next_publish /\ g \in Starts(Candidates(p))
               /\ \A o, f : Claimed(o, f) => Before(o, f, p, g)
               /\ \A o, f : Claimed(o, f)' <=> Claimed(o, f) \/ (o = p /\ f = g)
<1> DEFINE p == ready[1].ordinal
           g == ready[1].next
           C == Candidates(p)
           end == BatchEnd(C, g)
<1> USE DEF QueueInv
<1>1. /\ ready # <<>> /\ 1 \in DOMAIN ready /\ Head(ready) = ready[1]
      /\ Len(ready) \in Nat \ {0} /\ DOMAIN ready = 1 .. Len(ready)
      /\ next_publish \in Nat /\ Segments \in Nat
      /\ ready \in Seq([ordinal : Ordinal, next : Nat])
  <2>1. ready # <<>>
    BY DEF ClaimReady
  <2> QED BY <2>1, ReadyEntries DEF ReadyInv
<1>2. p \in Ordinal /\ g \in Nat /\ p < next_publish /\ g \in Starts(C)
  BY <1>1, ReadyEntries DEF ReadyInv
<1>3. \A o, f : Claimed(o, f) => Before(o, f, p, g)
  BY <1>1 DEF Claimed
<1>4. /\ AreCandidates(C) /\ Len(C) \in Nat /\ end \in g + 1 .. Len(C)
      /\ end = Len(C) \/ end \in Starts(C)
  BY <1>2, BatchInSegment, BatchesFollow, CandidatesFit
<1>5. /\ UNCHANGED <<pending, next_publish, failed, next_segment>>
      /\ ready' = IF end >= Len(C) THEN Tail(ready) ELSE [ready EXCEPT ![1].next = end]
  BY <1>1 DEF ClaimReady
<1>6. ASSUME NEW o \in Ordinal, NEW f \in Starts(Candidates(o)), Before(o, f, p, g) \/ (o = p /\ f = g)
      PROVE  o < next_publish /\ o <= p /\ (o = p => f < end)
  <2>1. o \in Nat /\ f \in Nat /\ p \in Nat
    BY <1>2, BatchInSegment DEF Ordinal
  <2> QED BY <1>1, <1>2, <1>4, <1>6, <2>1 DEF Before
<1> HIDE DEF end
<1>7. CASE end < Len(C)
  <2>1. /\ ready' = [ready EXCEPT ![1].next = end]
        /\ end \in Nat /\ end \in Starts(C)
    BY <1>2, <1>4, <1>5, <1>7
  <2> HIDE DEF C, p, g
  <2>2. /\ DOMAIN ready' = DOMAIN ready /\ Len(ready') = Len(ready)
        /\ ready' \in Seq([ordinal : Ordinal, next : Nat])
        /\ ready'[1].next = end
        /\ \A k \in DOMAIN ready : /\ ready'[k].ordinal = ready[k].ordinal
                                   /\ k > 1 => ready'[k].next = ready[k].next
    <3> DEFINE Entry == [ordinal : Ordinal, next : Nat]
               first == [ready[1] EXCEPT !.next = end]
    <3>1. \A k \in 1 .. Len(ready) : ready[k] \in Entry
      BY <1>1, ElementOfSeq
    <3>2. first \in Entry /\ first.next = end /\ first.ordinal = ready[1].ordinal
      <4>1. ready[1] \in Entry
        BY <1>1, <3>1
      <4> QED BY <2>1, <4>1
    <3>3. ready' = [ready EXCEPT ![1] = first]
      BY <2>1
    <3> HIDE DEF Entry, first
    <3>4. /\ DOMAIN ready' = 1 .. Len(ready) /\ ready'[1] = first
          /\ \A k \in DOMAIN ready : k > 1 => ready'[k] = ready[k]
      BY <1>1, <3>3
    <3>5. ready' \in [1 .. Len(ready) -> Entry]
      BY <1>1, <3>1, <3>2, <3>3
    <3>6. ready' \in Seq(Entry) /\ Len(ready') = Len(ready)
      BY <1>1, <3>5, SeqOfElements
    <3>7. \A k \in DOMAIN ready : k = 1 \/ k > 1
      BY <1>1
    <3> QED BY <1>1, <3>2, <3>4, <3>6, <3>7 DEF Entry
  <2>3. ready' # <<>> /\ ready'[1].ordinal = p
    BY <1>1, <2>2 DEF p
  <2>4. ReadyInv'
    <3>1. \A k \in DOMAIN ready : ready'[k].next \in Starts(Candidates(ready'[k].ordinal))
      <4> TAKE k \in DOMAIN ready
      <4>1. k = 1 \/ k > 1
        BY <1>1
      <4>2. k > 1 => ready'[k].next \in Starts(Candidates(ready'[k].ordinal))
        BY <2>2 DEF ReadyInv
      <4> QED BY <2>1, <2>2, <2>3, <4>1, <4>2 DEF C
    <3>2. \A k, l \in DOMAIN ready' : k < l => ready'[k].ordinal < ready'[l].ordinal
      BY <2>2 DEF ReadyInv
    <3>3. \A k \in DOMAIN ready' : ready'[k].ordinal < next_publish /\ (k > 1 => ready'[k].next = 0)
      BY <2>2 DEF ReadyInv
    <3>4. \A o \in Ordinal :
            Candidates(o) # <<>> /\ o < next_publish /\ ready' # <<>> /\ ready'[1].ordinal <= o
            => \E k \in DOMAIN ready' : ready'[k].ordinal = o
      BY <1>1, <2>2, <2>3 DEF ReadyInv, p
    <3>5. ready' \in Seq([ordinal : Ordinal, next : Nat]) /\ next_publish' = next_publish
      BY <1>5, <2>2
    <3>6. \A k \in DOMAIN ready' :
            /\ ready'[k].ordinal < next_publish'
            /\ ready'[k].next \in Starts(Candidates(ready'[k].ordinal))
            /\ k > 1 => ready'[k].next = 0
      BY <2>2, <3>1, <3>3, <3>5
    <3> QED BY <3>2, <3>4, <3>5, <3>6 DEF ReadyInv
  <2>5. ASSUME NEW o, NEW f PROVE Claimed(o, f)' <=> Claimed(o, f) \/ (o = p /\ f = g)
    <3>1. Claimed(o, f)' <=> /\ o \in Ordinal /\ f \in Starts(Candidates(o))
                             /\ o < next_publish /\ Before(o, f, p, end)
      BY <1>5, <2>2, <2>3 DEF Claimed
    <3>2. Claimed(o, f) <=> /\ o \in Ordinal /\ f \in Starts(Candidates(o))
                            /\ o < next_publish /\ Before(o, f, p, g)
      BY <1>1 DEF Claimed, p, g
    <3>3. ASSUME f \in Starts(C), f < end PROVE f < g \/ f = g
      <4>1. g < f => end <= f
        BY <1>2, <1>4, <3>3, StartsApart DEF end
      <4>2. f \in Int /\ g \in Int
        <5>1. f \in Nat
          BY <1>2, <3>3, BatchInSegment DEF C
        <5> QED BY <1>2, <5>1
      <4> QED BY <2>1, <3>3, <4>1, <4>2
    <3>4. g < end
      BY <1>2, <1>4
    <3>5. f \in Starts(C) => f \in Nat
      BY <1>2, BatchInSegment DEF C
    <3> QED BY <1>2, <2>1, <3>1, <3>2, <3>3, <3>4, <3>5 DEF Before, C
  <2> QED BY <1>2, <1>3, <1>5, <2>4, <2>5 DEF C, p, g
<1>8. CASE ~(end < Len(C))
  <2>1. ready' = Tail(ready) /\ end = Len(C)
    BY <1>4, <1>5, <1>8
  <2> HIDE DEF C, p, g
  <2>2. /\ DOMAIN ready' = 1 .. Len(ready) - 1
        /\ ready' \in Seq([ordinal : Ordinal, next : Nat])
        /\ \A k \in 1 .. Len(ready) - 1 : ready'[k] = ready[k + 1] /\ k + 1 \in DOMAIN ready
        /\ \A k \in DOMAIN ready : k > 1 => k - 1 \in DOMAIN ready' /\ ready'[k - 1] = ready[k]
    BY <1>1, <2>1, SeqTail, ElementOfSeq
  <2>3. \A k \in DOMAIN ready' : /\ ready'[k].ordinal \in Ordinal /\ ready'[k].ordinal < next_publish
                                 /\ ready'[k].next = 0 /\ p < ready'[k].ordinal
                                 /\ ready'[k].next \in Starts(Candidates(ready'[k].ordinal))
    <3> TAKE k \in DOMAIN ready'
    <3> DEFINE l == k + 1
    <3>1. l \in DOMAIN ready /\ l > 1 /\ ready'[k] = ready[l]
      BY <1>1, <2>2
    <3> HIDE DEF l
    <3> QED BY <1>1, <3>1, ReadyEntries DEF ReadyInv, p
  <2>4. ASSUME NEW o \in Ordinal, Candidates(o) # <<>>, o < next_publish, p < o
        PROVE  \E k \in DOMAIN ready' : ready'[k].ordinal = o
    <3>1. p <= o /\ p # o
      BY <1>2, <2>4 DEF Ordinal
    <3>2. PICK k \in DOMAIN ready : ready[k].ordinal = o
      BY <1>1, <2>4, <3>1 DEF ReadyInv, p
    <3>3. k > 1
      BY <1>1, <3>1, <3>2 DEF p
    <3> QED BY <2>2, <3>2, <3>3
  <2>5. ReadyInv'
    <3>1. \A k, l \in DOMAIN ready' : k < l => ready'[k].ordinal < ready'[l].ordinal
      <4> TAKE k \in DOMAIN ready', l \in DOMAIN ready'
      <4> DEFINE i == k + 1
                 j == l + 1
      <4>1. i \in DOMAIN ready /\ j \in DOMAIN ready /\ (k < l => i < j)
            /\ ready'[k] = ready[i] /\ ready'[l] = ready[j]
        <5>1. /\ k \in 1 .. Len(ready) - 1 /\ l \in 1 .. Len(ready) - 1
              /\ ready'[k] = ready[k + 1] /\ ready'[l] = ready[l + 1]
          BY <2>2
        <5>2. k + 1 \in 1 .. Len(ready) /\ l + 1 \in 1 .. Len(ready) /\ (k < l => k + 1 < l + 1)
          <6>1. Len(ready) \in Nat
            BY <1>1
          <6>2. k \in 1 .. Len(ready) - 1 /\ l \in 1 .. Len(ready) - 1
            BY <5>1
          <6> QED BY <6>1, <6>2
        <5> QED BY <1>1, <5>1, <5>2
      <4> HIDE DEF i, j
      <4> QED BY <4>1 DEF ReadyInv
    <3>2. \A o \in Ordinal :
            Candidates(o) # <<>> /\ o < next_publish /\ ready' # <<>> /\ ready'[1].ordinal <= o
            => \E k \in DOMAIN ready' : ready'[k].ordinal = o
      <4> TAKE o \in Ordinal
      <4>1. ready' # <<>> => 1 \in DOMAIN ready'
        BY <1>1, <2>2
      <4>2. ready' # <<>> => p < ready'[1].ordinal /\ ready'[1].ordinal \in Ordinal
        BY <2>3, <4>1
      <4>3. ready' # <<>> /\ ready'[1].ordinal <= o => p < o
        BY <1>2, <4>2 DEF Ordinal
      <4> QED BY <2>4, <4>3
    <3>3. \A k \in DOMAIN ready' :
            /\ ready'[k].ordinal < next_publish'
            /\ ready'[k].next \in Starts(Candidates(ready'[k].ordinal))
            /\ k > 1 => ready'[k].next = 0
      BY <1>5, <2>3
    <3>4. ready' \in Seq([ordinal : Ordinal, next : Nat]) /\ next_publish' = next_publish
      BY <1>5, <2>2
    <3> QED BY <3>1, <3>2, <3>3, <3>4 DEF ReadyInv
  <2>6. ASSUME NEW o, NEW f PROVE Claimed(o, f)' <=> Claimed(o, f) \/ (o = p /\ f = g)
    <3>1. Claimed(o, f) <=> /\ o \in Ordinal /\ f \in Starts(Candidates(o))
                            /\ o < next_publish /\ Before(o, f, p, g)
      BY <1>1 DEF Claimed, p, g
    <3>2. Claimed(o, f)' <=> /\ o \in Ordinal /\ f \in Starts(Candidates(o)) /\ o < next_publish
                             /\ ready' # <<>> => Before(o, f, ready'[1].ordinal, 0)
      <4>1. ready' # <<>> => ready'[1].next = 0
        <5>1. ready' # <<>> => 1 \in DOMAIN ready'
          BY <1>1, <2>2
        <5> QED BY <2>3, <5>1
      <4> QED BY <1>5, <4>1 DEF Claimed
    <3>3. ASSUME o \in Ordinal, f \in Starts(Candidates(o)), o < next_publish
          PROVE  (ready' # <<>> => Before(o, f, ready'[1].ordinal, 0)) <=> o <= p
      <4>1. o \in Nat /\ p \in Nat /\ f \in Nat
        BY <1>2, <3>3, BatchInSegment DEF Ordinal
      <4>2. Candidates(o) # <<>>
        <5>1. f \in 0 .. Len(Candidates(o)) - 1
          BY <3>3, CandidatesFit, BatchesFollow
        <5> QED BY <5>1
      <4>3. ASSUME p < o PROVE ready' # <<>> /\ ~Before(o, f, ready'[1].ordinal, 0)
        <5>1. PICK k \in DOMAIN ready' : ready'[k].ordinal = o
          BY <2>4, <3>3, <4>2, <4>3
        <5>2. 1 \in DOMAIN ready' /\ ready' # <<>> /\ (k = 1 \/ 1 < k)
          BY <1>1, <2>2
        <5>3. 1 < k => ready'[1].ordinal < ready'[k].ordinal
          BY <2>5, <5>2 DEF ReadyInv
        <5>4. ready'[1].ordinal \in Nat
          BY <2>3, <5>2 DEF Ordinal
        <5> QED BY <4>1, <5>1, <5>2, <5>3, <5>4 DEF Before
      <4>4. ASSUME o <= p, ready' # <<>> PROVE Before(o, f, ready'[1].ordinal, 0)
        <5>1. 1 \in DOMAIN ready'
          BY <1>1, <2>2, <4>4
        <5>2. p < ready'[1].ordinal /\ ready'[1].ordinal \in Nat
          BY <2>3, <5>1 DEF Ordinal
        <5> QED BY <4>1, <4>4, <5>2 DEF Before
      <4> QED BY <4>1, <4>3, <4>4
    <3>4. ASSUME o \in Ordinal, f \in Starts(Candidates(o))
          PROVE  o <= p <=> Before(o, f, p, g) \/ (o = p /\ f = g)
      <4>1. o \in Nat /\ p \in Nat /\ f \in Nat
        BY <1>2, <3>4, BatchInSegment DEF Ordinal
      <4>2. ASSUME o = p, g < f PROVE FALSE
        <5>1. end <= f
          BY <1>2, <1>4, <3>4, <4>2, StartsApart DEF C, end
        <5>2. f \in 0 .. Len(C) - 1
          BY <1>4, <3>4, <4>2, BatchesFollow DEF C
        <5> QED BY <1>4, <2>1, <5>1, <5>2
      <4> QED BY <1>2, <4>1, <4>2 DEF Before
    <3> QED BY <1>2, <3>1, <3>2, <3>3, <3>4 DEF C
  <2> QED BY <1>2, <1>3, <1>5, <2>5, <2>6 DEF C, p, g
<1> QED BY <1>7, <1>8 DEF C, p, g

\* A segment is decoded: what waited for it is published, nothing handed out.
LEMMA DecodeSegmentQueue ==
    ASSUME QueueInv, NEW w \in Workers, DecodeSegment(w),
           worker[w].ordinal \in (next_publish .. next_segment - 1) \ pending
    PROVE  LET decoded == pending \union {worker[w].ordinal}
           IN  /\ QueueInv'
               /\ next_publish' \in next_publish .. next_segment
               /\ pending' = decoded \ (next_publish .. next_publish' - 1)
               /\ next_publish .. next_publish' - 1 \subseteq decoded
               /\ \A k \in DOMAIN ready' : \/ ready'[k].ordinal \in next_publish .. next_publish' - 1
                                           \/ \E l \in DOMAIN ready : ready'[k].ordinal = ready[l].ordinal
               /\ \A o, f : Claimed(o, f)' <=> Claimed(o, f)
<1> DEFINE decoded == pending \union {worker[w].ordinal}
           first == next_publish
           Next_(n) == n \notin decoded /\ next_publish .. n - 1 \subseteq decoded
           end == CHOOSE n \in next_publish .. Segments : Next_(n)
           P == Published(first, end)
           Entry == [ordinal : Ordinal, next : Nat]
<1> USE DEF QueueInv
<1>1. /\ ready' = ready \o P
      /\ pending' = decoded \ (first .. end - 1)
      /\ next_publish' = end
      /\ failed' = failed /\ next_segment' = next_segment
  BY DEF DecodeSegment, PublishInOrder
<1>2. /\ first \in Nat /\ next_segment \in Nat /\ Segments \in Nat /\ first <= next_segment
      /\ next_segment <= Segments /\ ready \in Seq(Entry)
      /\ Len(ready) \in Nat /\ DOMAIN ready = 1 .. Len(ready)
      /\ decoded \subseteq first .. next_segment - 1
  <2>1. /\ first \in Nat /\ next_segment \in Nat /\ Segments \in Nat /\ first <= next_segment
        /\ next_segment <= Segments /\ ready \in Seq(Entry)
        /\ Len(ready) \in Nat /\ DOMAIN ready = 1 .. Len(ready)
    BY ReadyEntries DEF ReadyInv
  <2>2. pending \subseteq first .. next_segment - 1
    BY <2>1
  <2> QED BY <2>1, <2>2
<1>3. end \in first .. Segments /\ Next_(end)
  <2> DEFINE S == {n \in first .. next_segment : n \notin decoded}
  <2>1. S \in SUBSET Nat /\ next_segment \in S
    BY <1>2
  <2>2. PICK m \in S : \A n \in S : m <= n
    <3> HIDE DEF S
    <3> QED BY <2>1, Lowest
  <2>3. ASSUME NEW n \in first .. m - 1 PROVE n \in decoded
    <3>1. n \in first .. next_segment /\ ~(m <= n)
      BY <1>2, <2>2
    <3> QED BY <2>2, <3>1
  <2>4. m \in first .. Segments /\ Next_(m)
    BY <1>2, <2>2, <2>3
  <2> HIDE DEF Next_
  <2> QED BY <2>4
<1>4. end <= next_segment
  <2>1. CASE end = first
    BY <1>2, <2>1
  <2>2. CASE end > first
    <3>1. end - 1 \in first .. end - 1
      BY <1>2, <1>3, <2>2
    <3>2. end - 1 \in decoded
      BY <1>3, <3>1
    <3> QED BY <1>2, <1>3, <3>2
  <2> QED BY <1>2, <1>3, <2>1, <2>2
<1>5. /\ P \in Seq(Entry)
      /\ \A k \in DOMAIN P : /\ P[k].ordinal \in first .. end - 1 /\ P[k].next = 0
                             /\ Candidates(P[k].ordinal) # <<>>
      /\ \A k, l \in DOMAIN P : k < l => P[k].ordinal < P[l].ordinal
      /\ \A o \in first .. end - 1 : Candidates(o) # <<>> => \E k \in DOMAIN P : P[k].ordinal = o
  <2>1. first \in Nat /\ end \in first .. Segments
    BY <1>2, <1>3
  <2> HIDE DEF end, decoded, Next_
  <2> QED BY <2>1, PublishedEntries DEF P
<1> HIDE DEF end, decoded, P, Next_, Entry
<1>6. /\ next_publish' \in next_publish .. next_segment
      /\ pending' = decoded \ (next_publish .. next_publish' - 1)
      /\ next_publish .. next_publish' - 1 \subseteq decoded
      /\ pending' \subseteq next_publish' + 1 .. next_segment' - 1
      /\ next_publish' \in 0 .. next_segment' /\ next_segment' \in 0 .. Segments
  <2>1. end \in first .. next_segment /\ end \notin decoded /\ first .. end - 1 \subseteq decoded
    BY <1>2, <1>3, <1>4 DEF Next_
  <2>2. ASSUME NEW o \in pending' PROVE o \in end + 1 .. next_segment - 1
    <3>1. o \in decoded /\ o \notin first .. end - 1 /\ o # end
      BY <1>1, <2>1, <2>2
    <3>2. o \in first .. next_segment - 1
      BY <1>2, <3>1
    <3> QED BY <1>2, <2>1, <3>1, <3>2
  <2>3. next_publish = first /\ next_publish' = end /\ next_segment' = next_segment
    BY <1>1
  <2>4. next_publish .. next_publish' - 1 \subseteq decoded
    BY <2>1, <2>3
  <2>5. pending' \subseteq next_publish' + 1 .. next_segment' - 1
    BY <1>2, <2>2, <2>3
  <2>6. next_publish' \in next_publish .. next_segment /\ next_publish' \in 0 .. next_segment'
    BY <1>2, <2>1, <2>3
  <2>7. next_segment' \in 0 .. Segments
    BY <1>2, <2>3
  <2> QED BY <1>1, <2>3, <2>4, <2>5, <2>6, <2>7
<1>7. /\ Len(P) \in Nat /\ DOMAIN P = 1 .. Len(P) /\ \A k \in 1 .. Len(P) : P[k] \in Entry
  BY <1>5, ElementOfSeq
<1>8. /\ ready' \in Seq(Entry)
      /\ DOMAIN ready' = 1 .. Len(ready) + Len(P)
      /\ \A k \in 1 .. Len(ready) : ready'[k] = ready[k]
      /\ \A k \in 1 .. Len(P) : ready'[Len(ready) + k] = P[k]
  BY <1>1, <1>2, <1>5, SeqConcat, ElementOfSeq
<1>9. ASSUME NEW k \in DOMAIN ready'
      PROVE  \/ k \in DOMAIN ready /\ ready'[k] = ready[k] /\ ready[k].ordinal < first
             \/ k > Len(ready) /\ k - Len(ready) \in DOMAIN P /\ ready'[k] = P[k - Len(ready)]
                /\ ready'[k].ordinal \in first .. end - 1 /\ ready'[k].next = 0
  <2>1. CASE k <= Len(ready)
    BY <1>2, <1>8, <2>1 DEF ReadyInv
  <2>2. CASE k > Len(ready)
    <3> DEFINE l == k - Len(ready)
    <3>1. l \in 1 .. Len(P) /\ Len(ready) + l = k
      BY <1>2, <1>7, <1>8, <2>2
    <3> HIDE DEF l
    <3>2. ready'[k] = P[l] /\ P[l].ordinal \in first .. end - 1 /\ P[l].next = 0
      BY <1>5, <1>7, <1>8, <3>1
    <3> QED BY <1>7, <2>2, <3>1, <3>2 DEF l
  <2> QED BY <1>2, <1>8, <2>1, <2>2
<1>10. \A k \in 1 .. Len(P) : Len(ready) + k \in DOMAIN ready' /\ ready'[Len(ready) + k] = P[k]
  BY <1>2, <1>7, <1>8
<1>11. /\ ready # <<>> => ready' # <<>> /\ ready'[1] = ready[1] /\ ready[1].ordinal < first
                          /\ ready[1].ordinal \in Nat
       /\ ready = <<>> => ready' = P
  <2>1. ready # <<>> => 1 \in DOMAIN ready /\ 1 \in DOMAIN ready'
    BY <1>2, <1>7, <1>8
  <2>2. ready # <<>> => ready'[1] = ready[1]
    BY <1>2, <1>8, <2>1
  <2>3. ready # <<>> => ready[1].ordinal < first /\ ready[1].ordinal \in Nat
    BY <1>2, <2>1, ReadyEntries DEF ReadyInv, Ordinal
  <2>4. ready # <<>> => ready' # <<>>
    BY <1>8, <2>1
  <2>5. ready = <<>> => ready' = P
    BY <1>1, <1>5
  <2> QED BY <2>2, <2>3, <2>4, <2>5
<1>12. ReadyInv'
  <2>1. \A k \in DOMAIN ready' : /\ ready'[k].ordinal < next_publish'
                                 /\ ready'[k].next \in Starts(Candidates(ready'[k].ordinal))
                                 /\ k > 1 => ready'[k].next = 0
    <3> TAKE k \in DOMAIN ready'
    <3>1. CASE k \in DOMAIN ready /\ ready'[k] = ready[k] /\ ready[k].ordinal < first
      <4>1. ready[k].ordinal \in Nat
        BY <3>1, ReadyEntries DEF Ordinal
      <4>2. ready[k].ordinal < end
        BY <1>2, <1>3, <3>1, <4>1
      <4> QED BY <1>1, <3>1, <4>2 DEF ReadyInv
    <3>2. CASE /\ k - Len(ready) \in DOMAIN P /\ ready'[k] = P[k - Len(ready)]
               /\ ready'[k].ordinal \in first .. end - 1 /\ ready'[k].next = 0
      <4>1. ready'[k].ordinal \in Ordinal /\ Candidates(ready'[k].ordinal) # <<>>
        BY <1>2, <1>3, <1>5, <3>2 DEF Ordinal
      <4>2. 0 \in Starts(Candidates(ready'[k].ordinal))
        BY <4>1, CandidatesFit, BatchesFollow
      <4>3. ready'[k].ordinal < end
        BY <1>2, <1>3, <3>2
      <4> QED BY <1>1, <3>2, <4>2, <4>3
    <3> QED BY <1>9, <3>1, <3>2
  <2>2. \A k, l \in DOMAIN ready' : k < l => ready'[k].ordinal < ready'[l].ordinal
    <3> SUFFICES ASSUME NEW k \in DOMAIN ready', NEW l \in DOMAIN ready', k < l
                 PROVE  ready'[k].ordinal < ready'[l].ordinal
      OBVIOUS
    <3>1. k \in Nat /\ l \in Nat
      BY <1>2, <1>7, <1>8
    <3>2. CASE l \in DOMAIN ready
      <4>1. k \in DOMAIN ready
        BY <1>2, <1>8, <3>1, <3>2
      <4> QED BY <1>2, <1>8, <3>2, <4>1 DEF ReadyInv
    <3>3. CASE k \in DOMAIN ready /\ l \notin DOMAIN ready
      <4>1. ready'[k].ordinal < first /\ ready'[k].ordinal \in Nat
        BY <1>2, <1>8, <1>9, <3>3, ReadyEntries DEF Ordinal
      <4>2. ready'[l].ordinal \in first .. end - 1
        BY <1>9, <3>3
      <4> QED BY <1>2, <1>3, <4>1, <4>2
    <3>4. CASE k \notin DOMAIN ready /\ l \notin DOMAIN ready
      <4>1. /\ k - Len(ready) \in DOMAIN P /\ l - Len(ready) \in DOMAIN P
            /\ ready'[k] = P[k - Len(ready)] /\ ready'[l] = P[l - Len(ready)]
        BY <1>9, <3>4
      <4>2. k - Len(ready) < l - Len(ready)
        BY <1>2, <3>1
      <4> QED BY <1>5, <4>1, <4>2
    <3>5. l \notin DOMAIN ready \/ l \in DOMAIN ready
      OBVIOUS
    <3>6. k \notin DOMAIN ready => l \notin DOMAIN ready
      BY <1>2, <1>8, <3>1
    <3> QED BY <3>2, <3>3, <3>4, <3>6
  <2>3. \A o \in Ordinal :
          Candidates(o) # <<>> /\ o < next_publish' /\ ready' # <<>> /\ ready'[1].ordinal <= o
          => \E k \in DOMAIN ready' : ready'[k].ordinal = o
    <3> SUFFICES ASSUME NEW o \in Ordinal, Candidates(o) # <<>>, o < next_publish',
                        ready' # <<>>, ready'[1].ordinal <= o
                 PROVE  \E k \in DOMAIN ready' : ready'[k].ordinal = o
      OBVIOUS
    <3>1. CASE o >= first
      <4>1. o \in first .. end - 1
        BY <1>1, <1>2, <1>3, <3>1 DEF Ordinal
      <4>2. PICK k \in DOMAIN P : P[k].ordinal = o
        BY <1>5, <4>1
      <4> QED BY <1>7, <1>10, <4>2
    <3>2. CASE o < first
      <4>1. ready # <<>>
        <5> SUFFICES ASSUME ready = <<>> PROVE FALSE
          OBVIOUS
        <5>1. 1 \in DOMAIN P /\ ready'[1] = P[1]
          <6>1. P # <<>>
            BY <1>11
          <6> QED BY <1>5, <1>7, <1>11, <6>1
        <5>2. P[1].ordinal \in first .. end - 1
          BY <1>5, <5>1
        <5> QED BY <1>2, <1>3, <3>2, <5>1, <5>2 DEF Ordinal
      <4>2. PICK k \in DOMAIN ready : ready[k].ordinal = o
        BY <1>11, <3>2, <4>1 DEF ReadyInv
      <4>3. k \in DOMAIN ready' /\ ready'[k] = ready[k]
        BY <1>2, <1>7, <1>8
      <4> QED BY <4>2, <4>3
    <3> QED BY <1>2, <3>1, <3>2 DEF Ordinal
  <2> QED BY <1>8, <2>1, <2>2, <2>3 DEF ReadyInv, Entry
<1>13. ASSUME NEW o, NEW f PROVE Claimed(o, f)' <=> Claimed(o, f)
  <2> SUFFICES ASSUME o \in Ordinal, f \in Starts(Candidates(o))
               PROVE  Claimed(o, f)' <=> Claimed(o, f)
    BY DEF Claimed
  <2>1. o \in Nat /\ f \in Nat /\ Candidates(o) # <<>>
    <3>1. f \in 0 .. Len(Candidates(o)) - 1
      BY CandidatesFit, BatchesFollow
    <3>2. Candidates(o) # <<>>
      BY <3>1
    <3> QED BY <3>1, <3>2 DEF Ordinal
  <2>2. CASE ready # <<>>
    <3>1. ready' # <<>> /\ ready'[1] = ready[1] /\ ready[1].ordinal < first /\ ready[1].ordinal \in Nat
      BY <1>11, <2>2
    <3>2. Claimed(o, f)' <=> o < end /\ Before(o, f, ready[1].ordinal, ready[1].next)
      BY <1>1, <3>1 DEF Claimed
    <3>3. Claimed(o, f) <=> o < first /\ Before(o, f, ready[1].ordinal, ready[1].next)
      BY <2>2 DEF Claimed
    <3>4. Before(o, f, ready[1].ordinal, ready[1].next) => o < first /\ o < end
      BY <1>2, <1>3, <2>1, <3>1 DEF Before
    <3> QED BY <3>2, <3>3, <3>4
  <2>3. CASE ready = <<>>
    <3>1. Claimed(o, f) <=> o < first
      BY <2>3 DEF Claimed
    <3>2. CASE o >= first /\ o < end
      <4>1. o \in first .. end - 1
        BY <1>2, <1>3, <2>1, <3>2
      <4>2. PICK k \in DOMAIN P : P[k].ordinal = o
        BY <1>5, <2>1, <4>1
      <4>3. 1 \in DOMAIN P /\ P # <<>> /\ (k = 1 \/ 1 < k)
        BY <1>7
      <4>4. P[1].ordinal <= o /\ P[1].ordinal \in Nat /\ P[1].next = 0
        <5>1. P[1].ordinal \in first .. end - 1 /\ P[1].next = 0
          BY <1>5, <4>3
        <5>2. 1 < k => P[1].ordinal < P[k].ordinal
          BY <1>5, <4>3
        <5> QED BY <1>2, <1>3, <2>1, <4>2, <4>3, <5>1, <5>2
      <4>5. ~Before(o, f, P[1].ordinal, 0)
        BY <2>1, <4>4 DEF Before
      <4>6. ready' = P
        BY <1>11, <2>3
      <4>7. ~Claimed(o, f)'
        BY <4>3, <4>4, <4>5, <4>6 DEF Claimed
      <4> QED BY <1>2, <2>1, <3>1, <3>2, <4>7
    <3>3. CASE o < first
      <4>1. o < end
        BY <1>2, <1>3, <2>1, <3>3
      <4>2. P # <<>> => o < P[1].ordinal
        <5>1. P # <<>> => 1 \in DOMAIN P
          BY <1>5, <1>7
        <5>2. P # <<>> => P[1].ordinal \in first .. end - 1
          BY <1>5, <5>1
        <5> QED BY <1>2, <1>3, <2>1, <3>3, <5>2
      <4> QED BY <1>1, <1>11, <2>3, <3>1, <3>3, <4>1, <4>2 DEF Claimed, Before
    <3>4. CASE o >= end
      <4>1. ~(o < first) /\ ~(o < end)
        BY <1>2, <1>3, <2>1, <3>4
      <4> QED BY <1>1, <3>1, <4>1 DEF Claimed
    <3> QED BY <1>2, <1>3, <2>1, <3>2, <3>3, <3>4
  <2> QED BY <2>2, <2>3
<1>14. \A k \in DOMAIN ready' : \/ ready'[k].ordinal \in next_publish .. next_publish' - 1
                                \/ \E l \in DOMAIN ready : ready'[k].ordinal = ready[l].ordinal
  BY <1>1, <1>9
<1> QED BY <1>1, <1>6, <1>12, <1>13, <1>14 DEF decoded

-----------------------------------------------------------------------------
(* The workers: what each claims and how a step changes it *)

\* A SearchCoreLocal.
WorkerRecord ==
    [phase : Running \union Stopped \union {"init"}, ordinal : Ordinal \union {None},
     from : Nat, to : Nat, index : Int]

\* The worker holds a batch's candidates; it may have been abandoned with them.
Holds(w) == worker[w].from < worker[w].to
Decodes(w) == worker[w].phase = "decode"

\* A worker's claim is that of one batch, or of one segment to decode.
ClaimInv(w) ==
    /\ worker[w].phase = "fetch" => Holds(w)
    /\ Holds(w) =>
         /\ worker[w].phase \in {"fetch", "left"}
         /\ Claimed(worker[w].ordinal, worker[w].from)
         /\ worker[w].to = BatchEnd(Candidates(worker[w].ordinal), worker[w].from)
         /\ worker[w].index = BatchIndex(worker[w].ordinal, worker[w].from)
    /\ Decodes(w) => worker[w].ordinal \in (next_publish .. next_segment - 1) \ pending
    /\ worker[w].phase \in {"init", "claim", "scan", "unit", "done"} => worker[w].ordinal = None
    /\ worker[w].phase = "thrown" /\ worker[w].ordinal # None => failed

\* The index of a batch that was handed out.
IndexClaimed(i) ==
    \E o \in Ordinal : \E f \in Starts(Candidates(o)) : Claimed(o, f) /\ i = BatchIndex(o, f)

\* The index a worker took last is of what was handed out.
IndexInv(w) ==
    /\ worker[w].phase = "init" => worker[w].index = None
    /\ worker[w].phase \in {"claim", "decode"} =>
         worker[w].index = None \/ IndexClaimed(worker[w].index)
    /\ worker[w].phase = "scan" => worker[w].index < FetchBatchBase + next_tail_unit
    /\ worker[w].phase = "unit" =>
         worker[w].index - FetchBatchBase \in 0 .. TailUnits
         /\ worker[w].index - FetchBatchBase < next_tail_unit
    /\ worker[w].phase = "done" => next_tail_unit > TailUnits

\* No two workers hold one batch, decode one segment or scan one tail unit.
ApartInv(v, w) ==
    /\ Holds(v) /\ Holds(w) => worker[v].index # worker[w].index
    /\ Decodes(v) /\ Decodes(w) => worker[v].ordinal # worker[w].ordinal
    /\ worker[v].phase = "unit" /\ worker[w].phase = "unit" => worker[v].index # worker[w].index

WorkersInv ==
    /\ worker \in [Workers -> WorkerRecord]
    /\ next_tail_unit \in Nat
    /\ \A w \in Workers : ClaimInv(w) /\ IndexInv(w)
    /\ \A v, w \in Workers : v # w => ApartInv(v, w)
-----------------------------------------------------------------------------
\* What becomes of the worker that takes a step.
Becomes(w, phase, ordinal, from, to, index) ==
    /\ worker' \in [Workers -> WorkerRecord]
    /\ \A v \in Workers : v # w => worker'[v] = worker[v]
    /\ worker'[w].phase = phase /\ worker'[w].ordinal = ordinal
    /\ worker'[w].from = from /\ worker'[w].to = to /\ worker'[w].index = index

\* A worker's record is replaced.
LEMMA Replaced ==
    ASSUME worker \in [Workers -> WorkerRecord], NEW w \in Workers,
           NEW r \in WorkerRecord, worker' = [worker EXCEPT ![w] = r]
    PROVE  Becomes(w, r.phase, r.ordinal, r.from, r.to, r.index)
BY DEF Becomes

\* The tail's units cover it.
LEMMA Constants ==
    /\ Segments \in Nat /\ Ordinal \subseteq Nat /\ None \notin Ordinal /\ None = -1
    /\ FetchBatchBase \in Nat /\ TailUnits \in Nat /\ TailEnd \in Nat /\ TailStart \in Nat
    /\ TailUnitRows \in Nat \ {0} /\ Hwm = TailStart - 1
    /\ TailEnd - TailStart <= TailUnitRows * TailUnits
    /\ MaxThreads \in Nat
<1>1. Segments \in Nat
  BY SearchInputs DEF Segments
<1>2. FetchBatchBase \in Nat
  <2>1. FETCH_BATCHES_PER_SEGMENT \in Nat
    BY Sizes
  <2> QED BY <1>1, <2>1 DEF FetchBatchBase
<1>3. /\ TailEnd \in Nat /\ TailStart \in Nat /\ TailUnitRows \in Nat \ {0}
      /\ Hwm = TailStart - 1 /\ MaxThreads \in Nat
  BY SearchInputs DEF TailStart
<1>4. CASE TailStart < TailEnd
  <2> DEFINE n == TailEnd - TailStart
             T == TailUnitRows
             m == n + T - 1
  <2>1. n \in Nat /\ T \in Nat \ {0} /\ m \in Nat
    BY <1>3, <1>4
  <2> HIDE DEF n, T
  <2>2. m \div T \in Int /\ m = T * (m \div T) + (m % T) /\ m % T \in 0 .. T - 1
    BY <2>1, Division
  <2>3. m \div T >= 0 /\ T * (m \div T) \in Int /\ n <= T * (m \div T)
    <3>1. T * (m \div T) \in Int
      BY <2>1, <2>2
    <3>2. m \div T < 0 => T * (m \div T) <= 0 - T
      BY <2>1, <2>2
    <3> DEFINE x == T * (m \div T)
               y == m % T
               z == m \div T
    <3>3. x \in Int /\ y \in 0 .. T - 1 /\ n + T - 1 = x + y /\ (z < 0 => x <= 0 - T) /\ z \in Int
      BY <2>2, <3>1, <3>2
    <3> HIDE DEF x, y, z
    <3>4. z >= 0 /\ x \in Int /\ n <= x
      BY <2>1, <3>3
    <3> QED BY <3>4 DEF x, z
  <2>4. TailUnits = m \div T
    BY <1>4 DEF TailUnits, n, T
  <2> QED BY <1>1, <1>2, <1>3, <2>2, <2>3, <2>4 DEF Ordinal, None, n, T
<1>5. CASE ~(TailStart < TailEnd)
  <2>1. TailUnits = 0 /\ TailEnd - TailStart <= 0
    BY <1>3, <1>5 DEF TailUnits
  <2> QED BY <1>1, <1>2, <1>3, <2>1 DEF Ordinal, None
<1> QED BY <1>4, <1>5

\* What each action makes of its worker.
LEMMA Moves ==
    ASSUME worker \in [Workers -> WorkerRecord], NEW w \in Workers,
           next_tail_unit \in Nat, next_segment \in Nat, QueueInv
    PROVE  LET me == worker[w] IN
      /\ Start(w) => Becomes(w, IF next_probe_thread < MaxThreads THEN "claim" ELSE "scan",
                             me.ordinal, me.from, me.to, me.index)
      /\ ClaimReady(w) =>
           LET p == ready[1].ordinal
               g == ready[1].next
           IN  Becomes(w, "fetch", p, g, BatchEnd(Candidates(p), g), BatchIndex(p, g))
      /\ Exhausted(w) => Becomes(w, "scan", me.ordinal, me.from, me.to, me.index)
      /\ ClaimSegment(w) => Becomes(w, "decode", next_segment, me.from, me.to, me.index)
      /\ DecodeSegment(w) => Becomes(w, "claim", None, me.from, me.to, me.index)
      /\ DecodeFails(w) => Becomes(w, "thrown", me.ordinal, me.from, me.to, me.index)
      /\ FinishBatch(w) => Becomes(w, "claim", None, 0, 0, me.index)
      /\ StartTailUnit(w) =>
           IF next_tail_unit > TailUnits
           THEN Becomes(w, "done", me.ordinal, me.from, me.to, me.index)
           ELSE Becomes(w, "unit", me.ordinal, me.from, me.to, FetchBatchBase + next_tail_unit)
      /\ FinishUnit(w) => Becomes(w, "scan", me.ordinal, me.from, me.to, me.index)
      /\ Interrupted(w) => Becomes(w, "thrown", me.ordinal, me.from, me.to, me.index)
      /\ Abandon(w) => Becomes(w, "left", me.ordinal, me.from, me.to, me.index)
<1> DEFINE me == worker[w]
           Set(p, o, a, b, i) == [phase |-> p, ordinal |-> o, from |-> a, to |-> b, index |-> i]
<1>1. /\ me \in WorkerRecord /\ me = Set(me.phase, me.ordinal, me.from, me.to, me.index)
      /\ me.ordinal \in Ordinal \union {None} /\ me.from \in Nat /\ me.to \in Nat /\ me.index \in Int
  BY DEF WorkerRecord
<1>2. \A p \in Running \union Stopped, o \in Ordinal \union {None}, a, b \in Nat, i \in Int :
        worker' = [worker EXCEPT ![w] = Set(p, o, a, b, i)] => Becomes(w, p, o, a, b, i)
  <2> TAKE p \in Running \union Stopped, o \in Ordinal \union {None}, a \in Nat, b \in Nat, i \in Int
  <2> HAVE worker' = [worker EXCEPT ![w] = Set(p, o, a, b, i)]
  <2>1. Set(p, o, a, b, i) \in WorkerRecord
    BY DEF WorkerRecord
  <2> QED BY <2>1, Replaced
<1>3. {"fetch", "claim", "decode", "scan", "unit", "done", "thrown", "left"} = Running \union Stopped
  BY DEF Running, Stopped
<1>4. /\ None \in Ordinal \union {None} /\ FetchBatchBase + next_tail_unit \in Int /\ 0 \in Nat
  BY Constants
<1>5. ASSUME NEW p
      PROVE  [worker EXCEPT ![w].phase = p]
               = [worker EXCEPT ![w] = Set(p, me.ordinal, me.from, me.to, me.index)]
  <2>1. [me EXCEPT !.phase = p] = Set(p, me.ordinal, me.from, me.to, me.index)
    BY <1>1 DEF WorkerRecord
  <2>2. [worker EXCEPT ![w].phase = p] = [worker EXCEPT ![w] = [me EXCEPT !.phase = p]]
    OBVIOUS
  <2> QED BY <2>1, <2>2
<1>6. ASSUME NEW p, NEW o
      PROVE  [worker EXCEPT ![w].phase = p, ![w].ordinal = o]
                  = [worker EXCEPT ![w] = Set(p, o, me.from, me.to, me.index)]
  <2>1. [me EXCEPT !.phase = p, !.ordinal = o] = Set(p, o, me.from, me.to, me.index)
    <3>1. [me EXCEPT !.phase = p] = Set(p, me.ordinal, me.from, me.to, me.index)
      BY <1>1 DEF WorkerRecord
    <3>2. [Set(p, me.ordinal, me.from, me.to, me.index) EXCEPT !.ordinal = o]
            = Set(p, o, me.from, me.to, me.index)
      OBVIOUS
    <3>3. [me EXCEPT !.phase = p, !.ordinal = o] = [[me EXCEPT !.phase = p] EXCEPT !.ordinal = o]
      OBVIOUS
    <3> QED BY <3>1, <3>2, <3>3
  <2>2. [worker EXCEPT ![w].phase = p, ![w].ordinal = o]
          = [worker EXCEPT ![w] = [me EXCEPT !.phase = p, !.ordinal = o]]
    OBVIOUS
  <2> QED BY <2>1, <2>2
<1>7. ASSUME NEW p, NEW i
      PROVE  [worker EXCEPT ![w].phase = p, ![w].index = i]
                  = [worker EXCEPT ![w] = Set(p, me.ordinal, me.from, me.to, i)]
  <2>1. [me EXCEPT !.phase = p, !.index = i] = Set(p, me.ordinal, me.from, me.to, i)
    <3>1. [me EXCEPT !.phase = p] = Set(p, me.ordinal, me.from, me.to, me.index)
      BY <1>1 DEF WorkerRecord
    <3>2. [Set(p, me.ordinal, me.from, me.to, me.index) EXCEPT !.index = i]
            = Set(p, me.ordinal, me.from, me.to, i)
      OBVIOUS
    <3>3. [me EXCEPT !.phase = p, !.index = i] = [[me EXCEPT !.phase = p] EXCEPT !.index = i]
      OBVIOUS
    <3> QED BY <3>1, <3>2, <3>3
  <2>2. [worker EXCEPT ![w].phase = p, ![w].index = i]
          = [worker EXCEPT ![w] = [me EXCEPT !.phase = p, !.index = i]]
    OBVIOUS
  <2> QED BY <2>1, <2>2
<1>8. ASSUME NEW p
      PROVE  [worker EXCEPT ![w] = [@ EXCEPT !.phase = p, !.ordinal = None, !.from = 0, !.to = 0]]
               = [worker EXCEPT ![w] = Set(p, None, 0, 0, me.index)]
  <2>1. [me EXCEPT !.phase = p, !.ordinal = None, !.from = 0, !.to = 0] = Set(p, None, 0, 0, me.index)
    <3>1. [me EXCEPT !.phase = p, !.ordinal = None] = Set(p, None, me.from, me.to, me.index)
      <4>1. [me EXCEPT !.phase = p] = Set(p, me.ordinal, me.from, me.to, me.index)
        BY <1>1 DEF WorkerRecord
      <4>2. [Set(p, me.ordinal, me.from, me.to, me.index) EXCEPT !.ordinal = None]
              = Set(p, None, me.from, me.to, me.index)
        OBVIOUS
      <4>3. [me EXCEPT !.phase = p, !.ordinal = None] = [[me EXCEPT !.phase = p] EXCEPT !.ordinal = None]
        OBVIOUS
      <4> QED BY <4>1, <4>2, <4>3
    <3>2. [Set(p, None, me.from, me.to, me.index) EXCEPT !.from = 0] = Set(p, None, 0, me.to, me.index)
      OBVIOUS
    <3>3. [Set(p, None, 0, me.to, me.index) EXCEPT !.to = 0] = Set(p, None, 0, 0, me.index)
      OBVIOUS
    <3>4. [me EXCEPT !.phase = p, !.ordinal = None, !.from = 0, !.to = 0]
            = [[[me EXCEPT !.phase = p, !.ordinal = None] EXCEPT !.from = 0] EXCEPT !.to = 0]
      OBVIOUS
    <3> QED BY <3>1, <3>2, <3>3, <3>4
  <2> QED BY <2>1
<1>9. \A p \in Running \union Stopped : worker' = [worker EXCEPT ![w].phase = p]
        => Becomes(w, p, me.ordinal, me.from, me.to, me.index)
  BY <1>1, <1>2, <1>5
<1> HIDE DEF me, Set
<1>10. Start(w) => Becomes(w, IF next_probe_thread < MaxThreads THEN "claim" ELSE "scan",
                           me.ordinal, me.from, me.to, me.index)
  <2>1. (IF next_probe_thread < MaxThreads THEN "claim" ELSE "scan") \in Running \union Stopped
    BY <1>3
  <2> QED BY <1>9, <2>1 DEF Start
<1>11. ClaimReady(w) =>
         LET p == ready[1].ordinal
             g == ready[1].next
         IN  Becomes(w, "fetch", p, g, BatchEnd(Candidates(p), g), BatchIndex(p, g))
  <2> SUFFICES ASSUME ClaimReady(w)
               PROVE  LET p == ready[1].ordinal
                          g == ready[1].next
                      IN  Becomes(w, "fetch", p, g, BatchEnd(Candidates(p), g), BatchIndex(p, g))
    OBVIOUS
  <2> DEFINE p == ready[1].ordinal
             g == ready[1].next
             end == BatchEnd(Candidates(p), g)
  <2>1. p \in Ordinal /\ g \in Starts(Candidates(p))
    BY ClaimReadyQueue
  <2>2. g \in Nat /\ end \in Nat /\ BatchIndex(p, g) \in Int
    BY <2>1, BatchInSegment
  <2>3. worker' = [worker EXCEPT ![w] = Set("fetch", p, g, end, BatchIndex(p, g))]
    <3>1. ready # <<>>
      BY DEF ClaimReady
    <3>2. Head(ready) = ready[1]
      BY <3>1, ReadyEntries
    <3> QED BY <3>2 DEF ClaimReady, Set
  <2> HIDE DEF p, g, end
  <2>4. Becomes(w, "fetch", p, g, end, BatchIndex(p, g))
    BY <1>2, <1>3, <2>1, <2>2, <2>3
  <2> QED BY <2>4 DEF p, g, end
<1>12. Exhausted(w) => Becomes(w, "scan", me.ordinal, me.from, me.to, me.index)
  BY <1>3, <1>9 DEF Exhausted
<1>13. ClaimSegment(w) => Becomes(w, "decode", next_segment, me.from, me.to, me.index)
  <2> SUFFICES ASSUME ClaimSegment(w)
               PROVE  Becomes(w, "decode", next_segment, me.from, me.to, me.index)
    OBVIOUS
  <2>1. next_segment \in Ordinal
    <3>1. next_segment < Segments
      BY DEF ClaimSegment, Unclaimed
    <3>2. next_segment \in Nat /\ Segments \in Nat
      BY Constants
    <3> QED BY <3>1, <3>2 DEF Ordinal
  <2>2. worker' = [worker EXCEPT ![w] = Set("decode", next_segment, me.from, me.to, me.index)]
    BY <1>6 DEF ClaimSegment
  <2> QED BY <1>1, <1>2, <1>3, <2>1, <2>2
<1>14. DecodeSegment(w) => Becomes(w, "claim", None, me.from, me.to, me.index)
  BY <1>1, <1>2, <1>3, <1>4, <1>6 DEF DecodeSegment
<1>15. DecodeFails(w) => Becomes(w, "thrown", me.ordinal, me.from, me.to, me.index)
  BY <1>3, <1>9 DEF DecodeFails, Thrown
<1>16. FinishBatch(w) => Becomes(w, "claim", None, 0, 0, me.index)
  BY <1>1, <1>2, <1>3, <1>4, <1>8 DEF FinishBatch
<1>17. StartTailUnit(w) =>
         IF next_tail_unit > TailUnits
         THEN Becomes(w, "done", me.ordinal, me.from, me.to, me.index)
         ELSE Becomes(w, "unit", me.ordinal, me.from, me.to, FetchBatchBase + next_tail_unit)
  <2>1. CASE next_tail_unit > TailUnits
    BY <1>3, <1>9, <2>1 DEF StartTailUnit
  <2>2. CASE ~(next_tail_unit > TailUnits)
    BY <1>1, <1>2, <1>3, <1>4, <1>7, <2>2 DEF StartTailUnit
  <2> QED BY <2>1, <2>2
<1>18. FinishUnit(w) => Becomes(w, "scan", me.ordinal, me.from, me.to, me.index)
  BY <1>3, <1>9 DEF FinishUnit
<1>19. Interrupted(w) => Becomes(w, "thrown", me.ordinal, me.from, me.to, me.index)
  BY <1>3, <1>9 DEF Interrupted, Thrown
<1>20. Abandon(w) => Becomes(w, "left", me.ordinal, me.from, me.to, me.index)
  BY <1>3, <1>9 DEF Abandon
<1> QED BY <1>10, <1>11, <1>12, <1>13, <1>14, <1>15, <1>16, <1>17, <1>18, <1>19, <1>20, Zenon DEF me

-----------------------------------------------------------------------------
(* What a step of one worker leaves true for the others *)

\* Any step of a worker.
Act(w) == Step(w) \/ DecodeFails(w) \/ Interrupted(w) \/ Abandon(w)

\* What a step leaves true of what was handed out, decoded and scanned.
Grows(w) ==
    /\ QueueInv'
    /\ \A o, f : Claimed(o, f) => Claimed(o, f)'
    /\ failed => failed'
    /\ next_publish' \in Nat /\ next_segment' \in Nat
    /\ next_publish <= next_publish' /\ next_segment <= next_segment'
    /\ next_tail_unit' \in Nat /\ next_tail_unit <= next_tail_unit'
    /\ \A v \in Workers : v # w /\ Decodes(v) =>
         worker[v].ordinal \in (next_publish' .. next_segment' - 1) \ pending'

\* Every step lets the queue only grow.
LEMMA StepGrows ==
    ASSUME QueueInv, WorkersInv, NEW w \in Workers, Act(w)
    PROVE  Grows(w)
<1>0. /\ next_publish \in Nat /\ next_segment \in Nat /\ next_tail_unit \in Nat
      /\ worker \in [Workers -> WorkerRecord] /\ Segments \in Nat
      /\ next_publish <= next_segment
      /\ \A v \in Workers : Decodes(v) =>
           worker[v].ordinal \in (next_publish .. next_segment - 1) \ pending
  BY ReadyEntries, Constants DEF WorkersInv, QueueInv, ClaimInv
<1>1. CASE ClaimReady(w)
  <2>1. QueueInv' /\ \A o, f : Claimed(o, f) => Claimed(o, f)'
    BY <1>1, ClaimReadyQueue
  <2>2. UNCHANGED <<pending, next_publish, failed, next_segment, next_tail_unit>>
    BY <1>1 DEF ClaimReady
  <2> QED BY <1>0, <2>1, <2>2 DEF Grows
<1>2. CASE DecodeSegment(w)
  <2>1. Decodes(w) /\ UNCHANGED <<failed, next_segment, next_tail_unit>>
    BY <1>2 DEF DecodeSegment, Decodes
  <2>2. /\ QueueInv'
        /\ next_publish' \in next_publish .. next_segment
        /\ pending' = (pending \union {worker[w].ordinal}) \ (next_publish .. next_publish' - 1)
        /\ next_publish .. next_publish' - 1 \subseteq pending \union {worker[w].ordinal}
        /\ \A o, f : Claimed(o, f)' <=> Claimed(o, f)
    BY <1>0, <1>2, <2>1, DecodeSegmentQueue
  <2>3. ASSUME NEW v \in Workers, v # w, Decodes(v)
        PROVE  worker[v].ordinal \in (next_publish' .. next_segment' - 1) \ pending'
    <3>1. worker[v].ordinal # worker[w].ordinal
      BY <2>1, <2>3 DEF WorkersInv, ApartInv
    <3>2. worker[v].ordinal \in (next_publish .. next_segment - 1) \ pending
      BY <1>0, <2>3
    <3>3. worker[v].ordinal \notin pending \union {worker[w].ordinal}
      BY <3>1, <3>2
    <3>4. worker[v].ordinal \notin next_publish .. next_publish' - 1 /\ worker[v].ordinal \notin pending'
      BY <2>2, <3>3
    <3> QED BY <1>0, <2>1, <2>2, <3>2, <3>4
  <2> QED BY <1>0, <2>1, <2>2, <2>3 DEF Grows
<1>3. CASE ClaimSegment(w)
  <2>1. /\ UNCHANGED <<ready, pending, next_publish, failed, next_tail_unit>>
        /\ next_segment' = next_segment + 1 /\ next_segment < Segments
    BY <1>3 DEF ClaimSegment, Unclaimed
  <2>2. \A o, f : Claimed(o, f)' <=> Claimed(o, f)
    BY <2>1 DEF Claimed
  <2>3. QueueInv'
    <3>1. ReadyInv'
      BY <2>1 DEF QueueInv, ReadyInv
    <3>2. pending' \subseteq next_publish' + 1 .. next_segment' - 1
      BY <1>0, <2>1 DEF QueueInv
    <3> QED BY <1>0, <2>1, <3>1, <3>2 DEF QueueInv
  <2> QED BY <1>0, <2>1, <2>2, <2>3 DEF Grows
<1>4. CASE DecodeFails(w)
  <2>1. /\ UNCHANGED <<ready, pending, next_publish, next_segment, next_tail_unit>> /\ failed' = TRUE
    BY <1>4 DEF DecodeFails
  <2>2. \A o, f : Claimed(o, f)' <=> Claimed(o, f)
    BY <2>1 DEF Claimed
  <2>3. QueueInv'
    BY <2>1 DEF QueueInv, ReadyInv
  <2> QED BY <1>0, <2>1, <2>2, <2>3 DEF Grows
<1>5. CASE UNCHANGED queue /\ (next_tail_unit' = next_tail_unit \/ next_tail_unit' = next_tail_unit + 1)
  <2>1. /\ UNCHANGED <<ready, pending, next_publish, failed, next_segment>>
        /\ next_tail_unit' \in Nat /\ next_tail_unit <= next_tail_unit'
    BY <1>0, <1>5 DEF queue
  <2>2. \A o, f : Claimed(o, f)' <=> Claimed(o, f)
    BY <2>1 DEF Claimed
  <2>3. QueueInv'
    BY <2>1 DEF QueueInv, ReadyInv
  <2> QED BY <1>0, <2>1, <2>2, <2>3 DEF Grows
<1>6. \/ ClaimReady(w) \/ DecodeSegment(w) \/ ClaimSegment(w) \/ DecodeFails(w)
      \/ UNCHANGED queue /\ (next_tail_unit' = next_tail_unit \/ next_tail_unit' = next_tail_unit + 1)
  BY DEF Act, Step, Start, Exhausted, FinishBatch, StartTailUnit, FinishUnit, Interrupted, Abandon
<1> QED BY <1>1, <1>2, <1>3, <1>4, <1>5, <1>6

\* A worker that takes no step keeps its invariants.
LEMMA OthersKept ==
    ASSUME QueueInv, WorkersInv, NEW w \in Workers, Grows(w),
           NEW v \in Workers, v # w, worker'[v] = worker[v]
    PROVE  ClaimInv(v)' /\ IndexInv(v)'
<1>1. ClaimInv(v) /\ IndexInv(v) /\ next_tail_unit \in Nat /\ worker[v] \in WorkerRecord
  BY DEF WorkersInv
<1>2. (Holds(v)' <=> Holds(v)) /\ (Decodes(v)' <=> Decodes(v))
  BY DEF Holds, Decodes
<1>3. ClaimInv(v)'
  BY <1>1, <1>2 DEF ClaimInv, Grows, Decodes
<1>4. \A i : IndexClaimed(i) => IndexClaimed(i)'
  BY DEF IndexClaimed, Grows
<1>5. IndexInv(v)'
  <2>1. next_tail_unit' \in Nat /\ next_tail_unit <= next_tail_unit'
    BY DEF Grows
  <2>2. worker[v].index \in Int
    BY <1>1 DEF WorkerRecord
  <2> QED BY <1>1, <1>4, <2>1, <2>2, Constants DEF IndexInv
<1> QED BY <1>3, <1>5

\* The invariants of the workers follow from those of the one that steps.
LEMMA StepperSuffices ==
    ASSUME QueueInv, WorkersInv, NEW w \in Workers, Grows(w),
           NEW p, NEW o, NEW a, NEW b, NEW i, Becomes(w, p, o, a, b, i),
           ClaimInv(w)', IndexInv(w)',
           \A v \in Workers : v # w => ApartInv(v, w)'
    PROVE  WorkersInv'
<1>1. /\ \A v \in Workers : v # w => worker'[v] = worker[v]
      /\ worker' \in [Workers -> WorkerRecord] /\ next_tail_unit' \in Nat
  BY DEF Becomes, Grows
<1>2. \A v \in Workers : ClaimInv(v)' /\ IndexInv(v)'
  BY <1>1, OthersKept
<1>3. \A u, v \in Workers : ApartInv(u, v) <=> ApartInv(v, u)
  BY DEF ApartInv
<1>4. \A u, v \in Workers : ApartInv(u, v)' <=> ApartInv(v, u)'
  BY DEF ApartInv
<1>5. ASSUME NEW u \in Workers, NEW v \in Workers, u # v PROVE ApartInv(u, v)'
  <2>1. CASE u # w /\ v # w
    <3>1. ApartInv(u, v) /\ worker'[u] = worker[u] /\ worker'[v] = worker[v]
      BY <1>1, <1>5, <2>1 DEF WorkersInv
    <3> QED BY <3>1 DEF ApartInv, Holds, Decodes
  <2>2. CASE u = w
    BY <1>4, <1>5, <2>2
  <2>3. CASE v = w
    BY <1>5, <2>3
  <2> QED BY <2>1, <2>2, <2>3
<1> QED BY <1>1, <1>2, <1>5 DEF WorkersInv

-----------------------------------------------------------------------------
(* A step keeps the invariant of the workers *)

\* The last index of a worker that is asking for a batch is below the tail's.
LEMMA IndexBelowTail ==
    ASSUME NEW i, i = None \/ IndexClaimed(i)
    PROVE  i \in Int /\ i < FetchBatchBase
<1>1. CASE i = None
  BY <1>1, Constants
<1>2. CASE IndexClaimed(i)
  BY <1>2, BatchInSegment, Constants DEF IndexClaimed
<1> QED BY <1>1, <1>2

\* A step keeps the claims, the indexes and their being apart.
LEMMA StepWorkers ==
    ASSUME QueueInv, WorkersInv, NEW w \in Workers, Act(w)
    PROVE  WorkersInv'
<1> DEFINE me == worker[w]
<1>0. /\ Grows(w) /\ ClaimInv(w) /\ IndexInv(w) /\ me \in WorkerRecord
      /\ worker \in [Workers -> WorkerRecord]
      /\ next_tail_unit \in Nat /\ next_segment \in Nat
  BY StepGrows, ReadyEntries DEF WorkersInv
<1> USE <1>0, Constants
<1>1. /\ QueueInv' /\ next_tail_unit' \in Nat
      /\ me.index \in Int /\ me.from \in Nat /\ me.to \in Nat
      /\ \A i : IndexClaimed(i) => IndexClaimed(i)'
  BY DEF Grows, IndexClaimed, WorkerRecord
\* A step after which the worker holds nothing, decodes nothing and scans no unit.
<1>2. ASSUME NEW p \in {"claim", "scan", "done", "thrown"}, NEW o, NEW a, NEW b, NEW i,
             Becomes(w, p, o, a, b, i), ~(a < b),
             p # "thrown" => o = None,
             p = "thrown" /\ o # None => failed',
             p = "claim" => i = None \/ IndexClaimed(i),
             p = "scan" => i < FetchBatchBase + next_tail_unit',
             p = "done" => next_tail_unit' > TailUnits
      PROVE  WorkersInv'
  <2>1. /\ worker'[w].phase = p /\ worker'[w].ordinal = o /\ worker'[w].from = a
        /\ worker'[w].to = b /\ worker'[w].index = i
    BY <1>2 DEF Becomes
  <2>2. ~Holds(w)' /\ ~Decodes(w)' /\ p # "unit" /\ p # "fetch" /\ p # "init" /\ p # "decode"
    BY <1>2, <2>1 DEF Holds, Decodes
  <2>3. ClaimInv(w)'
    BY <1>2, <2>1, <2>2 DEF ClaimInv
  <2>4. IndexInv(w)'
    BY <1>1, <1>2, <2>1, <2>2 DEF IndexInv
  <2>5. \A v \in Workers : ApartInv(v, w)'
    BY <2>1, <2>2 DEF ApartInv
  <2> QED BY <1>2, <2>3, <2>4, <2>5, StepperSuffices
<1>3. CASE Start(w)
  <2> DEFINE p == IF next_probe_thread < MaxThreads THEN "claim" ELSE "scan"
  <2>1. /\ me.phase = "init" /\ next_tail_unit' = next_tail_unit
        /\ Becomes(w, p, me.ordinal, me.from, me.to, me.index)
    BY <1>3, Moves DEF Start
  <2>2. me.ordinal = None /\ me.index = None /\ ~(me.from < me.to)
    BY <2>1 DEF ClaimInv, IndexInv, Holds
  <2>3. me.index < FetchBatchBase + next_tail_unit
    BY <2>2
  <2>4. p \in {"claim", "scan", "done", "thrown"} /\ p # "done" /\ p # "thrown"
    OBVIOUS
  <2> HIDE DEF p
  <2> QED BY <1>2, <2>1, <2>2, <2>3, <2>4
<1>4. CASE ClaimReady(w)
  <2>0. PICK p, g : p = ready[1].ordinal /\ g = ready[1].next
    OBVIOUS
  <2> DEFINE end == BatchEnd(Candidates(p), g)
             index == BatchIndex(p, g)
  <2>1. /\ Becomes(w, "fetch", p, g, end, index)
        /\ p \in Ordinal /\ g \in Starts(Candidates(p)) /\ Claimed(p, g)'
        /\ \A o, f : Claimed(o, f) => Before(o, f, p, g)
    <3>1. Becomes(w, "fetch", p, g, end, index)
      BY <1>4, <2>0, Moves
    <3>2. /\ p \in Ordinal /\ g \in Starts(Candidates(p)) /\ Claimed(p, g)'
          /\ \A o, f : Claimed(o, f) => Before(o, f, p, g)
      BY <1>4, <2>0, ClaimReadyQueue
    <3> QED BY <3>1, <3>2
  <2>2. g \in Nat /\ end \in Nat /\ g < end /\ index \in Int
    <3>1. g \in Nat /\ end \in g + 1 .. Len(Candidates(p)) /\ index \in 0 .. FetchBatchBase - 1
      BY <2>1, BatchInSegment
    <3> HIDE DEF end, index
    <3> QED BY <3>1
  <2> HIDE DEF end, index
  <2>3. /\ worker'[w].phase = "fetch" /\ worker'[w].ordinal = p /\ worker'[w].from = g
        /\ worker'[w].to = end /\ worker'[w].index = index
        /\ \A v \in Workers : v # w => worker'[v] = worker[v]
    BY <2>1 DEF Becomes
  <2>4. Holds(w)' /\ ~Decodes(w)'
    BY <2>2, <2>3 DEF Holds, Decodes
  <2>5. ClaimInv(w)'
    BY <2>1, <2>3, <2>4 DEF ClaimInv, index, end
  <2>6. IndexInv(w)'
    BY <2>3 DEF IndexInv
  <2>7. ASSUME NEW v \in Workers, v # w PROVE ApartInv(v, w)'
    <3>1. ~Decodes(w)' /\ worker'[w].phase # "unit"
      BY <2>3, <2>4
    <3>2. ASSUME Holds(v)' PROVE worker'[v].index # worker'[w].index
      <4>1. Holds(v) /\ worker'[v].index = worker[v].index
        BY <2>3, <2>7, <3>2 DEF Holds
      <4>2. /\ Claimed(worker[v].ordinal, worker[v].from)
            /\ worker[v].index = BatchIndex(worker[v].ordinal, worker[v].from)
        BY <4>1 DEF WorkersInv, ClaimInv
      <4> DEFINE o == worker[v].ordinal
                 f == worker[v].from
      <4>3. o \in Ordinal /\ f \in Starts(Candidates(o)) /\ Before(o, f, p, g)
        BY <2>1, <4>2 DEF Claimed
      <4> HIDE DEF o, f
      <4>4. BatchIndex(o, f) < BatchIndex(p, g) /\ BatchIndex(o, f) \in Int
        BY <2>1, <4>3, BatchesAscend, BatchInSegment
      <4> QED BY <2>2, <2>3, <4>1, <4>2, <4>4 DEF o, f, index
    <3> QED BY <3>1, <3>2 DEF ApartInv
  <2> QED BY <2>1, <2>5, <2>6, <2>7, StepperSuffices
<1>5. CASE Exhausted(w)
  <2>1. /\ me.phase = "claim" /\ next_tail_unit' = next_tail_unit
        /\ Becomes(w, "scan", me.ordinal, me.from, me.to, me.index)
    BY <1>5, Moves DEF Exhausted
  <2>2. me.ordinal = None /\ ~(me.from < me.to) /\ me.index < FetchBatchBase
    BY <2>1, IndexBelowTail DEF ClaimInv, IndexInv, Holds
  <2>3. me.index < FetchBatchBase + next_tail_unit
    BY <1>1, <2>2
  <2> QED BY <1>2, <2>1, <2>2, <2>3
<1>6. CASE ClaimSegment(w)
  <2>1. /\ me.phase = "claim" /\ next_segment' = next_segment + 1 /\ next_segment < Segments
        /\ UNCHANGED <<pending, next_publish>>
        /\ Becomes(w, "decode", next_segment, me.from, me.to, me.index)
    BY <1>6, Moves DEF ClaimSegment, Unclaimed
  <2>2. ~(me.from < me.to)
    BY <2>1 DEF ClaimInv, Holds
  <2>3. /\ worker'[w].phase = "decode" /\ worker'[w].ordinal = next_segment
        /\ worker'[w].from = me.from /\ worker'[w].to = me.to /\ worker'[w].index = me.index
        /\ \A v \in Workers : v # w => worker'[v] = worker[v]
    BY <2>1 DEF Becomes
  <2>4. ~Holds(w)' /\ Decodes(w)'
    BY <2>2, <2>3 DEF Holds, Decodes
  <2>5. next_segment \in (next_publish .. next_segment' - 1) \ pending
    BY <2>1, ReadyEntries DEF QueueInv
  <2>6. ClaimInv(w)'
    BY <2>1, <2>3, <2>4, <2>5 DEF ClaimInv
  <2>7. IndexInv(w)'
    BY <1>1, <2>1, <2>3 DEF IndexInv
  <2>8. ASSUME NEW v \in Workers, v # w PROVE ApartInv(v, w)'
    <3>1. Decodes(v)' => worker'[v].ordinal # next_segment
      <4> SUFFICES ASSUME Decodes(v)' PROVE worker'[v].ordinal # next_segment
        OBVIOUS
      <4>1. Decodes(v) /\ worker'[v].ordinal = worker[v].ordinal
        BY <2>3, <2>8 DEF Decodes
      <4>2. worker[v].ordinal \in next_publish .. next_segment - 1
        BY <4>1 DEF WorkersInv, ClaimInv
      <4> QED BY <4>1, <4>2, ReadyEntries
    <3> QED BY <2>3, <2>4, <3>1 DEF ApartInv
  <2> QED BY <2>1, <2>6, <2>7, <2>8, StepperSuffices
<1>7. CASE DecodeSegment(w)
  <2>1. /\ me.phase = "decode" /\ Becomes(w, "claim", None, me.from, me.to, me.index)
    BY <1>7, Moves DEF DecodeSegment
  <2>2. ~(me.from < me.to) /\ (me.index = None \/ IndexClaimed(me.index))
    BY <2>1 DEF ClaimInv, IndexInv, Holds
  <2> QED BY <1>2, <2>1, <2>2
<1>8. CASE DecodeFails(w)
  <2>1. /\ me.phase = "decode" /\ failed' = TRUE
        /\ Becomes(w, "thrown", me.ordinal, me.from, me.to, me.index)
    BY <1>8, Moves DEF DecodeFails
  <2>2. ~(me.from < me.to)
    BY <2>1 DEF ClaimInv, Holds
  <2> QED BY <1>2, <2>1, <2>2
<1>9. CASE FinishBatch(w)
  <2>1. me.phase = "fetch" /\ Becomes(w, "claim", None, 0, 0, me.index)
    BY <1>9, Moves DEF FinishBatch
  <2>2. IndexClaimed(me.index)
    BY <2>1 DEF ClaimInv, IndexClaimed, Claimed, Holds
  <2>3. ~(0 < 0)
    OBVIOUS
  <2> QED BY <1>2, <2>1, <2>2, <2>3
<1>10. CASE StartTailUnit(w)
  <2>1. me.phase = "scan" /\ next_tail_unit' = next_tail_unit + 1
    BY <1>10 DEF StartTailUnit
  <2>2. me.ordinal = None /\ ~(me.from < me.to)
    BY <2>1 DEF ClaimInv, Holds
  <2>3. CASE next_tail_unit > TailUnits
    <3>1. Becomes(w, "done", me.ordinal, me.from, me.to, me.index) /\ next_tail_unit' > TailUnits
      BY <1>10, <2>1, <2>3, Moves
    <3> QED BY <1>2, <2>2, <3>1
  <2>4. CASE ~(next_tail_unit > TailUnits)
    <3>1. Becomes(w, "unit", me.ordinal, me.from, me.to, FetchBatchBase + next_tail_unit)
      BY <1>10, <2>4, Moves
    <3>2. /\ worker'[w].phase = "unit" /\ worker'[w].ordinal = None
          /\ worker'[w].from = me.from /\ worker'[w].to = me.to
          /\ worker'[w].index = FetchBatchBase + next_tail_unit
          /\ \A v \in Workers : v # w => worker'[v] = worker[v]
      BY <2>2, <3>1 DEF Becomes
    <3>3. ~Holds(w)' /\ ~Decodes(w)'
      BY <2>2, <3>2 DEF Holds, Decodes
    <3>4. ClaimInv(w)'
      BY <3>2, <3>3 DEF ClaimInv
    <3>5. IndexInv(w)'
      BY <2>1, <2>4, <3>2 DEF IndexInv
    <3>6. ASSUME NEW v \in Workers, v # w PROVE ApartInv(v, w)'
      <4>1. worker'[v].phase = "unit" => worker'[v].index # worker'[w].index
        <5> SUFFICES ASSUME worker'[v].phase = "unit" PROVE worker'[v].index # worker'[w].index
          OBVIOUS
        <5>1. worker[v].phase = "unit" /\ worker'[v].index = worker[v].index
          BY <3>2, <3>6
        <5>2. worker[v].index - FetchBatchBase < next_tail_unit /\ worker[v].index \in Int
          BY <5>1 DEF WorkersInv, IndexInv, WorkerRecord
        <5> QED BY <3>2, <5>1, <5>2
      <4> QED BY <3>3, <4>1 DEF ApartInv
    <3> QED BY <3>1, <3>4, <3>5, <3>6, StepperSuffices
  <2> QED BY <2>3, <2>4
<1>11. CASE FinishUnit(w)
  <2>1. /\ me.phase = "unit" /\ next_tail_unit' = next_tail_unit
        /\ Becomes(w, "scan", me.ordinal, me.from, me.to, me.index)
    BY <1>11, Moves DEF FinishUnit
  <2>2. me.ordinal = None /\ ~(me.from < me.to)
    BY <2>1 DEF ClaimInv, Holds
  <2>3. me.index < FetchBatchBase + next_tail_unit
    BY <1>1, <2>1 DEF IndexInv
  <2> QED BY <1>2, <2>1, <2>2, <2>3
<1>12. CASE Interrupted(w)
  <2>1. /\ me.phase = "claim"
        /\ Becomes(w, "thrown", me.ordinal, me.from, me.to, me.index)
    BY <1>12, Moves DEF Interrupted
  <2>2. me.ordinal = None /\ ~(me.from < me.to)
    BY <2>1 DEF ClaimInv, Holds
  <2> QED BY <1>2, <2>1, <2>2
<1>13. CASE Abandon(w)
  <2>1. /\ me.phase # "decode" /\ Becomes(w, "left", me.ordinal, me.from, me.to, me.index)
    BY <1>13, Moves DEF Abandon, Running
  <2>2. /\ worker'[w].phase = "left" /\ worker'[w].ordinal = me.ordinal
        /\ worker'[w].from = me.from /\ worker'[w].to = me.to /\ worker'[w].index = me.index
        /\ \A v \in Workers : v # w => worker'[v] = worker[v]
    BY <2>1 DEF Becomes
  <2>3. (Holds(w)' <=> Holds(w)) /\ ~Decodes(w)'
    BY <2>2 DEF Holds, Decodes
  <2>4. ClaimInv(w)'
    BY <2>2, <2>3 DEF ClaimInv, Grows
  <2>5. IndexInv(w)'
    BY <2>2 DEF IndexInv
  <2>6. ASSUME NEW v \in Workers, v # w PROVE ApartInv(v, w)'
    <3>1. Holds(v)' /\ Holds(w)' => worker'[v].index # worker'[w].index
      BY <2>2, <2>3, <2>6 DEF WorkersInv, ApartInv, Holds
    <3> QED BY <2>2, <2>3, <3>1 DEF ApartInv
  <2> QED BY <2>1, <2>4, <2>5, <2>6, StepperSuffices
<1> QED BY <1>3, <1>4, <1>5, <1>6, <1>7, <1>8, <1>9, <1>10, <1>11, <1>12, <1>13 DEF Act, Step

-----------------------------------------------------------------------------
(* The segments being decoded and the memory they take *)

\* Workers decoding a segment.
Decoders == {w \in Workers : Decodes(w)}

\* Workers that took part in decoding or fetching and may hold scratch.
Fetchers ==
    {w \in Workers : \/ worker[w].phase \in {"claim", "decode", "fetch"}
                     \/ Holds(w)
                     \/ worker[w].phase = "thrown" /\ worker[w].ordinal # None}

\* A segment whose turn it is to publish is being decoded, or its decode failed.
\* With T fetch workers at most 2T - 2 of a decode scratch and a candidate
\* vector exist.
CountInv ==
    /\ decoding = Cardinality(Decoders)
    /\ next_probe_thread \in Nat
    /\ IsFiniteSet(Fetchers)
    /\ Cardinality(Fetchers) <= next_probe_thread /\ Cardinality(Fetchers) <= MaxThreads
    /\ \A o \in next_publish .. next_segment - 1 :
         failed \/ o \in pending \/ \E w \in Workers : Decodes(w) /\ worker[w].ordinal = o
    /\ Cardinality(Alive) + Cardinality(Charged)
         <= IF MaxThreads <= 1 THEN MaxThreads ELSE 2 * MaxThreads - 2

\* A number is in no interval that ends below it.
LEMMA NotBelow ==
    ASSUME NEW a \in Int, NEW b \in Int, NEW c \in Int, c >= b
    PROVE  c \notin a .. b - 1
OBVIOUS

\* A set with an element added.
LEMMA AtMostOneMore ==
    ASSUME NEW S, IsFiniteSet(S), NEW x
    PROVE  IsFiniteSet(S \union {x}) /\ Cardinality(S \union {x}) <= Cardinality(S) + 1
<1>1. Cardinality(S) \in Nat
  BY FS_CardinalityType
<1>2. CASE x \in S
  <2>1. S \union {x} = S
    BY <1>2
  <2>2. Cardinality(S) <= Cardinality(S) + 1
    BY <1>1
  <2> QED BY <2>1, <2>2
<1>3. CASE x \notin S
  BY <1>1, <1>3, FS_AddElement
<1> QED BY <1>2, <1>3

\* The vectors alive are of admitted segments, finitely many.
LEMMA AliveFinite ==
    ASSUME QueueInv, WorkersInv
    PROVE  /\ IsFiniteSet(Alive) /\ Cardinality(Alive) \in Nat
           /\ IsFiniteSet(pending) /\ Cardinality(pending) \in Nat
<1>1. Alive \subseteq Ordinal /\ pending \subseteq Ordinal
  <2>1. pending \subseteq Ordinal
    BY ReadyEntries DEF QueueInv, Ordinal
  <2>2. \A k \in DOMAIN ready : ready[k].ordinal \in Ordinal
    BY ReadyEntries
  <2>3. \A w \in Workers : worker[w].from < worker[w].to => worker[w].ordinal \in Ordinal
    BY DEF WorkersInv, ClaimInv, Claimed, Holds
  <2> QED BY <2>1, <2>2, <2>3 DEF Alive
<1>2. IsFiniteSet(Ordinal)
  BY Constants, FS_Interval DEF Ordinal
<1> QED BY <1>1, <1>2, FS_Subset, FS_CardinalityType

\* Who decodes has scratch charged; who has scratch charged fetches.
LEMMA FetchersParts ==
    ASSUME CountInv
    PROVE  /\ Decoders \subseteq Charged /\ Charged \subseteq Fetchers
           /\ IsFiniteSet(Decoders) /\ IsFiniteSet(Charged)
           /\ Cardinality(Decoders) \in Nat /\ Cardinality(Charged) \in Nat
           /\ Cardinality(Fetchers) \in Nat
           /\ Cardinality(Charged) <= MaxThreads
<1>1. Decoders \subseteq Charged /\ Charged \subseteq Fetchers /\ Decoders \subseteq Fetchers
  BY DEF Decoders, Charged, Fetchers, Decodes
<1>2. IsFiniteSet(Fetchers) /\ Cardinality(Fetchers) \in Nat
      /\ Cardinality(Fetchers) <= MaxThreads /\ MaxThreads \in Nat
  BY FS_CardinalityType, Constants DEF CountInv
<1>3. IsFiniteSet(Decoders) /\ IsFiniteSet(Charged) /\ Cardinality(Charged) <= Cardinality(Fetchers)
  BY <1>1, <1>2, FS_Subset
<1> QED BY <1>1, <1>2, <1>3, FS_CardinalityType

\* The workers holding batches are no fewer than the segments they hold of.
HeldOrdinals == {worker[w].ordinal : w \in {v \in Workers : Holds(v)}}

\* There are no more of them than holders.
LEMMA HeldOrdinalsFew ==
    ASSUME NEW H, IsFiniteSet(H), H = {v \in Workers : Holds(v)}
    PROVE  IsFiniteSet(HeldOrdinals) /\ Cardinality(HeldOrdinals) <= Cardinality(H)
<1> DEFINE h == [w \in H |-> worker[w].ordinal]
<1>1. h \in Surjection(H, HeldOrdinals)
  BY DEF Surjection, HeldOrdinals
<1> QED BY <1>1, FS_Surjection

\* A segment is claimed for decoding only if its scratch and vector still fit.
LEMMA ClaimFits ==
    ASSUME QueueInv, WorkersInv, CountInv, NEW w \in Workers, ClaimSegment(w)
    PROVE  Cardinality(Alive) + Cardinality(Charged) + 1
             <= IF MaxThreads <= 1 THEN MaxThreads ELSE 2 * MaxThreads - 2
<1> DEFINE H == {v \in Workers : Holds(v)}
           D == Decoders
<1>1. /\ worker[w].phase = "claim" /\ ready = <<>> /\ ~failed
      /\ decoding + Cardinality(pending) < MaxThreads /\ next_segment < Segments
  BY DEF ClaimSegment, InFlight, Unclaimed
<1>2. Charged = D
  BY <1>1 DEF WorkersInv, ClaimInv, Charged, Decoders, Decodes
<1>3. Alive = pending \union HeldOrdinals
  <2>1. {ready[k].ordinal : k \in DOMAIN ready} = {}
    BY <1>1
  <2> QED BY <2>1 DEF Alive, HeldOrdinals, Holds
<1>4. /\ H \subseteq Fetchers /\ D \subseteq Fetchers /\ w \in Fetchers
      /\ w \notin H /\ w \notin D /\ H \cap D = {}
  BY <1>1 DEF Fetchers, Decoders, Decodes, WorkersInv, ClaimInv
<1>5. /\ IsFiniteSet(H) /\ IsFiniteSet(D) /\ Cardinality(H) \in Nat /\ Cardinality(D) \in Nat
      /\ Cardinality(H) + Cardinality(D) + 1 <= MaxThreads
  <2> HIDE DEF H, D
  <2>1. IsFiniteSet(Fetchers) /\ Cardinality(Fetchers) <= MaxThreads
    BY DEF CountInv
  <2>2. IsFiniteSet(H) /\ IsFiniteSet(D)
    BY <1>4, <2>1, FS_Subset
  <2>3. Cardinality(H \cap D) = 0
    BY <1>4, FS_EmptySet
  <2>4. IsFiniteSet(H \union D) /\ Cardinality(H \union D) = Cardinality(H) + Cardinality(D)
        /\ Cardinality(H) \in Nat /\ Cardinality(D) \in Nat
    <3>1. /\ IsFiniteSet(H \union D)
          /\ Cardinality(H \union D) = Cardinality(H) + Cardinality(D) - Cardinality(H \cap D)
      BY <2>2, FS_Union
    <3>2. Cardinality(H) \in Nat /\ Cardinality(D) \in Nat
      BY <2>2, FS_CardinalityType
    <3> QED BY <2>3, <3>1, <3>2
  <2>5. /\ IsFiniteSet((H \union D) \union {w})
        /\ Cardinality((H \union D) \union {w}) = Cardinality(H) + Cardinality(D) + 1
    BY <1>4, <2>4, FS_AddElement
  <2>6. (H \union D) \union {w} \subseteq Fetchers
    BY <1>4
  <2>7. Cardinality((H \union D) \union {w}) <= Cardinality(Fetchers)
    BY <2>1, <2>6, FS_Subset
  <2> QED BY <2>1, <2>2, <2>4, <2>5, <2>7, FS_CardinalityType, Constants
<1>6. Cardinality(D) + Cardinality(pending) < MaxThreads /\ Cardinality(pending) \in Nat
  BY <1>1, AliveFinite DEF CountInv
<1>7. Cardinality(D) = 0 => Cardinality(pending) = 0
  <2> SUFFICES ASSUME Cardinality(D) = 0 PROVE Cardinality(pending) = 0
    OBVIOUS
  <2>1. D = {}
    <3> HIDE DEF D
    <3> QED BY <1>5, FS_EmptySet
  <2>2. \A o \in next_publish .. next_segment - 1 : o \in pending
    BY <1>1, <2>1 DEF CountInv, Decoders
  <2>3. next_publish = next_segment
    <3>1. next_publish \in Nat /\ next_segment \in Nat /\ next_publish <= next_segment
          /\ next_publish \notin pending
      BY ReadyEntries DEF QueueInv
    <3>2. next_publish < next_segment => next_publish \in next_publish .. next_segment - 1
      BY <3>1
    <3> QED BY <2>2, <3>1, <3>2
  <2>4. pending = {}
    BY <2>3, ReadyEntries DEF QueueInv
  <2> QED BY <2>4, FS_EmptySet
<1>8. Cardinality(Alive) <= Cardinality(pending) + Cardinality(H) /\ Cardinality(Alive) \in Nat
  <2>1. IsFiniteSet(HeldOrdinals) /\ Cardinality(HeldOrdinals) <= Cardinality(H)
        /\ Cardinality(HeldOrdinals) \in Nat
    <3>1. IsFiniteSet(HeldOrdinals) /\ Cardinality(HeldOrdinals) <= Cardinality(H)
      BY <1>5, HeldOrdinalsFew
    <3> QED BY <3>1, FS_CardinalityType
  <2> HIDE DEF H
  <2>2. IsFiniteSet(pending) /\ IsFiniteSet(pending \cap HeldOrdinals)
    BY <2>1, AliveFinite, FS_Intersection
  <2>3. Cardinality(pending \union HeldOrdinals)
          = Cardinality(pending) + Cardinality(HeldOrdinals) - Cardinality(pending \cap HeldOrdinals)
    BY <2>1, <2>2, FS_Union
  <2>4. Cardinality(pending \cap HeldOrdinals) \in Nat
    BY <2>2, FS_CardinalityType
  <2> QED BY <1>3, <1>5, <1>6, <2>1, <2>3, <2>4, AliveFinite
<1> HIDE DEF H, D
<1> QED BY <1>2, <1>5, <1>6, <1>7, <1>8, Constants

\* A step that claims no segment makes no more vectors than it gives up scratch.
LEMMA StepAlive ==
    ASSUME QueueInv, WorkersInv, CountInv, NEW w \in Workers, Act(w), ~ClaimSegment(w)
    PROVE  \/ Alive' \subseteq Alive /\ Charged' \subseteq Charged
           \/ /\ DecodeSegment(w) /\ w \in Charged /\ Charged' \subseteq Charged \ {w}
              /\ Alive' \subseteq Alive \union {worker[w].ordinal}
<1> DEFINE me == worker[w]
<1>0. /\ ClaimInv(w) /\ worker \in [Workers -> WorkerRecord] /\ next_tail_unit \in Nat
      /\ next_segment \in Nat
  BY ReadyEntries DEF WorkersInv
<1>1. CASE ClaimReady(w)
  <2>0. PICK p, g : p = ready[1].ordinal /\ g = ready[1].next
    OBVIOUS
  <2>1. /\ Becomes(w, "fetch", p, g, BatchEnd(Candidates(p), g), BatchIndex(p, g))
        /\ UNCHANGED pending
    BY <1>0, <1>1, <2>0, Moves DEF ClaimReady
  <2>2. \A v \in Workers : v # w => worker'[v] = worker[v]
    BY <2>1 DEF Becomes
  <2>3. Charged' \subseteq Charged
    BY <2>1, <2>2 DEF Charged, Becomes
  <2>4. 1 \in DOMAIN ready
    BY <1>1, ReadyEntries DEF ClaimReady
  <2>5. \A k \in DOMAIN ready' : \E l \in DOMAIN ready : ready'[k].ordinal = ready[l].ordinal
    <3> DEFINE C == Candidates(Head(ready).ordinal)
               end == BatchEnd(C, Head(ready).next)
    <3>1. ready' = (IF end >= Len(C) THEN Tail(ready) ELSE [ready EXCEPT ![1].next = end])
          /\ ready # <<>>
      BY <1>1 DEF ClaimReady
    <3>2. ready \in Seq([ordinal : Ordinal, next : Nat])
      BY DEF QueueInv, ReadyInv
    <3> HIDE DEF C, end
    <3>3. CASE ready' = Tail(ready)
      <4>1. /\ DOMAIN ready' = 1 .. Len(ready) - 1 /\ DOMAIN ready = 1 .. Len(ready)
            /\ \A k \in 1 .. Len(ready) - 1 : ready'[k] = ready[k + 1]
            /\ Len(ready) \in Nat
        BY <3>1, <3>2, <3>3, SeqTail, ElementOfSeq
      <4> QED BY <4>1
    <3>4. CASE ready' = [ready EXCEPT ![1].next = end]
      <4>1. DOMAIN ready' = DOMAIN ready
        BY <3>4
      <4>2. \A k \in DOMAIN ready : ready'[k].ordinal = ready[k].ordinal
        <5> TAKE k \in DOMAIN ready
        <5> DEFINE Entry == [ordinal : Ordinal, next : Nat]
        <5>0. ready \in Seq(Entry)
          BY <3>2
        <5>1. ready[1] \in Entry
          <6> HIDE DEF Entry
          <6> QED BY <2>4, <5>0, ElementOfSeq
        <5>2. CASE k = 1
          <6>1. ready'[1] = [ready[1] EXCEPT !.next = end]
            BY <2>4, <3>4
          <6>2. [ready[1] EXCEPT !.next = end].ordinal = ready[1].ordinal
            BY <5>1
          <6> QED BY <5>2, <6>1, <6>2
        <5>3. CASE k # 1
          BY <3>4, <5>3
        <5> QED BY <5>2, <5>3
      <4> QED BY <4>1, <4>2
    <3> QED BY <3>1, <3>3, <3>4
  <2>6. \A v \in Workers : worker'[v].from < worker'[v].to =>
          \/ worker'[v].ordinal = ready[1].ordinal
          \/ worker[v].from < worker[v].to /\ worker'[v].ordinal = worker[v].ordinal
    BY <2>0, <2>1, <2>2 DEF Becomes
  <2>7. Alive' \subseteq Alive
    BY <2>1, <2>4, <2>5, <2>6 DEF Alive
  <2> QED BY <2>3, <2>7
<1>2. CASE DecodeSegment(w)
  <2>1. Decodes(w) /\ Becomes(w, "claim", None, me.from, me.to, me.index)
    BY <1>0, <1>2, Moves DEF DecodeSegment, Decodes
  <2>2. ~(me.from < me.to)
    BY <1>0, <2>1 DEF ClaimInv, Holds, Decodes
  <2>3. w \in Charged /\ Charged' \subseteq Charged \ {w}
    BY <2>1 DEF Charged, Decodes, Becomes
  <2>4. /\ next_publish' \in next_publish .. next_segment
        /\ pending' = (pending \union {worker[w].ordinal}) \ (next_publish .. next_publish' - 1)
        /\ next_publish .. next_publish' - 1 \subseteq pending \union {worker[w].ordinal}
        /\ \A k \in DOMAIN ready' : \/ ready'[k].ordinal \in next_publish .. next_publish' - 1
                                    \/ \E l \in DOMAIN ready : ready'[k].ordinal = ready[l].ordinal
    BY <1>0, <1>2, <2>1, DecodeSegmentQueue DEF ClaimInv
  <2>5. \A v \in Workers : worker'[v].from < worker'[v].to =>
          worker[v].from < worker[v].to /\ worker'[v].ordinal = worker[v].ordinal
    BY <2>1, <2>2 DEF Becomes
  <2>6. Alive' \subseteq Alive \union {me.ordinal}
    BY <2>4, <2>5 DEF Alive
  <2> QED BY <1>2, <2>3, <2>6
\* Every other step leaves the queue's vectors, and holders only let go.
<1>3. ASSUME UNCHANGED <<ready, pending>>, NEW p, NEW o, NEW a, NEW b, NEW i,
             Becomes(w, p, o, a, b, i), a < b => me.from < me.to /\ o = me.ordinal,
             p # "decode", p = "thrown" /\ o # None => w \in Charged
      PROVE  Alive' \subseteq Alive /\ Charged' \subseteq Charged
  <2>1. \A v \in Workers : v # w => worker'[v] = worker[v]
    BY <1>3 DEF Becomes
  <2>2. worker'[w].phase = p /\ worker'[w].ordinal = o /\ worker'[w].from = a /\ worker'[w].to = b
    BY <1>3 DEF Becomes
  <2>3. \A v \in Workers : worker'[v].from < worker'[v].to =>
          worker[v].from < worker[v].to /\ worker'[v].ordinal = worker[v].ordinal
    BY <1>3, <2>1, <2>2
  <2>4. Alive' \subseteq Alive
    BY <1>3, <2>3 DEF Alive
  <2>5. \A v \in Workers : v \in Charged' => v \in Charged
    BY <1>3, <2>1, <2>2 DEF Charged
  <2>6. Charged' \subseteq Charged
    BY <2>5 DEF Charged
  <2> QED BY <2>4, <2>6
<1>4. CASE Start(w)
  <2>1. UNCHANGED <<ready, pending>>
        /\ Becomes(w, IF next_probe_thread < MaxThreads THEN "claim" ELSE "scan",
                   me.ordinal, me.from, me.to, me.index)
    BY <1>0, <1>4, Moves DEF Start, queue
  <2> DEFINE p == IF next_probe_thread < MaxThreads THEN "claim" ELSE "scan"
  <2>2. p # "decode" /\ p # "thrown"
    OBVIOUS
  <2> HIDE DEF p
  <2> QED BY <1>3, <2>1, <2>2 DEF p
<1>5. CASE Exhausted(w)
  <2>1. UNCHANGED <<ready, pending>> /\ Becomes(w, "scan", me.ordinal, me.from, me.to, me.index)
    BY <1>0, <1>5, Moves DEF Exhausted, queue
  <2> QED BY <1>3, <2>1
<1>6. CASE DecodeFails(w)
  <2>1. UNCHANGED <<ready, pending>> /\ Becomes(w, "thrown", me.ordinal, me.from, me.to, me.index)
        /\ w \in Charged
    BY <1>0, <1>6, Moves DEF DecodeFails, Charged
  <2> QED BY <1>3, <2>1
<1>7. CASE FinishBatch(w)
  <2>1. UNCHANGED <<ready, pending>> /\ ~(0 < 0)
    BY <1>7 DEF FinishBatch, queue
  <2>2. Becomes(w, "claim", None, 0, 0, me.index)
    BY <1>0, <1>7, Moves
  <2> QED BY <1>3, <2>1, <2>2
<1>8. CASE StartTailUnit(w)
  <2>1. UNCHANGED <<ready, pending>>
    BY <1>8 DEF StartTailUnit, queue
  <2>2. \/ Becomes(w, "done", me.ordinal, me.from, me.to, me.index)
        \/ Becomes(w, "unit", me.ordinal, me.from, me.to, FetchBatchBase + next_tail_unit)
    BY <1>0, <1>8, Moves
  <2>3. CASE Becomes(w, "done", me.ordinal, me.from, me.to, me.index)
    BY <1>3, <2>1, <2>3
  <2>4. CASE Becomes(w, "unit", me.ordinal, me.from, me.to, FetchBatchBase + next_tail_unit)
    BY <1>3, <2>1, <2>4
  <2> QED BY <2>2, <2>3, <2>4
<1>9. CASE FinishUnit(w)
  <2>1. UNCHANGED <<ready, pending>> /\ Becomes(w, "scan", me.ordinal, me.from, me.to, me.index)
    BY <1>0, <1>9, Moves DEF FinishUnit, queue
  <2> QED BY <1>3, <2>1
<1>10. CASE Interrupted(w)
  <2>1. UNCHANGED <<ready, pending>> /\ Becomes(w, "thrown", me.ordinal, me.from, me.to, me.index)
        /\ me.ordinal = None
    BY <1>0, <1>10, Moves DEF Interrupted, queue, ClaimInv
  <2> QED BY <1>3, <2>1
<1>11. CASE Abandon(w)
  <2>1. UNCHANGED <<ready, pending>> /\ Becomes(w, "left", me.ordinal, me.from, me.to, me.index)
    BY <1>0, <1>11, Moves DEF Abandon, queue
  <2> QED BY <1>3, <2>1
<1> QED BY <1>1, <1>2, <1>4, <1>5, <1>6, <1>7, <1>8, <1>9, <1>10, <1>11 DEF Act, Step

\* A step keeps the counts and their bounds.
LEMMA StepCounts ==
    ASSUME QueueInv, WorkersInv, CountInv, NEW w \in Workers, Act(w)
    PROVE  CountInv'
<1> DEFINE me == worker[w]
           Bound == IF MaxThreads <= 1 THEN MaxThreads ELSE 2 * MaxThreads - 2
<1>0. /\ ClaimInv(w) /\ worker \in [Workers -> WorkerRecord] /\ next_tail_unit \in Nat
      /\ next_segment \in Nat /\ Grows(w) /\ QueueInv' /\ WorkersInv' /\ next_probe_thread \in Nat
  BY ReadyEntries, StepGrows, StepWorkers DEF WorkersInv, Grows, CountInv
<1>1. \E p, o, a, b, i : Becomes(w, p, o, a, b, i)
  BY <1>0, Moves DEF Act, Step
<1>2. \A v \in Workers : v # w => worker'[v] = worker[v]
  BY <1>1 DEF Becomes
<1>3. IsFiniteSet(Decoders) /\ decoding = Cardinality(Decoders) /\ IsFiniteSet(Fetchers)
      /\ Cardinality(Fetchers) <= next_probe_thread /\ Cardinality(Fetchers) <= MaxThreads
      /\ Cardinality(Fetchers) \in Nat /\ MaxThreads \in Nat
  BY FetchersParts, Constants DEF CountInv
<1>4. decoding' = Cardinality(Decoders')
  <2>1. CASE ClaimSegment(w)
    <3>1. decoding' = decoding + 1 /\ ~Decodes(w) /\ Decodes(w)'
      BY <1>0, <2>1, Moves DEF ClaimSegment, Decodes, Becomes
    <3>2. Decoders' = Decoders \union {w} /\ w \notin Decoders
      BY <1>2, <3>1 DEF Decoders, Decodes
    <3> QED BY <1>3, <3>1, <3>2, FS_AddElement
  <2>2. CASE DecodeSegment(w) \/ DecodeFails(w)
    <3>1. decoding' = decoding - 1 /\ Decodes(w) /\ ~Decodes(w)'
      BY <1>0, <2>2, Moves DEF DecodeSegment, DecodeFails, Decodes, Becomes
    <3>2. Decoders' = Decoders \ {w} /\ w \in Decoders
      BY <1>2, <3>1 DEF Decoders, Decodes
    <3> QED BY <1>3, <3>1, <3>2, FS_RemoveElement
  <2>3. CASE ~ClaimSegment(w) /\ ~DecodeSegment(w) /\ ~DecodeFails(w)
    <3>1. decoding' = decoding
      BY <2>3 DEF Act, Step, Start, ClaimReady, Exhausted, FinishBatch, StartTailUnit, FinishUnit,
                  Interrupted, Abandon, queue
    <3>2. Decodes(w)' <=> Decodes(w)
      <4>1. ~Decodes(w)
        BY <2>3 DEF Act, Step, Start, ClaimReady, Exhausted, FinishBatch, StartTailUnit, FinishUnit,
                    Interrupted, Abandon, Decodes, Running
      <4>2. ~Decodes(w)'
        BY <1>0, <2>3, Moves DEF Act, Step, Decodes, Becomes
      <4> QED BY <4>1, <4>2
    <3>3. Decoders' = Decoders
      BY <1>2, <3>2 DEF Decoders, Decodes
    <3> QED BY <1>3, <3>1, <3>3
  <2> QED BY <2>1, <2>2, <2>3
<1>5. /\ next_probe_thread' \in Nat /\ IsFiniteSet(Fetchers')
      /\ Cardinality(Fetchers') <= next_probe_thread' /\ Cardinality(Fetchers') <= MaxThreads
  <2>1. CASE Start(w) /\ next_probe_thread < MaxThreads
    <3>1. next_probe_thread' = next_probe_thread + 1
      BY <2>1 DEF Start
    <3>2. Fetchers' \subseteq Fetchers \union {w}
      BY <1>2 DEF Fetchers, Holds
    <3>3. IsFiniteSet(Fetchers \union {w}) /\ Cardinality(Fetchers \union {w}) <= Cardinality(Fetchers) + 1
      BY <1>3, AtMostOneMore
    <3>4. IsFiniteSet(Fetchers') /\ Cardinality(Fetchers') <= Cardinality(Fetchers) + 1
          /\ Cardinality(Fetchers') \in Nat
      <4>1. IsFiniteSet(Fetchers') /\ Cardinality(Fetchers') <= Cardinality(Fetchers \union {w})
        BY <3>2, <3>3, FS_Subset
      <4>2. Cardinality(Fetchers') \in Nat /\ Cardinality(Fetchers \union {w}) \in Nat
        BY <3>3, <4>1, FS_CardinalityType
      <4> QED BY <1>3, <3>3, <4>1, <4>2
    <3> QED BY <1>0, <1>3, <2>1, <3>1, <3>4
  <2>2. CASE ~(Start(w) /\ next_probe_thread < MaxThreads)
    <3>1. next_probe_thread' \in Nat /\ next_probe_thread <= next_probe_thread'
      BY <1>0, <2>2 DEF Act, Step, Start, ClaimReady, Exhausted, ClaimSegment, DecodeSegment,
             DecodeFails, FinishBatch, StartTailUnit, FinishUnit, Interrupted, Abandon
    <3>2. w \in Fetchers' => w \in Fetchers
      <4>1. CASE Start(w)
        <5>1. /\ me.phase = "init" /\ ~(next_probe_thread < MaxThreads)
              /\ Becomes(w, "scan", me.ordinal, me.from, me.to, me.index)
          BY <1>0, <2>2, <4>1, Moves DEF Start
        <5> QED BY <1>0, <5>1 DEF Becomes, Fetchers, Holds, ClaimInv
      <4>2. CASE ClaimReady(w) \/ ClaimSegment(w) \/ DecodeSegment(w) \/ DecodeFails(w)
                 \/ FinishBatch(w) \/ Interrupted(w) \/ Exhausted(w)
        BY <4>2 DEF ClaimReady, ClaimSegment, DecodeSegment, DecodeFails, FinishBatch, Interrupted,
                    Exhausted, Fetchers
      <4>3. CASE StartTailUnit(w)
        <5>1. me.phase = "scan"
          BY <4>3 DEF StartTailUnit
        <5>2. \/ Becomes(w, "done", me.ordinal, me.from, me.to, me.index)
              \/ Becomes(w, "unit", me.ordinal, me.from, me.to, FetchBatchBase + next_tail_unit)
          BY <1>0, <4>3, Moves
        <5> QED BY <1>0, <5>1, <5>2 DEF Becomes, Fetchers, Holds, ClaimInv
      <4>4. CASE FinishUnit(w)
        <5>1. me.phase = "unit" /\ Becomes(w, "scan", me.ordinal, me.from, me.to, me.index)
          BY <1>0, <4>4, Moves DEF FinishUnit
        <5> QED BY <1>0, <5>1 DEF Becomes, Fetchers, Holds, ClaimInv
      <4>5. CASE Abandon(w)
        <5>1. Becomes(w, "left", me.ordinal, me.from, me.to, me.index)
          BY <1>0, <4>5, Moves
        <5> QED BY <1>0, <5>1 DEF Becomes, Fetchers, Holds, ClaimInv
      <4> QED BY <4>1, <4>2, <4>3, <4>4, <4>5 DEF Act, Step
    <3>3. Fetchers' \subseteq Fetchers
      BY <1>2, <3>2 DEF Fetchers, Holds
    <3>4. IsFiniteSet(Fetchers') /\ Cardinality(Fetchers') <= Cardinality(Fetchers)
      BY <1>3, <3>3, FS_Subset
    <3>5. Cardinality(Fetchers') \in Nat
      BY <3>4, FS_CardinalityType
    <3> QED BY <1>0, <1>3, <3>1, <3>4, <3>5
  <2> QED BY <2>1, <2>2
<1>6. ASSUME NEW o \in next_publish' .. next_segment' - 1
      PROVE  failed' \/ o \in pending' \/ \E v \in Workers : Decodes(v)' /\ worker'[v].ordinal = o
  <2>1. next_publish \in Nat /\ next_segment \in Nat /\ next_publish' \in Nat /\ next_segment' \in Nat
        /\ next_publish <= next_publish'
    BY <1>0, ReadyEntries DEF Grows
  <2>2. CASE ClaimSegment(w) /\ o = next_segment
    <3>1. Becomes(w, "decode", next_segment, me.from, me.to, me.index)
      BY <1>0, <2>2, Moves
    <3> QED BY <2>2, <3>1 DEF Becomes, Decodes
  <2>3. CASE ~(ClaimSegment(w) /\ o = next_segment)
    <3>1. o \in next_publish .. next_segment - 1
      <4>1. CASE ClaimSegment(w)
        BY <2>1, <2>3, <4>1 DEF ClaimSegment
      <4>2. CASE ~ClaimSegment(w)
        <5>1. next_segment' = next_segment
          BY <4>2 DEF Act, Step, Start, ClaimReady, Exhausted, DecodeSegment, PublishInOrder,
             DecodeFails, FinishBatch, StartTailUnit, FinishUnit, Interrupted, Abandon, queue
        <5> QED BY <2>1, <5>1
      <4> QED BY <4>1, <4>2
    <3>2. failed \/ o \in pending \/ \E v \in Workers : Decodes(v) /\ worker[v].ordinal = o
      BY <3>1 DEF CountInv
    <3>3. CASE failed
      BY <1>0, <3>3 DEF Grows
    <3>4. CASE o \in pending
      <4>1. CASE DecodeSegment(w)
        <5>1. /\ pending' = (pending \union {worker[w].ordinal}) \ (next_publish .. next_publish' - 1)
          BY <1>0, <4>1, DecodeSegmentQueue DEF DecodeSegment, ClaimInv, Decodes
        <5>2. o \in Int /\ o >= next_publish'
          BY <2>1
        <5>3. o \notin next_publish .. next_publish' - 1
          <6>1. PICK a \in Int, b \in Int : a = next_publish /\ b = next_publish'
            BY <2>1
          <6>2. o \in Int /\ o >= b
            BY <5>2, <6>1
          <6>3. o \notin a .. b - 1
            BY <6>2
          <6> QED BY <6>1, <6>3
        <5> QED BY <3>4, <5>1, <5>3
      <4>2. CASE ~DecodeSegment(w)
        <5>1. pending' = pending
          BY <4>2 DEF Act, Step, Start, ClaimReady, Exhausted, ClaimSegment,
             DecodeFails, FinishBatch, StartTailUnit, FinishUnit, Interrupted, Abandon, queue
        <5> QED BY <3>4, <5>1
      <4> QED BY <4>1, <4>2
    <3>5. ASSUME NEW v \in Workers, Decodes(v), worker[v].ordinal = o
          PROVE  failed' \/ o \in pending' \/ \E x \in Workers : Decodes(x)' /\ worker'[x].ordinal = o
      <4>1. CASE v # w
        <5>1. worker'[v] = worker[v]
          BY <1>2, <4>1
        <5> QED BY <3>5, <5>1 DEF Decodes
      <4>2. CASE v = w /\ DecodeSegment(w)
        <5>1. /\ pending' = (pending \union {worker[w].ordinal}) \ (next_publish .. next_publish' - 1)
          BY <1>0, <4>2, DecodeSegmentQueue DEF DecodeSegment, ClaimInv, Decodes
        <5>2. o \in Int /\ o >= next_publish'
          BY <2>1
        <5>3. o \notin next_publish .. next_publish' - 1
          <6>1. PICK a \in Int, b \in Int : a = next_publish /\ b = next_publish'
            BY <2>1
          <6>2. o \in Int /\ o >= b
            BY <5>2, <6>1
          <6>3. o \notin a .. b - 1
            BY <6>2
          <6> QED BY <6>1, <6>3
        <5> QED BY <3>5, <4>2, <5>1, <5>3
      <4>3. CASE v = w /\ DecodeFails(w)
        BY <4>3 DEF DecodeFails
      <4>4. CASE v = w /\ ~DecodeSegment(w) /\ ~DecodeFails(w)
        BY <3>5, <4>4 DEF Act, Step, Start, ClaimReady, Exhausted, ClaimSegment, FinishBatch,
             StartTailUnit, FinishUnit, Interrupted, Abandon, Decodes, Running
      <4> QED BY <4>1, <4>2, <4>3, <4>4
    <3> QED BY <3>2, <3>3, <3>4, <3>5
  <2> QED BY <2>2, <2>3
<1>7. Cardinality(Alive') + Cardinality(Charged') <= Bound
  <2>1. /\ Cardinality(Alive) + Cardinality(Charged) <= Bound
        /\ IsFiniteSet(Alive) /\ IsFiniteSet(Charged)
        /\ Cardinality(Alive) \in Nat /\ Cardinality(Charged) \in Nat /\ Bound \in Int
    BY <1>3, AliveFinite, FetchersParts DEF CountInv
  <2> HIDE DEF Bound
  <2>2. ASSUME NEW A, NEW C, NEW m \in Nat, NEW n \in Nat,
               Alive' \subseteq A, Charged' \subseteq C, IsFiniteSet(A), IsFiniteSet(C),
               Cardinality(A) <= m, Cardinality(C) <= n, m + n <= Bound
        PROVE  Cardinality(Alive') + Cardinality(Charged') <= Bound
    <3>1. IsFiniteSet(Alive') /\ Cardinality(Alive') <= Cardinality(A)
      BY <2>2, FS_Subset
    <3>2. IsFiniteSet(Charged') /\ Cardinality(Charged') <= Cardinality(C)
      BY <2>2, FS_Subset
    <3>3. Cardinality(A) \in Nat /\ Cardinality(C) \in Nat
      BY <2>2, FS_CardinalityType
    <3>4. Cardinality(Alive') \in Nat /\ Cardinality(Charged') \in Nat
      BY <3>1, <3>2, FS_CardinalityType
    <3> QED BY <2>1, <2>2, <3>1, <3>2, <3>3, <3>4
  <2>3. CASE ClaimSegment(w)
    <3>1. Cardinality(Alive) + Cardinality(Charged) + 1 <= Bound
      BY <2>3, ClaimFits DEF Bound
    <3>2. UNCHANGED <<ready, pending>> /\ me.phase = "claim"
          /\ Becomes(w, "decode", next_segment, me.from, me.to, me.index)
      BY <1>0, <2>3, Moves DEF ClaimSegment
    <3>3. ~(me.from < me.to)
      BY <1>0, <3>2 DEF ClaimInv, Holds
    <3>4. Alive' \subseteq Alive
      BY <1>2, <3>2, <3>3 DEF Alive, Becomes
    <3>5. Charged' \subseteq Charged \union {w}
      BY <1>2 DEF Charged
    <3>6. IsFiniteSet(Charged \union {w}) /\ Cardinality(Charged \union {w}) <= Cardinality(Charged) + 1
      BY <2>1, AtMostOneMore
    <3>7. Cardinality(Alive) + (Cardinality(Charged) + 1) <= Bound /\ Cardinality(Charged) + 1 \in Nat
          /\ Cardinality(Alive) <= Cardinality(Alive)
      BY <2>1, <3>1
    <3> QED BY <2>1, <2>2, <3>4, <3>5, <3>6, <3>7
  <2>4. CASE ~ClaimSegment(w)
    <3>1. CASE Alive' \subseteq Alive /\ Charged' \subseteq Charged
      <4>1. Cardinality(Alive) <= Cardinality(Alive) /\ Cardinality(Charged) <= Cardinality(Charged)
        BY <2>1
      <4> QED BY <2>1, <2>2, <3>1, <4>1
    <3>2. CASE /\ w \in Charged /\ Charged' \subseteq Charged \ {w}
               /\ Alive' \subseteq Alive \union {worker[w].ordinal}
      <4>1. IsFiniteSet(Charged \ {w}) /\ Cardinality(Charged \ {w}) = Cardinality(Charged) - 1
        BY <2>1, <3>2, FS_RemoveElement
      <4>2. /\ IsFiniteSet(Alive \union {worker[w].ordinal})
            /\ Cardinality(Alive \union {worker[w].ordinal}) <= Cardinality(Alive) + 1
        BY <2>1, AtMostOneMore
      <4>3. Cardinality(Charged \ {w}) \in Nat
        BY <4>1, FS_CardinalityType
      <4>4. /\ Cardinality(Alive) + 1 \in Nat /\ Cardinality(Charged) - 1 \in Nat
            /\ Cardinality(Charged \ {w}) <= Cardinality(Charged) - 1
            /\ (Cardinality(Alive) + 1) + (Cardinality(Charged) - 1) <= Bound
        BY <2>1, <4>1, <4>3
      <4> QED BY <2>2, <3>2, <4>1, <4>2, <4>4
    <3> QED BY <2>4, <3>1, <3>2, StepAlive
  <2> QED BY <2>3, <2>4
<1> QED BY <1>4, <1>5, <1>6, <1>7 DEF CountInv

-----------------------------------------------------------------------------
(* The rows emitted, and who still has rows to emit *)

\* The worker scans a tail unit.
Scans(w) == worker[w].phase = "unit"

\* What was emitted under an index is a batch that was handed out or a tail
\* unit that was taken.
EmittedBatch(i) ==
    \E o \in Ordinal : \E f \in Starts(Candidates(o)) :
      /\ Claimed(o, f) /\ i = BatchIndex(o, f)
      /\ output[i] = <<BatchRows(o, f, BatchEnd(Candidates(o), f))>>
EmittedUnit(i) ==
    /\ i - FetchBatchBase \in 0 .. TailUnits /\ i - FetchBatchBase < next_tail_unit
    /\ output[i] = <<UnitRows(i - FetchBatchBase)>>

OutputInv ==
    /\ DOMAIN output = Index
    /\ \A i \in Index : output[i] # <<>> =>
         /\ EmittedBatch(i) \/ EmittedUnit(i)
         /\ \A w \in Workers : Holds(w) \/ Scans(w) => worker[w].index # i

\* What was handed out or taken was emitted, or a worker has it; and what makes
\* the search fail is seen by the host.
ThoroughInv ==
    /\ failed => \E w \in Workers : worker[w].phase = "thrown"
    /\ \A o \in Ordinal : \A f \in Starts(Candidates(o)) : Claimed(o, f) =>
         \/ output[BatchIndex(o, f)] # <<>>
         \/ \E w \in Workers : Holds(w) /\ worker[w].index = BatchIndex(o, f)
    /\ \A u \in 0 .. TailUnits : u < next_tail_unit =>
         \/ output[FetchBatchBase + u] # <<>>
         \/ \E w \in Workers : worker[w].phase \in {"unit", "left"}
                               /\ worker[w].index = FetchBatchBase + u

\* Every batch was handed out.
HandedOut == ready = <<>> /\ next_publish = Segments

\* The first worker that started fetches: it goes on to the tail only when all
\* batches are handed out.
StartedBy(S) ==
    /\ IsFiniteSet(S) /\ Cardinality(S) = next_probe_thread
    /\ \A w \in S : worker[w].phase # "init"
    /\ \A w \in Workers \ S :
         worker[w].phase \in {"init", "left"} /\ worker[w].index = None /\ ~Holds(w)
    /\ MaxThreads > 0 /\ S # {} =>
         \E w \in S : worker[w].phase \in {"scan", "unit", "done"} => failed \/ HandedOut

StartedInv == \E S \in SUBSET Workers : StartedBy(S)

\* What a step does to what the workers have.
LEMMA StepHolds ==
    ASSUME QueueInv, WorkersInv, NEW w \in Workers, Act(w)
    PROVE  /\ \A v \in Workers : v # w => worker'[v] = worker[v]
           /\ Holds(w) /\ ~FinishBatch(w) => Holds(w)' /\ worker'[w].index = worker[w].index
           /\ Holds(w)' /\ ~ClaimReady(w) => Holds(w) /\ worker'[w].index = worker[w].index
           /\ ~Scans(w)' \/ StartTailUnit(w)
           /\ worker[w].phase = "unit" /\ ~FinishUnit(w) =>
                worker'[w].phase = "left" /\ worker'[w].index = worker[w].index
           /\ worker[w].phase \notin {"left", "thrown", "done"}
           /\ FinishBatch(w) \/ FinishUnit(w) \/ UNCHANGED output
<1> DEFINE me == worker[w]
<1>0. /\ worker \in [Workers -> WorkerRecord] /\ next_tail_unit \in Nat /\ next_segment \in Nat
      /\ ClaimInv(w)
  BY ReadyEntries DEF WorkersInv
<1>1. ASSUME NEW p, NEW o, NEW i, Becomes(w, p, o, me.from, me.to, i), i = me.index \/ ~Holds(w),
             p = "unit" => StartTailUnit(w), me.phase = "unit" => p = "left" \/ FinishUnit(w)
      PROVE  /\ \A v \in Workers : v # w => worker'[v] = worker[v]
             /\ Holds(w) => Holds(w)' /\ worker'[w].index = worker[w].index
             /\ Holds(w)' => Holds(w) /\ worker'[w].index = worker[w].index
             /\ ~Scans(w)' \/ StartTailUnit(w)
             /\ me.phase = "unit" /\ i = me.index /\ ~FinishUnit(w) =>
                  worker'[w].phase = "left" /\ worker'[w].index = worker[w].index
  BY <1>1 DEF Becomes, Holds, Scans
<1>2. CASE ClaimReady(w)
  <2>0. PICK p, g : p = ready[1].ordinal /\ g = ready[1].next
    OBVIOUS
  <2>1. Becomes(w, "fetch", p, g, BatchEnd(Candidates(p), g), BatchIndex(p, g))
    BY <1>0, <1>2, <2>0, Moves
  <2>2. me.phase = "claim" /\ ~Holds(w) /\ UNCHANGED output
    BY <1>0, <1>2 DEF ClaimReady, ClaimInv
  <2>3. ~Scans(w)'
    BY <2>1 DEF Becomes, Scans
  <2> QED BY <1>2, <2>1, <2>2, <2>3 DEF Becomes
<1>3. CASE FinishBatch(w)
  <2>1. Becomes(w, "claim", None, 0, 0, me.index)
    BY <1>0, <1>3, Moves
  <2>2. me.phase = "fetch" /\ ~(0 < 0)
    BY <1>3 DEF FinishBatch
  <2>3. ~Scans(w)' /\ ~Holds(w)'
    BY <2>1, <2>2 DEF Becomes, Scans, Holds
  <2> QED BY <1>3, <2>1, <2>2, <2>3 DEF Becomes
<1>4. CASE Start(w)
  <2> DEFINE p == IF next_probe_thread < MaxThreads THEN "claim" ELSE "scan"
  <2>1. Becomes(w, p, me.ordinal, me.from, me.to, me.index) /\ me.phase = "init" /\ UNCHANGED output
    BY <1>0, <1>4, Moves DEF Start
  <2>2. p # "unit"
    OBVIOUS
  <2> HIDE DEF p
  <2> QED BY <1>1, <2>1, <2>2
<1>5. CASE Exhausted(w)
  <2>1. Becomes(w, "scan", me.ordinal, me.from, me.to, me.index) /\ me.phase = "claim" /\ UNCHANGED output
    BY <1>0, <1>5, Moves DEF Exhausted
  <2> QED BY <1>1, <2>1
<1>6. CASE ClaimSegment(w)
  <2>1. Becomes(w, "decode", next_segment, me.from, me.to, me.index) /\ me.phase = "claim" /\ UNCHANGED output
    BY <1>0, <1>6, Moves DEF ClaimSegment
  <2> QED BY <1>1, <2>1
<1>7. CASE DecodeSegment(w)
  <2>1. Becomes(w, "claim", None, me.from, me.to, me.index) /\ me.phase = "decode" /\ UNCHANGED output
    BY <1>0, <1>7, Moves DEF DecodeSegment
  <2> QED BY <1>1, <2>1
<1>8. CASE DecodeFails(w)
  <2>1. Becomes(w, "thrown", me.ordinal, me.from, me.to, me.index) /\ me.phase = "decode" /\ UNCHANGED output
    BY <1>0, <1>8, Moves DEF DecodeFails
  <2> QED BY <1>1, <2>1
<1>9. CASE StartTailUnit(w)
  <2>1. me.phase = "scan" /\ UNCHANGED output /\ ~Holds(w)
    BY <1>0, <1>9 DEF StartTailUnit, ClaimInv
  <2>2. \/ Becomes(w, "done", me.ordinal, me.from, me.to, me.index)
        \/ Becomes(w, "unit", me.ordinal, me.from, me.to, FetchBatchBase + next_tail_unit)
    BY <1>0, <1>9, Moves
  <2>3. CASE Becomes(w, "done", me.ordinal, me.from, me.to, me.index)
    BY <1>1, <2>1, <2>3
  <2>4. CASE Becomes(w, "unit", me.ordinal, me.from, me.to, FetchBatchBase + next_tail_unit)
    BY <1>1, <1>9, <2>1, <2>4
  <2> QED BY <2>2, <2>3, <2>4
<1>10. CASE FinishUnit(w)
  <2>1. Becomes(w, "scan", me.ordinal, me.from, me.to, me.index) /\ me.phase = "unit"
    BY <1>0, <1>10, Moves DEF FinishUnit
  <2> QED BY <1>1, <1>10, <2>1
<1>11. CASE Interrupted(w)
  <2>1. Becomes(w, "thrown", me.ordinal, me.from, me.to, me.index) /\ me.phase = "claim" /\ UNCHANGED output
    BY <1>0, <1>11, Moves DEF Interrupted
  <2> QED BY <1>1, <2>1
<1>12. CASE Abandon(w)
  <2>1. Becomes(w, "left", me.ordinal, me.from, me.to, me.index) /\ UNCHANGED output
        /\ me.phase \notin {"left", "thrown", "done"}
    BY <1>0, <1>12, Moves DEF Abandon, Running
  <2> QED BY <1>1, <2>1
<1> QED BY <1>2, <1>3, <1>4, <1>5, <1>6, <1>7, <1>8, <1>9, <1>10, <1>11, <1>12 DEF Act, Step

-----------------------------------------------------------------------------
(* A step keeps the invariant of the output *)

\* What is emitted under an empty index.
LEMMA EmittedOnce ==
    ASSUME NEW i \in Index, NEW rows, DOMAIN output = Index, output[i] = <<>>, Emitted(i, rows)
    PROVE  /\ DOMAIN output' = Index /\ output'[i] = <<rows>>
           /\ \A j \in Index : j # i => output'[j] = output[j]
<1>1. output' = [output EXCEPT ![i] = Append(output[i], rows)]
  BY DEF Emitted
<1>2. Append(<<>>, rows) = <<rows>>
  OBVIOUS
<1> QED BY <1>1, <1>2

\* The indexes of batches lie below those of the tail units.
LEMMA IndexParts ==
    /\ \A i : IndexClaimed(i) => i \in Index /\ i < FetchBatchBase
    /\ \A u \in 0 .. TailUnits : FetchBatchBase + u \in Index /\ ~(FetchBatchBase + u < FetchBatchBase)
    /\ \A i : i - FetchBatchBase \in 0 .. TailUnits /\ i \in Int =>
         i = FetchBatchBase + (i - FetchBatchBase) /\ ~(i < FetchBatchBase) /\ i \in Index
    /\ \A i \in Index : i \in Int
<1>1. ASSUME NEW i, IndexClaimed(i) PROVE i \in Index /\ i < FetchBatchBase
  <2>1. i \in 0 .. FetchBatchBase - 1
    BY <1>1, BatchInSegment DEF IndexClaimed
  <2> QED BY <2>1, Constants DEF Index
<1> QED BY <1>1, Constants DEF Index

\* The batch or unit a worker has was emitted by nobody.
LEMMA TakenNotEmitted ==
    ASSUME QueueInv, WorkersInv, OutputInv, NEW w \in Workers,
           worker[w].phase = "fetch" \/ worker[w].phase = "unit"
    PROVE  /\ worker[w].index \in Index /\ output[worker[w].index] = <<>>
           /\ \A v \in Workers : v # w /\ (Holds(v) \/ Scans(v)) =>
                worker[v].index # worker[w].index
<1> DEFINE i == worker[w].index
<1>0. /\ \A v \in Workers : ClaimInv(v) /\ IndexInv(v) /\ worker[v].index \in Int
      /\ \A v \in Workers : v # w => ApartInv(v, w)
      /\ next_tail_unit \in Nat
  BY DEF WorkersInv, WorkerRecord
<1>1. \A v \in Workers : Holds(v) => worker[v].index < FetchBatchBase /\ worker[v].index \in Index
  <2>1. \A v \in Workers : Holds(v) => IndexClaimed(worker[v].index)
    BY <1>0 DEF ClaimInv, IndexClaimed, Claimed
  <2> QED BY <2>1, IndexParts
<1>2. \A v \in Workers : Scans(v) => ~(worker[v].index < FetchBatchBase) /\ worker[v].index \in Index
  <2>1. \A v \in Workers : Scans(v) => worker[v].index - FetchBatchBase \in 0 .. TailUnits
    BY <1>0 DEF IndexInv, Scans
  <2> QED BY <1>0, <2>1, IndexParts
<1>3. Holds(w) \/ Scans(w)
  BY <1>0 DEF ClaimInv, Scans
<1>4. i \in Index /\ output[i] = <<>>
  BY <1>1, <1>2, <1>3 DEF OutputInv
<1>5. ASSUME NEW v \in Workers, v # w, Holds(v) \/ Scans(v) PROVE worker[v].index # i
  <2>1. CASE Holds(v) /\ Holds(w)
    BY <1>0, <1>5, <2>1 DEF ApartInv
  <2>2. CASE Scans(v) /\ Scans(w)
    BY <1>0, <1>5, <2>2 DEF ApartInv, Scans
  <2>3. CASE Holds(v) /\ Scans(w)
    BY <1>1, <1>2, <2>3
  <2>4. CASE Scans(v) /\ Holds(w)
    BY <1>1, <1>2, <2>4
  <2> QED BY <1>3, <1>5, <2>1, <2>2, <2>3, <2>4
<1> QED BY <1>4, <1>5

\* A step emits only under the index of a batch or unit its worker had.
LEMMA StepOutput ==
    ASSUME QueueInv, WorkersInv, OutputInv, NEW w \in Workers, Act(w)
    PROVE  OutputInv'
<1> DEFINE me == worker[w]
<1>0. /\ worker \in [Workers -> WorkerRecord] /\ next_tail_unit \in Nat /\ next_segment \in Nat
      /\ ClaimInv(w) /\ IndexInv(w) /\ Grows(w) /\ DOMAIN output = Index
      /\ \A v \in Workers : v # w => worker'[v] = worker[v]
  BY ReadyEntries, StepGrows, StepHolds DEF WorkersInv, OutputInv
<1>1. \A v \in Workers : v # w => (Holds(v)' <=> Holds(v)) /\ (Scans(v)' <=> Scans(v))
  BY <1>0 DEF Holds, Scans
\* Nothing that was emitted stops to be of what was handed out.
<1>2. ASSUME NEW i \in Index, output'[i] = output[i], output[i] # <<>>
      PROVE  EmittedBatch(i)' \/ EmittedUnit(i)'
  <2>1. EmittedBatch(i) \/ EmittedUnit(i)
    BY <1>2 DEF OutputInv
  <2>2. CASE EmittedBatch(i)
    <3>1. PICK o, f :
            /\ o \in Ordinal /\ f \in Starts(Candidates(o))
            /\ Claimed(o, f) /\ i = BatchIndex(o, f)
            /\ output[i] = <<BatchRows(o, f, BatchEnd(Candidates(o), f))>>
      BY <2>2 DEF EmittedBatch
    <3>2. Claimed(o, f)'
      BY <1>0, <3>1 DEF Grows
    <3> QED BY <1>2, <3>1, <3>2 DEF EmittedBatch
  <2>3. CASE EmittedUnit(i)
    <3>1. next_tail_unit' \in Nat /\ next_tail_unit <= next_tail_unit'
      BY <1>0 DEF Grows
    <3>2. i - FetchBatchBase \in 0 .. TailUnits /\ i - FetchBatchBase < next_tail_unit
          /\ output[i] = <<UnitRows(i - FetchBatchBase)>>
      BY <2>3 DEF EmittedUnit
    <3>3. i - FetchBatchBase < next_tail_unit'
      BY <1>0, <3>1, <3>2
    <3> QED BY <1>2, <3>2, <3>3 DEF EmittedUnit
  <2> QED BY <2>1, <2>2, <2>3
<1>3. CASE FinishBatch(w) \/ FinishUnit(w)
  <2>0. PICK at : at = me.index
    OBVIOUS
  <2>1. /\ at \in Index /\ output[at] = <<>>
        /\ \A v \in Workers : v # w /\ (Holds(v) \/ Scans(v)) => worker[v].index # at
    BY <1>3, <2>0, TakenNotEmitted DEF FinishBatch, FinishUnit
  <2>2. ~Holds(w)' /\ ~Scans(w)'
    <3>1. CASE FinishBatch(w)
      <4>1. Becomes(w, "claim", None, 0, 0, me.index) /\ ~(0 < 0)
        BY <1>0, <3>1, Moves
      <4> QED BY <4>1 DEF Becomes, Holds, Scans
    <3>2. CASE FinishUnit(w)
      <4>1. Becomes(w, "scan", me.ordinal, me.from, me.to, me.index) /\ me.phase = "unit"
        BY <1>0, <3>2, Moves DEF FinishUnit
      <4> QED BY <1>0, <4>1 DEF Becomes, Holds, Scans, ClaimInv
    <3> QED BY <1>3, <3>1, <3>2
  <2>3. \E rows : /\ Emitted(at, rows)
                  /\ \/ /\ Claimed(me.ordinal, me.from) /\ at = BatchIndex(me.ordinal, me.from)
                        /\ rows = BatchRows(me.ordinal, me.from,
                                            BatchEnd(Candidates(me.ordinal), me.from))
                     \/ /\ at - FetchBatchBase \in 0 .. TailUnits
                        /\ at - FetchBatchBase < next_tail_unit
                        /\ rows = UnitRows(at - FetchBatchBase)
    BY <1>0, <1>3, <2>0 DEF FinishBatch, FinishUnit, ClaimInv, IndexInv
  <2>4. PICK rows : /\ Emitted(at, rows)
                    /\ \/ /\ Claimed(me.ordinal, me.from) /\ at = BatchIndex(me.ordinal, me.from)
                          /\ rows = BatchRows(me.ordinal, me.from,
                                              BatchEnd(Candidates(me.ordinal), me.from))
                       \/ /\ at - FetchBatchBase \in 0 .. TailUnits
                          /\ at - FetchBatchBase < next_tail_unit
                          /\ rows = UnitRows(at - FetchBatchBase)
    BY <2>3
  <2>5. /\ DOMAIN output' = Index /\ output'[at] = <<rows>>
        /\ \A j \in Index : j # at => output'[j] = output[j]
    BY <1>0, <2>1, <2>4, EmittedOnce
  <2>6. EmittedBatch(at)' \/ EmittedUnit(at)'
    <3>1. CASE /\ Claimed(me.ordinal, me.from) /\ at = BatchIndex(me.ordinal, me.from)
               /\ rows = BatchRows(me.ordinal, me.from, BatchEnd(Candidates(me.ordinal), me.from))
      <4>1. PICK o, f : o = me.ordinal /\ f = me.from
        OBVIOUS
      <4>2. Claimed(o, f)' /\ o \in Ordinal /\ f \in Starts(Candidates(o))
        BY <1>0, <3>1, <4>1 DEF Grows, Claimed
      <4> QED BY <2>5, <3>1, <4>1, <4>2 DEF EmittedBatch
    <3>2. CASE /\ at - FetchBatchBase \in 0 .. TailUnits
               /\ at - FetchBatchBase < next_tail_unit
               /\ rows = UnitRows(at - FetchBatchBase)
      <4>1. next_tail_unit' \in Nat /\ next_tail_unit <= next_tail_unit'
        BY <1>0 DEF Grows
      <4>2. at - FetchBatchBase < next_tail_unit' /\ at - FetchBatchBase \in 0 .. TailUnits
        BY <1>0, <3>2, <4>1
      <4> QED BY <2>5, <3>2, <4>2 DEF EmittedUnit
    <3> QED BY <2>4, <3>1, <3>2
  <2>7. ASSUME NEW i \in Index, output'[i] # <<>>
        PROVE  /\ EmittedBatch(i)' \/ EmittedUnit(i)'
               /\ \A v \in Workers : Holds(v)' \/ Scans(v)' => worker'[v].index # i
    <3>1. CASE i = at
      <4>1. EmittedBatch(i)' \/ EmittedUnit(i)'
        BY <2>6, <3>1 DEF EmittedBatch, EmittedUnit
      <4> QED BY <1>0, <1>1, <2>1, <2>2, <3>1, <4>1
    <3>2. CASE i # at
      <4>1. output'[i] = output[i] /\ output[i] # <<>>
        BY <2>5, <2>7, <3>2
      <4> QED BY <1>0, <1>1, <1>2, <2>2, <4>1 DEF OutputInv
    <3> QED BY <3>1, <3>2
  <2> QED BY <2>5, <2>7 DEF OutputInv
<1>4. CASE ~FinishBatch(w) /\ ~FinishUnit(w)
  <2>1. output' = output
    BY <1>4, StepHolds
  <2>2. Holds(w)' \/ Scans(w)' =>
          \/ (Holds(w) \/ Scans(w)) /\ worker'[w].index = worker[w].index
          \/ ClaimReady(w) \/ StartTailUnit(w)
    BY <1>4, StepHolds
  <2>3. ASSUME NEW i \in Index, output[i] # <<>>, Holds(w)' \/ Scans(w)' PROVE worker'[w].index # i
    <3>0. EmittedBatch(i) \/ EmittedUnit(i)
      BY <2>3 DEF OutputInv
    <3>1. EmittedBatch(i) => IndexClaimed(i)
      BY DEF EmittedBatch, IndexClaimed
    <3>2. EmittedUnit(i) => ~(i < FetchBatchBase)
      BY IndexParts DEF EmittedUnit
    <3>3. CASE (Holds(w) \/ Scans(w)) /\ worker'[w].index = worker[w].index
      BY <2>3, <3>3 DEF OutputInv
    <3>4. CASE ClaimReady(w)
      <4>0. PICK p, g : p = ready[1].ordinal /\ g = ready[1].next
        OBVIOUS
      <4>1. worker'[w].index = BatchIndex(p, g)
        <5>1. Becomes(w, "fetch", p, g, BatchEnd(Candidates(p), g), BatchIndex(p, g))
          BY <1>0, <3>4, <4>0, Moves
        <5> QED BY <5>1 DEF Becomes
      <4>2. p \in Ordinal /\ g \in Starts(Candidates(p)) /\ \A o, f : Claimed(o, f) => Before(o, f, p, g)
        BY <3>4, <4>0, ClaimReadyQueue
      <4>3. BatchIndex(p, g) < FetchBatchBase
        BY <4>2, BatchInSegment, Constants
      <4>4. CASE EmittedBatch(i)
        <5>1. PICK o, f : o \in Ordinal /\ f \in Starts(Candidates(o)) /\ Claimed(o, f) /\ i = BatchIndex(o, f)
          BY <4>4 DEF EmittedBatch
        <5>2. Before(o, f, p, g)
          BY <4>2, <5>1
        <5>3. BatchIndex(o, f) < BatchIndex(p, g)
          BY <4>2, <5>1, <5>2, BatchesAscend
        <5>4. BatchIndex(o, f) \in Int /\ BatchIndex(p, g) \in Int
          BY <4>2, <5>1, BatchInSegment
        <5> QED BY <4>1, <5>1, <5>3, <5>4
      <4>5. CASE EmittedUnit(i)
        BY <3>2, <4>1, <4>3, <4>5
      <4> QED BY <3>0, <4>4, <4>5
    <3>5. CASE StartTailUnit(w)
      <4>1. CASE next_tail_unit > TailUnits
        <5>1. Becomes(w, "done", me.ordinal, me.from, me.to, me.index) /\ me.phase = "scan"
          BY <1>0, <3>5, <4>1, Moves DEF StartTailUnit
        <5>2. ~Holds(w)' /\ ~Scans(w)'
          BY <1>0, <5>1 DEF Becomes, Holds, Scans, ClaimInv
        <5> QED BY <2>3, <5>2
      <4>2. CASE ~(next_tail_unit > TailUnits)
        <5>1. worker'[w].index = FetchBatchBase + next_tail_unit
          <6>1. Becomes(w, "unit", me.ordinal, me.from, me.to, FetchBatchBase + next_tail_unit)
            BY <1>0, <3>5, <4>2, Moves
          <6> QED BY <6>1 DEF Becomes
        <5>2. CASE EmittedBatch(i)
          BY <1>0, <3>1, <5>1, <5>2, IndexParts, Constants
        <5>3. CASE EmittedUnit(i)
          BY <1>0, <5>1, <5>3, Constants, IndexParts DEF EmittedUnit
        <5> QED BY <3>0, <5>2, <5>3
      <4> QED BY <4>1, <4>2
    <3> QED BY <2>2, <2>3, <3>3, <3>4, <3>5
  <2>4. ASSUME NEW i \in Index, output'[i] # <<>>
        PROVE  /\ EmittedBatch(i)' \/ EmittedUnit(i)'
               /\ \A v \in Workers : Holds(v)' \/ Scans(v)' => worker'[v].index # i
    BY <1>0, <1>1, <1>2, <2>1, <2>3, <2>4 DEF OutputInv
  <2> QED BY <1>0, <2>1, <2>4 DEF OutputInv
<1> QED BY <1>3, <1>4

-----------------------------------------------------------------------------
(* A step loses no batch, no unit and no failure *)

\* What was emitted stays, and what a worker finishes is emitted.
LEMMA StepEmits ==
    ASSUME QueueInv, WorkersInv, OutputInv, NEW w \in Workers, Act(w)
    PROVE  /\ \A i \in Index : output[i] # <<>> => output'[i] # <<>>
           /\ FinishBatch(w) \/ FinishUnit(w) => output'[worker[w].index] # <<>>
<1>1. CASE FinishBatch(w) \/ FinishUnit(w)
  <2>0. PICK at : at = worker[w].index
    OBVIOUS
  <2>1. at \in Index /\ output[at] = <<>>
    BY <1>1, <2>0, TakenNotEmitted DEF FinishBatch, FinishUnit
  <2>2. PICK rows : Emitted(at, rows)
    BY <1>1, <2>0 DEF FinishBatch, FinishUnit
  <2>3. output'[at] = <<rows>> /\ \A j \in Index : j # at => output'[j] = output[j]
    BY <2>1, <2>2, EmittedOnce DEF OutputInv
  <2>4. <<rows>> # <<>>
    OBVIOUS
  <2> QED BY <2>0, <2>3, <2>4
<1>2. CASE ~FinishBatch(w) /\ ~FinishUnit(w)
  BY <1>2, StepHolds
<1> QED BY <1>1, <1>2

\* A step emits what its worker gives up, or passes it on.
LEMMA StepThorough ==
    ASSUME QueueInv, WorkersInv, OutputInv, ThoroughInv, NEW w \in Workers, Act(w)
    PROVE  ThoroughInv'
<1> DEFINE me == worker[w]
<1>0. /\ worker \in [Workers -> WorkerRecord] /\ next_tail_unit \in Nat /\ next_segment \in Nat
      /\ \A v \in Workers : v # w => worker'[v] = worker[v]
      /\ \A v \in Workers : v # w => (Holds(v)' <=> Holds(v))
      /\ \A i \in Index : output[i] # <<>> => output'[i] # <<>>
  BY ReadyEntries, StepHolds, StepEmits DEF WorkersInv, Holds
<1>1. failed' => \E v \in Workers : worker'[v].phase = "thrown"
  <2>1. CASE DecodeFails(w)
    <3>1. Becomes(w, "thrown", me.ordinal, me.from, me.to, me.index)
      BY <1>0, <2>1, Moves
    <3> QED BY <3>1 DEF Becomes
  <2>2. CASE ~DecodeFails(w)
    <3>1. failed' = failed
      BY <2>2 DEF Act, Step, Start, ClaimReady, Exhausted, ClaimSegment, DecodeSegment,
                  FinishBatch, StartTailUnit, FinishUnit, Interrupted, Abandon, queue
    <3>2. ASSUME NEW v \in Workers, worker[v].phase = "thrown" PROVE worker'[v].phase = "thrown"
      <4>1. v # w
        BY <3>2, StepHolds
      <4> QED BY <1>0, <3>2, <4>1
    <3> QED BY <3>1, <3>2 DEF ThoroughInv
  <2> QED BY <2>1, <2>2
<1>2. ASSUME NEW o \in Ordinal, NEW f \in Starts(Candidates(o)), Claimed(o, f)'
      PROVE  \/ output'[BatchIndex(o, f)] # <<>>
             \/ \E v \in Workers : Holds(v)' /\ worker'[v].index = BatchIndex(o, f)
  <2>0. BatchIndex(o, f) \in Index
    BY BatchInSegment, Constants DEF Index
  <2>1. CASE Claimed(o, f)
    <3>1. CASE output[BatchIndex(o, f)] # <<>>
      BY <1>0, <2>0, <3>1
    <3>2. CASE \E v \in Workers : Holds(v) /\ worker[v].index = BatchIndex(o, f)
      <4>1. PICK v \in Workers : Holds(v) /\ worker[v].index = BatchIndex(o, f)
        BY <3>2
      <4>2. CASE v = w /\ FinishBatch(w)
        BY <4>1, <4>2, StepEmits
      <4>3. CASE v = w /\ ~FinishBatch(w)
        BY <4>1, <4>3, StepHolds
      <4>4. CASE v # w
        BY <1>0, <4>1, <4>4
      <4> QED BY <4>2, <4>3, <4>4
    <3> QED BY <2>1, <3>1, <3>2 DEF ThoroughInv
  <2>2. CASE ~Claimed(o, f)
    <3>1. ClaimReady(w)
      <4>1. CASE DecodeSegment(w)
        <5>1. Decodes(w)
          BY <4>1 DEF DecodeSegment, Decodes
        <5>2. worker[w].ordinal \in (next_publish .. next_segment - 1) \ pending
          BY <5>1 DEF WorkersInv, ClaimInv
        <5>3. Claimed(o, f)' <=> Claimed(o, f)
          BY <4>1, <5>2, DecodeSegmentQueue
        <5> QED BY <1>2, <2>2, <5>3
      <4>2. CASE ~DecodeSegment(w) /\ ~ClaimReady(w)
        <5>1. UNCHANGED <<ready, next_publish>>
          BY <4>2 DEF Act, Step, Start, Exhausted, ClaimSegment, DecodeFails,
                      FinishBatch, StartTailUnit, FinishUnit, Interrupted, Abandon, queue
        <5>2. Claimed(o, f)' <=> Claimed(o, f)
          BY <5>1 DEF Claimed
        <5> QED BY <1>2, <2>2, <5>2
      <4> QED BY <4>1, <4>2
    <3>2. PICK p, g : p = ready[1].ordinal /\ g = ready[1].next
      OBVIOUS
    <3>3. /\ Becomes(w, "fetch", p, g, BatchEnd(Candidates(p), g), BatchIndex(p, g))
          /\ o = p /\ f = g
      BY <1>0, <1>2, <2>2, <3>1, <3>2, Moves, ClaimReadyQueue
    <3>4. BatchEnd(Candidates(o), f) \in f + 1 .. Len(Candidates(o)) /\ f \in Nat
      BY BatchInSegment
    <3>5. f < BatchEnd(Candidates(o), f)
      BY <3>4
    <3> QED BY <3>3, <3>5 DEF Becomes, Holds
  <2> QED BY <2>1, <2>2
<1>3. ASSUME NEW u \in 0 .. TailUnits, u < next_tail_unit'
      PROVE  \/ output'[FetchBatchBase + u] # <<>>
             \/ \E v \in Workers : worker'[v].phase \in {"unit", "left"}
                                   /\ worker'[v].index = FetchBatchBase + u
  <2>0. FetchBatchBase + u \in Index
    BY IndexParts
  <2>1. CASE u < next_tail_unit
    <3>1. CASE output[FetchBatchBase + u] # <<>>
      BY <1>0, <2>0, <3>1
    <3>2. CASE \E v \in Workers : worker[v].phase \in {"unit", "left"}
                                  /\ worker[v].index = FetchBatchBase + u
      <4>1. PICK v \in Workers : worker[v].phase \in {"unit", "left"}
                                 /\ worker[v].index = FetchBatchBase + u
        BY <3>2
      <4>2. CASE v = w /\ FinishUnit(w)
        BY <4>1, <4>2, StepEmits
      <4>3. CASE v = w /\ ~FinishUnit(w)
        <5>1. worker'[w].phase = "left" /\ worker'[w].index = worker[w].index
          BY <4>1, <4>3, StepHolds
        <5> QED BY <4>1, <4>3, <5>1
      <4>4. CASE v # w
        BY <1>0, <4>1, <4>4
      <4> QED BY <4>2, <4>3, <4>4
    <3> QED BY <2>1, <3>1, <3>2 DEF ThoroughInv
  <2>2. CASE ~(u < next_tail_unit)
    <3>1. StartTailUnit(w)
      <4>1. ~StartTailUnit(w) => next_tail_unit' = next_tail_unit
        BY DEF Act, Step, Start, ClaimReady, Exhausted, ClaimSegment, DecodeSegment, DecodeFails,
               FinishBatch, FinishUnit, Interrupted, Abandon
      <4> QED BY <1>3, <2>2, <4>1
    <3>2. u = next_tail_unit /\ ~(next_tail_unit > TailUnits)
      <4>1. next_tail_unit' = next_tail_unit + 1
        BY <3>1 DEF StartTailUnit
      <4> QED BY <1>0, <1>3, <2>2, <4>1, Constants
    <3>3. Becomes(w, "unit", me.ordinal, me.from, me.to, FetchBatchBase + u)
      BY <1>0, <3>1, <3>2, Moves
    <3> QED BY <3>3 DEF Becomes
  <2> QED BY <2>1, <2>2
<1> QED BY <1>1, <1>2, <1>3 DEF ThoroughInv

\* When all batches are handed out, they stay so.
LEMMA StepHandedOut ==
    ASSUME QueueInv, WorkersInv, HandedOut, NEW w \in Workers, Act(w)
    PROVE  HandedOut'
<1>1. next_publish = next_segment /\ next_segment = Segments /\ Segments \in Nat /\ ready = <<>>
  BY Constants, ReadyEntries DEF QueueInv, HandedOut
<1>2. ~ClaimReady(w) /\ ~DecodeSegment(w)
  <2>1. ~ClaimReady(w)
    BY <1>1 DEF ClaimReady
  <2>2. ~Decodes(w)
    BY <1>1 DEF WorkersInv, ClaimInv
  <2> QED BY <2>1, <2>2 DEF DecodeSegment, Decodes
<1>3. UNCHANGED <<ready, next_publish>>
  BY <1>2 DEF Act, Step, Start, Exhausted, ClaimSegment, DecodeFails,
              FinishBatch, StartTailUnit, FinishUnit, Interrupted, Abandon, queue
<1> QED BY <1>3 DEF HandedOut

\* A worker that finds nothing left leaves nothing behind.
LEMMA ExhaustedHandedOut ==
    ASSUME QueueInv, WorkersInv, CountInv, NEW w \in Workers, Exhausted(w)
    PROVE  failed \/ HandedOut
<1> SUFFICES ASSUME ~failed PROVE HandedOut
  OBVIOUS
<1>1. ready = <<>> /\ InFlight = 0 /\ ~Unclaimed
  BY DEF Exhausted
<1>2. /\ next_publish \in Nat /\ next_segment \in Nat /\ Segments \in Nat
      /\ next_publish <= next_segment /\ next_segment <= Segments /\ ~(next_segment < Segments)
  BY <1>1, ReadyEntries DEF QueueInv, Unclaimed
<1>3. decoding = 0 /\ Cardinality(pending) = 0
  <2>1. decoding \in Nat /\ Cardinality(pending) \in Nat /\ decoding + Cardinality(pending) = 0
    BY <1>1, AliveFinite, FetchersParts DEF InFlight, CountInv
  <2> QED BY <2>1
<1>4. pending = {} /\ Decoders = {}
  BY <1>3, AliveFinite, FetchersParts, FS_EmptySet DEF CountInv
<1>5. \A o \in next_publish .. next_segment - 1 : FALSE
  BY <1>4 DEF CountInv, Decoders
<1>6. next_publish < next_segment => next_publish \in next_publish .. next_segment - 1
  BY <1>2
<1> QED BY <1>1, <1>2, <1>5, <1>6 DEF HandedOut

\* A step keeps a witness that fetched until all was handed out.
LEMMA StepStarted ==
    ASSUME QueueInv, WorkersInv, CountInv, StartedInv, NEW w \in Workers, Act(w)
    PROVE  StartedInv'
<1> DEFINE me == worker[w]
<1>0. /\ worker \in [Workers -> WorkerRecord] /\ next_tail_unit \in Nat /\ next_segment \in Nat
      /\ \A v \in Workers : v # w => worker'[v] = worker[v]
      /\ \A v \in Workers : v # w => (Holds(v)' <=> Holds(v))
      /\ failed => failed'
      /\ HandedOut => HandedOut'
      /\ ClaimInv(w) /\ IndexInv(w) /\ next_probe_thread \in Nat /\ MaxThreads \in Nat
  BY ReadyEntries, StepHolds, StepGrows, StepHandedOut, Constants
     DEF WorkersInv, Holds, Grows, CountInv
<1>1. PICK S \in SUBSET Workers : StartedBy(S)
  BY DEF StartedInv
<1>2. CASE Start(w)
  <2> DEFINE p == IF next_probe_thread < MaxThreads THEN "claim" ELSE "scan"
  <2>1. /\ Becomes(w, p, me.ordinal, me.from, me.to, me.index) /\ me.phase = "init"
        /\ next_probe_thread' = next_probe_thread + 1
    BY <1>0, <1>2, Moves DEF Start
  <2>2. w \notin S
    BY <1>1, <2>1 DEF StartedBy
  <2> DEFINE R == S \union {w}
  <2>3. IsFiniteSet(R) /\ Cardinality(R) = next_probe_thread'
    BY <1>1, <2>1, <2>2, FS_AddElement DEF StartedBy
  <2>4. \A v \in R : worker'[v].phase # "init"
    <3>1. worker'[w].phase = p
      BY <2>1 DEF Becomes
    <3>2. worker'[w].phase # "init"
      BY <3>1
    <3> QED BY <1>0, <1>1, <2>2, <3>2 DEF StartedBy
  <2>5. \A v \in Workers \ R :
          worker'[v].phase \in {"init", "left"} /\ worker'[v].index = None /\ ~Holds(v)'
    BY <1>0, <1>1 DEF StartedBy
  <2>6. ASSUME MaxThreads > 0
        PROVE  \E v \in R : worker'[v].phase \in {"scan", "unit", "done"} => (failed \/ HandedOut)'
    <3>1. CASE S = {}
      <4>1. next_probe_thread = 0
        BY <1>1, <3>1, FS_EmptySet DEF StartedBy
      <4>2. worker'[w].phase = "claim"
        BY <1>0, <2>1, <2>6, <4>1 DEF Becomes
      <4> QED BY <4>2
    <3>2. CASE S # {}
      <4>1. PICK v \in S : worker[v].phase \in {"scan", "unit", "done"} => failed \/ HandedOut
        BY <1>1, <2>6, <3>2 DEF StartedBy
      <4> QED BY <1>0, <2>2, <4>1
    <3> QED BY <3>1, <3>2
  <2>7. StartedBy(R)'
    BY <2>3, <2>4, <2>5, <2>6 DEF StartedBy
  <2> QED BY <2>7 DEF StartedInv
<1>3. CASE ~Start(w)
  <2>1. next_probe_thread' = next_probe_thread
    BY <1>3 DEF Act, Step, ClaimReady, Exhausted, ClaimSegment, DecodeSegment, DecodeFails,
                FinishBatch, StartTailUnit, FinishUnit, Interrupted, Abandon
  <2>2. worker'[w].phase # "init"
    BY <1>0, <1>3, Moves DEF Act, Step, Becomes
  <2>3. w \notin S => /\ worker'[w].phase = "left" /\ worker'[w].index = None /\ ~Holds(w)'
    <3>1. w \notin S => me.phase = "init" /\ me.index = None /\ ~Holds(w)
      BY <1>1, StepHolds DEF StartedBy
    <3>2. me.phase = "init" => Abandon(w)
      BY <1>3 DEF Act, Step, ClaimReady, Exhausted, ClaimSegment, DecodeSegment, DecodeFails,
                  FinishBatch, StartTailUnit, FinishUnit, Interrupted
    <3>3. Abandon(w) => Becomes(w, "left", me.ordinal, me.from, me.to, me.index)
      BY <1>0, Moves
    <3> QED BY <3>1, <3>2, <3>3 DEF Becomes, Holds
  <2>4. \A v \in S : worker'[v].phase # "init"
    BY <1>0, <1>1, <2>2 DEF StartedBy
  <2>5. \A v \in Workers \ S :
          worker'[v].phase \in {"init", "left"} /\ worker'[v].index = None /\ ~Holds(v)'
    BY <1>0, <1>1, <2>3 DEF StartedBy
  <2>6. ASSUME MaxThreads > 0, S # {}
        PROVE  \E v \in S : worker'[v].phase \in {"scan", "unit", "done"} => (failed \/ HandedOut)'
    <3>1. PICK v \in S : worker[v].phase \in {"scan", "unit", "done"} => failed \/ HandedOut
      BY <1>1, <2>6 DEF StartedBy
    <3>2. CASE v # w
      BY <1>0, <3>1, <3>2
    <3>3. CASE v = w
      <4>1. CASE Exhausted(w)
        BY <1>0, <3>3, <4>1, ExhaustedHandedOut
      <4>2. CASE StartTailUnit(w) \/ FinishUnit(w)
        BY <1>0, <3>1, <3>3, <4>2 DEF StartTailUnit, FinishUnit
      <4>3. CASE ~Exhausted(w) /\ ~StartTailUnit(w) /\ ~FinishUnit(w)
        <5>1. worker'[w].phase \notin {"scan", "unit", "done"}
          BY <1>0, <1>3, <4>3, Moves DEF Act, Step, Becomes
        <5> QED BY <3>3, <5>1
      <4> QED BY <4>1, <4>2, <4>3
    <3> QED BY <3>2, <3>3
  <2>7. StartedBy(S)'
    BY <1>1, <2>1, <2>4, <2>5, <2>6 DEF StartedBy
  <2> QED BY <2>7 DEF StartedInv
<1> QED BY <1>2, <1>3

-----------------------------------------------------------------------------
(* The rows past the mark, and the invariant *)

\* Tail units partition the rows above the mark, in order.
LEMMA UnitsAscend ==
    ASSUME NEW u \in 0 .. TailUnits, NEW r \in UnitRows(u)
    PROVE  /\ r \in Matches /\ r \in Nat /\ r >= TailStart
           /\ \A v \in 0 .. TailUnits : u < v => \A s \in UnitRows(v) : r < s
<1> DEFINE T == TailUnitRows
           a == TailStart
           b == TailEnd
           n == TailUnits
<1>1. /\ T \in Nat \ {0} /\ a \in Nat /\ b \in Nat /\ n \in Nat /\ Matches \subseteq Nat
      /\ Hwm = a - 1 /\ Matches \cap (b .. Hwm) = {}
  BY Constants, SearchInputs
<1> HIDE DEF T, a, b, n
<1>2. \A v \in 0 .. n : \A s \in UnitRows(v) :
        /\ s \in Matches /\ s \in Nat
        /\ v = n => s >= b /\ s >= a
        /\ v # n => a + (v * T) <= s /\ s < b /\ s < a + ((v + 1) * T)
  <2> TAKE v \in 0 .. n
  <2> TAKE s \in UnitRows(v)
  <2>1. CASE v = n
    <3>1. s \in Matches /\ s >= b
      BY <2>1 DEF UnitRows, n, b
    <3>2. s \notin b .. Hwm
      BY <1>1, <3>1
    <3> QED BY <1>1, <2>1, <3>1, <3>2
  <2>2. CASE v # n
    <3> DEFINE c == a + (v + 1) * T
    <3>1. s \in Matches /\ s \in a + v * T .. Smaller(c, b) - 1
      BY <2>2 DEF UnitRows, n, a, b, T
    <3>2. v * T \in Int /\ (v + 1) * T \in Int
      BY <1>1
    <3>3. c \in Int
      BY <1>1, <3>2
    <3> HIDE DEF c
    <3>4. s \in Nat /\ a + (v * T) <= s /\ s < b /\ s < c
      BY <1>1, <3>1, <3>2, <3>3 DEF Smaller
    <3> QED BY <2>2, <3>1, <3>4 DEF c
  <2> QED BY <2>1, <2>2
<1>3. \A v, w \in 0 .. n : v < w => (v + 1) * T <= w * T /\ (v + 1) * T \in Int /\ w * T \in Int
  BY <1>1
<1>4. \A v \in 0 .. n : v * T >= 0 /\ v * T \in Int
  BY <1>1
<1>5. r \in Matches /\ r \in Nat /\ r >= a
  <2>1. u \in 0 .. n
    BY DEF n
  <2>2. u * T >= 0 /\ u * T \in Int
    BY <1>4, <2>1
  <2>3. /\ r \in Matches /\ r \in Nat /\ (u = n => r >= a) /\ (u # n => a + (u * T) <= r)
    BY <1>2, <2>1
  <2> DEFINE x == u * T
  <2>4. x >= 0 /\ x \in Int /\ (u # n => a + x <= r)
    BY <2>2, <2>3
  <2> HIDE DEF x
  <2> QED BY <1>1, <2>3, <2>4
<1>6. ASSUME NEW v \in 0 .. TailUnits, u < v, NEW s \in UnitRows(v) PROVE r < s
  <2>1. u \in 0 .. n /\ v \in 0 .. n /\ u # n
    BY <1>1, <1>6 DEF n
  <2>2. r < b /\ r < a + ((u + 1) * T) /\ r \in Nat
    BY <1>2, <2>1
  <2>3. (u + 1) * T <= v * T /\ (u + 1) * T \in Int /\ v * T \in Int
    BY <1>3, <1>6, <2>1
  <2>4. /\ s \in Nat /\ (v = n => s >= b) /\ (v # n => a + (v * T) <= s)
    BY <1>2, <2>1
  <2> DEFINE x == (u + 1) * T
             y == v * T
  <2>5. x <= y /\ x \in Int /\ y \in Int /\ r < a + x /\ (v # n => a + y <= s)
    BY <2>2, <2>3, <2>4
  <2> HIDE DEF x, y
  <2> QED BY <1>1, <2>2, <2>4, <2>5
<1> QED BY <1>5, <1>6 DEF a

\* Every row past the mark lies in a unit.
LEMMA UnitsCover ==
    ASSUME NEW r \in Matches, r > Hwm
    PROVE  \E u \in 0 .. TailUnits : r \in UnitRows(u)
<1> DEFINE T == TailUnitRows
           a == TailStart
           b == TailEnd
           n == TailUnits
           u == (r - a) \div T
           m == (r - a) % T
<1>1. /\ T \in Nat \ {0} /\ a \in Nat /\ b \in Nat /\ n \in Nat /\ r \in Nat
      /\ a <= r /\ b - a <= T * n
  BY Constants, SearchInputs
<1>2. CASE r >= b
  <2>1. r \in UnitRows(n)
    BY <1>2 DEF UnitRows
  <2> HIDE DEF n
  <2>2. n \in 0 .. n
    BY <1>1
  <2> QED BY <2>1, <2>2 DEF n
<1>3. CASE r < b
  <2>1. r - a \in Int /\ r - a >= 0
    BY <1>1
  <2> HIDE DEF T, a, b, n
  <2>2. u \in Int /\ m \in 0 .. T - 1 /\ r - a = T * u + (m)
    BY <1>1, <2>1, Division
  <2>3. u >= 0
    BY <1>1, <2>1
  <2> HIDE DEF u, m
  <2>4. T * u = u * T /\ (u + 1) * T = u * T + T /\ T * u \in Int
    BY <1>1, <2>2
  <2>5. u < n
    <3>1. u >= n => T * u >= T * n
      BY <1>1, <2>2, <2>3
    <3> DEFINE x == T * u
               y == T * n
    <3>2. x \in Int /\ y \in Int /\ b - a <= y /\ r - a = x + m
      BY <1>1, <2>2, <2>4
    <3> HIDE DEF x, y
    <3>3. ~(x >= y)
      BY <1>1, <1>3, <2>2, <3>2
    <3> QED BY <1>1, <2>2, <3>1, <3>3 DEF x, y
  <2>6. r \in a + u * T .. Smaller(a + (u + 1) * T, b) - 1
    <3> DEFINE x == u * T
               y == (u + 1) * T
    <3>1. x \in Int /\ y = x + T /\ r - a = x + m
      BY <1>1, <2>2, <2>4
    <3> HIDE DEF x, y
    <3>2. a + x \in Int /\ a + y \in Int /\ a + x <= r /\ r < a + y
      BY <1>1, <2>2, <3>1
    <3>3. r \in a + x .. Smaller(a + y, b) - 1
      BY <1>1, <1>3, <3>2 DEF Smaller
    <3> QED BY <3>3 DEF x, y
  <2>7. u \in 0 .. n /\ u # n
    BY <1>1, <2>2, <2>3, <2>5
  <2>8. r \in UnitRows(u)
    BY <2>6, <2>7 DEF UnitRows, n, a, b, T
  <2> QED BY <2>7, <2>8 DEF n
<1>4. r < b \/ r >= b
  BY <1>1
<1> QED BY <1>2, <1>3, <1>4

\* The inductive invariant.
IInv == QueueInv /\ WorkersInv /\ CountInv /\ OutputInv /\ ThoroughInv /\ StartedInv

\* Every part of the invariant holds before the first step.
LEMMA InitInvariant ==
    ASSUME Init
    PROVE  IInv
<1>1. /\ ready = <<>> /\ pending = {} /\ next_publish = 0 /\ decoding = 0 /\ failed = FALSE
      /\ next_segment = 0 /\ next_probe_thread = 0 /\ next_tail_unit = 0
      /\ output = [i \in Index |-> <<>>]
      /\ worker = [w \in Workers |-> [phase |-> "init", ordinal |-> None, from |-> 0, to |-> 0,
                                      index |-> None]]
      /\ \A w \in Workers : /\ worker[w].phase = "init" /\ worker[w].ordinal = None
                            /\ worker[w].from = 0 /\ worker[w].to = 0 /\ worker[w].index = None
  BY DEF Init
<1>2. \A w \in Workers : ~Holds(w) /\ ~Decodes(w) /\ ~Scans(w)
  BY <1>1 DEF Holds, Decodes, Scans
<1>3. ASSUME NEW o, NEW f, Claimed(o, f) PROVE FALSE
  <2>1. o \in Nat /\ o < 0
    BY <1>1, <1>3, Constants DEF Claimed
  <2> QED BY <2>1
<1>4. QueueInv
  <2>1. ReadyInv
    BY <1>1 DEF ReadyInv
  <2>2. next_publish \in 0 .. next_segment /\ next_segment \in 0 .. Segments
    <3>1. next_publish = 0 /\ next_segment = 0 /\ Segments \in Nat
      BY <1>1, Constants
    <3> QED BY <3>1
  <2>4. failed \in BOOLEAN
    BY <1>1
  <2>3. pending \subseteq next_publish + 1 .. next_segment - 1
    BY <1>1
  <2> QED BY <2>1, <2>2, <2>3, <2>4 DEF QueueInv
<1>5. WorkersInv
  <2>1. worker \in [Workers -> WorkerRecord]
    BY <1>1, Constants DEF WorkerRecord
  <2>2. \A w \in Workers : ClaimInv(w) /\ IndexInv(w)
    BY <1>1, <1>2 DEF ClaimInv, IndexInv
  <2>3. \A v, w \in Workers : ApartInv(v, w)
    BY <1>1, <1>2 DEF ApartInv
  <2> QED BY <1>1, <2>1, <2>2, <2>3 DEF WorkersInv
<1>6. CountInv
  <2>1. Decoders = {} /\ Fetchers = {} /\ Charged = {} /\ Alive = {}
    BY <1>1, <1>2 DEF Decoders, Fetchers, Charged, Alive, Decodes, Holds
  <2>2. IsFiniteSet({}) /\ Cardinality({}) = 0
    BY FS_EmptySet
  <2> QED BY <1>1, <2>1, <2>2, Constants DEF CountInv
<1>7. OutputInv
  BY <1>1 DEF OutputInv
<1>8. ThoroughInv
  BY <1>1, <1>3, Constants DEF ThoroughInv
<1>9. StartedInv
  <2>1. StartedBy({})
    BY <1>1, <1>2, FS_EmptySet DEF StartedBy
  <2> QED BY <2>1 DEF StartedInv
<1> QED BY <1>4, <1>5, <1>6, <1>7, <1>8, <1>9 DEF IInv

\* The parts hold together in every reachable state.
THEOREM Invariance == Spec => []IInv
<1>1. Init => IInv
  BY InitInvariant
<1>2. IInv /\ [Next]_vars => IInv'
  <2> SUFFICES ASSUME IInv, [Next]_vars PROVE IInv'
    OBVIOUS
  <2>1. CASE Next
    <3>1. PICK w \in Workers : Act(w)
      BY <2>1 DEF Next, Act
    <3>2. QueueInv' /\ WorkersInv'
      BY <3>1, StepGrows, StepWorkers DEF IInv, Grows
    <3> QED BY <3>1, <3>2, StepCounts, StepOutput, StepThorough, StepStarted DEF IInv
  <2>2. CASE UNCHANGED vars
    <3>1. /\ UNCHANGED <<ready, pending, next_publish, decoding, failed, next_segment>>
          /\ UNCHANGED <<next_probe_thread, next_tail_unit, worker, output>>
      BY <2>2 DEF vars, queue
    <3>2. \A o, f : Claimed(o, f)' <=> Claimed(o, f)
      BY <3>1 DEF Claimed
    <3>3. \A w \in Workers : /\ Holds(w)' <=> Holds(w)
                             /\ Decodes(w)' <=> Decodes(w)
                             /\ Scans(w)' <=> Scans(w)
      BY <3>1 DEF Holds, Decodes, Scans
    <3>4. QueueInv'
      BY <3>1 DEF IInv, QueueInv, ReadyInv
    <3>5. WorkersInv'
      <4>1. \A w \in Workers : ClaimInv(w) => ClaimInv(w)'
        BY <3>1, <3>2, <3>3 DEF ClaimInv
      <4>2. \A w \in Workers : IndexInv(w) => IndexInv(w)'
        BY <3>1, <3>2 DEF IndexInv, IndexClaimed
      <4>3. \A v, w \in Workers : ApartInv(v, w) => ApartInv(v, w)'
        BY <3>1, <3>3 DEF ApartInv
      <4> QED BY <3>1, <4>1, <4>2, <4>3 DEF IInv, WorkersInv
    <3>6. CountInv'
      <4>1. Decoders' = Decoders /\ Fetchers' = Fetchers /\ Charged' = Charged /\ Alive' = Alive
        BY <3>1, <3>3 DEF Decoders, Fetchers, Charged, Alive
      <4> QED BY <3>1, <3>3, <4>1 DEF IInv, CountInv
    <3>7. OutputInv'
      BY <3>1, <3>2, <3>3 DEF IInv, OutputInv, EmittedBatch, EmittedUnit
    <3>8. ThoroughInv'
      BY <3>1, <3>2, <3>3 DEF IInv, ThoroughInv
    <3>9. StartedInv'
      <4>1. \A S \in SUBSET Workers : StartedBy(S) => StartedBy(S)'
        BY <3>1, <3>3 DEF StartedBy, HandedOut
      <4> QED BY <4>1 DEF IInv, StartedInv
    <3> QED BY <3>4, <3>5, <3>6, <3>7, <3>8, <3>9 DEF IInv
  <2> QED BY <2>1, <2>2
<1> QED BY <1>1, <1>2, PTL DEF Spec

-----------------------------------------------------------------------------
(* Memory, vectors and the order of indexes *)

\* A product grows with its factors.
LEMMA ProductGrows ==
    ASSUME NEW p \in Nat, NEW q \in Nat, p <= q, NEW a \in Nat, NEW b \in Nat, a <= b
    PROVE  p * a \in Nat /\ q * b \in Nat /\ p * a <= q * b
<1>1. p * a \in Nat /\ p * b \in Nat /\ q * b \in Nat
  OBVIOUS
<1>2. p * a <= p * b
  <2>1. PICK d \in Nat : b = a + d
    <3>1. b - a \in Nat /\ b = a + (b - a)
      OBVIOUS
    <3> QED BY <3>1
  <2>2. p * b = p * a + p * d /\ p * d \in Nat
    BY <2>1
  <2> QED BY <1>1, <2>2
<1>3. p * b <= q * b
  <2>1. PICK d \in Nat : q = p + d
    <3>1. q - p \in Nat /\ q = p + (q - p)
      OBVIOUS
    <3> QED BY <3>1
  <2>2. q * b = p * b + d * b /\ d * b \in Nat
    BY <2>1
  <2> QED BY <1>1, <2>2
<1> QED BY <1>1, <1>2, <1>3

\* c workers at scratch and a vectors besides fit what is reserved for T workers.
LEMMA WorkspaceHolds ==
    ASSUME NEW W \in Nat, NEW P \in Nat, P <= W, NEW c \in Nat, NEW a \in Nat, NEW T \in Nat,
           c <= T, a + c <= IF T <= 1 THEN T ELSE 2 * T - 2
    PROVE  W * c + P * a <= IF T <= 1 THEN W ELSE W * T + P * (T - 2)
<1>1. CASE T <= 1
  <2>1. a + c <= 1
    BY <1>1
  <2>2. (c = 0 /\ a = 0) \/ (c = 1 /\ a = 0) \/ (c = 0 /\ a = 1)
    BY <2>1
  <2>3. W * 0 = 0 /\ W * 1 = W /\ P * 0 = 0 /\ P * 1 = P
    OBVIOUS
  <2>4. W * c + P * a <= W
    BY <2>2, <2>3
  <2> QED BY <1>1, <2>4
<1>2. CASE ~(T <= 1)
  <2>1. PICK d \in Nat : T = c + d
    <3>1. T - c \in Nat /\ T = c + (T - c)
      OBVIOUS
    <3> QED BY <3>1
  <2>2. T - 2 \in Nat /\ (T - 2) + d \in Nat /\ a <= (T - 2) + d
    BY <1>2, <2>1
  <2>3. P * d <= W * d /\ P * d \in Nat /\ W * d \in Nat
    BY ProductGrows
  <2>4. P * a <= P * ((T - 2) + d)
    BY <2>2, ProductGrows
  <2>5. P * ((T - 2) + d) = P * (T - 2) + P * d /\ W * T = W * c + W * d
    BY <2>1, <2>2
  <2>6. W * c \in Nat /\ P * a \in Nat /\ P * (T - 2) \in Nat /\ W * T \in Nat
    BY <2>2, ProductGrows
  <2> DEFINE x == W * c
             y == P * a
             z == P * (T - 2)
             t == W * T
             e == P * d
             f == W * d
  <2>7. /\ x \in Nat /\ y \in Nat /\ z \in Nat /\ t \in Nat /\ e \in Nat /\ f \in Nat
        /\ e <= f /\ y <= z + e /\ t = x + f
    BY <2>3, <2>4, <2>5, <2>6
  <2> HIDE DEF x, y, z, t, e, f
  <2>8. x + y <= t + z
    BY <2>7
  <2> QED BY <1>2, <2>8 DEF x, y, z, t
<1> QED BY <1>1, <1>2

\* The decode scratch charged and the candidate vectors alive never exceed the
\* workspace PlanIndexProbe reserved, for any number of fetch workers and
\* whichever of them throws or is abandoned (WithinWorkspace).
THEOREM WorkspaceSuffices == Spec => []WithinWorkspace
<1>1. IInv => WithinWorkspace
  <2> SUFFICES ASSUME IInv PROVE WithinWorkspace
    OBVIOUS
  <2>1. /\ Cardinality(Alive) \in Nat /\ Cardinality(Charged) \in Nat
        /\ Cardinality(Charged) <= MaxThreads /\ MaxThreads \in Nat
        /\ Cardinality(Alive) + Cardinality(Charged)
             <= IF MaxThreads <= 1 THEN MaxThreads ELSE 2 * MaxThreads - 2
    BY AliveFinite, FetchersParts, Constants DEF IInv, CountInv
  <2>2. PeakWorker \in Nat /\ PeakCandidates \in Nat /\ PeakCandidates <= PeakWorker
    BY SearchInputs
  <2> QED BY <2>1, <2>2, WorkspaceHolds DEF WithinWorkspace, Workspace
<1> QED BY <1>1, Invariance, PTL

\* Batches that two workers read at the same time share no storage vector
\* (VectorsReadOnce): BatchEnd runs on to the end of a vector.
THEOREM ScansApart == Spec => []VectorsReadOnce
<1>1. IInv => VectorsReadOnce
  <2> SUFFICES ASSUME IInv, NEW v \in Workers, NEW w \in Workers,
                      worker[v].phase = "fetch", worker[w].phase = "fetch", v # w
               PROVE  BatchBlocks(v) \cap BatchBlocks(w) = {}
    BY DEF VectorsReadOnce
  <2>1. /\ Holds(v) /\ Holds(w) /\ ClaimInv(v) /\ ClaimInv(w) /\ ApartInv(v, w)
    BY DEF IInv, WorkersInv, ClaimInv
  <2>2. PICK o, f, p, g : o = worker[v].ordinal /\ f = worker[v].from
                          /\ p = worker[w].ordinal /\ g = worker[w].from
    OBVIOUS
  <2>3. /\ o \in Ordinal /\ f \in Starts(Candidates(o)) /\ worker[v].to = BatchEnd(Candidates(o), f)
        /\ p \in Ordinal /\ g \in Starts(Candidates(p)) /\ worker[w].to = BatchEnd(Candidates(p), g)
        /\ BatchIndex(o, f) # BatchIndex(p, g)
    BY <2>1, <2>2 DEF ClaimInv, ApartInv, Claimed
  <2>4. Before(o, f, p, g) \/ Before(p, g, o, f)
    <3>1. BatchIndex(o, f) \in Int /\ BatchIndex(p, g) \in Int
      BY <2>3, BatchInSegment
    <3>2. BatchIndex(o, f) < BatchIndex(p, g) \/ BatchIndex(p, g) < BatchIndex(o, f)
      BY <2>3, <3>1
    <3> QED BY <2>3, <3>2, IndexTells
  <2>5. ASSUME NEW k \in f + 1 .. BatchEnd(Candidates(o), f), NEW l \in g + 1 .. BatchEnd(Candidates(p), g)
        PROVE  Block(Candidates(o)[k]) # Block(Candidates(p)[l])
    <3>1. Candidates(o)[k] \in 0 .. Hwm /\ Candidates(p)[l] \in 0 .. Hwm
      BY <2>3, BatchInSegment
    <3>2. Block(Candidates(o)[k]) \in Int /\ Block(Candidates(p)[l]) \in Int
      BY <3>1, BlocksAscend
    <3>3. \/ Block(Candidates(o)[k]) < Block(Candidates(p)[l])
          \/ Block(Candidates(p)[l]) < Block(Candidates(o)[k])
      BY <2>3, <2>4, BatchesAscend
    <3> QED BY <3>2, <3>3
  <2> QED BY <2>2, <2>3, <2>5 DEF BatchBlocks
<1> QED BY <1>1, Invariance, PTL

\* A worker's next batch or tail unit has a higher index than its last
\* (BatchOrder), since batches are handed out in order and the tail follows.
THEOREM IndexesAscend == Spec => BatchOrder
<1> DEFINE Higher(w) == worker'[w].phase \in {"fetch", "unit"} /\ worker'[w] # worker[w]
                          => worker'[w].index > worker[w].index
<1>1. IInv /\ [Next]_vars => [\A w \in Workers : Higher(w)]_vars
  <2> SUFFICES ASSUME IInv, NEW w \in Workers, Act(w), NEW v \in Workers PROVE Higher(v)
    BY DEF Next, Act
  <2>1. /\ worker \in [Workers -> WorkerRecord] /\ next_tail_unit \in Nat /\ next_segment \in Nat
        /\ QueueInv /\ WorkersInv /\ IndexInv(w) /\ worker[w].index \in Int
        /\ \A x \in Workers : x # w => worker'[x] = worker[x]
    BY ReadyEntries, StepHolds DEF IInv, WorkersInv, WorkerRecord
  <2>2. CASE v # w
    BY <2>1, <2>2
  <2>3. CASE v = w /\ ClaimReady(w)
    <3>1. PICK p, g : p = ready[1].ordinal /\ g = ready[1].next
      OBVIOUS
    <3>2. worker'[w].index = BatchIndex(p, g)
      <4>1. Becomes(w, "fetch", p, g, BatchEnd(Candidates(p), g), BatchIndex(p, g))
        BY <2>1, <2>3, <3>1, Moves
      <4> QED BY <4>1 DEF Becomes
    <3>3. /\ p \in Ordinal /\ g \in Starts(Candidates(p))
          /\ \A o, f : Claimed(o, f) => Before(o, f, p, g)
      BY <2>1, <2>3, <3>1, ClaimReadyQueue
    <3>4. BatchIndex(p, g) \in Nat
      BY <3>3, BatchInSegment
    <3>5. worker[w].index = None \/ IndexClaimed(worker[w].index)
      BY <2>1, <2>3 DEF IndexInv, ClaimReady
    <3>6. CASE worker[w].index = None
      BY <2>3, <3>2, <3>4, <3>6, Constants
    <3>7. CASE IndexClaimed(worker[w].index)
      <4>1. PICK o, f : /\ o \in Ordinal /\ f \in Starts(Candidates(o)) /\ Claimed(o, f)
                        /\ worker[w].index = BatchIndex(o, f)
        BY <3>7 DEF IndexClaimed
      <4>2. Before(o, f, p, g)
        BY <3>3, <4>1
      <4>3. BatchIndex(o, f) < BatchIndex(p, g)
        BY <3>3, <4>1, <4>2, BatchesAscend
      <4> QED BY <2>1, <2>3, <3>2, <3>4, <4>1, <4>3
    <3> QED BY <3>5, <3>6, <3>7
  <2>4. CASE v = w /\ StartTailUnit(w)
    <3>1. CASE next_tail_unit > TailUnits
      <4>1. worker'[w].phase = "done"
        <5>1. Becomes(w, "done", worker[w].ordinal, worker[w].from, worker[w].to, worker[w].index)
          BY <2>1, <2>4, <3>1, Moves
        <5> QED BY <5>1 DEF Becomes
      <4> QED BY <2>4, <4>1
    <3>2. CASE ~(next_tail_unit > TailUnits)
      <4>1. worker'[w].index = FetchBatchBase + next_tail_unit
        <5>1. Becomes(w, "unit", worker[w].ordinal, worker[w].from, worker[w].to,
                      FetchBatchBase + next_tail_unit)
          BY <2>1, <2>4, <3>2, Moves
        <5> QED BY <5>1 DEF Becomes
      <4>2. worker[w].index < FetchBatchBase + next_tail_unit
        BY <2>1, <2>4 DEF IndexInv, StartTailUnit
      <4> QED BY <2>1, <2>4, <4>1, <4>2, Constants
    <3> QED BY <3>1, <3>2
  <2>5. CASE v = w /\ ~ClaimReady(w) /\ ~StartTailUnit(w)
    <3>1. worker'[w].phase \notin {"fetch", "unit"}
      <4>1. \E p \in {"claim", "scan", "decode", "thrown", "left"} :
              \E o, a, b, i : Becomes(w, p, o, a, b, i)
        BY <2>1, <2>5, Moves DEF Act, Step
      <4> QED BY <4>1 DEF Becomes
    <3> QED BY <2>5, <3>1
  <2> QED BY <2>2, <2>3, <2>4, <2>5
<1> QED BY <1>1, Invariance, PTL DEF Spec, BatchOrder

-----------------------------------------------------------------------------
(* The rows *)

\* The rows under an index that one batch was emitted under, and under an empty one.
LEMMA RangeOfOne ==
    ASSUME NEW x
    PROVE  Len(<<x>>) = 1 /\ UNION Range(<<x>>) = x
<1>1. DOMAIN <<x>> = {1} /\ <<x>>[1] = x
  OBVIOUS
<1>2. Range(<<x>>) = {x}
  BY <1>1 DEF Range
<1> QED BY <1>2

LEMMA RangeOfNone == Len(<<>>) = 0 /\ UNION Range(<<>>) = {}
<1>1. DOMAIN <<>> = {}
  OBVIOUS
<1>2. Range(<<>>) = {}
  BY <1>1 DEF Range
<1> QED BY <1>2

\* What lies under an index.
LEMMA OutputRows ==
    ASSUME IInv, NEW i \in Index
    PROVE  /\ Len(output[i]) <= 1
           /\ output[i] = <<>> => UNION Range(output[i]) = {}
           /\ \A r \in UNION Range(output[i]) :
                \/ \E o, f : /\ o \in Ordinal /\ f \in Starts(Candidates(o)) /\ i = BatchIndex(o, f)
                             /\ r \in BatchRows(o, f, BatchEnd(Candidates(o), f))
                \/ \E u \in 0 .. TailUnits : i = FetchBatchBase + u /\ r \in UnitRows(u)
<1>1. CASE output[i] = <<>>
  BY <1>1, RangeOfNone
<1>2. CASE output[i] # <<>> /\ EmittedBatch(i)
  <2>1. PICK o, f : /\ o \in Ordinal /\ f \in Starts(Candidates(o)) /\ i = BatchIndex(o, f)
                    /\ output[i] = <<BatchRows(o, f, BatchEnd(Candidates(o), f))>>
    BY <1>2 DEF EmittedBatch
  <2>2. Len(output[i]) = 1 /\ UNION Range(output[i]) = BatchRows(o, f, BatchEnd(Candidates(o), f))
    BY <2>1, RangeOfOne
  <2> QED BY <1>2, <2>1, <2>2
<1>3. CASE output[i] # <<>> /\ EmittedUnit(i)
  <2>1. PICK u \in 0 .. TailUnits : u = i - FetchBatchBase /\ output[i] = <<UnitRows(u)>>
    BY <1>3 DEF EmittedUnit
  <2>2. Len(output[i]) = 1 /\ UNION Range(output[i]) = UnitRows(u)
    BY <2>1, RangeOfOne
  <2>3. i = FetchBatchBase + u
    BY <2>1, IndexParts, Constants
  <2> QED BY <1>3, <2>2, <2>3
<1> QED BY <1>1, <1>2, <1>3 DEF IInv, OutputInv

\* Rows under a lower index are lower.
LEMMA OutputAscends ==
    ASSUME IInv, NEW i \in Index, NEW j \in Index, i < j,
           NEW r \in UNION Range(output[i]), NEW s \in UNION Range(output[j])
    PROVE  r < s
<1>1. \/ \E o, f : /\ o \in Ordinal /\ f \in Starts(Candidates(o)) /\ i = BatchIndex(o, f)
                   /\ r \in BatchRows(o, f, BatchEnd(Candidates(o), f))
      \/ \E u \in 0 .. TailUnits : i = FetchBatchBase + u /\ r \in UnitRows(u)
  BY OutputRows
<1>2. \/ \E p, g : /\ p \in Ordinal /\ g \in Starts(Candidates(p)) /\ j = BatchIndex(p, g)
                   /\ s \in BatchRows(p, g, BatchEnd(Candidates(p), g))
      \/ \E v \in 0 .. TailUnits : j = FetchBatchBase + v /\ s \in UnitRows(v)
  BY OutputRows
<1>3. ASSUME NEW o, NEW f, o \in Ordinal, f \in Starts(Candidates(o)), i = BatchIndex(o, f),
             r \in BatchRows(o, f, BatchEnd(Candidates(o), f))
      PROVE  r < s
  <2>1. CASE \E p, g : /\ p \in Ordinal /\ g \in Starts(Candidates(p)) /\ j = BatchIndex(p, g)
                       /\ s \in BatchRows(p, g, BatchEnd(Candidates(p), g))
    <3>1. PICK p, g : /\ p \in Ordinal /\ g \in Starts(Candidates(p)) /\ j = BatchIndex(p, g)
                      /\ s \in BatchRows(p, g, BatchEnd(Candidates(p), g))
      BY <2>1
    <3>2. Before(o, f, p, g)
      BY <1>3, <3>1, IndexTells
    <3> QED BY <1>3, <3>1, <3>2, BatchRowsAscend
  <2>2. CASE \E v \in 0 .. TailUnits : j = FetchBatchBase + v /\ s \in UnitRows(v)
    <3>1. r \in 0 .. Hwm
      BY <1>3, BatchRowsAscend
    <3>2. s \in Nat /\ s >= TailStart
      BY <2>2, UnitsAscend
    <3> QED BY <3>1, <3>2, Constants
  <2> QED BY <1>2, <2>1, <2>2
<1>4. ASSUME NEW u \in 0 .. TailUnits, i = FetchBatchBase + u, r \in UnitRows(u)
      PROVE  r < s
  <2>1. ASSUME NEW p, NEW g, p \in Ordinal, g \in Starts(Candidates(p)), j = BatchIndex(p, g)
        PROVE  FALSE
    <3>1. j < FetchBatchBase /\ j \in Int /\ FetchBatchBase \in Nat
      BY <2>1, BatchInSegment, Constants
    <3> QED BY <1>4, <3>1
  <2>2. PICK v \in 0 .. TailUnits : j = FetchBatchBase + v /\ s \in UnitRows(v)
    BY <1>2, <2>1
  <2>3. u < v
    BY <1>4, <2>2, Constants
  <2> QED BY <1>4, <2>2, <2>3, UnitsAscend
<1> QED BY <1>1, <1>3, <1>4

\* A search that ran to its end emitted every batch and every unit.
LEMMA CompleteEmits ==
    ASSUME IInv, Complete
    PROVE  /\ \A o \in Ordinal : \A f \in Starts(Candidates(o)) : output[BatchIndex(o, f)] # <<>>
           /\ \A u \in 0 .. TailUnits : output[FetchBatchBase + u] # <<>>
<1> DEFINE D == {w \in Workers : worker[w].phase = "done"}
<1>1. PICK S \in SUBSET Workers : StartedBy(S)
  BY DEF IInv, StartedInv
<1>2. D = S /\ S # {}
  <2>1. D \subseteq S
    BY <1>1 DEF StartedBy
  <2>2. IsFiniteSet(S) /\ Cardinality(D) = Cardinality(S)
    BY <1>1 DEF StartedBy, Complete
  <2>3. D # {}
    BY DEF Complete
  <2>4. D = S
    <3> HIDE DEF D
    <3> QED BY <2>1, <2>2, FS_Subset
  <2> QED BY <2>3, <2>4
<1>3. /\ \A w \in S : worker[w].phase = "done" /\ ~Holds(w)
      /\ \A w \in Workers \ S : worker[w].phase \in {"init", "left"} /\ worker[w].index = None /\ ~Holds(w)
  BY <1>1, <1>2 DEF StartedBy, IInv, WorkersInv, ClaimInv
<1>4. ~failed
  BY <1>3 DEF IInv, ThoroughInv
<1>5. HandedOut
  <2>1. CASE MaxThreads > 0
    BY <1>1, <1>2, <1>3, <1>4, <2>1 DEF StartedBy
  <2>2. CASE ~(MaxThreads > 0)
    <3>1. Segments = 0
      BY <2>2, SearchInputs DEF Segments
    <3>2. next_publish = 0
      BY <3>1, ReadyEntries DEF IInv, QueueInv
    <3>3. ready = <<>>
      <4>1. Ordinal = {}
        BY <3>1 DEF Ordinal
      <4>2. ready # <<>> => ready[1].ordinal \in Ordinal
        BY ReadyEntries DEF IInv
      <4> QED BY <4>1, <4>2
    <3> QED BY <3>1, <3>2, <3>3 DEF HandedOut
  <2> QED BY <2>1, <2>2
<1>6. ASSUME NEW o \in Ordinal, NEW f \in Starts(Candidates(o))
      PROVE  output[BatchIndex(o, f)] # <<>>
  <2>1. o < next_publish
    <3>1. next_publish = Segments /\ Segments \in Nat
      BY <1>5, Constants DEF HandedOut
    <3> QED BY <3>1 DEF Ordinal
  <2>2. Claimed(o, f)
    BY <1>5, <2>1 DEF Claimed, HandedOut
  <2>3. \A w \in Workers : ~Holds(w)
    BY <1>3
  <2> QED BY <2>2, <2>3 DEF IInv, ThoroughInv
<1>7. ASSUME NEW u \in 0 .. TailUnits
      PROVE  output[FetchBatchBase + u] # <<>>
  <2>1. u < next_tail_unit
    <3>1. PICK w \in S : TRUE
      BY <1>2
    <3>2. next_tail_unit > TailUnits /\ next_tail_unit \in Nat /\ TailUnits \in Nat
      BY <1>3, <3>1, Constants DEF IInv, WorkersInv, IndexInv
    <3> QED BY <3>2
  <2>2. ASSUME NEW w \in Workers, worker[w].phase \in {"unit", "left"}, worker[w].index = FetchBatchBase + u
        PROVE  FALSE
    <3>1. worker[w].index = None
      BY <1>3, <2>2
    <3> QED BY <2>2, <3>1, Constants
  <2> QED BY <2>1, <2>2 DEF IInv, ThoroughInv
<1> QED BY <1>6, <1>7

\* Every matching row lies in a batch or a unit.
LEMMA MatchesCovered ==
    ASSUME NEW m \in Matches
    PROVE  \/ \E o, f : /\ o \in Ordinal /\ f \in Starts(Candidates(o))
                        /\ m \in BatchRows(o, f, BatchEnd(Candidates(o), f))
           \/ \E u \in 0 .. TailUnits : m \in UnitRows(u)
<1>0. m \in Nat /\ Hwm \in Int
  BY SearchInputs
<1>1. CASE m > Hwm
  BY <1>1, UnitsCover
<1>2. CASE ~(m > Hwm)
  <2>1. m \in 0 .. Hwm
    BY <1>0, <1>2
  <2>2. PICK s \in DOMAIN Decoded : m \in Range(Decoded[s])
    BY <2>1, SearchInputs
  <2>3. DOMAIN Decoded = 1 .. Segments /\ Segments \in Nat
    BY SearchInputs DEF Segments
  <2>4. PICK o \in Ordinal : Decoded[s] = Candidates(o)
    <3>1. s - 1 \in Ordinal /\ (s - 1) + 1 = s
      BY <2>3 DEF Ordinal
    <3> QED BY <3>1 DEF Candidates
  <2> DEFINE C == Candidates(o)
  <2>5. AreCandidates(C) /\ C \in Seq(0 .. Hwm)
    BY CandidatesFit
  <2> HIDE DEF C
  <2>6. PICK k \in 1 .. Len(C) : C[k] = m
    <3>1. PICK k \in DOMAIN C : C[k] = m
      BY <2>2, <2>4 DEF Range, C
    <3> QED BY <2>5, <3>1, ElementOfSeq
  <2>7. PICK f \in Starts(C) : k \in f + 1 .. BatchEnd(C, f)
    BY <2>5, StartsCover
  <2>8. m \in BatchRows(o, f, BatchEnd(C, f))
    BY <2>6, <2>7, BatchRowsBetween DEF C
  <2> QED BY <2>7, <2>8 DEF C
<1> QED BY <1>1, <1>2

\* Put in the order of their indexes, the rows emitted ascend and none comes
\* twice; a search that ran to its end emitted every matching row
\* (OrderRestored).
THEOREM RowsInOrder == Spec => []OrderRestored
<1>1. IInv => OrderRestored
  <2> SUFFICES ASSUME IInv PROVE OrderRestored
    OBVIOUS
  <2>1. \A i \in Index : Len(output[i]) <= 1
    BY OutputRows
  <2>2. \A i, j \in Index : i < j =>
          \A r \in UNION Range(output[i]), s \in UNION Range(output[j]) : r < s
    BY OutputAscends
  <2>3. ASSUME Complete
        PROVE  UNION {UNION Range(output[i]) : i \in Index} = Matches
    <3>1. ASSUME NEW i \in Index, NEW r \in UNION Range(output[i]) PROVE r \in Matches
      <4>1. \/ \E o, f : /\ o \in Ordinal /\ f \in Starts(Candidates(o)) /\ i = BatchIndex(o, f)
                         /\ r \in BatchRows(o, f, BatchEnd(Candidates(o), f))
            \/ \E u \in 0 .. TailUnits : i = FetchBatchBase + u /\ r \in UnitRows(u)
        BY OutputRows
      <4> QED BY <4>1, BatchRowsAscend, UnitsAscend
    <3>2. ASSUME NEW m \in Matches PROVE \E i \in Index : m \in UNION Range(output[i])
      <4>1. ASSUME NEW o, NEW f, o \in Ordinal, f \in Starts(Candidates(o)),
                   m \in BatchRows(o, f, BatchEnd(Candidates(o), f))
            PROVE  \E i \in Index : m \in UNION Range(output[i])
        <5> DEFINE i == BatchIndex(o, f)
        <5>1. output[i] # <<>> /\ i \in Index /\ i < FetchBatchBase
          <6>1. output[i] # <<>>
            BY <2>3, <4>1, CompleteEmits
          <6>2. i \in 0 .. FetchBatchBase - 1
            BY <4>1, BatchInSegment
          <6> HIDE DEF i
          <6> QED BY <6>1, <6>2, Constants DEF Index
        <5>2. EmittedBatch(i)
          <6> HIDE DEF i
          <6> QED BY <5>1, IndexParts DEF IInv, OutputInv, EmittedUnit
        <5>3. PICK p, g : /\ p \in Ordinal /\ g \in Starts(Candidates(p)) /\ i = BatchIndex(p, g)
                          /\ output[i] = <<BatchRows(p, g, BatchEnd(Candidates(p), g))>>
          BY <5>2 DEF EmittedBatch
        <5>4. p = o /\ g = f
          BY <4>1, <5>3, IndexTells
        <5>5. UNION Range(output[i]) = BatchRows(o, f, BatchEnd(Candidates(o), f))
          BY <5>3, <5>4, RangeOfOne
        <5> HIDE DEF i
        <5> QED BY <4>1, <5>1, <5>5
      <4>2. ASSUME NEW u \in 0 .. TailUnits, m \in UnitRows(u)
            PROVE  \E i \in Index : m \in UNION Range(output[i])
        <5>0. PICK i : i = FetchBatchBase + u
          OBVIOUS
        <5>1. output[i] # <<>> /\ i \in Index /\ ~(i < FetchBatchBase) /\ i - FetchBatchBase = u
          <6>1. output[FetchBatchBase + u] # <<>> /\ u \in Int /\ FetchBatchBase \in Nat
            <7>1. output[FetchBatchBase + u] # <<>>
              BY <2>3, CompleteEmits
            <7> QED BY <7>1, Constants
          <6>2. FetchBatchBase + u \in Index /\ ~(FetchBatchBase + u < FetchBatchBase)
            BY IndexParts
          <6>3. i - FetchBatchBase = u
            BY <5>0, <6>1
          <6> QED BY <5>0, <6>1, <6>2, <6>3
        <5>2. ~EmittedBatch(i)
          <6>1. EmittedBatch(i) => IndexClaimed(i)
            BY DEF EmittedBatch, IndexClaimed
          <6> QED BY <5>1, <6>1, IndexParts
        <5>3. output[i] = <<UnitRows(u)>>
          BY <5>1, <5>2 DEF IInv, OutputInv, EmittedUnit
        <5>4. UNION Range(output[i]) = UnitRows(u)
          BY <5>3, RangeOfOne
        <5> QED BY <4>2, <5>1, <5>4
      <4> QED BY <4>1, <4>2, MatchesCovered
    <3> QED BY <3>1, <3>2
  <2> QED BY <2>1, <2>2, <2>3 DEF OrderRestored
<1> QED BY <1>1, Invariance, PTL
=============================================================================
