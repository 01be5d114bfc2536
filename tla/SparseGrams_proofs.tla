------------------------- MODULE SparseGrams_proofs -------------------------
(***************************************************************************)
(* Proofs about SparseGrams, from GramOptions: in any text, whatever the   *)
(* weights of its windows, one pass over a stack finds exactly the grams   *)
(* the definition names, the covering grams are the largest of them and    *)
(* reach from the first codepoint to the last, and a row is posted under   *)
(* every key that a needle in it asks for.                                 *)
(*                                                                         *)
(* The stack holds the windows that stand: those heavier than every window *)
(* since.  A window reached is paired with the lighter ones on top, which  *)
(* no longer stand, and with the one below them, so that nothing that      *)
(* could be paired is lost (StackInv).  Every window on the stack is a     *)
(* border of the covering grams, which a gram that starts at it joins      *)
(* without a gap (CoverInv).  A gram depends on the weights of its windows *)
(* alone, so an excerpt's grams are grams of the text it is from, with the *)
(* same keys (ExcerptGram).                                                *)
(***************************************************************************)
EXTENDS SparseGrams, FiniteSetTheorems, SequenceTheorems, TLAPS

\* A nonempty set of naturals has a least element.
LEMMA Lowest ==
    ASSUME NEW S \in SUBSET Nat, S # {}
    PROVE  \E m \in S : \A r \in S : m <= r
<1> DEFINE R == {ss \in Nat \X Nat : ss[1] < ss[2]}
<1>1. IsWellFoundedOn(R, Nat)
  BY NatLessThanWellFounded, Zenon DEF OpToRel
<1>2. \A x, y \in Nat : y < x => <<y, x>> \in R
  OBVIOUS
<1>3. PICK x \in S : \A y \in S : ~(<<y, x>> \in R)
  <2> HIDE DEF R
  <2> QED BY <1>1, WFMin
<1>4. \A y \in S : ~(y < x)
  BY <1>2, <1>3
<1> QED BY <1>4

\* A nonempty bounded set of marks has a greatest element.
LEMMA Highest ==
    ASSUME NEW N \in Nat, NEW S \in SUBSET (-1 .. N), S # {}
    PROVE  \E m \in S : \A r \in S : r <= m
<1> DEFINE Below == {N - m : m \in S}
<1>1. Below \subseteq Nat /\ Below # {}
  <2>1. PICK s \in S : TRUE
    OBVIOUS
  <2>2. N - s \in Below
    OBVIOUS
  <2>3. ASSUME NEW m \in S PROVE N - m \in Nat
    <3>1. m \in -1 .. N
      OBVIOUS
    <3> QED BY <3>1
  <2> QED BY <2>2, <2>3
<1>2. PICK x \in Below : \A y \in Below : x <= y
  <2> HIDE DEF Below
  <2> QED BY <1>1, Lowest
<1>3. PICK m \in S : x = N - m
  OBVIOUS
<1>4. ASSUME NEW r \in S PROVE r <= m
  <2>1. N - r \in Below
    OBVIOUS
  <2>2. N - m <= N - r
    BY <1>2, <1>3, <2>1
  <2>3. r \in Int /\ m \in Int
    OBVIOUS
  <2> QED BY <2>2, <2>3
<1> QED BY <1>4
-----------------------------------------------------------------------------

-----------------------------------------------------------------------------
(* The stack and the covering grams *)

\* Ranges of codepoints, and windows by their first.
Ranges == Nat \X Nat

\* The windows of a text are numbered 0 .. m and weigh w[0] .. w[m].  A window
\* before the n-th that is heavier than all after it.
Stands(w, n, p) == p \in 0 .. n - 1 /\ \A q \in p + 1 .. n - 1 : w[q] < w[p]

Near(n, p) == n + span - p <= MaxGram

\* The grams that the definition names.
Named(w, m, r) ==
    /\ r \in Nat \X Nat /\ r[2] - span <= m
    /\ r[2] - r[1] >= MinGram /\ r[2] - r[1] <= MaxGram
    /\ \A i \in r[1] + 1 .. r[2] - span - 1 : w[i] < w[r[1]] /\ w[i] < w[r[2] - span]

\* When window n is reached, with stack s and the grams e emitted: the stack
\* holds what stands, but for what window n was paired with.
OnlyStanding(w, n, s) == \A i \in DOMAIN s : Stands(w, n, s[i])

Rising(s) == \A i, j \in DOMAIN s : i < j => s[i] < s[j]

NoneLost(w, n, s, e) ==
    \A p \in Nat : Stands(w, n, p) /\ Near(n, p) => p \in ToSet(s) \/ <<p, n + span>> \in ToSet(e)

OnlyNamed(w, m, n, s, e) ==
    \A r \in ToSet(e) :
        /\ Named(w, m, r) /\ r[2] <= n + span
        /\ r[2] = n + span => w[r[1]] < w[n] /\ \A i \in DOMAIN s : s[i] < r[1]

AllBefore(w, m, n, e) == \A r : Named(w, m, r) /\ r[2] < n + span => r \in ToSet(e)

EachOnce(e) == \A i, j \in DOMAIN e : e[i] = e[j] => i = j

StackInv(w, m, n, s, e) ==
    /\ OnlyStanding(w, n, s) /\ Rising(s) /\ NoneLost(w, n, s, e)
    /\ OnlyNamed(w, m, n, s, e) /\ AllBefore(w, m, n, e) /\ EachOnce(e)

\* Window n is no heavier than the top of the stack, and the first k windows
\* are those below its equals.
NoLighterTop(w, n, s) == s # <<>> => w[s[Len(s)]] >= w[n]
BelowEquals(w, n, s, k) == (k # 0 => w[s[k]] # w[n]) /\ \A i \in DOMAIN s : w[s[i]] # w[n] => i <= k

\* The grams f are those of e and, it may be, some that end at window n.
EndsAt(w, m, n, e, f) == \A g \in ToSet(f) : g \in ToSet(e) \/ (Named(w, m, g) /\ g[2] = n + span)

\* The first k windows of the stack, and window n on top of them.
Pushed(s, k, n) == Append(SubSeq(s, 1, k), n)

\* The grams once window n is paired with a top that is near.
Paired(n, s, e) == IF s # <<>> /\ Near(n, s[Len(s)]) THEN Append(e, <<s[Len(s)], n + span>>) ELSE e

\* The covering grams once they are joined by gram r, and once window n is
\* paired with a top that is near.
CoveredBy(c, r) == Pushed(c, Max({0} \union {i \in DOMAIN c : c[i][1] < r[1]}), r)
PairedCover(n, s, c) == IF s # <<>> /\ Near(n, s[Len(s)]) THEN CoveredBy(c, <<s[Len(s)], n + span>>) ELSE c

\* A window where a covering gram ends, or the first one.
Border(c, p) == p = 0 \/ \E i \in DOMAIN c : c[i][2] - span = p

Inside(small, big) == big[1] <= small[1] /\ small[2] <= big[2]

\* The covering grams c of the grams e: a chain from the first window on that
\* holds every gram, with a border wherever a window is on the stack.
BothRise(c) == \A i, j \in DOMAIN c : i < j => c[i][1] < c[j][1] /\ c[i][2] < c[j][2]

HoldsAll(e, c) == \A r \in ToSet(e) : \E i \in DOMAIN c : Inside(r, c[i])

Chained(c) == \A i \in 1 .. Len(c) - 1 : c[i][2] - c[i + 1][1] = span

FirstToLast(n, c) ==
    /\ c # <<>> => c[1][1] = 0 /\ c[Len(c)][2] >= n - 1 + span
    /\ c = <<>> => n <= 1

\* Grams start before their last window; those that end at window n start past p.
StartPast(n, p, e) ==
    \A g \in ToSet(e) : g[1] < g[2] - span /\ g[2] <= n + span /\ (g[2] = n + span => p < g[1])

\* The first k grams are those that start before p.
StartBefore(c, k, p) == \A i \in DOMAIN c : c[i][1] < p <=> i <= k

Bordered(s, c) == \A i \in DOMAIN s : Border(c, s[i])

CoverInv(n, s, e, c) ==
    /\ ToSet(c) \subseteq ToSet(e) /\ BothRise(c) /\ HoldsAll(e, c)
    /\ Chained(c) /\ FirstToLast(n, c) /\ Bordered(s, c)

-----------------------------------------------------------------------------
(* Sequences *)

LEMMA SpanIs == span \in Nat /\ MinGram = span + 1 /\ MaxGram \in Nat /\ span + 1 <= MaxGram
BY GramOptions DEF span

\* The first elements of a sequence.
LEMMA PrefixIs ==
    ASSUME NEW S, NEW s \in Seq(S), NEW k \in 0 .. Len(s)
    PROVE  /\ SubSeq(s, 1, k) \in Seq(S) /\ Len(SubSeq(s, 1, k)) = k
           /\ DOMAIN SubSeq(s, 1, k) = 1 .. k
           /\ \A i \in 1 .. k : SubSeq(s, 1, k)[i] = s[i]
<1>1. \A i \in 1 .. k : s[i] \in S
  OBVIOUS
<1>2. k \in Int /\ Len(SubSeq(s, 1, k)) = k
  BY <1>1, SubSeqProperties
<1> QED BY <1>1, <1>2, SubSeqProperties

\* One element more.
LEMMA AppendedIs ==
    ASSUME NEW S, NEW s \in Seq(S), NEW x \in S
    PROVE  /\ Append(s, x) \in Seq(S) /\ Len(Append(s, x)) = Len(s) + 1 /\ Append(s, x) # <<>>
           /\ DOMAIN Append(s, x) = 1 .. Len(s) + 1
           /\ \A i \in 1 .. Len(s) : Append(s, x)[i] = s[i]
           /\ Append(s, x)[Len(s) + 1] = x
           /\ ToSet(Append(s, x)) = ToSet(s) \union {x}
<1>1. /\ Append(s, x) \in Seq(S) /\ Len(Append(s, x)) = Len(s) + 1 /\ Append(s, x) # <<>>
      /\ DOMAIN Append(s, x) = 1 .. Len(s) + 1 /\ DOMAIN s = 1 .. Len(s) /\ Len(s) \in Nat
      /\ \A i \in 1 .. Len(s) : Append(s, x)[i] = s[i]
      /\ Append(s, x)[Len(s) + 1] = x
  OBVIOUS
<1> DEFINE t == Append(s, x)
<1> HIDE DEF t
<1>2. ToSet(t) = {t[i] : i \in 1 .. Len(s) + 1} /\ ToSet(s) = {s[i] : i \in 1 .. Len(s)}
  BY <1>1 DEF ToSet, t
<1>3. \A y : y \in ToSet(t) <=> y \in ToSet(s) \union {x}
  <2>1. \A i \in 1 .. Len(s) : t[i] = s[i]
    BY <1>1 DEF t
  <2>2. t[Len(s) + 1] = x
    BY <1>1 DEF t
  <2>3. \A i \in 1 .. Len(s) + 1 : i \in 1 .. Len(s) \/ i = Len(s) + 1
    BY <1>1
  <2>4. ASSUME NEW y \in ToSet(s) PROVE y \in ToSet(t)
    <3>1. PICK i \in 1 .. Len(s) : s[i] = y
      BY <1>2
    <3>2. i \in 1 .. Len(s) + 1 /\ t[i] = y
      BY <1>1, <2>1, <3>1
    <3> QED BY <1>2, <3>2
  <2>5. x \in ToSet(t)
    <3>1. Len(s) + 1 \in 1 .. Len(s) + 1
      BY <1>1
    <3> QED BY <1>2, <2>2, <3>1
  <2>6. ASSUME NEW y \in ToSet(t) PROVE y \in ToSet(s) \union {x}
    BY <1>2, <2>1, <2>2, <2>3, <2>6
  <2> QED BY <2>4, <2>5, <2>6
<1> QED BY <1>1, <1>3 DEF t

\* The elements of a sequence are at its places.
LEMMA Elements ==
    ASSUME NEW S, NEW s \in Seq(S)
    PROVE  /\ Len(s) \in Nat /\ DOMAIN s = 1 .. Len(s)
           /\ \A i \in DOMAIN s : s[i] \in S /\ s[i] \in ToSet(s)
           /\ \A x \in ToSet(s) : x \in S /\ \E i \in DOMAIN s : s[i] = x
           /\ (s = <<>>) <=> (Len(s) = 0)
           /\ ToSet(<<>>) = {}
BY DEF ToSet

\* The greatest of some places of a sequence, 0 without one.
LEMMA LastOfPlaces ==
    ASSUME NEW n \in Nat, NEW T \in SUBSET (1 .. n)
    PROVE  /\ Max({0} \union T) \in 0 .. n
           /\ \A i \in T : i <= Max({0} \union T)
           /\ Max({0} \union T) # 0 => Max({0} \union T) \in T
<1> DEFINE U == {0} \union T
<1>1. U \in SUBSET (-1 .. n) /\ U # {}
  OBVIOUS
<1>2. PICK x \in U : \A r \in U : r <= x
  <2> HIDE DEF U
  <2> QED BY <1>1, Highest
<1>3. \A r \in U : x >= r
  BY <1>1, <1>2
<1>4. Max(U) \in U /\ \A y \in U : Max(U) >= y
  <2> HIDE DEF U
  <2>1. \E z \in U : \A y \in U : z >= y
    BY <1>3
  <2> QED BY <2>1 DEF Max
<1>5. U = {0} \union T /\ U \subseteq 0 .. n
  OBVIOUS
<1> HIDE DEF U
<1>6. Max(U) \in 0 .. n /\ (\A i \in T : i <= Max(U)) /\ (Max(U) # 0 => Max(U) \in T)
  <2>1. Max(U) \in 0 .. n
    BY <1>4, <1>5
  <2>2. \A i \in T : i <= Max(U)
    <3> TAKE i \in T
    <3>1. i \in U /\ i \in Int
      BY <1>5
    <3>2. Max(U) >= i
      BY <1>4, <3>1
    <3> QED BY <2>1, <3>1, <3>2
  <2>3. Max(U) # 0 => Max(U) \in T
    BY <1>4, <1>5
  <2> QED BY <2>1, <2>2, <2>3
<1> QED BY <1>5, <1>6

\* A longer sequence differs at its new place only.
LEMMA AppendOnce ==
    ASSUME NEW S, NEW s \in Seq(S), NEW x \in S, x \notin ToSet(s), EachOnce(s)
    PROVE  EachOnce(Append(s, x))
<1> DEFINE t == Append(s, x)
<1>1. /\ DOMAIN t = 1 .. Len(s) + 1 /\ (\A i \in 1 .. Len(s) : t[i] = s[i]) /\ t[Len(s) + 1] = x
      /\ Len(s) \in Nat /\ DOMAIN s = 1 .. Len(s) /\ \A i \in DOMAIN s : s[i] \in ToSet(s)
  BY AppendedIs, Elements
<1> HIDE DEF t
<1>2. SUFFICES ASSUME NEW i \in DOMAIN t, NEW j \in DOMAIN t, t[i] = t[j] PROVE i = j
  BY DEF EachOnce, t
<1>3. (i \in DOMAIN s /\ t[i] = s[i] /\ t[i] \in ToSet(s)) \/ (i = Len(s) + 1 /\ t[i] = x)
  BY <1>1
<1>4. (j \in DOMAIN s /\ t[j] = s[j] /\ t[j] \in ToSet(s)) \/ (j = Len(s) + 1 /\ t[j] = x)
  BY <1>1
<1> QED BY <1>2, <1>3, <1>4 DEF EachOnce

-----------------------------------------------------------------------------
(* The stack *)

\* The inner windows of a pair that ends at window n are those since its first.
LEMMA NamedAt ==
    ASSUME NEW w, NEW m \in Int, NEW n \in 0 .. m, NEW p \in Nat, p < n
    PROVE  Named(w, m, <<p, n + span>>) <=>
             Near(n, p) /\ \A i \in p + 1 .. n - 1 : w[i] < w[p] /\ w[i] < w[n]
<1>1. n + span - span = n /\ n + span - span - 1 = n - 1 /\ n + span \in Nat /\ n + span - p >= MinGram
  BY SpanIs
<1> QED BY <1>1, SpanIs DEF Named, Near

\* A gram that ends at window n starts before it.
LEMMA NamedStarts ==
    ASSUME NEW w, NEW m \in Int, NEW n \in Nat, NEW r, Named(w, m, r)
    PROVE  /\ r = <<r[1], r[2]>> /\ r[1] \in Nat /\ r[2] \in Nat /\ r[2] > span
           /\ r[1] < r[2] - span /\ r[2] - span \in 0 .. m
           /\ r[2] < n + 1 + span => r[2] < n + span \/ r[2] = n + span
<1>1. r \in Nat \X Nat /\ r[2] - r[1] >= span + 1 /\ r[2] - span <= m /\ span \in Nat
  BY SpanIs DEF Named
<1> QED BY <1>1

\* A lighter window on top pairs with the window reached and goes.
LEMMA PairKeeps ==
    ASSUME NEW m \in Int, NEW w \in [0 .. m -> Int], NEW n \in 0 .. m,
           NEW s \in Seq(Nat), NEW e \in Seq(Ranges), StackInv(w, m, n, s, e), s # <<>>,
           NEW p, p = s[Len(s)], w[p] < w[n], Near(n, p)
    PROVE  StackInv(w, m, n, SubSeq(s, 1, Len(s) - 1), Append(e, <<p, n + span>>))
<1> DEFINE t == SubSeq(s, 1, Len(s) - 1)
           r == <<p, n + span>>
           f == Append(e, r)
<1>0. /\ OnlyStanding(w, n, s) /\ Rising(s) /\ NoneLost(w, n, s, e)
      /\ OnlyNamed(w, m, n, s, e) /\ AllBefore(w, m, n, e) /\ EachOnce(e)
  BY DEF StackInv
<1>1. /\ Len(s) \in Nat /\ DOMAIN s = 1 .. Len(s) /\ Len(s) \in DOMAIN s /\ p \in ToSet(s)
      /\ \A i \in DOMAIN s : s[i] \in Nat
  <2>1. /\ Len(s) \in Nat /\ DOMAIN s = 1 .. Len(s) /\ Len(s) # 0
        /\ \A i \in DOMAIN s : s[i] \in Nat /\ s[i] \in ToSet(s)
    BY Elements
  <2> QED BY <2>1
<1>2. Stands(w, n, p) /\ p \in Nat /\ p < n
  <2>1. Stands(w, n, p)
    BY <1>0, <1>1 DEF OnlyStanding
  <2> QED BY <2>1 DEF Stands
<1>3. r \in Nat \X Nat
  BY <1>2, SpanIs, SMTT(20)
<1>4. /\ t \in Seq(Nat) /\ DOMAIN t = 1 .. Len(s) - 1 /\ \A i \in DOMAIN t : t[i] = s[i] /\ i \in DOMAIN s /\ i < Len(s)
      /\ ToSet(s) = ToSet(t) \union {p}
  <2>1. Len(s) - 1 \in 0 .. Len(s)
    BY <1>1
  <2>2. t \in Seq(Nat) /\ DOMAIN t = 1 .. Len(s) - 1 /\ \A i \in 1 .. Len(s) - 1 : t[i] = s[i]
    <3>1. \A k \in 0 .. Len(s) :
             /\ SubSeq(s, 1, k) \in Seq(Nat) /\ DOMAIN SubSeq(s, 1, k) = 1 .. k
             /\ \A i \in 1 .. k : SubSeq(s, 1, k)[i] = s[i]
      BY PrefixIs
    <3> QED BY <2>1, <3>1
  <2>3. \A i \in DOMAIN t : t[i] = s[i] /\ i \in DOMAIN s /\ i < Len(s)
    BY <1>1, <2>2
  <2>4. \A i \in DOMAIN s : i \in DOMAIN t \/ i = Len(s)
    BY <1>1, <2>2
  <2> HIDE DEF t
  <2>5. ToSet(s) = ToSet(t) \union {p}
    BY <1>1, <2>2, <2>3, <2>4 DEF ToSet
  <2> QED BY <2>2, <2>3, <2>5
<1>5. /\ f \in Seq(Ranges) /\ DOMAIN f = 1 .. Len(e) + 1 /\ \A i \in 1 .. Len(e) : f[i] = e[i]
      /\ f[Len(e) + 1] = r /\ ToSet(f) = ToSet(e) \union {r}
  <2>1. r \in Ranges
    BY <1>3 DEF Ranges
  <2> HIDE DEF r
  <2>2. /\ Append(e, r) \in Seq(Ranges) /\ DOMAIN Append(e, r) = 1 .. Len(e) + 1
        /\ (\A i \in 1 .. Len(e) : Append(e, r)[i] = e[i])
        /\ Append(e, r)[Len(e) + 1] = r /\ ToSet(Append(e, r)) = ToSet(e) \union {r}
    BY <2>1, AppendedIs
  <2> QED BY <2>2 DEF r
<1>6. Named(w, m, r)
  <2>1. \A i \in p + 1 .. n - 1 : w[i] < w[p] /\ w[i] < w[n]
    <3> TAKE i \in p + 1 .. n - 1
    <3>1. w[i] < w[p]
      BY <1>2 DEF Stands
    <3>2. i \in 0 .. m /\ p \in 0 .. m
      BY <1>2
    <3> QED BY <3>1, <3>2
  <2> QED BY <1>2, <2>1, NamedAt
<1>7. r \notin ToSet(e)
  <2>1. r[1] = p /\ r[2] = n + span /\ ~(p < p)
    BY <1>2
  <2> QED BY <1>0, <1>1, <2>1 DEF OnlyNamed
<1>8. EachOnce(f)
  BY <1>0, <1>3, <1>7, AppendOnce DEF Ranges
<1> HIDE DEF t, f
<1>9. OnlyStanding(w, n, t)
  BY <1>0, <1>4 DEF OnlyStanding
<1>10. Rising(t)
  BY <1>0, <1>4 DEF Rising
<1>11. NoneLost(w, n, t, f)
  BY <1>0, <1>4, <1>5 DEF NoneLost
<1>12. OnlyNamed(w, m, n, t, f)
  <2> SUFFICES ASSUME NEW g \in ToSet(f)
               PROVE  /\ Named(w, m, g) /\ g[2] <= n + span
                      /\ g[2] = n + span => w[g[1]] < w[n] /\ \A i \in DOMAIN t : t[i] < g[1]
    BY DEF OnlyNamed
  <2>1. CASE g \in ToSet(e)
    BY <1>0, <1>4, <2>1 DEF OnlyNamed
  <2>2. CASE g = r
    <3>1. \A i \in DOMAIN t : t[i] < p
      BY <1>0, <1>1, <1>4 DEF Rising
    <3> QED BY <1>2, <1>6, <2>2, <3>1, SpanIs
  <2> QED BY <1>5, <2>1, <2>2
<1>13. AllBefore(w, m, n, f)
  BY <1>0, <1>5 DEF AllBefore
<1>14. StackInv(w, m, n, t, f)
  BY <1>8, <1>9, <1>10, <1>11, <1>12, <1>13 DEF StackInv
<1> QED BY <1>14 DEF t, f

\* A stack whose top is too far back holds no window that is near.
LEMMA ClearKeeps ==
    ASSUME NEW m \in Int, NEW w \in [0 .. m -> Int], NEW n \in 0 .. m,
           NEW s \in Seq(Nat), NEW e \in Seq(Ranges), StackInv(w, m, n, s, e), s # <<>>,
           ~Near(n, s[Len(s)])
    PROVE  StackInv(w, m, n, <<>>, e)
<1>0. Rising(s) /\ NoneLost(w, n, s, e) /\ OnlyNamed(w, m, n, s, e) /\ AllBefore(w, m, n, e) /\ EachOnce(e)
  BY DEF StackInv
<1>1. /\ Len(s) \in Nat /\ DOMAIN s = 1 .. Len(s) /\ Len(s) \in DOMAIN s
      /\ \A i \in DOMAIN s : s[i] \in Nat
      /\ \A x \in ToSet(s) : \E i \in DOMAIN s : s[i] = x
  <2>1. /\ Len(s) \in Nat /\ DOMAIN s = 1 .. Len(s) /\ Len(s) # 0
        /\ \A i \in DOMAIN s : s[i] \in Nat
        /\ \A x \in ToSet(s) : \E i \in DOMAIN s : s[i] = x
    BY Elements
  <2> QED BY <2>1
<1>2. ASSUME NEW q \in ToSet(s) PROVE ~Near(n, q)
  <2>1. PICK i \in DOMAIN s : s[i] = q
    BY <1>1
  <2>2. i = Len(s) \/ i < Len(s)
    BY <1>1
  <2>3. q \in Nat /\ s[Len(s)] \in Nat /\ q <= s[Len(s)]
    <3>1. s[i] \in Nat /\ s[Len(s)] \in Nat
      BY <1>1
    <3>2. i < Len(s) => s[i] < s[Len(s)]
      BY <1>0, <1>1 DEF Rising
    <3> QED BY <2>1, <2>2, <3>1, <3>2
  <2> QED BY <2>3, SpanIs, SMTT(20) DEF Near
<1>3. NoneLost(w, n, <<>>, e)
  BY <1>0, <1>2 DEF NoneLost
<1>4. DOMAIN <<>> = {}
  OBVIOUS
<1>5. OnlyStanding(w, n, <<>>) /\ Rising(<<>>) /\ OnlyNamed(w, m, n, <<>>, e)
  BY <1>0, <1>4 DEF OnlyStanding, Rising, OnlyNamed
<1> QED BY <1>0, <1>3, <1>5 DEF StackInv

\* The top of the stack is its highest window.
LEMMA TopIsHighest ==
    ASSUME NEW w, NEW n \in Nat, NEW s \in Seq(Nat), OnlyStanding(w, n, s), Rising(s), s # <<>>
    PROVE  /\ Len(s) \in DOMAIN s /\ s[Len(s)] \in 0 .. n - 1 /\ Stands(w, n, s[Len(s)])
           /\ \A i \in DOMAIN s : s[i] <= s[Len(s)]
<1>1. /\ Len(s) \in Nat /\ DOMAIN s = 1 .. Len(s) /\ Len(s) # 0
      /\ \A i \in DOMAIN s : s[i] \in Nat
  BY Elements
<1>2. Len(s) \in DOMAIN s
  BY <1>1
<1>3. Stands(w, n, s[Len(s)]) /\ s[Len(s)] \in 0 .. n - 1
  BY <1>2 DEF OnlyStanding, Stands
<1>4. ASSUME NEW i \in DOMAIN s PROVE s[i] <= s[Len(s)]
  <2>1. i = Len(s) \/ i < Len(s)
    BY <1>1
  <2>2. i < Len(s) => s[i] < s[Len(s)]
    BY <1>2 DEF Rising
  <2> QED BY <1>1, <1>2, <2>1, <2>2
<1> QED BY <1>2, <1>3, <1>4

\* A window after a near one is near.
LEMMA NearAfter ==
    ASSUME NEW n \in Int, NEW p \in Int, NEW q \in Int, p <= q, Near(n, p)
    PROVE  Near(n, q)
BY SpanIs DEF Near

\* What stands weighs no less than what comes after it.
LEMMA LighterAfter ==
    ASSUME NEW w, NEW n \in Nat, NEW p, Stands(w, n, p),
           NEW q \in 0 .. n - 1, p <= q, w[p] \in Int, w[q] \in Int
    PROVE  w[q] <= w[p]
<1>1. p \in 0 .. n - 1
  BY DEF Stands
<1>2. CASE p = q
  BY <1>2
<1>3. CASE p < q
  <2>1. q \in p + 1 .. n - 1
    BY <1>1, <1>3
  <2>2. w[q] < w[p]
    BY <2>1 DEF Stands
  <2> QED BY <2>2
<1> QED BY <1>1, <1>2, <1>3

\* All weights that a near top as heavy as the window reached has above it are
\* less than that window's: the last that were not would stand.
LEMMA LighterSinceTop ==
    ASSUME NEW m \in Int, NEW w \in [0 .. m -> Int], NEW n \in 0 .. m,
           NEW s \in Seq(Nat), NEW e \in Seq(Ranges), StackInv(w, m, n, s, e), s # <<>>,
           NEW p, p = s[Len(s)], w[p] >= w[n], Near(n, p)
    PROVE  \A i \in p + 1 .. n - 1 : w[i] < w[n]
<1>1. OnlyStanding(w, n, s) /\ Rising(s) /\ NoneLost(w, n, s, e) /\ OnlyNamed(w, m, n, s, e)
  BY DEF StackInv
<1>2. p \in 0 .. n - 1 /\ \A i \in DOMAIN s : s[i] <= p
  BY <1>1, TopIsHighest
<1> DEFINE Heavy == {i \in p + 1 .. n - 1 : w[i] >= w[n]}
<1>3. SUFFICES ASSUME Heavy # {} PROVE FALSE
  <2>1. ASSUME NEW i \in p + 1 .. n - 1 PROVE w[i] < w[n]
    <3>1. i \in 0 .. m
      BY <1>2, SMTT(20)
    <3>2. w[i] \in Int /\ w[n] \in Int /\ ~(w[i] >= w[n])
      BY <1>3, <3>1
    <3> QED BY <3>2
  <2> QED BY <2>1
<1>4. PICK q \in Heavy : \A i \in Heavy : i <= q
  <2>1. Heavy \in SUBSET (-1 .. n - 1) /\ n - 1 \in Nat
    BY <1>2, SMTT(20)
  <2> HIDE DEF Heavy
  <2> QED BY <1>3, <2>1, Highest
<1>5. q \in 0 .. n - 1 /\ q > p /\ w[q] >= w[n]
  BY <1>2, <1>4, SMTT(20)
<1>6. \A i \in q + 1 .. n - 1 : w[i] < w[q]
  <2> TAKE i \in q + 1 .. n - 1
  <2>1. i \in p + 1 .. n - 1 /\ i \in 0 .. m /\ q \in 0 .. m /\ ~(i <= q)
    BY <1>2, <1>5
  <2>2. ~(w[i] >= w[n])
    BY <1>4, <2>1
  <2>3. w[i] \in Int /\ w[q] \in Int /\ w[n] \in Int
    BY <2>1
  <2> QED BY <1>5, <2>2, <2>3
<1>7. Stands(w, n, q) /\ q \in Nat
  BY <1>5, <1>6 DEF Stands
<1>8. Near(n, q)
  BY <1>2, <1>5, NearAfter, SMTT(20)
<1>9. q \in ToSet(s) \/ <<q, n + span>> \in ToSet(e)
  BY <1>1, <1>7, <1>8 DEF NoneLost
<1>10. q \notin ToSet(s)
  <2>1. \A x \in ToSet(s) : \E i \in DOMAIN s : s[i] = x
    BY Elements
  <2>2. ~(q <= p)
    BY <1>2, <1>5
  <2> QED BY <1>2, <2>1, <2>2
<1>11. <<q, n + span>> \notin ToSet(e)
  <2>1. ASSUME <<q, n + span>> \in ToSet(e) PROVE FALSE
    <3>1. w[q] < w[n]
      BY <1>1, <2>1 DEF OnlyNamed
    <3>2. w[q] \in Int /\ w[n] \in Int
      BY <1>5
    <3> QED BY <1>5, <3>1, <3>2
  <2> QED BY <2>1
<1> QED BY <1>9, <1>10, <1>11

\* What stands heavier than window n still stands behind it.
LEMMA StandsBehind ==
    ASSUME NEW m \in Int, NEW w \in [0 .. m -> Int], NEW n \in 0 .. m,
           NEW p \in 0 .. n - 1, Stands(w, n, p), w[n] < w[p]
    PROVE  Stands(w, n + 1, p)
<1>1. \A q \in p + 1 .. n - 1 : w[q] < w[p]
  BY DEF Stands
<1>2. \A q \in p + 1 .. n + 1 - 1 : q \in p + 1 .. n - 1 \/ q = n
  OBVIOUS
<1>3. p \in 0 .. n + 1 - 1
  OBVIOUS
<1> QED BY <1>1, <1>2, <1>3 DEF Stands

\* What stood behind window n + 1 stood behind window n, and is heavier.
LEMMA StoodBefore ==
    ASSUME NEW w, NEW n \in Nat, NEW p, p # n, Stands(w, n + 1, p)
    PROVE  p \in 0 .. n - 1 /\ Stands(w, n, p) /\ w[n] < w[p]
<1>1. p \in 0 .. n + 1 - 1 /\ \A q \in p + 1 .. n + 1 - 1 : w[q] < w[p]
  BY DEF Stands
<1>2. p \in 0 .. n - 1 /\ n \in p + 1 .. n + 1 - 1
  BY <1>1
<1>3. \A q \in p + 1 .. n - 1 : q \in p + 1 .. n + 1 - 1
  BY <1>2
<1> QED BY <1>1, <1>2, <1>3 DEF Stands

\* Of windows a, b and c on the stack, from the bottom up, c is no lighter than
\* window n and b not its equal.
LEMMA StaysBehind ==
    ASSUME NEW m \in Int, NEW w \in [0 .. m -> Int], NEW n \in 0 .. m,
           NEW a \in 0 .. n - 1, NEW b \in 0 .. n - 1, NEW c \in 0 .. n - 1,
           Stands(w, n, a), Stands(w, n, b), a <= b, b <= c, w[c] >= w[n], w[b] # w[n]
    PROVE  Stands(w, n + 1, a)
<1>1. w[a] \in Int /\ w[b] \in Int /\ w[c] \in Int /\ w[n] \in Int /\ n \in Nat
  OBVIOUS
<1>2. w[b] <= w[a] /\ w[c] <= w[b]
  BY <1>1, LighterAfter
<1>3. w[n] < w[a]
  BY <1>1, <1>2
<1> QED BY <1>3, StandsBehind

\* Windows below the equals of window n stand behind it.
LEMMA StayingStand ==
    ASSUME NEW m \in Int, NEW w \in [0 .. m -> Int], NEW n \in 0 .. m,
           NEW s \in Seq(Nat), OnlyStanding(w, n, s), Rising(s), NoLighterTop(w, n, s),
           NEW k \in 0 .. Len(s), BelowEquals(w, n, s, k), NEW i \in 1 .. k
    PROVE  s[i] \in 0 .. n - 1 /\ Stands(w, n + 1, s[i])
<1>1. /\ Len(s) \in Nat /\ DOMAIN s = 1 .. Len(s) /\ (s = <<>> <=> Len(s) = 0)
      /\ \A j \in DOMAIN s : s[j] \in Nat
  BY Elements
<1>2. i \in DOMAIN s /\ k \in DOMAIN s /\ Len(s) \in DOMAIN s /\ s # <<>> /\ k # 0
  BY <1>1
<1>3. \A j \in DOMAIN s : Stands(w, n, s[j]) /\ s[j] \in 0 .. n - 1
  BY DEF OnlyStanding, Stands
<1>4. s[i] <= s[k] /\ s[k] <= s[Len(s)]
  <2>1. (i = k \/ i < k) /\ (k = Len(s) \/ k < Len(s))
    BY <1>1, <1>2
  <2>2. (i < k => s[i] < s[k]) /\ (k < Len(s) => s[k] < s[Len(s)])
    BY <1>2 DEF Rising
  <2>3. s[i] \in Nat /\ s[k] \in Nat /\ s[Len(s)] \in Nat
    BY <1>1, <1>2
  <2> QED BY <2>1, <2>2, <2>3
<1>5. w[s[Len(s)]] >= w[n] /\ w[s[k]] # w[n]
  BY <1>2 DEF NoLighterTop, BelowEquals
<1> DEFINE a == s[i]
           b == s[k]
           c == s[Len(s)]
<1>6. /\ a \in 0 .. n - 1 /\ b \in 0 .. n - 1 /\ c \in 0 .. n - 1
      /\ Stands(w, n, a) /\ Stands(w, n, b) /\ a <= b /\ b <= c /\ w[c] >= w[n] /\ w[b] # w[n]
  BY <1>2, <1>3, <1>4, <1>5
<1> HIDE DEF a, b, c
<1>7. Stands(w, n + 1, a)
  BY <1>6, StaysBehind
<1> QED BY <1>6, <1>7 DEF a

\* The first k elements of a sequence, and one more.
LEMMA PushedIs ==
    ASSUME NEW S, NEW s \in Seq(S), NEW k \in 0 .. Len(s), NEW x \in S
    PROVE  /\ Pushed(s, k, x) \in Seq(S) /\ Pushed(s, k, x) # <<>> /\ Len(Pushed(s, k, x)) = k + 1
           /\ DOMAIN Pushed(s, k, x) = 1 .. k + 1
           /\ \A i \in 1 .. k : i \in DOMAIN s /\ Pushed(s, k, x)[i] = s[i]
           /\ Pushed(s, k, x)[k + 1] = x
<1> DEFINE t == SubSeq(s, 1, k)
<1>1. /\ t \in Seq(S) /\ Len(t) = k /\ DOMAIN t = 1 .. k /\ \A i \in 1 .. k : t[i] = s[i]
  BY PrefixIs
<1>2. Len(s) \in Nat /\ DOMAIN s = 1 .. Len(s)
  BY Elements
<1> HIDE DEF t
<1>4. /\ Append(t, x) \in Seq(S) /\ Append(t, x) # <<>> /\ Len(Append(t, x)) = k + 1
      /\ DOMAIN Append(t, x) = 1 .. k + 1 /\ (\A i \in 1 .. k : Append(t, x)[i] = t[i])
      /\ Append(t, x)[k + 1] = x
  BY <1>1, AppendedIs
<1>5. \A i \in 1 .. k : i \in DOMAIN s /\ Append(t, x)[i] = s[i]
  BY <1>1, <1>2, <1>4
<1> QED BY <1>4, <1>5 DEF t, Pushed

\* So for windows.
LEMMA WindowPushed ==
    ASSUME NEW s \in Seq(Nat), NEW k \in 0 .. Len(s), NEW x \in Nat
    PROVE  /\ Pushed(s, k, x) \in Seq(Nat) /\ Pushed(s, k, x) # <<>> /\ Len(Pushed(s, k, x)) = k + 1
           /\ DOMAIN Pushed(s, k, x) = 1 .. k + 1
           /\ \A i \in 1 .. k : i \in DOMAIN s /\ Pushed(s, k, x)[i] = s[i]
           /\ Pushed(s, k, x)[k + 1] = x
<1> DEFINE S == Nat
<1>1. s \in Seq(S) /\ x \in S
  OBVIOUS
<1> HIDE DEF S
<1>2. /\ Pushed(s, k, x) \in Seq(S) /\ Pushed(s, k, x) # <<>> /\ Len(Pushed(s, k, x)) = k + 1
      /\ DOMAIN Pushed(s, k, x) = 1 .. k + 1
      /\ \A i \in 1 .. k : i \in DOMAIN s /\ Pushed(s, k, x)[i] = s[i]
      /\ Pushed(s, k, x)[k + 1] = x
  BY <1>1, PushedIs, SMTT(20)
<1> QED BY <1>2 DEF S

\* A window is on the new stack at one of its places.
LEMMA WindowOnStack ==
    ASSUME NEW s \in Seq(Nat), NEW k \in 0 .. Len(s), NEW x \in Nat
    PROVE  x \in ToSet(Pushed(s, k, x)) /\ \A i \in 1 .. k : s[i] \in ToSet(Pushed(s, k, x))
<1> DEFINE u == Pushed(s, k, x)
<1>1. /\ u \in Seq(Nat) /\ DOMAIN u = 1 .. k + 1 /\ (\A i \in 1 .. k : u[i] = s[i]) /\ u[k + 1] = x
  BY WindowPushed
<1>2. k + 1 \in 1 .. k + 1 /\ \A i \in 1 .. k : i \in 1 .. k + 1
  OBVIOUS
<1> HIDE DEF u
<1>3. \A i \in DOMAIN u : u[i] \in ToSet(u)
  BY <1>1, Elements
<1>4. x \in ToSet(u)
  BY <1>1, <1>2, <1>3
<1>5. ASSUME NEW i \in 1 .. k PROVE s[i] \in ToSet(u)
  BY <1>1, <1>2, <1>3
<1> QED BY <1>4, <1>5 DEF u

\* What pairing with the top adds.
LEMMA PairedIs ==
    ASSUME NEW m \in Int, NEW w \in [0 .. m -> Int], NEW n \in 0 .. m,
           NEW s \in Seq(Nat), NEW e \in Seq(Ranges), StackInv(w, m, n, s, e), NoLighterTop(w, n, s)
    PROVE  /\ Paired(n, s, e) \in Seq(Ranges) /\ EachOnce(Paired(n, s, e))
           /\ ToSet(e) \subseteq ToSet(Paired(n, s, e))
           /\ EndsAt(w, m, n, e, Paired(n, s, e))
           /\ s # <<>> /\ Near(n, s[Len(s)]) => <<s[Len(s)], n + span>> \in ToSet(Paired(n, s, e))
<1>1. CASE s # <<>> /\ Near(n, s[Len(s)])
  <2> DEFINE p == s[Len(s)]
             r == <<p, n + span>>
  <2>1. OnlyStanding(w, n, s) /\ Rising(s) /\ OnlyNamed(w, m, n, s, e) /\ EachOnce(e) /\ n \in Nat
    BY DEF StackInv
  <2>2. p \in 0 .. n - 1 /\ Stands(w, n, p) /\ Len(s) \in DOMAIN s
    BY <1>1, <2>1, TopIsHighest
  <2>3. w[p] >= w[n]
    BY <1>1 DEF NoLighterTop
  <2>4. \A i \in p + 1 .. n - 1 : w[i] < w[n]
    BY <1>1, <2>3, LighterSinceTop
  <2>5. \A g \in ToSet(e) : g[2] = n + span => p < g[1]
    BY <2>1, <2>2 DEF OnlyNamed
  <2>6. Paired(n, s, e) = Append(e, r)
    BY <1>1 DEF Paired
  <2>7. Near(n, p)
    BY <1>1
  <2> HIDE DEF p
  <2>8. p \in Nat /\ p < n
    BY <2>2
  <2>9. Named(w, m, r)
    <3>1. \A i \in p + 1 .. n - 1 : w[i] < w[p]
      BY <2>2 DEF Stands
    <3> QED BY <2>4, <2>7, <2>8, <3>1, NamedAt
  <2>10. r \in Ranges /\ r[1] = p /\ r[2] = n + span
    BY <2>8, SpanIs DEF Ranges
  <2>14. r = <<p, n + span>>
    OBVIOUS
  <2> HIDE DEF r
  <2>11. r \notin ToSet(e)
    <3> SUFFICES ASSUME r \in ToSet(e) PROVE FALSE
      OBVIOUS
    <3>1. r[2] = n + span
      BY <2>14
    <3>2. p < r[1]
      BY <2>5, <3>1
    <3> QED BY <2>8, <2>10, <3>2
  <2>13. Append(e, r) \in Seq(Ranges) /\ EachOnce(Append(e, r)) /\ ToSet(Append(e, r)) = ToSet(e) \union {r}
    BY <2>1, <2>10, <2>11, AppendedIs, AppendOnce
  <2> DEFINE f == Paired(n, s, e)
  <2>15. f \in Seq(Ranges) /\ EachOnce(f) /\ ToSet(f) = ToSet(e) \union {r}
    BY <2>6, <2>13
  <2> HIDE DEF f
  <2>16. /\ ToSet(e) \subseteq ToSet(f) /\ r \in ToSet(f)
         /\ EndsAt(w, m, n, e, f)
    BY <2>9, <2>10, <2>15 DEF EndsAt
  <2> QED BY <2>14, <2>15, <2>16 DEF f, p
<1>2. CASE ~(s # <<>> /\ Near(n, s[Len(s)]))
  <2> DEFINE f == Paired(n, s, e)
  <2>1. f = e
    BY <1>2 DEF Paired
  <2>2. EachOnce(e)
    BY DEF StackInv
  <2> HIDE DEF f
  <2>3. /\ f \in Seq(Ranges) /\ EachOnce(f) /\ ToSet(e) \subseteq ToSet(f)
        /\ EndsAt(w, m, n, e, f)
    BY <2>1, <2>2 DEF EndsAt
  <2> QED BY <1>2, <2>3 DEF f
<1> QED BY <1>1, <1>2

\* Pairing with the top completes the grams that end at the window reached.
LEMMA PairedComplete ==
    ASSUME NEW m \in Int, NEW w \in [0 .. m -> Int], NEW n \in 0 .. m,
           NEW s \in Seq(Nat), NEW e \in Seq(Ranges), StackInv(w, m, n, s, e), NoLighterTop(w, n, s),
           NEW q \in 0 .. n - 1, Near(n, q), \A i \in q + 1 .. n - 1 : w[i] < w[q] /\ w[i] < w[n]
    PROVE  <<q, n + span>> \in ToSet(Paired(n, s, e))
<1>1. OnlyStanding(w, n, s) /\ Rising(s) /\ NoneLost(w, n, s, e) /\ n \in Nat
  BY DEF StackInv
<1>2. Stands(w, n, q) /\ q \in Nat
  BY DEF Stands
<1>3. q \in ToSet(s) \/ <<q, n + span>> \in ToSet(e)
  BY <1>1, <1>2 DEF NoneLost
<1>4. CASE q \in ToSet(s)
  <2> DEFINE p == s[Len(s)]
  <2>1. PICK i \in DOMAIN s : s[i] = q
    BY <1>4, Elements
  <2>2. s # <<>>
    <3>1. DOMAIN <<>> = {}
      OBVIOUS
    <3> QED BY <2>1, <3>1
  <2>3. p \in 0 .. n - 1 /\ s[i] <= p
    BY <1>1, <2>1, <2>2, TopIsHighest
  <2>4. w[p] >= w[n]
    BY <2>2 DEF NoLighterTop
  <2> HIDE DEF p
  <2>5. q <= p
    BY <2>1, <2>3
  <2>6. ASSUME q < p PROVE FALSE
    <3>1. p \in q + 1 .. n - 1
      BY <2>3, <2>6
    <3>2. w[p] < w[n]
      BY <3>1
    <3>3. w[p] \in Int /\ w[n] \in Int
      BY <2>3
    <3> QED BY <2>4, <3>2, <3>3, SMTT(20)
  <2>7. p = q
    BY <2>3, <2>5, <2>6
  <2>8. <<p, n + span>> \in ToSet(Paired(n, s, e))
    BY <2>2, <2>7, PairedIs DEF p
  <2> QED BY <2>7, <2>8
<1> QED BY <1>3, <1>4, PairedIs

\* The window reached pairs with the top, retires its equals and is pushed.
LEMMA PushKeeps ==
    ASSUME NEW m \in Int, NEW w \in [0 .. m -> Int], NEW n \in 0 .. m,
           NEW s \in Seq(Nat), NEW e \in Seq(Ranges), StackInv(w, m, n, s, e), NoLighterTop(w, n, s),
           NEW k \in 0 .. Len(s), BelowEquals(w, n, s, k)
    PROVE  StackInv(w, m, n + 1, Pushed(s, k, n), Paired(n, s, e))
<1>1. /\ OnlyStanding(w, n, s) /\ Rising(s) /\ NoneLost(w, n, s, e) /\ n \in Nat
      /\ OnlyNamed(w, m, n, s, e) /\ AllBefore(w, m, n, e)
  BY DEF StackInv
<1> DEFINE f == Paired(n, s, e)
           u == Pushed(s, k, n)
<1> HIDE DEF f, u
<1>2. /\ DOMAIN u = 1 .. k + 1 /\ (\A i \in 1 .. k : i \in DOMAIN s /\ u[i] = s[i]) /\ u[k + 1] = n
  BY <1>1, WindowPushed DEF u
<1>3. DOMAIN s = 1 .. Len(s) /\ Len(s) \in Nat /\ \A x \in ToSet(s) : \E i \in DOMAIN s : s[i] = x
  BY Elements
<1>4. EachOnce(f) /\ ToSet(e) \subseteq ToSet(f) /\ EndsAt(w, m, n, e, f)
  <2>1. EachOnce(f)
    BY PairedIs DEF f
  <2>2. ToSet(e) \subseteq ToSet(f)
    BY PairedIs DEF f
  <2>3. EndsAt(w, m, n, e, f)
    BY PairedIs DEF f
  <2> QED BY <2>1, <2>2, <2>3
<1>5. \A i \in 1 .. k : u[i] \in 0 .. n - 1 /\ Stands(w, n + 1, u[i])
  BY <1>1, <1>2, StayingStand
<1>6. \A i \in DOMAIN u : i \in 1 .. k \/ i = k + 1
  BY <1>2, <1>3
<1>7. OnlyStanding(w, n + 1, u)
  <2>1. Stands(w, n + 1, n)
    BY <1>1 DEF Stands
  <2> QED BY <1>2, <1>5, <1>6, <2>1 DEF OnlyStanding
<1>8. Rising(u)
  <2>1. ASSUME NEW i \in DOMAIN u, NEW j \in DOMAIN u, i < j PROVE u[i] < u[j]
    <3>1. i \in 1 .. k /\ i \in DOMAIN s /\ u[i] = s[i]
      BY <1>2, <2>1
    <3>2. CASE j \in 1 .. k
      BY <1>1, <1>2, <2>1, <3>1, <3>2 DEF Rising
    <3>3. CASE j = k + 1
      BY <1>2, <1>5, <3>1, <3>3
    <3>4. j \in 1 .. k \/ j = k + 1
      BY <1>6
    <3> QED BY <3>2, <3>3, <3>4
  <2> QED BY <2>1 DEF Rising
<1>9. NoneLost(w, n + 1, u, f)
  <2>1. ASSUME NEW q \in Nat, Stands(w, n + 1, q), Near(n + 1, q), q # n PROVE q \in ToSet(u)
    <3>1. q \in 0 .. n - 1 /\ Stands(w, n, q) /\ w[n] < w[q]
      BY <1>1, <2>1, StoodBefore
    <3>2. Near(n, q)
      BY <1>1, <2>1, SpanIs DEF Near
    <3>3. q \in ToSet(s) \/ <<q, n + span>> \in ToSet(e)
      BY <1>1, <3>1, <3>2 DEF NoneLost
    <3>4. w[n] \in Int /\ w[q] \in Int
      BY <3>1
    <3>5. <<q, n + span>> \notin ToSet(e)
      <4>1. ASSUME <<q, n + span>> \in ToSet(e) PROVE w[q] < w[n]
        BY <1>1, <4>1 DEF OnlyNamed
      <4> QED BY <3>1, <3>4, <4>1
    <3>6. PICK i \in DOMAIN s : s[i] = q
      BY <1>3, <3>3, <3>5
    <3>7. w[q] # w[n]
      BY <3>1, <3>4
    <3>8. i \in DOMAIN s /\ w[s[i]] # w[n]
      BY <3>6, <3>7
    <3>9. i <= k
      BY <3>8 DEF BelowEquals
    <3>10. i \in 1 .. k
      BY <1>3, <3>9
    <3> QED BY <1>1, <3>6, <3>10, WindowOnStack DEF u
  <2>2. n \in ToSet(u)
    BY <1>1, WindowOnStack DEF u
  <2> QED BY <2>1, <2>2 DEF NoneLost
<1>10. OnlyNamed(w, m, n + 1, u, f)
  <2>1. ASSUME NEW g \in ToSet(f) PROVE Named(w, m, g) /\ g[2] <= n + span
    <3>1. CASE g \in ToSet(e)
      BY <1>1, <3>1 DEF OnlyNamed
    <3>2. CASE Named(w, m, g) /\ g[2] = n + span
      BY <1>1, <3>2, SpanIs
    <3> QED BY <1>4, <3>1, <3>2 DEF EndsAt
  <2>2. ASSUME NEW g \in ToSet(f) PROVE g[2] <= n + 1 + span /\ g[2] # n + 1 + span
    <3>1. g[2] \in Nat /\ g[2] <= n + span
      BY <2>1 DEF Named
    <3> QED BY <1>1, <3>1, SpanIs
  <2> QED BY <2>1, <2>2 DEF OnlyNamed
<1>11. AllBefore(w, m, n + 1, f)
  <2>1. ASSUME NEW g, Named(w, m, g), g[2] < n + 1 + span PROVE g \in ToSet(f)
    <3>1. CASE g[2] < n + span
      BY <1>1, <1>4, <2>1, <3>1 DEF AllBefore
    <3>2. CASE g[2] = n + span
      <4> DEFINE q == g[1]
      <4>1. g = <<q, n + span>> /\ q \in 0 .. n - 1 /\ q \in Nat /\ q < n
        <5>1. g = <<g[1], g[2]>> /\ g[1] \in Nat /\ g[1] < g[2] - span
          BY <1>1, <2>1, NamedStarts
        <5> QED BY <1>1, <3>2, <5>1, SpanIs
      <4> HIDE DEF q
      <4>2. Near(n, q) /\ \A i \in q + 1 .. n - 1 : w[i] < w[q] /\ w[i] < w[n]
        BY <2>1, <4>1, NamedAt
      <4> QED BY <4>1, <4>2, PairedComplete DEF f
    <3>3. g[2] < n + span \/ g[2] = n + span
      BY <1>1, <2>1, NamedStarts
    <3> QED BY <3>1, <3>2, <3>3
  <2> QED BY <2>1 DEF AllBefore
<1>12. StackInv(w, m, n + 1, u, f)
  BY <1>4, <1>7, <1>8, <1>9, <1>10, <1>11 DEF StackInv
<1> QED BY <1>12 DEF f, u

\* Some gram ends at each window but the first: the window before it stands.
LEMMA PairedReaches ==
    ASSUME NEW m \in Int, NEW w \in [0 .. m -> Int], NEW n \in 0 .. m, n > 0,
           NEW s \in Seq(Nat), NEW e \in Seq(Ranges), StackInv(w, m, n, s, e), NoLighterTop(w, n, s)
    PROVE  <<n - 1, n + span>> \in ToSet(Paired(n, s, e))
<1>1. n - 1 \in 0 .. n - 1 /\ Near(n, n - 1) /\ n - 1 + 1 .. n - 1 = {}
  BY SpanIs DEF Near
<1> DEFINE q == n - 1
<1>2. q \in 0 .. n - 1 /\ Near(n, q) /\ \A i \in q + 1 .. n - 1 : w[i] < w[q] /\ w[i] < w[n]
  BY <1>1
<1> HIDE DEF q
<1>3. <<q, n + span>> \in ToSet(Paired(n, s, e))
  BY <1>2, PairedComplete
<1> QED BY <1>3 DEF q

-----------------------------------------------------------------------------
(* The covering grams *)

\* What the grams are by the stack's invariant.
LEMMA GramsStart ==
    ASSUME NEW m \in Int, NEW w, NEW n \in Nat, NEW s \in Seq(Nat), NEW e \in Seq(Ranges),
           OnlyNamed(w, m, n, s, e), NEW g \in ToSet(e)
    PROVE  /\ g[1] \in Nat /\ g[2] \in Nat /\ g[1] < g[2] - span /\ g[2] > span /\ g[2] <= n + span
           /\ g[2] = n + span => \A i \in DOMAIN s : s[i] < g[1]
<1>1. Named(w, m, g) /\ g[2] <= n + span /\ (g[2] = n + span => \A i \in DOMAIN s : s[i] < g[1])
  BY DEF OnlyNamed
<1> QED BY <1>1, NamedStarts

\* Elements of a sequence of ranges.
LEMMA RangesIn ==
    ASSUME NEW c \in Seq(Ranges)
    PROVE  /\ Len(c) \in Nat /\ DOMAIN c = 1 .. Len(c) /\ (c = <<>> <=> Len(c) = 0)
           /\ \A i \in DOMAIN c : c[i] \in ToSet(c) /\ c[i] \in Ranges /\ c[i][1] \in Nat /\ c[i][2] \in Nat
           /\ \A x \in ToSet(c) : x \in Ranges /\ x[1] \in Nat /\ x[2] \in Nat /\ \E i \in DOMAIN c : c[i] = x
<1>1. /\ Len(c) \in Nat /\ DOMAIN c = 1 .. Len(c) /\ (c = <<>> <=> Len(c) = 0)
      /\ \A i \in DOMAIN c : c[i] \in Ranges /\ c[i] \in ToSet(c)
      /\ \A x \in ToSet(c) : x \in Ranges /\ \E i \in DOMAIN c : c[i] = x
  BY Elements
<1>2. \A x \in Ranges : x[1] \in Nat /\ x[2] \in Nat
  BY DEF Ranges
<1> QED BY <1>1, <1>2

\* A gram that starts at a border, past the windows on the stack, retires the
\* grams that start no earlier, all of which it holds, and joins the last one
\* left at their window.
LEMMA CoverEmits ==
    ASSUME NEW n \in Nat, NEW s \in Seq(Nat), NEW e \in Seq(Ranges), NEW c \in Seq(Ranges),
           CoverInv(n, s, e, c), NEW p \in Nat, \A i \in DOMAIN s : s[i] <= p,
           StartPast(n, p, e), Border(c, p), NEW k \in 0 .. Len(c), StartBefore(c, k, p),
           NEW r \in Ranges, r[1] = p, r[2] = n + span
    PROVE  Pushed(c, k, r) \in Seq(Ranges) /\ CoverInv(n, s, Append(e, r), Pushed(c, k, r))
<1> DEFINE d == Pushed(c, k, r)
           f == Append(e, r)
<1>2. /\ ToSet(c) \subseteq ToSet(e) /\ BothRise(c) /\ HoldsAll(e, c)
      /\ Chained(c) /\ FirstToLast(n, c) /\ Bordered(s, c)
  BY DEF CoverInv
<1>3. r[1] = p /\ r[2] = n + span /\ r[2] \in Nat
  BY SpanIs
<1>4. Len(c) \in Nat /\ DOMAIN c = 1 .. Len(c) /\ k \in Nat /\ k <= Len(c)
  BY RangesIn
<1>5. ASSUME NEW i \in DOMAIN c
      PROVE  /\ c[i] \in ToSet(e) /\ c[i][1] \in Nat /\ c[i][2] \in Nat /\ c[i][1] < c[i][2] - span
             /\ c[i][2] <= n + span /\ (c[i][1] < p => c[i][2] < n + span)
             /\ i <= k => c[i][1] < p
             /\ ~(i <= k) => p <= c[i][1]
  <2> DEFINE g == c[i]
  <2>1. g \in ToSet(e) /\ g[1] \in Nat /\ g[2] \in Nat
    BY <1>2, RangesIn
  <2>2. g[1] < p <=> i <= k
    BY DEF StartBefore
  <2> HIDE DEF g
  <2>3. g[1] < g[2] - span /\ g[2] <= n + span /\ (g[2] = n + span => p < g[1])
    BY <2>1 DEF StartPast
  <2>4. g[1] < p => g[2] < n + span
    <3> DEFINE a == g[1]
               b == g[2]
               l == n + span
    <3>1. a \in Nat /\ b \in Nat /\ l \in Nat /\ b <= l /\ (b = l => p < a)
      BY <2>1, <2>3, SpanIs
    <3> HIDE DEF a, b, l
    <3>2. a < p => b < l
      BY <3>1
    <3> QED BY <3>2 DEF a, b, l
  <2>5. (i <= k => g[1] < p) /\ (~(i <= k) => p <= g[1])
    BY <2>1, <2>2
  <2> QED BY <2>1, <2>3, <2>4, <2>5 DEF g
<1> HIDE DEF d, f
<1>7. /\ d \in Seq(Ranges) /\ d # <<>> /\ Len(d) = k + 1 /\ DOMAIN d = 1 .. k + 1
      /\ \A i \in 1 .. k : i \in DOMAIN c /\ d[i] = c[i]
      /\ d[k + 1] = r
  BY PushedIs DEF d
<1>8. ToSet(f) = ToSet(e) \union {r}
  BY AppendedIs DEF f
<1>9. \A i \in DOMAIN d : (i \in 1 .. k /\ i \in DOMAIN c /\ d[i] = c[i]) \/ (i = k + 1 /\ d[i] = r)
  BY <1>4, <1>7
<1>10. ToSet(d) \subseteq ToSet(f)
  <2>1. ASSUME NEW x \in ToSet(d) PROVE x \in ToSet(f)
    <3>1. PICK i \in DOMAIN d : d[i] = x
      BY <1>7, RangesIn
    <3> QED BY <1>5, <1>8, <1>9, <3>1
  <2> QED BY <2>1
<1>11. BothRise(d)
  <2>1. ASSUME NEW i \in DOMAIN d, NEW j \in DOMAIN d, i < j PROVE d[i][1] < d[j][1] /\ d[i][2] < d[j][2]
    <3>1. i \in 1 .. k /\ i \in DOMAIN c /\ d[i] = c[i]
      BY <1>4, <1>7, <1>9, <2>1
    <3>2. CASE j \in 1 .. k /\ j \in DOMAIN c /\ d[j] = c[j]
      BY <1>2, <2>1, <3>1, <3>2 DEF BothRise
    <3>3. CASE d[j] = r
      <4>1. c[i][1] < p /\ c[i][2] < n + span
        BY <1>5, <3>1
      <4> QED BY <1>3, <3>1, <3>3, <4>1
    <3> QED BY <1>9, <3>2, <3>3
  <2> QED BY <2>1 DEF BothRise
<1>12. \A i \in 1 .. k : i \in DOMAIN d
  BY <1>4, <1>7
<1>13. k + 1 \in DOMAIN d
  BY <1>4, <1>7
<1>14. HoldsAll(f, d)
  <2>1. ASSUME NEW g \in ToSet(e) PROVE \E i \in DOMAIN d : Inside(g, d[i])
    <3>1. PICK i \in DOMAIN c : Inside(g, c[i])
      BY <1>2 DEF HoldsAll
    <3>2. CASE i <= k
      <4>1. i \in 1 .. k
        BY <1>4, <3>2
      <4> QED BY <1>7, <1>12, <3>1, <4>1
    <3>3. CASE ~(i <= k)
      <4> DEFINE h == c[i]
      <4>1. p <= h[1] /\ h[2] <= n + span /\ h[1] \in Nat /\ h[2] \in Nat
        BY <1>5, <3>3
      <4>2. g[1] \in Nat /\ g[2] \in Nat
        BY RangesIn
      <4>3. Inside(g, h)
        BY <3>1
      <4> HIDE DEF h
      <4>4. h[1] <= g[1] /\ g[2] <= h[2]
        BY <4>3 DEF Inside
      <4>5. Inside(g, r)
        BY <1>3, <4>1, <4>2, <4>4, SpanIs, SMTT(20) DEF Inside
      <4> QED BY <1>7, <1>13, <4>5
    <3> QED BY <3>2, <3>3
  <2>2. Inside(r, d[k + 1])
    BY <1>3, <1>7 DEF Inside
  <2> QED BY <1>8, <1>13, <2>1, <2>2 DEF HoldsAll
<1>15. ASSUME NEW i \in DOMAIN c, c[i][2] - span = p PROVE i = k
  <2>1. i <= k
    BY <1>5, <1>15
  <2>2. ASSUME i < k PROVE FALSE
    <3>1. i \in 1 .. Len(c) - 1 /\ i + 1 \in DOMAIN c /\ i + 1 <= k
      BY <1>4, <2>2
    <3>2. c[i][2] - c[i + 1][1] = span
      BY <1>2, <3>1 DEF Chained
    <3>3. c[i + 1][1] < p /\ c[i + 1][1] \in Nat /\ c[i][2] \in Nat
      BY <1>5, <3>1
    <3> DEFINE a == c[i][2]
               b == c[i + 1][1]
    <3>4. a - b = span /\ b < p /\ b \in Nat /\ a \in Nat /\ a - span = p
      BY <1>15, <3>2, <3>3
    <3> HIDE DEF a, b
    <3> QED BY <3>4, SpanIs
  <2> QED BY <1>4, <2>1, <2>2
<1>16. ASSUME k # 0 PROVE k \in DOMAIN c /\ c[k][2] - span = p
  <2>1. k \in DOMAIN c
    BY <1>4, <1>16
  <2>2. c[k][1] < p /\ c[k][1] \in Nat
    BY <1>4, <1>5, <2>1
  <2>3. p # 0
    BY <2>2
  <2> QED BY <1>15, <2>1, <2>3 DEF Border
<1>17. k = 0 => p = 0
  <2>1. ASSUME k = 0, NEW i \in DOMAIN c, c[i][2] - span = p PROVE FALSE
    <3>1. i = k
      BY <1>15, <2>1
    <3> QED BY <1>4, <2>1, <3>1
  <2> QED BY <2>1 DEF Border
<1>18. Chained(d)
  <2>1. ASSUME NEW i \in 1 .. Len(d) - 1 PROVE d[i][2] - d[i + 1][1] = span
    <3>1. i \in 1 .. k /\ d[i] = c[i] /\ i \in DOMAIN c
      BY <1>4, <1>7
    <3>2. CASE i = k
      <4> DEFINE a == c[k][2]
      <4>1. a - span = p /\ a \in Nat
        BY <1>4, <1>5, <1>16, <3>1, <3>2
      <4>2. d[i][2] = a /\ d[i + 1][1] = p
        BY <1>3, <1>7, <3>1, <3>2
      <4> HIDE DEF a
      <4>3. a - p = span
        BY <4>1, SpanIs
      <4> QED BY <4>2, <4>3
    <3>3. CASE i # k
      <4>1. i + 1 \in 1 .. k /\ i \in 1 .. Len(c) - 1
        BY <1>4, <3>1, <3>3
      <4> QED BY <1>2, <1>7, <3>1, <4>1 DEF Chained
    <3> QED BY <3>2, <3>3
  <2> QED BY <2>1 DEF Chained
<1>19. FirstToLast(n, d)
  <2>1. d[1][1] = 0
    <3>1. CASE k = 0
      <4>1. d[1] = r
        BY <1>7, <3>1
      <4> QED BY <1>3, <1>17, <3>1, <4>1
    <3>2. CASE k # 0
      <4>1. 1 \in 1 .. k /\ c # <<>>
        BY <1>4, <3>2, RangesIn
      <4> QED BY <1>2, <1>7, <4>1 DEF FirstToLast
    <3> QED BY <3>1, <3>2
  <2>2. d[Len(d)][2] >= n - 1 + span
    <3>1. d[Len(d)] = r
      BY <1>7
    <3> QED BY <1>3, <3>1, SpanIs
  <2> QED BY <1>7, <2>1, <2>2 DEF FirstToLast
<1>20. Bordered(s, d)
  <2>1. ASSUME NEW i \in DOMAIN s PROVE Border(d, s[i])
    <3> DEFINE q == s[i]
    <3>1. Border(c, q)
      BY <1>2 DEF Bordered
    <3>2. q <= p /\ q \in Nat
      BY Elements
    <3> HIDE DEF q
    <3>3. ASSUME NEW j \in DOMAIN c, c[j][2] - span = q PROVE \E l \in DOMAIN d : d[l][2] - span = q
      <4> DEFINE g == c[j]
      <4>1. g[1] \in Nat /\ g[2] \in Nat /\ g[1] < g[2] - span /\ g[2] - span = q /\ (~(j <= k) => p <= g[1])
        BY <1>5, <3>3
      <4> HIDE DEF g
      <4>2. j <= k
        <5>1. g[1] < q
          BY <4>1
        <5> DEFINE a == g[1]
        <5>2. a \in Nat /\ a < q /\ (~(j <= k) => p <= a)
          BY <4>1, <5>1
        <5> HIDE DEF a
        <5> QED BY <3>2, <5>2
      <4>3. j \in 1 .. k
        BY <1>4, <4>2
      <4> QED BY <1>7, <1>12, <3>3, <4>3
    <3>4. Border(d, q)
      BY <3>1, <3>3 DEF Border
    <3> QED BY <3>4 DEF q
  <2> QED BY <2>1 DEF Bordered
<1>21. CoverInv(n, s, f, d)
  BY <1>10, <1>11, <1>14, <1>18, <1>19, <1>20 DEF CoverInv
<1> QED BY <1>7, <1>21 DEF d, f

\* A stack of fewer windows.
LEMMA BorderedLess ==
    ASSUME NEW n, NEW s, NEW t, NEW e, NEW c, CoverInv(n, s, e, c),
           \A i \in DOMAIN t : \E j \in DOMAIN s : t[i] = s[j]
    PROVE  CoverInv(n, t, e, c)
BY DEF CoverInv, Bordered

\* Some gram ends at the window pushed, so the last covering gram does.
LEMMA CoverPushes ==
    ASSUME NEW n \in Nat, NEW s \in Seq(Nat), NEW e \in Seq(Ranges), NEW c \in Seq(Ranges),
           CoverInv(n, s, e, c), \A g \in ToSet(e) : span < g[2] /\ g[2] <= n + span,
           n > 0 => \E g \in ToSet(e) : g[2] = n + span,
           NEW k \in 0 .. Len(s)
    PROVE  CoverInv(n + 1, Pushed(s, k, n), e, c)
<1> DEFINE t == Pushed(s, k, n)
<1>1. /\ ToSet(c) \subseteq ToSet(e) /\ BothRise(c) /\ HoldsAll(e, c)
      /\ Chained(c) /\ FirstToLast(n, c) /\ Bordered(s, c)
  BY DEF CoverInv
<1>2. /\ Len(c) \in Nat /\ DOMAIN c = 1 .. Len(c) /\ (c = <<>> <=> Len(c) = 0)
      /\ \A i \in DOMAIN c : c[i] \in ToSet(e) /\ c[i][2] \in Nat
  BY <1>1, RangesIn
<1>3. Len(s) \in Nat /\ k \in Nat
  BY Elements
<1> HIDE DEF t
<1>4. /\ DOMAIN t = 1 .. k + 1 /\ (\A i \in 1 .. k : i \in DOMAIN s /\ t[i] = s[i]) /\ t[k + 1] = n
  <2>1. DOMAIN t = 1 .. k + 1 /\ t[k + 1] = n
    BY WindowPushed DEF t
  <2>2. \A i \in 1 .. k : i \in DOMAIN s /\ t[i] = s[i]
    BY WindowPushed DEF t
  <2> QED BY <2>1, <2>2
<1>5. \A i \in DOMAIN t : (i \in 1 .. k /\ i \in DOMAIN s /\ t[i] = s[i]) \/ t[i] = n
  BY <1>3, <1>4
<1>6. ASSUME c # <<>> PROVE Len(c) \in DOMAIN c /\ c[Len(c)][2] = n + span
  <2> DEFINE a == c[Len(c)][2]
  <2>1. Len(c) \in DOMAIN c
    BY <1>2, <1>6
  <2>2. a \in Nat /\ span < a /\ a <= n + span
    BY <1>2, <2>1
  <2>3. CASE n = 0
    <3> HIDE DEF a
    <3>1. a = n + span
      BY <2>2, <2>3, SpanIs
    <3> QED BY <2>2, <2>3, SpanIs
  <2>4. CASE n > 0
    <3>1. PICK g \in ToSet(e) : g[2] = n + span
      BY <2>4
    <3>2. PICK i \in DOMAIN c : Inside(g, c[i])
      BY <1>1 DEF HoldsAll
    <3>3. i = Len(c) \/ i < Len(c)
      BY <1>2
    <3>4. i < Len(c) => c[i][2] < a
      BY <1>1, <2>1 DEF BothRise
    <3> DEFINE b == c[i][2]
               l == n + span
    <3>5. b \in Nat /\ l \in Nat /\ l <= b /\ (b = a \/ b < a) /\ a <= l
      BY <1>2, <2>2, <3>1, <3>2, <3>3, <3>4, SpanIs DEF Inside
    <3> HIDE DEF a, b, l
    <3>6. a = l
      BY <2>2, <3>5
    <3> QED BY <2>1, <3>6 DEF a, l
  <2> QED BY <2>3, <2>4
<1>7. FirstToLast(n + 1, c)
  <2>1. c # <<>> => c[1][1] = 0 /\ c[Len(c)][2] >= n + 1 - 1 + span
    <3>1. n + 1 - 1 + span = n + span /\ n + span >= n + span
      BY SpanIs
    <3> QED BY <1>1, <1>6, <3>1 DEF FirstToLast
  <2>2. c = <<>> => n + 1 <= 1
    <3>1. ASSUME c = <<>>, n > 0 PROVE FALSE
      <4>1. PICK g \in ToSet(e) : g[2] = n + span
        BY <3>1
      <4>2. PICK i \in DOMAIN c : Inside(g, c[i])
        BY <1>1 DEF HoldsAll
      <4> QED BY <1>2, <3>1, <4>2
    <3> QED BY <3>1
  <2> QED BY <2>1, <2>2 DEF FirstToLast
<1>8. Border(c, n)
  <2>1. CASE n = 0
    BY <2>1 DEF Border
  <2>2. CASE n > 0
    <3>1. c # <<>>
      BY <1>7, <2>2 DEF FirstToLast
    <3>2. Len(c) \in DOMAIN c /\ c[Len(c)][2] = n + span
      BY <1>6, <3>1
    <3> DEFINE a == c[Len(c)][2]
    <3>3. a = n + span
      BY <3>2
    <3> HIDE DEF a
    <3>4. a - span = n
      BY <3>3, SpanIs
    <3> QED BY <3>2, <3>4 DEF Border, a
  <2> QED BY <2>1, <2>2
<1>9. Bordered(t, c)
  <2>1. ASSUME NEW i \in DOMAIN t PROVE Border(c, t[i])
    BY <1>1, <1>5, <1>8 DEF Bordered
  <2> QED BY <2>1 DEF Bordered
<1>10. CoverInv(n + 1, t, e, c)
  BY <1>1, <1>7, <1>9 DEF CoverInv
<1> QED BY <1>10 DEF t

\* The first grams of a chain are those that start before p.
LEMMA StartedBefore ==
    ASSUME NEW c \in Seq(Ranges), BothRise(c), NEW p \in Nat
    PROVE  /\ Max({0} \union {i \in DOMAIN c : c[i][1] < p}) \in 0 .. Len(c)
           /\ StartBefore(c, Max({0} \union {i \in DOMAIN c : c[i][1] < p}), p)
<1> DEFINE T == {i \in DOMAIN c : c[i][1] < p}
           k == Max({0} \union T)
<1>1. Len(c) \in Nat /\ DOMAIN c = 1 .. Len(c) /\ \A i \in DOMAIN c : c[i][1] \in Nat
  BY RangesIn
<1>2. T \in SUBSET (1 .. Len(c))
  BY <1>1
<1>3. \A i \in DOMAIN c : i \in T <=> c[i][1] < p
  OBVIOUS
<1> HIDE DEF T
<1>4. k \in 0 .. Len(c) /\ (\A i \in T : i <= k) /\ (k # 0 => k \in T)
  BY <1>1, <1>2, LastOfPlaces
<1> HIDE DEF k
<1>5. ASSUME NEW i \in DOMAIN c, i <= k PROVE c[i][1] < p
  <2>1. k # 0 /\ k \in DOMAIN c /\ k \in T
    BY <1>1, <1>2, <1>4, <1>5
  <2>2. c[k][1] < p
    BY <1>3, <2>1
  <2>3. i = k \/ i < k
    BY <1>1, <1>4, <1>5
  <2>4. i < k => c[i][1] < c[k][1]
    BY <2>1 DEF BothRise
  <2> DEFINE a == c[i][1]
             b == c[k][1]
  <2>5. a \in Nat /\ b \in Nat /\ b < p /\ (a = b \/ a < b)
    BY <1>1, <2>1, <2>2, <2>3, <2>4
  <2> HIDE DEF a, b
  <2>6. a < p
    BY <2>5
  <2> QED BY <2>6 DEF a
<1>6. ASSUME NEW i \in DOMAIN c, c[i][1] < p PROVE i <= k
  BY <1>3, <1>4, <1>6
<1>7. StartBefore(c, k, p)
  BY <1>5, <1>6 DEF StartBefore
<1> QED BY <1>4, <1>7 DEF k, T

\* The first windows of the stack are those below the equals of window n.
LEMMA StaysBelow ==
    ASSUME NEW w, NEW n, NEW s \in Seq(Nat)
    PROVE  /\ Max({0} \union {i \in DOMAIN s : w[s[i]] # w[n]}) \in 0 .. Len(s)
           /\ BelowEquals(w, n, s, Max({0} \union {i \in DOMAIN s : w[s[i]] # w[n]}))
<1> DEFINE T == {i \in DOMAIN s : w[s[i]] # w[n]}
           k == Max({0} \union T)
<1>1. Len(s) \in Nat /\ DOMAIN s = 1 .. Len(s)
  BY Elements
<1>2. T \in SUBSET (1 .. Len(s))
  BY <1>1
<1>3. \A i : i \in T <=> i \in DOMAIN s /\ w[s[i]] # w[n]
  OBVIOUS
<1> HIDE DEF T
<1>4. k \in 0 .. Len(s) /\ (\A i \in T : i <= k) /\ (k # 0 => k \in T)
  BY <1>1, <1>2, LastOfPlaces
<1> HIDE DEF k
<1>5. BelowEquals(w, n, s, k)
  BY <1>3, <1>4, Zenon DEF BelowEquals
<1> QED BY <1>4, <1>5 DEF k, T

\* The gram that pairs the top with the window reached joins the covering grams.
LEMMA PairCovers ==
    ASSUME NEW m \in Int, NEW w \in [0 .. m -> Int], NEW n \in 0 .. m,
           NEW s \in Seq(Nat), NEW e \in Seq(Ranges), StackInv(w, m, n, s, e), s # <<>>,
           NEW c \in Seq(Ranges), CoverInv(n, s, e, c)
    PROVE  /\ CoveredBy(c, <<s[Len(s)], n + span>>) \in Seq(Ranges)
           /\ CoverInv(n, s, Append(e, <<s[Len(s)], n + span>>), CoveredBy(c, <<s[Len(s)], n + span>>))
<1> DEFINE p == s[Len(s)]
           r == <<p, n + span>>
           k == Max({0} \union {i \in DOMAIN c : c[i][1] < p})
<1>1. OnlyStanding(w, n, s) /\ Rising(s) /\ OnlyNamed(w, m, n, s, e) /\ n \in Nat
  BY DEF StackInv
<1>2. BothRise(c) /\ Bordered(s, c)
  BY DEF CoverInv
<1>3. Len(s) \in DOMAIN s /\ p \in 0 .. n - 1 /\ \A i \in DOMAIN s : s[i] <= p
  BY <1>1, TopIsHighest
<1>4. Border(c, p)
  BY <1>2, <1>3 DEF Bordered
<1>5. StartPast(n, p, e)
  <2>1. ASSUME NEW g \in ToSet(e)
        PROVE  g[1] < g[2] - span /\ g[2] <= n + span /\ (g[2] = n + span => p < g[1])
    BY <1>1, <1>3, GramsStart
  <2> QED BY <2>1 DEF StartPast
<1> HIDE DEF p
<1>6. p \in Nat
  BY <1>3
<1>7. k \in 0 .. Len(c) /\ StartBefore(c, k, p)
  BY <1>2, <1>6, StartedBefore
<1> HIDE DEF k
<1>8. r[1] = p /\ r[2] = n + span /\ r \in Ranges
  BY <1>1, <1>6, SpanIs DEF Ranges
<1> HIDE DEF r
<1>9. Pushed(c, k, r) \in Seq(Ranges) /\ CoverInv(n, s, Append(e, r), Pushed(c, k, r))
  BY <1>1, <1>3, <1>4, <1>5, <1>6, <1>7, <1>8, CoverEmits
<1>10. Pushed(c, k, r) = CoveredBy(c, r)
  BY <1>8 DEF CoveredBy, k
<1> QED BY <1>9, <1>10 DEF r, p

\* The window reached joins the stack with the gram that pairs it with the top.
LEMMA PushCovers ==
    ASSUME NEW m \in Int, NEW w \in [0 .. m -> Int], NEW n \in 0 .. m,
           NEW s \in Seq(Nat), NEW e \in Seq(Ranges), StackInv(w, m, n, s, e), NoLighterTop(w, n, s),
           NEW c \in Seq(Ranges), CoverInv(n, s, e, c), NEW k \in 0 .. Len(s)
    PROVE  /\ PairedCover(n, s, c) \in Seq(Ranges)
           /\ CoverInv(n + 1, Pushed(s, k, n), Paired(n, s, e), PairedCover(n, s, c))
<1> DEFINE f == Paired(n, s, e)
           d == PairedCover(n, s, c)
<1>1. OnlyNamed(w, m, n, s, e) /\ n \in Nat
  BY DEF StackInv
<1>2. d \in Seq(Ranges) /\ CoverInv(n, s, f, d)
  <2>1. CASE s # <<>> /\ Near(n, s[Len(s)])
    <3>1. f = Append(e, <<s[Len(s)], n + span>>) /\ d = CoveredBy(c, <<s[Len(s)], n + span>>)
      BY <2>1 DEF Paired, PairedCover
    <3> HIDE DEF f, d
    <3> QED BY <2>1, <3>1, PairCovers
  <2>2. CASE ~(s # <<>> /\ Near(n, s[Len(s)]))
    BY <2>2 DEF Paired, PairedCover
  <2> QED BY <2>1, <2>2
<1>3. f \in Seq(Ranges) /\ EndsAt(w, m, n, e, f)
  <2>1. f \in Seq(Ranges)
    BY PairedIs DEF f
  <2>2. EndsAt(w, m, n, e, f)
    BY PairedIs DEF f
  <2> QED BY <2>1, <2>2
<1>4. ASSUME n > 0 PROVE \E g \in ToSet(f) : g[2] = n + span
  <2>1. <<n - 1, n + span>> \in ToSet(f)
    BY <1>4, PairedReaches
  <2>2. <<n - 1, n + span>>[2] = n + span
    OBVIOUS
  <2> QED BY <2>1, <2>2
<1> HIDE DEF f, d
<1>5. ASSUME NEW g \in ToSet(f) PROVE span < g[2] /\ g[2] <= n + span
  <2>1. CASE g \in ToSet(e)
    BY <1>1, <2>1, GramsStart
  <2>2. CASE Named(w, m, g) /\ g[2] = n + span
    <3>1. g[2] > span /\ g[2] \in Nat
      BY <1>1, <2>2, NamedStarts
    <3> QED BY <1>1, <2>2, <3>1, SpanIs
  <2> QED BY <1>3, <2>1, <2>2 DEF EndsAt
<1>6. CoverInv(n + 1, Pushed(s, k, n), f, d)
  BY <1>1, <1>2, <1>3, <1>4, <1>5, CoverPushes
<1> QED BY <1>2, <1>6 DEF f, d

\* At the end the chain reaches from the first codepoint to the last.
LEMMA ChainReaches ==
    ASSUME NEW m \in Nat, NEW w \in [0 .. m -> Int], m > 0, NEW s \in Seq(Nat), NEW e \in Seq(Ranges),
           StackInv(w, m, m + 1, s, e), NEW c \in Seq(Ranges), CoverInv(m + 1, s, e, c)
    PROVE  /\ c # <<>> /\ c[1][1] = 0 /\ c[Len(c)][2] = m + span
           /\ \A i \in 1 .. Len(c) - 1 : c[i][2] - c[i + 1][1] = span
<1>1. ToSet(c) \subseteq ToSet(e) /\ Chained(c) /\ FirstToLast(m + 1, c)
  BY DEF CoverInv
<1>2. OnlyNamed(w, m, m + 1, s, e)
  BY DEF StackInv
<1>3. c # <<>>
  BY <1>1 DEF FirstToLast
<1>4. c[1][1] = 0 /\ c[Len(c)][2] >= m + 1 - 1 + span
  BY <1>1, <1>3 DEF FirstToLast
<1>5. c[Len(c)] \in ToSet(e)
  <2>1. Len(c) \in DOMAIN c
    BY <1>3, RangesIn
  <2> QED BY <1>1, <2>1, RangesIn
<1> DEFINE g == c[Len(c)]
<1>6. g \in ToSet(e) /\ g[2] >= m + 1 - 1 + span
  BY <1>4, <1>5
<1> HIDE DEF g
<1>7. Named(w, m, g)
  BY <1>2, <1>6 DEF OnlyNamed
<1> DEFINE b == g[2]
<1>8. b \in Nat /\ b - span <= m /\ b >= m + 1 - 1 + span
  BY <1>6, <1>7 DEF Named
<1> HIDE DEF b
<1>9. b = m + span
  BY <1>8, SpanIs
<1> QED BY <1>1, <1>3, <1>4, <1>9 DEF Chained, b, g

\* The covering grams are those that no other gram holds.
LEMMA CoverIsLargest ==
    ASSUME NEW n, NEW s, NEW e \in Seq(Ranges), NEW c \in Seq(Ranges), CoverInv(n, s, e, c)
    PROVE  ToSet(c) = {r \in ToSet(e) : \A g \in ToSet(e) : ~Holds(g, r)}
<1>1. ToSet(c) \subseteq ToSet(e) /\ BothRise(c) /\ HoldsAll(e, c)
  BY DEF CoverInv
<1>2. ASSUME NEW g \in Ranges, NEW h \in Ranges, Inside(g, h), Inside(h, g) PROVE g = h
  <2>1. g = <<g[1], g[2]>> /\ h = <<h[1], h[2]>> /\ g[1] \in Nat /\ g[2] \in Nat /\ h[1] \in Nat /\ h[2] \in Nat
    BY DEF Ranges
  <2>2. g[1] = h[1] /\ g[2] = h[2]
    BY <1>2, <2>1 DEF Inside
  <2> QED BY <2>1, <2>2
<1>3. ASSUME NEW f \in Ranges, NEW g \in Ranges, NEW h \in Ranges, Inside(f, g), Inside(g, h) PROVE Inside(f, h)
  <2>1. f[1] \in Nat /\ f[2] \in Nat /\ g[1] \in Nat /\ g[2] \in Nat /\ h[1] \in Nat /\ h[2] \in Nat
    BY DEF Ranges
  <2> QED BY <1>3, <2>1 DEF Inside
<1>4. ASSUME NEW r \in ToSet(c), NEW g \in ToSet(e), Holds(g, r) PROVE FALSE
  <2>1. PICK i \in DOMAIN c : c[i] = r
    BY RangesIn
  <2>2. PICK j \in DOMAIN c : Inside(g, c[j])
    BY <1>1 DEF HoldsAll
  <2>3. g \in Ranges /\ r \in Ranges /\ c[j] \in Ranges /\ Inside(r, g) /\ g # r
    <3>1. g[1] <= r[1] /\ r[2] <= g[2] /\ g # r
      BY <1>4 DEF Holds
    <3> QED BY <3>1, RangesIn DEF Inside
  <2>4. Inside(c[i], c[j])
    BY <1>3, <2>1, <2>2, <2>3
  <2>5. /\ c[i][1] \in Nat /\ c[i][2] \in Nat /\ c[j][1] \in Nat /\ c[j][2] \in Nat
        /\ c[j][1] <= c[i][1] /\ c[i][2] <= c[j][2]
    BY <2>4, RangesIn DEF Inside
  <2>6. ~(i < j)
    <3>1. ASSUME i < j PROVE FALSE
      <4> DEFINE a == c[i][1]
                 b == c[j][1]
      <4>1. a < b /\ b <= a /\ a \in Nat /\ b \in Nat
        BY <1>1, <2>5, <3>1 DEF BothRise
      <4> HIDE DEF a, b
      <4> QED BY <4>1
    <3> QED BY <3>1
  <2>7. ~(j < i)
    <3>1. ASSUME j < i PROVE FALSE
      <4> DEFINE a == c[i][2]
                 b == c[j][2]
      <4>1. b < a /\ a <= b /\ a \in Nat /\ b \in Nat
        BY <1>1, <2>5, <3>1 DEF BothRise
      <4> HIDE DEF a, b
      <4> QED BY <4>1
    <3> QED BY <3>1
  <2>8. i = j
    <3>1. i \in Nat /\ j \in Nat
      BY RangesIn
    <3> QED BY <2>6, <2>7, <3>1
  <2>9. Inside(g, r)
    BY <2>1, <2>2, <2>8
  <2> QED BY <1>2, <2>3, <2>9
<1>5. ASSUME NEW r \in ToSet(e), \A g \in ToSet(e) : ~Holds(g, r) PROVE r \in ToSet(c)
  <2>1. PICK i \in DOMAIN c : Inside(r, c[i])
    BY <1>1 DEF HoldsAll
  <2>2. c[i] \in ToSet(c) /\ c[i] \in ToSet(e)
    BY <1>1, RangesIn
  <2>3. c[i] = r
    BY <1>5, <2>1, <2>2 DEF Holds, Inside
  <2> QED BY <2>2, <2>3
<1> QED BY <1>1, <1>4, <1>5

-----------------------------------------------------------------------------
(* Texts *)

\* The weights of a text's windows, when v gives a window's weight.
WeightsOf(v, t) == [p \in 0 .. Len(t) - span |-> v[SubSeq(t, p + 1, p + span)]]

\* The grams of a text by the definition, and the key of one.
GramOf(z, v, t, r) ==
    IF z = "NGRAM" THEN r \in Nat \X Nat /\ r[2] = r[1] + MinGram /\ r[2] <= Len(t)
    ELSE Named(WeightsOf(v, t), Len(t) - span, r)

KeyIn(t, r) ==
    LET gram == SubSeq(t, r[1] + 1, r[2])
    IN  IF Len(gram) = MinGram THEN <<"gram", gram>> ELSE <<"bucket", Head(gram)>>

CutFrom(t, h, a, b) == t = SubSeq(h, a, b)

Shifted(r, a) == <<r[1] + a - 1, r[2] + a - 1>>

\* An excerpt of an excerpt.
LEMMA ExcerptOf ==
    ASSUME NEW h \in Seq(Codepoints), NEW a \in 1 .. Len(h), NEW b \in a .. Len(h)
    PROVE  /\ SubSeq(h, a, b) \in Seq(Codepoints) /\ Len(SubSeq(h, a, b)) = b - a + 1
           /\ \A i, j \in 1 .. b - a + 1 : SubSeq(SubSeq(h, a, b), i, j) = SubSeq(h, a + i - 1, a + j - 1)
<1>1. Len(h) \in Nat /\ DOMAIN h = 1 .. Len(h) /\ \A i \in 1 .. Len(h) : h[i] \in Codepoints
  OBVIOUS
<1>2. a \in Int /\ b \in Int /\ a <= b /\ (\A i \in a .. b : h[i] \in Codepoints)
  BY <1>1
<1>3. SubSeq(h, a, b) \in Seq(Codepoints) /\ Len(SubSeq(h, a, b)) = IF a <= b THEN b - a + 1 ELSE 0
  BY <1>2, SubSeqProperties
<1>4. b \in 1 .. Len(h)
  BY <1>1
<1>5. ASSUME NEW i \in 1 .. b - a + 1, NEW j \in 1 .. b - a + 1
      PROVE  SubSeq(SubSeq(h, a, b), i, j) = SubSeq(h, a + i - 1, a + j - 1)
  BY <1>4, SubSeqOfSubSeq
<1> QED BY <1>2, <1>3, <1>5

\* Every window of an excerpt is one of the text it is from.
LEMMA ExcerptWeighs ==
    ASSUME NEW h \in Seq(Codepoints), NEW a \in 1 .. Len(h), NEW b \in a .. Len(h),
           NEW t, CutFrom(t, h, a, b), NEW v, NEW p \in 0 .. Len(t) - span
    PROVE  /\ p + a - 1 \in 0 .. Len(h) - span
           /\ WeightsOf(v, t)[p] = WeightsOf(v, h)[p + a - 1]
<1>1. /\ Len(t) = b - a + 1 /\ Len(h) \in Nat
      /\ \A i, j \in 1 .. b - a + 1 : SubSeq(t, i, j) = SubSeq(h, a + i - 1, a + j - 1)
  BY ExcerptOf DEF CutFrom
<1>2. p + a - 1 \in 0 .. Len(h) - span
  BY <1>1, SpanIs
<1>3. p \in Int /\ a \in Int /\ p >= 0 /\ a >= 1 /\ span \in Nat
  BY SpanIs
<1>4. ASSUME span # 0
      PROVE  SubSeq(t, p + 1, p + span) = SubSeq(h, p + a - 1 + 1, p + a - 1 + span)
  <2>1. p + 1 \in 1 .. b - a + 1 /\ p + span \in 1 .. b - a + 1
    BY <1>1, <1>4, SpanIs
  <2>2. SubSeq(t, p + 1, p + span) = SubSeq(h, a + (p + 1) - 1, a + (p + span) - 1)
    BY <1>1, <2>1
  <2>3. a + (p + 1) - 1 = p + a - 1 + 1 /\ a + (p + span) - 1 = p + a - 1 + span
    BY <1>3
  <2>4. SubSeq(h, a + (p + 1) - 1, a + (p + span) - 1) = SubSeq(h, p + a - 1 + 1, p + a - 1 + span)
    BY <2>3
  <2> QED BY <2>2, <2>4
<1>5. ASSUME span = 0
      PROVE  SubSeq(t, p + 1, p + span) = SubSeq(h, p + a - 1 + 1, p + a - 1 + span)
  <2>1. /\ p + 1 \in Int /\ p + span \in Int /\ p + span < p + 1
        /\ p + a - 1 + 1 \in Int /\ p + a - 1 + span \in Int /\ p + a - 1 + span < p + a - 1 + 1
    BY <1>3, <1>5
  <2>2. SubSeq(t, p + 1, p + span) = <<>>
    BY <2>1, SubSeqEmpty
  <2>3. SubSeq(h, p + a - 1 + 1, p + a - 1 + span) = <<>>
    BY <2>1, SubSeqEmpty
  <2> QED BY <2>2, <2>3
<1>6. SubSeq(t, p + 1, p + span) = SubSeq(h, p + a - 1 + 1, p + a - 1 + span)
  BY <1>4, <1>5
<1>7. WeightsOf(v, t)[p] = v[SubSeq(t, p + 1, p + span)]
  BY DEF WeightsOf
<1>8. WeightsOf(v, h)[p + a - 1] = v[SubSeq(h, p + a - 1 + 1, p + a - 1 + span)]
  BY <1>2 DEF WeightsOf
<1> QED BY <1>2, <1>6, <1>7, <1>8

\* The weights of a text are those of its windows.
LEMMA WeightsAre ==
    ASSUME NEW h \in Seq(Codepoints), NEW v \in [Windows(h) -> 1 .. MaxWeight]
    PROVE  WeightsOf(v, h) \in [0 .. Len(h) - span -> Int]
<1>1. ASSUME NEW p \in 0 .. Len(h) - span PROVE v[SubSeq(h, p + 1, p + span)] \in Int
  <2>1. Len(h) \in Nat
    OBVIOUS
  <2>2. p + 1 \in 1 .. Len(h) - span + 1 /\ p + 1 + span - 1 = p + span
    BY <2>1, SpanIs
  <2>3. SubSeq(h, p + 1, p + span) \in Windows(h)
    BY <2>2 DEF Windows
  <2>4. v[SubSeq(h, p + 1, p + span)] \in 1 .. MaxWeight
    BY <2>3
  <2> QED BY <2>4, GramOptions
<1> QED BY <1>1 DEF WeightsOf

LEMMA ExcerptWeights ==
    ASSUME NEW h \in Seq(Codepoints), NEW a \in 1 .. Len(h), NEW b \in a .. Len(h),
           NEW t, CutFrom(t, h, a, b), NEW v \in [Windows(h) -> 1 .. MaxWeight]
    PROVE  WeightsOf(v, t) \in [0 .. Len(t) - span -> Int]
<1>1. ASSUME NEW p \in 0 .. Len(t) - span PROVE WeightsOf(v, t)[p] \in Int
  <2>1. p + a - 1 \in 0 .. Len(h) - span /\ WeightsOf(v, t)[p] = WeightsOf(v, h)[p + a - 1]
    BY ExcerptWeighs
  <2> QED BY <2>1, WeightsAre
<1>2. WeightsOf(v, t) = [p \in 0 .. Len(t) - span |-> WeightsOf(v, t)[p]]
  BY DEF WeightsOf
<1> QED BY <1>1, <1>2

\* A gram of an excerpt is one of the text it is from, with the same key: a
\* gram is defined by the windows it has, wherever they stand.
LEMMA ExcerptGram ==
    ASSUME NEW h \in Seq(Codepoints), NEW a \in 1 .. Len(h), NEW b \in a .. Len(h),
           NEW t, CutFrom(t, h, a, b), NEW v \in [Windows(h) -> 1 .. MaxWeight],
           NEW z, NEW r, GramOf(z, v, t, r)
    PROVE  GramOf(z, v, h, Shifted(r, a)) /\ KeyIn(t, r) = KeyIn(h, Shifted(r, a))
<1> DEFINE x == r[1]
           y == r[2]
           q == <<x + a - 1, y + a - 1>>
<1>1. /\ Len(t) = b - a + 1 /\ Len(h) \in Nat
      /\ \A i, j \in 1 .. b - a + 1 : SubSeq(t, i, j) = SubSeq(h, a + i - 1, a + j - 1)
  BY ExcerptOf DEF CutFrom
<1>2. x \in Nat /\ y \in Nat /\ x + MinGram <= y /\ y <= Len(t)
  <2>1. CASE z = "NGRAM"
    BY <2>1, SpanIs DEF GramOf
  <2>2. CASE z # "NGRAM"
    <3>1. r \in Nat \X Nat /\ r[2] - span <= Len(t) - span /\ r[2] - r[1] >= MinGram
      BY <2>2 DEF GramOf, Named
    <3> QED BY <1>1, <3>1, SpanIs
  <2> QED BY <2>1, <2>2
<1>3. ASSUME z = "NGRAM" PROVE GramOf(z, v, h, q)
  <2>1. y = x + MinGram
    BY <1>3 DEF GramOf
  <2> HIDE DEF x, y
  <2>2. q \in Nat \X Nat /\ q[1] = x + a - 1 /\ q[2] = y + a - 1
    BY <1>2
  <2> HIDE DEF q
  <2>3. q[2] = q[1] + MinGram /\ q[2] <= Len(h)
    BY <1>1, <1>2, <2>1, <2>2, SpanIs
  <2> QED BY <1>3, <2>2, <2>3 DEF GramOf
<1>4. ASSUME z # "NGRAM" PROVE GramOf(z, v, h, q)
  <2> DEFINE wt == WeightsOf(v, t)
             wh == WeightsOf(v, h)
  <2>1. Named(wt, Len(t) - span, r)
    BY <1>4 DEF GramOf
  <2>2. y - x <= MaxGram /\ \A i \in x + 1 .. y - span - 1 : wt[i] < wt[x] /\ wt[i] < wt[y - span]
    BY <2>1 DEF Named
  <2>3. \A p \in 0 .. Len(t) - span : wt[p] = wh[p + a - 1]
    BY ExcerptWeighs
  <2> HIDE DEF x, y, wt, wh
  <2>4. q \in Nat \X Nat /\ q[1] = x + a - 1 /\ q[2] = y + a - 1
    BY <1>2
  <2> HIDE DEF q
  <2>5. ASSUME NEW i \in q[1] + 1 .. q[2] - span - 1 PROVE wh[i] < wh[q[1]] /\ wh[i] < wh[q[2] - span]
    <3> DEFINE j == i - a + 1
    <3>1. /\ j \in x + 1 .. y - span - 1 /\ j \in 0 .. Len(t) - span
          /\ x \in 0 .. Len(t) - span /\ y - span \in 0 .. Len(t) - span
          /\ j + a - 1 = i /\ x + a - 1 = q[1] /\ y - span + a - 1 = q[2] - span
      BY <1>1, <1>2, <2>4, SpanIs
    <3> HIDE DEF j
    <3>2. wt[j] < wt[x] /\ wt[j] < wt[y - span]
      BY <2>2, <3>1
    <3>3. wt[j] = wh[i] /\ wt[x] = wh[q[1]] /\ wt[y - span] = wh[q[2] - span]
      BY <2>3, <3>1
    <3> QED BY <3>2, <3>3
  <2>6. q[2] - span <= Len(h) - span /\ q[2] - q[1] >= MinGram /\ q[2] - q[1] <= MaxGram
    BY <1>1, <1>2, <2>2, <2>4, SpanIs
  <2>7. Named(wh, Len(h) - span, q)
    BY <2>4, <2>5, <2>6 DEF Named
  <2> QED BY <1>4, <2>7 DEF GramOf, wh
<1>5. SubSeq(t, x + 1, y) = SubSeq(h, q[1] + 1, q[2])
  <2> HIDE DEF x, y
  <2>1. x + 1 \in 1 .. b - a + 1 /\ y \in 1 .. b - a + 1
    BY <1>1, <1>2, SpanIs
  <2>2. SubSeq(t, x + 1, y) = SubSeq(h, a + (x + 1) - 1, a + y - 1)
    BY <1>1, <2>1
  <2>3. q[1] + 1 = a + (x + 1) - 1 /\ q[2] = a + y - 1
    BY <1>2
  <2> QED BY <2>2, <2>3
<1>6. KeyIn(t, r) = KeyIn(h, q)
  BY <1>5 DEF KeyIn
<1>7. q = Shifted(r, a)
  BY DEF Shifted
<1> QED BY <1>3, <1>4, <1>6, <1>7

-----------------------------------------------------------------------------
(* The pass *)

Weights == WeightsOf(weight, text)

TextInv ==
    /\ hay \in Seq(Codepoints) /\ weight \in [Windows(hay) -> 1 .. MaxWeight]
    /\ tokenizer \in {"NGRAM", "SPARSE"} /\ phase \in {"row", "needle", "answered"}
    /\ phase = "row" => text = hay
    /\ phase # "row" => \E a \in 1 .. Len(hay) : \E b \in a .. Len(hay) : CutFrom(text, hay, a, b)

\* How far the pass may have got, in windows of the kind it goes by.
PassInv ==
    /\ right \in Nat /\ stack \in Seq(Nat) /\ emitted \in Seq(Ranges) /\ covering \in Seq(Ranges)
    /\ right # 0 => /\ Len(text) >= MinGram
                    /\ right <= Len(text) - (IF tokenizer = "NGRAM" THEN MinGram ELSE span) + 1

GramsInv ==
    /\ tokenizer = "SPARSE" => StackInv(Weights, Len(text) - span, right, stack, emitted)
    /\ tokenizer = "NGRAM" => emitted = [i \in 1 .. right |-> <<i - 1, i - 1 + MinGram>>]

ChainInv ==
    /\ tokenizer = "SPARSE" /\ phase # "row" => CoverInv(right, stack, emitted, covering)
    /\ tokenizer = "NGRAM" \/ phase = "row" => covering = <<>>

PostInv == phase # "row" => \A r : GramOf(tokenizer, weight, hay, r) => KeyIn(hay, r) \in posted

AnswerInv == shape = "PROBEABLE" => phase = "answered" /\ keys # {} /\ keys \subseteq posted

Inv == TextInv /\ PassInv /\ GramsInv /\ ChainInv /\ PostInv /\ AnswerInv

LEMMA TextIs ==
    ASSUME TextInv
    PROVE  /\ text \in Seq(Codepoints) /\ Len(text) \in Nat
           /\ Weights \in [0 .. Len(text) - span -> Int]
<1>1. CASE phase = "row"
  <2>1. text = hay /\ hay \in Seq(Codepoints) /\ weight \in [Windows(hay) -> 1 .. MaxWeight]
    BY <1>1 DEF TextInv
  <2>2. WeightsOf(weight, hay) \in [0 .. Len(hay) - span -> Int]
    BY <2>1, WeightsAre
  <2> QED BY <2>1, <2>2 DEF Weights
<1>2. CASE phase # "row"
  <2>1. hay \in Seq(Codepoints) /\ weight \in [Windows(hay) -> 1 .. MaxWeight]
    BY DEF TextInv
  <2>2. PICK a \in 1 .. Len(hay) : \E b \in a .. Len(hay) : CutFrom(text, hay, a, b)
    BY <1>2 DEF TextInv
  <2>3. PICK b \in a .. Len(hay) : CutFrom(text, hay, a, b)
    BY <2>2
  <2>4. text \in Seq(Codepoints)
    BY <2>1, <2>3, ExcerptOf DEF CutFrom
  <2>5. WeightsOf(weight, text) \in [0 .. Len(text) - span -> Int]
    BY <2>1, <2>3, ExcerptWeights
  <2> QED BY <2>4, <2>5 DEF Weights
<1> QED BY <1>1, <1>2

\* Every range emitted is a gram of the text, and at the end every gram is.
LEMMA EmittedAre ==
    ASSUME TextInv, PassInv, GramsInv
    PROVE  /\ \A r \in ToSet(emitted) : GramOf(tokenizer, weight, text, r)
           /\ EachOnce(emitted)
           /\ \A r : GramOf(tokenizer, weight, text, r) /\ r[2] < right + span => r \in ToSet(emitted)
           /\ Extracted => \A r : GramOf(tokenizer, weight, text, r) => r \in ToSet(emitted)
<1>1. Len(text) \in Nat /\ right \in Nat /\ emitted \in Seq(Ranges)
  BY TextIs DEF PassInv
<1>2. CASE tokenizer = "SPARSE"
  <2> DEFINE m == Len(text) - span
  <2>1. StackInv(Weights, m, right, stack, emitted)
    BY <1>2 DEF GramsInv
  <2>2. OnlyNamed(Weights, m, right, stack, emitted) /\ AllBefore(Weights, m, right, emitted) /\ EachOnce(emitted)
    BY <2>1 DEF StackInv
  <2>3. \A r : GramOf(tokenizer, weight, text, r) <=> Named(Weights, m, r)
    BY <1>2 DEF GramOf, Weights
  <2>4. \A r \in ToSet(emitted) : GramOf(tokenizer, weight, text, r)
    BY <2>2, <2>3 DEF OnlyNamed
  <2>5. \A r : GramOf(tokenizer, weight, text, r) /\ r[2] < right + span => r \in ToSet(emitted)
    BY <2>2, <2>3 DEF AllBefore
  <2>6. ASSUME Extracted, NEW r, GramOf(tokenizer, weight, text, r) PROVE r[2] < right + span
    <3>1. Named(Weights, m, r)
      BY <2>3, <2>6
    <3> DEFINE x == r[1]
               y == r[2]
    <3>2. x \in Nat /\ y \in Nat /\ y - span <= Len(text) - span /\ y - x >= MinGram
      BY <3>1 DEF Named
    <3> HIDE DEF x, y
    <3>3. Len(text) < MinGram \/ right + span > Len(text)
      BY <1>2, <2>6 DEF Extracted
    <3>4. y < right + span
      BY <1>1, <3>2, <3>3, SpanIs
    <3> QED BY <3>4 DEF y
  <2> QED BY <2>2, <2>4, <2>5, <2>6
<1>3. CASE tokenizer = "NGRAM"
  <2> DEFINE e == emitted
  <2>1. DOMAIN e = 1 .. right /\ \A i \in 1 .. right : e[i] = <<i - 1, i - 1 + MinGram>>
    BY <1>3 DEF GramsInv
  <2>2. right # 0 => Len(text) >= MinGram /\ right <= Len(text) - MinGram + 1
    BY <1>3 DEF PassInv
  <2>3. \A r : GramOf(tokenizer, weight, text, r) <=> r \in Nat \X Nat /\ r[2] = r[1] + MinGram /\ r[2] <= Len(text)
    BY <1>3 DEF GramOf
  <2>4. \A r \in ToSet(e) : \E i \in 1 .. right : r = e[i]
    BY <1>1, <2>1, RangesIn
  <2>5. \A i \in 1 .. right : e[i] \in ToSet(e)
    BY <1>1, <2>1, RangesIn
  <2> HIDE DEF e
  <2>6. ASSUME NEW r \in ToSet(e) PROVE GramOf(tokenizer, weight, text, r)
    <3>1. PICK i \in 1 .. right : r = <<i - 1, i - 1 + MinGram>>
      BY <2>1, <2>4, <2>6
    <3>2. i - 1 \in Nat /\ i - 1 + MinGram \in Nat /\ i - 1 + MinGram <= Len(text)
      BY <1>1, <2>2, SpanIs
    <3> QED BY <2>3, <3>1, <3>2
  <2>7. EachOnce(e)
    <3>1. ASSUME NEW i \in 1 .. right, NEW j \in 1 .. right, e[i] = e[j] PROVE i = j
      <4>1. i - 1 = j - 1
        BY <2>1, <3>1
      <4> QED BY <4>1
    <3> QED BY <2>1, <3>1 DEF EachOnce
  <2>8. ASSUME NEW r, GramOf(tokenizer, weight, text, r), r[1] < right PROVE r \in ToSet(e)
    <3> DEFINE x == r[1]
    <3>1. r = <<x, x + MinGram>> /\ x \in Nat /\ x < right
      BY <2>3, <2>8
    <3> HIDE DEF x
    <3> DEFINE i == x + 1
    <3>2. i \in 1 .. right /\ i - 1 = x
      BY <1>1, <3>1
    <3> HIDE DEF i
    <3>3. e[i] = <<x, x + MinGram>>
      BY <2>1, <3>2
    <3> QED BY <2>5, <3>1, <3>2, <3>3
  <2>9. ASSUME NEW r, GramOf(tokenizer, weight, text, r), r[2] < right + span PROVE r \in ToSet(e)
    <3> DEFINE x == r[1]
    <3>1. x \in Nat /\ x + MinGram < right + span
      BY <2>3, <2>9
    <3> HIDE DEF x
    <3>2. x < right
      BY <1>1, <3>1, SpanIs
    <3> QED BY <2>8, <2>9, <3>2 DEF x
  <2>10. ASSUME Extracted, NEW r, GramOf(tokenizer, weight, text, r) PROVE r \in ToSet(e)
    <3> DEFINE x == r[1]
    <3>1. x \in Nat /\ x + MinGram <= Len(text)
      BY <2>3, <2>10
    <3>2. Len(text) < MinGram \/ right + MinGram > Len(text)
      BY <1>3, <2>10 DEF Extracted
    <3> HIDE DEF x
    <3>3. x < right
      BY <1>1, <3>1, <3>2, SpanIs
    <3> QED BY <2>8, <2>10, <3>3 DEF x
  <2> QED BY <2>6, <2>7, <2>9, <2>10 DEF e
<1>4. tokenizer = "SPARSE" \/ tokenizer = "NGRAM"
  BY DEF TextInv
<1> QED BY <1>2, <1>3, <1>4

\* A pass that has not begun.
LEMMA NotBegun ==
    /\ <<>> \in Seq(Nat) /\ <<>> \in Seq(Ranges)
    /\ \A w : \A m \in Int : StackInv(w, m, 0, <<>>, <<>>)
    /\ CoverInv(0, <<>>, <<>>, <<>>)
    /\ [i \in 1 .. 0 |-> <<i - 1, i - 1 + MinGram>>] = <<>>
<1>1. DOMAIN <<>> = {} /\ ToSet(<<>>) = {} /\ <<>> \in Seq(Nat) /\ <<>> \in Seq(Ranges) /\ Len(<<>>) = 0
  BY DEF ToSet
<1>2. ASSUME NEW w, NEW m \in Int PROVE StackInv(w, m, 0, <<>>, <<>>)
  <2>1. \A p : ~Stands(w, 0, p)
    BY DEF Stands
  <2>2. NoneLost(w, 0, <<>>, <<>>)
    BY <2>1 DEF NoneLost
  <2>3. AllBefore(w, m, 0, <<>>)
    <3>1. ASSUME NEW r, Named(w, m, r), r[2] < 0 + span PROVE FALSE
      <4>1. r[2] > span /\ r[2] \in Nat
        BY <3>1, NamedStarts
      <4> QED BY <3>1, <4>1, SpanIs
    <3> QED BY <3>1 DEF AllBefore
  <2> QED BY <1>1, <2>2, <2>3 DEF StackInv, OnlyStanding, Rising, OnlyNamed, EachOnce
<1>3. CoverInv(0, <<>>, <<>>, <<>>)
  <2>1. Chained(<<>>)
    BY <1>1 DEF Chained
  <2> QED BY <1>1, <2>1 DEF CoverInv, BothRise, HoldsAll, FirstToLast, Bordered
<1>4. [i \in 1 .. 0 |-> <<i - 1, i - 1 + MinGram>>] = <<>>
  OBVIOUS
<1> QED BY <1>1, <1>2, <1>3, <1>4

\* The invariant's parts about what the pass leaves alone.
LEMMA InputStays ==
    ASSUME InputUnchanged, TextInv, PostInv, AnswerInv
    PROVE  TextInv' /\ PostInv' /\ AnswerInv' /\ Weights' = Weights
BY DEF InputUnchanged, TextInv, PostInv, AnswerInv, Weights

\* Where a sparse pass stands: at a window of the text, past those on the stack.
LEMMA AtWindow ==
    ASSUME TextInv, PassInv, GramsInv, Extracting, tokenizer = "SPARSE"
    PROVE  /\ Len(text) - span \in Int /\ right \in 0 .. Len(text) - span
           /\ Weights \in [0 .. Len(text) - span -> Int] /\ StackInv(Weights, Len(text) - span, right, stack, emitted)
           /\ \A p \in 0 .. right : WeightAt(p) = Weights[p]
           /\ \A i \in DOMAIN stack : stack[i] \in 0 .. right
           /\ right + 1 <= Len(text) - span + 1 /\ Len(text) >= MinGram
           /\ stack # <<>> => Len(stack) \in DOMAIN stack /\ Top = stack[Len(stack)]
<1>1. /\ Len(text) \in Nat /\ Weights \in [0 .. Len(text) - span -> Int]
      /\ right \in Nat /\ stack \in Seq(Nat) /\ StackInv(Weights, Len(text) - span, right, stack, emitted)
  BY TextIs DEF PassInv, GramsInv
<1>2. Len(text) >= MinGram /\ right + span <= Len(text)
  BY <1>1, SpanIs DEF Extracting, Extracted
<1>3. Len(text) - span \in Int /\ right \in 0 .. Len(text) - span /\ right + 1 <= Len(text) - span + 1
  BY <1>1, <1>2, SpanIs
<1>4. \A p \in 0 .. right : WeightAt(p) = Weights[p]
  <2> TAKE p \in 0 .. right
  <2>1. p \in 0 .. Len(text) - span
    BY <1>3
  <2> QED BY <2>1 DEF Weights, WeightsOf, WeightAt, Window
<1>5. \A i \in DOMAIN stack : stack[i] \in 0 .. right
  <2>1. OnlyStanding(Weights, right, stack)
    BY <1>1 DEF StackInv
  <2>2. \A i \in DOMAIN stack : stack[i] \in 0 .. right - 1
    BY <2>1 DEF OnlyStanding, Stands
  <2> QED BY <1>1, <2>2
<1>6. stack # <<>> => Len(stack) \in DOMAIN stack /\ Top = stack[Len(stack)]
  <2>1. stack # <<>> => Len(stack) \in DOMAIN stack
    BY <1>1
  <2> QED BY <2>1 DEF Top, Last
<1> QED BY <1>1, <1>2, <1>3, <1>4, <1>5, <1>6

\* What the grams emitted do to the covering grams.
LEMMA CoversIs ==
    ASSUME NEW range
    PROVE  Covers(range) = CoveredBy(covering, range)
BY DEF Covers, CoveredBy, Pushed

LEMMA PairLighterKeeps ==
    ASSUME Inv, PairLighter
    PROVE  Inv'
<1> DEFINE m == Len(text) - span
           p == stack[Len(stack)]
           r == <<p, right + span>>
           t == SubSeq(stack, 1, Len(stack) - 1)
<1>1. TextInv /\ PassInv /\ GramsInv /\ ChainInv /\ PostInv /\ AnswerInv
  BY DEF Inv
<1>2. /\ Extracting /\ tokenizer = "SPARSE" /\ stack # <<>> /\ WeightAt(Top) < WeightAt(right) /\ WithinMaxGram(Top)
      /\ Emit(<<Top, right + span>>) /\ stack' = t /\ right' = right /\ InputUnchanged
  BY DEF PairLighter, Front
<1>3. /\ m \in Int /\ right \in 0 .. m /\ Weights \in [0 .. m -> Int] /\ StackInv(Weights, m, right, stack, emitted)
      /\ Top = p /\ Len(stack) \in DOMAIN stack /\ p \in 0 .. right
      /\ \A q \in 0 .. right : WeightAt(q) = Weights[q]
  BY <1>1, <1>2, AtWindow
<1>4. stack \in Seq(Nat) /\ emitted \in Seq(Ranges) /\ covering \in Seq(Ranges) /\ right \in Nat
  BY <1>1 DEF PassInv
<1>5. Weights[p] < Weights[right] /\ Near(right, p)
  BY <1>2, <1>3 DEF WithinMaxGram, Near
<1>6. /\ emitted' = Append(emitted, r)
      /\ covering' = IF phase = "needle" THEN CoveredBy(covering, r) ELSE covering
  BY <1>2, <1>3, CoversIs DEF Emit
<1>7. /\ TextInv' /\ PostInv' /\ AnswerInv'
      /\ Weights' = Weights /\ text' = text /\ tokenizer' = tokenizer /\ phase' = phase
  BY <1>1, <1>2, InputStays DEF InputUnchanged
<1> HIDE DEF m, p
<1>8. StackInv(Weights, m, right, t, Append(emitted, r))
  <2>1. p = stack[Len(stack)]
    BY DEF p
  <2> HIDE DEF r, t
  <2> QED BY <1>2, <1>3, <1>4, <1>5, <2>1, PairKeeps DEF r, t
<1>9. r \in Ranges /\ Append(emitted, r) \in Seq(Ranges)
  <2>1. r \in Ranges
    BY <1>3, <1>4, SpanIs DEF Ranges
  <2> HIDE DEF r
  <2> QED BY <1>4, <2>1, AppendedIs
<1>10. t \in Seq(Nat) /\ \A i \in DOMAIN t : i \in DOMAIN stack /\ t[i] = stack[i]
  <2>1. Len(stack) - 1 \in 0 .. Len(stack) /\ DOMAIN stack = 1 .. Len(stack)
    BY <1>3, <1>4
  <2>2. \A k \in 0 .. Len(stack) :
          /\ SubSeq(stack, 1, k) \in Seq(Nat) /\ DOMAIN SubSeq(stack, 1, k) = 1 .. k
          /\ \A i \in 1 .. k : SubSeq(stack, 1, k)[i] = stack[i]
    BY <1>4, PrefixIs
  <2>3. t \in Seq(Nat) /\ DOMAIN t = 1 .. Len(stack) - 1 /\ \A i \in 1 .. Len(stack) - 1 : t[i] = stack[i]
    BY <2>1, <2>2
  <2> HIDE DEF t
  <2> QED BY <2>1, <2>3
<1> HIDE DEF t, r
<1>11. ASSUME phase # "row"
       PROVE  covering' \in Seq(Ranges) /\ CoverInv(right, t, emitted', covering')
  <2>1. phase = "needle"
    BY <1>1, <1>2, <1>11 DEF Extracting, TextInv
  <2>2. CoverInv(right, stack, emitted, covering)
    BY <1>1, <1>2, <1>11 DEF ChainInv
  <2>3. /\ CoveredBy(covering, r) \in Seq(Ranges)
        /\ CoverInv(right, stack, Append(emitted, r), CoveredBy(covering, r))
    BY <1>2, <1>3, <1>4, <2>2, PairCovers DEF r, p
  <2>4. CoverInv(right, t, Append(emitted, r), CoveredBy(covering, r))
    BY <1>10, <2>3, BorderedLess
  <2> QED BY <1>6, <2>1, <2>3, <2>4
<1>12. PassInv'
  <2>1. covering' \in Seq(Ranges)
    BY <1>4, <1>6, <1>11
  <2> QED BY <1>1, <1>2, <1>4, <1>6, <1>7, <1>9, <1>10, <2>1 DEF PassInv
<1>13. GramsInv'
  BY <1>2, <1>6, <1>7, <1>8 DEF GramsInv, m
<1>14. ChainInv'
  BY <1>1, <1>2, <1>6, <1>7, <1>11 DEF ChainInv
<1> QED BY <1>7, <1>12, <1>13, <1>14 DEF Inv

LEMMA ClearFarKeeps ==
    ASSUME Inv, ClearFar
    PROVE  Inv'
<1> DEFINE m == Len(text) - span
<1>1. TextInv /\ PassInv /\ GramsInv /\ ChainInv /\ PostInv /\ AnswerInv
  BY DEF Inv
<1>2. /\ Extracting /\ tokenizer = "SPARSE" /\ stack # <<>> /\ ~WithinMaxGram(Top)
      /\ stack' = <<>> /\ right' = right /\ emitted' = emitted /\ covering' = covering /\ InputUnchanged
  BY DEF ClearFar
<1>3. /\ m \in Int /\ right \in 0 .. m /\ Weights \in [0 .. m -> Int] /\ StackInv(Weights, m, right, stack, emitted)
      /\ Top = stack[Len(stack)]
  BY <1>1, <1>2, AtWindow
<1>4. stack \in Seq(Nat) /\ emitted \in Seq(Ranges) /\ <<>> \in Seq(Nat) /\ DOMAIN <<>> = {}
  BY <1>1 DEF PassInv
<1>5. ~Near(right, stack[Len(stack)])
  BY <1>2, <1>3 DEF WithinMaxGram, Near
<1>6. StackInv(Weights, m, right, <<>>, emitted)
  BY <1>2, <1>3, <1>4, <1>5, ClearKeeps
<1>7. /\ TextInv' /\ PostInv' /\ AnswerInv'
      /\ Weights' = Weights /\ text' = text /\ tokenizer' = tokenizer /\ phase' = phase
  BY <1>1, <1>2, InputStays DEF InputUnchanged
<1>8. PassInv'
  BY <1>1, <1>2, <1>4, <1>7 DEF PassInv
<1>9. GramsInv'
  BY <1>2, <1>6, <1>7 DEF GramsInv
<1>10. ChainInv'
  <2>1. phase # "row" => CoverInv(right, <<>>, emitted, covering)
    <3>1. phase # "row" => CoverInv(right, stack, emitted, covering)
      BY <1>1, <1>2 DEF ChainInv
    <3> QED BY <1>4, <3>1, BorderedLess
  <2> QED BY <1>1, <1>2, <1>7, <2>1 DEF ChainInv
<1> QED BY <1>7, <1>8, <1>9, <1>10 DEF Inv

LEMMA PushWindowKeeps ==
    ASSUME Inv, PushWindow
    PROVE  Inv'
<1> DEFINE m == Len(text) - span
           k == Max({0} \union {i \in DOMAIN stack : Weights[stack[i]] # Weights[right]})
<1>1. TextInv /\ PassInv /\ GramsInv /\ ChainInv /\ PostInv /\ AnswerInv
  BY DEF Inv
<1>2. /\ Extracting /\ tokenizer = "SPARSE" /\ (stack # <<>> => WeightAt(Top) >= WeightAt(right))
      /\ IF stack # <<>> /\ WithinMaxGram(Top) THEN Emit(<<Top, right + span>>) ELSE UNCHANGED <<emitted, covering>>
      /\ stack' = Append(Retired(stack, right), right) /\ right' = right + 1 /\ InputUnchanged
  BY DEF PushWindow
<1>3. /\ m \in Int /\ right \in 0 .. m /\ Weights \in [0 .. m -> Int] /\ StackInv(Weights, m, right, stack, emitted)
      /\ \A q \in 0 .. right : WeightAt(q) = Weights[q]
      /\ \A i \in DOMAIN stack : stack[i] \in 0 .. right
      /\ right + 1 <= m + 1 /\ Len(text) >= MinGram
      /\ stack # <<>> => Len(stack) \in DOMAIN stack /\ Top = stack[Len(stack)]
  BY <1>1, <1>2, AtWindow
<1>4. stack \in Seq(Nat) /\ emitted \in Seq(Ranges) /\ covering \in Seq(Ranges) /\ right \in Nat
  BY <1>1 DEF PassInv
<1>5. NoLighterTop(Weights, right, stack)
  <2>1. ASSUME stack # <<>> PROVE Weights[stack[Len(stack)]] >= Weights[right]
    <3> DEFINE p == stack[Len(stack)]
    <3>1. p \in 0 .. right /\ right \in 0 .. right /\ WeightAt(p) >= WeightAt(right)
      BY <1>2, <1>3, <2>1
    <3> HIDE DEF p
    <3>2. Weights[p] >= Weights[right]
      BY <1>3, <3>1
    <3> QED BY <3>2 DEF p
  <2> QED BY <2>1 DEF NoLighterTop
<1>6. Append(Retired(stack, right), right) = Pushed(stack, k, right)
  <2>1. {i \in DOMAIN stack : WeightAt(stack[i]) # WeightAt(right)} =
          {i \in DOMAIN stack : Weights[stack[i]] # Weights[right]}
    <3>1. WeightAt(right) = Weights[right] /\ \A i \in DOMAIN stack : WeightAt(stack[i]) = Weights[stack[i]]
      BY <1>3
    <3> QED BY <3>1
  <2> QED BY <2>1 DEF Retired, Pushed
<1>7. k \in 0 .. Len(stack) /\ BelowEquals(Weights, right, stack, k)
  BY <1>4, StaysBelow
<1> HIDE DEF k
<1>8. /\ emitted' = Paired(right, stack, emitted)
      /\ phase = "needle" => covering' = PairedCover(right, stack, covering)
      /\ phase = "row" => covering' = covering
  <2>1. CASE stack # <<>> /\ WithinMaxGram(Top)
    <3>1. Near(right, stack[Len(stack)]) /\ Top = stack[Len(stack)]
      BY <1>3, <2>1 DEF WithinMaxGram, Near
    <3> QED BY <1>2, <2>1, <3>1, CoversIs DEF Emit, Paired, PairedCover
  <2>2. CASE ~(stack # <<>> /\ WithinMaxGram(Top))
    <3>1. ~(stack # <<>> /\ Near(right, stack[Len(stack)]))
      BY <1>3, <2>2 DEF WithinMaxGram, Near
    <3> QED BY <1>2, <2>2, <3>1 DEF Paired, PairedCover
  <2> QED BY <2>1, <2>2
<1>9. /\ TextInv' /\ PostInv' /\ AnswerInv'
      /\ Weights' = Weights /\ text' = text /\ tokenizer' = tokenizer /\ phase' = phase
  BY <1>1, <1>2, InputStays DEF InputUnchanged
<1>10. StackInv(Weights, m, right + 1, Pushed(stack, k, right), Paired(right, stack, emitted))
  <2> HIDE DEF m
  <2> QED BY <1>3, <1>4, <1>5, <1>7, PushKeeps
<1>11. Pushed(stack, k, right) \in Seq(Nat) /\ Paired(right, stack, emitted) \in Seq(Ranges)
  <2> HIDE DEF m
  <2>1. Pushed(stack, k, right) \in Seq(Nat)
    BY <1>4, <1>7, WindowPushed
  <2>2. Paired(right, stack, emitted) \in Seq(Ranges)
    BY <1>3, <1>4, <1>5, PairedIs
  <2> QED BY <2>1, <2>2
<1>12. ASSUME phase # "row"
       PROVE  covering' \in Seq(Ranges) /\ CoverInv(right + 1, Pushed(stack, k, right), emitted', covering')
  <2>1. phase = "needle"
    BY <1>1, <1>2, <1>12 DEF Extracting, TextInv
  <2>2. CoverInv(right, stack, emitted, covering)
    BY <1>1, <1>2, <1>12 DEF ChainInv
  <2> HIDE DEF m
  <2>3. /\ PairedCover(right, stack, covering) \in Seq(Ranges)
        /\ CoverInv(right + 1, Pushed(stack, k, right), Paired(right, stack, emitted), PairedCover(right, stack, covering))
    BY <1>3, <1>4, <1>5, <1>7, <2>2, PushCovers
  <2> QED BY <1>8, <2>1, <2>3
<1>13. PassInv'
  <2>1. covering' \in Seq(Ranges)
    BY <1>1, <1>2, <1>4, <1>8, <1>12 DEF Extracting, TextInv
  <2>2. right' \in Nat /\ stack' \in Seq(Nat) /\ emitted' \in Seq(Ranges)
    BY <1>2, <1>4, <1>6, <1>8, <1>11
  <2>3. Len(text') >= MinGram /\ right' <= Len(text') - (IF tokenizer' = "NGRAM" THEN MinGram ELSE span) + 1
    BY <1>2, <1>3, <1>9
  <2> QED BY <2>1, <2>2, <2>3 DEF PassInv
<1>14. GramsInv'
  BY <1>2, <1>6, <1>8, <1>9, <1>10 DEF GramsInv
<1>15. ChainInv'
  BY <1>1, <1>2, <1>6, <1>8, <1>9, <1>12 DEF ChainInv
<1> QED BY <1>9, <1>13, <1>14, <1>15 DEF Inv

LEMMA NgramWindowKeeps ==
    ASSUME Inv, NgramWindow
    PROVE  Inv'
<1> DEFINE r == <<right, right + MinGram>>
<1>1. TextInv /\ PassInv /\ GramsInv /\ ChainInv /\ PostInv /\ AnswerInv
  BY DEF Inv
<1>2. /\ Extracting /\ tokenizer = "NGRAM" /\ Emit(r) /\ right' = right + 1 /\ stack' = stack /\ InputUnchanged
  BY DEF NgramWindow
<1>3. /\ stack \in Seq(Nat) /\ emitted \in Seq(Ranges) /\ covering \in Seq(Ranges) /\ right \in Nat
      /\ Len(text) \in Nat /\ covering = <<>>
  BY <1>1, <1>2, TextIs DEF PassInv, ChainInv
<1>4. emitted' = Append(emitted, r) /\ covering' = covering
  BY <1>2 DEF Emit
<1>5. /\ TextInv' /\ PostInv' /\ AnswerInv'
      /\ Weights' = Weights /\ text' = text /\ tokenizer' = tokenizer /\ phase' = phase
  BY <1>1, <1>2, InputStays DEF InputUnchanged
<1>6. r \in Ranges /\ Append(emitted, r) \in Seq(Ranges)
  <2>1. r \in Ranges
    BY <1>3, SpanIs DEF Ranges
  <2> HIDE DEF r
  <2> QED BY <1>3, <2>1, AppendedIs
<1>7. PassInv'
  <2>1. Len(text) >= MinGram /\ right + MinGram <= Len(text)
    BY <1>2, <1>3, SpanIs DEF Extracting, Extracted
  <2>2. right + 1 <= Len(text) - MinGram + 1 /\ right + 1 \in Nat
    BY <1>3, <2>1, SpanIs
  <2> QED BY <1>2, <1>3, <1>4, <1>5, <1>6, <2>1, <2>2 DEF PassInv
<1>8. GramsInv'
  <2> DEFINE e == [i \in 1 .. right |-> <<i - 1, i - 1 + MinGram>>]
             f == [i \in 1 .. right + 1 |-> <<i - 1, i - 1 + MinGram>>]
  <2>1. emitted = e
    BY <1>1, <1>2 DEF GramsInv
  <2>2. Append(e, r) = f
    <3>1. Len(e) = right /\ e \in Seq(Ranges)
      BY <1>3, <2>1
    <3>2. Append(e, r) \in Seq(Ranges) /\ DOMAIN Append(e, r) = 1 .. right + 1
          /\ (\A i \in 1 .. right : Append(e, r)[i] = e[i]) /\ Append(e, r)[right + 1] = r
      <4> HIDE DEF e, r
      <4> QED BY <1>6, <3>1, AppendedIs
    <3>3. \A i \in 1 .. right + 1 : Append(e, r)[i] = f[i]
      <4> TAKE i \in 1 .. right + 1
      <4>1. CASE i \in 1 .. right
        BY <3>2, <4>1
      <4>2. CASE i = right + 1
        <5>1. f[i] = <<right, right + MinGram>>
          BY <1>3, <4>2, SpanIs
        <5> QED BY <3>2, <4>2, <5>1
      <4> QED BY <1>3, <4>1, <4>2
    <3>4. DOMAIN f = 1 .. right + 1 /\ f = [i \in 1 .. right + 1 |-> f[i]]
      OBVIOUS
    <3> DEFINE g == Append(e, r)
    <3>5. g \in Seq(Ranges) /\ DOMAIN g = DOMAIN f /\ \A i \in DOMAIN f : g[i] = f[i]
      BY <3>2, <3>3, <3>4
    <3> HIDE DEF e, r, g
    <3>6. g = [i \in DOMAIN g |-> g[i]]
      BY <3>5
    <3>7. g = f
      BY <3>4, <3>5, <3>6
    <3> QED BY <3>7 DEF g
  <2> QED BY <1>2, <1>4, <1>5, <2>1, <2>2 DEF GramsInv
<1>9. ChainInv'
  BY <1>1, <1>2, <1>3, <1>4, <1>5 DEF ChainInv
<1> QED BY <1>5, <1>7, <1>8, <1>9 DEF Inv

LEMMA KeyIs ==
    ASSUME NEW r
    PROVE  TokenizedGramKey(r) = KeyIn(text, r)
BY DEF TokenizedGramKey, KeyIn

\* The keys of some ranges.
LEMMA KeysAre ==
    ASSUME NEW e \in Seq(Ranges)
    PROVE  \A x : x \in ToSet(KeysOf(e)) <=> \E r \in ToSet(e) : x = KeyIn(text, r)
<1>1. KeysOf(e) = [i \in DOMAIN e |-> KeyIn(text, e[i])]
  BY KeyIs DEF KeysOf
<1>2. DOMAIN KeysOf(e) = DOMAIN e /\ \A i \in DOMAIN e : KeysOf(e)[i] = KeyIn(text, e[i])
  BY <1>1
<1>3. ToSet(KeysOf(e)) = {KeyIn(text, e[i]) : i \in DOMAIN e} /\ ToSet(e) = {e[i] : i \in DOMAIN e}
  BY <1>2 DEF ToSet
<1> QED BY <1>3

LEMMA PostRowKeeps ==
    ASSUME Inv, PostRow
    PROVE  Inv'
<1>1. TextInv /\ PassInv /\ GramsInv /\ ChainInv /\ PostInv /\ AnswerInv
  BY DEF Inv
<1>2. /\ phase = "row" /\ Extracted /\ posted' = ToSet(KeysOf(emitted)) /\ phase' = "needle"
      /\ \E a \in 1 .. Len(hay) : \E b \in a .. Len(hay) : text' = SubSeq(hay, a, b)
      /\ right' = 0 /\ stack' = <<>> /\ emitted' = <<>>
      /\ hay' = hay /\ tokenizer' = tokenizer /\ weight' = weight
      /\ covering' = covering /\ keys' = keys /\ shape' = shape
  BY DEF PostRow
<1>3. TextInv'
  <2>1. \E a \in 1 .. Len(hay') : \E b \in a .. Len(hay') : (CutFrom(text, hay, a, b))'
    BY <1>2 DEF CutFrom
  <2> QED BY <1>1, <1>2, <2>1 DEF TextInv
<1>4. covering' = <<>>
  BY <1>1, <1>2 DEF ChainInv
<1>5. PassInv' /\ GramsInv' /\ ChainInv'
  <2>1. PassInv'
    BY <1>2, <1>4, NotBegun DEF PassInv
  <2>2. Len(text') - span \in Int
    <3>1. Len(text') \in Int
      <4>1. PICK a \in 1 .. Len(hay) : \E b \in a .. Len(hay) : text' = SubSeq(hay, a, b)
        BY <1>2
      <4>2. PICK b \in a .. Len(hay) : text' = SubSeq(hay, a, b)
        BY <4>1
      <4>3. hay \in Seq(Codepoints)
        BY <1>1 DEF TextInv
      <4>4. Len(SubSeq(hay, a, b)) = b - a + 1
        BY <4>3, ExcerptOf
      <4> QED BY <4>2, <4>4
    <3> QED BY <3>1, SpanIs
  <2>3. StackInv(Weights', Len(text') - span, 0, <<>>, <<>>)
    BY <2>2, NotBegun
  <2>4. GramsInv'
    BY <1>2, <2>3, NotBegun DEF GramsInv
  <2>5. ChainInv'
    BY <1>2, <1>4, NotBegun DEF ChainInv
  <2> QED BY <2>1, <2>4, <2>5
<1>6. PostInv'
  <2>1. ASSUME NEW r, GramOf(tokenizer, weight, hay, r) PROVE KeyIn(hay, r) \in posted'
    <3>1. text = hay
      BY <1>1, <1>2 DEF TextInv
    <3>2. r \in ToSet(emitted)
      BY <1>1, <1>2, <2>1, <3>1, EmittedAre
    <3>3. KeyIn(text, r) \in ToSet(KeysOf(emitted))
      BY <1>1, <3>2, KeysAre DEF PassInv
    <3> QED BY <1>2, <3>1, <3>3
  <2> QED BY <1>2, <2>1 DEF PostInv
<1>7. AnswerInv'
  BY <1>1, <1>2 DEF AnswerInv
<1> QED BY <1>3, <1>5, <1>6, <1>7 DEF Inv

LEMMA DecomposeNeedleKeeps ==
    ASSUME Inv, DecomposeNeedle
    PROVE  Inv'
<1> DEFINE asked == IF tokenizer = "NGRAM" THEN emitted ELSE covering
           added == KeysOf(asked)
<1>1. TextInv /\ PassInv /\ GramsInv /\ ChainInv /\ PostInv /\ AnswerInv
  BY DEF Inv
<1>2. /\ phase = "needle" /\ Extracted /\ phase' = "answered"
      /\ hay' = hay /\ tokenizer' = tokenizer /\ weight' = weight /\ text' = text /\ right' = right
      /\ stack' = stack /\ emitted' = emitted /\ covering' = covering /\ posted' = posted
  BY DEF DecomposeNeedle
<1>3. TextInv' /\ PassInv' /\ GramsInv' /\ ChainInv' /\ PostInv'
  BY <1>1, <1>2 DEF TextInv, PassInv, GramsInv, ChainInv, PostInv, Weights
<1>4. shape' = "PROBEABLE" => asked # <<>> /\ keys' = ToSet(added)
  BY DEF DecomposeNeedle
<1>5. asked \in Seq(Ranges) /\ \A r \in ToSet(asked) : r \in ToSet(emitted)
  <2>1. tokenizer # "NGRAM" => ToSet(covering) \subseteq ToSet(emitted)
    BY <1>1, <1>2 DEF TextInv, ChainInv, CoverInv
  <2> QED BY <1>1, <2>1 DEF PassInv
<1> HIDE DEF asked
<1>6. ASSUME NEW x \in ToSet(added) PROVE x \in posted
  <2>1. PICK r \in ToSet(asked) : x = KeyIn(text, r)
    BY <1>5, <1>6, KeysAre
  <2>2. GramOf(tokenizer, weight, text, r)
    BY <1>1, <1>5, EmittedAre
  <2>3. hay \in Seq(Codepoints) /\ weight \in [Windows(hay) -> 1 .. MaxWeight]
    BY <1>1 DEF TextInv
  <2>4. PICK a \in 1 .. Len(hay) : \E b \in a .. Len(hay) : CutFrom(text, hay, a, b)
    BY <1>1, <1>2 DEF TextInv
  <2>5. PICK b \in a .. Len(hay) : CutFrom(text, hay, a, b)
    BY <2>4
  <2> DEFINE q == Shifted(r, a)
  <2>6. GramOf(tokenizer, weight, hay, q) /\ KeyIn(text, r) = KeyIn(hay, q)
    <3>1. GramOf(tokenizer, weight, hay, q)
      BY <2>2, <2>3, <2>5, ExcerptGram
    <3>2. KeyIn(text, r) = KeyIn(hay, q)
      BY <2>2, <2>3, <2>5, ExcerptGram
    <3> QED BY <3>1, <3>2
  <2> HIDE DEF q
  <2>7. KeyIn(hay, q) \in posted
    BY <1>1, <1>2, <2>6 DEF PostInv
  <2> QED BY <2>1, <2>6, <2>7
<1>7. asked # <<>> => ToSet(added) # {}
  <2>1. ASSUME asked # <<>> PROVE \E r : r \in ToSet(asked)
    <3>1. 1 \in DOMAIN asked
      BY <1>5, <2>1, RangesIn
    <3> QED BY <1>5, <3>1, RangesIn
  <2> QED BY <1>5, <2>1, KeysAre
<1>8. AnswerInv'
  BY <1>2, <1>4, <1>6, <1>7 DEF AnswerInv
<1> QED BY <1>3, <1>8 DEF Inv

LEMMA InitInv ==
    ASSUME Init
    PROVE  Inv
<1>1. /\ hay \in Seq(Codepoints) /\ tokenizer \in {"NGRAM", "SPARSE"} /\ weight \in [Windows(hay) -> 1 .. MaxWeight]
      /\ phase = "row" /\ text = hay /\ right = 0 /\ stack = <<>> /\ emitted = <<>> /\ covering = <<>>
      /\ shape = "none"
  <2>1. hay \in Seq(Codepoints)
    <3>1. PICK n \in 0 .. MaxText : hay \in [1 .. n -> Codepoints]
      BY DEF Init
    <3>2. n \in Nat
      BY GramOptions
    <3> QED BY <3>1, <3>2
  <2>2. weight \in [Windows(hay) -> 1 .. MaxWeight]
    BY DEF Init, SparseWindowWeight
  <2> QED BY <2>1, <2>2 DEF Init
<1>2. TextInv
  BY <1>1 DEF TextInv
<1>3. PassInv
  BY <1>1, NotBegun DEF PassInv
<1>4. GramsInv
  <2>1. Len(text) - span \in Int
    BY <1>2, TextIs, SpanIs
  <2>2. StackInv(Weights, Len(text) - span, 0, <<>>, <<>>)
    BY <2>1, NotBegun
  <2> QED BY <1>1, <2>2, NotBegun DEF GramsInv
<1>5. ChainInv
  BY <1>1 DEF ChainInv
<1> QED BY <1>1, <1>2, <1>3, <1>4, <1>5 DEF Inv, PostInv, AnswerInv

\* The stack, the grams emitted, the covering grams and the keys are at every
\* moment what the definition of a gram makes them (ExtractGramRanges,
\* DecomposeNeedle).
THEOREM PassInvariant == Spec => []Inv
<1>1. Init => Inv
  BY InitInv
<1>2. Inv /\ [Next]_vars => Inv'
  <2> SUFFICES ASSUME Inv, [Next]_vars PROVE Inv'
    OBVIOUS
  <2>1. CASE PairLighter
    BY <2>1, PairLighterKeeps
  <2>2. CASE ClearFar
    BY <2>2, ClearFarKeeps
  <2>3. CASE PushWindow
    BY <2>3, PushWindowKeeps
  <2>4. CASE NgramWindow
    BY <2>4, NgramWindowKeeps
  <2>5. CASE PostRow
    BY <2>5, PostRowKeeps
  <2>6. CASE DecomposeNeedle
    BY <2>6, DecomposeNeedleKeeps
  <2>7. CASE UNCHANGED vars
    BY <2>7 DEF vars, Inv, TextInv, PassInv, GramsInv, ChainInv, PostInv, AnswerInv, Weights
  <2> QED BY <2>1, <2>2, <2>3, <2>4, <2>5, <2>6, <2>7 DEF Next
<1> QED BY <1>1, <1>2, PTL DEF Spec

-----------------------------------------------------------------------------
(* What the pass shows *)

\* The definition, in the terms of the invariant.
LEMMA DefinedIs ==
    ASSUME TextInv
    PROVE  \A r : r \in Defined <=> GramOf(tokenizer, weight, text, r)
<1> DEFINE m == Len(text) - span
<1>1. Len(text) \in Nat
  BY TextIs
<1>2. \A i \in 0 .. m : WeightAt(i) = Weights[i]
  BY DEF Weights, WeightsOf, WeightAt, Window
<1>3. ASSUME NEW r \in (0 .. Len(text)) \X (0 .. Len(text))
      PROVE  r[1] \in Nat /\ r[2] \in Nat /\ r[2] <= Len(text) /\ r \in Nat \X Nat
  BY <1>1
<1>4. ASSUME NEW r \in Nat \X Nat, r[1] <= r[2], r[2] <= Len(text)
      PROVE  r \in (0 .. Len(text)) \X (0 .. Len(text))
  BY <1>1, <1>4
<1>5. CASE tokenizer = "NGRAM"
  <2>1. ASSUME NEW r, r \in Defined PROVE GramOf(tokenizer, weight, text, r)
    <3>1. /\ r \in (0 .. Len(text)) \X (0 .. Len(text)) /\ r[2] - r[1] >= MinGram /\ r[2] - r[1] <= MinGram
      BY <1>5, <2>1 DEF Defined
    <3>2. r[1] \in Nat /\ r[2] \in Nat /\ r[2] <= Len(text) /\ r \in Nat \X Nat
      BY <1>3, <3>1
    <3>3. r[2] = r[1] + MinGram
      BY <3>1, <3>2, SpanIs
    <3> QED BY <1>5, <3>2, <3>3 DEF GramOf
  <2>2. ASSUME NEW r, GramOf(tokenizer, weight, text, r) PROVE r \in Defined
    <3>1. r \in Nat \X Nat /\ r[2] = r[1] + MinGram /\ r[2] <= Len(text)
      BY <1>5, <2>2 DEF GramOf
    <3>2. /\ r[2] - r[1] >= MinGram /\ r[2] - r[1] <= MinGram /\ r[1] <= r[2]
          /\ r[1] + 1 .. r[2] - span - 1 = {}
      BY <3>1, SpanIs
    <3>3. r \in (0 .. Len(text)) \X (0 .. Len(text))
      BY <1>4, <3>1, <3>2
    <3> QED BY <1>5, <3>2, <3>3 DEF Defined
  <2> QED BY <2>1, <2>2
<1>6. CASE tokenizer = "SPARSE"
  <2> DEFINE D(r) == /\ r[2] - r[1] >= MinGram /\ r[2] - r[1] <= MaxGram
                     /\ \A i \in r[1] + 1 .. r[2] - span - 1 :
                           WeightAt(i) < WeightAt(r[1]) /\ WeightAt(i) < WeightAt(r[2] - span)
             N(r) == /\ r[2] - r[1] >= MinGram /\ r[2] - r[1] <= MaxGram
                     /\ \A i \in r[1] + 1 .. r[2] - span - 1 :
                           Weights[i] < Weights[r[1]] /\ Weights[i] < Weights[r[2] - span]
  <2>1. ASSUME NEW r \in Nat \X Nat, r[2] <= Len(text), r[2] - r[1] >= MinGram PROVE D(r) <=> N(r)
    <3> DEFINE x == r[1]
               y == r[2]
    <3>1. x \in 0 .. m /\ y - span \in 0 .. m /\ \A i \in x + 1 .. y - span - 1 : i \in 0 .. m
      BY <1>1, <2>1, SpanIs
    <3> QED BY <1>2, <3>1
  <2>2. \A r : r \in Defined <=> r \in (0 .. Len(text)) \X (0 .. Len(text)) /\ D(r)
    BY <1>6 DEF Defined
  <2>3. \A r : GramOf(tokenizer, weight, text, r) <=> r \in Nat \X Nat /\ r[2] - span <= m /\ N(r)
    BY <1>6 DEF GramOf, Named, Weights
  <2>4. ASSUME NEW r, r \in Defined PROVE GramOf(tokenizer, weight, text, r)
    <3>1. r \in (0 .. Len(text)) \X (0 .. Len(text)) /\ D(r)
      BY <2>2, <2>4
    <3>2. r[2] \in Nat /\ r[2] <= Len(text) /\ r \in Nat \X Nat
      BY <1>3, <3>1
    <3>3. r[2] - span <= m
      BY <1>1, <3>2, SpanIs
    <3> QED BY <2>1, <2>3, <3>1, <3>2, <3>3
  <2>5. ASSUME NEW r, GramOf(tokenizer, weight, text, r) PROVE r \in Defined
    <3>1. r \in Nat \X Nat /\ r[2] - span <= m /\ N(r)
      BY <2>3, <2>5
    <3>2. r[1] \in Nat /\ r[2] \in Nat /\ r[2] <= Len(text) /\ r[1] <= r[2]
      BY <1>1, <3>1, SpanIs
    <3>3. r \in (0 .. Len(text)) \X (0 .. Len(text))
      BY <1>4, <3>1, <3>2
    <3> QED BY <2>1, <2>2, <3>1, <3>2, <3>3
  <2> QED BY <2>4, <2>5
<1> QED BY <1>5, <1>6 DEF TextInv

\* One pass over the stack finds exactly the grams the definition names, each
\* once, in any text and with any weights of its windows, the weights that
\* collide among them (ExtractGramRanges).
THEOREM GramsFound == Spec => []GramsExact
<1>1. ASSUME Inv PROVE GramsExact
  <2>1. TextInv /\ PassInv /\ GramsInv /\ emitted \in Seq(Ranges)
    BY <1>1 DEF Inv, PassInv
  <2>2. /\ \A r \in ToSet(emitted) : r \in Defined
        /\ EachOnce(emitted)
        /\ \A r \in Defined : r[2] < right + span => r \in ToSet(emitted)
        /\ Extracted => \A r \in Defined : r \in ToSet(emitted)
    BY <2>1, EmittedAre, DefinedIs
  <2> QED BY <2>2 DEF GramsExact, EachOnce
<1> QED BY <1>1, PassInvariant, PTL

\* The covering grams are at every moment the largest grams so far, and reach
\* from the needle's first codepoint to its last with neighbours that share one
\* window (ExtractGramRanges, DecomposeNeedle).
THEOREM NeedleCovered == Spec => []CoveringChain
<1>1. ASSUME Inv PROVE CoveringChain
  <2>1. TextInv /\ PassInv /\ GramsInv /\ ChainInv
    BY <1>1 DEF Inv
  <2>2. SUFFICES ASSUME phase # "row", tokenizer = "SPARSE"
                 PROVE  /\ ToSet(covering) = {r \in ToSet(emitted) : \A s \in ToSet(emitted) : ~Holds(s, r)}
                        /\ Extracted /\ Len(text) >= MinGram =>
                             /\ covering # <<>>
                             /\ covering[1][1] = 0 /\ Last(covering)[2] = Len(text)
                             /\ \A i \in 1 .. Len(covering) - 1 : covering[i][2] - covering[i + 1][1] = span
    BY DEF CoveringChain
  <2>3. emitted \in Seq(Ranges) /\ covering \in Seq(Ranges) /\ stack \in Seq(Nat) /\ right \in Nat
    BY <2>1 DEF PassInv
  <2>4. CoverInv(right, stack, emitted, covering)
    BY <2>1, <2>2 DEF ChainInv
  <2>5. ToSet(covering) = {r \in ToSet(emitted) : \A s \in ToSet(emitted) : ~Holds(s, r)}
    BY <2>3, <2>4, CoverIsLargest
  <2>6. ASSUME Extracted, Len(text) >= MinGram
        PROVE  /\ covering # <<>> /\ covering[1][1] = 0 /\ covering[Len(covering)][2] = Len(text)
               /\ \A i \in 1 .. Len(covering) - 1 : covering[i][2] - covering[i + 1][1] = span
    <3> DEFINE m == Len(text) - span
    <3>1. /\ Len(text) \in Nat /\ Weights \in [0 .. m -> Int] /\ StackInv(Weights, m, right, stack, emitted)
      BY <2>1, <2>2, TextIs DEF GramsInv
    <3>2. right + span > Len(text) /\ (right # 0 => right <= m + 1)
      BY <2>1, <2>2, <2>6, <3>1, SpanIs DEF Extracted, PassInv
    <3>3. m \in Nat /\ m > 0 /\ m + span = Len(text)
      BY <2>6, <3>1, SpanIs
    <3> HIDE DEF m
    <3>4. right = m + 1
      BY <2>3, <3>1, <3>2, <3>3, SpanIs
    <3>5. StackInv(Weights, m, m + 1, stack, emitted) /\ CoverInv(m + 1, stack, emitted, covering)
      BY <2>4, <3>1, <3>4
    <3>6. /\ covering # <<>> /\ covering[1][1] = 0 /\ covering[Len(covering)][2] = m + span
          /\ \A i \in 1 .. Len(covering) - 1 : covering[i][2] - covering[i + 1][1] = span
      BY <2>3, <3>1, <3>3, <3>5, ChainReaches
    <3> QED BY <3>3, <3>6
  <2> QED BY <2>5, <2>6 DEF Last
<1> QED BY <1>1, PassInvariant, PTL

\* A row that holds the needle is posted under every key the needle asks for,
\* whatever the row, the needle, the weights and the options (DecomposeNeedle).
THEOREM KeysPosted == Spec => []NeedleFound
<1>1. ASSUME Inv PROVE NeedleFound
  BY <1>1 DEF Inv, AnswerInv, NeedleFound
<1> QED BY <1>1, PassInvariant, PTL
=============================================================================
