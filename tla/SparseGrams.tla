----------------------------- MODULE SparseGrams -----------------------------
(***************************************************************************)
(* Cutting text into grams and a needle into probe keys                    *)
(* (src/src/include/ngram/gram.hpp, src/src/gram.cpp).  A row's text is    *)
(* extracted and its keys are posted; then a needle the row contains is    *)
(* extracted by the same pass and keyed by its covering grams.  Texts are  *)
(* sequences of folded codepoints.  A range <<first, end>> is the          *)
(* codepoints [first, end), counted from 0.  There is one needle: the keys *)
(* of a predicate with several are their union, cut to the budget          *)
(* (src/src/rewrite.cpp:342, src/src/lake_query.cpp:182), which is left    *)
(* out.                                                                    *)
(***************************************************************************)
EXTENDS Integers, Sequences, FiniteSets, SequencesExt

CONSTANTS Codepoints,   \* the folded codepoints texts are written in
          MinGram,      \* GramOptions::min_gram
          MaxGram,      \* GramOptions::max_gram
          MaxText,      \* bound: codepoints of a row's text
          MaxWeight,    \* bound: different window weights
          Budgets       \* bound: the max_keys a needle may be given

\* ValidateGramOptions, for both tokenizers; see Init for the sparse one's.
ASSUME GramOptions ==
    /\ MinGram \in Nat /\ MinGram >= 1 /\ MaxGram \in Nat /\ MaxGram >= MinGram
    /\ MaxText \in Nat /\ MaxWeight \in Nat

VARIABLES hay,         \* the row's text
          tokenizer,   \* "NGRAM" or "SPARSE"
          weight,      \* SparseWindowWeight, over the windows of the text
          phase,       \* "row", "needle" or "answered"
          text,        \* what is being extracted
          right,       \* the window the pass has reached
          stack,       \* GramScratch::windows: positions of the windows kept
          emitted,     \* the ranges emitted, in order
          covering,    \* the needle's covering grams so far
          posted,      \* the keys the row is indexed under
          keys,        \* the keys the needle asks for
          shape        \* NeedleShape, "none" before it is known
vars == <<hay, tokenizer, weight, phase, text, right, stack, emitted, covering, posted, keys, shape>>

span == MinGram - 1

\* The window of `span` codepoints at `position`, and its weight.
Window(position) == SubSeq(text, position + 1, position + span)
WeightAt(position) == weight[Window(position)]

\* The windows of a text, and the weights they may hash to: a pair of
\* codepoints never shares its weight, a longer window may.
Windows(t) == {SubSeq(t, i, i + span - 1) : i \in 1 .. Len(t) - span + 1}
SparseWindowWeight(t) ==
    {w \in [Windows(t) -> 1 .. MaxWeight] : span = 2 => \A u, v \in Windows(t) : w[u] = w[v] => u = v}

-----------------------------------------------------------------------------
(* Keys.  A gram of min_gram codepoints keeps its text, a longer one shares *)
(* a bucket with other long grams; the hash is stood in for by the first    *)
(* codepoint.                                                               *)
\* Faulty: a bucket is picked by where the gram stands.
KeyByPlace(range) ==
    LET gram == SubSeq(text, range[1] + 1, range[2])
    IN  IF Len(gram) = MinGram THEN <<"gram", gram>> ELSE <<"bucket", text[1]>>

\* The key a gram is posted and probed under.
TokenizedGramKey(range) ==
    LET gram == SubSeq(text, range[1] + 1, range[2])
    IN  IF Len(gram) = MinGram THEN <<"gram", gram>> ELSE <<"bucket", Head(gram)>>

KeysOf(ranges) == [i \in DOMAIN ranges |-> TokenizedGramKey(ranges[i])]

\* NeedleKeys::Add for each key in turn: a key already there costs nothing,
\* one past the budget is refused.
Admitted(added, max_keys) ==
    FoldLeft(LAMBDA seen, key : IF key \in seen \/ Cardinality(seen) >= max_keys THEN seen ELSE seen \cup {key},
             {}, added)

\* Needle bytes admitted per key of the budget; a codepoint is one byte here.
NEEDLE_BYTES_PER_KEY == IF tokenizer = "SPARSE" THEN 4 ELSE 16

-----------------------------------------------------------------------------
(* ExtractGramRanges. *)
Init == /\ hay \in UNION {[1 .. n -> Codepoints] : n \in 0 .. MaxText}
        /\ tokenizer \in {"NGRAM", "SPARSE"} /\ (tokenizer = "SPARSE" => MinGram >= 3)
        /\ weight \in SparseWindowWeight(hay)
        /\ phase = "row" /\ text = hay
        /\ right = 0 /\ stack = <<>> /\ emitted = <<>> /\ covering = <<>>
        /\ posted = {} /\ keys = {} /\ shape = "none"

\* The pass has no window left, or never started on a short text.
Extracted == Len(text) < MinGram \/ right + (IF tokenizer = "NGRAM" THEN MinGram ELSE span) > Len(text)
Extracting == phase # "answered" /\ ~Extracted

Top == Last(stack)

\* Faulty: the distance leaves out the window reached.
WithinBorders(position) == right - position <= MaxGram

\* A border at `position` is near enough to the window reached.
WithinMaxGram(position) == right + span - position <= MaxGram

\* Faulty: only grams that start later are retired.
CoversStrictly(range) ==
    Append(SubSeq(covering, 1, Max({0} \union {i \in DOMAIN covering : covering[i][1] <= range[1]})), range)

\* A needle's gram retires the last kept grams for as long as they start no earlier.
Covers(range) ==
    Append(SubSeq(covering, 1, Max({0} \union {i \in DOMAIN covering : covering[i][1] < range[1]})), range)

Emit(range) == /\ emitted' = Append(emitted, range)
               /\ covering' = IF phase = "needle" /\ tokenizer = "SPARSE" THEN Covers(range) ELSE covering

\* A window retires those on top of the stack for as long as they weigh the same.
Retired(kept, position) ==
    SubSeq(kept, 1, Max({0} \union {i \in DOMAIN kept : WeightAt(kept[i]) # WeightAt(position)}))

InputUnchanged == UNCHANGED <<hay, tokenizer, weight, phase, text, posted, keys, shape>>

\* A lighter window on top pairs with the window reached and goes.
PairLighter ==
    /\ Extracting /\ tokenizer = "SPARSE" /\ stack # <<>>
    /\ WeightAt(Top) < WeightAt(right) /\ WithinMaxGram(Top)
    /\ Emit(<<Top, right + span>>)
    /\ stack' = Front(stack)
    /\ UNCHANGED right /\ InputUnchanged

\* A lighter border too far back clears the stack.
ClearFar ==
    /\ Extracting /\ tokenizer = "SPARSE" /\ stack # <<>>
    /\ WeightAt(Top) < WeightAt(right) /\ ~WithinMaxGram(Top)
    /\ stack' = <<>>
    /\ UNCHANGED <<right, emitted, covering>> /\ InputUnchanged

\* The window reached pairs with the window left on top, retires its equals
\* and is pushed.
PushWindow ==
    /\ Extracting /\ tokenizer = "SPARSE"
    /\ stack # <<>> => WeightAt(Top) >= WeightAt(right)
    /\ IF stack # <<>> /\ WithinMaxGram(Top) THEN Emit(<<Top, right + span>>)
       ELSE UNCHANGED <<emitted, covering>>
    /\ stack' = Append(Retired(stack, right), right)
    /\ right' = right + 1
    /\ InputUnchanged

\* An ngram index emits its windows left to right.
NgramWindow ==
    /\ Extracting /\ tokenizer = "NGRAM"
    /\ Emit(<<right, right + MinGram>>)
    /\ right' = right + 1
    /\ UNCHANGED stack /\ InputUnchanged

-----------------------------------------------------------------------------
\* The row's keys are posted, and a needle it contains is extracted.
PostRow ==
    /\ phase = "row" /\ Extracted
    /\ posted' = ToSet(KeysOf(emitted))
    /\ phase' = "needle"
    /\ \E first \in 1 .. Len(hay) : \E last \in first .. Len(hay) : text' = SubSeq(hay, first, last)
    /\ right' = 0 /\ stack' = <<>> /\ emitted' = <<>>
    /\ UNCHANGED <<hay, tokenizer, weight, covering, keys, shape>>

\* DecomposeNeedle's verdict: an ngram needle asks for all its grams, a
\* sparse one for its covering grams.
DecomposeNeedle ==
    /\ phase = "needle" /\ Extracted
    /\ LET asked == IF tokenizer = "NGRAM" THEN emitted ELSE covering
           added == KeysOf(asked)
       IN  \E max_keys \in Budgets :
             IF Len(text) > NEEDLE_BYTES_PER_KEY * max_keys
             THEN shape' = "OVER_BUDGET" /\ keys' = {}
             ELSE /\ keys' = Admitted(added, max_keys)
                  /\ shape' = CASE asked = <<>> -> "TOO_SHORT"
                                [] asked # <<>> /\ keys' = ToSet(added) -> "PROBEABLE"
                                [] OTHER -> "OVER_BUDGET"
    /\ phase' = "answered"
    /\ UNCHANGED <<hay, tokenizer, weight, text, right, stack, emitted, covering, posted>>

Next == PairLighter \/ ClearFar \/ PushWindow \/ NgramWindow \/ PostRow \/ DecomposeNeedle

Spec == Init /\ [][Next]_vars

-----------------------------------------------------------------------------
\* The ranges the definition names: windows of min_gram to max_gram
\* codepoints whose inner windows all weigh less than both border windows.
Defined ==
    {r \in (0 .. Len(text)) \X (0 .. Len(text)) :
        /\ r[2] - r[1] >= MinGram
        /\ r[2] - r[1] <= IF tokenizer = "NGRAM" THEN MinGram ELSE MaxGram
        /\ \A i \in r[1] + 1 .. r[2] - span - 1 :
              WeightAt(i) < WeightAt(r[1]) /\ WeightAt(i) < WeightAt(r[2] - span)}

Holds(big, small) == big # small /\ big[1] <= small[1] /\ small[2] <= big[2]

\* One pass over the stack finds exactly the grams the definition names, each
\* once, and at every window on the way exactly those ending at or before it
\* (ExtractGramRanges).
GramsExact ==
    /\ \A i, j \in DOMAIN emitted : emitted[i] = emitted[j] => i = j
    /\ Extracted => ToSet(emitted) = Defined
    /\ \A r \in Defined : r[2] < right + span => r \in ToSet(emitted)

\* After each gram, what DecomposeNeedle keeps is exactly the grams so far
\* that no other gram so far contains; at the end these form a chain from the
\* needle's first codepoint to its last in which neighbours share exactly one
\* border window, so the keys probed leave no part of the needle unprobed.
CoveringChain ==
    phase # "row" /\ tokenizer = "SPARSE" =>
        /\ ToSet(covering) = {r \in ToSet(emitted) : \A s \in ToSet(emitted) : ~Holds(s, r)}
        /\ Extracted /\ Len(text) >= MinGram =>
             /\ covering # <<>>
             /\ covering[1][1] = 0 /\ Last(covering)[2] = Len(text)
             /\ \A i \in 1 .. Len(covering) - 1 : covering[i][2] - covering[i + 1][1] = span

\* A row that contains the needle is posted under every key the needle probes
\* for, wherever the needle stands in it: build and query cannot disagree.
NeedleFound == shape = "PROBEABLE" => keys # {} /\ keys \subseteq posted
=============================================================================
