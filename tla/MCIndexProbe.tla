---------------------------- MODULE MCIndexProbe ----------------------------
(***************************************************************************)
(* Four rows, three of them in one segment, for IndexProbe: every          *)
(* placement of two keys, with a third key in every row or only in the     *)
(* first two.                                                              *)
(***************************************************************************)
EXTENDS IndexProbe, TLC

Rows == 0 .. 3
ThirdKey == {Rows, {0, 1}}
TwoKeys == {[r \in Rows |-> f[r] \union (IF r \in t THEN {3} ELSE {})] :
                f \in [Rows -> SUBSET {1, 2}], t \in ThirdKey}
WorkerSymmetry == Permutations(Workers)
=============================================================================
