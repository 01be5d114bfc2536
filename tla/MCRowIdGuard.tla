---------------------------- MODULE MCRowIdGuard ----------------------------
(***************************************************************************)
(* RowIdGuard for TLC: connections are interchangeable.  Indexes are not:  *)
(* NoTxn picks one of them as its idle target.                             *)
(***************************************************************************)
EXTENDS RowIdGuardInductive, TLC

TxnSymmetry == Permutations(Txns)
=============================================================================
