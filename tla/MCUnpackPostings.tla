-------------------------- MODULE MCUnpackPostings --------------------------
(***************************************************************************)
(* UnpackPostings for TLC: up to two input chunks of up to two segment     *)
(* rows of one to five postings, each posting different, with an output    *)
(* chunk of two rowids.                                                    *)
(***************************************************************************)
EXTENDS UnpackPostings

\* Postings counts of the rows of one chunk.
Counts == UNION {[1 .. n -> 1 .. 5] : n \in 0 .. 2}

\* The rows of counts `c`, every rowid named by its chunk, row and place.
RowsOf(chunk, c) == [row \in DOMAIN c |-> [i \in 1 .. c[row] |-> <<chunk, row, i>>]]

SmallChunks == {<<RowsOf(1, c)>> : c \in Counts} \cup {<<RowsOf(1, c), RowsOf(2, d)>> : c, d \in Counts}
=============================================================================
