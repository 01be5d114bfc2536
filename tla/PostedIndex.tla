----------------------------- MODULE PostedIndex ----------------------------
(***************************************************************************)
(* What refresh and compaction promise of an index to those who only see   *)
(* what is committed (src/src/maintenance_sql.cpp): a set of posted rowids *)
(* up to a mark, and rows that writers commit and delete. There are no     *)
(* scripts, snapshots, segments or generations.                            *)
(***************************************************************************)
EXTENDS Integers

CONSTANTS Rowid  \* the rowids

VARIABLES rows,    \* the rows of the table
          hwm,     \* the index's mark
          posted   \* the rowids it has postings of

vars == <<rows, hwm, posted>>

\* An index just built.
Init ==
    /\ rows \in SUBSET Rowid
    /\ hwm \in Rowid \union {-1}
    /\ \A r \in rows : r <= hwm
    /\ posted = rows

\* Writers delete any row; a new one always comes above the mark.
Write ==
    /\ rows' \in SUBSET Rowid
    /\ \A r \in rows' \ rows : hwm < r
    /\ UNCHANGED <<hwm, posted>>

\* A commit of refreshes and compactions: every row the mark passes is posted,
\* what is posted anew the mark has just passed, and only what is no row any
\* more loses its posting, for ever.
Maintain ==
    /\ hwm' \in Rowid \union {-1} /\ hwm <= hwm'
    /\ posted' \in SUBSET Rowid
    /\ \A r \in posted' \ posted : hwm < r /\ r <= hwm'
    /\ \A r \in rows : r \in posted \/ r <= hwm' => r \in posted'
    /\ UNCHANGED rows

Next == Write \/ Maintain

Spec == Init /\ [][Next]_vars
=============================================================================
