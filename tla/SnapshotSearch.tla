--------------------------- MODULE SnapshotSearch ---------------------------
(***************************************************************************)
(* What ngram_search promises (src/README.md, docs/stale-updates.md): an   *)
(* answer is the set of matching rows of the caller's snapshot, as a full  *)
(* scan would return it.  No index, guard, checkpoint or crash is visible. *)
(***************************************************************************)
CONSTANTS Rowid,  \* row identifiers
          Conns   \* connections

VARIABLES rows,     \* the rows a new snapshot sees
          session   \* per connection: its snapshot and its last answer

vars == <<rows, session>>

Closed == [open |-> FALSE, view |-> {}, answered |-> FALSE, found |-> {}]

\* A session on a snapshot: its answer, once it asks, is the snapshot itself.
Opened(view, answered) == [open |-> TRUE, view |-> view, answered |-> answered, found |-> view]

Init == rows = {} /\ session = [c \in Conns |-> Closed]

\* Any transaction may commit any change.
Change == rows' \in SUBSET Rowid /\ UNCHANGED session

Begin(c) ==
    /\ ~session[c].open
    /\ session' = [session EXCEPT ![c] = Opened(rows, FALSE)]
    /\ UNCHANGED rows

Answer(c) ==
    /\ session[c].open
    /\ session' = [session EXCEPT ![c] = Opened(session[c].view, TRUE)]
    /\ UNCHANGED rows

End(c) ==
    /\ session[c].open
    /\ session' = [session EXCEPT ![c] = Closed]
    /\ UNCHANGED rows

\* Every connection is lost at once; a commit under way may survive.
Restart ==
    /\ rows' \in SUBSET Rowid
    /\ session' = [c \in Conns |-> Closed]

Next == Change \/ Restart \/ \E c \in Conns : Begin(c) \/ Answer(c) \/ End(c)

Spec == Init /\ [][Next]_vars
=============================================================================
