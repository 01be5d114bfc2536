-------------------------- MODULE MaintenanceState --------------------------
(***************************************************************************)
(* The maintenance state of the connections to one database                *)
(* (src/src/fence.cpp): the handles that tie a generated statement to the  *)
(* pragma that produced it, the vacuum fence a script holds from its first *)
(* check until DuckDB's post-commit or rollback callback, and the creation *)
(* barrier that the script of a table's first index takes with it.         *)
(*                                                                         *)
(* A connection submits one statement at a time.  The host expands a       *)
(* pragma in a transaction of its own, or in the user's, then runs the     *)
(* script, each statement of which takes one handle.  A script that        *)
(* installs a fresh guard takes one, with the barrier, and a second        *)
(* statement proves the guard and releases the barrier.                    *)
(***************************************************************************)
EXTENDS Integers, Sequences

CONSTANTS Connections,
          Lengths,  \* the numbers of handles a script may take
          MaxTxn    \* bound: the last transaction id

ASSUME StateConstants == Lengths \subseteq Nat \ {0} /\ MaxTxn \in Nat

NoTxn == 0
TxnId == 0 .. MaxTxn

VARIABLES last_txn,   \* the last transaction id handed out
          vacuuming,  \* a checkpoint holds the vacuum lock exclusively
          conn        \* each connection's transaction, script and state

vars == <<last_txn, vacuuming, conn>>

\* A handle: its place in the group of one pragma call, the transaction that
\* expanded it, and the one that runs its script, once known.
Handle == [group : 1 .. MaxTxn, place : Nat \ {0}, expansion_id : TxnId, script_id : TxnId]

\* own: the transaction's shared vacuum and checkpoint locks; fence and barrier:
\* MaintenanceState's, the latter as the transaction that holds it and, in
\* `guard`, the group whose fresh guard it waits for; creating: the script
\* installs a fresh guard; altered: the transaction changed the catalog.
Connection == [txn : TxnId, explicit : BOOLEAN, ending : BOOLEAN, own : BOOLEAN,
               group : 0 .. MaxTxn, next : Nat, length : Nat,
               fence : BOOLEAN, handles : SUBSET Handle, next_group : 0 .. MaxTxn,
               checked : BOOLEAN, begun : 0 .. MaxTxn,
               barrier : TxnId, guard : 0 .. MaxTxn, creating : BOOLEAN, altered : BOOLEAN]

TypeOK ==
    /\ last_txn \in TxnId /\ vacuuming \in BOOLEAN
    /\ conn \in [Connections -> Connection]

Init ==
    /\ last_txn = 0 /\ vacuuming = FALSE
    /\ conn = [c \in Connections |->
         [txn |-> NoTxn, explicit |-> FALSE, ending |-> FALSE, own |-> FALSE,
          group |-> 0, next |-> 0, length |-> 0, fence |-> FALSE, handles |-> {},
          next_group |-> 0, checked |-> FALSE, begun |-> 0,
          barrier |-> NoTxn, guard |-> 0, creating |-> FALSE, altered |-> FALSE]]

Scripted(c) == conn[c].next < conn[c].length
Finishing(c) == conn[c].creating /\ conn[c].next = 1
NewTxn == last_txn < MaxTxn /\ last_txn' = last_txn + 1
SameTxn == UNCHANGED last_txn
-----------------------------------------------------------------------------
\* NewGroup, then Register for each statement of the script.
Register(state, expansion, count) ==
    [state EXCEPT !.next_group = @ + 1,
                  !.handles = {h \in @ : h.expansion_id = expansion} \union
                      {[group |-> state.next_group + 1, place |-> k, expansion_id |-> expansion,
                        script_id |-> NoTxn] : k \in 1 .. count}]

\* Faulty: the state ends with any transaction.
EndAll(state, txn) ==
    [state EXCEPT !.fence = FALSE, !.barrier = NoTxn, !.guard = 0, !.handles = {}]

\* TransactionEnd, DuckDB's callback after a commit or rollback: the fence goes,
\* and the barrier with it.
TransactionEnd(state, txn) ==
    [state EXCEPT !.fence = FALSE, !.barrier = NoTxn, !.guard = 0,
                  !.handles = {h \in @ : h.script_id # txn}]

\* No transaction, no script.
Quiet(state) ==
    [state EXCEPT !.txn = NoTxn, !.explicit = FALSE, !.ending = FALSE, !.own = FALSE,
                  !.group = 0, !.next = 0, !.length = 0, !.checked = FALSE,
                  !.creating = FALSE, !.altered = FALSE]

\* The user opens a transaction.
Begin(c) ==
    /\ conn[c].txn = NoTxn /\ ~Scripted(c)
    /\ NewTxn
    /\ conn' = [conn EXCEPT ![c].txn = last_txn', ![c].explicit = TRUE]
    /\ UNCHANGED vacuuming

\* The pragma registers `count` handles; the script of `length` statements
\* follows, or nothing when the callback throws on the way (length = 0).
\* CreateIndexScript of a first index registers one, and the proof follows.
Expand(c, count, length, creating) ==
    /\ ~Scripted(c) /\ ~conn[c].ending
    /\ conn[c].next_group < MaxTxn
    /\ \/ /\ conn[c].txn = NoTxn
          /\ NewTxn
          /\ conn' = [conn EXCEPT ![c] =
               [TransactionEnd(Register(@, last_txn', count), last_txn') EXCEPT
                   !.group = conn[c].next_group + 1, !.next = 0, !.length = length,
                   !.creating = creating]]
       \/ /\ conn[c].explicit
          /\ SameTxn
          /\ conn' = [conn EXCEPT ![c] =
               [Register(@, conn[c].txn, count) EXCEPT
                   !.group = conn[c].next_group + 1, !.next = 0, !.length = length,
                   !.creating = creating]]
    /\ UNCHANGED vacuuming

\* Outside an explicit transaction the script opens one.
StartScript(c) ==
    /\ Scripted(c) /\ conn[c].txn = NoTxn
    /\ NewTxn
    /\ conn' = [conn EXCEPT ![c].txn = last_txn']
    /\ UNCHANGED vacuuming

\* Another statement of the connection, before the script.
Unrelated(c) ==
    /\ conn[c].txn = NoTxn
    /\ NewTxn
    /\ conn' = [conn EXCEPT ![c] = TransactionEnd(@, last_txn')]
    /\ UNCHANGED vacuuming

Taken(c) == {h \in conn[c].handles : h.group = conn[c].group /\ h.place = conn[c].next + 1}

\* Faulty: the rest of the group does not learn its script.
TakeAlone(state, taken) == [state EXCEPT !.handles = @ \ taken]

\* Take: the handle is consumed and its group's script is known.
Take(state, taken) ==
    [state EXCEPT !.handles = {IF \E t \in taken : t.group = h.group
                               THEN [h EXCEPT !.script_id = state.txn] ELSE h : h \in @ \ taken}]

\* Faulty: the transaction's own lock is the only one.
OwnLock(state) == [state EXCEPT !.own = TRUE]

\* AcquireMaintenanceFence: the transaction's lock, and one until its end.
Acquire(state) == [state EXCEPT !.own = TRUE, !.fence = TRUE]

\* TryGetCheckpointLock: no other transaction writes.
Excludes(c) == \A d \in Connections \ {c} : ~conn[d].own /\ conn[d].barrier = NoTxn

\* No other connection holds the checkpoint lock exclusively.
Unbarred(c) == \A d \in Connections \ {c} : conn[d].barrier = NoTxn

\* A statement's call takes its handle, acquires the fence and repeats the
\* checks: MaintenanceGuardFunction, MaintenanceAppendFunction.
RunStatement(c) ==
    /\ Scripted(c) /\ conn[c].txn # NoTxn /\ ~conn[c].creating
    /\ Taken(c) # {}
    /\ ~vacuuming /\ Unbarred(c)
    /\ \E altered \in BOOLEAN :
         conn' = [conn EXCEPT ![c] =
           [Acquire(Take(conn[c], Taken(c))) EXCEPT
               !.next = conn[c].next + 1, !.checked = TRUE, !.begun = conn[c].group,
               !.altered = conn[c].altered \/ altered]]
    /\ SameTxn /\ UNCHANGED vacuuming

\* HoldCreationBarrier.
Hold(state) == [state EXCEPT !.barrier = state.txn, !.guard = state.group]

\* CheckPreparedCreate without a sibling: AcquireCreationBarrier.
TakeBarrier(c) ==
    /\ Scripted(c) /\ conn[c].txn # NoTxn /\ conn[c].creating /\ ~Finishing(c)
    /\ Taken(c) # {}
    /\ ~vacuuming
    /\ ~conn[c].altered /\ Excludes(c) /\ conn[c].barrier = NoTxn
    /\ conn' = [conn EXCEPT ![c] =
         [Hold(Acquire(Take(conn[c], Taken(c)))) EXCEPT
             !.next = conn[c].next + 1, !.checked = TRUE, !.begun = conn[c].group]]
    /\ SameTxn /\ UNCHANGED vacuuming

\* Faulty: the guard is proved and the barrier is left.
Proved(state) == state

\* FinishCreation's resets.
Release(state) == [state EXCEPT !.barrier = NoTxn, !.guard = 0]

\* CreationFinishFunction, once the table was replaced and its guard created.
Finish(c) ==
    /\ Finishing(c)
    /\ conn[c].barrier # NoTxn /\ conn[c].barrier = conn[c].txn /\ conn[c].guard = conn[c].group
    /\ conn' = [conn EXCEPT ![c] =
         [Release(conn[c]) EXCEPT !.next = conn[c].next + 1, !.altered = TRUE]]
    /\ SameTxn /\ UNCHANGED vacuuming

\* A check fails once the handle is taken.
StatementFails(c) ==
    /\ Scripted(c) /\ conn[c].txn # NoTxn
    /\ Taken(c) # {}
    /\ ~vacuuming
    /\ conn' = [conn EXCEPT ![c] =
         Quiet(TransactionEnd([Take(@, Taken(c)) EXCEPT !.begun = conn[c].group], conn[c].txn))]
    /\ SameTxn /\ UNCHANGED vacuuming

\* The host runs what a commit needs: the transaction drops its own vacuum
\* lock, then an automatic checkpoint may run.
CommitStart(c) ==
    /\ conn[c].txn # NoTxn /\ ~Scripted(c) /\ ~conn[c].ending
    /\ conn' = [conn EXCEPT ![c].ending = TRUE, ![c].own = FALSE]
    /\ SameTxn /\ UNCHANGED vacuuming

CommitEnd(c) ==
    /\ conn[c].ending
    /\ conn' = [conn EXCEPT ![c] = Quiet(TransactionEnd(@, conn[c].txn))]
    /\ SameTxn /\ UNCHANGED vacuuming

\* The transaction rolls back: an error, an interrupt or the user.
Rollback(c) ==
    /\ conn[c].txn # NoTxn /\ ~conn[c].ending
    /\ conn' = [conn EXCEPT ![c] = Quiet(TransactionEnd(@, conn[c].txn))]
    /\ SameTxn /\ UNCHANGED vacuuming

\* The script of an expansion never runs.
Forget(c) ==
    /\ Scripted(c) /\ conn[c].txn = NoTxn
    /\ conn' = [conn EXCEPT ![c] = Quiet(@)]
    /\ SameTxn /\ UNCHANGED vacuuming

\* A checkpoint, the one of a commit under way included, vacuums only when it
\* gets the vacuum lock exclusively.
Vacuum ==
    /\ ~vacuuming
    /\ \A c \in Connections : ~conn[c].own /\ ~conn[c].fence
    /\ vacuuming' = TRUE
    /\ UNCHANGED <<last_txn, conn>>

VacuumEnd ==
    /\ vacuuming
    /\ vacuuming' = FALSE
    /\ UNCHANGED <<last_txn, conn>>

Next ==
    \/ Vacuum
    \/ VacuumEnd
    \/ \E c \in Connections :
         \/ Begin(c)
         \/ \E count \in Lengths : Expand(c, count, count, FALSE) \/ Expand(c, count, 0, FALSE)
         \/ Expand(c, 1, 2, TRUE)
         \/ StartScript(c) \/ Unrelated(c) \/ RunStatement(c) \/ StatementFails(c)
         \/ TakeBarrier(c) \/ Finish(c)
         \/ CommitStart(c) \/ CommitEnd(c) \/ Rollback(c) \/ Forget(c)

Spec == Init /\ [][Next]_vars
-----------------------------------------------------------------------------
\* From a script's first check until its transaction has ended no vacuum runs,
\* the automatic checkpoint of its own commit included, after DuckDB dropped
\* the transaction's lock (fence.cpp:22-26).
FenceHeld == \A c \in Connections : conn[c].checked => ~vacuuming

\* A generated statement always finds its handle: neither the end of the
\* expansion's transaction, nor an unrelated statement, nor an earlier script
\* takes it away (fence.cpp:46-54, 182-185).
HandlesFound ==
    \A c \in Connections :
        \A k \in conn[c].next + 1 .. IF conn[c].creating THEN 1 ELSE conn[c].length :
            \E h \in conn[c].handles : h.group = conn[c].group /\ h.place = k

\* Between transactions nothing is left of a script that ran, and what is left
\* of scripts that never did is of one expansion: a connection's state does
\* not grow with its statements.
NothingLeft ==
    \A c \in Connections : conn[c].txn = NoTxn =>
        /\ ~conn[c].fence
        /\ \A h \in conn[c].handles : h.group # conn[c].begun
        /\ \A h, i \in conn[c].handles : h.expansion_id = i.expansion_id

\* The statement that proves a fresh guard finds the barrier of its own
\* transaction and of its own guard, whatever scripts failed, were abandoned or
\* ran before it in that transaction; nobody holds a barrier otherwise, and
\* while one is held no other transaction writes (fence.cpp:140-170, 243-265).
CreationFenced ==
    \A c \in Connections :
        /\ Finishing(c) => /\ conn[c].barrier = conn[c].txn /\ conn[c].txn # NoTxn
                           /\ conn[c].guard = conn[c].group
        /\ conn[c].barrier # NoTxn => Finishing(c) /\ Excludes(c)
=============================================================================
