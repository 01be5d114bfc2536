------------------------- MODULE RowIdGuardInductive -------------------------
(***************************************************************************)
(* The inductive invariant of RowIdGuard, in named parts.  A view is a     *)
(* registry row together with the rows it is read against: the committed   *)
(* row of an index with the live rows, or a transaction's row with its     *)
(* snapshot.  The heart of it: while the guard (or the image of it that a  *)
(* restart reads) is clean, every view that records its token is safe.     *)
(***************************************************************************)
EXTENDS RowIdGuard

\* The postings of a view recording `t` cover its rows, and its mark is at most `b`.
RowSafe(row, rows, t, b) ==
    row.token = t => /\ \A r \in rows : r <= row.hwm => r \in row.posted
                     /\ row.hwm <= b

ViewsSafe(t, b) ==
    /\ \A i \in Indexes : RowSafe(registry[i], live, t, b)
    /\ \A q \in Txns, i \in Indexes : RowSafe(txn[q].registry[i], txn[q].visible, t, b)

Present(g) == g.state # "absent"

\* A guard that its next reader may accept, now or once its replays are applied.
Clean(g) ==
    /\ Present(g) /\ g.protection /\ ~g.unsafe_reuse
    /\ IF g.state = "bound" THEN g.checkpoint_iteration \in {Invalid, iteration}
       ELSE /\ g.checkpoint_iteration = iteration
            /\ g.replay # Invalid => g.replay > g.max_seen

\* What the guard will have seen once bound.
Reach(g) == IF g.state = "bound" THEN g.max_seen ELSE Larger(g.max_seen, next - 1)

\* A mark at or past the next rowid: rowids below it can be handed out again.
Exposed(t) ==
    \/ \E i \in Indexes : registry[i].token = t /\ registry[i].hwm >= next
    \/ \E q \in Txns, i \in Indexes :
         txn[q].registry[i].token = t /\ txn[q].registry[i].hwm >= next

GuardSafe(g) ==
    Clean(g) =>
        /\ ViewsSafe(g.token, Reach(g))
        /\ g.state = "bound" => pending <= g.max_seen /\ next - 1 <= g.max_seen
        /\ g.state = "bound" /\ Exposed(g.token) =>
             /\ pending = Invalid
             /\ g.advance_iteration = Invalid \/ g.advance_iteration < iteration
        /\ g.state # "bound" =>
             IF g.replay = Invalid THEN next - 1 <= g.max_seen ELSE g.replay < next

\* The image of a restart whose WAL appends start at `from`, with seal `seal`.
ImageSafe(image, from, seal) ==
    /\ image.token # NoToken /\ image.protection /\ ~image.unsafe_reuse
    /\ image.checkpoint_iteration = seal
    /\ from < next => from > image.max_seen
    => ViewsSafe(image.token, Larger(image.max_seen, next - 1)) /\ from - 1 <= image.max_seen

GuardsSafe ==
    /\ GuardSafe(guard) /\ GuardSafe(leftover)
    /\ ~InMemory => ImageSafe(persisted, walFrom, iteration)
    /\ (~InMemory /\ checkpoint.phase = "written") =>
         ImageSafe(checkpoint.image, checkpoint.from, iteration + 1)

\* The host's rows, marks and checkpoint.
HostInv ==
    /\ \A r \in live \union dead : r < next
    /\ walFrom <= next
    /\ Checkpointing => iteration < MaxIteration
    /\ Checkpointing <=> checkpoint.kind # "none"
    /\ checkpoint.kind = "full" => pending = Invalid
    /\ checkpoint.from <= next
    /\ checkpoint.kind = "full" /\ checkpoint.phase = "written" => checkpoint.from = next
    /\ checkpoint.phase # "written" => checkpoint.image = NoImage /\ checkpoint.from = 0
    /\ pending # Invalid => pending >= next

\* What the guards are called and what they can hold.
GuardInv(g) ==
    /\ Present(g) <=> g.token # NoToken
    /\ ~Present(g) => g = NoGuard
    /\ g.token <= issued
    /\ g.advance_iteration <= iteration
    /\ g.checkpoint_iteration <= iteration
    /\ InMemory => g.advance_iteration = Invalid /\ g.state \in {"absent", "bound"}
    /\ g.state \in {"unbound", "binding"} => pending = Invalid

GuardNames ==
    /\ GuardInv(guard) /\ GuardInv(leftover)
    /\ leftover.state \in {"absent", "bound"}
    /\ guard.token # NoToken => guard.token # leftover.token
    /\ IF UncommittedGuard
       THEN guard.state = "bound" /\ leftover.token = persisted.token
       ELSE leftover = NoGuard /\ guard.token = persisted.token
    /\ \A w \in Writers : writer[w] # "idle" => guard = NoGuard /\ leftover = NoGuard

\* A guard that is not committed has a create that will commit it.
Creator ==
    UncommittedGuard => \E q \in Txns : txn[q].plan = "create" /\ txn[q].token = guard.token

ImageInv ==
    /\ persisted.token = NoToken => persisted = NoImage
    /\ ~InMemory => persisted.checkpoint_iteration <= iteration
    /\ ~InMemory => checkpoint.image.checkpoint_iteration <= iteration + 1
    /\ checkpoint.image # NoImage => checkpoint.image.token = persisted.token /\ persisted.token # NoToken

\* What a restart finds was sealed, and nothing was observed since.
Stamped ==
    /\ guard.state \in {"unbound", "binding"} =>
         guard.checkpoint_iteration # Invalid /\ guard.advance_iteration = Invalid
    /\ persisted.token # NoToken => persisted.checkpoint_iteration # Invalid
    /\ checkpoint.image.token # NoToken => checkpoint.image.checkpoint_iteration # Invalid

\* A guard no transaction has committed is in no view.
Unrecorded ==
    UncommittedGuard =>
        /\ \A i \in Indexes : registry[i].token # guard.token
        /\ \A q \in Txns, i \in Indexes : txn[q].registry[i].token # guard.token

LiveToken(t) == t # NoToken /\ t \in {guard.token, leftover.token}

TxnInv(q) ==
    /\ ~txn[q].on => txn[q] = NoTxn
    /\ txn[q].fresh => txn[q].changed = {}
    /\ txn[q].visible \subseteq live \union dead
    /\ \A r \in live, v \in txn[q].visible : r <= v => r \in txn[q].visible
    /\ txn[q].token <= issued
    /\ \A i \in Indexes :
         /\ txn[q].registry[i].token <= issued
         /\ txn[q].on /\ i \notin txn[q].lost =>
              /\ txn[q].registry[i].token = registry[i].token
              /\ txn[q].registry[i].hwm = registry[i].hwm
         /\ LiveToken(txn[q].registry[i].token) => txn[q].changed = {}
    /\ txn[q].plan = "create" /\ LiveToken(txn[q].token) => txn[q].changed = {}

TxnsInv ==
    /\ \A i \in Indexes : registry[i].token <= issued
    /\ \A q \in Txns : TxnInv(q)

Quiet ==
    quiet => /\ guard.state \in {"absent", "bound"}
             /\ ~InMemory /\ guard.state = "bound" =>
                  /\ ~guard.unsafe_reuse /\ ~Checkpointing
                  /\ guard.advance_iteration = iteration /\ guard.checkpoint_iteration = Invalid

\* A full checkpoint keeps creators out, so that the image it wrote of a bound
\* guard is that guard as it stands, sealed for the iteration to come.
CheckpointInv ==
    checkpoint.kind = "full" =>
        /\ \A q \in Txns : txn[q].plan # "create"
        /\ checkpoint.image # NoImage /\ extension = "pinned" /\ guard.state = "bound"
             /\ guard.protection /\ guard.checkpoint_iteration = Invalid
           => checkpoint.image = ImageOf(guard, iteration + 1)

IInv ==
    /\ TypeOK
    /\ HostInv
    /\ GuardNames
    /\ Creator
    /\ ImageInv
    /\ Stamped
    /\ Unrecorded
    /\ TxnsInv
    /\ GuardsSafe
    /\ SearchExact
    /\ Quiet
=============================================================================
