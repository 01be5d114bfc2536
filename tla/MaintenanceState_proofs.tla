----------------------- MODULE MaintenanceState_proofs ----------------------
(***************************************************************************)
(* For every number of connections: the maintenance state keeps its types, *)
(* no vacuum runs between a script's first check and the end of its        *)
(* transaction, and a creation barrier is held exactly from the check of a *)
(* script that creates a guard to its proof.  The inductive invariant adds *)
(* what these do not say: a checked script is in a transaction and holds   *)
(* the fence, a vacuum excludes every lock, and a script that creates a    *)
(* guard has two statements.                                               *)
(***************************************************************************)
EXTENDS MaintenanceState, TLAPS

Fenced(state) == state.checked => state.fence /\ state.txn # NoTxn
Locked(state) == state.own \/ state.fence

Proving(state) == state.creating /\ state.next = 1
Barred(state) ==
    /\ state.creating => state.length = 2
    /\ Proving(state) => /\ state.barrier = state.txn /\ state.txn # NoTxn
                         /\ state.guard = state.group
    /\ state.barrier # NoTxn => Proving(state)

FenceInv ==
    /\ TypeOK
    /\ \A c \in Connections : Fenced(conn[c])
    /\ vacuuming => \A c \in Connections : ~Locked(conn[c])
    /\ \A c \in Connections : Barred(conn[c])
    /\ \A c \in Connections : conn[c].barrier # NoTxn => Excludes(c)

\* What an operator on the state leaves alone.
Kept(after, before) ==
    /\ after.checked = before.checked
    /\ after.txn = before.txn
    /\ after.own = before.own
    /\ after.fence = before.fence
    /\ after.barrier = before.barrier /\ after.guard = before.guard
    /\ after.creating = before.creating /\ after.altered = before.altered
    /\ after.group = before.group /\ after.next = before.next /\ after.length = before.length

\* Registering a script's handles changes handles and groups only.
LEMMA RegisterType ==
    ASSUME NEW state \in Connection, NEW x \in TxnId, NEW count \in Nat,
           state.next_group < MaxTxn
    PROVE  Register(state, x, count) \in Connection /\ Kept(Register(state, x, count), state)
<1> DEFINE new == {[group |-> state.next_group + 1, place |-> k, expansion_id |-> x,
                    script_id |-> NoTxn] : k \in 1 .. count}
           all == {h \in state.handles : h.expansion_id = x} \union new
           group == state.next_group + 1
<1>1. group \in 1 .. MaxTxn /\ group \in 0 .. MaxTxn
  BY StateConstants DEF Connection
<1>2. new \subseteq Handle
  BY <1>1, StateConstants DEF Handle, NoTxn, TxnId
<1>3. all \in SUBSET Handle
  BY <1>2 DEF Connection
<1>4. Register(state, x, count) = [state EXCEPT !.next_group = group, !.handles = all]
  BY DEF Register
<1> HIDE DEF new, all, group
<1>5. [state EXCEPT !.next_group = group, !.handles = all] \in Connection
  BY <1>1, <1>3 DEF Connection
<1>6. Kept([state EXCEPT !.next_group = group, !.handles = all], state)
  BY DEF Connection, Kept
<1> QED BY <1>4, <1>5, <1>6

\* The end of a transaction drops the fence and keeps the rest.
LEMMA EndType ==
    ASSUME NEW state \in Connection, NEW x
    PROVE  /\ TransactionEnd(state, x) \in Connection
           /\ TransactionEnd(state, x).fence = FALSE
           /\ TransactionEnd(state, x).own = state.own
           /\ TransactionEnd(state, x).checked = state.checked
           /\ TransactionEnd(state, x).txn = state.txn
           /\ TransactionEnd(state, x).barrier = NoTxn
           /\ TransactionEnd(state, x).creating = state.creating
           /\ TransactionEnd(state, x).next = state.next
           /\ TransactionEnd(state, x).length = state.length
<1> DEFINE rest == {h \in state.handles : h.script_id # x}
           middle == [state EXCEPT !.fence = FALSE, !.barrier = NoTxn]
           after == [middle EXCEPT !.guard = 0, !.handles = rest]
<1>0. NoTxn \in TxnId /\ 0 \in 0 .. MaxTxn
  BY StateConstants DEF NoTxn, TxnId
<1>1. TransactionEnd(state, x) = after
  BY Zenon DEF TransactionEnd
<1>2. rest \in SUBSET Handle
  BY DEF Connection
<1> HIDE DEF rest
<1>3. /\ middle \in Connection
      /\ middle.fence = FALSE /\ middle.own = state.own /\ middle.checked = state.checked
      /\ middle.txn = state.txn /\ middle.barrier = NoTxn /\ middle.creating = state.creating
      /\ middle.next = state.next /\ middle.length = state.length
  BY <1>0 DEF Connection
<1> HIDE DEF middle
<1>4. /\ after \in Connection
      /\ after.fence = FALSE /\ after.own = state.own /\ after.checked = state.checked
      /\ after.txn = state.txn /\ after.barrier = NoTxn /\ after.creating = state.creating
      /\ after.next = state.next /\ after.length = state.length
  BY <1>0, <1>2, <1>3 DEF Connection
<1> HIDE DEF after
<1> QED BY <1>1, <1>4

\* Without a transaction nothing is checked and no lock of its own is held.
LEMMA QuietType ==
    ASSUME NEW state \in Connection
    PROVE  /\ Quiet(state) \in Connection
           /\ Quiet(state).checked = FALSE
           /\ Quiet(state).own = FALSE
           /\ Quiet(state).fence = state.fence
           /\ Quiet(state).creating = FALSE
           /\ Quiet(state).barrier = state.barrier
<1> DEFINE one == [state EXCEPT !.txn = NoTxn, !.explicit = FALSE]
           two == [one EXCEPT !.ending = FALSE, !.own = FALSE]
           three == [two EXCEPT !.group = 0, !.next = 0]
           four == [three EXCEPT !.length = 0, !.checked = FALSE]
           five == [four EXCEPT !.creating = FALSE, !.altered = FALSE]
<1>0. NoTxn \in TxnId /\ 0 \in 0 .. MaxTxn
  BY StateConstants DEF NoTxn, TxnId
<1>1. Quiet(state) = five
  BY Zenon DEF Quiet
<1>2. one \in Connection /\ one.fence = state.fence /\ one.barrier = state.barrier
  BY <1>0 DEF Connection
<1> HIDE DEF one
<1>3. /\ two \in Connection
      /\ two.fence = state.fence /\ two.barrier = state.barrier /\ two.own = FALSE
  BY <1>2 DEF Connection
<1> HIDE DEF two
<1>4. /\ three \in Connection
      /\ three.fence = state.fence /\ three.barrier = state.barrier /\ three.own = FALSE
  BY <1>0, <1>3 DEF Connection
<1> HIDE DEF three
<1>5. /\ four \in Connection
      /\ four.fence = state.fence /\ four.barrier = state.barrier
      /\ four.own = FALSE /\ four.checked = FALSE
  BY <1>4 DEF Connection
<1> HIDE DEF four
<1>6. /\ five \in Connection
      /\ five.fence = state.fence /\ five.barrier = state.barrier
      /\ five.own = FALSE /\ five.checked = FALSE /\ five.creating = FALSE
  BY <1>5 DEF Connection
<1> HIDE DEF five
<1> QED BY <1>1, <1>6

\* Taking a handle changes the handles only.
LEMMA TakeType ==
    ASSUME NEW state \in Connection, NEW taken
    PROVE  Take(state, taken) \in Connection /\ Kept(Take(state, taken), state)
<1> DEFINE rest == {IF \E t \in taken : t.group = h.group
                    THEN [h EXCEPT !.script_id = state.txn] ELSE h : h \in state.handles \ taken}
<1>1. \A h \in Handle : [h EXCEPT !.script_id = state.txn] \in Handle
  BY DEF Handle, Connection
<1>2. rest \in SUBSET Handle
  BY <1>1 DEF Connection
<1>3. Take(state, taken) = [state EXCEPT !.handles = rest]
  BY DEF Take
<1> HIDE DEF rest
<1>4. [state EXCEPT !.handles = rest] \in Connection /\ Kept([state EXCEPT !.handles = rest], state)
  BY <1>2 DEF Connection, Kept
<1> QED BY <1>3, <1>4

\* Acquiring the fence changes the locks only.
LEMMA AcquireType ==
    ASSUME NEW state \in Connection
    PROVE  /\ Acquire(state) \in Connection
           /\ Acquire(state).fence = TRUE
           /\ Acquire(state).checked = state.checked
           /\ Acquire(state).txn = state.txn
           /\ Acquire(state).barrier = state.barrier /\ Acquire(state).guard = state.guard
           /\ Acquire(state).creating = state.creating /\ Acquire(state).altered = state.altered
           /\ Acquire(state).group = state.group
           /\ Acquire(state).next = state.next /\ Acquire(state).length = state.length
BY DEF Acquire, Connection

\* One connection's state changes: what it takes for the invariant to hold.
LEMMA OneChange ==
    ASSUME FenceInv, NEW c \in Connections, NEW state \in Connection,
           conn' = [conn EXCEPT ![c] = state],
           last_txn' \in TxnId, vacuuming' = vacuuming,
           Fenced(state), Locked(state) => Locked(conn[c]) \/ ~vacuuming,
           Barred(state),
           state.barrier # NoTxn => conn[c].barrier # NoTxn \/ Excludes(c),
           state.own => conn[c].own \/ Unbarred(c)
    PROVE  FenceInv'
<1>1. TypeOK'
  BY DEF FenceInv, TypeOK
<1>2. \A d \in Connections : conn'[d] = IF d = c THEN state ELSE conn[d]
  BY DEF FenceInv, TypeOK
<1>3. \A d \in Connections : Fenced(conn'[d]) /\ Barred(conn'[d])
  BY <1>2 DEF FenceInv
<1>4. vacuuming' => \A d \in Connections : ~Locked(conn'[d])
  BY <1>2 DEF FenceInv
<1>5. ASSUME NEW d \in Connections, conn'[d].barrier # NoTxn,
             NEW e \in Connections \ {d}
      PROVE  ~conn'[e].own /\ conn'[e].barrier = NoTxn
  <2>1. CASE d = c
    <3>1. Excludes(c)
      BY <1>2, <1>5, <2>1 DEF FenceInv
    <3> QED BY <1>2, <2>1, <3>1 DEF Excludes
  <2>2. CASE d # c
    <3>1. conn[d].barrier # NoTxn /\ Excludes(d)
      BY <1>2, <1>5, <2>2 DEF FenceInv
    <3>2. CASE e = c
      <4>1. ~conn[c].own /\ conn[c].barrier = NoTxn
        BY <3>1, <3>2 DEF Excludes
      <4>2. ~Unbarred(c) /\ ~Excludes(c)
        BY <2>2, <3>1 DEF Unbarred, Excludes
      <4> QED BY <1>2, <3>2, <4>1, <4>2
    <3>3. CASE e # c
      BY <1>2, <3>1, <3>3 DEF Excludes
    <3> QED BY <3>2, <3>3
  <2> QED BY <2>1, <2>2
<1>6. (\A d \in Connections : conn[d].barrier # NoTxn => Excludes(d))'
  BY <1>5 DEF Excludes
<1> QED BY <1>1, <1>3, <1>4, <1>6 DEF FenceInv, Fenced, Locked, Barred, Proving

\* The invariant holds at the start.
LEMMA FenceInit == Init => FenceInv
<1> SUFFICES ASSUME Init PROVE FenceInv
  OBVIOUS
<1>1. 0 \in TxnId /\ 0 \in 0 .. MaxTxn
  BY StateConstants DEF TxnId
<1> DEFINE state == [txn |-> NoTxn, explicit |-> FALSE, ending |-> FALSE, own |-> FALSE,
                     group |-> 0, next |-> 0, length |-> 0, fence |-> FALSE, handles |-> {},
                     next_group |-> 0, checked |-> FALSE, begun |-> 0,
                     barrier |-> NoTxn, guard |-> 0, creating |-> FALSE, altered |-> FALSE]
<1>2. /\ state \in Connection /\ state.checked = FALSE
      /\ state.creating = FALSE /\ state.barrier = NoTxn
  BY <1>1 DEF Connection, NoTxn
<1>3. conn = [c \in Connections |-> state]
  BY DEF Init
<1> HIDE DEF state
<1>4. /\ conn \in [Connections -> Connection]
      /\ \A c \in Connections : /\ conn[c].checked = FALSE
                                /\ conn[c].creating = FALSE /\ conn[c].barrier = NoTxn
  BY <1>2, <1>3
<1>5. last_txn \in TxnId /\ vacuuming = FALSE
  BY <1>1 DEF Init
<1> QED BY <1>4, <1>5 DEF FenceInv, TypeOK, Fenced, Barred, Proving

\* A statement that fails, a commit or a rollback leaves no lock and no check.
LEMMA Ended ==
    ASSUME FenceInv, NEW c \in Connections, NEW s \in Connection, NEW x,
           conn' = [conn EXCEPT ![c] = Quiet(TransactionEnd(s, x))],
           SameTxn, vacuuming' = vacuuming
    PROVE  FenceInv'
<1> DEFINE state == Quiet(TransactionEnd(s, x))
<1>0. /\ TransactionEnd(s, x) \in Connection /\ TransactionEnd(s, x).fence = FALSE
      /\ TransactionEnd(s, x).barrier = NoTxn
  BY EndType
<1>1. /\ state \in Connection /\ state.checked = FALSE /\ state.own = FALSE /\ state.fence = FALSE
      /\ state.creating = FALSE /\ state.barrier = NoTxn
  BY <1>0, QuietType
<1>2. last_txn' \in TxnId
  BY DEF FenceInv, TypeOK, SameTxn
<1>3. conn' = [conn EXCEPT ![c] = state]
  OBVIOUS
<1> HIDE DEF state
<1>4. Fenced(state) /\ ~Locked(state) /\ Barred(state)
  BY <1>1 DEF Fenced, Locked, Barred, Proving
<1> QED BY <1>1, <1>2, <1>3, <1>4, OneChange

\* The last statement of a script is behind: nothing is being proved.
LEMMA NotScripted ==
    ASSUME NEW c \in Connections, conn[c] \in Connection, Barred(conn[c]),
           ~Scripted(c) \/ conn[c].txn = NoTxn
    PROVE  ~Proving(conn[c]) /\ conn[c].barrier = NoTxn
BY DEF Scripted, Barred, Proving, Connection

\* Every step keeps the invariant.
LEMMA FenceStep == FenceInv /\ [Next]_vars => FenceInv'
<1> SUFFICES ASSUME FenceInv, [Next]_vars PROVE FenceInv'
  OBVIOUS
<1>a. \A c \in Connections : conn[c] \in Connection /\ Fenced(conn[c]) /\ Barred(conn[c])
  BY DEF FenceInv, TypeOK
<1>b. last_txn \in TxnId /\ (NewTxn => last_txn' \in TxnId) /\ (SameTxn => last_txn' \in TxnId)
  BY StateConstants DEF FenceInv, TypeOK, TxnId, NewTxn, SameTxn
<1>1. ASSUME NEW c \in Connections, Begin(c) PROVE FenceInv'
  <2> DEFINE state == [conn[c] EXCEPT !.txn = last_txn', !.explicit = TRUE]
  <2>1. last_txn' \in TxnId /\ last_txn' # NoTxn
    BY <1>1, <1>b, StateConstants DEF Begin, NewTxn, NoTxn, TxnId
  <2>2. state \in Connection /\ Fenced(state) /\ state.own = conn[c].own /\ state.fence = conn[c].fence
    BY <2>1, <1>a DEF Connection, Fenced
  <2>3. conn' = [conn EXCEPT ![c] = state]
    BY <1>1 DEF Begin
  <2>4. ~Proving(conn[c]) /\ conn[c].barrier = NoTxn
    BY <1>1, <1>a, NotScripted DEF Begin
  <2>5. Barred(state) /\ state.barrier = NoTxn
    BY <1>a, <2>4 DEF Barred, Proving, Connection
  <2> HIDE DEF state
  <2> QED BY <1>1, <2>1, <2>2, <2>3, <2>5, OneChange DEF Begin, Locked
<1>2. ASSUME NEW c \in Connections, NEW count \in Nat, NEW length \in Nat, NEW creating \in BOOLEAN,
             creating => length = 2, Expand(c, count, length, creating)
      PROVE  FenceInv'
  <2>1. conn[c].next_group < MaxTxn /\ conn[c].next_group + 1 \in 0 .. MaxTxn
    BY <1>2, <1>a, StateConstants DEF Expand, Connection
  <2>0. conn[c].barrier = NoTxn
    BY <1>2, <1>a, NotScripted DEF Expand
  <2> DEFINE Grouped(s) == [s EXCEPT !.group = conn[c].next_group + 1, !.next = 0]
             Scripts(s) == [s EXCEPT !.length = length, !.creating = creating]
             With(s) == Scripts(Grouped(s))
  <2>a. \A s \in Connection : /\ Grouped(s) \in Connection
                              /\ Grouped(s).fence = s.fence /\ Grouped(s).own = s.own
                              /\ Grouped(s).checked = s.checked /\ Grouped(s).txn = s.txn
                              /\ Grouped(s).barrier = s.barrier /\ Grouped(s).next = 0
    BY <2>1 DEF Connection
  <2>b. \A s \in Connection : /\ Scripts(s) \in Connection
                              /\ Scripts(s).fence = s.fence /\ Scripts(s).own = s.own
                              /\ Scripts(s).checked = s.checked /\ Scripts(s).txn = s.txn
                              /\ Scripts(s).barrier = s.barrier /\ Scripts(s).next = s.next
                              /\ Scripts(s).length = length /\ Scripts(s).creating = creating
    BY <1>2 DEF Connection
  <2>2. \A s \in Connection : /\ With(s) \in Connection
                              /\ With(s).fence = s.fence /\ With(s).own = s.own
                              /\ With(s).checked = s.checked /\ With(s).txn = s.txn
                              /\ With(s).barrier = s.barrier
                              /\ s.barrier = NoTxn => Barred(With(s))
    <3> HIDE DEF Grouped, Scripts
    <3> QED BY <1>2, <2>a, <2>b DEF Barred, Proving, With
  <2>c. \A s : With(s) = [s EXCEPT !.group = conn[c].next_group + 1, !.next = 0,
                                   !.length = length, !.creating = creating]
    BY Zenon
  <2> HIDE DEF With
  <2>3. CASE /\ conn[c].txn = NoTxn
             /\ NewTxn
             /\ conn' = [conn EXCEPT ![c] =
                  With(TransactionEnd(Register(conn[c], last_txn', count), last_txn'))]
    <3> DEFINE s == TransactionEnd(Register(conn[c], last_txn', count), last_txn')
               state == With(s)
    <3>0. /\ last_txn' \in TxnId
          /\ Register(conn[c], last_txn', count) \in Connection
          /\ Kept(Register(conn[c], last_txn', count), conn[c])
      BY <1>a, <1>b, <2>1, <2>3, RegisterType
    <3>1. /\ s \in Connection /\ s.fence = FALSE /\ s.own = conn[c].own /\ s.checked = conn[c].checked
          /\ s.barrier = NoTxn
      BY <3>0, EndType DEF Kept
    <3>2. /\ state \in Connection /\ state.fence = FALSE /\ state.own = conn[c].own
          /\ state.checked = conn[c].checked /\ state.barrier = NoTxn /\ Barred(state)
      <4> HIDE DEF s
      <4> QED BY <2>2, <3>1 DEF state
    <3>3. ~conn[c].checked
      BY <1>a, <2>3 DEF Fenced
    <3>4. conn' = [conn EXCEPT ![c] = state]
      BY <2>3
    <3> HIDE DEF state
    <3> QED BY <1>2, <1>b, <2>3, <3>2, <3>3, <3>4, OneChange DEF Expand, Fenced, Locked
  <2>4. CASE SameTxn /\ conn' = [conn EXCEPT ![c] = With(Register(conn[c], conn[c].txn, count))]
    <3> DEFINE s == Register(conn[c], conn[c].txn, count)
               state == With(s)
    <3>1. conn[c].txn \in TxnId
      BY <1>a DEF Connection
    <3>2. s \in Connection /\ Kept(s, conn[c])
      BY <1>a, <2>1, <3>1, RegisterType
    <3>3. /\ state \in Connection /\ state.fence = conn[c].fence /\ state.own = conn[c].own
          /\ state.checked = conn[c].checked /\ state.txn = conn[c].txn
          /\ state.barrier = NoTxn /\ Barred(state)
      <4> HIDE DEF s
      <4> QED BY <2>0, <2>2, <3>2 DEF Kept, state
    <3>4. conn' = [conn EXCEPT ![c] = state]
      BY <2>4
    <3> HIDE DEF state
    <3> QED BY <1>2, <1>a, <1>b, <2>4, <3>3, <3>4, OneChange DEF Expand, Fenced, Locked
  <2> QED BY <1>2, <2>c, <2>3, <2>4 DEF Expand
<1>3. ASSUME NEW c \in Connections, StartScript(c) PROVE FenceInv'
  <2> DEFINE state == [conn[c] EXCEPT !.txn = last_txn']
  <2>1. last_txn' \in TxnId /\ last_txn' # NoTxn
    BY <1>3, <1>b, StateConstants DEF StartScript, NewTxn, NoTxn, TxnId
  <2>2. state \in Connection /\ Fenced(state) /\ state.own = conn[c].own /\ state.fence = conn[c].fence
    BY <2>1, <1>a DEF Connection, Fenced
  <2>3. conn' = [conn EXCEPT ![c] = state]
    BY <1>3 DEF StartScript
  <2>4. ~Proving(conn[c]) /\ conn[c].barrier = NoTxn
    BY <1>3, <1>a, NotScripted DEF StartScript
  <2>5. Barred(state) /\ state.barrier = NoTxn
    BY <1>a, <2>4 DEF Barred, Proving, Connection
  <2> HIDE DEF state
  <2> QED BY <1>3, <2>1, <2>2, <2>3, <2>5, OneChange DEF StartScript, Locked
<1>4. ASSUME NEW c \in Connections, Unrelated(c) PROVE FenceInv'
  <2> DEFINE state == TransactionEnd(conn[c], last_txn')
  <2>1. ~conn[c].checked /\ ~Proving(conn[c])
    BY <1>a, <1>4, NotScripted DEF Fenced, Unrelated
  <2>0. /\ state \in Connection
        /\ state.fence = FALSE /\ state.own = conn[c].own /\ state.checked = conn[c].checked
        /\ state.barrier = NoTxn /\ state.creating = conn[c].creating
        /\ state.next = conn[c].next /\ state.length = conn[c].length
    BY <1>a, EndType
  <2>3. conn' = [conn EXCEPT ![c] = state]
    BY <1>4 DEF Unrelated
  <2> HIDE DEF state
  <2>2. Fenced(state) /\ (Locked(state) => Locked(conn[c])) /\ Barred(state)
    BY <1>a, <2>0, <2>1 DEF Fenced, Locked, Barred, Proving
  <2> QED BY <1>4, <1>b, <2>0, <2>2, <2>3, OneChange DEF Unrelated
<1>5. ASSUME NEW c \in Connections, RunStatement(c) PROVE FenceInv'
  <2>0. PICK altered \in BOOLEAN :
          conn' = [conn EXCEPT ![c] =
            [Acquire(Take(conn[c], Taken(c))) EXCEPT
                !.next = conn[c].next + 1, !.checked = TRUE, !.begun = conn[c].group,
                !.altered = conn[c].altered \/ altered]]
    BY <1>5 DEF RunStatement
  <2> DEFINE s == Acquire(Take(conn[c], Taken(c)))
             With(n, b) == [s EXCEPT !.next = n, !.checked = TRUE, !.begun = conn[c].group,
                                     !.altered = b]
             state == With(conn[c].next + 1, conn[c].altered \/ altered)
  <2>1. Take(conn[c], Taken(c)) \in Connection /\ Kept(Take(conn[c], Taken(c)), conn[c])
    BY <1>a, TakeType
  <2>2. /\ s \in Connection /\ s.fence = TRUE /\ s.txn = conn[c].txn
        /\ s.creating = conn[c].creating /\ s.barrier = conn[c].barrier
    BY <2>1, AcquireType DEF Kept
  <2>3. /\ conn[c].group \in 0 .. MaxTxn /\ conn[c].txn # NoTxn
        /\ ~conn[c].creating /\ conn[c].barrier = NoTxn /\ Unbarred(c)
    BY <1>a, <1>5 DEF Connection, RunStatement, Barred, Proving
  <2>4. /\ state \in Connection /\ Fenced(state) /\ Barred(state) /\ state.barrier = NoTxn
    <3>1. conn[c].next + 1 \in Nat /\ (conn[c].altered \/ altered) \in BOOLEAN
      BY <1>a DEF Connection
    <3> HIDE DEF s
    <3>2. \A n \in Nat, b \in BOOLEAN : With(n, b) \in Connection
      BY <2>2, <2>3 DEF Connection
    <3>3. \A n \in Nat, b \in BOOLEAN :
             /\ With(n, b).fence = s.fence /\ With(n, b).txn = s.txn
             /\ With(n, b).creating = s.creating /\ With(n, b).barrier = s.barrier
      BY <2>2 DEF Connection
    <3> HIDE DEF With
    <3> QED BY <2>2, <2>3, <3>1, <3>2, <3>3 DEF Fenced, Barred, Proving
  <2>5. conn' = [conn EXCEPT ![c] = state]
    BY <2>0
  <2> HIDE DEF state
  <2> QED BY <1>5, <1>b, <2>3, <2>4, <2>5, OneChange DEF RunStatement
<1>6. ASSUME NEW c \in Connections, TakeBarrier(c) PROVE FenceInv'
  <2> DEFINE s == Acquire(Take(conn[c], Taken(c)))
             h == Hold(s)
             With(n) == [h EXCEPT !.next = n, !.checked = TRUE, !.begun = conn[c].group]
             state == With(conn[c].next + 1)
  <2>1. Take(conn[c], Taken(c)) \in Connection /\ Kept(Take(conn[c], Taken(c)), conn[c])
    BY <1>a, TakeType
  <2>2. /\ s \in Connection /\ s.fence = TRUE /\ s.txn = conn[c].txn /\ s.group = conn[c].group
        /\ s.creating = conn[c].creating /\ s.length = conn[c].length
    BY <2>1, AcquireType DEF Kept
  <2>3. /\ conn[c].group \in 0 .. MaxTxn /\ conn[c].txn # NoTxn /\ conn[c].txn \in TxnId
        /\ conn[c].creating /\ conn[c].length = 2 /\ conn[c].next = 0 /\ Excludes(c)
    <3>1. conn[c].creating /\ conn[c].length = 2 /\ conn[c].next < 2 /\ conn[c].next # 1
      BY <1>a, <1>6 DEF TakeBarrier, Scripted, Finishing, Barred
    <3> QED BY <1>a, <1>6, <3>1 DEF Connection, TakeBarrier
  <2>4. /\ h \in Connection /\ h.fence = TRUE /\ h.txn = s.txn /\ h.group = s.group
        /\ h.creating = s.creating /\ h.length = s.length
        /\ h.barrier = s.txn /\ h.guard = s.group
    <3> HIDE DEF s
    <3> QED BY <2>2, <2>3 DEF Hold, Connection
  <2>5. /\ state \in Connection /\ Fenced(state) /\ Barred(state)
    <3>1. conn[c].next + 1 = 1
      BY <2>3
    <3> HIDE DEF h
    <3>2. With(1) \in Connection
      BY <2>3, <2>4 DEF Connection
    <3>3. /\ With(1).fence = h.fence /\ With(1).txn = h.txn /\ With(1).group = h.group
          /\ With(1).creating = h.creating /\ With(1).length = h.length
          /\ With(1).barrier = h.barrier /\ With(1).guard = h.guard /\ With(1).next = 1
      BY <2>4 DEF Connection
    <3> HIDE DEF With
    <3> QED BY <2>2, <2>3, <2>4, <3>1, <3>2, <3>3 DEF Fenced, Barred, Proving
  <2>6. conn' = [conn EXCEPT ![c] = state]
    BY <1>6 DEF TakeBarrier
  <2>7. Unbarred(c)
    BY <2>3 DEF Excludes, Unbarred
  <2> HIDE DEF state
  <2> QED BY <1>6, <1>b, <2>3, <2>5, <2>6, <2>7, OneChange DEF TakeBarrier
<1>7. ASSUME NEW c \in Connections, Finish(c) PROVE FenceInv'
  <2> DEFINE r == Release(conn[c])
             With(n) == [r EXCEPT !.next = n, !.altered = TRUE]
             state == With(conn[c].next + 1)
  <2>0. NoTxn \in TxnId /\ 0 \in 0 .. MaxTxn
    BY StateConstants DEF NoTxn, TxnId
  <2>1. /\ r \in Connection /\ r.fence = conn[c].fence /\ r.own = conn[c].own /\ r.txn = conn[c].txn
        /\ r.checked = conn[c].checked /\ r.barrier = NoTxn /\ r.length = conn[c].length
    BY <1>a, <2>0 DEF Release, Connection
  <2>2. conn[c].next + 1 = 2 /\ conn[c].length = 2
    BY <1>a, <1>7 DEF Finish, Finishing, Barred
  <2> HIDE DEF r
  <2>3. /\ With(2) \in Connection /\ With(2).fence = r.fence /\ With(2).own = r.own
        /\ With(2).txn = r.txn /\ With(2).checked = r.checked /\ With(2).barrier = r.barrier
        /\ With(2).length = r.length /\ With(2).next = 2
    BY <2>1 DEF Connection
  <2> HIDE DEF With
  <2>4. /\ state \in Connection /\ Fenced(state) /\ Barred(state) /\ state.barrier = NoTxn
        /\ state.own = conn[c].own /\ state.fence = conn[c].fence
    BY <1>a, <2>1, <2>2, <2>3 DEF Fenced, Barred, Proving
  <2>5. conn' = [conn EXCEPT ![c] = state]
    BY <1>7 DEF Finish, With, r
  <2> HIDE DEF state
  <2> QED BY <1>7, <1>b, <2>4, <2>5, OneChange DEF Finish, Locked
<1>8. ASSUME NEW c \in Connections, StatementFails(c) PROVE FenceInv'
  <2> DEFINE s == [Take(conn[c], Taken(c)) EXCEPT !.begun = conn[c].group]
  <2>1. conn[c].group \in 0 .. MaxTxn
    BY <1>a DEF Connection
  <2>2. Take(conn[c], Taken(c)) \in Connection
    BY <1>a, TakeType
  <2>3. s \in Connection
    BY <2>1, <2>2 DEF Connection
  <2>4. conn' = [conn EXCEPT ![c] = Quiet(TransactionEnd(s, conn[c].txn))]
    BY <1>8 DEF StatementFails
  <2> HIDE DEF s
  <2> QED BY <1>8, <2>3, <2>4, Ended DEF StatementFails
<1>9. ASSUME NEW c \in Connections, CommitStart(c) PROVE FenceInv'
  <2> DEFINE state == [conn[c] EXCEPT !.ending = TRUE, !.own = FALSE]
  <2>1. /\ state \in Connection /\ Fenced(state) /\ state.own = FALSE /\ state.fence = conn[c].fence
    BY <1>a DEF Connection, Fenced
  <2>2. conn' = [conn EXCEPT ![c] = state]
    BY <1>9 DEF CommitStart
  <2>3. ~Proving(conn[c]) /\ conn[c].barrier = NoTxn
    BY <1>9, <1>a, NotScripted DEF CommitStart
  <2>4. Barred(state) /\ state.barrier = NoTxn
    BY <1>a, <2>3 DEF Barred, Proving, Connection
  <2> HIDE DEF state
  <2> QED BY <1>9, <1>b, <2>1, <2>2, <2>4, OneChange DEF CommitStart, Locked
<1>10. ASSUME NEW c \in Connections, CommitEnd(c) PROVE FenceInv'
  BY <1>10, <1>a, Ended DEF CommitEnd
<1>11. ASSUME NEW c \in Connections, Rollback(c) PROVE FenceInv'
  BY <1>11, <1>a, Ended DEF Rollback
<1>12. ASSUME NEW c \in Connections, Forget(c) PROVE FenceInv'
  <2> DEFINE state == Quiet(conn[c])
  <2>0. conn[c].barrier = NoTxn
    BY <1>12, <1>a, NotScripted DEF Forget
  <2>1. /\ state \in Connection /\ Fenced(state) /\ (Locked(state) => Locked(conn[c]))
        /\ state.barrier = NoTxn /\ ~state.own /\ Barred(state)
    BY <1>a, <2>0, QuietType DEF Fenced, Locked, Barred, Proving
  <2>2. conn' = [conn EXCEPT ![c] = state]
    BY <1>12 DEF Forget
  <2> HIDE DEF state
  <2> QED BY <1>12, <1>b, <2>1, <2>2, OneChange DEF Forget
<1>13. CASE Vacuum
  BY <1>13 DEF Vacuum, FenceInv, TypeOK, Locked, Fenced, Barred, Proving, Excludes
<1>14. CASE VacuumEnd
  BY <1>14 DEF VacuumEnd, FenceInv, TypeOK, Fenced, Barred, Proving, Excludes
<1>15. CASE UNCHANGED vars
  BY <1>15 DEF vars, FenceInv, TypeOK, Locked, Fenced, Barred, Proving, Excludes
<1>16. ASSUME NEW c \in Connections,
              \/ \E count \in Lengths : Expand(c, count, count, FALSE) \/ Expand(c, count, 0, FALSE)
              \/ Expand(c, 1, 2, TRUE)
       PROVE  FenceInv'
  <2>1. \A count \in Lengths : count \in Nat /\ 0 \in Nat
    BY StateConstants
  <2> QED BY <1>2, <1>16, <2>1
<1> QED BY <1>1, <1>3, <1>4, <1>5, <1>6, <1>7, <1>8, <1>9, <1>10, <1>11, <1>12, <1>13, <1>14,
           <1>15, <1>16
        DEF Next

\* The inductive invariant holds in every reachable state.
THEOREM FenceInvariant == Spec => []FenceInv
<1>1. Init => FenceInv
  BY FenceInit
<1>2. FenceInv /\ [Next]_vars => FenceInv'
  BY FenceStep
<1> QED BY <1>1, <1>2, PTL DEF Spec

\* Every variable keeps its type (fence.cpp's MaintenanceState).
THEOREM StateTypeCorrect == Spec => []TypeOK
<1>1. FenceInv => TypeOK
  BY DEF FenceInv
<1> QED BY <1>1, FenceInvariant, PTL

\* No vacuum runs between a script's first check and the end of its
\* transaction, for any number of connections (fence.cpp:22-26).
THEOREM FencesHold == Spec => []FenceHeld
<1>1. FenceInv => FenceHeld
  BY DEF FenceInv, FenceHeld, Fenced, Locked
<1> QED BY <1>1, FenceInvariant, PTL

\* A creation barrier is held from the check of a script that creates a guard
\* to the statement that proves it, by that transaction and for that guard, and
\* no other transaction writes meanwhile (fence.cpp:140-170).
THEOREM CreationsFenced == Spec => []CreationFenced
<1>1. FenceInv => CreationFenced
  BY DEF FenceInv, CreationFenced, Barred, Proving, Finishing
<1> QED BY <1>1, FenceInvariant, PTL

-----------------------------------------------------------------------------
(***************************************************************************)
(* Handles.  A script that has statements left has their handles, and what *)
(* a transaction's end drops is of scripts it ran: transaction ids only    *)
(* grow, so that no handle can carry the id of a later transaction.        *)
(***************************************************************************)
Calls(state) == IF state.creating THEN 1 ELSE state.length

Ready(state) ==
    \A k \in state.next + 1 .. Calls(state) :
        \E h \in state.handles : h.group = state.group /\ h.place = k

Settled(state, last) ==
    /\ state.txn <= last
    /\ state.begun <= state.next_group /\ state.group <= state.next_group
    /\ state.txn = NoTxn => ~state.fence
    /\ \A h \in state.handles :
         /\ h.script_id <= last /\ h.group <= state.next_group
         /\ h.group = state.begun => h.script_id = state.txn /\ state.txn # NoTxn
    /\ \A h, i \in state.handles : h.expansion_id = i.expansion_id

HandleInv == \A c \in Connections : Ready(conn[c]) /\ Settled(conn[c], last_txn)

\* What a registration leaves: the handles of the same transaction and its own.
LEMMA RegisterHandles ==
    ASSUME NEW state \in Connection, NEW x \in TxnId, NEW count \in Nat,
           state.next_group < MaxTxn
    PROVE  /\ Register(state, x, count).next_group = state.next_group + 1
           /\ Register(state, x, count).begun = state.begun
           /\ Register(state, x, count).handles =
                {h \in state.handles : h.expansion_id = x} \union
                {[group |-> state.next_group + 1, place |-> k, expansion_id |-> x,
                  script_id |-> NoTxn] : k \in 1 .. count}
<1> DEFINE all == {h \in state.handles : h.expansion_id = x} \union
                {[group |-> state.next_group + 1, place |-> k, expansion_id |-> x,
                  script_id |-> NoTxn] : k \in 1 .. count}
           group == state.next_group + 1
<1>1. Register(state, x, count) = [state EXCEPT !.next_group = group, !.handles = all]
  BY DEF Register
<1> HIDE DEF all, group
<1>2. /\ [state EXCEPT !.next_group = group, !.handles = all].next_group = group
      /\ [state EXCEPT !.next_group = group, !.handles = all].begun = state.begun
      /\ [state EXCEPT !.next_group = group, !.handles = all].handles = all
  BY DEF Connection
<1> QED BY <1>1, <1>2 DEF all, group

\* What the end of a transaction leaves.
LEMMA EndHandles ==
    ASSUME NEW state \in Connection, NEW x
    PROVE  /\ TransactionEnd(state, x).handles = {h \in state.handles : h.script_id # x}
           /\ TransactionEnd(state, x).next_group = state.next_group
           /\ TransactionEnd(state, x).begun = state.begun
           /\ TransactionEnd(state, x).group = state.group
<1> DEFINE rest == {h \in state.handles : h.script_id # x}
           after == [state EXCEPT !.fence = FALSE, !.barrier = NoTxn, !.guard = 0, !.handles = rest]
<1>1. TransactionEnd(state, x) = after
  BY Zenon DEF TransactionEnd
<1> HIDE DEF rest
<1>2. /\ after.handles = rest /\ after.next_group = state.next_group
      /\ after.begun = state.begun /\ after.group = state.group
  BY DEF Connection
<1> QED BY <1>1, <1>2 DEF rest

\* Without a transaction the handles stay.
LEMMA QuietHandles ==
    ASSUME NEW state \in Connection
    PROVE  /\ Quiet(state).handles = state.handles
           /\ Quiet(state).next_group = state.next_group
           /\ Quiet(state).begun = state.begun
           /\ Quiet(state).txn = NoTxn /\ Quiet(state).group = 0
           /\ Quiet(state).next = 0 /\ Quiet(state).length = 0
<1> DEFINE one == [state EXCEPT !.txn = NoTxn, !.explicit = FALSE, !.ending = FALSE, !.own = FALSE,
                                !.group = 0, !.next = 0, !.length = 0, !.checked = FALSE,
                                !.creating = FALSE, !.altered = FALSE]
<1>1. Quiet(state) = one
  BY Zenon DEF Quiet
<1>2. /\ one.handles = state.handles /\ one.next_group = state.next_group /\ one.begun = state.begun
      /\ one.txn = NoTxn /\ one.group = 0 /\ one.next = 0 /\ one.length = 0
  BY DEF Connection
<1> QED BY <1>1, <1>2

\* What taking a handle leaves: the rest, the group's with their script.
LEMMA TakeHandles ==
    ASSUME NEW state \in Connection, NEW taken
    PROVE  /\ Take(state, taken).handles =
                {IF \E t \in taken : t.group = h.group
                 THEN [h EXCEPT !.script_id = state.txn] ELSE h : h \in state.handles \ taken}
           /\ Take(state, taken).next_group = state.next_group
           /\ Take(state, taken).begun = state.begun
<1> DEFINE rest == {IF \E t \in taken : t.group = h.group
                    THEN [h EXCEPT !.script_id = state.txn] ELSE h : h \in state.handles \ taken}
<1>1. Take(state, taken) = [state EXCEPT !.handles = rest]
  BY DEF Take
<1> HIDE DEF rest
<1>2. /\ [state EXCEPT !.handles = rest].handles = rest
      /\ [state EXCEPT !.handles = rest].next_group = state.next_group
      /\ [state EXCEPT !.handles = rest].begun = state.begun
  BY DEF Connection
<1> QED BY <1>1, <1>2 DEF rest

\* The handles of a connection that took its script's next one: the script's
\* are of this transaction, and the later places are still there.
LEMMA TakenNext ==
    ASSUME FenceInv, HandleInv, NEW c \in Connections, Taken(c) # {}, conn[c].txn # NoTxn
    PROVE  LET after == Take(conn[c], Taken(c)).handles IN
           /\ \A h \in after :
                /\ h.script_id <= last_txn /\ h.group <= conn[c].next_group
                /\ h.group = conn[c].group => h.script_id = conn[c].txn
           /\ \A h, i \in after : h.expansion_id = i.expansion_id
           /\ \A k \in conn[c].next + 2 .. Calls(conn[c]) :
                \E h \in after : h.group = conn[c].group /\ h.place = k
<1> DEFINE state == conn[c]
           set(h) == IF \E t \in Taken(c) : t.group = h.group
                     THEN [h EXCEPT !.script_id = state.txn] ELSE h
           after == {set(h) : h \in state.handles \ Taken(c)}
<1>1. state \in Connection /\ Ready(state) /\ Settled(state, last_txn)
  BY DEF FenceInv, TypeOK, HandleInv
<1>2. Take(state, Taken(c)).handles = after
  BY <1>1, TakeHandles
<1>3. \A h \in state.handles :
         /\ set(h).group = h.group /\ set(h).place = h.place /\ set(h).expansion_id = h.expansion_id
         /\ h.group = state.group => set(h).script_id = state.txn
         /\ set(h).script_id \in {h.script_id, state.txn}
  <2> SUFFICES ASSUME NEW h \in state.handles
               PROVE  /\ set(h).group = h.group /\ set(h).place = h.place
                      /\ set(h).expansion_id = h.expansion_id
                      /\ h.group = state.group => set(h).script_id = state.txn
                      /\ set(h).script_id \in {h.script_id, state.txn}
    OBVIOUS
  <2>1. h \in Handle
    BY <1>1 DEF Connection
  <2>2. \E t \in Taken(c) : t.group = state.group
    BY DEF Taken
  <2> QED BY <2>1, <2>2 DEF Handle
<1> HIDE DEF set
<1>4. \A g \in after : /\ g.script_id <= last_txn /\ g.group <= state.next_group
                       /\ g.group = state.group => g.script_id = state.txn
  BY <1>1, <1>3 DEF Settled
<1>5. \A g, i \in after : g.expansion_id = i.expansion_id
  BY <1>1, <1>3 DEF Settled
<1>6. ASSUME NEW k \in state.next + 2 .. Calls(state)
      PROVE  \E h \in after : h.group = state.group /\ h.place = k
  <2>1. k \in state.next + 1 .. Calls(state) /\ k # state.next + 1
    BY <1>1 DEF Connection, Calls
  <2>2. PICK h \in state.handles : h.group = state.group /\ h.place = k
    BY <1>1, <2>1 DEF Ready
  <2>3. h \notin Taken(c)
    BY <2>1, <2>2 DEF Taken
  <2>4. set(h) \in after
    BY <2>2, <2>3
  <2> QED BY <1>3, <2>2, <2>4
<1> QED BY <1>2, <1>4, <1>5, <1>6

\* One connection's state changes and transaction ids only grow.
LEMMA HandleChange ==
    ASSUME FenceInv, HandleInv, NEW c \in Connections, NEW state,
           conn' = [conn EXCEPT ![c] = state],
           last_txn' \in TxnId, last_txn <= last_txn',
           Ready(state), Settled(state, last_txn')
    PROVE  HandleInv'
<1>1. conn \in [Connections -> Connection] /\ last_txn \in TxnId
  BY DEF FenceInv, TypeOK
<1>2. \A d \in Connections : conn'[d] = IF d = c THEN state ELSE conn[d]
  BY <1>1
<1>3. ASSUME NEW d \in Connections, d # c PROVE Ready(conn[d]) /\ Settled(conn[d], last_txn')
  <2>1. conn[d] \in Connection /\ Ready(conn[d]) /\ Settled(conn[d], last_txn)
    BY <1>1 DEF HandleInv
  <2>2. \A h \in conn[d].handles : h.script_id \in TxnId
    BY <2>1 DEF Connection, Handle
  <2>3. \A n \in TxnId : n <= last_txn => n <= last_txn'
    BY <1>1, StateConstants DEF TxnId
  <2>4. conn[d].txn \in TxnId
    BY <2>1 DEF Connection
  <2> QED BY <2>1, <2>2, <2>3, <2>4 DEF Settled
<1>4. \A d \in Connections : Ready(conn'[d]) /\ Settled(conn'[d], last_txn')
  BY <1>2, <1>3
<1> QED BY <1>4 DEF HandleInv, Ready, Settled, Calls

\* A transaction that ends takes with it the handles of the script it ran.
LEMMA EndedHandles ==
    ASSUME FenceInv, NEW s \in Connection, NEW x \in TxnId,
           s.begun <= s.next_group,
           \A h \in s.handles : /\ h.script_id <= last_txn /\ h.group <= s.next_group
                                /\ h.group = s.begun => h.script_id = x,
           \A h, i \in s.handles : h.expansion_id = i.expansion_id
    PROVE  LET state == Quiet(TransactionEnd(s, x)) IN Ready(state) /\ Settled(state, last_txn)
<1> DEFINE t == TransactionEnd(s, x)
           state == Quiet(t)
<1>1. /\ t \in Connection /\ t.fence = FALSE /\ t.handles = {h \in s.handles : h.script_id # x}
      /\ t.next_group = s.next_group /\ t.begun = s.begun
  BY EndType, EndHandles
<1> HIDE DEF t
<1>2. /\ state.handles = t.handles /\ state.next_group = t.next_group /\ state.begun = t.begun
      /\ state.txn = NoTxn /\ state.group = 0 /\ state.next = 0 /\ state.length = 0
      /\ state.fence = FALSE /\ state.creating = FALSE
  BY <1>1, QuietHandles, QuietType
<1>3. s.next_group \in Nat /\ last_txn \in Nat
  BY StateConstants DEF FenceInv, TypeOK, TxnId, Connection
<1> HIDE DEF state
<1>4. Ready(state)
  BY <1>2 DEF Ready, Calls
<1>5. Settled(state, last_txn)
  BY <1>1, <1>2, <1>3 DEF Settled, NoTxn
<1> QED BY <1>4, <1>5 DEF t, state

\* A script just registered has all its handles.
LEMMA RegisteredHandles ==
    ASSUME FenceInv, HandleInv, NEW c \in Connections, NEW x \in TxnId, NEW last \in TxnId,
           last_txn <= last, x <= last,
           NEW count \in Nat, conn[c].next_group < MaxTxn
    PROVE  LET s == Register(conn[c], x, count) IN
           /\ s.next_group = conn[c].next_group + 1
           /\ s.begun = conn[c].begun /\ s.begun <= s.next_group
           /\ \A h \in s.handles :
                /\ h.script_id <= last /\ h.group <= s.next_group
                /\ h.script_id = NoTxn \/ h \in conn[c].handles
                /\ h.group = s.begun => h.script_id = conn[c].txn /\ conn[c].txn # NoTxn
           /\ \A h, i \in s.handles : h.expansion_id = i.expansion_id
           /\ \A k \in 1 .. count :
                \E h \in s.handles : h.group = s.next_group /\ h.place = k /\ h.script_id = NoTxn
<1> DEFINE s == Register(conn[c], x, count)
           new == {[group |-> conn[c].next_group + 1, place |-> k, expansion_id |-> x,
                    script_id |-> NoTxn] : k \in 1 .. count}
<1>1. conn[c] \in Connection /\ Settled(conn[c], last_txn) /\ last_txn \in TxnId
  BY DEF FenceInv, TypeOK, HandleInv
<1>2. /\ s.next_group = conn[c].next_group + 1 /\ s.begun = conn[c].begun
      /\ s.handles = {h \in conn[c].handles : h.expansion_id = x} \union new
  BY <1>1, RegisterHandles
<1>3. /\ conn[c].next_group \in Nat /\ conn[c].begun \in Nat /\ conn[c].begun <= conn[c].next_group
      /\ last \in Nat /\ last_txn \in Nat
  BY <1>1, StateConstants DEF Connection, Settled, TxnId
<1>4. \A h \in new : /\ h.group = conn[c].next_group + 1 /\ h.script_id = NoTxn /\ h.expansion_id = x
  OBVIOUS
<1>5. \A k \in 1 .. count : \E h \in new : h.place = k
  <2> SUFFICES ASSUME NEW k \in 1 .. count PROVE \E h \in new : h.place = k
    OBVIOUS
  <2> DEFINE h == [group |-> conn[c].next_group + 1, place |-> k, expansion_id |-> x,
                   script_id |-> NoTxn]
  <2>1. h \in new /\ h.place = k
    OBVIOUS
  <2> HIDE DEF h, new
  <2> QED BY <2>1
<1>6. \A h \in conn[c].handles : h.script_id \in Nat /\ h.group \in Nat
  BY <1>1, StateConstants DEF Connection, Handle, TxnId
<1> HIDE DEF s, new
<1>7. \A h \in s.handles :
                /\ h.script_id <= last /\ h.group <= s.next_group
                /\ h.script_id = NoTxn \/ h \in conn[c].handles
                /\ h.group = s.begun => h.script_id = conn[c].txn /\ conn[c].txn # NoTxn
  <2> SUFFICES ASSUME NEW h \in s.handles
               PROVE  /\ h.script_id <= last /\ h.group <= s.next_group
                      /\ h.script_id = NoTxn \/ h \in conn[c].handles
                      /\ h.group = s.begun => h.script_id = conn[c].txn /\ conn[c].txn # NoTxn
    OBVIOUS
  <2>1. CASE h \in new
    BY <1>2, <1>3, <1>4, <2>1 DEF NoTxn
  <2>2. CASE h \in conn[c].handles
    BY <1>1, <1>2, <1>3, <1>6, <2>2 DEF Settled
  <2> QED BY <1>2, <2>1, <2>2
<1>8. \A h, i \in s.handles : h.expansion_id = i.expansion_id
  BY <1>2, <1>4
<1>9. \A k \in 1 .. count :
         \E h \in s.handles : h.group = s.next_group /\ h.place = k /\ h.script_id = NoTxn
  BY <1>2, <1>4, <1>5
<1>10. s.begun <= s.next_group
  BY <1>2, <1>3
<1> QED BY <1>2, <1>7, <1>8, <1>9, <1>10 DEF s

\* Every step keeps the handles a script still needs, and no others.
LEMMA HandleStep == FenceInv /\ HandleInv /\ [Next]_vars => HandleInv'
<1> SUFFICES ASSUME FenceInv, HandleInv, [Next]_vars PROVE HandleInv'
  OBVIOUS
<1>a. \A c \in Connections : /\ conn[c] \in Connection /\ Fenced(conn[c]) /\ Barred(conn[c])
                             /\ Ready(conn[c]) /\ Settled(conn[c], last_txn)
  BY DEF FenceInv, TypeOK, HandleInv
<1>b. /\ last_txn \in TxnId /\ last_txn \in Nat
      /\ NewTxn => /\ last_txn' \in TxnId /\ last_txn' \in Nat /\ last_txn < last_txn'
                   /\ last_txn <= last_txn' /\ last_txn' # NoTxn
      /\ SameTxn => last_txn' = last_txn /\ last_txn <= last_txn'
  BY StateConstants DEF FenceInv, TypeOK, TxnId, NewTxn, SameTxn, NoTxn
<1>c. \A c \in Connections : \A h \in conn[c].handles : h.script_id \in Nat /\ h.group \in Nat
  BY <1>a, StateConstants DEF Connection, Handle, TxnId
<1>d. \A c \in Connections : /\ conn[c].next \in Nat /\ conn[c].length \in Nat
                             /\ conn[c].group \in Nat /\ conn[c].begun \in Nat
                             /\ conn[c].next_group \in Nat /\ conn[c].txn \in Nat
  BY <1>a, StateConstants DEF Connection, TxnId
<1>1. ASSUME NEW c \in Connections, NewTxn, conn[c].txn = NoTxn, NEW explicit \in BOOLEAN,
             conn' = [conn EXCEPT ![c] = [conn[c] EXCEPT !.txn = last_txn', !.explicit = explicit]]
      PROVE  HandleInv'
  <2> DEFINE state == [conn[c] EXCEPT !.txn = last_txn', !.explicit = explicit]
  <2>1. /\ state.txn = last_txn' /\ state.fence = conn[c].fence /\ state.handles = conn[c].handles
        /\ state.begun = conn[c].begun /\ state.next_group = conn[c].next_group
        /\ state.group = conn[c].group /\ state.next = conn[c].next /\ state.length = conn[c].length
        /\ state.creating = conn[c].creating
    BY <1>a DEF Connection
  <2>2. conn' = [conn EXCEPT ![c] = state]
    BY <1>1
  <2> HIDE DEF state
  <2>3. Ready(state)
    BY <1>a, <2>1 DEF Ready, Calls
  <2>4. Settled(state, last_txn')
    BY <1>1, <1>a, <1>b, <1>c, <2>1 DEF Settled
  <2> QED BY <1>1, <1>b, <2>2, <2>3, <2>4, HandleChange
<1>2. ASSUME NEW c \in Connections, Begin(c) PROVE HandleInv'
  <2>1. conn' = [conn EXCEPT ![c] = [conn[c] EXCEPT !.txn = last_txn', !.explicit = TRUE]]
    BY <1>2 DEF Begin
  <2> QED BY <1>1, <1>2, <2>1 DEF Begin
<1>3. ASSUME NEW c \in Connections, StartScript(c) PROVE HandleInv'
  <2>1. [conn[c] EXCEPT !.txn = last_txn', !.explicit = conn[c].explicit]
          = [conn[c] EXCEPT !.txn = last_txn']
    BY <1>a DEF Connection
  <2>2. conn' = [conn EXCEPT ![c] = [conn[c] EXCEPT !.txn = last_txn', !.explicit = conn[c].explicit]]
    BY <1>3, <2>1 DEF StartScript
  <2>3. conn[c].explicit \in BOOLEAN
    BY <1>a DEF Connection
  <2> QED BY <1>1, <1>3, <2>2, <2>3 DEF StartScript
<1>4. ASSUME NEW c \in Connections, NEW count \in Nat, NEW length \in Nat, NEW creating \in BOOLEAN,
             creating => count = 1, ~creating => length \in {0, count},
             Expand(c, count, length, creating)
      PROVE  HandleInv'
  <2> DEFINE group == conn[c].next_group + 1
             With(s) == [s EXCEPT !.group = group, !.next = 0,
                                  !.length = length, !.creating = creating]
  <2>1. conn[c].next_group < MaxTxn
    BY <1>4 DEF Expand
  <2>2. ASSUME NEW s \in Connection
        PROVE  /\ With(s).group = group /\ With(s).next = 0 /\ With(s).length = length
               /\ With(s).creating = creating /\ With(s).txn = s.txn /\ With(s).fence = s.fence
               /\ With(s).handles = s.handles /\ With(s).next_group = s.next_group
               /\ With(s).begun = s.begun
    <3> HIDE DEF group
    <3> QED BY DEF Connection
  <2> HIDE DEF With
  <2>3. CASE /\ conn[c].txn = NoTxn
             /\ NewTxn
             /\ conn' = [conn EXCEPT ![c] =
                  With(TransactionEnd(Register(conn[c], last_txn', count), last_txn'))]
    <3> DEFINE r == Register(conn[c], last_txn', count)
               s == TransactionEnd(r, last_txn')
               state == With(s)
    <3>0. r \in Connection /\ Kept(r, conn[c])
      BY <1>a, <1>b, <1>4, <2>1, <2>3, RegisterType
    <3>1. /\ r.next_group = group /\ r.begun <= r.next_group
          /\ \A h \in r.handles :
                /\ h.script_id <= last_txn' /\ h.group <= r.next_group
                /\ h.script_id = NoTxn \/ h \in conn[c].handles
                /\ h.group = r.begun => h.script_id = conn[c].txn /\ conn[c].txn # NoTxn
          /\ \A h, i \in r.handles : h.expansion_id = i.expansion_id
          /\ \A k \in 1 .. count :
                \E h \in r.handles : h.group = r.next_group /\ h.place = k /\ h.script_id = NoTxn
      <4>1. last_txn' <= last_txn'
        BY <1>b, <2>3
      <4> QED BY <1>b, <2>1, <2>3, <4>1, RegisteredHandles
    <3> HIDE DEF r
    <3>2. /\ s \in Connection /\ s.fence = FALSE /\ s.txn = NoTxn
          /\ s.handles = {h \in r.handles : h.script_id # last_txn'}
          /\ s.next_group = r.next_group /\ s.begun = r.begun
      <4>1. s \in Connection /\ s.fence = FALSE /\ s.txn = r.txn
        BY <3>0, EndType
      <4>2. r.txn = NoTxn
        BY <2>3, <3>0 DEF Kept
      <4> QED BY <3>0, <4>1, <4>2, EndHandles
    <3> HIDE DEF s
    <3>3. /\ state.group = group /\ state.next = 0 /\ state.length = length
          /\ state.creating = creating /\ state.txn = NoTxn /\ state.fence = FALSE
          /\ state.handles = s.handles /\ state.next_group = group /\ state.begun = r.begun
      BY <2>2, <3>1, <3>2
    <3> HIDE DEF state
    <3>4. Ready(state)
      <4>1. Calls(state) \in {0, count} /\ 0 + 1 = 1
        BY <1>4, <3>3 DEF Calls
      <4>2. \A k \in 1 .. count : \E h \in s.handles : h.group = group /\ h.place = k
        BY <1>b, <2>3, <3>1, <3>2
      <4>3. \A k \in state.next + 1 .. Calls(state) : k \in 1 .. count
        BY <1>4, <3>3, <4>1
      <4> QED BY <3>3, <4>2, <4>3 DEF Ready
    <3>5. Settled(state, last_txn')
      <4>1. group \in Nat /\ group <= group /\ NoTxn <= last_txn'
        BY <1>b, <1>d, <2>3 DEF NoTxn
      <4> HIDE DEF group
      <4> QED BY <2>3, <3>1, <3>2, <3>3, <4>1 DEF Settled
    <3>6. conn' = [conn EXCEPT ![c] = state]
      BY <2>3 DEF state, s, r
    <3> QED BY <1>b, <2>3, <3>4, <3>5, <3>6, HandleChange
  <2>4. CASE /\ conn[c].explicit /\ SameTxn
             /\ conn' = [conn EXCEPT ![c] = With(Register(conn[c], conn[c].txn, count))]
    <3> DEFINE r == Register(conn[c], conn[c].txn, count)
               state == With(r)
    <3>a. conn[c].txn \in TxnId /\ conn[c].txn <= last_txn
      BY <1>a DEF Connection, Settled
    <3>0. r \in Connection /\ Kept(r, conn[c])
      BY <1>a, <1>4, <2>1, <3>a, RegisterType
    <3>1. /\ r.next_group = group /\ r.begun <= r.next_group
          /\ \A h \in r.handles :
                /\ h.script_id <= last_txn /\ h.group <= r.next_group
                /\ h.script_id = NoTxn \/ h \in conn[c].handles
                /\ h.group = r.begun => h.script_id = conn[c].txn /\ conn[c].txn # NoTxn
          /\ \A h, i \in r.handles : h.expansion_id = i.expansion_id
          /\ \A k \in 1 .. count :
                \E h \in r.handles : h.group = r.next_group /\ h.place = k /\ h.script_id = NoTxn
      <4>1. last_txn <= last_txn
        BY <1>b
      <4>2. last_txn \in TxnId
        BY <1>b
      <4> QED BY <2>1, <3>a, <4>1, <4>2, RegisteredHandles, SMTT(30)
    <3> HIDE DEF r
    <3>3. /\ state.group = group /\ state.next = 0 /\ state.length = length
          /\ state.creating = creating /\ state.txn = conn[c].txn /\ state.fence = conn[c].fence
          /\ state.handles = r.handles /\ state.next_group = group /\ state.begun = r.begun
      BY <2>2, <3>0, <3>1 DEF Kept
    <3> HIDE DEF state
    <3>4. Ready(state)
      <4>1. Calls(state) \in {0, count}
        BY <1>4, <3>3 DEF Calls
      <4>2. \A k \in state.next + 1 .. Calls(state) : k \in 1 .. count
        BY <1>4, <3>3, <4>1
      <4> QED BY <3>1, <3>3, <4>2 DEF Ready
    <3>5. Settled(state, last_txn)
      <4>1. group \in Nat /\ group <= group
        BY <1>d
      <4> HIDE DEF group
      <4> QED BY <1>a, <3>a, <3>1, <3>3, <4>1 DEF Settled
    <3>6. conn' = [conn EXCEPT ![c] = state]
      BY <2>4 DEF state, r
    <3> QED BY <1>b, <2>4, <3>4, <3>5, <3>6, HandleChange
  <2> QED BY <1>4, <2>3, <2>4 DEF Expand, With
<1>5. ASSUME NEW c \in Connections, Unrelated(c) PROVE HandleInv'
  <2> DEFINE state == TransactionEnd(conn[c], last_txn')
  <2>1. conn[c].txn = NoTxn /\ NewTxn /\ conn' = [conn EXCEPT ![c] = state]
    BY <1>5 DEF Unrelated
  <2>2. /\ state.handles = {h \in conn[c].handles : h.script_id # last_txn'}
        /\ state.fence = FALSE /\ state.txn = NoTxn /\ state.begun = conn[c].begun
        /\ state.next_group = conn[c].next_group /\ state.group = conn[c].group
        /\ state.next = conn[c].next /\ state.length = conn[c].length
        /\ state.creating = conn[c].creating
    <3>1. conn[c] \in Connection
      BY <1>a
    <3>2. /\ state.handles = {h \in conn[c].handles : h.script_id # last_txn'}
          /\ state.begun = conn[c].begun
          /\ state.next_group = conn[c].next_group /\ state.group = conn[c].group
      BY <3>1, EndHandles
    <3>3. /\ state.fence = FALSE /\ state.txn = conn[c].txn
          /\ state.next = conn[c].next /\ state.length = conn[c].length
          /\ state.creating = conn[c].creating
      BY <3>1, EndType
    <3> HIDE DEF state
    <3> QED BY <2>1, <3>2, <3>3
  <2> HIDE DEF state
  <2>3. state.handles = conn[c].handles
    <3>1. \A h \in conn[c].handles : h.script_id # last_txn'
      BY <1>a, <1>b, <1>c, <2>1 DEF Settled
    <3> QED BY <2>2, <3>1
  <2>4. Ready(state)
    BY <1>a, <2>2, <2>3 DEF Ready, Calls
  <2>5. Settled(state, last_txn')
    BY <1>a, <1>b, <1>c, <2>1, <2>2, <2>3 DEF Settled, NoTxn
  <2> QED BY <1>b, <2>1, <2>4, <2>5, HandleChange
<1>6. ASSUME NEW c \in Connections, NEW state, Taken(c) # {}, conn[c].txn # NoTxn,
             SameTxn, conn' = [conn EXCEPT ![c] = state],
             conn[c].next + 1 <= Calls(conn[c]),
             state.handles = Take(conn[c], Taken(c)).handles,
             state.txn = conn[c].txn, state.group = conn[c].group,
             state.next_group = conn[c].next_group, state.begun = conn[c].group,
             state.next = conn[c].next + 1, state.length = conn[c].length,
             state.creating = conn[c].creating
      PROVE  HandleInv'
  <2>1. /\ \A h \in state.handles :
                /\ h.script_id <= last_txn /\ h.group <= conn[c].next_group
                /\ h.group = conn[c].group => h.script_id = conn[c].txn
        /\ \A h, i \in state.handles : h.expansion_id = i.expansion_id
        /\ \A k \in conn[c].next + 2 .. Calls(conn[c]) :
                \E h \in state.handles : h.group = conn[c].group /\ h.place = k
    BY <1>6, TakenNext
  <2>2. Ready(state)
    <3>1. state.next + 1 = conn[c].next + 2 /\ Calls(state) = Calls(conn[c])
      BY <1>6, <1>d DEF Calls
    <3> QED BY <1>6, <2>1, <3>1 DEF Ready
  <2>3. Settled(state, last_txn)
    BY <1>6, <1>a, <2>1 DEF Settled
  <2> QED BY <1>6, <1>b, <2>2, <2>3, HandleChange
<1>7. ASSUME NEW c \in Connections, RunStatement(c) PROVE HandleInv'
  <2>0. PICK altered \in BOOLEAN :
          conn' = [conn EXCEPT ![c] =
            [Acquire(Take(conn[c], Taken(c))) EXCEPT
                !.next = conn[c].next + 1, !.checked = TRUE, !.begun = conn[c].group,
                !.altered = conn[c].altered \/ altered]]
    BY <1>7 DEF RunStatement
  <2> DEFINE t == Take(conn[c], Taken(c))
             s == Acquire(t)
             With(n, b) == [s EXCEPT !.next = n, !.checked = TRUE, !.begun = conn[c].group,
                                     !.altered = b]
             state == With(conn[c].next + 1, conn[c].altered \/ altered)
  <2>1. t \in Connection /\ Kept(t, conn[c]) /\ t.next_group = conn[c].next_group
    BY <1>a, TakeType, TakeHandles
  <2>2. /\ s \in Connection /\ s.txn = conn[c].txn /\ s.creating = conn[c].creating
        /\ s.group = conn[c].group /\ s.length = conn[c].length
        /\ s.handles = t.handles /\ s.next_group = conn[c].next_group
    <3> HIDE DEF t
    <3>1. s.handles = t.handles /\ s.next_group = t.next_group
      BY <2>1 DEF Acquire, Connection
    <3> QED BY <2>1, <3>1, AcquireType DEF Kept
  <2> HIDE DEF s
  <2>3. \A n, b : n \in Nat =>
            /\ With(n, b).txn = s.txn /\ With(n, b).creating = s.creating
            /\ With(n, b).group = s.group /\ With(n, b).length = s.length
            /\ With(n, b).handles = s.handles /\ With(n, b).next_group = s.next_group
            /\ With(n, b).next = n /\ With(n, b).begun = conn[c].group
    BY <2>2 DEF Connection
  <2>4. conn' = [conn EXCEPT ![c] = state]
    BY <2>0 DEF s
  <2>5. conn[c].next + 1 \in Nat /\ conn[c].next + 1 <= Calls(conn[c])
    BY <1>7, <1>d DEF RunStatement, Scripted, Calls
  <2> HIDE DEF With
  <2>6. /\ state.handles = t.handles /\ state.txn = conn[c].txn /\ state.group = conn[c].group
        /\ state.next_group = conn[c].next_group /\ state.begun = conn[c].group
        /\ state.next = conn[c].next + 1 /\ state.length = conn[c].length
        /\ state.creating = conn[c].creating
    BY <2>2, <2>3, <2>5
  <2> HIDE DEF state
  <2> QED BY <1>6, <1>7, <2>4, <2>5, <2>6 DEF RunStatement
<1>8. ASSUME NEW c \in Connections, TakeBarrier(c) PROVE HandleInv'
  <2> DEFINE t == Take(conn[c], Taken(c))
             s == Acquire(t)
             b == Hold(s)
             With(n) == [b EXCEPT !.next = n, !.checked = TRUE, !.begun = conn[c].group]
             state == With(conn[c].next + 1)
  <2>1. t \in Connection /\ Kept(t, conn[c]) /\ t.next_group = conn[c].next_group
    BY <1>a, TakeType, TakeHandles
  <2>2. /\ s \in Connection /\ s.txn = conn[c].txn /\ s.creating = conn[c].creating
        /\ s.group = conn[c].group /\ s.length = conn[c].length
        /\ s.handles = t.handles /\ s.next_group = conn[c].next_group
    <3> HIDE DEF t
    <3>1. s.handles = t.handles /\ s.next_group = t.next_group
      BY <2>1 DEF Acquire, Connection
    <3> QED BY <2>1, <3>1, AcquireType DEF Kept
  <2> HIDE DEF s
  <2>3. /\ b \in Connection /\ b.txn = s.txn /\ b.creating = s.creating
        /\ b.group = s.group /\ b.length = s.length
        /\ b.handles = s.handles /\ b.next_group = s.next_group
    BY <1>a, <2>2 DEF Hold, Connection
  <2> HIDE DEF b
  <2>4. \A n \in Nat : /\ With(n).txn = b.txn /\ With(n).creating = b.creating
                       /\ With(n).group = b.group /\ With(n).length = b.length
                       /\ With(n).handles = b.handles /\ With(n).next_group = b.next_group
                       /\ With(n).next = n /\ With(n).begun = conn[c].group
    BY <2>3 DEF Connection
  <2>5. conn' = [conn EXCEPT ![c] = state]
    BY <1>8 DEF TakeBarrier, b, s
  <2>6. conn[c].next + 1 \in Nat /\ conn[c].next + 1 <= Calls(conn[c])
    BY <1>8, <1>a, <1>d DEF TakeBarrier, Scripted, Finishing, Calls, Barred
  <2> HIDE DEF With
  <2>7. /\ state.handles = t.handles /\ state.txn = conn[c].txn /\ state.group = conn[c].group
        /\ state.next_group = conn[c].next_group /\ state.begun = conn[c].group
        /\ state.next = conn[c].next + 1 /\ state.length = conn[c].length
        /\ state.creating = conn[c].creating
    BY <2>2, <2>3, <2>4, <2>6
  <2> HIDE DEF state
  <2> QED BY <1>6, <1>8, <2>5, <2>6, <2>7 DEF TakeBarrier
<1>9. ASSUME NEW c \in Connections, Finish(c) PROVE HandleInv'
  <2> DEFINE r == Release(conn[c])
             With(n) == [r EXCEPT !.next = n, !.altered = TRUE]
             state == With(conn[c].next + 1)
  <2>1. /\ r \in Connection /\ r.txn = conn[c].txn /\ r.creating = conn[c].creating
        /\ r.group = conn[c].group /\ r.length = conn[c].length /\ r.fence = conn[c].fence
        /\ r.handles = conn[c].handles /\ r.next_group = conn[c].next_group
        /\ r.begun = conn[c].begun
    <3>1. NoTxn \in TxnId /\ 0 \in 0 .. MaxTxn
      BY StateConstants DEF NoTxn, TxnId
    <3> QED BY <1>a, <3>1 DEF Release, Connection
  <2> HIDE DEF r
  <2>2. \A n \in Nat : /\ With(n).txn = r.txn /\ With(n).creating = r.creating
                       /\ With(n).group = r.group /\ With(n).length = r.length
                       /\ With(n).handles = r.handles /\ With(n).next_group = r.next_group
                       /\ With(n).next = n /\ With(n).begun = r.begun /\ With(n).fence = r.fence
    BY <2>1 DEF Connection
  <2>3. conn' = [conn EXCEPT ![c] = state]
    BY <1>9 DEF Finish, r
  <2>4. conn[c].creating = TRUE /\ conn[c].next + 1 = 2 /\ state = With(2)
    <3>1. conn[c].creating = TRUE
      BY <1>a, <1>9 DEF Finish, Finishing, Connection
    <3>2. conn[c].next + 1 = 2
      BY <1>9 DEF Finish, Finishing
    <3> QED BY <3>1, <3>2
  <2> HIDE DEF With, state
  <2>5. /\ state.handles = conn[c].handles /\ state.txn = conn[c].txn /\ state.group = conn[c].group
        /\ state.next_group = conn[c].next_group /\ state.begun = conn[c].begun
        /\ state.next = 2 /\ state.creating = conn[c].creating /\ state.fence = conn[c].fence
    <3>1. /\ With(2).txn = r.txn /\ With(2).creating = r.creating
          /\ With(2).group = r.group /\ With(2).length = r.length
          /\ With(2).handles = r.handles /\ With(2).next_group = r.next_group
          /\ With(2).next = 2 /\ With(2).begun = r.begun /\ With(2).fence = r.fence
      BY <2>2
    <3> QED BY <2>1, <2>4, <3>1
  <2>6. Ready(state)
    <3>1. Calls(state) = 1 /\ state.next + 1 = 3
      BY <2>4, <2>5 DEF Calls
    <3>2. state.next + 1 .. Calls(state) = {}
      BY <3>1
    <3> QED BY <3>2 DEF Ready
  <2>7. Settled(state, last_txn)
    BY <1>a, <2>5 DEF Settled
  <2> QED BY <1>9, <1>b, <2>3, <2>6, <2>7, HandleChange DEF Finish
<1>10. ASSUME NEW c \in Connections, StatementFails(c) PROVE HandleInv'
  <2> DEFINE t == Take(conn[c], Taken(c))
             s == [t EXCEPT !.begun = conn[c].group]
             state == Quiet(TransactionEnd(s, conn[c].txn))
  <2>1. t \in Connection /\ t.next_group = conn[c].next_group
    BY <1>a, TakeType, TakeHandles
  <2>2. /\ \A h \in t.handles :
                /\ h.script_id <= last_txn /\ h.group <= conn[c].next_group
                /\ h.group = conn[c].group => h.script_id = conn[c].txn
        /\ \A h, i \in t.handles : h.expansion_id = i.expansion_id
    BY <1>10, TakenNext DEF StatementFails
  <2> HIDE DEF t
  <2>3. conn[c].group \in 0 .. MaxTxn /\ conn[c].group <= conn[c].next_group /\ conn[c].txn \in TxnId
    BY <1>a DEF Connection, Settled
  <2>4. /\ s \in Connection /\ s.handles = t.handles /\ s.begun = conn[c].group
        /\ s.next_group = conn[c].next_group
    BY <2>1, <2>3 DEF Connection
  <2>5. conn' = [conn EXCEPT ![c] = state]
    BY <1>10 DEF StatementFails, t
  <2> HIDE DEF s
  <2>6. Ready(state) /\ Settled(state, last_txn)
    BY <2>2, <2>3, <2>4, EndedHandles
  <2> HIDE DEF state
  <2> QED BY <1>10, <1>b, <2>5, <2>6, HandleChange DEF StatementFails
<1>11. ASSUME NEW c \in Connections, SameTxn,
              conn' = [conn EXCEPT ![c] = Quiet(TransactionEnd(conn[c], conn[c].txn))]
       PROVE  HandleInv'
  <2> DEFINE state == Quiet(TransactionEnd(conn[c], conn[c].txn))
  <2>1. conn[c].txn \in TxnId
    BY <1>a DEF Connection
  <2>2. Ready(state) /\ Settled(state, last_txn)
    BY <1>a, <2>1, EndedHandles DEF Settled
  <2> HIDE DEF state
  <2>3. conn' = [conn EXCEPT ![c] = state]
    BY <1>11 DEF state
  <2> QED BY <1>11, <1>b, <2>2, <2>3, HandleChange
<1>12. ASSUME NEW c \in Connections, CommitStart(c) PROVE HandleInv'
  <2> DEFINE state == [conn[c] EXCEPT !.ending = TRUE, !.own = FALSE]
  <2>1. /\ state.handles = conn[c].handles /\ state.txn = conn[c].txn /\ state.group = conn[c].group
        /\ state.next_group = conn[c].next_group /\ state.begun = conn[c].begun
        /\ state.next = conn[c].next /\ state.length = conn[c].length
        /\ state.creating = conn[c].creating /\ state.fence = conn[c].fence
    BY <1>a DEF Connection
  <2>2. conn' = [conn EXCEPT ![c] = state]
    BY <1>12 DEF CommitStart
  <2> HIDE DEF state
  <2>3. Ready(state) /\ Settled(state, last_txn)
    BY <1>a, <2>1 DEF Ready, Calls, Settled
  <2> QED BY <1>12, <1>b, <2>2, <2>3, HandleChange DEF CommitStart
<1>13. ASSUME NEW c \in Connections, Forget(c) PROVE HandleInv'
  <2> DEFINE state == Quiet(conn[c])
  <2>1. /\ state.handles = conn[c].handles /\ state.txn = NoTxn /\ state.group = 0
        /\ state.next_group = conn[c].next_group /\ state.begun = conn[c].begun
        /\ state.next = 0 /\ state.length = 0 /\ state.creating = FALSE
        /\ state.fence = conn[c].fence
    BY <1>a, QuietHandles, QuietType
  <2>2. conn' = [conn EXCEPT ![c] = state] /\ conn[c].txn = NoTxn
    BY <1>13 DEF Forget
  <2> HIDE DEF state
  <2>3. Ready(state)
    BY <2>1 DEF Ready, Calls
  <2>4. Settled(state, last_txn)
    BY <1>a, <1>b, <1>d, <2>1, <2>2 DEF Settled, NoTxn
  <2> QED BY <1>13, <1>b, <2>2, <2>3, <2>4, HandleChange DEF Forget
<1>14. CASE UNCHANGED <<last_txn, conn>>
  BY <1>14 DEF HandleInv, Ready, Calls, Settled
<1>15. ASSUME NEW c \in Connections,
              \/ \E count \in Lengths : Expand(c, count, count, FALSE) \/ Expand(c, count, 0, FALSE)
              \/ Expand(c, 1, 2, TRUE)
       PROVE  HandleInv'
  <2>1. \A count \in Lengths : count \in Nat /\ 0 \in Nat
    BY StateConstants
  <2> QED BY <1>4, <1>15, <2>1
<1>16. ASSUME NEW c \in Connections, CommitEnd(c) PROVE HandleInv'
  BY <1>11, <1>16 DEF CommitEnd
<1>17. ASSUME NEW c \in Connections, Rollback(c) PROVE HandleInv'
  BY <1>11, <1>17 DEF Rollback
<1> QED BY <1>2, <1>3, <1>5, <1>7, <1>8, <1>9, <1>10, <1>12, <1>13, <1>14, <1>15, <1>16, <1>17
        DEF Next, Vacuum, VacuumEnd, vars

\* The handles are settled in every reachable state.
THEOREM HandleInvariant == Spec => []HandleInv
<1>1. Init => HandleInv
  <2> SUFFICES ASSUME Init, NEW c \in Connections
               PROVE  Ready(conn[c]) /\ Settled(conn[c], last_txn)
    BY DEF HandleInv
  <2> QED BY DEF Init, Ready, Calls, Settled, NoTxn
<1>2. FenceInv /\ HandleInv /\ [Next]_vars => HandleInv'
  BY HandleStep
<1> QED BY <1>1, <1>2, FenceInvariant, PTL DEF Spec

\* A generated statement finds its handle, for any number of connections,
\* scripts and transactions (fence.cpp:46-54, 86-104).
THEOREM HandlesKept == Spec => []HandlesFound
<1>1. HandleInv => HandlesFound
  BY DEF HandleInv, HandlesFound, Ready, Calls
<1> QED BY <1>1, HandleInvariant, PTL

\* Nothing of a script outlives its transaction (fence.cpp:182-200).
THEOREM NothingStays == Spec => []NothingLeft
<1>1. HandleInv => NothingLeft
  BY DEF HandleInv, NothingLeft, Settled
<1> QED BY <1>1, HandleInvariant, PTL
=============================================================================
