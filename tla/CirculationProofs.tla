------------------------- MODULE CirculationProofs --------------------------
(***************************************************************************)
(* The proof that IInv of CirculationInv is inductive, and the theorems it *)
(* gives: first the records of a request and of its transaction with the   *)
(* steps that take, start and undo a request, then the turns of the three  *)
(* service loops, then the commits and the steps on book and user rows.    *)
(* The second part shows that each step is a step of LoanRegister or none, *)
(* the third that copies and loans drift apart only when an UPDATE         *)
(* overwrites a row it has not read, or the row of a book on loan.         *)
(*                                                                         *)
(* The few facts about finite sets the lemmas count loans with are their   *)
(* hypothesis Counting; the library of such facts is taken in only at the  *)
(* end, where Counting is proved and the theorems are drawn.               *)
(***************************************************************************)
EXTENDS CirculationInv, TLAPS

\* What the lemmas use of finite sets and their sizes: the empty set, one more
\* element, and the sets of loans.
Counting ==
  /\ IsFiniteSet({}) /\ Cardinality({}) = 0
  /\ \A S : IsFiniteSet(S) =>
       /\ Cardinality(S) \in Nat
       /\ \A x : /\ IsFiniteSet(S \cup {x})
                 /\ Cardinality(S \cup {x}) =
                      IF x \in S THEN Cardinality(S) ELSE Cardinality(S) + 1
  /\ \A S \in SUBSET Pairs : IsFiniteSet(S) /\ Cardinality(S) \in Nat

\* A step that commits nothing leaves the tables alone and answers no request
\* with success.
Quiet(w) ==
  /\ UNCHANGED tables
  /\ \E n : n # Idle("ok") /\ req' = [req EXCEPT ![w] = n]

\* A worker outside a transaction has the record of none.
LEMMA NoTxType == NoTx \in Transactions
  BY DEF NoTx, Transactions

\* An answered request leaves its worker idle, with the answer.
LEMMA IdleType == \A reply \in {"none", "ok", "error"} : Idle(reply) \in Requests
  BY DEF Idle, Requests

\* The first SELECT of a transaction takes a typed snapshot of the tables.
LEMMA SnapshotType == TypeOK => Snapshot \in Transactions
  BY Zenon DEF TypeOK, Snapshot, NoTx, Transactions, LiveBooks

\* The id lists of a request are sequences of books, and of users.
LEMMA ListTypes == Lists \subseteq Seq(Books) /\ UserLists \subseteq Seq(Users)
  BY MaxListAssumption DEF Lists, UserLists

\* The updates of a request record: their type and their fields.
LEMMA AdvanceFacts ==
  ASSUME NEW r \in Requests
  PROVE  /\ Advance(r) \in Requests
         /\ Advance(r).i = r.i + 1
         /\ Advance(r).pc = r.pc /\ Advance(r).op = r.op /\ Advance(r).reply = r.reply
         /\ Advance(r).bookIds = r.bookIds /\ Advance(r).userIds = r.userIds
  BY DEF Requests, Advance

\* Entering a service loop changes the phase and nothing else.
LEMMA LoopingFacts ==
  ASSUME NEW r \in Requests
  PROVE  /\ Looping(r) \in Requests
         /\ Looping(r).i = r.i
         /\ Looping(r).pc = "loop" /\ Looping(r).op = r.op /\ Looping(r).reply = r.reply
         /\ Looping(r).bookIds = r.bookIds /\ Looping(r).userIds = r.userIds
  BY Zenon DEF Requests, Looping

\* A checked exception of the deletion loop only ends the list.
LEMMA ThrowingFacts ==
  ASSUME NEW r \in Requests
  PROVE  /\ Throwing(r) \in Requests
         /\ Throwing(r).i = Len(r.bookIds) + 1
         /\ Throwing(r).pc = r.pc /\ Throwing(r).op = r.op
         /\ Throwing(r).bookIds = r.bookIds /\ Throwing(r).userIds = r.userIds
<1>1. Len(r.bookIds) + 1 \in Nat
  BY DEF Requests
<1>2. QED
  BY Zenon, <1>1 DEF Requests, Throwing

\* The updates of a transaction record: their type and their fields.
LEMMA BorrowingFacts ==
  ASSUME NEW t \in Transactions, NEW b \in Books, NEW u \in Users
  PROVE  LET n == Borrowing(t, b, u) IN
         /\ n \in Transactions
         /\ n.ins = t.ins \cup {<<b, u>>} /\ n.view = t.view \cup {<<b, u>>}
         /\ n.copy = [t.copy EXCEPT ![b] = t.copy[b] - 1] /\ n.dirty = t.dirty \cup {b}
         /\ n.live = t.live /\ n.total = t.total /\ n.wrote = t.wrote /\ n.del = t.del
         /\ n.shelved = t.shelved /\ n.doomed = t.doomed
         /\ n.gone = t.gone /\ n.stale = t.stale
<1> DEFINE i == t.ins \cup {<<b, u>>}
           v == t.view \cup {<<b, u>>}
           c == [t.copy EXCEPT ![b] = t.copy[b] - 1]
           d == t.dirty \cup {b}
<1>1. i \in SUBSET Pairs /\ v \in SUBSET Pairs /\ d \in SUBSET Books
  BY DEF Transactions, Pairs
<1>2. c \in [Books -> Int]
  BY DEF Transactions
<1>3. Borrowing(t, b, u) = [t EXCEPT !.ins = i, !.view = v, !.copy = c, !.dirty = d]
  BY Zenon DEF Borrowing
<1> HIDE DEF i, v, c, d
<1>4. LET n == [t EXCEPT !.ins = i, !.view = v, !.copy = c, !.dirty = d] IN
      /\ n \in Transactions
      /\ n.ins = i /\ n.view = v /\ n.copy = c /\ n.dirty = d
      /\ n.live = t.live /\ n.total = t.total /\ n.wrote = t.wrote /\ n.del = t.del
      /\ n.shelved = t.shelved /\ n.doomed = t.doomed
      /\ n.gone = t.gone /\ n.stale = t.stale
  BY Zenon, <1>1, <1>2 DEF Transactions
<1>5. QED
  BY <1>3, <1>4, Zenon DEF i, v, c, d

\* A return puts a copy back unless the shelf is full, and changes no loan yet.
LEMMA ReturningFacts ==
  ASSUME NEW t \in Transactions, NEW b \in Books
  PROVE  LET n == Returning(t, b) IN
         /\ n \in Transactions
         /\ IF t.copy[b] < t.total[b]
            THEN n.copy = [t.copy EXCEPT ![b] = t.copy[b] + 1] /\ n.dirty = t.dirty \cup {b}
            ELSE n.copy = t.copy /\ n.dirty = t.dirty
         /\ n.ins = t.ins /\ n.view = t.view
         /\ n.live = t.live /\ n.total = t.total /\ n.wrote = t.wrote /\ n.del = t.del
         /\ n.shelved = t.shelved \cup {b} /\ n.doomed = t.doomed
         /\ n.gone = t.gone /\ n.stale = t.stale
<1> DEFINE c == [t.copy EXCEPT ![b] = t.copy[b] + 1]
           d == t.dirty \cup {b}
           s == t.shelved \cup {b}
           more == [t EXCEPT !.copy = c, !.dirty = d, !.shelved = s]
           same == [t EXCEPT !.shelved = s]
<1>1. d \in SUBSET Books /\ s \in SUBSET Books
  BY Zenon DEF Transactions
<1>2. c \in [Books -> Int]
  BY DEF Transactions
<1>3. Returning(t, b) = IF t.copy[b] < t.total[b] THEN more ELSE same
  BY Zenon DEF Returning
<1> HIDE DEF c, d, s
<1>4. /\ more \in Transactions
      /\ more.ins = t.ins /\ more.view = t.view /\ more.copy = c /\ more.dirty = d
      /\ more.live = t.live /\ more.total = t.total /\ more.wrote = t.wrote /\ more.del = t.del
      /\ more.shelved = s /\ more.doomed = t.doomed
      /\ more.gone = t.gone /\ more.stale = t.stale
  BY Zenon, <1>1, <1>2 DEF Transactions
<1>5. /\ same \in Transactions
      /\ same.ins = t.ins /\ same.view = t.view /\ same.copy = t.copy
      /\ same.dirty = t.dirty
      /\ same.live = t.live /\ same.total = t.total /\ same.wrote = t.wrote /\ same.del = t.del
      /\ same.shelved = s /\ same.doomed = t.doomed
      /\ same.gone = t.gone /\ same.stale = t.stale
  BY <1>1, Zenon DEF Transactions
<1> HIDE DEF more, same
<1>6. CASE t.copy[b] < t.total[b]
  <2>1. Returning(t, b) = more
    BY <1>3, <1>6, Zenon
  <2>2. QED
    BY <1>4, <1>6, <2>1, Zenon DEF c, d, s
<1>7. CASE ~(t.copy[b] < t.total[b])
  <2>1. Returning(t, b) = same
    BY <1>3, <1>7, Zenon
  <2>2. QED
    BY <1>5, <1>7, <2>1, Zenon DEF s
<1>8. QED
  BY <1>6, <1>7, Zenon

\* The flush of a return writes the queued UPDATE and DELETE of its loan.
LEMMA FlushedFacts ==
  ASSUME NEW t \in Transactions, NEW p \in Pairs
  PROVE  LET n == Flushed(t, p) IN
         /\ n \in Transactions
         /\ n.wrote = t.wrote \cup t.dirty /\ n.dirty = {}
         /\ n.del = t.del \cup {p} /\ n.view = t.view \ {p}
         /\ n.ins = t.ins /\ n.copy = t.copy /\ n.live = t.live /\ n.total = t.total
         /\ n.shelved = t.shelved /\ n.doomed = t.doomed
         /\ n.gone = t.gone /\ n.stale = t.stale
<1> DEFINE x == t.wrote \cup t.dirty
           d == t.del \cup {p}
           v == t.view \ {p}
<1>1. x \in SUBSET Books /\ d \in SUBSET Pairs /\ v \in SUBSET Pairs
  BY Zenon DEF Transactions
<1>2. Flushed(t, p) = [t EXCEPT !.wrote = x, !.dirty = {}, !.del = d, !.view = v]
  BY Zenon DEF Flushed
<1> HIDE DEF x, d, v
<1>3. LET n == [t EXCEPT !.wrote = x, !.dirty = {}, !.del = d, !.view = v] IN
      /\ n \in Transactions
      /\ n.wrote = x /\ n.dirty = {} /\ n.del = d /\ n.view = v
      /\ n.ins = t.ins /\ n.copy = t.copy /\ n.live = t.live /\ n.total = t.total
      /\ n.shelved = t.shelved /\ n.doomed = t.doomed
      /\ n.gone = t.gone /\ n.stale = t.stale
  BY Zenon, <1>1 DEF Transactions
<1>4. QED
  BY <1>2, <1>3, Zenon DEF x, d, v

\* A turn of the deletion loop queues the deletion of one book.
LEMMA DeletingFacts ==
  ASSUME NEW t \in Transactions, NEW b \in Books
  PROVE  LET n == Deleting(t, b) IN
         /\ n \in Transactions
         /\ n.doomed = t.doomed \cup {b}
         /\ n.ins = t.ins /\ n.view = t.view /\ n.copy = t.copy /\ n.dirty = t.dirty
         /\ n.live = t.live /\ n.total = t.total /\ n.wrote = t.wrote /\ n.del = t.del
         /\ n.shelved = t.shelved /\ n.gone = t.gone /\ n.stale = t.stale
  BY Zenon DEF Transactions, Deleting

\* The current item of a request in service.
LEMMA ItemTypes ==
  ASSUME NEW r \in Requests, ReqOK(r), r.pc # "idle", r.i <= Len(r.bookIds)
  PROVE  /\ r.i \in 1..Len(r.bookIds)
         /\ r.bookIds[r.i] \in Books
         /\ r.op \in {"borrow", "return"} =>
              r.userIds[r.i] \in Users /\ <<r.bookIds[r.i], r.userIds[r.i]>> \in Pairs
<1>1. r.i \in 1..Len(r.bookIds)
  BY DEF ReqOK, Requests
<1>2. r.bookIds[r.i] \in Books
  BY <1>1 DEF Requests
<1>3. r.op \in {"borrow", "return"} => r.userIds[r.i] \in Users
  BY <1>1 DEF Requests, ReqOK
<1>4. QED
  BY <1>1, <1>2, <1>3, Zenon DEF Pairs

\* No transaction: nothing seen, nothing written.
LEMMA NoTxFields ==
  /\ NoTx.live = {} /\ NoTx.view = {} /\ NoTx.dirty = {} /\ NoTx.wrote = {}
  /\ NoTx.ins = {} /\ NoTx.del = {} /\ NoTx.doomed = {} /\ NoTx.gone = {}
  /\ NoTx.stale = {}
  BY Zenon DEF NoTx

\* A transaction that has inserted nothing lends nothing.
LEMMA LendingNothing ==
  ASSUME Counting, NEW r \in Requests, NEW t, t.ins = {}, r.i = 1
  PROVE  Lending(r, t)
<1>1. BooksOf(t.ins) = {}
  BY Zenon DEF BooksOf
<1>2. IsFiniteSet(BooksOf(t.ins)) /\ Cardinality(BooksOf(t.ins)) = 0
  BY <1>1, Zenon DEF Counting
<1>3. QED
  BY <1>2 DEF Lending

\* A worker without a transaction satisfies its part of the invariant.
LEMMA EmptyTx ==
  ASSUME Counting
  PROVE  /\ SeenOK(NoTx)
         /\ \A r \in Requests : r.i = 1 /\ r.pc \notin {"loop", "flush"} => OwnOK(r, NoTx)
         /\ \A reply \in {"none", "ok", "error"} :
              ReqOK(Idle(reply)) /\ OwnOK(Idle(reply), NoTx)
<1>1. SeenOK(NoTx)
  BY NoTxFields, Zenon DEF SeenOK
<1>2. ASSUME NEW r \in Requests, r.i = 1, r.pc \notin {"loop", "flush"}
      PROVE  OwnOK(r, NoTx)
  BY <1>2, NoTxFields, LendingNothing, Zenon DEF OwnOK
<1>3. ASSUME NEW reply \in {"none", "ok", "error"}
      PROVE  ReqOK(Idle(reply)) /\ OwnOK(Idle(reply), NoTx)
  BY <1>2, IdleType, Zenon DEF ReqOK, Idle
<1>4. QED
  BY <1>1, <1>2, <1>3, Zenon

\* A step that changes only the records of worker w.
LEMMA LocalStep ==
  ASSUME IInv, NEW w \in Workers, NEW r \in Requests, NEW t \in Transactions,
         UNCHANGED <<tables, tainted>>,
         req' = [req EXCEPT ![w] = r], tx' = [tx EXCEPT ![w] = t],
         ReqOK(r), OwnOK(r, t), SeenOK(t),
         \A v \in Workers \ {w} : tx[v].ins \cap t.ins = {} /\ tx[v].del \cap t.del = {}
  PROVE  IInv'
<1>1. TypeOK'
  BY Zenon DEF IInv, TypeOK, tables
<1>2. /\ req'[w] = r /\ tx'[w] = t
      /\ \A v \in Workers \ {w} : req'[v] = req[v] /\ tx'[v] = tx[v]
  BY Zenon DEF IInv, TypeOK
<1>3. ASSUME NEW v \in Workers
      PROVE  ReqOK(req'[v]) /\ OwnOK(req'[v], tx'[v]) /\ SeenOK(tx'[v])
  BY <1>2, Zenon DEF IInv
<1>4. ASSUME NEW v \in Workers
      PROVE  SeenOK(tx[v])'
  BY <1>3, Zenon DEF SeenOK, tables
<1>5. Disjoint'
  <2>1. SUFFICES ASSUME NEW v \in Workers, NEW u \in Workers, v # u
                 PROVE  tx'[v].ins \cap tx'[u].ins = {} /\ tx'[v].del \cap tx'[u].del = {}
    BY Zenon DEF Disjoint
  <2>2. CASE v = w
    BY <1>2, <2>1, <2>2, Zenon
  <2>3. CASE u = w
    BY <1>2, <2>1, <2>3, Zenon
  <2>4. CASE v # w /\ u # w
    BY <1>2, <2>1, <2>4 DEF IInv, Disjoint
  <2>5. QED
    BY <2>2, <2>3, <2>4, Zenon
<1>6. AvailInRange' /\ NoOrphanLoans'
  BY Zenon DEF IInv, AvailInRange, NoOrphanLoans, InRange, tables
<1>7. QED
  BY <1>1, <1>3, <1>4, <1>5, <1>6, Zenon DEF IInv

\* An aborted request leaves the tables as they are and its worker idle.
LEMMA RollbackInv ==
  ASSUME Counting, IInv, NEW w \in Workers, Rollback(w)
  PROVE  IInv'
<1>1. NoTx \in Transactions /\ Idle("error") \in Requests
  BY NoTxType, IdleType, Zenon
<1>2. QED
  BY Zenon, <1>1, NoTxFields, EmptyTx, LocalStep DEF Rollback, tables

\* What a client's request starts: a well-formed record, or an error.
LEMMA SubmitStarts ==
  ASSUME Counting, TypeOK, NEW w \in Workers, Submit(w)
  PROVE  \E n \in Requests :
           /\ req' = [req EXCEPT ![w] = n]
           /\ ReqOK(n) /\ n.i = 1 /\ n.reply # "ok"
           /\ n.pc \in {"idle", "check", "begin"}
<1> DEFINE Starts(n) == /\ n \in Requests /\ ReqOK(n) /\ n.i = 1 /\ n.reply # "ok"
                        /\ n.pc \in {"idle", "check", "begin"}
<1>1. Starts(Idle("error"))
  BY IdleType, EmptyTx, Zenon DEF Idle
<1>2. ASSUME NEW n, Starts(n), req' = [req EXCEPT ![w] = n]
      PROVE  \E m \in Requests : req' = [req EXCEPT ![w] = m] /\ Starts(m)
  BY Zenon, <1>2
<1> HIDE DEF Starts
<1>3. CASE SubmitBorrow(w)
  <2>1. PICK u \in users, l \in Lists :
          req' = [req EXCEPT ![w] =
               IF Len(l) \in 1..BorrowLimit
               THEN [pc |-> "check", op |-> "borrow", bookIds |-> l,
                     userIds |-> [k \in 1..Len(l) |-> u], i |-> 1, reply |-> "none"]
               ELSE Idle("error")]
    BY Zenon, <1>3 DEF SubmitBorrow
  <2> DEFINE us == [k \in 1..Len(l) |-> u]
             r == [pc |-> "check", op |-> "borrow", bookIds |-> l,
                   userIds |-> us, i |-> 1, reply |-> "none"]
  <2>2. u \in Users /\ l \in Seq(Books)
    BY ListTypes, Zenon DEF TypeOK
  <2>3. us \in Seq(Users) /\ Len(us) = Len(l) /\ \A k \in 1..Len(l) : us[k] = u
    BY <2>2
  <2>4. CASE Len(l) \in 1..BorrowLimit
    <3>1. req' = [req EXCEPT ![w] = r]
      BY <2>1, <2>4, Zenon
    <3> HIDE DEF us
    <3>2. r \in Requests
      BY <2>2, <2>3, Zenon DEF Requests
    <3>3. ReqOK(r)
      BY <2>2, <2>3, <2>4 DEF ReqOK, BorrowLimit
    <3>4. Starts(r)
      BY <3>2, <3>3, Zenon DEF Starts
    <3>5. QED
      BY Zenon, <1>2, <3>1, <3>4 DEF Starts
  <2>5. CASE ~(Len(l) \in 1..BorrowLimit)
    BY Zenon, <1>1, <1>2, <2>1, <2>5 DEF Starts
  <2>6. QED
    BY <2>4, <2>5, Zenon
<1>4. CASE SubmitReturn(w)
  <2>1. PICK l \in Lists, us \in UserLists :
          req' = [req EXCEPT ![w] =
                  IF l # <<>> /\ Len(us) = Len(l)
                  THEN [pc |-> "begin", op |-> "return", bookIds |-> l,
                        userIds |-> us, i |-> 1, reply |-> "none"]
                  ELSE Idle("error")]
    BY Zenon, <1>4 DEF SubmitReturn
  <2> DEFINE r == [pc |-> "begin", op |-> "return", bookIds |-> l,
                   userIds |-> us, i |-> 1, reply |-> "none"]
  <2>2. l \in Seq(Books) /\ us \in Seq(Users)
    BY ListTypes, Zenon
  <2>3. CASE l # <<>> /\ Len(us) = Len(l)
    <3>1. r \in Requests
      BY <2>2, Zenon DEF Requests
    <3>2. ReqOK(r)
      BY <2>2, <2>3 DEF ReqOK
    <3>3. Starts(r)
      BY <3>1, <3>2, Zenon DEF Starts
    <3>4. QED
      BY Zenon, <1>2, <2>1, <2>3, <3>3 DEF Starts
  <2>4. CASE ~(l # <<>> /\ Len(us) = Len(l))
    BY Zenon, <1>1, <1>2, <2>1, <2>4 DEF Starts
  <2>5. QED
    BY <2>3, <2>4, Zenon
<1>5. CASE SubmitDelete(w)
  <2>1. PICK l \in Lists \ {<<>>} :
          req' = [req EXCEPT ![w] = [pc |-> "begin", op |-> "delete", bookIds |-> l,
                                     userIds |-> <<>>, i |-> 1, reply |-> "none"]]
    BY Zenon, <1>5 DEF SubmitDelete
  <2> DEFINE r == [pc |-> "begin", op |-> "delete", bookIds |-> l,
                   userIds |-> <<>>, i |-> 1, reply |-> "none"]
  <2>2. l \in Seq(Books) /\ l # <<>>
    BY ListTypes, Zenon
  <2>3. r \in Requests
    BY <2>2 DEF Requests
  <2>4. ReqOK(r)
    BY <2>2 DEF ReqOK
  <2>5. Starts(r)
    BY <2>3, <2>4, Zenon DEF Starts
  <2>6. QED
    BY Zenon, <1>2, <2>1, <2>5 DEF Starts
<1>6. QED
  BY <1>3, <1>4, <1>5, Zenon DEF Submit

\* A request that waits for its first SELECT, or for a client, has no transaction.
LEMMA NoTxOutside ==
  ASSUME IInv, NEW w \in Workers, req[w].pc \notin {"loop", "flush"}
  PROVE  tx[w] = NoTx /\ [tx EXCEPT ![w] = NoTx] = tx
<1>1. tx[w] = NoTx
  BY Zenon DEF IInv, OwnOK
<1>2. QED
  BY <1>1, Zenon DEF IInv, TypeOK

\* A request that has just arrived has touched nothing.
LEMMA SubmitInv ==
  ASSUME Counting, IInv, NEW w \in Workers, Submit(w)
  PROVE  IInv'
<1>1. PICK n \in Requests :
        /\ req' = [req EXCEPT ![w] = n]
        /\ ReqOK(n) /\ n.i = 1 /\ n.pc \in {"idle", "check", "begin"}
  BY SubmitStarts, Zenon DEF IInv
<1>2. req[w].pc = "idle" /\ UNCHANGED <<tables, tainted, tx>>
  BY Zenon DEF Submit, SubmitBorrow, SubmitReturn, SubmitDelete
<1>3. tx' = [tx EXCEPT ![w] = NoTx]
  BY <1>2, NoTxOutside, Zenon
<1>4. OwnOK(n, NoTx) /\ SeenOK(NoTx)
  BY <1>1, EmptyTx, Zenon
<1>5. QED
  BY Zenon, <1>1, <1>2, <1>3, <1>4, NoTxType, NoTxFields, LocalStep

\* The controller's availability check reads committed rows only.
LEMMA CheckAvailableInv ==
  ASSUME Counting, IInv, NEW w \in Workers, CheckAvailable(w)
  PROVE  IInv'
<1> DEFINE r == req[w]
           b == [r EXCEPT !.pc = "begin", !.i = 1]
<1>1. /\ r \in Requests /\ ReqOK(r) /\ r.pc = "check" /\ OwnOK(r, tx[w])
      /\ UNCHANGED <<tables, tainted, tx>>
  BY Zenon DEF IInv, TypeOK, CheckAvailable
<1>2. tx[w] = NoTx
  BY <1>1, Zenon DEF OwnOK
<1>3. tx' = [tx EXCEPT ![w] = NoTx]
  BY <1>1, <1>2, Zenon DEF IInv, TypeOK
<1>4. ASSUME NEW n \in Requests, req' = [req EXCEPT ![w] = n], ReqOK(n), OwnOK(n, NoTx)
      PROVE  IInv'
  BY Zenon, <1>1, <1>3, <1>4, EmptyTx, NoTxType, NoTxFields, LocalStep
<1>5. CASE req' = [req EXCEPT ![w] = Idle("error")]
  BY Zenon, <1>4, <1>5, EmptyTx, IdleType
<1>6. CASE req' = [req EXCEPT ![w] = Advance(@)] /\ r.i < Len(r.bookIds)
  <2>1. /\ Advance(r) \in Requests /\ Advance(r).pc = "check" /\ Advance(r).i = r.i + 1
        /\ Advance(r).op = r.op
        /\ Advance(r).bookIds = r.bookIds /\ Advance(r).userIds = r.userIds
    BY <1>1, AdvanceFacts, Zenon
  <2>2. ReqOK(Advance(r))
    BY <1>1, <1>6, <2>1, SMTT(30), Zenon DEF ReqOK, Requests
  <2>3. r.op = "borrow" /\ r.i >= 1
    BY <1>1 DEF ReqOK, Requests
  <2>4. Lending(Advance(r), NoTx)
    <3>1. BooksOf(NoTx.ins) = {}
      BY NoTxFields, Zenon DEF BooksOf
    <3>2. IsFiniteSet(BooksOf(NoTx.ins)) /\ Cardinality(BooksOf(NoTx.ins)) = 0
      BY <3>1, Zenon DEF Counting
    <3>3. QED
      BY <1>1, <2>1, <2>3, <3>2, NoTxFields, SMTT(30), Zenon DEF Lending, Requests
  <2>5. OwnOK(Advance(r), NoTx)
    BY <2>1, <2>3, <2>4, NoTxFields, Zenon DEF OwnOK
  <2>6. QED
    BY Zenon, <1>4, <1>6, <2>1, <2>2, <2>5
<1>7. CASE req' = [req EXCEPT ![w] = [@ EXCEPT !.pc = "begin", !.i = 1]]
  <2>1. /\ b \in Requests /\ b.pc = "begin" /\ b.i = 1 /\ b.op = r.op
        /\ b.bookIds = r.bookIds /\ b.userIds = r.userIds
    BY Zenon, <1>1 DEF Requests
  <2>2. ReqOK(b)
    BY <1>1, <2>1 DEF ReqOK, Requests
  <2>3. OwnOK(b, NoTx)
    BY Zenon, <2>1, EmptyTx
  <2>4. QED
    BY Zenon, <1>4, <1>7, <2>1, <2>2, <2>3
<1>8. QED
  BY <1>5, <1>6, <1>7, Zenon DEF CheckAvailable

\* The first SELECT: the snapshot agrees with the tables.
LEMMA FirstSelectInv ==
  ASSUME Counting, IInv, NEW w \in Workers, req[w].pc = "begin",
         req' = [req EXCEPT ![w] = Looping(@)], tx' = [tx EXCEPT ![w] = Snapshot],
         UNCHANGED <<tables, tainted>>
  PROVE  IInv'
<1> DEFINE r == req[w]
           n == Looping(r)
           t == Snapshot
<1>1. r \in Requests /\ ReqOK(r)
  BY Zenon DEF IInv, TypeOK
<1>2. /\ n \in Requests /\ n.i = r.i /\ n.pc = "loop" /\ n.op = r.op
      /\ n.bookIds = r.bookIds /\ n.userIds = r.userIds
  BY <1>1, LoopingFacts, Zenon
<1>3. /\ t \in Transactions /\ t.live = LiveBooks /\ t.copy = avail /\ t.total = total /\ t.view = loans
      /\ t.dirty = {} /\ t.wrote = {} /\ t.ins = {} /\ t.del = {} /\ t.doomed = {}
  BY SnapshotType, Zenon DEF IInv, Snapshot, NoTx
<1> HIDE DEF n, t
<1>4. ReqOK(n)
  BY <1>1, <1>2 DEF ReqOK, Requests
<1>5. n.i = 1
  BY <1>1, <1>2, Zenon DEF ReqOK
<1>6. Lending(n, t)
  BY <1>2, <1>3, <1>5, LendingNothing, Zenon
<1>7. \A p \in t.view : p[1] \in t.live
  BY <1>3, Zenon DEF IInv, NoOrphanLoans, LiveBooks, TypeOK, Pairs
<1>8. OwnOK(n, t)
  BY <1>2, <1>3, <1>6, <1>7, Zenon DEF OwnOK
<1>9. SeenOK(t)
  BY <1>3, Zenon DEF SeenOK, IInv, AvailInRange, LiveBooks
<1>10. QED
  BY Zenon, <1>2, <1>3, <1>4, <1>8, <1>9, LocalStep DEF n, t

\* A transaction starts empty, or with the snapshot of its first SELECT.
LEMMA BeginInv ==
  ASSUME Counting, IInv, NEW w \in Workers, BeginBorrow(w) \/ Begin(w)
  PROVE  IInv'
<1>1. CASE req' = [req EXCEPT ![w] = Looping(@)] /\ tx' = [tx EXCEPT ![w] = Snapshot]
  BY Zenon, <1>1, FirstSelectInv DEF BeginBorrow, Begin
<1>2. CASE req' = [req EXCEPT ![w] = Idle("error")] /\ UNCHANGED <<tables, tainted, tx>>
           /\ req[w].pc = "begin"
  <2>1. tx[w] = NoTx
    BY Zenon, <1>2 DEF IInv, OwnOK
  <2>2. tx' = [tx EXCEPT ![w] = NoTx]
    BY <1>2, <2>1, Zenon DEF IInv, TypeOK
  <2>3. Idle("error") \in Requests
    BY IdleType, Zenon
  <2>4. QED
    BY Zenon, <1>2, <2>2, <2>3, EmptyTx, NoTxType, NoTxFields, LocalStep
<1>3. QED
  BY <1>1, <1>2, Zenon DEF BeginBorrow, Begin

\* The loop of a borrow inserts one more loan.
LEMMA LendingMore ==
  ASSUME Counting, NEW r \in Requests, NEW t \in Transactions, Lending(r, t), ReqOK(r),
         r.pc = "loop", r.op = "borrow", r.i <= Len(r.bookIds)
  PROVE  Lending(Advance(r), Borrowing(t, r.bookIds[r.i], r.userIds[r.i]))
<1> DEFINE b == r.bookIds[r.i]
           u == r.userIds[r.i]
           n == Advance(r)
           m == Borrowing(t, b, u)
<1>1. r.i \in 1..Len(r.bookIds) /\ b \in Books /\ u \in Users
  BY Zenon, ItemTypes
<1>2. /\ n.i = r.i + 1 /\ n.pc = "loop" /\ n.bookIds = r.bookIds
      /\ n.userIds = r.userIds
  BY AdvanceFacts, Zenon
<1>3. m.ins = t.ins \cup {<<b, u>>}
  BY ZenonT(30), <1>1, BorrowingFacts
<1>4. u = r.userIds[1]
  BY <1>1, Zenon DEF ReqOK, Requests
<1> HIDE DEF n, m
<1>5. BooksOf(m.ins) = BooksOf(t.ins) \cup {b}
  <2> HIDE DEF b, u
  <2>1. <<b, u>>[1] = b
    BY Zenon
  <2>2. QED
    BY Zenon, <1>3, <2>1 DEF BooksOf
<1>6. /\ IsFiniteSet(BooksOf(m.ins))
      /\ Cardinality(BooksOf(m.ins)) <= Cardinality(BooksOf(t.ins)) + 1
  <2>1. IsFiniteSet(BooksOf(t.ins)) /\ Cardinality(BooksOf(t.ins)) \in Nat
    BY Zenon DEF Lending, Counting
  <2>2. /\ IsFiniteSet(BooksOf(t.ins) \cup {b})
        /\ Cardinality(BooksOf(t.ins) \cup {b}) =
             IF b \in BooksOf(t.ins) THEN Cardinality(BooksOf(t.ins))
             ELSE Cardinality(BooksOf(t.ins)) + 1
    BY Zenon, <2>1 DEF Counting
  <2>3. QED
    BY <1>5, <2>1, <2>2
<1>7. Cardinality(BooksOf(m.ins)) < n.i
  <2>1. Cardinality(BooksOf(t.ins)) < r.i
    BY Zenon DEF Lending
  <2>2. Cardinality(BooksOf(t.ins)) \in Nat /\ Cardinality(BooksOf(m.ins)) \in Nat
    BY <1>6, Zenon DEF Lending, Counting
  <2>3. QED
    BY <1>1, <1>2, <1>6, <2>1, <2>2
<1>8. \A p \in m.ins : p[2] = n.userIds[1]
  BY <1>2, <1>3, <1>4 DEF Lending
<1>9. \A k \in 1..n.i - 1 : <<n.bookIds[k], n.userIds[k]>> \in m.ins
  <2>1. SUFFICES ASSUME NEW k \in 1..r.i
                 PROVE  <<r.bookIds[k], r.userIds[k]>> \in m.ins
    BY <1>1, <1>2
  <2>2. CASE k = r.i
    BY <1>3, <2>2, Zenon
  <2>3. CASE k \in 1..r.i - 1
    BY <1>3, <2>3, Zenon DEF Lending
  <2>4. QED
    BY <1>1, <2>2, <2>3
<1>10. QED
  BY Zenon, <1>6, <1>7, <1>8, <1>9 DEF Lending, n, m

\* A turn of borrowBooks keeps what the transaction knows of the tables.
LEMMA BorrowingOK ==
  ASSUME TypeOK, NEW r \in Requests, NEW t \in Transactions, NEW b \in Books, NEW u \in Users,
         ReqOK(r), OwnOK(r, t), SeenOK(t),
         r.pc = "loop", r.op = "borrow", r.i <= Len(r.bookIds),
         Lending(Advance(r), Borrowing(t, b, u)), b \in t.live, t.copy[b] > 0,
         status[b] = "live", u \in users, <<b, u>> \notin loans
  PROVE  LET n == Advance(r)
             m == Borrowing(t, b, u)
         IN  ReqOK(n) /\ OwnOK(n, m) /\ SeenOK(m)
<1> DEFINE n == Advance(r)
           m == Borrowing(t, b, u)
<1>1. /\ n \in Requests /\ n.i = r.i + 1 /\ n.pc = "loop" /\ n.op = "borrow"
      /\ n.bookIds = r.bookIds /\ n.userIds = r.userIds
  BY AdvanceFacts, Zenon
<1>2. /\ m \in Transactions
      /\ m.ins = t.ins \cup {<<b, u>>} /\ m.view = t.view \cup {<<b, u>>}
      /\ m.copy = [t.copy EXCEPT ![b] = t.copy[b] - 1] /\ m.dirty = t.dirty \cup {b}
      /\ m.live = t.live /\ m.total = t.total /\ m.wrote = t.wrote /\ m.del = t.del
      /\ m.doomed = t.doomed /\ m.gone = t.gone
  BY BorrowingFacts, SMTT(30), Zenon
<1>3. Lending(n, m)
  BY Zenon
<1> HIDE DEF n, m
<1>4. ReqOK(n)
  BY <1>1, ItemTypes, SMTT(30), Zenon DEF ReqOK
<1>5. OwnOK(n, m)
  <2>1. \A p \in m.view : p[1] \in m.live
    BY <1>2 DEF OwnOK
  <2>2. m.dirty \cup m.wrote \cup m.doomed \subseteq m.live
    BY <1>2, Zenon DEF OwnOK
  <2>3. m.wrote = {} /\ m.del = {} /\ m.doomed = {}
    BY <1>2, Zenon DEF OwnOK
  <2>4. QED
    BY <1>1, <1>3, <2>1, <2>2, <2>3, Zenon DEF OwnOK
<1>6. SeenOK(m)
  <2>1. ASSUME NEW c \in m.live
        PROVE  status[c] # "unborn" /\ InRange(m.copy[c], m.total[c])
    <3>1. /\ c \in Books /\ t.copy[c] \in Int /\ t.total[c] \in Int /\ m.total[c] = t.total[c]
          /\ status[c] # "unborn" /\ InRange(t.copy[c], t.total[c])
      BY <1>2, SMTT(30), Zenon DEF SeenOK, Transactions, TypeOK
    <3>2. m.copy[c] = IF c = b THEN t.copy[c] - 1 ELSE t.copy[c]
      BY <1>2, <3>1, SMTT(30), Zenon DEF Transactions
    <3>3. QED
      BY <3>1, <3>2, SMTT(30), Zenon DEF InRange
  <2>2. m.view \subseteq loans \cup m.gone \cup m.ins
    BY <1>2, Zenon DEF SeenOK
  <2>3. m.del \subseteq loans
    BY <1>2, Zenon DEF SeenOK
  <2>4. \A p \in m.ins : p \notin loans /\ status[p[1]] = "live" /\ p[2] \in users
    BY <1>2 DEF SeenOK
  <2>5. QED
    BY <2>1, <2>2, <2>3, <2>4, Zenon DEF SeenOK
<1>7. QED
  BY <1>4, <1>5, <1>6, Zenon DEF n, m

\* A turn of borrowBooks, or its exception, keeps the invariant.
LEMMA BorrowBookInv ==
  ASSUME Counting, IInv, NEW w \in Workers, BorrowBook(w)
  PROVE  IInv'
<1>1. CASE Rollback(w)
  BY <1>1, RollbackInv, Zenon
<1>2. CASE /\ AtInsert(w) /\ ~Blocked(w)
           /\ status[Book(w)] = "live" /\ User(w) \in users /\ Loan(w) \notin loans
           /\ req' = [req EXCEPT ![w] = Advance(@)]
           /\ tx' = [tx EXCEPT ![w] = Borrowing(@, Book(w), User(w))]
           /\ UNCHANGED <<tables, tainted>>
  <2>1. PICK r \in Requests, t \in Transactions : r = req[w] /\ t = tx[w]
    BY Zenon DEF IInv, TypeOK
  <2>2. PICK b, u : b = r.bookIds[r.i] /\ u = r.userIds[r.i]
    BY Zenon
  <2>3. Book(w) = b /\ User(w) = u /\ Loan(w) = <<b, u>>
    BY <2>1, <2>2, Zenon DEF Book, User, Loan
  <2>4. /\ ReqOK(r) /\ OwnOK(r, t) /\ SeenOK(t) /\ TypeOK
        /\ r.pc = "loop" /\ r.op = "borrow" /\ r.i <= Len(r.bookIds)
    BY <1>2, <2>1, Zenon DEF IInv, AtInsert, InLoop, More
  <2>5. b \in Books /\ u \in Users
    BY Zenon, <2>2, <2>4, ItemTypes
  <2>6. b \in t.live /\ t.copy[b] > 0
    BY <1>2, <2>1, <2>3, <2>5, SMTT(30), Zenon DEF AtInsert, Refused, Transactions
  <2>7. /\ ReqOK(Advance(r)) /\ OwnOK(Advance(r), Borrowing(t, b, u))
        /\ SeenOK(Borrowing(t, b, u))
    <3>1. Lending(Advance(r), Borrowing(t, b, u))
      BY <2>2, <2>4, LendingMore, Zenon DEF OwnOK
    <3>2. QED
      BY <1>2, <2>3, <2>4, <2>5, <2>6, <3>1, BorrowingOK, Zenon
  <2>8. Advance(r) \in Requests
    BY AdvanceFacts, Zenon
  <2>9. /\ Borrowing(t, b, u) \in Transactions
        /\ Borrowing(t, b, u).ins = t.ins \cup {<<b, u>>} /\ Borrowing(t, b, u).del = t.del
    BY ZenonT(30), <2>5, BorrowingFacts
  <2>10. ASSUME NEW v \in Workers \ {w}
         PROVE  /\ tx[v].ins \cap Borrowing(t, b, u).ins = {}
                /\ tx[v].del \cap Borrowing(t, b, u).del = {}
    <3>1. <<b, u>> \notin tx[v].ins
      BY <1>2, <2>3, <2>10, Zenon DEF Blocked, Locked
    <3>2. tx[v].ins \cap t.ins = {} /\ tx[v].del \cap t.del = {}
      BY <2>1, <2>10, Zenon DEF IInv, Disjoint
    <3>3. QED
      BY <2>9, <3>1, <3>2, Zenon
  <2>11. req' = [req EXCEPT ![w] = Advance(r)] /\ tx' = [tx EXCEPT ![w] = Borrowing(t, b, u)]
    BY <1>2, <2>1, <2>3, Zenon
  <2>12. QED
    BY Zenon, <1>2, <2>7, <2>8, <2>9, <2>10, <2>11, LocalStep
<1>3. QED
  BY <1>1, <1>2, Zenon DEF BorrowBook

\* The copies of a returned book stay in range: the guard on its total.
LEMMA ReturningOK ==
  ASSUME TypeOK, NEW r \in Requests, NEW t \in Transactions, NEW b \in Books,
         OwnOK(r, t), SeenOK(t), r.op = "return", b \in t.live,
         NEW n \in Requests, n.pc = "flush", n.op = "return",
         <<n.bookIds[n.i], n.userIds[n.i]>> \in t.view
  PROVE  OwnOK(n, Returning(t, b)) /\ SeenOK(Returning(t, b))
<1> DEFINE m == Returning(t, b)
<1>1. /\ m \in Transactions
      /\ IF t.copy[b] < t.total[b]
         THEN m.copy = [t.copy EXCEPT ![b] = t.copy[b] + 1] /\ m.dirty = t.dirty \cup {b}
         ELSE m.copy = t.copy /\ m.dirty = t.dirty
      /\ m.ins = t.ins /\ m.view = t.view
      /\ m.live = t.live /\ m.total = t.total /\ m.wrote = t.wrote /\ m.del = t.del
      /\ m.doomed = t.doomed /\ m.gone = t.gone
  BY ZenonT(30), ReturningFacts DEF TypeOK
<1> HIDE DEF m
<1>2. OwnOK(n, m)
  <2>1. m.dirty \subseteq t.dirty \cup {b}
    BY <1>1, Zenon
  <2>2. QED
    BY <1>1, <2>1, Zenon DEF OwnOK
<1>3. SeenOK(m)
  <2>1. ASSUME NEW c \in m.live
        PROVE  status[c] # "unborn" /\ InRange(m.copy[c], m.total[c])
    <3>1. /\ c \in Books /\ t.copy[c] \in Int /\ t.total[c] \in Int /\ m.total[c] = t.total[c]
          /\ status[c] # "unborn" /\ InRange(t.copy[c], t.total[c])
      BY <1>1, Zenon DEF SeenOK, Transactions, TypeOK
    <3>2. m.copy[c] = IF c = b /\ t.copy[c] < t.total[c] THEN t.copy[c] + 1 ELSE t.copy[c]
      BY <1>1, <3>1 DEF Transactions
    <3>3. QED
      BY <3>1, <3>2 DEF InRange
  <2>2. QED
    BY <1>1, <2>1, Zenon DEF SeenOK
<1>4. QED
  BY <1>2, <1>3, Zenon DEF m

\* A turn of returnBooks up to its queued DELETE keeps the invariant.
LEMMA ReturnBookInv ==
  ASSUME IInv, NEW w \in Workers, ReturnBook(w)
  PROVE  IInv'
<1>1. PICK r \in Requests, t \in Transactions : r = req[w] /\ t = tx[w]
  BY Zenon DEF IInv, TypeOK
<1>2. PICK b, u : b = r.bookIds[r.i] /\ u = r.userIds[r.i]
  BY Zenon
<1>3. Book(w) = b /\ Loan(w) = <<b, u>>
  BY <1>1, <1>2, Zenon DEF Book, User, Loan
<1>4. /\ ReqOK(r) /\ OwnOK(r, t) /\ SeenOK(t) /\ TypeOK
      /\ r.pc = "loop" /\ r.op = "return" /\ r.i <= Len(r.bookIds)
      /\ UNCHANGED <<tables, tainted>>
  BY <1>1, Zenon DEF IInv, ReturnBook, InLoop, More
<1>5. r.i \in 1..Len(r.bookIds) /\ b \in Books
  BY Zenon, <1>2, <1>4, ItemTypes
<1>6. \A v \in Workers \ {w} : tx[v].ins \cap t.ins = {} /\ tx[v].del \cap t.del = {}
  BY <1>1, Zenon DEF IInv, Disjoint
<1>7. CASE <<b, u>> \notin t.view
  <2> DEFINE n == Advance(r)
  <2>1. /\ n \in Requests /\ n.i = r.i + 1 /\ n.pc = "loop" /\ n.op = "return"
        /\ n.bookIds = r.bookIds /\ n.userIds = r.userIds
    BY <1>4, AdvanceFacts, Zenon
  <2>2. req' = [req EXCEPT ![w] = n] /\ tx' = tx
    BY <1>1, <1>3, <1>7, Zenon DEF ReturnBook
  <2>3. tx' = [tx EXCEPT ![w] = t]
    BY <1>1, <2>2, Zenon DEF IInv, TypeOK
  <2> HIDE DEF n
  <2>4. ReqOK(n)
    BY <1>4, <1>5, <2>1 DEF ReqOK
  <2>5. OwnOK(n, t)
    BY <1>4, <2>1, Zenon DEF OwnOK
  <2>6. QED
    BY Zenon, <1>4, <1>6, <2>1, <2>2, <2>3, <2>4, <2>5, LocalStep
<1>8. CASE <<b, u>> \in t.view
  <2> DEFINE n == [r EXCEPT !.pc = "flush"]
             m == Returning(t, b)
  <2>1. /\ n \in Requests /\ n.i = r.i /\ n.pc = "flush" /\ n.op = "return"
        /\ n.bookIds = r.bookIds /\ n.userIds = r.userIds
    BY <1>4, Zenon DEF Requests
  <2>2. req' = [req EXCEPT ![w] = n] /\ tx' = [tx EXCEPT ![w] = m]
    BY <1>1, <1>3, <1>8, Zenon DEF ReturnBook
  <2> HIDE DEF n
  <2>3. ReqOK(n)
    BY <1>4, <1>5, <2>1, Zenon DEF ReqOK
  <2>4. b \in t.live
    BY <1>4, <1>8, Zenon DEF OwnOK
  <2>5. <<n.bookIds[n.i], n.userIds[n.i]>> \in t.view
    BY <1>2, <1>8, <2>1, Zenon
  <2>6. OwnOK(n, m) /\ SeenOK(m)
    BY <1>4, <1>5, <2>1, <2>4, <2>5, ReturningOK, Zenon
  <2>7. m \in Transactions /\ m.ins = t.ins /\ m.del = t.del
    BY Zenon, <1>4, <1>5, ReturningFacts DEF TypeOK
  <2> HIDE DEF m
  <2>8. QED
    BY Zenon, <1>4, <1>6, <2>1, <2>2, <2>3, <2>6, <2>7, LocalStep
<1>9. QED
  BY <1>7, <1>8, Zenon

\* The executed DELETE is of a loan that is in the table: the row is there and
\* no other transaction deletes it.
LEMMA FlushedOK ==
  ASSUME TypeOK, NEW r \in Requests, NEW t \in Transactions, NEW p \in Pairs,
         OwnOK(r, t), SeenOK(t), r.pc = "flush", r.op = "return",
         p \in t.view, p \notin t.gone,
         NEW n \in Requests, n.pc = "loop", n.op = "return"
  PROVE  OwnOK(n, Flushed(t, p)) /\ SeenOK(Flushed(t, p))
<1> DEFINE m == Flushed(t, p)
<1>1. /\ m \in Transactions
      /\ m.wrote = t.wrote \cup t.dirty /\ m.dirty = {}
      /\ m.del = t.del \cup {p} /\ m.view = t.view \ {p}
      /\ m.ins = t.ins /\ m.copy = t.copy /\ m.live = t.live /\ m.total = t.total
      /\ m.doomed = t.doomed /\ m.gone = t.gone
  BY FlushedFacts, SMTT(30), Zenon
<1> HIDE DEF m
<1>2. t.ins = {}
  BY Zenon DEF OwnOK
<1>3. p \in loans
  BY <1>2, Zenon DEF SeenOK
<1>4. OwnOK(n, m)
  BY <1>1, Zenon DEF OwnOK
<1>5. SeenOK(m)
  BY <1>1, <1>2, <1>3, Zenon DEF SeenOK
<1>6. QED
  BY <1>4, <1>5, Zenon DEF m

\* The flush that ends a turn of returnBooks keeps the invariant.
LEMMA FlushReturnInv ==
  ASSUME Counting, IInv, NEW w \in Workers, FlushReturn(w)
  PROVE  IInv'
<1>1. CASE Rollback(w)
  BY <1>1, RollbackInv, Zenon
<1>2. CASE /\ Loan(w) \notin tx[w].gone
           /\ req' = [req EXCEPT ![w] = Looping(Advance(@))]
           /\ tx' = [tx EXCEPT ![w] = Flushed(@, Loan(w))]
           /\ UNCHANGED <<tables, tainted>>
  <2>1. PICK r \in Requests, t \in Transactions : r = req[w] /\ t = tx[w]
    BY Zenon DEF IInv, TypeOK
  <2>2. PICK p : p = <<r.bookIds[r.i], r.userIds[r.i]>>
    BY Zenon
  <2>3. Loan(w) = p
    BY <2>1, <2>2, Zenon DEF Book, User, Loan
  <2>4. /\ ReqOK(r) /\ OwnOK(r, t) /\ SeenOK(t) /\ TypeOK
        /\ r.pc = "flush" /\ ~Blocked(w)
    BY <2>1, Zenon DEF IInv, FlushReturn
  <2>5. r.op = "return" /\ r.i <= Len(r.bookIds)
    BY <2>4, Zenon DEF ReqOK
  <2>6. r.i \in 1..Len(r.bookIds) /\ p \in Pairs
    BY <2>2, <2>4, <2>5, ItemTypes, Zenon
  <2>7. p \in t.view
    BY <2>2, <2>4, Zenon DEF OwnOK
  <2> DEFINE n == Looping(Advance(r))
             m == Flushed(t, p)
  <2>8. /\ n \in Requests /\ n.i = r.i + 1 /\ n.pc = "loop" /\ n.op = "return"
        /\ n.bookIds = r.bookIds /\ n.userIds = r.userIds
    BY <2>5, AdvanceFacts, LoopingFacts
  <2>9. m \in Transactions /\ m.ins = t.ins /\ m.del = t.del \cup {p}
    BY <2>6, FlushedFacts
  <2>10. req' = [req EXCEPT ![w] = n] /\ tx' = [tx EXCEPT ![w] = m]
    BY <1>2, <2>1, <2>3, Zenon
  <2> HIDE DEF n
  <2>11. ReqOK(n)
    BY <2>4, <2>5, <2>6, <2>8, SMTT(30), Zenon DEF ReqOK
  <2>12. OwnOK(n, m) /\ SeenOK(m)
    BY <1>2, <2>1, <2>3, <2>4, <2>5, <2>6, <2>7, <2>8, FlushedOK, Zenon
  <2> HIDE DEF m
  <2>13. ASSUME NEW v \in Workers \ {w}
         PROVE  tx[v].ins \cap m.ins = {} /\ tx[v].del \cap m.del = {}
    <3>1. p \notin tx[v].del
      BY <2>1, <2>3, <2>4, <2>13, Zenon DEF Blocked, Locked
    <3>2. tx[v].ins \cap t.ins = {} /\ tx[v].del \cap t.del = {}
      BY <2>1, <2>13, Zenon DEF IInv, Disjoint
    <3>3. QED
      BY <2>9, <3>1, <3>2, SMTT(30), Zenon
  <2>14. QED
    BY Zenon, <1>2, <2>8, <2>9, <2>10, <2>11, <2>12, <2>13, LocalStep
<1>3. QED
  BY <1>1, <1>2, Zenon DEF FlushReturn

\* A turn of deleteBooks keeps the invariant.
LEMMA DeleteBookInv ==
  ASSUME IInv, NEW w \in Workers, DeleteBook(w)
  PROVE  IInv'
<1>1. PICK r \in Requests, t \in Transactions : r = req[w] /\ t = tx[w]
  BY Zenon DEF IInv, TypeOK
<1>2. PICK b : b = r.bookIds[r.i]
  BY Zenon
<1>3. Book(w) = b
  BY <1>1, <1>2, Zenon DEF Book
<1>4. /\ ReqOK(r) /\ OwnOK(r, t) /\ SeenOK(t)
      /\ r.pc = "loop" /\ r.op = "delete" /\ r.i <= Len(r.bookIds)
      /\ UNCHANGED <<tables, tainted>>
  BY <1>1, Zenon DEF IInv, DeleteBook, InLoop, More
<1>5. r.i \in 1..Len(r.bookIds) /\ b \in Books
  BY Zenon, <1>2, <1>4, ItemTypes
<1>6. \A v \in Workers \ {w} : tx[v].ins \cap t.ins = {} /\ tx[v].del \cap t.del = {}
  BY <1>1, Zenon DEF IInv, Disjoint
<1>7. CASE b \in t.live \ t.doomed
  <2> DEFINE n == Advance(r)
             m == Deleting(t, b)
  <2>1. /\ n \in Requests /\ n.i = r.i + 1 /\ n.pc = "loop" /\ n.op = "delete"
        /\ n.bookIds = r.bookIds /\ n.userIds = r.userIds
    BY <1>4, AdvanceFacts, Zenon
  <2>2. /\ m \in Transactions /\ m.doomed = t.doomed \cup {b}
        /\ m.ins = t.ins /\ m.view = t.view /\ m.copy = t.copy /\ m.dirty = t.dirty
        /\ m.live = t.live /\ m.total = t.total /\ m.wrote = t.wrote /\ m.del = t.del /\ m.gone = t.gone
    BY <1>5, DeletingFacts, Zenon
  <2>3. req' = [req EXCEPT ![w] = n] /\ tx' = [tx EXCEPT ![w] = m]
    BY <1>1, <1>3, <1>7, Zenon DEF DeleteBook
  <2> HIDE DEF n, m
  <2>4. ReqOK(n)
    BY <1>4, <1>5, <2>1 DEF ReqOK
  <2>5. OwnOK(n, m)
    BY <1>4, <1>7, <2>1, <2>2, SMTT(30), Zenon DEF OwnOK
  <2>6. SeenOK(m)
    BY <1>4, <2>2, Zenon DEF SeenOK
  <2>7. QED
    BY Zenon, <1>4, <1>6, <2>1, <2>2, <2>3, <2>4, <2>5, <2>6, LocalStep
<1>8. CASE b \notin t.live \ t.doomed
  <2> DEFINE n == Throwing(r)
  <2>1. /\ n \in Requests /\ n.i = Len(r.bookIds) + 1 /\ n.pc = "loop" /\ n.op = "delete"
        /\ n.bookIds = r.bookIds /\ n.userIds = r.userIds
    BY <1>4, ThrowingFacts, Zenon
  <2>2. req' = [req EXCEPT ![w] = n] /\ tx' = tx
    BY <1>1, <1>3, <1>8, Zenon DEF DeleteBook
  <2>3. tx' = [tx EXCEPT ![w] = t]
    BY <1>1, <2>2, Zenon DEF IInv, TypeOK
  <2> HIDE DEF n
  <2>4. ReqOK(n)
    BY <1>4, <1>5, <2>1 DEF ReqOK
  <2>5. OwnOK(n, t)
    BY <1>4, <2>1, Zenon DEF OwnOK
  <2>6. QED
    BY Zenon, <1>4, <1>6, <2>1, <2>2, <2>3, <2>4, <2>5, LocalStep
<1>9. QED
  BY <1>7, <1>8, Zenon

\* What the commit of another transaction changes in an open one.
LEMMA OvertakenFacts ==
  ASSUME NEW t \in Transactions, NEW D, NEW S, NEW m, m = Overtaken(t, D, S)
  PROVE  /\ m.gone = t.gone \cup D /\ m.stale = t.stale \cup S
         /\ m.ins = t.ins /\ m.view = t.view /\ m.copy = t.copy /\ m.dirty = t.dirty
         /\ m.live = t.live /\ m.total = t.total /\ m.wrote = t.wrote /\ m.del = t.del
         /\ m.doomed = t.doomed
         /\ D \in SUBSET Pairs /\ S \in SUBSET Books => m \in Transactions
<1> DEFINE g == t.gone \cup D
           s == t.stale \cup S
<1>1. D \in SUBSET Pairs /\ S \in SUBSET Books => g \in SUBSET Pairs /\ s \in SUBSET Books
  BY Zenon DEF Transactions
<1>2. m = [t EXCEPT !.gone = g, !.stale = s]
  BY Zenon DEF Overtaken
<1> HIDE DEF g, s
<1>3. /\ m.gone = g /\ m.stale = s
      /\ m.ins = t.ins /\ m.view = t.view /\ m.copy = t.copy /\ m.dirty = t.dirty
      /\ m.live = t.live /\ m.total = t.total /\ m.wrote = t.wrote /\ m.del = t.del
      /\ m.doomed = t.doomed
      /\ g \in SUBSET Pairs /\ s \in SUBSET Books => m \in Transactions
  BY ZenonT(30), <1>2 DEF Transactions
<1>4. QED
  BY <1>1, <1>3, Zenon DEF g, s

\* An open transaction after another commit: its own part is untouched.
LEMMA OvertakenOwn ==
  ASSUME NEW r, NEW t \in Transactions, NEW m, OwnOK(r, t), r.pc \in {"loop", "flush"},
         m.ins = t.ins, m.view = t.view, m.dirty = t.dirty, m.live = t.live /\ m.total = t.total,
         m.wrote = t.wrote, m.del = t.del, m.doomed = t.doomed
  PROVE  OwnOK(r, m)
<1>1. Lending(r, t) => Lending(r, m)
  BY Zenon DEF Lending
<1>2. QED
  BY <1>1, Zenon DEF OwnOK

\* A commit keeps the types of the tables.
LEMMA PublishType ==
  ASSUME TypeOK, NEW w \in Workers, NEW reply \in {"ok", "error"}, Publish(w, reply)
  PROVE  TypeOK'
<1> DEFINE t == tx[w]
           updated == t.dirty \cup t.wrote
<1>1. t \in Transactions
  BY Zenon DEF TypeOK
<1>2. avail' \in [Books -> Int] /\ total' \in [Books -> Int] /\ loans' \in SUBSET Pairs
      /\ status' \in [Books -> {"unborn", "live", "deleted"}]
      /\ inv' \in [Books -> {"none", "BORROWED", "AVAILABLE"}]
      /\ tainted' \in SUBSET Books
  BY <1>1, Zenon DEF TypeOK, Publish, Updated, WrittenTotal, Shelved, Transactions
<1>3. req' \in [Workers -> Requests]
  BY IdleType, Zenon DEF TypeOK, Publish
<1>4. ASSUME NEW v \in Workers
      PROVE  Overtaken(tx[v], t.del, updated) \in Transactions
  <2>1. t.del \in SUBSET Pairs /\ updated \in SUBSET Books /\ tx[v] \in Transactions
    BY <1>1, Zenon DEF TypeOK, Transactions
  <2>2. QED
    BY <2>1, OvertakenFacts
<1>5. tx' \in [Workers -> Transactions]
  BY Zenon, <1>4, NoTxType DEF TypeOK, Publish, Updated
<1>6. QED
  BY Zenon, <1>2, <1>3, <1>5 DEF TypeOK, Publish

\* The records after a commit: the committing worker is idle, an open
\* transaction learns of it, everything else of it is as before.
LEMMA PublishRecords ==
  ASSUME IInv, NEW w \in Workers, NEW reply \in {"ok", "error"}, Publish(w, reply)
  PROVE  /\ req'[w] = Idle(reply) /\ tx'[w] = NoTx
         /\ \A v \in Workers \ {w} :
              /\ req'[v] = req[v]
              /\ tx'[v].ins = tx[v].ins /\ tx'[v].view = tx[v].view
              /\ tx'[v].copy = tx[v].copy /\ tx'[v].dirty = tx[v].dirty
              /\ tx'[v].live = tx[v].live /\ tx'[v].total = tx[v].total /\ tx'[v].wrote = tx[v].wrote
              /\ tx'[v].del = tx[v].del /\ tx'[v].doomed = tx[v].doomed
              /\ IF req[v].pc \in {"loop", "flush"}
                 THEN /\ tx'[v].gone = tx[v].gone \cup tx[w].del
                      /\ tx'[v].stale = tx[v].stale \cup tx[w].dirty \cup tx[w].wrote
                 ELSE tx'[v] = NoTx /\ tx[v] = NoTx
<1>1. req'[w] = Idle(reply) /\ tx'[w] = NoTx
  BY SMTT(30), Zenon DEF Publish, IInv, TypeOK
<1>2. ASSUME NEW v \in Workers \ {w}
      PROVE  /\ req'[v] = req[v]
             /\ tx'[v].ins = tx[v].ins /\ tx'[v].view = tx[v].view
             /\ tx'[v].copy = tx[v].copy /\ tx'[v].dirty = tx[v].dirty
             /\ tx'[v].live = tx[v].live /\ tx'[v].total = tx[v].total /\ tx'[v].wrote = tx[v].wrote
             /\ tx'[v].del = tx[v].del /\ tx'[v].doomed = tx[v].doomed
             /\ IF req[v].pc \in {"loop", "flush"}
                THEN /\ tx'[v].gone = tx[v].gone \cup tx[w].del
                     /\ tx'[v].stale = tx[v].stale \cup tx[w].dirty \cup tx[w].wrote
                ELSE tx'[v] = NoTx /\ tx[v] = NoTx
  <2>1. req'[v] = req[v]
    BY ZenonT(30) DEF Publish, IInv, TypeOK
  <2>2. CASE req[v].pc \in {"loop", "flush"}
    <3>1. PICK s \in Transactions, D \in SUBSET Pairs, S \in SUBSET Books :
            s = tx[v] /\ D = tx[w].del /\ S = tx[w].dirty \cup tx[w].wrote
      BY Zenon DEF IInv, TypeOK, Transactions
    <3>2. PICK m : m = Overtaken(s, D, S)
      BY Zenon
    <3>3. /\ m.gone = s.gone \cup D /\ m.stale = s.stale \cup S
          /\ m.ins = s.ins /\ m.view = s.view /\ m.copy = s.copy /\ m.dirty = s.dirty
          /\ m.live = s.live /\ m.total = s.total /\ m.wrote = s.wrote /\ m.del = s.del
          /\ m.doomed = s.doomed
      BY <3>2, OvertakenFacts, SMTT(30), Zenon
    <3>4. tx'[v] = m
      BY <2>2, <3>1, <3>2, Zenon DEF Publish, Updated, InTx
    <3>5. QED
      BY <2>1, <2>2, <3>1, <3>3, <3>4, Zenon
  <2>3. CASE req[v].pc \notin {"loop", "flush"}
    <3>1. tx[v] = NoTx
      BY ZenonT(30), <2>3 DEF IInv, OwnOK
    <3>2. tx'[v] = tx[v]
      BY <2>3, SMTT(30), Zenon DEF Publish, InTx
    <3>3. QED
      BY <2>1, <2>3, <3>1, <3>2, Zenon
  <2>4. QED
    BY <2>2, <2>3, Zenon
<1>3. QED
  BY <1>1, <1>2, Zenon

\* A commit whose deleted books nobody has on loan keeps the invariant.
LEMMA PublishInv ==
  ASSUME Counting, IInv, NEW w \in Workers, NEW reply \in {"ok", "error"}, Publish(w, reply),
         req[w].pc = "loop", req[w].op # "none",
         \A b \in tx[w].doomed : ~Undeletable(b),
         \A v \in Workers \ {w} : \A p \in tx[v].ins : p[1] \notin tx[w].doomed
  PROVE  IInv'
<1>1. PICK t \in Transactions : t = tx[w]
  BY SMTT(30), Zenon DEF IInv, TypeOK
<1>2. OwnOK(req[w], t) /\ SeenOK(t)
  BY <1>1, Zenon DEF IInv
<1>3. /\ avail' = [b \in Books |-> IF b \in t.dirty \cup t.wrote THEN t.copy[b] ELSE avail[b]]
      /\ loans' = (loans \ t.del) \cup t.ins
      /\ status' = [b \in Books |-> IF b \in t.doomed THEN "deleted" ELSE status[b]]
      /\ total' = [b \in Books |-> IF b \in t.dirty \cup t.wrote THEN t.total[b] ELSE total[b]]
      /\ users' = users
  BY Zenon, <1>1 DEF Publish, Updated, WrittenTotal
<1>4. t.ins = {} \/ t.doomed = {}
  BY ZenonT(30), <1>2 DEF OwnOK, IInv, TypeOK, Requests
<1>5. TypeOK'
  BY PublishType, Zenon DEF IInv
<1>6. AvailInRange'
  <2>1. SUFFICES ASSUME NEW b \in Books
                 PROVE  InRange(avail'[b], total'[b])
    BY Zenon DEF AvailInRange, InRange
  <2>2. CASE b \in t.dirty \cup t.wrote
    <3>1. b \in t.live
      BY <1>2, <2>2, SMTT(30), Zenon DEF OwnOK
    <3>2. avail'[b] = t.copy[b] /\ total'[b] = t.total[b]
      BY <1>3, <2>2, Zenon
    <3>3. QED
      BY <1>2, <3>1, <3>2, Zenon DEF SeenOK
  <2>3. CASE b \notin t.dirty \cup t.wrote
    BY <1>3, <2>3, Zenon DEF IInv, AvailInRange
  <2>4. QED
    BY <2>2, <2>3, SMTT(30), Zenon
<1>7. NoOrphanLoans'
  <2>1. SUFFICES ASSUME NEW p \in loans'
                 PROVE  status'[p[1]] = "live" /\ p[2] \in users
    BY <1>3, Zenon DEF NoOrphanLoans
  <2>2. p \in Pairs /\ p[1] \in Books
    BY <1>5, SMTT(30), Zenon DEF TypeOK, Pairs
  <2>3. status[p[1]] = "live" /\ p[2] \in users
    BY <1>2, <1>3, Zenon DEF SeenOK, IInv, NoOrphanLoans
  <2>4. p[1] \notin t.doomed
    <3>1. CASE p \in t.ins
      BY Zenon, <1>4, <3>1
    <3>2. CASE p \in loans
      <4>1. p[1] \in BooksOf(loans)
        BY <3>2, Zenon DEF BooksOf
      <4>2. QED
        BY <1>1, <4>1, Zenon DEF Undeletable
    <3>3. QED
      BY Zenon, <1>3, <3>1, <3>2
  <2>5. QED
    BY <1>3, <2>2, <2>3, <2>4, Zenon
<1>8. Disjoint'
  <2>1. ASSUME NEW v \in Workers
        PROVE  tx'[v].ins \subseteq tx[v].ins /\ tx'[v].del \subseteq tx[v].del
    <3>1. CASE v = w
      <4>1. tx'[v] = NoTx
        BY <3>1, PublishRecords, Zenon
      <4>2. QED
        BY <4>1, NoTxFields, Zenon
    <3>2. CASE v # w
      <4>1. tx'[v].ins = tx[v].ins /\ tx'[v].del = tx[v].del
        BY <3>2, PublishRecords, ZenonT(30)
      <4>2. QED
        BY <4>1, Zenon
    <3>3. QED
      BY <3>1, <3>2, Zenon
  <2>2. ASSUME NEW v \in Workers, NEW u \in Workers, v # u
        PROVE  tx'[v].ins \cap tx'[u].ins = {} /\ tx'[v].del \cap tx'[u].del = {}
    <3>1. tx[v].ins \cap tx[u].ins = {} /\ tx[v].del \cap tx[u].del = {}
      BY <2>2, Zenon DEF IInv, Disjoint
    <3>2. tx'[v].ins \subseteq tx[v].ins /\ tx'[v].del \subseteq tx[v].del
      BY <2>1, Zenon
    <3>3. tx'[u].ins \subseteq tx[u].ins /\ tx'[u].del \subseteq tx[u].del
      BY <2>1, Zenon
    <3>4. QED
      BY <3>1, <3>2, <3>3, Zenon
  <2>3. QED
    BY <2>2, Zenon DEF Disjoint
<1>9. ASSUME NEW v \in Workers
      PROVE  ReqOK(req'[v]) /\ OwnOK(req'[v], tx'[v]) /\ SeenOK(tx[v])'
  <2>1. CASE v = w
    <3>1. req'[v] = Idle(reply) /\ tx'[v] = NoTx
      BY Zenon, <2>1, PublishRecords
    <3>2. SeenOK(tx[v])'
      BY Zenon, <3>1, NoTxFields DEF SeenOK
    <3>3. QED
      BY <3>1, <3>2, EmptyTx, Zenon
  <2>2. CASE v # w /\ req[v].pc \notin {"loop", "flush"}
    <3>1. req'[v] = req[v] /\ tx'[v] = NoTx /\ tx[v] = NoTx
      BY <2>2, PublishRecords
    <3>2. SeenOK(tx[v])'
      BY Zenon, <3>1, NoTxFields DEF SeenOK
    <3>3. QED
      BY <3>1, <3>2, Zenon DEF IInv
  <2>3. CASE v # w /\ req[v].pc \in {"loop", "flush"}
    <3>1. PICK s \in Transactions : s = tx[v]
      BY SMTT(30), Zenon DEF IInv, TypeOK
    <3>2. PICK m : m = tx'[v]
      BY Zenon
    <3>3. ReqOK(req[v]) /\ OwnOK(req[v], s) /\ SeenOK(s)
      BY <3>1, Zenon DEF IInv
    <3>4. /\ req'[v] = req[v]
          /\ m.ins = s.ins /\ m.view = s.view /\ m.copy = s.copy /\ m.dirty = s.dirty
          /\ m.live = s.live /\ m.total = s.total /\ m.wrote = s.wrote /\ m.del = s.del /\ m.doomed = s.doomed
          /\ m.gone = s.gone \cup t.del
      BY ZenonT(30), <1>1, <2>3, <3>1, <3>2, PublishRecords
    <3>5. OwnOK(req[v], m)
      BY <2>3, <3>3, <3>4, OvertakenOwn, Zenon
    <3>6. \A b \in m.live : status'[b] # "unborn" /\ InRange(m.copy[b], m.total[b])
      BY Zenon, <1>3, <3>3, <3>4 DEF SeenOK, Transactions
    <3>7. m.view \subseteq loans' \cup m.gone \cup m.ins
      BY ZenonT(30), <1>3, <3>3, <3>4 DEF SeenOK
    <3>8. m.ins \cap t.ins = {} /\ m.del \cap t.del = {}
      BY <1>1, <2>3, <3>1, <3>4, SMTT(30), Zenon DEF IInv, Disjoint
    <3>9. m.del \subseteq loans'
      BY ZenonT(30), <1>3, <3>3, <3>4, <3>8 DEF SeenOK
    <3>10. ASSUME NEW p \in m.ins
           PROVE  p \notin loans' /\ status'[p[1]] = "live" /\ p[2] \in users
      <4>1. p[1] \in Books /\ p[1] \notin t.doomed
        BY <1>1, <2>3, <3>1, <3>4, <3>10, SMTT(30), Zenon DEF Transactions, Pairs
      <4>2. p \notin loans /\ status[p[1]] = "live" /\ p[2] \in users
        BY <3>3, <3>4, <3>10, Zenon DEF SeenOK
      <4>3. QED
        BY <1>3, <3>8, <3>10, <4>1, <4>2, SMTT(30), Zenon
    <3>11. SeenOK(tx[v])'
      BY Zenon, <1>3, <3>2, <3>6, <3>7, <3>9, <3>10 DEF SeenOK, InRange
    <3>12. QED
      BY ZenonT(30), <3>2, <3>3, <3>4, <3>5, <3>11
  <2>4. QED
    BY <2>1, <2>2, <2>3, Zenon
<1>10. QED
  BY <1>5, <1>6, <1>7, <1>8, <1>9, SMTT(30), Zenon DEF IInv

\* The commits of the three services keep the invariant.
LEMMA CommitInv ==
  ASSUME Counting, IInv, NEW w \in Workers, CommitBorrow(w) \/ CommitReturn(w) \/ CommitDelete(w)
  PROVE  IInv'
<1>1. OwnOK(req[w], tx[w])
  BY SMTT(30), Zenon DEF IInv
<1>2. CASE CommitBorrow(w) \/ CommitReturn(w)
  <2>1. req[w].pc = "loop" /\ req[w].op \in {"borrow", "return"} /\ Publish(w, "ok")
    BY <1>2, Zenon DEF CommitBorrow, CommitReturn, AtEnd, InLoop
  <2>2. tx[w].doomed = {}
    BY <1>1, <2>1, SMTT(30), Zenon DEF OwnOK
  <2>3. QED
    BY <2>1, <2>2, PublishInv, Zenon
<1>3. CASE CommitDelete(w)
  <2>1. CASE Rollback(w)
    BY <2>1, RollbackInv, SMTT(30), Zenon
  <2>2. CASE /\ \A b \in tx[w].doomed : ~Undeletable(b)
             /\ Publish(w, IF req[w].reply = "error" THEN "error" ELSE "ok")
    <3>1. req[w].pc = "loop" /\ req[w].op = "delete" /\ ~Blocked(w) /\ AtEnd(w, "delete")
      BY <1>3, Zenon DEF CommitDelete, AtEnd, InLoop
    <3>2. ASSUME NEW v \in Workers \ {w}, NEW p \in tx[v].ins
          PROVE  p[1] \notin tx[w].doomed
      <4>1. tx[w].doomed \cap BooksOf(tx[v].ins) = {}
        BY <3>1, Zenon DEF Blocked, Locked
      <4>2. p[1] \in BooksOf(tx[v].ins)
        BY <3>2, Zenon DEF BooksOf
      <4>3. QED
        BY <4>1, <4>2, SMTT(30), Zenon
    <3>3. PICK reply \in {"ok", "error"} : Publish(w, reply)
      BY <2>2, Zenon
    <3>4. QED
      BY <2>2, <3>1, <3>2, <3>3, PublishInv, ZenonT(30)
  <2>3. QED
    BY <1>3, <2>1, <2>2, Zenon DEF CommitDelete
<1>4. QED
  BY <1>2, <1>3, Zenon

\* A new book is in no open transaction.
LEMMA AddBookInv ==
  ASSUME IInv, NEW b \in Books, NEW n \in Totals, AddBook(b, n)
  PROVE  IInv'
<1>1. n \in Int
  BY TotalsAssumption, Zenon
<1>2. TypeOK'
  BY <1>1, Zenon DEF IInv, TypeOK, AddBook
<1>3. AvailInRange'
  BY <1>1 DEF IInv, TypeOK, AddBook, AvailInRange, InRange
<1>4. ASSUME NEW c \in Books, status[c] # "unborn"
      PROVE  status'[c] = status[c]
  BY <1>4, Zenon DEF IInv, TypeOK, AddBook
<1>5. NoOrphanLoans'
  BY <1>4, Zenon DEF IInv, TypeOK, AddBook, NoOrphanLoans, Pairs
<1>6. ASSUME NEW w \in Workers
      PROVE  SeenOK(tx[w])'
  <2>1. SeenOK(tx[w]) /\ tx'[w] = tx[w] /\ tx[w] \in Transactions
    BY Zenon DEF IInv, TypeOK, AddBook
  <2>2. PICK t \in Transactions : t = tx[w]
    BY <2>1, SMTT(30), Zenon
  <2>3. \A c \in t.live : status'[c] # "unborn" /\ InRange(t.copy[c], t.total[c])
    BY <1>4, <2>1, <2>2, SMTT(30), Zenon DEF SeenOK, Transactions
  <2>4. \A p \in t.ins : p \notin loans /\ status'[p[1]] = "live" /\ p[2] \in users
    BY <1>4, <2>1, <2>2, SMTT(30), Zenon DEF SeenOK, Transactions, Pairs
  <2>5. t.view \subseteq loans \cup t.gone \cup t.ins /\ t.del \subseteq loans
    BY <2>1, <2>2, Zenon DEF SeenOK
  <2>6. UNCHANGED <<loans, users>>
    BY Zenon DEF AddBook
  <2>7. QED
    BY <2>1, <2>2, <2>3, <2>4, <2>5, <2>6, Zenon DEF SeenOK, InRange
<1>7. \A w \in Workers : ReqOK(req'[w]) /\ OwnOK(req'[w], tx'[w])
  BY Zenon DEF IInv, AddBook
<1>8. Disjoint'
  BY Zenon DEF IInv, AddBook, Disjoint
<1>9. QED
  BY <1>2, <1>3, <1>5, <1>6, <1>7, <1>8, Zenon DEF IInv

\* The row the add page replaces has all its copies on the shelf, and what open
\* transactions have read is theirs.
LEMMA ReplaceBookInv ==
  ASSUME IInv, NEW b \in Books, NEW n \in Totals, ReplaceBook(b, n)
  PROVE  IInv'
<1>1. n \in Int
  BY TotalsAssumption, Zenon
<1>2. /\ total' = [total EXCEPT ![b] = n] /\ avail' = [avail EXCEPT ![b] = n]
      /\ tainted' = tainted \cup ({b} \cap BooksOf(loans))
      /\ UNCHANGED <<status, inv, users, loans, req, tx>>
  BY Zenon DEF ReplaceBook
<1>3. TypeOK'
  BY <1>1, <1>2, Zenon DEF IInv, TypeOK
<1>4. AvailInRange'
  <2>1. SUFFICES ASSUME NEW c \in Books
                 PROVE  InRange(avail'[c], total'[c])
    BY Zenon DEF AvailInRange, InRange
  <2>2. CASE c = b
    <3>1. avail'[c] = n /\ total'[c] = n
      BY <1>2, <2>2, Zenon DEF IInv, TypeOK
    <3>2. QED
      BY <1>1, <3>1 DEF InRange
  <2>3. CASE c # b
    <3>1. avail'[c] = avail[c] /\ total'[c] = total[c]
      BY <1>2, <2>3, Zenon DEF IInv, TypeOK
    <3>2. QED
      BY <3>1, Zenon DEF IInv, AvailInRange
  <2>4. QED
    BY <2>2, <2>3, Zenon
<1>5. NoOrphanLoans' /\ Disjoint'
  BY <1>2, Zenon DEF IInv, NoOrphanLoans, Disjoint
<1>6. \A w \in Workers : ReqOK(req'[w]) /\ OwnOK(req'[w], tx'[w])
  BY <1>2, Zenon DEF IInv
<1>7. \A w \in Workers : SeenOK(tx[w])'
  BY <1>2, Zenon DEF IInv, SeenOK, InRange
<1>8. QED
  BY <1>3, <1>4, <1>5, <1>6, <1>7, Zenon DEF IInv

\* A deleted user has no loan, committed or not.
LEMMA DeleteUserInv ==
  ASSUME IInv, NEW u \in Users, DeleteUser(u)
  PROVE  IInv'
<1>1. TypeOK' /\ AvailInRange' /\ Disjoint'
  BY Zenon DEF IInv, TypeOK, AvailInRange, InRange, Disjoint, DeleteUser
<1>2. NoOrphanLoans'
  BY ZenonT(30) DEF IInv, NoOrphanLoans, DeleteUser
<1>3. ASSUME NEW w \in Workers
      PROVE  SeenOK(tx[w])'
  <2>1. PICK t : t = tx[w]
    BY Zenon
  <2>2. SeenOK(t)
    BY <2>1, Zenon DEF IInv
  <2>3. \A p \in t.ins : p[2] # u
    BY <2>1, Zenon DEF DeleteUser
  <2>4. UNCHANGED <<status, total, loans, tx>> /\ users' = users \ {u}
    BY Zenon DEF DeleteUser
  <2>5. QED
    BY <2>1, <2>2, <2>3, <2>4, Zenon DEF SeenOK, InRange
<1>4. \A w \in Workers : ReqOK(req'[w]) /\ OwnOK(req'[w], tx'[w])
  BY Zenon DEF IInv, DeleteUser
<1>5. QED
  BY <1>1, <1>2, <1>3, <1>4, SMTT(30), Zenon DEF IInv

\* The empty library satisfies the invariant.
LEMMA InitInv == ASSUME Counting PROVE Init => IInv
<1> SUFFICES ASSUME Init PROVE IInv
  BY Zenon
<1>1. TypeOK
  <2>1. /\ status \in [Books -> {"unborn", "live", "deleted"}]
        /\ total \in [Books -> Int] /\ avail \in [Books -> Int]
        /\ inv \in [Books -> {"none", "BORROWED", "AVAILABLE"}]
        /\ users \in SUBSET Users /\ loans \in SUBSET Pairs /\ tainted \in SUBSET Books
    <3>1. /\ status \in [Books -> {"unborn", "live"}] /\ total \in [Books -> Totals \cup {0}]
          /\ inv \in [Books -> InvRows \cup {"none"}] /\ avail = total
          /\ users = Users /\ loans = {} /\ tainted = {}
      BY Zenon DEF Init
    <3>2. /\ Totals \cup {0} \subseteq Int
          /\ InvRows \cup {"none"} \subseteq {"none", "BORROWED", "AVAILABLE"}
      BY TotalsAssumption, InvRowsAssumption
    <3>3. total \in [Books -> Int]
      BY <3>1, <3>2, Zenon
    <3>4. inv \in [Books -> {"none", "BORROWED", "AVAILABLE"}]
      BY <3>1, <3>2, Zenon
    <3>5. QED
      BY <3>1, <3>3, <3>4, Zenon
  <2>2. req \in [Workers -> Requests] /\ tx \in [Workers -> Transactions]
    BY IdleType, NoTxType, Zenon DEF Init
  <2>3. QED
    BY <2>1, <2>2, Zenon DEF TypeOK
<1>2. AvailInRange
  BY <1>1 DEF Init, AvailInRange, InRange, TypeOK
<1>3. NoOrphanLoans
  BY Zenon DEF Init, NoOrphanLoans
<1>4. Disjoint
  BY NoTxFields, Zenon DEF Init, Disjoint
<1>5. \A w \in Workers : ReqOK(req[w]) /\ OwnOK(req[w], tx[w]) /\ SeenOK(tx[w])
  BY EmptyTx, Zenon DEF Init
<1>6. QED
  BY <1>1, <1>2, <1>3, <1>4, <1>5, Zenon DEF IInv

\* IInv is inductive: one step per action of Circulation.
LEMMA NextInv ==
  ASSUME Counting, IInv, [Next]_vars
  PROVE  IInv'
<1>1. ASSUME NEW w \in Workers, Submit(w)
      PROVE  IInv'
  BY <1>1, SubmitInv, Zenon
<1>2. ASSUME NEW w \in Workers, Serve(w)
      PROVE  IInv'
  <2>1. CASE CheckAvailable(w)
    BY <2>1, CheckAvailableInv, Zenon
  <2>2. CASE BeginBorrow(w) \/ Begin(w)
    BY <2>2, BeginInv, Zenon
  <2>3. CASE BorrowBook(w)
    BY <2>3, BorrowBookInv, Zenon
  <2>4. CASE ReturnBook(w)
    BY <2>4, ReturnBookInv, Zenon
  <2>5. CASE FlushReturn(w)
    BY <2>5, FlushReturnInv, Zenon
  <2>6. CASE DeleteBook(w)
    BY <2>6, DeleteBookInv, Zenon
  <2>7. CASE CommitBorrow(w) \/ CommitReturn(w) \/ CommitDelete(w)
    BY <2>7, CommitInv, Zenon
  <2>8. CASE LockWaitAbort(w)
    BY <2>8, RollbackInv, Zenon DEF LockWaitAbort
  <2>9. QED
    BY <1>2, <2>1, <2>2, <2>3, <2>4, <2>5, <2>6, <2>7, <2>8, Zenon DEF Serve
<1>3. ASSUME NEW w \in Workers, ConnectionLost(w)
      PROVE  IInv'
  BY <1>3, RollbackInv, Zenon DEF ConnectionLost
<1>4. ASSUME NEW b \in Books, NEW n \in Totals, AddBook(b, n)
      PROVE  IInv'
  BY <1>4, AddBookInv, Zenon
<1>5. ASSUME NEW u \in Users, DeleteUser(u)
      PROVE  IInv'
  BY <1>5, DeleteUserInv, Zenon
<1>6. ASSUME NEW b \in Books, NEW n \in Totals, ReplaceBook(b, n)
      PROVE  IInv'
  BY <1>6, ReplaceBookInv, Zenon
<1>7. CASE UNCHANGED vars
  <2>1. TypeOK' /\ AvailInRange' /\ NoOrphanLoans' /\ Disjoint'
    BY <1>7, Zenon DEF IInv, vars, TypeOK, AvailInRange, InRange, NoOrphanLoans, Disjoint
  <2>2. \A w \in Workers : ReqOK(req'[w]) /\ OwnOK(req'[w], tx'[w])
    BY ZenonT(30), <1>7 DEF IInv, vars
  <2>3. \A w \in Workers : SeenOK(tx[w])'
    BY <1>7, Zenon DEF IInv, vars, SeenOK, InRange
  <2>4. QED
    BY <2>1, <2>2, <2>3, SMTT(30), Zenon DEF IInv
<1>8. QED
  BY <1>1, <1>2, <1>3, <1>4, <1>5, <1>6, <1>7, Zenon DEF Next

-----------------------------------------------------------------------------
(* A step of a worker is quiet or a commit, and a step of the loan register. *)

\* A step of a worker is quiet or the commit of its request.
LEMMA QuietOrCommit ==
  ASSUME Counting, IInv, NEW w \in Workers, Submit(w) \/ Serve(w) \/ ConnectionLost(w)
  PROVE  \/ Quiet(w)
         \/ CommitBorrow(w) \/ CommitReturn(w)
         \/ /\ AtEnd(w, "delete") /\ ~Blocked(w)
            /\ \A b \in tx[w].doomed : ~Undeletable(b)
            /\ \E reply \in {"ok", "error"} : Publish(w, reply)
<1>1. PICK r \in Requests : r = req[w]
  BY Zenon DEF IInv, TypeOK
<1>2. /\ Idle("error") # Idle("ok") /\ Idle("ok").pc = "idle"
      /\ Advance(r).pc = r.pc /\ Looping(r).pc = "loop" /\ Throwing(r).pc = r.pc
  BY AdvanceFacts, LoopingFacts, ThrowingFacts, Zenon DEF Idle
<1>3. CASE Rollback(w)
  BY Zenon, <1>2, <1>3 DEF Rollback, Quiet, tables
<1>4. CASE Submit(w)
  <2>1. UNCHANGED tables
    BY <1>4, Zenon DEF Submit, SubmitBorrow, SubmitReturn, SubmitDelete
  <2>2. PICK n \in Requests : req' = [req EXCEPT ![w] = n] /\ n.reply # "ok"
    BY <1>4, SubmitStarts, Zenon DEF IInv
  <2>3. n # Idle("ok")
    BY <2>2 DEF Idle
  <2>4. QED
    BY Zenon, <2>1, <2>2, <2>3 DEF Quiet
<1>5. CASE CheckAvailable(w)
  <2>1. [r EXCEPT !.pc = "begin", !.i = 1].pc = "begin"
    BY Zenon DEF Requests
  <2>2. [r EXCEPT !.pc = "begin", !.i = 1] # Idle("ok") /\ Advance(r) # Idle("ok")
    BY Zenon, <1>1, <1>2, <1>5, <2>1 DEF CheckAvailable
  <2>3. UNCHANGED tables
    BY <1>5, Zenon DEF CheckAvailable
  <2>4. \/ req' = [req EXCEPT ![w] = Idle("error")]
        \/ req' = [req EXCEPT ![w] = Advance(r)]
        \/ req' = [req EXCEPT ![w] = [r EXCEPT !.pc = "begin", !.i = 1]]
    BY <1>1, <1>5, Zenon DEF CheckAvailable
  <2>5. QED
    BY <1>2, <2>2, <2>3, <2>4, Zenon DEF Quiet
<1>6. CASE BeginBorrow(w) \/ Begin(w)
  <2>1. Looping(r) # Idle("ok")
    BY <1>2, Zenon
  <2>2. QED
    BY <1>1, <1>2, <1>6, <2>1, Zenon DEF BeginBorrow, Begin, Quiet
<1>7. CASE BorrowBook(w)
  <2>1. Advance(r) # Idle("ok")
    BY <1>1, <1>2, <1>7, Zenon DEF BorrowBook, InLoop
  <2>2. QED
    BY <1>1, <1>3, <1>7, <2>1, Zenon DEF BorrowBook, Quiet
<1>8. CASE ReturnBook(w)
  <2>1. [r EXCEPT !.pc = "flush"].pc = "flush"
    BY Zenon DEF Requests
  <2>2. [r EXCEPT !.pc = "flush"] # Idle("ok") /\ Advance(r) # Idle("ok")
    BY Zenon, <1>1, <1>2, <1>8, <2>1 DEF ReturnBook, InLoop
  <2>3. UNCHANGED tables
    BY <1>8, Zenon DEF ReturnBook
  <2>4. \/ req' = [req EXCEPT ![w] = Advance(r)]
        \/ req' = [req EXCEPT ![w] = [r EXCEPT !.pc = "flush"]]
    BY <1>1, <1>8, Zenon DEF ReturnBook
  <2>5. QED
    BY <2>2, <2>3, <2>4, Zenon DEF Quiet
<1>9. CASE FlushReturn(w)
  <2>1. Looping(Advance(r)) # Idle("ok")
    BY <1>2, AdvanceFacts, LoopingFacts, Zenon
  <2>2. QED
    BY <1>1, <1>3, <1>9, <2>1, Zenon DEF FlushReturn, Quiet
<1>10. CASE DeleteBook(w)
  <2>1. Throwing(r) # Idle("ok") /\ Advance(r) # Idle("ok")
    BY <1>1, <1>2, <1>10, Zenon DEF DeleteBook, InLoop
  <2>2. QED
    BY <1>1, <1>10, <2>1, Zenon DEF DeleteBook, Quiet
<1>11. CASE CommitDelete(w)
  BY <1>3, <1>11, Zenon DEF CommitDelete
<1>12. CASE LockWaitAbort(w) \/ ConnectionLost(w)
  BY <1>3, <1>12, Zenon DEF LockWaitAbort, ConnectionLost
<1>13. QED
  BY <1>4, <1>5, <1>6, <1>7, <1>8, <1>9, <1>10, <1>11, <1>12, Zenon DEF Serve

\* The commit of a borrow adds exactly the loans it inserted.
LEMMA CommitBorrowEffect ==
  ASSUME IInv, NEW w \in Workers, CommitBorrow(w)
  PROVE  /\ loans' = loans \cup tx[w].ins /\ status' = status /\ users' = users
         /\ Lending(req[w], tx[w]) /\ SeenOK(tx[w])
         /\ req[w].op = "borrow" /\ req[w].pc = "loop" /\ req[w].i = Len(req[w].bookIds) + 1
<1>1. /\ OwnOK(req[w], tx[w]) /\ SeenOK(tx[w]) /\ ReqOK(req[w]) /\ req[w] \in Requests
      /\ status \in [Books -> {"unborn", "live", "deleted"}]
  BY Zenon DEF IInv, TypeOK
<1>2. req[w].op = "borrow" /\ req[w].pc = "loop" /\ ~More(w) /\ Publish(w, "ok")
  BY Zenon DEF CommitBorrow, AtEnd, InLoop
<1>3. tx[w].del = {} /\ tx[w].doomed = {} /\ Lending(req[w], tx[w])
  BY <1>1, <1>2, Zenon DEF OwnOK
<1>4. loans' = loans \cup tx[w].ins /\ users' = users
  BY <1>2, <1>3, Zenon DEF Publish
<1>5. status' = status
  BY <1>1, <1>2, <1>3, Zenon DEF Publish
<1>6. req[w].i = Len(req[w].bookIds) + 1
  BY <1>1, <1>2 DEF ReqOK, More, Requests
<1>7. QED
  BY <1>1, <1>2, <1>3, <1>4, <1>5, <1>6, Zenon

\* A step that changes neither books, users nor loans is no step of the register.
LEMMA QuietStutters ==
  ASSUME UNCHANGED <<status, users, loans>>
  PROVE  UNCHANGED Register!registerVars
  BY Zenon DEF Register!registerVars, LiveBooks

\* The commit of a borrow is one Lend of all its books to its user.
LEMMA CommitBorrowLends ==
  ASSUME Counting, IInv, NEW w \in Workers, CommitBorrow(w)
  PROVE  [Register!RegisterNext]_(Register!registerVars)
<1>1. PICK r \in Requests, t \in Transactions : r = req[w] /\ t = tx[w]
  BY Zenon DEF IInv, TypeOK
<1>2. /\ loans' = loans \cup t.ins /\ status' = status /\ users' = users
      /\ Lending(r, t) /\ SeenOK(t) /\ ReqOK(r)
      /\ r.op = "borrow" /\ r.pc = "loop" /\ r.i = Len(r.bookIds) + 1
  BY <1>1, CommitBorrowEffect, Zenon DEF IInv
<1>3. CASE t.ins = {}
  BY <1>2, <1>3, QuietStutters, Zenon
<1>4. CASE t.ins # {}
  <2> DEFINE u == r.userIds[1]
             S == BooksOf(t.ins)
  <2>1. PICK q \in t.ins : TRUE
    BY <1>4, Zenon
  <2>2. \A p \in t.ins : p \in Books \X Users /\ p[2] = u
    BY <1>2, Zenon DEF Lending, Transactions, Pairs
  <2>3. u \in users
    BY <1>2, <2>1, <2>2, Zenon DEF SeenOK
  <2>4. S \in SUBSET LiveBooks
    BY <1>2, <2>2 DEF SeenOK, BooksOf, LiveBooks
  <2>5. Cardinality(S) <= BorrowLimit
    <3>1. IsFiniteSet(S) /\ Cardinality(S) < r.i /\ Cardinality(S) \in Nat
      BY <1>2, Zenon DEF Lending, Counting
    <3>2. Len(r.bookIds) <= BorrowLimit /\ Len(r.bookIds) \in Nat
      BY <1>2 DEF ReqOK, Requests
    <3>3. QED
      BY <1>2, <3>1, <3>2 DEF BorrowLimit
  <2>6. t.ins = S \X {u}
    <3>1. t.ins \subseteq S \X {u}
      BY <2>2, Zenon DEF BooksOf
    <3>2. ASSUME NEW b \in S
          PROVE  <<b, u>> \in t.ins
      <4>1. PICK p \in t.ins : b = p[1]
        BY <3>2, Zenon DEF BooksOf
      <4>2. p = <<b, u>>
        BY <2>2, <4>1
      <4>3. QED
        BY <4>1, <4>2, Zenon
    <3>3. QED
      BY <3>1, <3>2
  <2>7. \A b \in S : <<b, u>> \notin loans
    BY <1>2, <2>6, Zenon DEF SeenOK
  <2>8. LiveBooks' = LiveBooks
        /\ {b \in Books : status'[b] = "deleted"} = {b \in Books : status[b] = "deleted"}
    BY <1>2, Zenon DEF LiveBooks
  <2> HIDE DEF S, u
  <2>9. S \in {T \in SUBSET Books : Cardinality(T) <= BorrowLimit}
    BY <2>4, <2>5, Zenon DEF LiveBooks
  <2>10. Register!Lend(u, S)
    BY <1>2, <2>6, <2>7, <2>8, <2>9, Zenon DEF Register!Lend
  <2>11. \E v \in users, T \in SUBSET LiveBooks : Register!Lend(v, T)
    BY <2>3, <2>4, <2>10, Zenon
  <2>12. QED
    BY <2>11, Zenon DEF Register!RegisterNext
<1>5. QED
  BY <1>3, <1>4, Zenon

\* The commit of a return takes back loans that are in the register.
LEMMA CommitReturnTakesBack ==
  ASSUME IInv, NEW w \in Workers, CommitReturn(w)
  PROVE  Register!RegisterNext
<1>1. PICK t \in Transactions : t = tx[w]
  BY Zenon DEF IInv, TypeOK
<1>2. /\ OwnOK(req[w], t) /\ SeenOK(t) /\ status \in [Books -> {"unborn", "live", "deleted"}]
      /\ req[w].op = "return" /\ Publish(w, "ok")
  BY <1>1, Zenon DEF IInv, TypeOK, CommitReturn, AtEnd, InLoop
<1>3. t.ins = {} /\ t.doomed = {} /\ t.del \in SUBSET loans
  BY <1>2, Zenon DEF OwnOK, SeenOK
<1>4. loans' = loans \ t.del /\ users' = users
  BY <1>1, <1>2, <1>3, Zenon DEF Publish
<1>5. status' = status
  BY <1>1, <1>2, <1>3, Zenon DEF Publish
<1>6. LiveBooks' = LiveBooks
      /\ {b \in Books : status'[b] = "deleted"} = {b \in Books : status[b] = "deleted"}
  BY <1>5, Zenon DEF LiveBooks
<1>7. Register!TakeBack(t.del)
  BY <1>4, <1>6, Zenon DEF Register!TakeBack
<1>8. QED
  BY <1>3, <1>7, Zenon DEF Register!RegisterNext

\* The commit of a deletion withdraws books nobody holds.
LEMMA CommitDeleteWithdraws ==
  ASSUME IInv, NEW w \in Workers, AtEnd(w, "delete"),
         \A b \in tx[w].doomed : ~Undeletable(b),
         NEW reply \in {"ok", "error"}, Publish(w, reply)
  PROVE  Register!RegisterNext
<1>1. PICK t \in Transactions : t = tx[w]
  BY Zenon DEF IInv, TypeOK
<1>2. OwnOK(req[w], t) /\ req[w].op = "delete" /\ loans \in SUBSET Pairs
  BY <1>1, Zenon DEF IInv, TypeOK, AtEnd, InLoop
<1>3. t.ins = {} /\ t.del = {} /\ t.doomed \in SUBSET Books
  BY <1>2, Zenon DEF OwnOK, Transactions
<1>4. /\ loans' = loans /\ users' = users
      /\ status' = [b \in Books |-> IF b \in t.doomed THEN "deleted" ELSE status[b]]
  BY <1>1, <1>3, Zenon DEF Publish
<1>5. \A b \in t.doomed : status[b] = "live" /\ b \notin BooksOf(loans)
  BY <1>1, Zenon DEF Undeletable
<1>6. t.doomed \in SUBSET LiveBooks
  BY <1>3, <1>5, Zenon DEF LiveBooks
<1>7. \A p \in loans : p[1] \notin t.doomed
  BY <1>5, Zenon DEF BooksOf
<1>8. LiveBooks' = LiveBooks \ t.doomed
  BY <1>4, Zenon DEF LiveBooks
<1>9. {b \in Books : status'[b] = "deleted"} = {b \in Books : status[b] = "deleted"} \cup t.doomed
  BY <1>3, <1>4, Zenon
<1>10. Register!Withdraw(t.doomed)
  BY <1>4, <1>7, <1>8, <1>9, Zenon DEF Register!Withdraw
<1>11. QED
  BY <1>6, <1>10, Zenon DEF Register!RegisterNext

\* A new row is a book the register acquires.
LEMMA AddBookAcquires ==
  ASSUME IInv, NEW b \in Books, NEW n, AddBook(b, n)
  PROVE  Register!RegisterNext
<1>1. /\ status \in [Books -> {"unborn", "live", "deleted"}] /\ status[b] = "unborn"
      /\ status' = [status EXCEPT ![b] = "live"] /\ users' = users /\ loans' = loans
  BY Zenon DEF IInv, TypeOK, AddBook
<1>2. b \notin LiveBooks \cup {c \in Books : status[c] = "deleted"}
  BY <1>1, Zenon DEF LiveBooks
<1>3. LiveBooks' = LiveBooks \cup {b}
  BY <1>1, Zenon DEF LiveBooks
<1>4. {c \in Books : status'[c] = "deleted"} = {c \in Books : status[c] = "deleted"}
  BY <1>1, Zenon
<1>5. Register!Acquire(b)
  BY <1>1, <1>2, <1>3, <1>4, Zenon DEF Register!Acquire
<1>6. QED
  BY <1>5, Zenon DEF Register!RegisterNext

\* A deleted user without loans leaves the register.
LEMMA DeleteUserLeaves ==
  ASSUME NEW u \in Users, DeleteUser(u)
  PROVE  Register!RegisterNext
<1>1. /\ u \in users /\ \A p \in loans : p[2] # u
      /\ users' = users \ {u} /\ status' = status /\ loans' = loans
  BY Zenon DEF DeleteUser
<1>2. LiveBooks' = LiveBooks
      /\ {b \in Books : status'[b] = "deleted"} = {b \in Books : status[b] = "deleted"}
  BY <1>1, Zenon DEF LiveBooks
<1>3. Register!Leave(u)
  BY <1>1, <1>2, Zenon DEF Register!Leave
<1>4. QED
  BY <1>1, <1>3, Zenon DEF Register!RegisterNext

-----------------------------------------------------------------------------
(* The balance of copies and loans.                                        *)

\* The loans of one book can be counted.
LEMMA OfBookType ==
  ASSUME Counting, NEW S \in SUBSET Pairs, NEW b
  PROVE  OfBook(S, b) \in SUBSET Pairs /\ Cardinality(OfBook(S, b)) \in Nat
<1>1. OfBook(S, b) \in SUBSET Pairs
  BY Zenon DEF OfBook
<1>2. QED
  BY <1>1, Zenon DEF Counting

\* One loan more.
LEMMA OfBookAdd ==
  ASSUME Counting, NEW S \in SUBSET Pairs, NEW p \in Pairs, p \notin S, NEW b
  PROVE  Cardinality(OfBook(S \cup {p}, b)) =
           IF p[1] = b THEN Cardinality(OfBook(S, b)) + 1 ELSE Cardinality(OfBook(S, b))
<1>1. CASE p[1] = b
  <2>1. OfBook(S \cup {p}, b) = OfBook(S, b) \cup {p} /\ p \notin OfBook(S, b)
    BY <1>1, Zenon DEF OfBook
  <2>2. IsFiniteSet(OfBook(S, b))
    BY OfBookType, Zenon DEF Counting
  <2>3. Cardinality(OfBook(S, b) \cup {p}) = Cardinality(OfBook(S, b)) + 1
    BY Zenon, <2>1, <2>2 DEF Counting
  <2>4. QED
    BY <1>1, <2>1, <2>3, Zenon
<1>2. CASE p[1] # b
  <2>1. OfBook(S \cup {p}, b) = OfBook(S, b)
    BY <1>2, Zenon DEF OfBook
  <2>2. QED
    BY <1>2, <2>1, Zenon
<1>3. QED
  BY <1>1, <1>2, Zenon

\* One loan less.
LEMMA OfBookRemove ==
  ASSUME Counting, NEW S \in SUBSET Pairs, NEW p \in S, NEW b
  PROVE  Cardinality(OfBook(S \ {p}, b)) =
           IF p[1] = b THEN Cardinality(OfBook(S, b)) - 1 ELSE Cardinality(OfBook(S, b))
<1> DEFINE R == S \ {p}
<1>1. R \in SUBSET Pairs /\ p \in Pairs /\ p \notin R /\ R \cup {p} = S
  BY Zenon
<1>2. Cardinality(OfBook(R, b)) \in Nat
  BY <1>1, OfBookType, Zenon
<1> HIDE DEF R
<1>3. Cardinality(OfBook(R \cup {p}, b)) =
        IF p[1] = b THEN Cardinality(OfBook(R, b)) + 1 ELSE Cardinality(OfBook(R, b))
  BY <1>1, OfBookAdd, Zenon
<1>4. Cardinality(OfBook(S, b)) =
        IF p[1] = b THEN Cardinality(OfBook(R, b)) + 1 ELSE Cardinality(OfBook(R, b))
  BY <1>1, <1>3, Zenon
<1>5. QED
  BY <1>2, <1>4 DEF R

\* The loans a transaction counts depend on its phase and its view only.
LEMMA HeldFacts ==
  ASSUME NEW r, NEW t, NEW b
  PROVE  Held(r, t, b) = IF r.pc = "flush"
                         THEN OfBook(t.view \ {<<r.bookIds[r.i], r.userIds[r.i]>>}, b)
                         ELSE OfBook(t.view, b)
  BY Zenon DEF Held

\* A step of worker w that changes no table.
LEMMA LocalBalance ==
  ASSUME BalanceInv, NEW w \in Workers, NEW r, NEW t,
         UNCHANGED <<tables, tainted>>,
         req' = [req EXCEPT ![w] = r], tx' = [tx EXCEPT ![w] = t],
         BalanceOK(r, t, tainted, loans)
  PROVE  Balanced'
<1>1. /\ req'[w] = r /\ tx'[w] = t
      /\ \A v \in Workers \ {w} : req'[v] = req[v] /\ tx'[v] = tx[v]
  BY Zenon DEF BalanceInv, IInv, TypeOK
<1>2. ASSUME NEW v \in Workers
      PROVE  BalanceOK(req'[v], tx'[v], tainted, loans)
  BY <1>1, Zenon DEF BalanceInv, Balanced
<1>3. DriftOnlyFromOverwrite'
  <2>1. LiveBooks' = LiveBooks /\ \A b : Lent(b)' = Lent(b)
    BY Zenon DEF LiveBooks, Lent, tables
  <2>2. QED
    BY <2>1, Zenon DEF BalanceInv, Balanced, DriftOnlyFromOverwrite, tables
<1>4. QED
  BY <1>2, <1>3, Zenon DEF Balanced, tables

\* A worker without a transaction has nothing to balance.
LEMMA EmptyBalance ==
  ASSUME NEW r, r.pc # "flush", NEW taint, NEW lent
  PROVE  BalanceOK(r, NoTx, taint, lent)
  BY NoTxFields, Zenon DEF BalanceOK

\* An aborted request leaves copies and loans balanced.
LEMMA RollbackBalance ==
  ASSUME BalanceInv, NEW w \in Workers, Rollback(w)
  PROVE  Balanced'
<1>1. Idle("error").pc # "flush"
  BY Zenon DEF Idle
<1>2. QED
  BY Zenon, <1>1, EmptyBalance, LocalBalance DEF Rollback, tables

\* The first SELECT finds the tables balanced.
LEMMA SnapshotBalance ==
  ASSUME BalanceInv, NEW r, r.pc # "flush"
  PROVE  BalanceOK(r, Snapshot, tainted, loans)
<1>1. PICK t : t = Snapshot
  BY Zenon
<1>2. /\ t.live = LiveBooks /\ t.copy = avail /\ t.total = total /\ t.view = loans
      /\ t.ins = {} /\ t.del = {}
  BY <1>1, Zenon DEF Snapshot, NoTx
<1>3. ASSUME NEW b \in t.live \ tainted
      PROVE  /\ t.copy[b] + Cardinality(Held(r, t, b)) = t.total[b]
             /\ OfBook(t.view, b) = OfBook((loans \ t.del) \cup t.ins, b)
  <2>1. Held(r, t, b) = OfBook(loans, b)
    BY Zenon, <1>2, HeldFacts
  <2>2. Cardinality(OfBook(loans, b)) = Lent(b)
    BY Zenon DEF OfBook, Lent
  <2>3. avail[b] + Lent(b) = total[b]
    BY <1>2, <1>3, Zenon DEF BalanceInv, Balanced, DriftOnlyFromOverwrite
  <2>4. (loans \ t.del) \cup t.ins = loans
    BY <1>2, Zenon
  <2>5. QED
    BY <1>2, <2>1, <2>2, <2>3, <2>4, Zenon
<1>4. BalanceOK(r, t, tainted, loans)
  BY <1>2, <1>3, Zenon DEF BalanceOK
<1>5. QED
  BY <1>1, <1>4, Zenon

\* A borrow moves one copy from the shelf to the loans.
LEMMA BorrowingBalance ==
  ASSUME Counting, TypeOK, NEW r, NEW t \in Transactions, NEW c \in Books, NEW u \in Users, NEW n,
         r.pc # "flush", n.pc # "flush", <<c, u>> \notin t.view,
         BalanceOK(r, t, tainted, loans)
  PROVE  BalanceOK(n, Borrowing(t, c, u), tainted, loans)
<1>1. PICK m : m = Borrowing(t, c, u)
  BY Zenon
<1>2. PICK p \in Pairs : p = <<c, u>>
  BY Zenon DEF Pairs
<1>3. /\ m.ins = t.ins \cup {<<c, u>>} /\ m.view = t.view \cup {<<c, u>>}
      /\ m.copy = [t.copy EXCEPT ![c] = t.copy[c] - 1] /\ m.dirty = t.dirty \cup {c}
      /\ m.live = t.live /\ m.total = t.total /\ m.wrote = t.wrote /\ m.del = t.del /\ m.stale = t.stale
  BY <1>1, BorrowingFacts
<1>4. ASSUME NEW b \in m.live \ tainted
      PROVE  /\ m.copy[b] + Cardinality(Held(n, m, b)) = m.total[b]
             /\ b \notin m.stale =>
                  OfBook(m.view, b) = OfBook((loans \ m.del) \cup m.ins, b)
  <2>1. /\ t.copy[b] + Cardinality(Held(r, t, b)) = t.total[b]
        /\ b \notin t.stale => OfBook(t.view, b) = OfBook((loans \ t.del) \cup t.ins, b)
    BY Zenon, <1>3, <1>4 DEF BalanceOK
  <2>2. Held(n, m, b) = OfBook(t.view \cup {p}, b) /\ Held(r, t, b) = OfBook(t.view, b)
    BY Zenon, <1>2, <1>3, HeldFacts
  <2>3. t.view \in SUBSET Pairs /\ p \notin t.view /\ b \in Books
    BY <1>2, <1>3, <1>4, Zenon DEF Transactions
  <2>4. Cardinality(OfBook(t.view \cup {p}, b)) =
          IF p[1] = b THEN Cardinality(OfBook(t.view, b)) + 1
          ELSE Cardinality(OfBook(t.view, b))
    BY <2>3, OfBookAdd, Zenon
  <2>5. Cardinality(OfBook(t.view, b)) \in Nat
    BY <2>3, OfBookType, Zenon
  <2>6. /\ m.copy[b] = (IF c = b THEN t.copy[b] - 1 ELSE t.copy[b])
        /\ t.copy[b] \in Int /\ t.total[b] \in Int
    BY <1>3, <2>3 DEF Transactions
  <2>7. p[1] = c
    BY <1>2, Zenon
  <2>8. m.copy[b] + Cardinality(Held(n, m, b)) = t.total[b]
    BY <2>1, <2>2, <2>4, <2>5, <2>6, <2>7
  <2>9. ASSUME b \notin m.stale
        PROVE  OfBook(m.view, b) = OfBook((loans \ m.del) \cup m.ins, b)
    BY <1>3, <2>1, <2>9, Zenon DEF OfBook
  <2>10. QED
    BY <1>3, <2>8, <2>9, Zenon
<1>5. /\ \A q \in m.ins : q[1] \in m.dirty
      /\ \A q \in m.del : q[1] \in m.wrote \cup tainted
  BY <1>3 DEF BalanceOK
<1>6. BalanceOK(n, m, tainted, loans)
  BY Zenon, <1>4, <1>5 DEF BalanceOK
<1>7. QED
  BY <1>1, <1>6, Zenon

\* A loan that is still in the view leaves a copy off the shelf, so the guard
\* of the return lets the copy back.
LEMMA ReturningBalance ==
  ASSUME Counting, TypeOK, NEW r, NEW t \in Transactions, NEW c \in Books, NEW u \in Users, NEW n,
         r.pc # "flush", n.pc = "flush", n.bookIds[n.i] = c, n.userIds[n.i] = u,
         <<c, u>> \in t.view, c \in t.live,
         BalanceOK(r, t, tainted, loans)
  PROVE  BalanceOK(n, Returning(t, c), tainted, loans)
<1>1. PICK m : m = Returning(t, c)
  BY Zenon
<1>2. PICK p \in t.view : p = <<c, u>> /\ p[1] = c
  BY Zenon
<1>3. /\ IF t.copy[c] < t.total[c]
         THEN m.copy = [t.copy EXCEPT ![c] = t.copy[c] + 1] /\ m.dirty = t.dirty \cup {c}
         ELSE m.copy = t.copy /\ m.dirty = t.dirty
      /\ m.ins = t.ins /\ m.view = t.view /\ m.stale = t.stale
      /\ m.live = t.live /\ m.total = t.total /\ m.wrote = t.wrote /\ m.del = t.del
  BY ZenonT(30), <1>1, ReturningFacts DEF TypeOK
<1>4. t.view \in SUBSET Pairs
  BY Zenon DEF Transactions
<1>5. ASSUME NEW b \in Books
      PROVE  /\ Held(n, m, b) = OfBook(t.view \ {p}, b) /\ Held(r, t, b) = OfBook(t.view, b)
             /\ Cardinality(OfBook(t.view \ {p}, b)) =
                  (IF c = b THEN Cardinality(OfBook(t.view, b)) - 1
                   ELSE Cardinality(OfBook(t.view, b)))
             /\ Cardinality(OfBook(t.view, b)) \in Nat
             /\ Cardinality(OfBook(t.view \ {p}, b)) \in Nat
  <2>1. Held(n, m, b) = OfBook(t.view \ {p}, b) /\ Held(r, t, b) = OfBook(t.view, b)
    BY Zenon, <1>2, <1>3, HeldFacts
  <2>2. t.view \ {p} \in SUBSET Pairs
    BY <1>4, Zenon
  <2>3. Cardinality(OfBook(t.view \ {p}, b)) =
          IF p[1] = b THEN Cardinality(OfBook(t.view, b)) - 1
          ELSE Cardinality(OfBook(t.view, b))
    BY <1>4, OfBookRemove, Zenon
  <2>4. /\ Cardinality(OfBook(t.view, b)) \in Nat
        /\ Cardinality(OfBook(t.view \ {p}, b)) \in Nat
    BY <1>4, <2>2, OfBookType, Zenon
  <2>5. p[1] = c
    BY <1>2, Zenon
  <2>6. QED
    BY <2>1, <2>3, <2>4, <2>5, Zenon
<1>6. c \notin tainted => t.copy[c] < t.total[c]
  <2>1. SUFFICES ASSUME c \notin tainted PROVE t.copy[c] < t.total[c]
    BY Zenon
  <2>2. t.copy[c] + Cardinality(OfBook(t.view, c)) = t.total[c]
    BY <1>5, <2>1, Zenon DEF BalanceOK
  <2>3. t.copy[c] \in Int /\ t.total[c] \in Int
    BY Zenon DEF Transactions
  <2>4. QED
    BY <1>5, <2>2, <2>3
<1>7. ASSUME NEW b \in m.live \ tainted
      PROVE  /\ m.copy[b] + Cardinality(Held(n, m, b)) = m.total[b]
             /\ b \notin m.stale =>
                  OfBook(m.view, b) = OfBook((loans \ m.del) \cup m.ins, b)
  <2>1. /\ t.copy[b] + Cardinality(Held(r, t, b)) = t.total[b]
        /\ b \notin t.stale => OfBook(t.view, b) = OfBook((loans \ t.del) \cup t.ins, b)
    BY Zenon, <1>3, <1>7 DEF BalanceOK
  <2>2. b \in Books /\ t.copy[b] \in Int /\ t.total[b] \in Int
    BY <1>3, <1>7, Zenon DEF TypeOK, Transactions
  <2>3. m.copy[b] = IF c = b THEN t.copy[b] + 1 ELSE t.copy[b]
    BY <1>3, <1>6, <1>7, <2>2 DEF Transactions
  <2>4. m.copy[b] + Cardinality(Held(n, m, b)) = t.total[b]
    BY <1>5, <2>1, <2>2, <2>3
  <2>5. QED
    BY <1>3, <2>1, <2>4, Zenon
<1>8. /\ \A q \in m.ins : q[1] \in m.dirty
      /\ \A q \in m.del : q[1] \in m.wrote \cup tainted
      /\ c \in m.dirty \cup tainted
  BY <1>3, <1>6, Zenon DEF BalanceOK
<1>9. BalanceOK(n, m, tainted, loans)
  BY Zenon, <1>7, <1>8 DEF BalanceOK
<1>10. QED
  BY <1>1, <1>9, Zenon

\* The DELETE of the loan whose copy is back on the shelf.
LEMMA FlushedBalance ==
  ASSUME NEW r, NEW t \in Transactions, NEW p \in Pairs, NEW n,
         r.pc = "flush", n.pc # "flush", p = <<r.bookIds[r.i], r.userIds[r.i]>>,
         t.ins = {}, BalanceOK(r, t, tainted, loans)
  PROVE  BalanceOK(n, Flushed(t, p), tainted, loans)
<1>1. PICK m : m = Flushed(t, p)
  BY Zenon
<1>2. /\ m.wrote = t.wrote \cup t.dirty /\ m.dirty = {}
      /\ m.del = t.del \cup {p} /\ m.view = t.view \ {p}
      /\ m.ins = t.ins /\ m.copy = t.copy /\ m.live = t.live /\ m.total = t.total /\ m.stale = t.stale
  BY <1>1, FlushedFacts, SMTT(60)
<1>3. p[1] \in t.dirty \cup tainted
  BY Zenon DEF BalanceOK
<1>4. ASSUME NEW b \in m.live \ tainted
      PROVE  /\ m.copy[b] + Cardinality(Held(n, m, b)) = m.total[b]
             /\ b \notin m.stale =>
                  OfBook(m.view, b) = OfBook((loans \ m.del) \cup m.ins, b)
  <2>1. /\ t.copy[b] + Cardinality(Held(r, t, b)) = t.total[b]
        /\ b \notin t.stale => OfBook(t.view, b) = OfBook((loans \ t.del) \cup t.ins, b)
    BY Zenon, <1>2, <1>4 DEF BalanceOK
  <2>2. Held(n, m, b) = Held(r, t, b)
    BY Zenon, <1>2, HeldFacts
  <2>3. ASSUME b \notin m.stale
        PROVE  OfBook(m.view, b) = OfBook((loans \ m.del) \cup m.ins, b)
    BY <1>2, <2>1, <2>3, Zenon DEF OfBook
  <2>4. QED
    BY <1>2, <2>1, <2>2, <2>3, Zenon
<1>5. /\ \A q \in m.ins : q[1] \in m.dirty
      /\ \A q \in m.del : q[1] \in m.wrote \cup tainted
  BY <1>2, <1>3, Zenon DEF BalanceOK
<1>6. BalanceOK(n, m, tainted, loans)
  BY Zenon, <1>4, <1>5 DEF BalanceOK
<1>7. QED
  BY <1>1, <1>6, Zenon

\* A step within a transaction that touches neither its view nor its copies.
LEMMA SameBalance ==
  ASSUME NEW r, NEW t, NEW n, NEW m, r.pc # "flush", n.pc # "flush",
         m.live = t.live /\ m.total = t.total, m.copy = t.copy, m.view = t.view, m.stale = t.stale,
         m.ins = t.ins, m.del = t.del, m.dirty = t.dirty, m.wrote = t.wrote,
         BalanceOK(r, t, tainted, loans)
  PROVE  BalanceOK(n, m, tainted, loans)
<1>1. ASSUME NEW b
      PROVE  Held(n, m, b) = Held(r, t, b)
  BY Zenon, HeldFacts
<1>2. QED
  BY Zenon, <1>1 DEF BalanceOK

\* A turn of borrowBooks keeps its book balanced.
LEMMA BorrowBookBalance ==
  ASSUME Counting, BalanceInv, NEW w \in Workers, BorrowBook(w)
  PROVE  Balanced'
<1>1. CASE Rollback(w)
  BY <1>1, RollbackBalance, Zenon
<1>2. CASE /\ AtInsert(w)
           /\ req' = [req EXCEPT ![w] = Advance(@)]
           /\ tx' = [tx EXCEPT ![w] = Borrowing(@, Book(w), User(w))]
           /\ UNCHANGED <<tables, tainted>>
  <2>1. PICK r \in Requests, t \in Transactions : r = req[w] /\ t = tx[w]
    BY Zenon DEF BalanceInv, IInv, TypeOK
  <2>2. PICK c, u : c = r.bookIds[r.i] /\ u = r.userIds[r.i]
    BY Zenon
  <2>3. Book(w) = c /\ User(w) = u /\ Loan(w) = <<c, u>>
    BY <2>1, <2>2, Zenon DEF Book, User, Loan
  <2>4. /\ ReqOK(r) /\ TypeOK /\ BalanceOK(r, t, tainted, loans)
        /\ r.pc = "loop" /\ r.op = "borrow" /\ r.i <= Len(r.bookIds)
    BY <1>2, <2>1, Zenon DEF BalanceInv, Balanced, IInv, AtInsert, InLoop, More
  <2>5. c \in Books /\ u \in Users
    BY Zenon, <2>2, <2>4, ItemTypes
  <2>6. <<c, u>> \notin t.view
    BY <1>2, <2>1, <2>3, Zenon DEF AtInsert, Refused
  <2>7. Advance(r).pc = "loop"
    BY <2>4, AdvanceFacts, Zenon
  <2>8. BalanceOK(Advance(r), Borrowing(t, c, u), tainted, loans)
    BY <2>4, <2>5, <2>6, <2>7, BorrowingBalance, Zenon
  <2>9. req' = [req EXCEPT ![w] = Advance(r)] /\ tx' = [tx EXCEPT ![w] = Borrowing(t, c, u)]
    BY <1>2, <2>1, <2>3, Zenon
  <2>10. QED
    BY Zenon, <1>2, <2>8, <2>9, LocalBalance
<1>3. QED
  BY <1>1, <1>2, Zenon DEF BorrowBook

\* A turn of returnBooks keeps its book balanced, the DELETE to come counted.
LEMMA ReturnBookBalance ==
  ASSUME Counting, BalanceInv, NEW w \in Workers, ReturnBook(w)
  PROVE  Balanced'
<1>1. PICK r \in Requests, t \in Transactions : r = req[w] /\ t = tx[w]
  BY Zenon DEF BalanceInv, IInv, TypeOK
<1>2. PICK c, u : c = r.bookIds[r.i] /\ u = r.userIds[r.i]
  BY Zenon
<1>3. Book(w) = c /\ Loan(w) = <<c, u>>
  BY <1>1, <1>2, Zenon DEF Book, User, Loan
<1>4. /\ ReqOK(r) /\ OwnOK(r, t) /\ TypeOK /\ BalanceOK(r, t, tainted, loans)
      /\ r.pc = "loop" /\ r.op = "return" /\ r.i <= Len(r.bookIds)
      /\ UNCHANGED <<tables, tainted>>
  BY <1>1, Zenon DEF BalanceInv, Balanced, IInv, ReturnBook, InLoop, More
<1>5. c \in Books /\ u \in Users
  BY Zenon, <1>2, <1>4, ItemTypes
<1>6. CASE <<c, u>> \notin t.view
  <2>1. Advance(r).pc = "loop"
    BY <1>4, AdvanceFacts, Zenon
  <2>2. BalanceOK(Advance(r), t, tainted, loans)
    BY <1>4, <2>1, SameBalance, Zenon
  <2>3. req' = [req EXCEPT ![w] = Advance(r)] /\ tx' = tx
    BY <1>1, <1>3, <1>6, Zenon DEF ReturnBook
  <2>4. tx' = [tx EXCEPT ![w] = t]
    BY <1>1, <2>3, Zenon DEF BalanceInv, IInv, TypeOK
  <2>5. QED
    BY Zenon, <1>4, <2>2, <2>3, <2>4, LocalBalance
<1>7. CASE <<c, u>> \in t.view
  <2>1. PICK n : n = [r EXCEPT !.pc = "flush"]
    BY ZenonT(30)
  <2>2. n.pc = "flush" /\ n.i = r.i /\ n.bookIds = r.bookIds /\ n.userIds = r.userIds
    BY <2>1, Zenon DEF Requests
  <2>3. req' = [req EXCEPT ![w] = n] /\ tx' = [tx EXCEPT ![w] = Returning(t, c)]
    BY <1>1, <1>3, <1>7, <2>1, Zenon DEF ReturnBook
  <2>4. c \in t.live
    BY <1>4, <1>7, Zenon DEF OwnOK
  <2>5. n.bookIds[n.i] = c /\ n.userIds[n.i] = u
    BY <1>2, <2>2, Zenon
  <2>6. BalanceOK(n, Returning(t, c), tainted, loans)
    BY <1>4, <1>5, <1>7, <2>2, <2>4, <2>5, ReturningBalance, Zenon
  <2>7. QED
    BY Zenon, <1>4, <2>3, <2>6, LocalBalance
<1>8. QED
  BY <1>6, <1>7, Zenon

\* The flush keeps the returned book balanced.
LEMMA FlushReturnBalance ==
  ASSUME BalanceInv, NEW w \in Workers, FlushReturn(w)
  PROVE  Balanced'
<1>1. CASE Rollback(w)
  BY <1>1, RollbackBalance, Zenon
<1>2. CASE /\ req' = [req EXCEPT ![w] = Looping(Advance(@))]
           /\ tx' = [tx EXCEPT ![w] = Flushed(@, Loan(w))]
           /\ UNCHANGED <<tables, tainted>>
  <2>1. PICK r \in Requests, t \in Transactions : r = req[w] /\ t = tx[w]
    BY Zenon DEF BalanceInv, IInv, TypeOK
  <2>2. PICK p : p = <<r.bookIds[r.i], r.userIds[r.i]>>
    BY Zenon
  <2>3. Loan(w) = p
    BY <2>1, <2>2, Zenon DEF Book, User, Loan
  <2>4. /\ ReqOK(r) /\ OwnOK(r, t) /\ BalanceOK(r, t, tainted, loans)
        /\ r.pc = "flush"
    BY <2>1, Zenon DEF BalanceInv, Balanced, IInv, FlushReturn
  <2>5. r.op = "return" /\ r.i <= Len(r.bookIds)
    BY <2>4, Zenon DEF ReqOK
  <2>6. p \in Pairs
    BY <2>2, <2>4, <2>5, ItemTypes, Zenon
  <2>7. t.ins = {}
    BY <2>4, <2>5, Zenon DEF OwnOK
  <2>8. Looping(Advance(r)).pc = "loop"
    BY AdvanceFacts, LoopingFacts, Zenon
  <2>9. BalanceOK(Looping(Advance(r)), Flushed(t, p), tainted, loans)
    BY <2>2, <2>4, <2>6, <2>7, <2>8, FlushedBalance, Zenon
  <2>10. req' = [req EXCEPT ![w] = Looping(Advance(r))] /\ tx' = [tx EXCEPT ![w] = Flushed(t, p)]
    BY <1>2, <2>1, <2>3, Zenon
  <2>11. QED
    BY Zenon, <1>2, <2>9, <2>10, LocalBalance
<1>3. QED
  BY <1>1, <1>2, Zenon DEF FlushReturn

\* Steps before the first SELECT, and the first SELECT.
LEMMA OutsideBalance ==
  ASSUME Counting, BalanceInv, NEW w \in Workers,
         Submit(w) \/ CheckAvailable(w) \/ BeginBorrow(w) \/ Begin(w)
  PROVE  Balanced'
<1>1. PICK r \in Requests : r = req[w] /\ IInv /\ TypeOK
  BY Zenon DEF BalanceInv, IInv, TypeOK
<1>2. ASSUME NEW n, n.pc # "flush", req' = [req EXCEPT ![w] = n],
             req[w].pc \notin {"loop", "flush"}, UNCHANGED <<tables, tainted, tx>>
      PROVE  Balanced'
  BY Zenon, <1>1, <1>2, NoTxOutside, EmptyBalance, LocalBalance
<1>3. Idle("error").pc # "flush" /\ Advance(r).pc = r.pc /\ Looping(r).pc # "flush"
  BY AdvanceFacts, LoopingFacts, Zenon DEF Idle
<1>4. CASE Submit(w)
  <2>1. PICK n \in Requests : /\ req' = [req EXCEPT ![w] = n]
                              /\ n.pc \in {"idle", "check", "begin"}
    BY <1>1, <1>4, SubmitStarts, Zenon
  <2>2. req[w].pc = "idle" /\ UNCHANGED <<tables, tainted, tx>>
    BY <1>4, Zenon DEF Submit, SubmitBorrow, SubmitReturn, SubmitDelete
  <2>3. QED
    BY Zenon, <1>2, <2>1, <2>2
<1>5. CASE CheckAvailable(w)
  <2>1. PICK n : n = [r EXCEPT !.pc = "begin", !.i = 1]
    BY Zenon
  <2>2. n.pc = "begin"
    BY <2>1, Zenon DEF Requests
  <2>3. \/ req' = [req EXCEPT ![w] = Idle("error")]
        \/ req' = [req EXCEPT ![w] = Advance(r)]
        \/ req' = [req EXCEPT ![w] = n]
    BY <1>1, <1>5, <2>1, Zenon DEF CheckAvailable
  <2>4. req[w].pc = "check" /\ UNCHANGED <<tables, tainted, tx>>
    BY <1>5, Zenon DEF CheckAvailable
  <2>5. QED
    BY <1>1, <1>2, <1>3, <2>2, <2>3, <2>4, Zenon
<1>6. CASE BeginBorrow(w) \/ Begin(w)
  <2>1. CASE req' = [req EXCEPT ![w] = Looping(@)] /\ tx' = [tx EXCEPT ![w] = Snapshot]
    <3>1. BalanceOK(Looping(r), Snapshot, tainted, loans)
      BY <1>3, SnapshotBalance, Zenon
    <3>2. UNCHANGED <<tables, tainted>>
      BY <1>6, Zenon DEF BeginBorrow, Begin
    <3>3. QED
      BY Zenon, <1>1, <2>1, <3>1, <3>2, LocalBalance
  <2>2. CASE req' = [req EXCEPT ![w] = Idle("error")] /\ UNCHANGED <<tables, tainted, tx>>
             /\ req[w].pc = "begin"
    BY Zenon, <1>2, <1>3, <2>2
  <2>3. QED
    BY <1>6, <2>1, <2>2, Zenon DEF BeginBorrow, Begin
<1>7. QED
  BY <1>4, <1>5, <1>6, Zenon

\* A turn of deleteBooks moves no copy.
LEMMA DeleteBookBalance ==
  ASSUME BalanceInv, NEW w \in Workers, DeleteBook(w)
  PROVE  Balanced'
<1>1. PICK r \in Requests, t \in Transactions : r = req[w] /\ t = tx[w]
  BY Zenon DEF BalanceInv, IInv, TypeOK
<1>2. PICK b : b = r.bookIds[r.i]
  BY Zenon
<1>3. Book(w) = b
  BY <1>1, <1>2, Zenon DEF Book
<1>4. /\ ReqOK(r) /\ BalanceOK(r, t, tainted, loans)
      /\ r.pc = "loop" /\ r.op = "delete" /\ r.i <= Len(r.bookIds)
      /\ UNCHANGED <<tables, tainted>>
  BY <1>1, Zenon DEF BalanceInv, Balanced, IInv, DeleteBook, InLoop, More
<1>5. b \in Books
  BY Zenon, <1>2, <1>4, ItemTypes
<1>6. Advance(r).pc = "loop" /\ Throwing(r).pc = "loop"
  BY <1>4, AdvanceFacts, ThrowingFacts, Zenon
<1>7. CASE b \in t.live \ t.doomed
  <2>1. PICK m : m = Deleting(t, b)
    BY Zenon
  <2>2. /\ m.ins = t.ins /\ m.view = t.view /\ m.copy = t.copy /\ m.dirty = t.dirty
        /\ m.live = t.live /\ m.total = t.total /\ m.wrote = t.wrote /\ m.del = t.del /\ m.stale = t.stale
    BY <1>5, <2>1, DeletingFacts, Zenon
  <2>3. BalanceOK(Advance(r), m, tainted, loans)
    BY <1>4, <1>6, <2>2, SameBalance, Zenon
  <2>4. req' = [req EXCEPT ![w] = Advance(r)] /\ tx' = [tx EXCEPT ![w] = m]
    BY <1>1, <1>3, <1>7, <2>1, Zenon DEF DeleteBook
  <2>5. QED
    BY Zenon, <1>4, <2>3, <2>4, LocalBalance
<1>8. CASE b \notin t.live \ t.doomed
  <2>1. BalanceOK(Throwing(r), t, tainted, loans)
    BY <1>4, <1>6, SameBalance, Zenon
  <2>2. req' = [req EXCEPT ![w] = Throwing(r)] /\ tx' = tx
    BY <1>1, <1>3, <1>8, Zenon DEF DeleteBook
  <2>3. tx' = [tx EXCEPT ![w] = t]
    BY <1>1, <2>2, Zenon DEF BalanceInv, IInv, TypeOK
  <2>4. QED
    BY Zenon, <1>4, <2>1, <2>2, <2>3, LocalBalance
<1>9. QED
  BY <1>7, <1>8, Zenon

\* A commit keeps every book balanced whose UPDATE, if there is one, was
\* computed from the latest committed row.
LEMMA PublishBalance ==
  ASSUME BalanceInv, NEW w \in Workers, NEW reply \in {"ok", "error"}, Publish(w, reply),
         req[w].pc = "loop"
  PROVE  Balanced'
<1>1. PICK t \in Transactions : t = tx[w]
  BY Zenon DEF BalanceInv, IInv, TypeOK
<1>2. PICK U : U = t.dirty \cup t.wrote
  BY Zenon
<1>3. /\ OwnOK(req[w], t) /\ BalanceOK(req[w], t, tainted, loans) /\ IInv
      /\ DriftOnlyFromOverwrite /\ TypeOK
  BY <1>1, Zenon DEF BalanceInv, Balanced, IInv
<1>4. /\ avail' = [b \in Books |-> IF b \in U THEN t.copy[b] ELSE avail[b]]
      /\ loans' = (loans \ t.del) \cup t.ins
      /\ status' = [b \in Books |-> IF b \in t.doomed THEN "deleted" ELSE status[b]]
      /\ tainted' = tainted \cup (U \cap t.stale)
      /\ total' = [b \in Books |-> IF b \in U THEN t.total[b] ELSE total[b]]
  BY <1>1, <1>2, Zenon DEF Publish, Updated, WrittenTotal
<1>5. U \subseteq t.live
  BY <1>2, <1>3, Zenon DEF OwnOK
<1>6. ASSUME NEW b, b \notin tainted, b \notin U
      PROVE  OfBook(loans', b) = OfBook(loans, b)
  <2>1. \A p \in t.ins \cup t.del : p[1] # b
    BY <1>2, <1>3, <1>6, Zenon DEF BalanceOK
  <2>2. QED
    BY <1>4, <2>1, Zenon DEF OfBook
<1>7. DriftOnlyFromOverwrite'
  <2>1. SUFFICES ASSUME NEW b \in Books, status'[b] = "live", b \notin tainted'
                 PROVE  avail'[b] + Lent(b)' = total'[b]
    BY Zenon DEF DriftOnlyFromOverwrite, LiveBooks
  <2>2. Lent(b)' = Cardinality(OfBook(loans', b)) /\ Lent(b) = Cardinality(OfBook(loans, b))
    BY Zenon DEF Lent, OfBook
  <2>3. CASE b \in U
    <3>1. b \in t.live \ tainted /\ b \notin t.stale
      BY <1>4, <1>5, <2>1, <2>3, Zenon
    <3>2. t.copy[b] + Cardinality(Held(req[w], t, b)) = t.total[b]
      BY <1>3, <3>1, Zenon DEF BalanceOK
    <3>3. OfBook(t.view, b) = OfBook(loans', b)
      BY Zenon, <1>3, <1>4, <3>1 DEF BalanceOK
    <3>4. Held(req[w], t, b) = OfBook(t.view, b)
      BY Zenon, HeldFacts
    <3>5. QED
      BY <1>4, <2>2, <2>3, <3>2, <3>3, <3>4, Zenon
  <2>4. CASE b \notin U
    <3>1. OfBook(loans', b) = OfBook(loans, b)
      BY <1>4, <1>6, <2>1, <2>4, SMTT(30), Zenon
    <3>2. status[b] = "live"
      BY <1>4, <2>1, Zenon
    <3>3. avail[b] + Lent(b) = total[b]
      BY <1>3, <1>4, <2>1, <3>2, Zenon DEF DriftOnlyFromOverwrite, LiveBooks
    <3>4. avail'[b] = avail[b] /\ total'[b] = total[b]
      BY <1>4, <2>4, Zenon
    <3>5. QED
      BY <2>2, <3>1, <3>3, <3>4, Zenon
  <2>5. QED
    BY <2>3, <2>4, Zenon
<1>8. ASSUME NEW v \in Workers
      PROVE  BalanceOK(req'[v], tx'[v], tainted', loans')
  <2>1. CASE v = w
    <3>1. req'[v] = Idle(reply) /\ tx'[v] = NoTx
      BY <1>3, <2>1, PublishRecords, Zenon
    <3>2. Idle(reply).pc # "flush"
      BY Zenon DEF Idle
    <3>3. QED
      BY <3>1, <3>2, EmptyBalance, SMTT(30), Zenon
  <2>2. CASE v # w /\ req[v].pc \notin {"loop", "flush"}
    <3>1. req'[v] = req[v] /\ tx'[v] = NoTx
      BY <1>3, <2>2, PublishRecords, ZenonT(60)
    <3>2. QED
      BY <2>2, <3>1, EmptyBalance, Zenon
  <2>3. CASE v # w /\ req[v].pc \in {"loop", "flush"}
    <3>1. PICK r, s, m : r = req[v] /\ s = tx[v] /\ m = tx'[v]
      BY Zenon
    <3>2. BalanceOK(r, s, tainted, loans)
      BY <3>1, SMTT(30), Zenon DEF BalanceInv, Balanced
    <3>3. /\ req'[v] = r
          /\ m.ins = s.ins /\ m.view = s.view /\ m.copy = s.copy /\ m.dirty = s.dirty
          /\ m.live = s.live /\ m.total = s.total /\ m.wrote = s.wrote /\ m.del = s.del
          /\ m.stale = s.stale \cup U
      BY <1>1, <1>2, <1>3, <2>3, <3>1, PublishRecords, ZenonT(60)
    <3>4. ASSUME NEW b \in m.live \ tainted'
          PROVE  /\ m.copy[b] + Cardinality(Held(r, m, b)) = m.total[b]
                 /\ b \notin m.stale =>
                      OfBook(m.view, b) = OfBook((loans' \ m.del) \cup m.ins, b)
      <4>1. Held(r, m, b) = Held(r, s, b)
        BY Zenon, <3>3, HeldFacts
      <4>2. b \in s.live \ tainted
        BY <1>4, <3>3, <3>4, Zenon
      <4>3. m.copy[b] + Cardinality(Held(r, m, b)) = m.total[b]
        BY <3>2, <3>3, <4>1, <4>2, Zenon DEF BalanceOK
      <4>4. ASSUME b \notin m.stale
            PROVE  OfBook(m.view, b) = OfBook((loans' \ m.del) \cup m.ins, b)
        <5>1. OfBook(loans', b) = OfBook(loans, b)
          BY <1>6, <3>3, <4>2, <4>4, Zenon
        <5>2. OfBook(s.view, b) = OfBook((loans \ s.del) \cup s.ins, b)
          BY Zenon, <3>2, <3>3, <4>2, <4>4 DEF BalanceOK
        <5>3. OfBook((loans \ s.del) \cup s.ins, b) = OfBook((loans' \ s.del) \cup s.ins, b)
          BY <5>1, Zenon DEF OfBook
        <5>4. QED
          BY <3>3, <5>2, <5>3, Zenon
      <4>5. QED
        BY <4>3, <4>4, Zenon
    <3>5. /\ \A p \in m.ins : p[1] \in m.dirty
          /\ \A p \in m.del : p[1] \in m.wrote \cup tainted'
          /\ r.pc = "flush" => r.bookIds[r.i] \in m.dirty \cup tainted'
      BY <1>4, <3>2, <3>3, Zenon DEF BalanceOK
    <3>6. BalanceOK(r, m, tainted', loans')
      BY Zenon, <3>4, <3>5 DEF BalanceOK
    <3>7. QED
      BY <3>1, <3>3, <3>6, Zenon
  <2>4. QED
    BY <2>1, <2>2, <2>3, Zenon
<1>9. QED
  BY Zenon, <1>4, <1>7, <1>8 DEF Balanced

\* A new book has all its copies on the shelf and is in no transaction.
LEMMA AddBookBalance ==
  ASSUME Counting, BalanceInv, NEW c \in Books, NEW n \in Totals, AddBook(c, n)
  PROVE  Balanced'
<1>1. /\ TypeOK /\ NoOrphanLoans /\ DriftOnlyFromOverwrite /\ n \in Int
      /\ status[c] = "unborn" /\ status' = [status EXCEPT ![c] = "live"]
      /\ total' = [total EXCEPT ![c] = n] /\ avail' = [avail EXCEPT ![c] = n]
      /\ UNCHANGED <<loans, tainted, req, tx>>
  BY TotalsAssumption, Zenon DEF BalanceInv, Balanced, IInv, AddBook
<1>2. DriftOnlyFromOverwrite'
  <2>1. SUFFICES ASSUME NEW b \in Books, status'[b] = "live", b \notin tainted
                 PROVE  avail'[b] + Lent(b)' = total'[b]
    BY <1>1, Zenon DEF DriftOnlyFromOverwrite, LiveBooks
  <2>2. Lent(b)' = Lent(b)
    BY <1>1, Zenon DEF Lent
  <2>3. CASE b = c
    <3>1. {p \in loans : p[1] = b} = {}
      BY <1>1, <2>3, Zenon DEF NoOrphanLoans
    <3>2. Lent(b) = 0
      BY <3>1, Zenon DEF Lent, Counting
    <3>3. avail'[b] = n /\ total'[b] = n
      BY <1>1, <2>3, Zenon DEF TypeOK
    <3>4. QED
      BY <1>1, <2>2, <3>2, <3>3
  <2>4. CASE b # c
    <3>1. avail'[b] = avail[b] /\ total'[b] = total[b] /\ status[b] = "live"
      BY <1>1, <2>1, <2>4, Zenon DEF TypeOK
    <3>2. avail[b] + Lent(b) = total[b]
      BY <1>1, <2>1, <3>1, Zenon DEF DriftOnlyFromOverwrite, LiveBooks
    <3>3. QED
      BY <2>2, <3>1, <3>2, Zenon
  <2>5. QED
    BY <2>3, <2>4, Zenon
<1>3. ASSUME NEW v \in Workers
      PROVE  BalanceOK(req[v], tx[v], tainted, loans)
  BY Zenon DEF BalanceInv, Balanced
<1>4. QED
  BY Zenon, <1>1, <1>2, <1>3 DEF Balanced

\* A replaced row is out of balance only when loans of the book are out.
LEMMA ReplaceBookBalance ==
  ASSUME Counting, BalanceInv, NEW c \in Books, NEW n \in Totals, ReplaceBook(c, n)
  PROVE  Balanced'
<1>1. /\ TypeOK /\ DriftOnlyFromOverwrite /\ n \in Int
      /\ total' = [total EXCEPT ![c] = n] /\ avail' = [avail EXCEPT ![c] = n]
      /\ tainted' = tainted \cup ({c} \cap BooksOf(loans))
      /\ UNCHANGED <<status, loans, req, tx>>
  BY TotalsAssumption, Zenon DEF BalanceInv, Balanced, IInv, ReplaceBook
<1>2. DriftOnlyFromOverwrite'
  <2>1. SUFFICES ASSUME NEW b \in Books, status'[b] = "live", b \notin tainted'
                 PROVE  avail'[b] + Lent(b)' = total'[b]
    BY Zenon DEF DriftOnlyFromOverwrite, LiveBooks
  <2>2. Lent(b)' = Lent(b)
    BY <1>1, Zenon DEF Lent
  <2>3. CASE b = c
    <3>1. {p \in loans : p[1] = b} = {}
      BY <1>1, <2>1, <2>3, Zenon DEF BooksOf
    <3>2. Lent(b) = 0
      BY <3>1, Zenon DEF Lent, Counting
    <3>3. avail'[b] = n /\ total'[b] = n
      BY <1>1, <2>3, Zenon DEF TypeOK
    <3>4. QED
      BY <1>1, <2>2, <3>2, <3>3
  <2>4. CASE b # c
    <3>1. avail'[b] = avail[b] /\ total'[b] = total[b] /\ status[b] = "live" /\ b \notin tainted
      BY <1>1, <2>1, <2>4, Zenon DEF TypeOK
    <3>2. avail[b] + Lent(b) = total[b]
      BY <1>1, <3>1, Zenon DEF DriftOnlyFromOverwrite, LiveBooks
    <3>3. QED
      BY <2>2, <3>1, <3>2, Zenon
  <2>5. QED
    BY <2>3, <2>4, Zenon
<1>3. ASSUME NEW v \in Workers
      PROVE  BalanceOK(req[v], tx[v], tainted', loans)
  <2>1. BalanceOK(req[v], tx[v], tainted, loans)
    BY Zenon DEF BalanceInv, Balanced
  <2>2. tainted \subseteq tainted'
    BY <1>1, Zenon
  <2>3. QED
    BY Zenon, <2>1, <2>2 DEF BalanceOK
<1>4. QED
  BY Zenon, <1>1, <1>2, <1>3 DEF Balanced

\* Steps that leave books, loans and requests alone.
LEMMA StutterBalance ==
  ASSUME Balanced, UNCHANGED <<status, avail, total, loans, tainted, req, tx>>
  PROVE  Balanced'
<1>1. LiveBooks' = LiveBooks /\ \A b : Lent(b)' = Lent(b)
  BY Zenon DEF LiveBooks, Lent
<1>2. DriftOnlyFromOverwrite'
  BY <1>1, Zenon DEF Balanced, DriftOnlyFromOverwrite
<1>3. QED
  BY <1>2, Zenon DEF Balanced

\* The empty library is balanced.
LEMMA InitBalance == ASSUME Counting PROVE Init => Balanced
<1> SUFFICES ASSUME Init PROVE Balanced
  BY Zenon
<1>1. \A w \in Workers : BalanceOK(req[w], tx[w], tainted, loans)
  <2>1. Idle("none").pc # "flush"
    BY Zenon DEF Idle
  <2>2. QED
    BY <2>1, EmptyBalance, Zenon DEF Init
<1>2. DriftOnlyFromOverwrite
  <2>1. ASSUME NEW b \in Books
        PROVE  avail[b] + Lent(b) = total[b]
    <3>1. {p \in loans : p[1] = b} = {}
      BY Zenon DEF Init
    <3>2. Lent(b) = 0
      BY <3>1, Zenon DEF Lent, Counting
    <3>3. avail[b] = total[b] /\ total[b] \in Int
      BY InitInv, Zenon DEF Init, IInv, TypeOK
    <3>4. QED
      BY <3>2, <3>3
  <2>2. QED
    BY <2>1, Zenon DEF DriftOnlyFromOverwrite, LiveBooks
<1>3. QED
  BY <1>1, <1>2, Zenon DEF Balanced

\* Every step keeps copies and loans balanced.
LEMMA NextBalance ==
  ASSUME Counting, BalanceInv, [Next]_vars
  PROVE  Balanced'
<1>1. ASSUME NEW w \in Workers, Serve(w)
      PROVE  Balanced'
  <2>1. CASE CheckAvailable(w) \/ BeginBorrow(w) \/ Begin(w)
    BY <2>1, OutsideBalance, Zenon
  <2>2. CASE BorrowBook(w)
    BY <2>2, BorrowBookBalance, Zenon
  <2>3. CASE ReturnBook(w)
    BY <2>3, ReturnBookBalance, Zenon
  <2>4. CASE FlushReturn(w)
    BY <2>4, FlushReturnBalance, Zenon
  <2>5. CASE DeleteBook(w)
    BY <2>5, DeleteBookBalance, Zenon
  <2>6. CASE CommitBorrow(w) \/ CommitReturn(w)
    BY <2>6, PublishBalance, Zenon DEF CommitBorrow, CommitReturn, AtEnd, InLoop
  <2>7. CASE CommitDelete(w)
    <3>1. CASE Rollback(w)
      BY <3>1, RollbackBalance, Zenon
    <3>2. CASE \E reply \in {"ok", "error"} : Publish(w, reply)
      BY <2>7, <3>2, PublishBalance, Zenon DEF CommitDelete, AtEnd, InLoop
    <3>3. QED
      BY <2>7, <3>1, <3>2, Zenon DEF CommitDelete
  <2>8. CASE LockWaitAbort(w)
    BY <2>8, RollbackBalance, Zenon DEF LockWaitAbort
  <2>9. QED
    BY <1>1, <2>1, <2>2, <2>3, <2>4, <2>5, <2>6, <2>7, <2>8, Zenon DEF Serve
<1>2. ASSUME NEW w \in Workers, Submit(w)
      PROVE  Balanced'
  BY <1>2, OutsideBalance, Zenon
<1>3. ASSUME NEW w \in Workers, ConnectionLost(w)
      PROVE  Balanced'
  BY <1>3, RollbackBalance, Zenon DEF ConnectionLost
<1>4. ASSUME NEW b \in Books, NEW n \in Totals, AddBook(b, n)
      PROVE  Balanced'
  BY <1>4, AddBookBalance, Zenon
<1>5. ASSUME NEW u \in Users, DeleteUser(u)
      PROVE  Balanced'
  BY <1>5, StutterBalance, Zenon DEF DeleteUser, BalanceInv
<1>6. ASSUME NEW b \in Books, NEW n \in Totals, ReplaceBook(b, n)
      PROVE  Balanced'
  BY <1>6, ReplaceBookBalance, Zenon
<1>7. CASE UNCHANGED vars
  BY <1>7, StutterBalance, Zenon DEF vars, BalanceInv
<1>8. QED
  BY <1>1, <1>2, <1>3, <1>4, <1>5, <1>6, <1>7, Zenon DEF Next

-----------------------------------------------------------------------------
(* The theorems.                                                           *)

INSTANCE FiniteSetTheorems

\* Loans can be counted: there are finitely many books and users.
LEMMA CountingHolds == Counting
<1>1. IsFiniteSet(Pairs)
  BY FiniteAssumption, FS_Product, Zenon DEF Pairs
<1>2. \A S \in SUBSET Pairs : IsFiniteSet(S) /\ Cardinality(S) \in Nat
  BY <1>1, FS_Subset, FS_CardinalityType, Zenon
<1>3. IsFiniteSet({}) /\ Cardinality({}) = 0
  BY FS_EmptySet, Zenon
<1>4. ASSUME NEW S, IsFiniteSet(S)
      PROVE  Cardinality(S) \in Nat
  BY <1>4, FS_CardinalityType, Zenon
<1>5. ASSUME NEW S, IsFiniteSet(S), NEW x
      PROVE  /\ IsFiniteSet(S \cup {x})
             /\ Cardinality(S \cup {x}) =
                  IF x \in S THEN Cardinality(S) ELSE Cardinality(S) + 1
  BY <1>5, FS_AddElement, Zenon
<1>6. QED
  BY <1>2, <1>3, <1>4, <1>5, Zenon DEF Counting

\* However requests interleave, abort and retry, the tables and the open
\* transactions stay in the inductive invariant.
THEOREM InvariantTheorem == Spec => []IInv
<1>1. IInv /\ [Next]_vars => IInv'
  BY NextInv, CountingHolds, Zenon
<1>2. Init => IInv
  BY InitInv, CountingHolds, Zenon
<1>3. QED
  BY <1>1, <1>2, PTL DEF Spec

\* Every table and every request record keeps its type.
THEOREM TypeTheorem == Spec => []TypeOK
<1>1. IInv => TypeOK
  BY Zenon DEF IInv
<1>2. QED
  BY <1>1, InvariantTheorem, PTL

\* available_copies never leaves 0..total_copies, for any number of books,
\* users and concurrent requests.
THEOREM AvailInRangeTheorem == Spec => []AvailInRange
<1>1. IInv => AvailInRange
  BY Zenon DEF IInv
<1>2. QED
  BY <1>1, InvariantTheorem, PTL

\* No loan outlives its book or its borrower.
THEOREM NoOrphanLoansTheorem == Spec => []NoOrphanLoans
<1>1. IInv => NoOrphanLoans
  BY Zenon DEF IInv
<1>2. QED
  BY <1>1, InvariantTheorem, PTL

\* Every borrow answered with success has lent all the books it listed, however
\* many requests ran at the same time.
THEOREM BorrowOkMeansLentTheorem == Spec => BorrowOkMeansLent
<1> DEFINE LentAll(w) ==
      req[w].op = "borrow" /\ req'[w] = Idle("ok")
        => \A k \in DOMAIN req[w].bookIds :
             <<req[w].bookIds[k], req[w].userIds[k]>> \in loans'
<1>1. ASSUME IInv, Next, NEW w \in Workers, req[w].op = "borrow", req'[w] = Idle("ok")
      PROVE  CommitBorrow(w)
  <2>1. req[w] # Idle("ok") /\ req \in [Workers -> Requests]
    BY <1>1 DEF Idle, IInv, TypeOK
  <2>2. req' # req
    BY <1>1, <2>1, Zenon
  <2>3. PICK v \in Workers : Submit(v) \/ Serve(v) \/ ConnectionLost(v)
    BY <1>1, <2>2, Zenon DEF Next, AddBook, ReplaceBook, DeleteUser
  <2>4. ASSUME NEW n, req' = [req EXCEPT ![v] = n]
        PROVE  v = w /\ n = Idle("ok")
    BY <1>1, <2>1, <2>4, Zenon
  <2>5. ~Quiet(v)
    BY <2>4, Zenon DEF Quiet
  <2>6. ASSUME NEW reply, Publish(v, reply)
        PROVE  v = w
    BY Zenon, <2>4, <2>6 DEF Publish
  <2>7. CASE CommitReturn(v)
    BY <1>1, <2>6, <2>7, Zenon DEF CommitReturn, AtEnd, InLoop
  <2>8. CASE AtEnd(v, "delete") /\ \E reply \in {"ok", "error"} : Publish(v, reply)
    BY <1>1, <2>6, <2>8, Zenon DEF AtEnd, InLoop
  <2>9. CASE CommitBorrow(v)
    BY <2>6, <2>9, Zenon DEF CommitBorrow
  <2>10. QED
    BY <1>1, <2>3, <2>5, <2>7, <2>8, <2>9, QuietOrCommit, CountingHolds, SMTT(30), Zenon
<1>2. ASSUME IInv, NEW w \in Workers, CommitBorrow(w)
      PROVE  \A k \in DOMAIN req[w].bookIds :
               <<req[w].bookIds[k], req[w].userIds[k]>> \in loans'
  <2>1. req[w] \in Requests
    BY <1>2, Zenon DEF IInv, TypeOK
  <2>2. DOMAIN req[w].bookIds = 1..req[w].i - 1
    BY <1>2, <2>1, CommitBorrowEffect DEF Requests
  <2>3. QED
    BY <1>2, <2>2, CommitBorrowEffect, Zenon DEF Lending
<1>3. IInv /\ [Next]_vars => [\A w \in Workers : LentAll(w)]_vars
  BY <1>1, <1>2, Zenon
<1>4. QED
  BY <1>3, InvariantTheorem, PTL DEF Spec, BorrowOkMeansLent

\* Every commit of a borrow, a return or a deletion is one step of the loan
\* register, and nothing else a request does changes the register.
THEOREM RefinementTheorem == Spec => ImplementsRegister
<1>1. Init => Register!RegisterInit
  <2>1. SUFFICES ASSUME Init PROVE Register!RegisterInit
    BY Zenon
  <2>2. LiveBooks \in SUBSET Books /\ users = Users /\ loans = {}
    BY <2>1, Zenon DEF Init, LiveBooks
  <2>3. {b \in Books : status[b] = "deleted"} = {}
    BY <2>1, Zenon DEF Init
  <2>4. QED
    BY <2>2, <2>3, Zenon DEF Register!RegisterInit
<1>2. ASSUME IInv, [Next]_vars
      PROVE  [Register!RegisterNext]_(Register!registerVars)
  <2>1. CASE UNCHANGED vars
    BY <2>1, QuietStutters, Zenon DEF vars
  <2>2. ASSUME NEW w \in Workers, Submit(w) \/ Serve(w) \/ ConnectionLost(w)
        PROVE  [Register!RegisterNext]_(Register!registerVars)
    <3>1. CASE Quiet(w)
      BY <3>1, QuietStutters, Zenon DEF Quiet, tables
    <3>2. CASE CommitBorrow(w)
      BY <1>2, <3>2, CommitBorrowLends, CountingHolds, Zenon
    <3>3. CASE CommitReturn(w)
      BY <1>2, <3>3, CommitReturnTakesBack, Zenon
    <3>4. CASE /\ AtEnd(w, "delete") /\ ~Blocked(w)
               /\ \A b \in tx[w].doomed : ~Undeletable(b)
               /\ \E reply \in {"ok", "error"} : Publish(w, reply)
      BY <1>2, <3>4, CommitDeleteWithdraws, Zenon
    <3>5. QED
      BY <1>2, <2>2, <3>1, <3>2, <3>3, <3>4, QuietOrCommit, CountingHolds, Zenon
  <2>3. ASSUME NEW b \in Books, NEW n \in Totals, AddBook(b, n)
        PROVE  Register!RegisterNext
    BY <1>2, <2>3, AddBookAcquires, Zenon
  <2>4. ASSUME NEW u \in Users, DeleteUser(u)
        PROVE  Register!RegisterNext
    BY <2>4, DeleteUserLeaves, Zenon
  <2>5. ASSUME NEW b \in Books, NEW n \in Totals, ReplaceBook(b, n)
        PROVE  [Register!RegisterNext]_(Register!registerVars)
    BY <2>5, QuietStutters, Zenon DEF ReplaceBook
  <2>6. QED
    BY <1>2, <2>1, <2>2, <2>3, <2>4, <2>5, Zenon DEF Next
<1>3. QED
  BY <1>1, <1>2, InvariantTheorem, PTL DEF Spec, ImplementsRegister, Register!RegisterSpec

\* A borrow or a return answered with an error has changed nothing: whatever
\* its loop had done before the exception is rolled back.
THEOREM FailedLoanTheorem == Spec => FailedLoanChangesNothing
<1> DEFINE Failed(w) == req[w].op \in {"borrow", "return"} /\ req'[w] = Idle("error")
<1>1. ASSUME IInv, Next, NEW w \in Workers, Failed(w)
      PROVE  UNCHANGED tables
  <2>1. req[w] # Idle("error") /\ req \in [Workers -> Requests]
    BY <1>1 DEF Idle, IInv, TypeOK
  <2>2. req' # req
    BY <1>1, <2>1, Zenon
  <2>3. PICK v \in Workers : Submit(v) \/ Serve(v) \/ ConnectionLost(v)
    BY <1>1, <2>2, Zenon DEF Next, AddBook, ReplaceBook, DeleteUser
  <2>4. ASSUME NEW reply, Publish(v, reply)
        PROVE  v = w /\ Idle(reply) = Idle("error")
    BY Zenon, <1>1, <2>1, <2>4 DEF Publish
  <2>5. Idle("ok") # Idle("error")
    BY DEF Idle
  <2>6. CASE Quiet(v)
    BY <2>6, Zenon DEF Quiet
  <2>7. CASE CommitBorrow(v) \/ CommitReturn(v)
    BY <2>4, <2>5, <2>7, Zenon DEF CommitBorrow, CommitReturn
  <2>8. CASE AtEnd(v, "delete") /\ \E reply \in {"ok", "error"} : Publish(v, reply)
    BY <1>1, <2>4, <2>8, Zenon DEF AtEnd, InLoop
  <2>9. QED
    BY <1>1, <2>3, <2>6, <2>7, <2>8, QuietOrCommit, CountingHolds, Zenon
<1>2. IInv /\ [Next]_vars => [\A w \in Workers : Failed(w) => UNCHANGED tables]_vars
  BY <1>1, Zenon
<1>3. QED
  BY <1>2, InvariantTheorem, PTL DEF Spec, FailedLoanChangesNothing

\* The copies of a book and its loans drift apart only when an UPDATE was
\* computed from a snapshot that missed a committed UPDATE of the same book, or
\* when the add page overwrote the row of a book that was on loan.
THEOREM DriftTheorem == Spec => []DriftOnlyFromOverwrite
<1>1. Init => BalanceInv
  BY InitInv, InitBalance, CountingHolds, Zenon DEF BalanceInv
<1>2. BalanceInv /\ [Next]_vars => BalanceInv'
  BY NextInv, NextBalance, CountingHolds, Zenon DEF BalanceInv
<1>3. BalanceInv => DriftOnlyFromOverwrite
  BY Zenon DEF BalanceInv, Balanced
<1>4. QED
  BY <1>1, <1>2, <1>3, PTL DEF Spec
=============================================================================
