--------------------------- MODULE CirculationInv ---------------------------
(***************************************************************************)
(* The inductive invariant of Circulation: what an open transaction knows  *)
(* of the committed tables, and what its row locks keep others from        *)
(* changing.  The safety properties of Circulation follow from it.         *)
(***************************************************************************)
EXTENDS Circulation

\* The shape of a request record in each phase.
ReqOK(r) ==
  /\ r.pc # "idle" => r.op # "none" /\ r.i \in 1..Len(r.bookIds) + 1
  /\ r.pc \in {"check", "begin", "flush"} => r.i <= Len(r.bookIds)
  /\ r.pc = "begin" => r.i = 1
  /\ r.pc = "check" => r.op = "borrow"
  /\ r.pc = "flush" => r.op = "return"
  /\ r.op \in {"borrow", "return"} => Len(r.userIds) = Len(r.bookIds)
  /\ r.op = "borrow" =>
       /\ Len(r.bookIds) <= BorrowLimit
       /\ \A k \in 1..Len(r.userIds) : r.userIds[k] = r.userIds[1]

\* What a borrow has inserted: one loan to its user for each id it has passed.
Lending(r, t) ==
  /\ IsFiniteSet(BooksOf(t.ins)) /\ Cardinality(BooksOf(t.ins)) < r.i
  /\ \A p \in t.ins : p[2] = r.userIds[1]
  /\ r.pc = "loop" => \A k \in 1..r.i - 1 : <<r.bookIds[k], r.userIds[k]>> \in t.ins

\* What each operation may have done in its transaction.
OwnOK(r, t) ==
  /\ r.pc \notin {"loop", "flush"} => t = NoTx
  /\ r.op = "borrow" =>
       t.wrote = {} /\ t.del = {} /\ t.doomed = {} /\ Lending(r, t)
  /\ r.op = "return" => t.ins = {} /\ t.doomed = {}
  /\ r.op = "delete" => t.ins = {} /\ t.del = {} /\ t.dirty = {} /\ t.wrote = {}
  /\ r.pc = "flush" => <<r.bookIds[r.i], r.userIds[r.i]>> \in t.view
  /\ t.dirty \cup t.wrote \cup t.doomed \subseteq t.live
  /\ \A p \in t.view : p[1] \in t.live

\* What the transaction saw, against the tables now: a loan it sees is there,
\* or was returned since; the loans it deletes are locked in the table, the
\* ones it inserts are in nobody's table yet and keep their book and user.
SeenOK(t) ==
  /\ \A b \in t.live : status[b] # "unborn" /\ InRange(t.copy[b], t.total[b])
  /\ t.view \subseteq loans \cup t.gone \cup t.ins
  /\ t.del \subseteq loans
  /\ \A p \in t.ins : p \notin loans /\ status[p[1]] = "live" /\ p[2] \in users

\* The row locks keep uncommitted loans and uncommitted returns of different
\* transactions apart.
Disjoint ==
  \A v, w \in Workers :
    v # w => tx[v].ins \cap tx[w].ins = {} /\ tx[v].del \cap tx[w].del = {}

\* The inductive invariant behind AvailInRange, NoOrphanLoans,
\* BorrowOkMeansLent and ImplementsRegister.
IInv ==
  /\ TypeOK
  /\ AvailInRange
  /\ NoOrphanLoans
  /\ Disjoint
  /\ \A w \in Workers : ReqOK(req[w]) /\ OwnOK(req[w], tx[w]) /\ SeenOK(tx[w])

-----------------------------------------------------------------------------
(* The balance of copies and loans.                                        *)

OfBook(pairs, b) == {p \in pairs : p[1] = b}

\* The loans of b a transaction sees, the DELETE that waits for its flush done.
Held(r, t, b) ==
  OfBook(IF r.pc = "flush" THEN t.view \ {<<r.bookIds[r.i], r.userIds[r.i]>>}
         ELSE t.view, b)

\* In the eyes of a transaction an untainted book is balanced, and as long as
\* no other commit updated the book its loans are those of the table.
BalanceOK(r, t, taint, lent) ==
  /\ \A b \in t.live \ taint :
       /\ t.copy[b] + Cardinality(Held(r, t, b)) = t.total[b]
       /\ b \notin t.stale => OfBook(t.view, b) = OfBook((lent \ t.del) \cup t.ins, b)
  /\ \A p \in t.ins : p[1] \in t.dirty
  /\ \A p \in t.del : p[1] \in t.wrote \cup taint
  /\ r.pc = "flush" => r.bookIds[r.i] \in t.dirty \cup taint

Balanced ==
  /\ DriftOnlyFromOverwrite
  /\ \A w \in Workers : BalanceOK(req[w], tx[w], tainted, loans)

\* The inductive invariant behind DriftOnlyFromOverwrite.
BalanceInv == IInv /\ Balanced
=============================================================================
