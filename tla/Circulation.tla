----------------------------- MODULE Circulation -----------------------------
(***************************************************************************)
(* The circulation desk: borrowing, returning and deleting books while     *)
(* several HTTP requests are served at once.                               *)
(*                                                                         *)
(* Every request runs on a worker thread inside one Spring transaction on  *)
(* MySQL.  The database and the persistence context are modelled from how  *)
(* the services use them:                                                  *)
(*   - the first SELECT of a transaction fixes its snapshot (REPEATABLE    *)
(*     READ, the MySQL default; no isolation level is configured);         *)
(*   - an INSERT with an IDENTITY key runs at once, an UPDATE or DELETE is  *)
(*     queued until a query on the same table or the commit flushes it;    *)
(*   - an INSERT of a loan share-locks its book and user rows (foreign     *)
(*     keys), an UPDATE or DELETE locks its row exclusively;               *)
(*   - the entities carry no @Version: an UPDATE writes the value computed *)
(*     from the snapshot, whatever was committed since.                    *)
(***************************************************************************)
EXTENDS Integers, Sequences, FiniteSets

CONSTANTS
  Books,      \* the ids the books table can hand out
  Users,      \* the ids of the registered users
  Workers,    \* the request threads
  Ops,        \* the requests clients send: a subset of {"borrow", "return", "delete"}
  Totals,     \* the totalCopies a form or a spreadsheet row may carry
  InvRows,    \* the states of a book's first inventory row when the server starts
  MaxList     \* bound: the longest list of ids a request carries

ASSUME TotalsAssumption == Totals \subseteq Int
ASSUME FiniteAssumption == IsFiniteSet(Books) /\ IsFiniteSet(Users)
ASSUME MaxListAssumption == MaxList \in Nat
ASSUME InvRowsAssumption == InvRows \subseteq {"none", "BORROWED", "AVAILABLE"}

VARIABLES
  status,     \* books: has the row been inserted, is it still there
  avail,      \* books.available_copies
  total,      \* books.total_copies
  inv,        \* the status column of the book's first inventory row, if any
  users,      \* the ids in the users table
  loans,      \* borrowed_books, as the set of its unique (book_id, user_id) keys
  tainted,    \* history: books whose row was overwritten from a stale snapshot, or
              \* replaced while they were on loan
  req,        \* per worker: the request being served
  tx          \* per worker: its persistence context and uncommitted writes

tables == <<status, avail, total, inv, users, loans>>
vars == <<status, avail, total, inv, users, loans, tainted, req, tx>>

Pairs == Books \X Users
BooksOf(pairs) == {p[1] : p \in pairs}
LiveBooks == {b \in Books : status[b] = "live"}

\* The bookIds a form may post: order and repetition are the client's.
Lists == UNION {[1..n -> Books] : n \in 0..MaxList}
UserLists == UNION {[1..n -> Users] : n \in 0..MaxList}

-----------------------------------------------------------------------------
(* The request record and the transaction record.                          *)

Idle(reply) == [pc |-> "idle", op |-> "none", bookIds |-> <<>>,
                userIds |-> <<>>, i |-> 1, reply |-> reply]

NoTx == [live |-> {}, copy |-> [b \in Books |-> 0], total |-> [b \in Books |-> 0],
         view |-> {}, dirty |-> {}, wrote |-> {}, ins |-> {}, del |-> {},
         shelved |-> {}, doomed |-> {}, gone |-> {}, stale |-> {}]

\* What the first SELECT of a transaction fixes: every later read of this
\* transaction sees these rows and its own writes.
Snapshot == [NoTx EXCEPT !.live = LiveBooks, !.copy = avail, !.total = total, !.view = loans]

\* The loop goes to its next id; the service's loop runs in the transaction.
Advance(r) == [r EXCEPT !.i = r.i + 1]
Looping(r) == [r EXCEPT !.pc = "loop"]

InTx(w) == req[w].pc \in {"loop", "flush"}
\* Mutant: the loop stops one id early.
MoreButLast(w) == req[w].i < Len(req[w].bookIds)
More(w) == req[w].i <= Len(req[w].bookIds)
Book(w) == req[w].bookIds[req[w].i]
User(w) == req[w].userIds[req[w].i]
Loan(w) == <<Book(w), User(w)>>
InLoop(w, op) == req[w].pc = "loop" /\ req[w].op = op

-----------------------------------------------------------------------------
(* Row locks.  A transaction holds the locks of the statements it executed *)
(* until it ends: shared on the book (and user) of a loan it inserted,     *)
(* exclusive on a book it updated and on a loan it inserted or deleted.    *)

Locked(w, exclusive, shared, rows) ==
  \E v \in Workers \ {w} :
    \/ (exclusive \cup shared) \cap tx[v].wrote # {}
    \/ exclusive \cap BooksOf(tx[v].ins) # {}
    \/ rows \cap (tx[v].ins \cup tx[v].del) # {}

\* The checks of borrowBooksForUser on what its transaction sees.
Refused(w) == \/ Book(w) \notin tx[w].live
              \/ tx[w].copy[Book(w)] <= 0
              \/ Loan(w) \in tx[w].view

AtInsert(w) == InLoop(w, "borrow") /\ More(w) /\ ~Refused(w)
AtEnd(w, op) == InLoop(w, op) /\ ~More(w)

\* The next statement of w waits for a lock of another transaction.
Blocked(w) ==
  \/ AtInsert(w) /\ Locked(w, {}, {Book(w)}, {Loan(w)})
  \/ AtEnd(w, "borrow") /\ Locked(w, tx[w].dirty, {}, {})
  \/ req[w].pc = "flush" /\ Locked(w, tx[w].dirty, {}, {Loan(w)})
  \/ AtEnd(w, "delete") /\ Locked(w, tx[w].doomed, {}, tx[w].doomed \X Users)

-----------------------------------------------------------------------------
(* The end of a transaction.                                               *)

\* An exception that is a RuntimeException, a failed statement, a deadlock
\* or a lost connection: everything the transaction did is undone.
Rollback(w) ==
  /\ req' = [req EXCEPT ![w] = Idle("error")]
  /\ tx' = [tx EXCEPT ![w] = NoTx]
  /\ UNCHANGED <<status, avail, total, inv, users, loans, tainted>>

\* Mutant: a status the other readers of the inventory do not know.
ShelvedUnknown(s) == "RETURNED"

\* The first inventory row of a returned book, if it has one.
Shelved(s) == IF s = "none" THEN "none" ELSE "AVAILABLE"

\* The other open transactions keep their snapshots: a loan row deleted by a
\* commit is gone for them, a book it updated is stale for them.
Overtaken(t, deleted, updated) ==
  [t EXCEPT !.gone = t.gone \cup deleted, !.stale = t.stale \cup updated]

\* The books whose UPDATE is executed by the time the transaction commits.
Updated(t) == t.dirty \cup t.wrote

\* Mutant: an UPDATE writes only the column that changed.
KeptTotal(t, b) == total[b]

\* An UPDATE writes all columns of the book, total_copies as it was read.
WrittenTotal(t, b) == IF b \in Updated(t) THEN t.total[b] ELSE total[b]

\* Commit: what is still queued is flushed and every write becomes visible.
Publish(w, reply) ==
  LET t == tx[w]
  IN  /\ avail' = [b \in Books |-> IF b \in Updated(t) THEN t.copy[b] ELSE avail[b]]
      /\ total' = [b \in Books |-> WrittenTotal(t, b)]
      /\ loans' = (loans \ t.del) \cup t.ins
      /\ status' = [b \in Books |-> IF b \in t.doomed THEN "deleted" ELSE status[b]]
      /\ inv' = [b \in Books |->
                   IF b \in t.shelved THEN Shelved(inv[b]) ELSE inv[b]]
      /\ tainted' = tainted \cup (Updated(t) \cap t.stale)
      /\ req' = [req EXCEPT ![w] = Idle(reply)]
      /\ tx' = [v \in Workers |->
                  IF v = w THEN NoTx
                  ELSE IF InTx(v) THEN Overtaken(tx[v], t.del, Updated(t))
                  ELSE tx[v]]
      /\ UNCHANGED users

-----------------------------------------------------------------------------
(* Borrowing.                                                              *)

\* POST /borrow_books: the borrower is the logged-in user, or the user an
\* admin verified; an empty list or more than BorrowLimit books is refused.
BorrowLimit == 3

SubmitBorrow(w) ==
  /\ req[w].pc = "idle"
  /\ "borrow" \in Ops
  /\ \E u \in users, l \in Lists :
       req' = [req EXCEPT ![w] =
                 IF Len(l) \in 1..BorrowLimit
                 THEN [pc |-> "check", op |-> "borrow", bookIds |-> l,
                       userIds |-> [k \in 1..Len(l) |-> u], i |-> 1, reply |-> "none"]
                 ELSE Idle("error")]
  /\ UNCHANGED <<tables, tainted, tx>>

isBookAvailable(b) == status[b] = "live" /\ avail[b] > 0

\* The controller asks for each book, in a read of its own, before it calls
\* the service.
CheckAvailable(w) ==
  /\ req[w].pc = "check"
  /\ IF ~isBookAvailable(Book(w))
     THEN req' = [req EXCEPT ![w] = Idle("error")]
     ELSE IF req[w].i < Len(req[w].bookIds)
     THEN req' = [req EXCEPT ![w] = Advance(@)]
     ELSE req' = [req EXCEPT ![w] = [@ EXCEPT !.pc = "begin", !.i = 1]]
  /\ UNCHANGED <<tables, tainted, tx>>

\* borrowBooksForUser looks the user up first, which fixes the snapshot.
BeginBorrow(w) ==
  /\ req[w].pc = "begin"
  /\ req[w].op = "borrow"
  /\ IF User(w) \in users
     THEN /\ req' = [req EXCEPT ![w] = Looping(@)]
          /\ tx' = [tx EXCEPT ![w] = Snapshot]
     ELSE /\ req' = [req EXCEPT ![w] = Idle("error")]
          /\ UNCHANGED tx
  /\ UNCHANGED <<tables, tainted>>

\* The transaction after the loan is inserted and the book decremented: the
\* INSERT is executed, the UPDATE queued.
Borrowing(t, b, u) ==
  [t EXCEPT !.ins = t.ins \cup {<<b, u>>},
            !.view = t.view \cup {<<b, u>>},
            !.copy = [t.copy EXCEPT ![b] = t.copy[b] - 1],
            !.dirty = t.dirty \cup {b}]

\* Mutant: a refused book ends the loop, and the books before it are committed.
BorrowBookPartly(w) ==
  /\ InLoop(w, "borrow")
  /\ More(w)
  /\ \/ Refused(w) /\ Publish(w, "error")
     \/ /\ AtInsert(w)
        /\ ~Blocked(w)
        /\ status[Book(w)] = "live" /\ User(w) \in users /\ Loan(w) \notin loans
        /\ req' = [req EXCEPT ![w] = Advance(@)]
        /\ tx' = [tx EXCEPT ![w] = Borrowing(@, Book(w), User(w))]
        /\ UNCHANGED <<tables, tainted>>

\* One turn of the loop: the checks, the INSERT of the loan (refused by the
\* foreign keys or the unique key on what is committed now), and the
\* decrement of the cached book, whose UPDATE stays queued.
BorrowBook(w) ==
  /\ InLoop(w, "borrow")
  /\ More(w)
  /\ \/ Refused(w) /\ Rollback(w)
     \/ /\ AtInsert(w)
        /\ ~Blocked(w)
        /\ \/ status[Book(w)] # "live" \/ User(w) \notin users \/ Loan(w) \in loans
        /\ Rollback(w)
     \/ /\ AtInsert(w)
        /\ ~Blocked(w)
        /\ status[Book(w)] = "live" /\ User(w) \in users /\ Loan(w) \notin loans
        /\ req' = [req EXCEPT ![w] = Advance(@)]
        /\ tx' = [tx EXCEPT ![w] = Borrowing(@, Book(w), User(w))]
        /\ UNCHANGED <<tables, tainted>>

CommitBorrow(w) ==
  /\ AtEnd(w, "borrow")
  /\ ~Blocked(w)
  /\ Publish(w, "ok")

-----------------------------------------------------------------------------
(* Returning.                                                              *)

\* POST /return_books: a user posts book ids, an admin posts book:user pairs
\* and a pair whose user id does not parse leaves the second list shorter.
\* returnBooks refuses an empty list and lists of different lengths.
SubmitReturn(w) ==
  /\ req[w].pc = "idle"
  /\ "return" \in Ops
  /\ \E l \in Lists, us \in UserLists :
       /\ Len(us) <= Len(l)
       /\ req' = [req EXCEPT ![w] =
                    IF l # <<>> /\ Len(us) = Len(l)
                    THEN [pc |-> "begin", op |-> "return", bookIds |-> l,
                          userIds |-> us, i |-> 1, reply |-> "none"]
                    ELSE Idle("error")]
  /\ UNCHANGED <<tables, tainted, tx>>

\* Mutant: the guard on total_copies is missing.
ReturningUncapped(t, b) ==
  [t EXCEPT !.copy = [t.copy EXCEPT ![b] = t.copy[b] + 1],
            !.dirty = t.dirty \cup {b}, !.shelved = t.shelved \cup {b}]

\* The book is incremented unless it is at its total, and its first inventory
\* row is set AVAILABLE.
Returning(t, b) ==
  IF t.copy[b] < t.total[b]
  THEN [t EXCEPT !.copy = [t.copy EXCEPT ![b] = t.copy[b] + 1],
                 !.dirty = t.dirty \cup {b},
                 !.shelved = t.shelved \cup {b}]
  ELSE [t EXCEPT !.shelved = t.shelved \cup {b}]

\* The queued UPDATE and the DELETE of a loan are executed.
Flushed(t, p) ==
  [t EXCEPT !.wrote = t.wrote \cup t.dirty, !.dirty = {},
            !.del = t.del \cup {p}, !.view = t.view \ {p}]

\* Mutant: a loan that is not there does not move the loop on.
ReturnBookStuck(w) ==
  /\ InLoop(w, "return")
  /\ More(w)
  /\ Loan(w) \in tx[w].view
  /\ req' = [req EXCEPT ![w] = [@ EXCEPT !.pc = "flush"]]
  /\ tx' = [tx EXCEPT ![w] = Returning(@, Book(w))]
  /\ UNCHANGED <<tables, tainted>>

\* One turn of the loop, up to the flush: a loan that is not there is
\* skipped; otherwise its DELETE and the writes of Returning are queued.
ReturnBook(w) ==
  /\ InLoop(w, "return")
  /\ More(w)
  /\ IF Loan(w) \notin tx[w].view
     THEN /\ req' = [req EXCEPT ![w] = Advance(@)]
          /\ UNCHANGED tx
     ELSE /\ req' = [req EXCEPT ![w] = [@ EXCEPT !.pc = "flush"]]
          /\ tx' = [tx EXCEPT ![w] = Returning(@, Book(w))]
  /\ UNCHANGED <<tables, tainted>>

\* The queued UPDATE and DELETE reach the database, before the next query on
\* borrowed_books or at the commit.  A DELETE that finds no row (the loan was
\* returned meanwhile) is a StaleObjectStateException.
FlushReturn(w) ==
  /\ req[w].pc = "flush"
  /\ ~Blocked(w)
  /\ IF Loan(w) \in tx[w].gone
     THEN Rollback(w)
     ELSE /\ req' = [req EXCEPT ![w] = Looping(Advance(@))]
          /\ tx' = [tx EXCEPT ![w] = Flushed(@, Loan(w))]
          /\ UNCHANGED <<tables, tainted>>

CommitReturn(w) ==
  /\ AtEnd(w, "return")
  /\ Publish(w, "ok")

-----------------------------------------------------------------------------
(* Deleting books and users, adding books.                                 *)

\* POST /delete_books.
SubmitDelete(w) ==
  /\ req[w].pc = "idle"
  /\ "delete" \in Ops
  /\ \E l \in Lists \ {<<>>} :
       req' = [req EXCEPT ![w] = [pc |-> "begin", op |-> "delete", bookIds |-> l,
                                  userIds |-> <<>>, i |-> 1, reply |-> "none"]]
  /\ UNCHANGED <<tables, tainted, tx>>

\* The DELETE of a book is queued.
Deleting(t, b) == [t EXCEPT !.doomed = t.doomed \cup {b}]

\* The exception leaves the loop; the controller answers with an error.
Throwing(r) == [r EXCEPT !.i = Len(r.bookIds) + 1, !.reply = "error"]

\* One turn of the loop of deleteBooks.  A book that is missing, or already
\* removed by this loop, throws a checked Exception: the loop ends, and the
\* transaction commits what was queued before it.
DeleteBook(w) ==
  /\ InLoop(w, "delete")
  /\ More(w)
  /\ IF Book(w) \in tx[w].live \ tx[w].doomed
     THEN /\ tx' = [tx EXCEPT ![w] = Deleting(@, Book(w))]
          /\ req' = [req EXCEPT ![w] = Advance(@)]
     ELSE /\ req' = [req EXCEPT ![w] = Throwing(@)]
          /\ UNCHANGED tx
  /\ UNCHANGED <<tables, tainted>>

\* Mutant: nothing ties a loan to its book.
UndeletableUnlessLent(b) == status[b] # "live" \/ inv[b] # "none"

\* A book that is gone, lent or in the inventory cannot be deleted.
Undeletable(b) ==
  status[b] # "live" \/ b \in BooksOf(loans) \/ inv[b] # "none"

CommitDelete(w) ==
  /\ AtEnd(w, "delete")
  /\ ~Blocked(w)
  /\ IF \E b \in tx[w].doomed : Undeletable(b)
     THEN Rollback(w)
     ELSE Publish(w, IF req[w].reply = "error" THEN "error" ELSE "ok")

\* returnBooks and deleteBooks begin with a SELECT.
Begin(w) ==
  /\ req[w].pc = "begin"
  /\ req[w].op \in {"return", "delete"}
  /\ req' = [req EXCEPT ![w] = Looping(@)]
  /\ tx' = [tx EXCEPT ![w] = Snapshot]
  /\ UNCHANGED <<tables, tainted>>

\* Mutant: a new book takes the id of a deleted one.
AddBookAgain(b, n) ==
  /\ status[b] # "live"
  /\ status' = [status EXCEPT ![b] = "live"]
  /\ total' = [total EXCEPT ![b] = n]
  /\ avail' = [avail EXCEPT ![b] = n]
  /\ UNCHANGED <<inv, users, loans, tainted, req, tx>>

\* POST /add_books without an id, and each row of an imported spreadsheet: one
\* INSERT.
AddBook(b, n) ==
  /\ status[b] = "unborn"
  /\ status' = [status EXCEPT ![b] = "live"]
  /\ total' = [total EXCEPT ![b] = n]
  /\ avail' = [avail EXCEPT ![b] = n]
  /\ UNCHANGED <<inv, users, loans, tainted, req, tx>>

\* POST /add_books with the id of a book: save merges the form into its row, all
\* copies on the shelf, whatever is lent.  The UPDATE waits for the locks of open
\* transactions.  The id of no book is an exception, and stores nothing.
ReplaceBook(b, n) ==
  /\ status[b] = "live"
  /\ \A w \in Workers : b \notin tx[w].wrote \cup BooksOf(tx[w].ins)
  /\ total' = [total EXCEPT ![b] = n]
  /\ avail' = [avail EXCEPT ![b] = n]
  /\ tainted' = tainted \cup ({b} \cap BooksOf(loans))
  /\ UNCHANGED <<status, inv, users, loans, req, tx>>

\* POST /delete_user: one DELETE, which the foreign key of borrowed_books
\* refuses while the user has a loan and which waits for uncommitted ones.
DeleteUser(u) ==
  /\ u \in users
  /\ \A p \in loans : p[2] # u
  /\ \A w \in Workers : \A p \in tx[w].ins : p[2] # u
  /\ users' = users \ {u}
  /\ UNCHANGED <<status, avail, total, inv, loans, tainted, req, tx>>

-----------------------------------------------------------------------------
(* Failures.                                                               *)

\* A deadlock victim, or a lock wait that reached its timeout.
LockWaitAbort(w) == Blocked(w) /\ Rollback(w)

\* The connection or the server dies while the request is being served.
ConnectionLost(w) == req[w].pc # "idle" /\ Rollback(w)

-----------------------------------------------------------------------------
\* The server starts on a database whose books are all on the shelf; no code
\* of the server inserts inventory rows, so they are there from the start.
Init ==
  /\ status \in [Books -> {"unborn", "live"}]
  /\ total \in [Books -> Totals \cup {0}]
  /\ inv \in [Books -> InvRows \cup {"none"}]
  /\ \A b \in Books : IF status[b] = "live" THEN total[b] \in Totals
                      ELSE total[b] = 0 /\ inv[b] = "none"
  /\ avail = total
  /\ users = Users
  /\ loans = {}
  /\ tainted = {}
  /\ req = [w \in Workers |-> Idle("none")]
  /\ tx = [w \in Workers |-> NoTx]

Submit(w) == SubmitBorrow(w) \/ SubmitReturn(w) \/ SubmitDelete(w)

\* What the server does for a request it has accepted.
Serve(w) ==
  \/ CheckAvailable(w) \/ BeginBorrow(w) \/ BorrowBook(w) \/ CommitBorrow(w)
  \/ Begin(w) \/ ReturnBook(w) \/ FlushReturn(w) \/ CommitReturn(w)
  \/ DeleteBook(w) \/ CommitDelete(w)
  \/ LockWaitAbort(w)

Next ==
  \/ \E w \in Workers : Submit(w) \/ Serve(w) \/ ConnectionLost(w)
  \/ \E b \in Books, n \in Totals : AddBook(b, n) \/ ReplaceBook(b, n)
  \/ \E u \in Users : DeleteUser(u)

Spec == Init /\ [][Next]_vars

\* A request thread keeps running, and InnoDB ends every lock wait.
FairSpec == Spec /\ \A w \in Workers : WF_vars(Serve(w))

-----------------------------------------------------------------------------
(* Properties.                                                             *)

Requests ==
  [pc : {"idle", "check", "begin", "loop", "flush"},
   op : {"none", "borrow", "return", "delete"},
   bookIds : Seq(Books), userIds : Seq(Users), i : Nat,
   reply : {"none", "ok", "error"}]

Transactions ==
  [live : SUBSET Books, copy : [Books -> Int], total : [Books -> Int], view : SUBSET Pairs,
   dirty : SUBSET Books, wrote : SUBSET Books,
   ins : SUBSET Pairs, del : SUBSET Pairs,
   shelved : SUBSET Books, doomed : SUBSET Books,
   gone : SUBSET Pairs, stale : SUBSET Books]

\* Every table and every request record has its type.
TypeOK ==
  /\ status \in [Books -> {"unborn", "live", "deleted"}]
  /\ avail \in [Books -> Int]
  /\ total \in [Books -> Int]
  /\ inv \in [Books -> {"none", "BORROWED", "AVAILABLE"}]
  /\ users \in SUBSET Users
  /\ loans \in SUBSET Pairs
  /\ tainted \in SUBSET Books
  /\ req \in [Workers -> Requests]
  /\ tx \in [Workers -> Transactions]

\* A counter is on the shelf's scale for a book of n copies.
InRange(c, n) == c <= n /\ (c >= 0 \/ c = n)

\* However borrows and returns overlap, and although none of them sees the
\* others' updates, available_copies never leaves 0..total_copies (a book
\* entered with a negative total keeps it): the guards of lines 52 and 118
\* hold on the snapshot each UPDATE is computed from.
AvailInRange == \A b \in Books : InRange(avail[b], total[b])

\* A loan never outlives its book or its borrower, although deleteBooks and
\* the deletion of a user check nothing themselves.
NoOrphanLoans == \A p \in loans : status[p[1]] = "live" /\ p[2] \in users

Lent(b) == Cardinality({p \in loans : p[1] = b})

\* There are two ways for available_copies and the loans of a book to drift apart:
\* an UPDATE computed from a snapshot that misses another committed borrow or
\* return of the same book, and the add page replacing the row of a book on loan.
\* Aborts, retries, failed deletes, double returns, lists with repeated ids and
\* a row replaced while a borrow is under way keep the books balanced.
DriftOnlyFromOverwrite ==
  \A b \in LiveBooks \ tainted : avail[b] + Lent(b) = total[b]

\* A borrow request answered with success has lent every book it listed, to
\* its user, and these loans are in the table.
BorrowOkMeansLent ==
  [][\A w \in Workers :
       req[w].op = "borrow" /\ req'[w] = Idle("ok")
         => \A k \in DOMAIN req[w].bookIds :
              <<req[w].bookIds[k], req[w].userIds[k]>> \in loans']_vars

\* A borrow or a return answered with an error leaves the tables as they were,
\* however many loans it had inserted or deleted before one of its steps failed.
FailedLoanChangesNothing ==
  [][\A w \in Workers :
       req[w].op \in {"borrow", "return"} /\ req'[w] = Idle("error")
         => UNCHANGED tables]_vars

\* The register the tables implement: a book is in the catalogue while its
\* row is there.
Register == INSTANCE LoanRegister WITH
  Allowed <- {S \in SUBSET Books : Cardinality(S) <= BorrowLimit},
  catalogue <- LiveBooks,
  withdrawn <- {b \in Books : status[b] = "deleted"},
  registered <- users, lent <- loans

\* However the statements of concurrent requests interleave, abort and time
\* out, every commit is one step of the register: a borrow lends allowed
\* books of the catalogue to one registered user, a return takes back loans
\* that were really there, a deletion removes only free books for good.
ImplementsRegister == Register!RegisterSpec

\* No more copies of a book are lent than the library owns.
NoOverlending == \A b \in LiveBooks : total[b] >= 0 => Lent(b) <= total[b]

\* A request answered with an error leaves the tables as they were.
ErrorChangesNothing ==
  [][\A w \in Workers :
       req[w].pc # "idle" /\ req'[w] = Idle("error") => UNCHANGED tables]_vars

\* Every request is answered, even when borrows of the same book deadlock on
\* the lock upgrade between their INSERT and their UPDATE.
RequestAnswered == \A w \in Workers : req[w].pc # "idle" ~> req[w].pc = "idle"
=============================================================================
