---------------------------- MODULE LoanRegister ----------------------------
(***************************************************************************)
(* What the circulation desk promises about loans, without threads,        *)
(* transactions or copy counts: a register of who holds which book, in     *)
(* which a whole request takes effect at once or not at all.               *)
(***************************************************************************)
CONSTANTS Books, Users,
          Allowed       \* the sets of books one user may take at once

VARIABLES catalogue,    \* the books the library has
          withdrawn,    \* the books it no longer has
          registered,   \* the users with an account
          lent          \* who holds which book

registerVars == <<catalogue, withdrawn, registered, lent>>

RegisterInit ==
  /\ catalogue \in SUBSET Books
  /\ withdrawn = {}
  /\ registered = Users
  /\ lent = {}

\* One user takes an allowed set of books, none of which they hold.
Lend(u, S) ==
  /\ S \in Allowed
  /\ \A b \in S : <<b, u>> \notin lent
  /\ lent' = lent \cup (S \X {u})
  /\ UNCHANGED <<catalogue, withdrawn, registered>>

\* Loans of any users are taken back together.
TakeBack(S) ==
  /\ lent' = lent \ S
  /\ UNCHANGED <<catalogue, withdrawn, registered>>

Acquire(b) ==
  /\ b \notin catalogue \cup withdrawn
  /\ catalogue' = catalogue \cup {b}
  /\ UNCHANGED <<withdrawn, registered, lent>>

\* Only books nobody holds leave the catalogue, and they never come back.
Withdraw(S) ==
  /\ \A p \in lent : p[1] \notin S
  /\ catalogue' = catalogue \ S
  /\ withdrawn' = withdrawn \cup S
  /\ UNCHANGED <<registered, lent>>

\* Only a user without loans leaves.
Leave(u) ==
  /\ \A p \in lent : p[2] # u
  /\ registered' = registered \ {u}
  /\ UNCHANGED <<catalogue, withdrawn, lent>>

RegisterNext ==
  \/ \E u \in registered, S \in SUBSET catalogue : Lend(u, S)
  \/ \E S \in SUBSET lent : TakeBack(S)
  \/ \E b \in Books : Acquire(b)
  \/ \E S \in SUBSET catalogue : Withdraw(S)
  \/ \E u \in registered : Leave(u)

RegisterSpec == RegisterInit /\ [][RegisterNext]_registerVars
=============================================================================
