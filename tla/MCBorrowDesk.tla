---------------------------- MODULE MCBorrowDesk ----------------------------
(* Instances of BorrowDesk for TLC. *)
EXTENDS BorrowDesk, TLC

\* Tabs are only compared for equality, and so are the ids of users other than
\* the administrator.
Symmetry == Permutations(Users \ {Admin}) \cup Permutations(Tabs)
=============================================================================
