----------------------------- MODULE MCAccounts -----------------------------
(* Instances of Accounts for TLC. *)
EXTENDS Accounts, TLC

\* Names, addresses and the other values are only compared for equality.
Symmetry == Permutations(Names) \cup Permutations(Emails) \cup Permutations(Details)
              \cup Permutations(Passwords) \cup Permutations(Ids)
              \cup Permutations(Workers)
=============================================================================
