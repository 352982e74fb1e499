---------------------------- MODULE MCCirculation ----------------------------
(* Instances of Circulation for TLC. *)
EXTENDS CirculationInv, TLC

\* A form does not refuse a total of zero or below.
OddTotals == {-1, 1}

\* Ids and threads are only compared for equality.
Symmetry == Permutations(Books) \cup Permutations(Users) \cup Permutations(Workers)
=============================================================================
