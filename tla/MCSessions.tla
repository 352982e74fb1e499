----------------------------- MODULE MCSessions -----------------------------
(* Instances of Sessions for TLC. *)
EXTENDS Sessions, TLC

\* Names and tabs are only compared for equality.
Symmetry == Permutations(Names) \cup Permutations(Tabs)
=============================================================================
