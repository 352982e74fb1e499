----------------------------- MODULE MCSentinel -----------------------------
(* Instances of Sentinel for TLC. *)
EXTENDS Sentinel, TLC

\* Run ids are only compared for equality.
Symmetry == Permutations(Sentinels)
=============================================================================
