----------------------------- MODULE MCDualWrite -----------------------------
(* Instances of DualWrite for TLC. *)
EXTENDS DualWrite, TLC

DualSymmetry == Permutations(Callers)

=============================================================================
