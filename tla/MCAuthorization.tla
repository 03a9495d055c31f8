--------------------------- MODULE MCAuthorization ---------------------------
(* Instances of Authorization for TLC. *)
EXTENDS Authorization, TLC

\* Callers and resources are interchangeable; the user is one.
Symmetry == Permutations(Callers) \cup Permutations(Resources)

=============================================================================
