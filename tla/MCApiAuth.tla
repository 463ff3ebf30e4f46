------------------------------ MODULE MCApiAuth ------------------------------
(* ApiAuth for TLC: the slots are treated alike.                             *)
EXTENDS ApiAuth, TLC

Symmetry == Permutations(Requests)

=============================================================================
