---------------------------- MODULE MCDispatch ----------------------------
(* The small instance TLC explores of Dispatch. *)
EXTENDS Dispatch, TLC

Symmetry == Permutations(Console)

=============================================================================
