------------------------ MODULE MCDatabaseSessions ------------------------
(* The small instance TLC explores of DatabaseSessions. *)
EXTENDS DatabaseSessions, TLC

Symmetry == Permutations(Console) \cup Permutations(Role)

=============================================================================
