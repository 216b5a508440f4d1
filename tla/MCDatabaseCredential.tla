----------------------- MODULE MCDatabaseCredential -----------------------
(* The small instance TLC explores of DatabaseCredential. *)
EXTENDS DatabaseCredential, TLC

CONSTANTS r1, r2, r3

(* r3 asks for another major than the others. *)
MCMajorOf == [r \in Release |-> IF r = r3 THEN 18 ELSE 17]

(* The view leaves out app.env of releases that are neither current nor worked on: it is  *)
(* written again before anything reads it.                                               *)
Live == {current} \cup {op[p].rel : p \in Proc}

View ==
  <<db, dbUp, stored, compose, [r \in Release |-> IF r \in Live THEN env[r] ELSE None],
    app, current, recorded, unfinished, retired, lock, op, host>>

Symmetry == Permutations(Password) \cup Permutations(Proc)

=============================================================================
