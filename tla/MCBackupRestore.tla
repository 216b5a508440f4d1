-------------------------- MODULE MCBackupRestore --------------------------
(* The small instance TLC explores of BackupRestore. *)
EXTENDS BackupRestore, TLC

(* What of a command its further steps, or a property, still read.  A verification past *)
(* the decryption only feeds its proof; an upload past the comparison no longer needs   *)
(* its stamp, nor the dumps the bucket has, for nothing ever leaves the bucket.         *)
Doing(p) ==
  CASE op[p].pc \in {"throwaway", "prove", "record"} -> [Idle EXCEPT !.pc = op[p].pc]
    [] op[p].pc = "send" ->
         [op[p] EXCEPT !.stamp = None,
                       !.local = {s \in @ : bucket[Dump(s)] = "absent"}]
    [] OTHER -> op[p]

(* No step reads the last proof or what a restore left of the database. *)
View == <<now, known, disk, bucket, lock, [p \in Proc |-> Doing(p)]>>

Symmetry == Permutations(Proc)

=============================================================================
