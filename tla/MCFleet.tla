------------------------------ MODULE MCFleet ------------------------------
(* The small instance TLC explores of Fleet. *)
EXTENDS Fleet, TLC

CONSTANTS h1, h2, c1, c2, v1, v2

(* One core update at a time, beside bootstraps and convergences from the other console. *)
OneUpdates ==
  \A c, d \in Console :
    (\A o \in {op[c], op[d]} : o.pc = "target" \/ o.target # None) => c = d

Symmetry == Permutations(Host) \cup Permutations(Console) \cup Permutations(Version)

=============================================================================
