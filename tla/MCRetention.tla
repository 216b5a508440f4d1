--------------------------- MODULE MCRetention -----------------------------
(* The small instance TLC explores of Retention. *)
EXTENDS Retention, TLC

CONSTANTS s1, s2, i1, i2, p1, p2, q1, q2

(* Two environments of one application, which run the same images. *)
MCScopeOf == p1 :> s1 @@ p2 :> s1 @@ q1 :> s2 @@ q2 :> s2
MCImageOf == p1 :> i1 @@ p2 :> i2 @@ q1 :> i1 @@ q2 :> i2
MCBundleOf == [r \in Release |-> r]

(* s2 asks for more than the default. *)
MCDepth == s1 :> 1 @@ s2 :> 2

MCMaxReleases == s1 :> 2 @@ s2 :> 3

=============================================================================
