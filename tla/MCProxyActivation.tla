------------------------- MODULE MCProxyActivation -------------------------
(* The small instance TLC explores of ProxyActivation. *)
EXTENDS ProxyActivation, TLC

CONSTANTS s1, s2, h1, h2, a1, a2, b1

(* Both scopes want h2.  Of the releases of s1, a1 never passes nginx -t. *)
MCScopeOf == a1 :> s1 @@ a2 :> s1 @@ b1 :> s2
MCHostsOf == a1 :> {h1} @@ a2 :> {h1, h2} @@ b1 :> {h2}

(* One scope, whose commands meet a reconciler that loses any race. *)
MCOneScope == a1 :> s1 @@ a2 :> s1
MCOneScopeHosts == a1 :> {h1} @@ a2 :> {h1, h2}

=============================================================================
