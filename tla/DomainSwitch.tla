--------------------------- MODULE DomainSwitch ---------------------------
(***************************************************************************)
(* What nginx transactions promise for the domains of one machine: each is *)
(* served by one release, and all the domains of a project/environment     *)
(* switch to its next release in one step, or none does.  The domains of   *)
(* others stay as they are.  A switch may be torn half way, and then the   *)
(* marker of a pending activation keeps everybody from another one.        *)
(* ProxyActivation implements it.                                          *)
(***************************************************************************)
CONSTANTS Scope, Host, Release, ScopeOf, HostsOf, None

VARIABLES
  serving,  \* serving[h]: the release whose fragment domain h has
  torn      \* an activation is left half done

switchVars == <<serving, torn>>

Held(s) == {h \in Host : serving[h] # None /\ ScopeOf[serving[h]] = s}

(* Nobody takes a domain that is another's. *)
Allowed(s, r) ==
  r # None => ScopeOf[r] = s /\ \A h \in HostsOf[r] : serving[h] = None \/ h \in Held(s)

(* Scope s has the domains of release r, and no others; None when it is retired. *)
After(s, r) ==
  [h \in Host |-> IF r # None /\ h \in HostsOf[r] THEN r
                  ELSE IF h \in Held(s) THEN None ELSE serving[h]]

Init ==
  /\ serving = [h \in Host |-> None]
  /\ torn = FALSE

Switch(s, r) ==
  /\ ~torn /\ Allowed(s, r)
  /\ serving' = After(s, r)
  /\ UNCHANGED torn

(* Each domain is as it was or as it was to be. *)
Tear(s, r) ==
  /\ ~torn /\ torn'
  /\ Allowed(s, r)
  /\ \A h \in Host : serving'[h] \in {serving[h], After(s, r)[h]}

Next == \E s \in Scope, r \in Release \cup {None} : Switch(s, r) \/ Tear(s, r)

Spec == Init /\ [][Next]_switchVars

=============================================================================
