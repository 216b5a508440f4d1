--------------------------- MODULE ReleaseChain ---------------------------
(***************************************************************************)
(* What a release ledger promises: the releases that were ever committed   *)
(* form one chain.  A commit names as its predecessor the release that was *)
(* current at the instant of the commit, so no command overwrites what     *)
(* another has done meanwhile, and nothing but a commit or a purge moves   *)
(* the head.  ReleaseLifecycle implements it.                              *)
(***************************************************************************)
CONSTANTS Release, None

VARIABLES
  committed,  \* the releases that went live and are still on record
  head,       \* the last of them: what `status` shows and boot recovery restores
  parent      \* parent[r]: the release that r replaced

chainVars == <<committed, head, parent>>

Init ==
  /\ committed = {}
  /\ head = None
  /\ parent = [r \in Release |-> None]

Commit(r) ==
  /\ r \notin committed
  /\ committed' = committed \cup {r}
  /\ head' = r
  /\ parent' = [parent EXCEPT ![r] = head]

(* A purge, which a crash may leave at any subset of the records. *)
Forget(gone) ==
  /\ committed' = committed \ gone
  /\ head' \in IF head \in gone THEN committed' \cup {None} ELSE {head}
  /\ parent' = [r \in Release |-> IF r \in gone THEN None ELSE parent[r]]

Next ==
  \/ \E r \in Release : Commit(r)
  \/ \E gone \in SUBSET committed : Forget(gone)

Spec == Init /\ [][Next]_chainVars

=============================================================================
