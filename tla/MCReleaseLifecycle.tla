------------------------- MODULE MCReleaseLifecycle -------------------------
(* The small instance TLC explores of ReleaseLifecycle. *)
EXTENDS ReleaseLifecycle, TLC

CONSTANTS t1, t2, h1, h2

MCMigrates == {t2}

(* Both tags serve h1; only t2 serves h2. *)
MCHostsOf == t1 :> {h1} @@ t2 :> {h1, h2}

(***************************************************************************)
(* The view leaves out what no later step and no property reads: of the    *)
(* timestamps all but their order; of a record that no command is working  *)
(* on, how far its migration and healthcheck came (a deployed one is       *)
(* always healthy) and, while prepared, when it was last written; of       *)
(* app.env, the files of releases that are neither current nor worked on.  *)
(* Only purge makes an older release current again, and it removes every   *)
(* app.env before.                                                         *)
(***************************************************************************)
Live(r) == \E p \in Proc : op[p].rel = r

Ranked ==
  LET stamps  == {ledger[r].created : r \in Release} \cup {ledger[r].updated : r \in Release}
      rank(n) == Cardinality({m \in stamps : m < n})
  IN  [r \in Release |->
         [ledger[r] EXCEPT
            !.created   = rank(@),
            !.updated   = IF ledger[r].status = "prepared" /\ ~Live(r) THEN 0 ELSE rank(@),
            !.migration = IF Live(r) THEN @ ELSE "pending",
            !.health    = IF Live(r) \/ ledger[r].status = "deployed" THEN @ ELSE "pending"]]

LiveEnv ==
  [r \in Release |-> IF Live(r) \/ r = FindLatestDeployed(ledger) THEN env[r] ELSE "absent"]

View == <<Ranked, retired, volume, app, LiveEnv, nginx, pending, scopeLock, nginxLock, op, host>>

Symmetry == Permutations(Release) \cup Permutations(Proc)

=============================================================================
