--------------------------- MODULE ReleaseLedger ---------------------------
(***************************************************************************)
(* The release ledger of one project/environment: one JSON record per      *)
(* release, and the selections the commands make over those records.       *)
(* A ledger is a function from release ids to records; an id that was      *)
(* never used holds NoRecord, and an id whose file purge removed holds     *)
(* PurgedRecord (ids are random and never come back).                      *)
(*                                                                         *)
(* A timestamp is the value of a logical clock that every write of a       *)
(* record advances: the code orders by (created_at, release_id) and by     *)
(* (updated_at, created_at, release_id), and the model assumes a wall      *)
(* clock that two writes of one ledger never see go back or stand still.   *)
(***************************************************************************)
EXTENDS Integers, FiniteSets

CONSTANTS
  Release,   \* release ids
  Tag,       \* release tags an operator deploys: one manifest, image and bundle each
  None       \* the absence of a release, tag or process

ASSUME LedgerAssumption == None \notin Release /\ None \notin Tag

Status    == {"none", "purged", "prepared", "deploying", "deployed", "failed", "rolled_back"}
Migration == {"not_required", "pending", "running", "succeeded", "failed"}
Health    == {"pending", "running", "succeeded", "failed"}

Record ==
  [status    : Status,
   tag       : Tag \cup {None},        \* what is deployed; a rollback copies its target's
   previous  : Release \cup {None},    \* previous_release_id
   target    : Release \cup {None},    \* rollback_of_release_id
   migration : Migration,
   health    : Health,
   created   : Nat,
   updated   : Nat]

Ledger == [Release -> Record]

NoRecord ==
  [status |-> "none", tag |-> None, previous |-> None, target |-> None,
   migration |-> "not_required", health |-> "pending", created |-> 0, updated |-> 0]

PurgedRecord == [NoRecord EXCEPT !.status = "purged"]

-----------------------------------------------------------------------------
(* The records whose file is in the ledger directory. *)
Records(l) == {r \in Release : l[r].status \notin {"none", "purged"}}

InStatus(l, s) == {r \in Release : l[r].status = s}

(* The timestamps of the records in S, and who holds the last of them. *)
UpdatedAt(l, S) == [r \in S |-> l[r].updated]
CreatedAt(l, S) == [r \in S |-> l[r].created]

Last(stamp) ==
  IF DOMAIN stamp = {} THEN None
  ELSE CHOOSE r \in DOMAIN stamp : \A q \in DOMAIN stamp : stamp[q] <= stamp[r]

FindLatestDeployed(l) == Last(UpdatedAt(l, InStatus(l, "deployed")))

(* A rollback record carries a tag of its own, so only deployments answer to a Tag. *)
FindByTag(l, t) ==
  Last(CreatedAt(l, {r \in Records(l) : l[r].tag = t /\ l[r].target = None}))

(* build_prepared_release: what a deployment of tag t writes first. *)
PreparedRecord(t, previous, migrates, now) ==
  [NoRecord EXCEPT !.status = "prepared", !.tag = t, !.previous = previous,
                   !.migration = IF migrates THEN "pending" ELSE "not_required",
                   !.created = now, !.updated = now]

(* build_rollback_release: a copy of the target that never migrates. *)
RollbackRecord(l, target, current, now) ==
  [NoRecord EXCEPT !.status = "prepared", !.tag = l[target].tag, !.previous = current,
                   !.target = target, !.created = now, !.updated = now]

Succeeded(l) == {r \in InStatus(l, "deployed") : l[r].health = "succeeded"}

(* What `rollback --to` can select: by an application tag, the newest success that   *)
(* carries it; by a rollback's own tag, that rollback.                               *)
RollbackTargets(l) ==
  {Last(CreatedAt(l, {r \in Succeeded(l) : l[r].tag = t /\ l[r].target = None})) : t \in Tag}
    \cup {r \in Succeeded(l) : l[r].target # None}

(* release_tag: a rollback's own. *)
ReleaseTag(l, r) == IF l[r].target = None THEN l[r].tag ELSE r

(* Mutant of EligibleTargets: only the newest record of a tag is looked at. *)
EligibleByNewest(l) ==
  {r \in Succeeded(l) \ {FindLatestDeployed(l)} :
     \A q \in Records(l) : ReleaseTag(l, q) = ReleaseTag(l, r) => l[q].created <= l[r].created}

(* What the console offers of the history that status reports: of every tag but the     *)
(* current release's, the newest success.                                               *)
EligibleTargets(l) ==
  LET current == FindLatestDeployed(l)
  IN  {r \in Succeeded(l) :
         /\ current # None => ReleaseTag(l, r) # ReleaseTag(l, current)
         /\ \A q \in Succeeded(l) :
              ReleaseTag(l, q) = ReleaseTag(l, r) => l[q].created <= l[r].created}

-----------------------------------------------------------------------------
(* select_recovery_release: the ledgers boot recovery will not decide about. *)
RecoveryRefuses(l) ==
  LET current == FindLatestDeployed(l)
  IN  \/ InStatus(l, "deploying") # {}
      \/ /\ current = None
         /\ InStatus(l, "failed") \cup InStatus(l, "rolled_back") # {}
      \/ /\ current # None
         /\ \/ l[current].health # "succeeded"
            \/ \E r \in InStatus(l, "deployed") \ {current} : l[r].updated = l[current].updated
            \/ \E r \in InStatus(l, "failed") : l[r].updated >= l[current].updated
            \/ \E r \in InStatus(l, "rolled_back") :
                 l[r].updated >= l[current].updated /\ l[r].previous # current

(* The release boot recovery restores secrets for: None of an empty or refused ledger. *)
RecoveryRelease(l) == IF RecoveryRefuses(l) THEN None ELSE FindLatestDeployed(l)

=============================================================================
