----------------------------- MODULE Retention -----------------------------
(***************************************************************************)
(* What the host keeps of superseded releases.  Every successful deploy or *)
(* rollback of an environment (scope) ends by reclaiming the staged        *)
(* bundles of that scope and the Docker images its records name.  A bundle *)
(* is made for one scope, whose lock the command holds; images belong to   *)
(* the daemon, which the commands of all scopes use at once.               *)
(*                                                                         *)
(* One scope runs one command at a time (ReleaseLifecycle), so a scope is  *)
(* a process here.  Secrets, the database and the proxy are left to        *)
(* ReleaseLifecycle; the steps of a purge and of a failing retire are, too.*)
(***************************************************************************)
EXTENDS Integers, Sequences, FiniteSets

CONSTANTS
  Scope,        \* project/environment pairs
  Image,        \* image digests
  Bundle,       \* bundle digests
  Release,      \* what may be deployed
  ScopeOf, ImageOf, BundleOf,
  Depth,        \* Depth[s]: deployment.retained_releases of the manifests of s
  DefaultDepth, \* DEFAULT_RETAINED_IMAGES
  NoRelease,
  MaxReleases   \* bound: MaxReleases[s] successful releases of s

ASSUME RetentionAssumption ==
  /\ ScopeOf \in [Release -> Scope]
  /\ ImageOf \in [Release -> Image]
  /\ BundleOf \in [Release -> Bundle]
  /\ \A q, r \in Release : BundleOf[q] = BundleOf[r] => ScopeOf[q] = ScopeOf[r]
  /\ Depth \in [Scope -> Nat \ {0}]
  /\ DefaultDepth \in Nat \ {0}
  /\ NoRelease \notin Release
  /\ MaxReleases \in [Scope -> Nat]

VARIABLES
  ledger,     \* ledger[s]: the successful releases of s, oldest first
  named,      \* named[s]: the images its records name, whatever their status
  unfinished, \* scopes with a record in deploying
  retired,    \* scopes with the retired marker
  staged,     \* staged[b]: the directory of bundle b
  images,     \* the images the Docker daemon holds
  running,    \* running[s]: the release whose containers exist
  op          \* op[s]: the command of scope s

vars == <<ledger, named, unfinished, retired, staged, images, running, op>>

-----------------------------------------------------------------------------
(* State spaces *)

Directory == {"absent", "partial", "whole"}

PC == {"idle", "pull", "start", "commit", "restore", "retain", "prune"}

Operation ==
  [pc      : PC,
   rel     : Release \cup {NoRelease},
   bundles : SUBSET Bundle,    \* still to be removed
   images  : SUBSET Image]

Idle == [pc |-> "idle", rel |-> NoRelease, bundles |-> {}, images |-> {}]

TypeOK ==
  /\ ledger \in [Scope -> Seq(Release)]
  /\ \A s \in Scope : Len(ledger[s]) <= MaxReleases[s]
  /\ named \in [Scope -> SUBSET Image]
  /\ unfinished \subseteq Scope
  /\ retired \subseteq Scope
  /\ staged \in [Bundle -> Directory]
  /\ images \subseteq Image
  /\ running \in [Scope -> Release \cup {NoRelease}]
  /\ op \in [Scope -> Operation]

Init ==
  /\ ledger = [s \in Scope |-> <<>>]
  /\ named = [s \in Scope |-> {}]
  /\ unfinished = {}
  /\ retired = {}
  /\ staged = [b \in Bundle |-> "absent"]
  /\ images = {}
  /\ running = [s \in Scope |-> NoRelease]
  /\ op = [s \in Scope |-> Idle]

-----------------------------------------------------------------------------
(* What is worth keeping *)

BundlesOf(s) == {BundleOf[r] : r \in {q \in Release : ScopeOf[q] = s}}

Current(s) == IF ledger[s] = <<>> THEN NoRelease ELSE ledger[s][Len(ledger[s])]

DeployedImages(l) == {ImageOf[l[k]] : k \in DOMAIN l}

NewestWith(l, i) ==
  CHOOSE k \in DOMAIN l : ImageOf[l[k]] = i /\ \A j \in DOMAIN l : ImageOf[l[j]] = i => j <= k

(* The newest depth distinct images.  As depth is positive, the current one is always   *)
(* among them.                                                                          *)
RetainedImages(l, depth) ==
  {i \in DeployedImages(l) :
     Cardinality({j \in DeployedImages(l) : NewestWith(l, j) > NewestWith(l, i)}) < depth}

RetainedBundles(l, depth) ==
  {BundleOf[l[k]] : k \in {j \in DOMAIN l : ImageOf[l[j]] \in RetainedImages(l, depth)}}

(* Mutant of ProtectedImages: the depth of the manifest is not asked. *)
ProtectedByDefault(s) == UNION {RetainedImages(ledger[t], DefaultDepth) : t \in Scope}

(* Every ledger of the host is consulted; s knows the depth of its own manifest only. *)
ProtectedImages(s) ==
  UNION {RetainedImages(ledger[t], IF t = s THEN Depth[s] ELSE DefaultDepth) : t \in Scope}

-----------------------------------------------------------------------------
(* deploy and rollback *)

At(s, pc) == op[s].pc = pc

Goto(s, pc) == op' = [op EXCEPT ![s].pc = pc]

Begin(s, r) == op' = [op EXCEPT ![s] = [Idle EXCEPT !.pc = "pull", !.rel = r]]

(* Mutant of StageBundle: a directory that exists is taken to be complete. *)
StageUnchecked(s, r) ==
  /\ At(s, "idle")
  /\ Len(ledger[s]) < MaxReleases[s]
  /\ ScopeOf[r] = s
  /\ staged' = [staged EXCEPT ![BundleOf[r]] = IF @ = "absent" THEN "whole" ELSE @]
  /\ Begin(s, r)
  /\ UNCHANGED <<ledger, named, unfinished, retired, images, running>>

(* stage_verified_bundle renames a complete directory into place; one that exists and   *)
(* does not have all of its files ends the deploy.                                      *)
StageBundle(s, r) ==
  /\ At(s, "idle")
  /\ Len(ledger[s]) < MaxReleases[s]
  /\ ScopeOf[r] = s
  /\ staged[BundleOf[r]] # "partial"
  /\ staged' = [staged EXCEPT ![BundleOf[r]] = "whole"]
  /\ Begin(s, r)
  /\ UNCHANGED <<ledger, named, unfinished, retired, images, running>>

(* Rollback verifies the bundles of both releases. *)
BeginRollback(s, k) ==
  /\ At(s, "idle")
  /\ Len(ledger[s]) < MaxReleases[s]
  /\ s \notin unfinished \cup retired
  /\ k < Len(ledger[s])
  /\ \A r \in {ledger[s][k], Current(s)} : staged[BundleOf[r]] = "whole"
  /\ Begin(s, ledger[s][k])
  /\ UNCHANGED <<ledger, named, unfinished, retired, staged, images, running>>

(* An image that is present is not pulled.  The record is written afterwards. *)
PullImage(s) ==
  /\ At(s, "pull")
  /\ images' = images \cup {ImageOf[op[s].rel]}
  /\ named' = [named EXCEPT ![s] = @ \cup {ImageOf[op[s].rel]}]
  /\ unfinished' = unfinished \cup {s}
  /\ Goto(s, "start")
  /\ UNCHANGED <<ledger, retired, staged, running>>

(* Deploying the tag of the current release again pulls its image and starts nothing. *)
PullCurrent(s) ==
  /\ At(s, "idle")
  /\ Current(s) # NoRelease
  /\ staged[BundleOf[Current(s)]] # "absent"
  /\ images' = images \cup {ImageOf[Current(s)]}
  /\ UNCHANGED <<ledger, named, unfinished, retired, staged, running, op>>

(* Containers hold their image.  One that went since it was pulled is pulled by compose, *)
(* or the containers do not start.                                                      *)
SetRunning(s, r) ==
  /\ running' = [running EXCEPT ![s] = r]
  /\ images' = images \cup (IF r = NoRelease THEN {} ELSE {ImageOf[r]})

(* The containers start and the proxy is activated, or one of the two fails. *)
StartRelease(s) ==
  /\ At(s, "start")
  /\ \/ SetRunning(s, op[s].rel) /\ Goto(s, "commit")
     \/ /\ \E r \in {running[s], NoRelease, op[s].rel} : SetRunning(s, r)
        /\ Goto(s, "restore")
  /\ UNCHANGED <<ledger, named, unfinished, retired, staged>>

RestorePrevious(s) ==
  /\ At(s, "restore")
  /\ \E r \in {running[s], NoRelease, Current(s)} : SetRunning(s, r)
  /\ unfinished' = unfinished \ {s}
  /\ op' = [op EXCEPT ![s] = Idle]
  /\ UNCHANGED <<ledger, named, retired, staged>>

Commit(s) ==
  /\ At(s, "commit")
  /\ ledger' = [ledger EXCEPT ![s] = Append(@, op[s].rel)]
  /\ unfinished' = unfinished \ {s}
  /\ op' = [op EXCEPT ![s] = [Idle EXCEPT !.pc = "retain"]]
  /\ UNCHANGED <<named, retired, staged, images, running>>

-----------------------------------------------------------------------------
(* run_release_retention *)

(* Nothing is removed before every ledger has been read. *)
PlanRetention(s) ==
  /\ At(s, "retain")
  /\ op' = [op EXCEPT
       ![s].pc = "prune",
       ![s].bundles = {b \in BundlesOf(s) : staged[b] # "absent"}
                        \ RetainedBundles(ledger[s], Depth[s]),
       ![s].images = named[s] \ ProtectedImages(s)]
  /\ UNCHANGED <<ledger, named, unfinished, retired, staged, images, running>>

(* rmtree that fails, or is killed, half way leaves a directory that looks staged. *)
PruneBundle(s, b) ==
  /\ At(s, "prune")
  /\ b \in op[s].bundles
  /\ staged' \in {[staged EXCEPT ![b] = d] : d \in {"absent", "partial", staged[b]}}
  /\ op' = [op EXCEPT ![s].bundles = @ \ {b}]
  /\ UNCHANGED <<ledger, named, unfinished, retired, images, running>>

InUse(i) == \E s \in Scope : running[s] # NoRelease /\ ImageOf[running[s]] = i

(* docker image rm: fails for an image a container holds, and may fail for any other. *)
PruneImage(s, i) ==
  /\ At(s, "prune")
  /\ op[s].bundles = {}
  /\ i \in op[s].images
  /\ images' \in {images, IF InUse(i) THEN images ELSE images \ {i}}
  /\ op' = [op EXCEPT ![s].images = @ \ {i}]
  /\ UNCHANGED <<ledger, named, unfinished, retired, staged, running>>

(* Also when a ledger could not be read and retention was skipped. *)
Finish(s) ==
  /\ At(s, "retain") \/ (At(s, "prune") /\ op[s].bundles \cup op[s].images = {})
  /\ retired' = retired \ {s}
  /\ op' = [op EXCEPT ![s] = Idle]
  /\ UNCHANGED <<ledger, named, unfinished, staged, images, running>>

(* Killed or, in "pull", failed before its record was written. *)
Kill(s) ==
  /\ ~At(s, "idle")
  /\ op' = [op EXCEPT ![s] = Idle]
  /\ UNCHANGED <<ledger, named, unfinished, retired, staged, images, running>>

-----------------------------------------------------------------------------
(* retire and purge *)

Retire(s) ==
  /\ At(s, "idle")
  /\ named[s] # {}
  /\ s \notin unfinished
  /\ running' = [running EXCEPT ![s] = NoRelease]
  /\ retired' \in {retired, retired \cup {s}}
  /\ UNCHANGED <<ledger, named, unfinished, staged, images, op>>

(* The images stay: no record names them any more. *)
Purge(s) ==
  /\ At(s, "idle")
  /\ s \in retired
  /\ ledger' = [ledger EXCEPT ![s] = <<>>]
  /\ named' = [named EXCEPT ![s] = {}]
  /\ unfinished' = unfinished \ {s}
  /\ retired' = retired \ {s}
  /\ staged' = [b \in Bundle |-> IF b \in BundlesOf(s) THEN "absent" ELSE staged[b]]
  /\ running' = [running EXCEPT ![s] = NoRelease]
  /\ UNCHANGED <<images, op>>

Next ==
  \E s \in Scope :
    \/ \E r \in Release : StageBundle(s, r)
    \/ \E k \in DOMAIN ledger[s] : BeginRollback(s, k)
    \/ PullImage(s) \/ PullCurrent(s) \/ StartRelease(s)
    \/ RestorePrevious(s) \/ Commit(s) \/ PlanRetention(s)
    \/ \E b \in Bundle : PruneBundle(s, b)
    \/ \E i \in Image : PruneImage(s, i)
    \/ Finish(s) \/ Kill(s) \/ Retire(s) \/ Purge(s)

Spec == Init /\ [][Next]_vars

-----------------------------------------------------------------------------
(* Properties *)

(* For every image a scope retains, the bundle of the newest release with that image is *)
(* staged and whole, whatever prune was killed or failed half way: the current release  *)
(* can be recovered after a reboot, a failed deploy can restore it, and the releases    *)
(* within the retained depth can be rolled back to.                                     *)
RetainedBundlesWhole ==
  \A s \in Scope : \A i \in RetainedImages(ledger[s], Depth[s]) :
    staged[BundleOf[ledger[s][NewestWith(ledger[s], i)]]] = "whole"

(* An image that no other scope has a record of only goes missing once its scope does   *)
(* not retain it: a scope whose images are its own keeps them, whatever it prunes       *)
(* itself and whatever other scopes planned to remove.                                  *)
OwnImagesStay ==
  [][\A s \in Scope : \A i \in Image \ (images' \cup UNION {named[t] : t \in Scope \ {s}}) :
       i \in RetainedImages(ledger'[s], Depth[s]) =>
         i \in RetainedImages(ledger[s], Depth[s]) \ images]_vars

=============================================================================
