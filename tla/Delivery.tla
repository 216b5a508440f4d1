----------------------------- MODULE Delivery -----------------------------
(***************************************************************************)
(* From a checkout to a release: an image is built, a bundle is built from *)
(* files that may be edited meanwhile, copied to the host, compared there, *)
(* verified, staged under its digest and recorded.                         *)
(*                                                                         *)
(* A delivery is a run of the Deploy workflow, which has a checkout of one *)
(* commit to itself, or the console's manual deployment, which works in    *)
(* the directory somebody edits.  A checkout is a function from paths to   *)
(* documents; a commit is a checkout.  What a deployment does once its     *)
(* bundle is staged is ReleaseLifecycle's matter.                          *)
(***************************************************************************)
EXTENDS Contract

CONSTANTS
  Run,          \* runs of the workflow
  Hand,         \* workstations
  Tagged,       \* commits with a release tag
  Checkout,     \* what a directory on a workstation may hold, commits or not
  ManifestPath,
  Minute,       \* of the clock, as far as a label tells them apart
  MinimumBuild, \* age recipients the build demands
  MinimumHost,  \* age recipients the host demands
  MaxDeliveries \* a bound: deliveries begun

Worker == Run \cup Hand

ASSUME DeliveryAssumption ==
  /\ Run \cap Hand = {}
  /\ {MinimumBuild, MinimumHost} \subseteq Nat \ {0}
  /\ MaxDeliveries \in Nat

VARIABLES
  tree,          \* tree[w]: the files in the directory of workstation w
  job,           \* job[w]: its delivery
  remote,        \* the bundles in /tmp of the host, by name
  stagedBundles, \* the bundles in the releases directory: each is its own digest
  releases,      \* of the ledger: [label, image, bundle] of every recorded release
  begun          \* deliveries begun so far

deliveryVars == <<tree, job, remote, stagedBundles, releases, begun>>

-----------------------------------------------------------------------------
(* Names *)

(* A release tag: of the commit, and for a deployment by hand also of the minute. *)
RunLabel(commit)    == [by |-> "run", commit |-> commit, at |-> None]
ManualLabel(tag, t) == [by |-> "hand", commit |-> tag, at |-> t]

(* Mutant of RemotePath: one name for all deliveries to an environment. *)
RemotePathByScope(w, label) == [by |-> "scope"]

(* The workflow names the file on the host after its run, the console after the label. *)
RemotePath(w, label) == IF w \in Run THEN [by |-> "run", run |-> w] ELSE label

RemotePaths ==
  [by : {"run"}, run : Run] \cup [by : {"scope"}]
    \cup [by : {"hand"}, commit : Tagged \cap Checkout, at : Minute]

-----------------------------------------------------------------------------
Rest == [pc |-> "idle", label |-> None, image |-> None, read |-> None, bundle |-> None,
         taken |-> None]

Reached(w, pc) == job[w].pc = pc
Advance(w, pc) == job' = [job EXCEPT ![w].pc = pc]
Leave(w)       == job' = [job EXCEPT ![w] = Rest]
Files(w)       == IF w \in Run THEN job[w].label.commit ELSE tree[w]
PathAt(w)      == RemotePath(w, job[w].label)
hostVars       == <<remote, stagedBundles, releases>>

DeliveryInit ==
  /\ tree \in [Hand -> Tagged \cap Checkout]
  /\ job = [w \in Worker |-> Rest]
  /\ remote = [p \in RemotePaths |-> None]
  /\ stagedBundles = {}
  /\ releases = {}
  /\ begun = 0

Admit == begun < MaxDeliveries /\ begun' = begun + 1

-----------------------------------------------------------------------------
(* The image *)

(* reusable-deploy.yml: image and commit are inputs, and the checkout is of the commit. *)
BeginRun(w) ==
  /\ w \in Run /\ Reached(w, "idle") /\ Admit
  /\ \E commit \in Tagged :
       job' = [job EXCEPT ![w] = [Rest EXCEPT !.pc = "collect", !.image = commit,
                                             !.label = RunLabel(commit)]]
  /\ UNCHANGED <<tree, hostVars>>

(* workspace and require_deployable: the tree is clean and at a release tag. *)
BeginManual(w) ==
  /\ w \in Hand /\ Reached(w, "idle") /\ Admit
  /\ tree[w] \in Tagged
  /\ \E t \in Minute :
       job' = [job EXCEPT ![w] = [Rest EXCEPT !.pc = "build", !.label = ManualLabel(tree[w], t)]]
  /\ UNCHANGED <<tree, hostVars>>

(* docker buildx build --push, of the directory as it is. *)
BuildImage(w) ==
  /\ Reached(w, "build")
  /\ \/ job' = [job EXCEPT ![w].pc = "collect", ![w].image = tree[w]]
     \/ Leave(w)
  /\ UNCHANGED <<tree, hostVars, begun>>

Edit(w) ==
  /\ w \in Hand
  /\ \E files \in Checkout : tree' = [tree EXCEPT ![w] = files]
  /\ UNCHANGED <<job, hostVars, begun>>

-----------------------------------------------------------------------------
(* The bundle.  create_bundle reads each file three times: to validate it, for its      *)
(* digest and for the archive.  The dashboards are read once.                           *)

PathOf(m, f) == CASE f = "manifest"      -> ManifestPath
                  [] f = "compose"       -> m.compose
                  [] f = "secrets"       -> m.secrets
                  [] f = "observability" -> Observability

(* Mutant of Collectable: the Compose file is left to the host. *)
CollectableWithoutCompose(files) ==
  LET m == files[ManifestPath]
  IN  m # None /\ ValidManifest(m) /\ ValidSecrets(files[m.secrets], MinimumBuild)

Collectable(files) ==
  LET m == files[ManifestPath]
  IN  /\ m # None /\ ValidManifest(m)
      /\ ValidCompose(m, files[m.compose])
      /\ ValidSecrets(files[m.secrets], MinimumBuild)

Collect(w) ==
  /\ Reached(w, "collect")
  /\ IF Collectable(Files(w))
     THEN job' = [job EXCEPT ![w].pc = "digest", ![w].read = Files(w)[ManifestPath]]
     ELSE Leave(w)
  /\ UNCHANGED <<tree, hostVars, begun>>

(* What the files are when the digests are taken; the paths are those of the manifest   *)
(* that was validated.                                                                  *)
Described(m, files) ==
  [project |-> m.project, environment |-> m.environment,
   files |-> [f \in FileNames(m) |->
                LET x == files[IF f = "observability" THEN m.dashboards ELSE PathOf(m, f)]
                IN  [path |-> PathOf(m, f), sha |-> x, content |-> x]]]

(* The marks of what is absent or torn are no bundles. *)
ASSUME MarksAssumption ==
  \A c \in Tagged : Collectable(c) => Described(c[ManifestPath], c) \notin {None, Torn}

Digest(w) ==
  LET m == job[w].read b == Described(m, Files(w))
  IN  /\ Reached(w, "digest")
      /\ IF /\ \A f \in FileNames(m) : b.files[f].content # None
            /\ m.dashboards # None => CollectDocument(Files(w)[m.dashboards])
            /\ Observability \notin {b.files[f].path : f \in FileNames(m) \ {"observability"}}
         THEN job' = [job EXCEPT ![w].pc = "archive", ![w].bundle = b, ![w].read = None]
         ELSE Leave(w)
      /\ UNCHANGED <<tree, hostVars, begun>>

ReadAgain(f, x, files) ==
  IF f = "observability" THEN x ELSE [x EXCEPT !.content = files[x.path]]

Archive(w) ==
  LET files == [f \in DOMAIN job[w].bundle.files |-> ReadAgain(f, job[w].bundle.files[f], Files(w))]
  IN  /\ Reached(w, "archive")
      /\ IF \A f \in DOMAIN files : files[f].content # None
         THEN job' = [job EXCEPT ![w].pc = "transfer", ![w].bundle.files = files]
         ELSE Leave(w)
      /\ UNCHANGED <<tree, hostVars, begun>>

-----------------------------------------------------------------------------
(* The transfer: ssh with cat > path, then the digest of what is there *)

BeginTransfer(w) ==
  /\ Reached(w, "transfer")
  /\ remote' = [remote EXCEPT ![PathAt(w)] = Torn]
  /\ Advance(w, "transferring")
  /\ UNCHANGED <<tree, stagedBundles, releases, begun>>

EndTransfer(w) ==
  /\ Reached(w, "transferring")
  /\ remote' = [remote EXCEPT ![PathAt(w)] = job[w].bundle]
  /\ Advance(w, "check")
  /\ UNCHANGED <<tree, stagedBundles, releases, begun>>

(* The workflow cleans up whatever failed, the console only after its platform deploy. *)
TransferFails(w) ==
  /\ Reached(w, "transferring")
  /\ IF w \in Run THEN Advance(w, "remove") ELSE Leave(w)
  /\ UNCHANGED <<tree, hostVars, begun>>

CheckDigest(w) ==
  /\ Reached(w, "check")
  /\ Advance(w, IF remote[PathAt(w)] = job[w].bundle THEN "verify" ELSE "remove")
  /\ UNCHANGED <<tree, hostVars, begun>>

RemoveBundle(w) ==
  /\ Reached(w, "remove")
  /\ remote' = [remote EXCEPT ![PathAt(w)] = None]
  /\ Leave(w)
  /\ UNCHANGED <<tree, stagedBundles, releases, begun>>

-----------------------------------------------------------------------------
(* platform deploy *)

(* Mutant of Requested: the checks of the build are trusted. *)
RequestedByName(b, label, image) ==
  LET asked == label.commit[ManifestPath]
  IN  /\ b.project = asked.project /\ b.environment = asked.environment
      /\ b.files["manifest"].content.repository = image[ManifestPath].repository

(* load_deployment_request: the file is read once, verified, and compared with what the *)
(* command was asked for.                                                               *)
Requested(b, label, image) ==
  LET asked == label.commit[ManifestPath]
  IN  /\ Verified(b, MinimumHost)
      /\ b.project = asked.project /\ b.environment = asked.environment
      /\ b.files["manifest"].content.repository = image[ManifestPath].repository

LoadRequest(w) ==
  LET b == remote[PathAt(w)]
  IN  /\ Reached(w, "verify")
      /\ IF b \notin {None, Torn} /\ Requested(b, job[w].label, job[w].image)
         THEN job' = [job EXCEPT ![w].pc = "deploy", ![w].taken = b]
         ELSE Advance(w, "remove")
      /\ UNCHANGED <<tree, hostVars, begun>>

Existing(label) == {r \in releases : r.label = label}

(* Under the lock of the environment: a tag that is recorded already is reused, or      *)
(* refused if it stands for something else; otherwise the bundle is staged, by one      *)
(* rename, and the release recorded, unless a step between the two fails.               *)
Deploy(w) ==
  LET r == [label |-> job[w].label, image |-> job[w].image, bundle |-> job[w].taken]
  IN  /\ Reached(w, "deploy")
      /\ \/ /\ Existing(job[w].label) = {}
            /\ stagedBundles' = stagedBundles \cup {job[w].taken}
            /\ releases' \in {releases, releases \cup {r}}
         \/ /\ Existing(job[w].label) # {}
            /\ UNCHANGED <<stagedBundles, releases>>
      /\ Advance(w, "remove")
      /\ UNCHANGED <<tree, remote, begun>>

-----------------------------------------------------------------------------
(* Runner or workstation dies: nothing is cleaned up. *)
Dies(w) ==
  /\ job[w].pc # "idle"
  /\ Leave(w)
  /\ UNCHANGED <<tree, hostVars, begun>>

Step(w) ==
  \/ BeginRun(w) \/ BeginManual(w) \/ BuildImage(w) \/ Edit(w)
  \/ Collect(w) \/ Digest(w) \/ Archive(w)
  \/ BeginTransfer(w) \/ EndTransfer(w) \/ TransferFails(w) \/ CheckDigest(w) \/ RemoveBundle(w)
  \/ LoadRequest(w) \/ Deploy(w)
  \/ Dies(w)

DeliveryNext == \E w \in Worker : Step(w)

DeliverySpec == DeliveryInit /\ [][DeliveryNext]_deliveryVars

-----------------------------------------------------------------------------
(* Properties *)

(* Whatever is edited while a bundle is built, torn on the way or written over by       *)
(* another delivery: a directory of releases is one whole bundle that passes every      *)
(* check of the contract, so that rollback and boot recovery can load it.               *)
StagedIsAccepted == \A b \in stagedBundles : b # Torn /\ Verified(b, MinimumHost)

(* A release the workflow recorded is one commit: the image it names and every file of  *)
(* its bundle.                                                                          *)
RunIsOneCommit ==
  \A r \in releases :
    r.label.by = "run" =>
      /\ r.image = r.label.commit
      /\ r.bundle = Described(r.image[ManifestPath], r.image)

(* "The build must not make what no host will take": what the workflow built, a host    *)
(* refuses only for its size, for a path that is not in its shortest form, because one  *)
(* file is declared for two purposes, or because the host demands more recipients than  *)
(* the build did.                                                                       *)
BuiltIsTaken ==
  \A w \in Run :
    job[w].pc \in {"transfer", "transferring", "check", "verify"} =>
      LET b == job[w].bundle
      IN  \/ Verified(b, MinimumHost)
          \/ ~WithinLimits(b) \/ ~Canonically(b) \/ ~DistinctPaths(b)
          \/ ~(Cardinality(b.files["secrets"].content.recipients) >= MinimumHost)

=============================================================================
