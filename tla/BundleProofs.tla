---------------------------- MODULE BundleProofs ----------------------------
(***************************************************************************)
(* Theorems about the life of a bundle: how it comes to the releases       *)
(* directory (Delivery) and when it leaves it again (Retention).           *)
(*                                                                         *)
(* Delivery, for any commits, any runs and workstations and any edits:     *)
(* what lies in the releases directory passed every check, what a run of   *)
(* the workflow records is one commit, and what it built a host takes,     *)
(* with the exceptions BuiltIsTaken names.  Documents have no type: an     *)
(* invariant says what records are made of.                                *)
(*                                                                         *)
(* Retention, for any number of scopes, images, bundles and releases and   *)
(* any retained depth: type correctness, and that what is within the       *)
(* retained depth of a scope is not removed by its own retention, whatever *)
(* is killed or fails half way.                                            *)
(***************************************************************************)
EXTENDS Delivery, Retention, FiniteSetTheorems, TLAPS

-----------------------------------------------------------------------------
(* Delivery: the inductive invariant *)

Fields == {"pc", "label", "image", "read", "bundle", "taken"}

Shaped ==
  /\ DOMAIN job = Worker
  /\ \A w \in Worker : DOMAIN job[w] = Fields
  /\ DOMAIN remote = RemotePaths

(* From the digests to the comparison on the host. *)
Bundled  == {"archive", "transfer", "transferring", "check", "verify"}
(* Collected, or about to be, the bundle is the one of this commit. *)
BundleFor(c) == Described(c[ManifestPath], c)

(* What the build has asked of a commit when it describes it. *)
BuildAccepts(c) ==
  /\ Collectable(c)
  /\ c[ManifestPath].dashboards # None => CollectDocument(c[c[ManifestPath].dashboards])

(* A run of the workflow has one commit before it throughout. *)
OneCommit(x) ==
  x.pc # "idle" =>
    /\ x.pc # "build"
    /\ x.image \in Tagged /\ x.label = RunLabel(x.image)
    /\ x.pc = "digest" => x.read = x.image[ManifestPath] /\ Collectable(x.image)
    /\ x.pc \in Bundled => x.bundle = BundleFor(x.image) /\ BuildAccepts(x.image)
    /\ x.pc = "deploy" => x.taken = BundleFor(x.image)

RunsKeepOne == \A w \in Run : OneCommit(job[w])

(* A name on the host that another delivery could write is not the one of a run. *)
ByHand(x)     == x.pc # "idle" => x.label.by = "hand"
HandsAreNamed == \A w \in Hand : ByHand(job[w])

(* What was compared is still there when platform deploy reads it. *)
StillThere == \A w \in Run : job[w].pc = "verify" => remote[PathAt(w)] = job[w].bundle

Passed(x)     == x.pc = "deploy" => x.taken # Torn /\ Verified(x.taken, MinimumHost)
TakenIsPassed == \A w \in Worker : Passed(job[w])

DeliveryInv ==
  /\ Shaped /\ RunsKeepOne /\ HandsAreNamed /\ StillThere /\ TakenIsPassed
  /\ StagedIsAccepted /\ RunIsOneCommit

-----------------------------------------------------------------------------
(* The records *)

(* What a step makes of the record of its delivery leaves the others alone. *)
LEMMA Recorded ==
  ASSUME Shaped, NEW w \in Worker, NEW x, DOMAIN x = Fields, job' = [job EXCEPT ![w] = x]
  PROVE  /\ DOMAIN job' = Worker /\ \A v \in Worker : DOMAIN job'[v] = Fields
         /\ job'[w] = x
         /\ \A v \in Worker \ {w} : job'[v] = job[v]
  BY DEF Shaped

LEMMA IdleRecord ==
  /\ DOMAIN Rest = Fields
  /\ Rest.pc = "idle"
  BY DEF Rest, Fields

(* A step to another place of the program. *)
LEMMA Going ==
  ASSUME Shaped, NEW w \in Worker, NEW pc, Advance(w, pc)
  PROVE  /\ DOMAIN job' = Worker /\ \A v \in Worker : DOMAIN job'[v] = Fields
         /\ \A v \in Worker \ {w} : job'[v] = job[v]
         /\ job'[w].pc = pc
         /\ job'[w].label = job[w].label /\ job'[w].image = job[w].image
         /\ job'[w].read = job[w].read /\ job'[w].bundle = job[w].bundle
         /\ job'[w].taken = job[w].taken
  BY DEF Shaped, Advance, Fields

LEMMA Leaving ==
  ASSUME Shaped, NEW w \in Worker, Leave(w)
  PROVE  /\ DOMAIN job' = Worker /\ \A v \in Worker : DOMAIN job'[v] = Fields
         /\ \A v \in Worker \ {w} : job'[v] = job[v]
         /\ job'[w].pc = "idle"
  BY IdleRecord, Recorded DEF Leave

-----------------------------------------------------------------------------
(* What a step of w leaves alone *)

Others(w) == \A v \in Worker \ {w} : job'[v] = job[v]
Apart(w)  == \A p \in RemotePaths : p # PathAt(w) => remote'[p] = remote[p]

LEMMA WorkerKinds ==
  /\ \A w \in Run : w \in Worker /\ w \notin Hand
  /\ \A w \in Worker : w \in Run \/ w \in Hand
  BY DeliveryAssumption DEF Worker

LEMMA Written ==
  ASSUME Shaped, NEW p, NEW b, remote' = [remote EXCEPT ![p] = b]
  PROVE  /\ DOMAIN remote' = RemotePaths
         /\ \A q \in RemotePaths : q # p => remote'[q] = remote[q]
         /\ p \in RemotePaths => remote'[p] = b
  BY DEF Shaped

LEMMA ShapedSteps ==
  ASSUME Shaped, NEW w \in Worker, Step(w)
  PROVE  Shaped' /\ Others(w) /\ Apart(w)
  <1>1. CASE BeginRun(w) \/ BeginManual(w)
    <2>1. UNCHANGED remote
      BY <1>1 DEF BeginRun, BeginManual, hostVars
    <2>2. \A pc, image, label :
            DOMAIN [Rest EXCEPT !.pc = pc, !.image = image, !.label = label] = Fields
      BY DEF Rest, Fields
    <2>3. \A pc, label : DOMAIN [Rest EXCEPT !.pc = pc, !.label = label] = Fields
      BY DEF Rest, Fields
    <2>4. CASE BeginRun(w)
      BY <2>1, <2>2, <2>4, Recorded DEF BeginRun, Shaped, Others, Apart
    <2>5. CASE BeginManual(w)
      BY <2>1, <2>3, <2>5, Recorded DEF BeginManual, Shaped, Others, Apart
    <2> QED BY <1>1, <2>4, <2>5
  <1>2. CASE BuildImage(w)
    <2>1. UNCHANGED remote
      BY <1>2 DEF BuildImage, hostVars
    <2>2. CASE Leave(w)
      BY <2>1, <2>2, Leaving DEF Shaped, Others, Apart
    <2>3. CASE job' = [job EXCEPT ![w].pc = "collect", ![w].image = tree[w]]
      BY <2>1, <2>3 DEF Shaped, Others, Apart, Fields
    <2> QED BY <1>2, <2>2, <2>3 DEF BuildImage
  <1>3. CASE Edit(w)
    BY <1>3 DEF Edit, hostVars, Shaped, Others, Apart
  <1>4. CASE Collect(w)
    <2>1. UNCHANGED remote
      BY <1>4 DEF Collect, hostVars
    <2>2. CASE Leave(w)
      BY <2>1, <2>2, Leaving DEF Shaped, Others, Apart
    <2>3. CASE job' = [job EXCEPT ![w].pc = "digest", ![w].read = Files(w)[ManifestPath]]
      BY <2>1, <2>3 DEF Shaped, Others, Apart, Fields
    <2> QED BY <1>4, <2>2, <2>3 DEF Collect
  <1>5. CASE Digest(w)
    <2>1. UNCHANGED remote
      BY <1>5 DEF Digest, hostVars
    <2>2. CASE Leave(w)
      BY <2>1, <2>2, Leaving DEF Shaped, Others, Apart
    <2>3. ASSUME NEW b, job' = [job EXCEPT ![w].pc = "archive", ![w].bundle = b, ![w].read = None]
          PROVE  Shaped' /\ Others(w) /\ Apart(w)
      BY <2>1, <2>3 DEF Shaped, Others, Apart, Fields
    <2> QED BY <1>5, <2>2, <2>3 DEF Digest
  <1>6. CASE Archive(w)
    <2>1. UNCHANGED remote
      BY <1>6 DEF Archive, hostVars
    <2>2. CASE Leave(w)
      BY <2>1, <2>2, Leaving DEF Shaped, Others, Apart
    <2>3. ASSUME NEW files, job' = [job EXCEPT ![w].pc = "transfer", ![w].bundle.files = files]
          PROVE  Shaped' /\ Others(w) /\ Apart(w)
      BY <2>1, <2>3 DEF Shaped, Others, Apart, Fields
    <2> QED BY <1>6, <2>2, <2>3 DEF Archive
  <1>7. CASE BeginTransfer(w) \/ EndTransfer(w)
    <2>1. PICK b : remote' = [remote EXCEPT ![PathAt(w)] = b]
      BY <1>7 DEF BeginTransfer, EndTransfer
    <2>2. PICK pc : Advance(w, pc)
      BY <1>7 DEF BeginTransfer, EndTransfer
    <2> QED BY <2>1, <2>2, Written, Going DEF Shaped, Others, Apart
  <1>8. CASE RemoveBundle(w)
    BY <1>8, Written, Leaving DEF RemoveBundle, Shaped, Others, Apart
  <1>9. CASE TransferFails(w) \/ CheckDigest(w) \/ Dies(w) \/ Deploy(w)
    <2>1. UNCHANGED remote
      BY <1>9 DEF TransferFails, CheckDigest, Dies, Deploy, hostVars
    <2>2. Leave(w) \/ \E pc : Advance(w, pc)
      BY <1>9 DEF TransferFails, CheckDigest, Dies, Deploy
    <2> QED BY <2>1, <2>2, Leaving, Going DEF Shaped, Others, Apart
  <1>10. CASE LoadRequest(w)
    <2>1. UNCHANGED remote
      BY <1>10 DEF LoadRequest, hostVars
    <2>2. CASE Advance(w, "remove")
      BY <2>1, <2>2, Going DEF Shaped, Others, Apart
    <2>3. ASSUME NEW b, job' = [job EXCEPT ![w].pc = "deploy", ![w].taken = b]
          PROVE  Shaped' /\ Others(w) /\ Apart(w)
      BY <2>1, <2>3 DEF Shaped, Others, Apart, Fields
    <2> QED BY <1>10, <2>2, <2>3 DEF LoadRequest
  <1> QED
    BY <1>1, <1>2, <1>3, <1>4, <1>5, <1>6, <1>7, <1>8, <1>9, <1>10 DEF Step

-----------------------------------------------------------------------------
(* One commit *)

(* What is read again of a commit is what was read before. *)
LEMMA SameAgain ==
  ASSUME NEW c, NEW m
  PROVE  LET b == Described(m, c)
             files == [f \in DOMAIN b.files |-> ReadAgain(f, b.files[f], c)]
         IN  [b EXCEPT !.files = files] = b
  <1> DEFINE b == Described(m, c)
             files == [f \in DOMAIN b.files |-> ReadAgain(f, b.files[f], c)]
             x(f) == c[IF f = "observability" THEN m.dashboards ELSE PathOf(m, f)]
             file(f) == [path |-> PathOf(m, f), sha |-> x(f), content |-> x(f)]
  <1>1. b.files = [f \in FileNames(m) |-> file(f)]
    BY DEF Described
  <1>2. \A f \in FileNames(m) : ReadAgain(f, file(f), c) = file(f)
    BY DEF ReadAgain
  <1>3. files = b.files
    BY <1>1, <1>2
  <1> QED BY <1>3 DEF Described

LEMMA CheckoutOfRun ==
  ASSUME NEW w \in Run, OneCommit(job[w]), job[w].pc # "idle"
  PROVE  Files(w) = job[w].image
  BY DEF Files, OneCommit, RunLabel

LEMMA RunBegins ==
  ASSUME Shaped, NEW w \in Run, BeginRun(w) \/ BeginManual(w) \/ Edit(w)
  PROVE  OneCommit(job'[w])
  <1>1. BeginRun(w)
    BY WorkerKinds DEF BeginManual, Edit
  <1>2. PICK c \in Tagged :
          job' = [job EXCEPT ![w] = [Rest EXCEPT !.pc = "collect", !.image = c,
                                              !.label = RunLabel(c)]]
    BY <1>1 DEF BeginRun
  <1> DEFINE x == [Rest EXCEPT !.pc = "collect", !.image = c, !.label = RunLabel(c)]
  <1>3. x.pc = "collect" /\ x.image = c /\ x.label = RunLabel(c)
    BY DEF Rest
  <1>4. OneCommit(x)
    BY <1>3 DEF OneCommit, Bundled
  <1>5. job'[w] = x
    BY <1>2, WorkerKinds DEF Shaped
  <1> QED BY <1>4, <1>5

LEMMA RunCollects ==
  ASSUME Shaped, NEW w \in Run, OneCommit(job[w]), Collect(w)
  PROVE  OneCommit(job'[w])
  <1>0. w \in Worker
    BY WorkerKinds
  <1>1. CASE Leave(w)
    BY <1>0, <1>1, Leaving DEF OneCommit
  <1>2. CASE /\ Collectable(Files(w))
             /\ job' = [job EXCEPT ![w].pc = "digest", ![w].read = Files(w)[ManifestPath]]
    <2>1. job[w].pc = "collect"
      BY DEF Collect, Reached
    <2>2. Files(w) = job[w].image
      BY <2>1, CheckoutOfRun
    <2>3. /\ job'[w].pc = "digest" /\ job'[w].read = Files(w)[ManifestPath]
          /\ job'[w].image = job[w].image /\ job'[w].label = job[w].label
      BY <1>0, <1>2 DEF Shaped, Fields
    <2>4. job[w].image \in Tagged /\ job[w].label = RunLabel(job[w].image)
      BY <2>1 DEF OneCommit
    <2> QED BY <1>2, <2>2, <2>3, <2>4 DEF OneCommit, Bundled
  <1> QED BY <1>1, <1>2 DEF Collect

LEMMA RunDigests ==
  ASSUME Shaped, NEW w \in Run, OneCommit(job[w]), Digest(w)
  PROVE  OneCommit(job'[w])
  <1>0. w \in Worker
    BY WorkerKinds
  <1> DEFINE m == job[w].read
             b == Described(m, Files(w))
  <1>1. CASE Leave(w)
    BY <1>0, <1>1, Leaving DEF OneCommit
  <1>2. CASE /\ m.dashboards # None => CollectDocument(Files(w)[m.dashboards])
             /\ job' = [job EXCEPT ![w].pc = "archive", ![w].bundle = b, ![w].read = None]
    <2>1. job[w].pc = "digest"
      BY DEF Digest, Reached
    <2>2. Files(w) = job[w].image
      BY <2>1, CheckoutOfRun
    <2>3. /\ job[w].image \in Tagged /\ job[w].label = RunLabel(job[w].image)
          /\ m = job[w].image[ManifestPath] /\ Collectable(job[w].image)
      BY <2>1 DEF OneCommit
    <2>4. /\ job'[w].pc = "archive" /\ job'[w].bundle = b
          /\ job'[w].image = job[w].image /\ job'[w].label = job[w].label
      BY <1>0, <1>2 DEF Shaped, Fields
    <2>5. BuildAccepts(job[w].image) /\ b = BundleFor(job[w].image)
      BY <1>2, <2>2, <2>3 DEF BuildAccepts, BundleFor
    <2> QED BY <2>3, <2>4, <2>5 DEF OneCommit
  <1> QED BY <1>1, <1>2 DEF Digest

LEMMA RunArchives ==
  ASSUME Shaped, NEW w \in Run, OneCommit(job[w]), Archive(w)
  PROVE  OneCommit(job'[w])
  <1>0. w \in Worker
    BY WorkerKinds
  <1> DEFINE b == job[w].bundle
             files == [f \in DOMAIN b.files |-> ReadAgain(f, b.files[f], Files(w))]
  <1>1. CASE Leave(w)
    BY <1>0, <1>1, Leaving DEF OneCommit
  <1>2. CASE job' = [job EXCEPT ![w].pc = "transfer", ![w].bundle.files = files]
    <2>1. job[w].pc = "archive"
      BY DEF Archive, Reached
    <2>2. Files(w) = job[w].image
      BY <2>1, CheckoutOfRun
    <2>3. /\ job[w].image \in Tagged /\ job[w].label = RunLabel(job[w].image)
          /\ b = BundleFor(job[w].image) /\ BuildAccepts(job[w].image)
      BY <2>1 DEF OneCommit, Bundled
    <2>4. /\ job'[w].pc = "transfer" /\ job'[w].bundle = [b EXCEPT !.files = files]
          /\ job'[w].image = job[w].image /\ job'[w].label = job[w].label
      BY <1>0, <1>2 DEF Shaped, Fields
    <2>5. [b EXCEPT !.files = files] = b
      BY <2>2, <2>3, SameAgain DEF BundleFor
    <2> QED BY <2>3, <2>4, <2>5 DEF OneCommit
  <1> QED BY <1>1, <1>2 DEF Archive

LEMMA RunTransfers ==
  ASSUME Shaped, NEW w \in Run, OneCommit(job[w]),
         BeginTransfer(w) \/ EndTransfer(w) \/ TransferFails(w) \/ CheckDigest(w)
         \/ RemoveBundle(w) \/ Deploy(w) \/ Dies(w) \/ BuildImage(w)
  PROVE  OneCommit(job'[w])
  <1>0. w \in Worker
    BY WorkerKinds
  <1>1. CASE Leave(w)
    BY <1>0, <1>1, Leaving DEF OneCommit
  <1>2. CASE Advance(w, "remove") /\ job[w].pc # "idle"
    BY <1>0, <1>2, Going DEF OneCommit, Bundled
  <1>3. CASE /\ job[w].pc \in Bundled
             /\ \E pc \in {"transferring", "check", "verify"} : Advance(w, pc)
    BY <1>0, <1>3, Going DEF OneCommit, Bundled
  <1>4. CASE BeginTransfer(w) \/ EndTransfer(w) \/ CheckDigest(w)
    BY <1>2, <1>3, <1>4 DEF BeginTransfer, EndTransfer, CheckDigest, Reached, Bundled
  <1>5. CASE TransferFails(w) \/ RemoveBundle(w) \/ Deploy(w) \/ Dies(w)
    BY <1>1, <1>2, <1>5 DEF TransferFails, RemoveBundle, Deploy, Dies,
           Reached
  <1>6. ~BuildImage(w)
    BY DEF BuildImage, Reached, OneCommit
  <1> QED BY <1>4, <1>5, <1>6

LEMMA RunLoads ==
  ASSUME Shaped, StillThere, NEW w \in Run, OneCommit(job[w]), LoadRequest(w)
  PROVE  OneCommit(job'[w])
  <1>0. w \in Worker
    BY WorkerKinds
  <1>1. job[w].pc = "verify"
    BY DEF LoadRequest, Reached
  <1>2. CASE Advance(w, "remove")
    BY <1>0, <1>1, <1>2, Going DEF OneCommit, Bundled
  <1>3. CASE job' = [job EXCEPT ![w].pc = "deploy", ![w].taken = remote[PathAt(w)]]
    <2>1. /\ job'[w].pc = "deploy" /\ job'[w].taken = remote[PathAt(w)]
          /\ job'[w].image = job[w].image /\ job'[w].label = job[w].label
      BY <1>0, <1>3 DEF Shaped, Fields
    <2>2. remote[PathAt(w)] = job[w].bundle
      BY <1>1 DEF StillThere
    <2> QED BY <1>1, <2>1, <2>2 DEF OneCommit, Bundled
  <1> QED BY <1>2, <1>3 DEF LoadRequest

LEMMA RunSteps ==
  ASSUME Shaped, StillThere, NEW w \in Run, OneCommit(job[w]), Step(w)
  PROVE  OneCommit(job'[w])
  BY RunBegins, RunCollects, RunDigests, RunArchives, RunTransfers, RunLoads DEF Step

-----------------------------------------------------------------------------
(* The names on the host *)

LEMMA HandSteps ==
  ASSUME Shaped, NEW w \in Hand, ByHand(job[w]), Step(w)
  PROVE  ByHand(job'[w])
  <1>0. w \in Worker /\ w \notin Run
    BY DeliveryAssumption DEF Worker
  <1>1. CASE Leave(w)
    BY <1>0, <1>1, Leaving DEF ByHand
  <1>2. CASE BeginManual(w)
    <2>1. PICK t :
            job' = [job EXCEPT
              ![w] = [Rest EXCEPT !.pc = "build", !.label = ManualLabel(tree[w], t)]]
      BY <1>2 DEF BeginManual
    <2>2. job'[w].label = ManualLabel(tree[w], t)
      BY <1>0, <2>1 DEF Shaped, Rest
    <2> QED BY <2>2 DEF ByHand, ManualLabel
  <1>3. CASE job[w].pc # "idle" /\ job'[w].label = job[w].label
    BY <1>3 DEF ByHand
  <1>4. CASE Edit(w)
    BY <1>4 DEF Edit
  <1>5. CASE BuildImage(w) \/ Collect(w) \/ Digest(w)
    BY <1>0, <1>1, <1>3, <1>5 DEF BuildImage, Collect, Digest, Reached, Shaped, Fields
  <1>6. CASE Archive(w) \/ LoadRequest(w)
    BY <1>0, <1>1, <1>3, <1>6, Going DEF Archive, LoadRequest, Reached, Shaped, Fields
  <1>7. CASE \/ BeginTransfer(w) \/ EndTransfer(w) \/ TransferFails(w) \/ CheckDigest(w)
             \/ RemoveBundle(w) \/ Deploy(w) \/ Dies(w)
    BY <1>0, <1>1, <1>3, <1>7, Going
       DEF BeginTransfer, EndTransfer, TransferFails, CheckDigest, RemoveBundle, Deploy, Dies,
           Reached
  <1>8. ~BeginRun(w)
    BY <1>0 DEF BeginRun
  <1> QED BY <1>2, <1>4, <1>5, <1>6, <1>7, <1>8 DEF Step

LEMMA PathOfRun ==
  ASSUME NEW w \in Run
  PROVE  PathAt(w) = [by |-> "run", run |-> w] /\ PathAt(w) \in RemotePaths
  BY DEF PathAt, RemotePath, RemotePaths

LEMMA PathsApart ==
  ASSUME HandsAreNamed, NEW v \in Run, NEW w \in Worker \ {v}, job[w].pc # "idle"
  PROVE  PathAt(v) # PathAt(w)
  <1>1. CASE w \in Run
    <2>1. PathAt(v).run = v /\ PathAt(w).run = w
      BY <1>1, PathOfRun
    <2> QED BY <2>1
  <1>2. CASE w \in Hand /\ w \notin Run
    <2>1. PathAt(w) = job[w].label /\ job[w].label.by = "hand"
      BY <1>2 DEF PathAt, RemotePath, HandsAreNamed, ByHand
    <2>2. PathAt(v).by = "run"
      BY PathOfRun
    <2> QED BY <2>1, <2>2
  <1> QED BY <1>1, <1>2 DEF Worker

LEMMA IdleWritesNothing ==
  ASSUME NEW w \in Worker, Step(w), job[w].pc = "idle"
  PROVE  UNCHANGED remote
  <1>1. BeginRun(w) \/ BeginManual(w) \/ Edit(w)
    BY DEF Step, BuildImage, Collect, Digest, Archive, BeginTransfer, EndTransfer, TransferFails,
           CheckDigest, RemoveBundle, LoadRequest, Deploy, Dies, Reached
  <1> QED BY <1>1 DEF BeginRun, BeginManual, Edit, hostVars

(* The only step to the verification is the comparison, and the only one from there to  *)
(* the deployment is the check of what was read.                                        *)
LEMMA ToVerify ==
  ASSUME Shaped, NEW w \in Run, Step(w), job'[w].pc = "verify"
  PROVE  /\ CheckDigest(w)
         /\ remote[PathAt(w)] = job[w].bundle
  <1>0. w \in Worker /\ ~Edit(w) /\ ~BeginManual(w)
    BY WorkerKinds DEF Edit, BeginManual
  <1>1. ~Leave(w)
    BY <1>0, Leaving
  <1>2. ~Advance(w, "remove") /\ ~Advance(w, "transferring") /\ ~Advance(w, "check")
    BY <1>0, Going
  <1>3. ~BeginRun(w)
    BY <1>0 DEF BeginRun, Shaped, Rest
  <1>4. ~BuildImage(w) /\ ~Collect(w)
    BY <1>0, <1>1 DEF BuildImage, Collect, Shaped, Fields
  <1>5. ~Digest(w)
    BY <1>0, <1>1 DEF Digest, Shaped, Fields
  <1>6. ~Archive(w)
    BY <1>0, <1>1 DEF Archive, Shaped, Fields
  <1>7. ~LoadRequest(w)
    BY <1>0, <1>2 DEF LoadRequest, Shaped, Fields
  <1>8. ~BeginTransfer(w) /\ ~EndTransfer(w) /\ ~TransferFails(w) /\ ~RemoveBundle(w)
        /\ ~Deploy(w) /\ ~Dies(w)
    BY <1>1, <1>2 DEF BeginTransfer, EndTransfer, TransferFails, RemoveBundle, Deploy, Dies
  <1>9. CheckDigest(w)
    BY <1>0, <1>3, <1>4, <1>5, <1>6, <1>7, <1>8 DEF Step
  <1> QED BY <1>2, <1>9 DEF CheckDigest

LEMMA ToDeploy ==
  ASSUME Shaped, NEW w \in Worker, Step(w), job'[w].pc = "deploy", job' # job
  PROVE  job'[w].taken # Torn /\ Verified(job'[w].taken, MinimumHost)
  <1>1. ~Leave(w)
    BY Leaving
  <1>2. ~Advance(w, "remove") /\ ~Advance(w, "transferring") /\ ~Advance(w, "check") /\ ~Advance(w, "verify")
    BY Going
  <1>3. ~BeginRun(w) /\ ~BeginManual(w)
    BY DEF BeginRun, BeginManual, Shaped, Rest
  <1>4. ~BuildImage(w) /\ ~Collect(w)
    BY <1>1 DEF BuildImage, Collect, Shaped, Fields
  <1>5. ~Digest(w)
    BY <1>1 DEF Digest, Shaped, Fields
  <1>6. ~Archive(w)
    BY <1>1 DEF Archive, Shaped, Fields
  <1>7. ~CheckDigest(w)
    BY <1>2 DEF CheckDigest
  <1>8. ~BeginTransfer(w) /\ ~EndTransfer(w) /\ ~TransferFails(w) /\ ~RemoveBundle(w)
        /\ ~Deploy(w) /\ ~Dies(w) /\ ~Edit(w)
    BY <1>1, <1>2 DEF BeginTransfer, EndTransfer, TransferFails, RemoveBundle, Deploy, Dies, Edit
  <1>9. LoadRequest(w)
    BY <1>3, <1>4, <1>5, <1>6, <1>7, <1>8 DEF Step
  <1> DEFINE b == remote[PathAt(w)]
  <1>10. /\ b # Torn /\ Requested(b, job[w].label, job[w].image)
         /\ job' = [job EXCEPT ![w].pc = "deploy", ![w].taken = b]
    BY <1>2, <1>9 DEF LoadRequest
  <1>11. job'[w].taken = b
    BY <1>10 DEF Shaped, Fields
  <1> QED BY <1>10, <1>11 DEF Requested

LEMMA StillThereSteps ==
  ASSUME Shaped, StillThere, HandsAreNamed, NEW w \in Worker, Step(w)
  PROVE  StillThere'
  <1> SUFFICES ASSUME NEW v \in Run, job'[v].pc = "verify"
               PROVE  remote'[PathAt(v)'] = job'[v].bundle
    BY DEF StillThere
  <1>1. PathAt(v)' = PathAt(v) /\ PathAt(v) \in RemotePaths
    BY PathOfRun DEF PathAt, RemotePath
  <1>2. CASE v = w
    <2>1. CheckDigest(w) /\ remote[PathAt(w)] = job[w].bundle
      BY <1>2, ToVerify
    <2>2. UNCHANGED remote /\ \E pc : Advance(w, pc)
      BY <2>1 DEF CheckDigest, hostVars
    <2>3. job'[w].bundle = job[w].bundle
      BY <2>2, Going
    <2> QED BY <1>1, <1>2, <2>1, <2>2, <2>3
  <1>3. CASE v # w
    <2>0. v \in Worker
      BY WorkerKinds
    <2>1. job'[v] = job[v]
      BY <1>3, <2>0, ShapedSteps DEF Others
    <2>2. remote[PathAt(v)] = job[v].bundle
      BY <2>1 DEF StillThere
    <2>3. remote'[PathAt(v)] = remote[PathAt(v)]
      <3>1. CASE job[w].pc = "idle"
        BY <3>1, IdleWritesNothing
      <3>2. CASE job[w].pc # "idle"
        BY <1>1, <1>3, <3>2, PathsApart, ShapedSteps DEF Apart
      <3> QED BY <3>1, <3>2
    <2> QED BY <1>1, <2>1, <2>2, <2>3
  <1> QED BY <1>2, <1>3

-----------------------------------------------------------------------------
(* The releases directory and the ledger *)

(* Only a deployment stages and records. *)
LEMMA OnlyDeployRecords ==
  ASSUME NEW w \in Worker, Step(w), ~Deploy(w)
  PROVE  UNCHANGED <<stagedBundles, releases>>
  BY DEF Step, BeginRun, BeginManual, BuildImage, Edit, Collect, Digest, Archive, BeginTransfer,
         EndTransfer, TransferFails, CheckDigest, RemoveBundle, LoadRequest, Dies, hostVars

LEMMA StagedSteps ==
  ASSUME TakenIsPassed, StagedIsAccepted, NEW w \in Worker, Step(w)
  PROVE  StagedIsAccepted'
  <1>1. CASE Deploy(w)
    <2>1. job[w].taken # Torn /\ Verified(job[w].taken, MinimumHost)
      BY <1>1 DEF Deploy, Reached, TakenIsPassed, Passed
    <2>2. stagedBundles' \subseteq stagedBundles \cup {job[w].taken}
      BY <1>1 DEF Deploy
    <2> QED BY <2>1, <2>2 DEF StagedIsAccepted
  <1>2. CASE ~Deploy(w)
    BY <1>2, OnlyDeployRecords DEF StagedIsAccepted
  <1> QED BY <1>1, <1>2

LEMMA RecordedSteps ==
  ASSUME RunsKeepOne, HandsAreNamed, RunIsOneCommit, NEW w \in Worker, Step(w)
  PROVE  RunIsOneCommit'
  <1>1. CASE Deploy(w)
    <2> DEFINE r == [label |-> job[w].label, image |-> job[w].image, bundle |-> job[w].taken]
    <2>1. releases' \subseteq releases \cup {r}
      BY <1>1 DEF Deploy
    <2>2. job[w].pc = "deploy"
      BY <1>1 DEF Deploy, Reached
    <2>3. CASE w \in Run
      <3>1. /\ job[w].label = RunLabel(job[w].image)
            /\ job[w].taken = BundleFor(job[w].image)
        BY <2>2, <2>3 DEF RunsKeepOne, OneCommit
      <3>2. r.image = r.label.commit /\ r.bundle = Described(r.image[ManifestPath], r.image)
        BY <3>1 DEF RunLabel, BundleFor
      <3> QED BY <2>1, <3>2 DEF RunIsOneCommit
    <2>4. CASE w \in Hand
      <3>1. r.label.by # "run"
        BY <2>2, <2>4 DEF HandsAreNamed, ByHand
      <3> QED BY <2>1, <3>1 DEF RunIsOneCommit
    <2> QED BY <2>3, <2>4 DEF Worker
  <1>2. CASE ~Deploy(w)
    BY <1>2, OnlyDeployRecords DEF RunIsOneCommit
  <1> QED BY <1>1, <1>2

-----------------------------------------------------------------------------
(* The invariant *)

LEMMA DeliveryInitially == DeliveryInit => DeliveryInv
  <1> SUFFICES ASSUME DeliveryInit PROVE DeliveryInv
    OBVIOUS
  <1>1. Shaped
    BY IdleRecord DEF DeliveryInit, Shaped
  <1>2. \A w \in Worker : job[w].pc = "idle"
    BY IdleRecord DEF DeliveryInit
  <1>3. RunsKeepOne /\ StillThere
    BY <1>2, WorkerKinds DEF RunsKeepOne, OneCommit, StillThere
  <1>4. HandsAreNamed /\ TakenIsPassed
    BY <1>2 DEF HandsAreNamed, ByHand, TakenIsPassed, Passed, Worker
  <1>5. StagedIsAccepted /\ RunIsOneCommit
    BY DEF DeliveryInit, StagedIsAccepted, RunIsOneCommit
  <1> QED BY <1>1, <1>3, <1>4, <1>5 DEF DeliveryInv

LEMMA DeliveryPreserved == DeliveryInv /\ [DeliveryNext]_deliveryVars => DeliveryInv'
  <1> SUFFICES ASSUME DeliveryInv, [DeliveryNext]_deliveryVars PROVE DeliveryInv'
    OBVIOUS
  <1>0. /\ Shaped /\ RunsKeepOne /\ HandsAreNamed /\ StillThere /\ TakenIsPassed
        /\ StagedIsAccepted /\ RunIsOneCommit
    BY DEF DeliveryInv
  <1>1. ASSUME NEW w \in Worker, Step(w) PROVE DeliveryInv'
    <2>1. Shaped' /\ Others(w)
      BY <1>0, <1>1, ShapedSteps
    <2>2. RunsKeepOne'
      <3>1. \A v \in Run : v # w => job'[v] = job[v]
        BY <2>1, WorkerKinds DEF Others
      <3>2. w \in Run => OneCommit(job'[w])
        BY <1>0, <1>1, RunSteps DEF RunsKeepOne
      <3> QED BY <1>0, <3>1, <3>2 DEF RunsKeepOne
    <2>3. HandsAreNamed'
      <3>1. \A v \in Hand : v # w => job'[v] = job[v]
        BY <2>1 DEF Others, Worker
      <3>2. w \in Hand => ByHand(job'[w])
        BY <1>0, <1>1, HandSteps DEF HandsAreNamed
      <3> QED BY <1>0, <3>1, <3>2 DEF HandsAreNamed
    <2>4. TakenIsPassed'
      <3>1. CASE job' = job
        BY <1>0, <3>1 DEF TakenIsPassed
      <3>2. CASE job' # job
        <4>1. Passed(job'[w])
          BY <1>0, <1>1, <3>2, ToDeploy DEF Passed
        <4>2. \A v \in Worker \ {w} : Passed(job'[v])
          BY <1>0, <2>1 DEF TakenIsPassed, Others
        <4> QED BY <4>1, <4>2 DEF TakenIsPassed
      <3> QED BY <3>1, <3>2
    <2>5. StillThere'
      BY <1>0, <1>1, StillThereSteps
    <2>6. StagedIsAccepted' /\ RunIsOneCommit'
      BY <1>0, <1>1, StagedSteps, RecordedSteps
    <2> QED BY <2>1, <2>2, <2>3, <2>4, <2>5, <2>6 DEF DeliveryInv
  <1>2. CASE UNCHANGED deliveryVars
    <2>1. UNCHANGED <<job, remote, stagedBundles, releases>>
      BY <1>2 DEF deliveryVars
    <2>2. StillThere'
      BY <1>0, <2>1 DEF StillThere, PathAt
    <2> QED
      BY <1>0, <2>1, <2>2 DEF DeliveryInv, Shaped, RunsKeepOne, HandsAreNamed, TakenIsPassed,
                              StagedIsAccepted, RunIsOneCommit
  <1> QED BY <1>1, <1>2 DEF DeliveryNext

LEMMA DeliveryInvariance == DeliverySpec => []DeliveryInv
  <1> QED BY DeliveryInitially, DeliveryPreserved, PTL DEF DeliverySpec

-----------------------------------------------------------------------------
(* What the build made *)

(* What collect_release made of a commit the build accepts passes verify_bundle, for    *)
(* any documents, but for sizes, spellings of paths, a file declared twice, and a host  *)
(* that demands more recipients of a secret than the build.                             *)
THEOREM BuildTakesWhatTheHostTakes ==
  ASSUME NEW c \in Tagged, BuildAccepts(c)
  PROVE  LET b == BundleFor(c)
         IN  \/ Verified(b, MinimumHost)
             \/ ~WithinLimits(b) \/ ~Canonically(b) \/ ~DistinctPaths(b)
             \/ ~(Cardinality(b.files["secrets"].content.recipients) >= MinimumHost)
  <1> DEFINE m == c[ManifestPath]
             b == BundleFor(c)
  <1> SUFFICES ASSUME WithinLimits(b), Canonically(b), DistinctPaths(b),
                      Cardinality(b.files["secrets"].content.recipients) >= MinimumHost
               PROVE  Verified(b, MinimumHost)
    OBVIOUS
  <1>1. /\ ValidManifest(m) /\ ValidCompose(m, c[m.compose])
        /\ ValidSecrets(c[m.secrets], MinimumBuild)
        /\ m.dashboards # None => ValidDocument(c[m.dashboards])
    BY DEF BuildAccepts, Collectable, CollectDocument
  <1>2. /\ b.project = m.project /\ b.environment = m.environment
        /\ DOMAIN b.files = FileNames(m)
        /\ \A f \in FileNames(m) : b.files[f].sha = b.files[f].content
    BY DEF BundleFor, Described
  <1>3. /\ b.files["manifest"].content = m
        /\ b.files["compose"].path = m.compose /\ b.files["compose"].content = c[m.compose]
        /\ b.files["secrets"].path = m.secrets /\ b.files["secrets"].content = c[m.secrets]
    BY DEF BundleFor, Described, FileNames, PathOf
  <1>4. m.dashboards # None => /\ b.files["observability"].path = Observability
                               /\ b.files["observability"].content = c[m.dashboards]
    BY DEF BundleFor, Described, FileNames, PathOf
  <1>5. ValidSecrets(c[m.secrets], MinimumHost)
    BY <1>1, <1>3 DEF ValidSecrets
  <1>6. EmbeddedContract(b, MinimumHost)
    BY <1>1, <1>2, <1>3, <1>4, <1>5 DEF EmbeddedContract
  <1>7. SafeArchive(b)
    BY MarksAssumption DEF SafeArchive, BundleFor, BuildAccepts
  <1>8. DigestsMatch(b)
    BY <1>2 DEF DigestsMatch
  <1> QED BY <1>6, <1>7, <1>8 DEF Verified

(* What a run built is taken by the host, with the exceptions named. *)
LEMMA RunsAreTaken == DeliveryInv => BuiltIsTaken
  <1> SUFFICES ASSUME DeliveryInv, NEW w \in Run,
                      job[w].pc \in {"transfer", "transferring", "check", "verify"}
               PROVE  LET b == job[w].bundle
                      IN  \/ Verified(b, MinimumHost)
                          \/ ~WithinLimits(b) \/ ~Canonically(b) \/ ~DistinctPaths(b)
                          \/ ~(Cardinality(b.files["secrets"].content.recipients) >= MinimumHost)
    BY DEF BuiltIsTaken
  <1>1. /\ job[w].image \in Tagged /\ BuildAccepts(job[w].image)
        /\ job[w].bundle = BundleFor(job[w].image)
    BY DEF DeliveryInv, RunsKeepOne, OneCommit, Bundled
  <1> QED BY <1>1, BuildTakesWhatTheHostTakes

-----------------------------------------------------------------------------
(* The theorems *)

(* Whatever is edited, torn or written over meanwhile, the releases directory holds only *)
(* whole bundles that passed verify_bundle.                                              *)
THEOREM StagedAccepted == DeliverySpec => []StagedIsAccepted
  <1>1. DeliveryInv => StagedIsAccepted
    BY DEF DeliveryInv
  <1> QED BY <1>1, DeliveryInvariance, PTL

(* A release that the workflow recorded names the image and holds the files of one commit. *)
THEOREM RunsRecordOneCommit == DeliverySpec => []RunIsOneCommit
  <1>1. DeliveryInv => RunIsOneCommit
    BY DEF DeliveryInv
  <1> QED BY <1>1, DeliveryInvariance, PTL

(* The build of a run makes only what a host takes, but for sizes, spellings of paths, a  *)
(* file declared twice, and a host that demands more recipients.                          *)
THEOREM BuildsAreTaken == DeliverySpec => []BuiltIsTaken
  <1> QED BY RunsAreTaken, DeliveryInvariance, PTL

(* When platform deploy of a run reads its bundle, it is what was built, whatever other   *)
(* deliveries to the host do.                                                             *)
THEOREM ComparedIsRead == DeliverySpec => []StillThere
  <1>1. DeliveryInv => StillThere
    BY DEF DeliveryInv
  <1> QED BY <1>1, DeliveryInvariance, PTL

-----------------------------------------------------------------------------
(* Retention: the inductive invariant *)

Shipping == {"pull", "start", "commit"}

(* A position of l whose release is the last with image i. *)
IsNewest(l, i, k) ==
  /\ k \in DOMAIN l /\ ImageOf[l[k]] = i
  /\ \A j \in DOMAIN l : ImageOf[l[j]] = i => j <= k

(* What the selections rest on: there are finitely many images in a ledger, and each     *)
(* has a newest release.                                                                 *)
WellFormed(l) ==
  /\ IsFiniteSet(DeployedImages(l))
  /\ \A i \in DeployedImages(l) : \E k \in DOMAIN l : IsNewest(l, i, k)

(* A ledger has releases of its own scope only. *)
Histories ==
  \A s \in Scope : /\ WellFormed(ledger[s])
                   /\ \A k \in DOMAIN ledger[s] : ScopeOf[ledger[s][k]] = s

(* Containers that exist hold their image. *)
Held == \A s \in Scope : running[s] # NoRelease => ImageOf[running[s]] \in images

(* Until it is committed, the release of a command is one of its scope, whole on disk. *)
Ships(s) ==
  op[s].pc \in Shipping =>
    /\ op[s].rel \in Release /\ ScopeOf[op[s].rel] = s
    /\ staged[BundleOf[op[s].rel]] = "whole"
    /\ Len(ledger[s]) < MaxReleases[s]

Runs(s) ==
  /\ op[s].pc = "restore" => op[s].rel \in Release
  /\ op[s].pc = "commit" => running[s] = op[s].rel

(* What is planned for removal is the scope's own and outside the retained depth. *)
Prunes(s) ==
  op[s].pc = "prune" =>
    /\ op[s].bundles \subseteq BundlesOf(s)
    /\ op[s].bundles \cap RetainedBundles(ledger[s], Depth[s]) = {}
    /\ op[s].images \subseteq named[s]
    /\ op[s].images \cap RetainedImages(ledger[s], Depth[s]) = {}

Own(s) == Ships(s) /\ Runs(s) /\ Prunes(s)

RetentionInv ==
  /\ TypeOK /\ Histories /\ Held /\ RetainedBundlesWhole
  /\ \A s \in Scope : Own(s)

-----------------------------------------------------------------------------
(* Lemmas about the selections *)

LEMMA NewestIs ==
  ASSUME NEW l \in Seq(Release), WellFormed(l), NEW i \in DeployedImages(l)
  PROVE  /\ IsNewest(l, i, NewestWith(l, i))
         /\ \A k : IsNewest(l, i, k) => k = NewestWith(l, i)
  <1>1. \E k \in DOMAIN l : IsNewest(l, i, k)
    BY DEF WellFormed
  <1>2. IsNewest(l, i, NewestWith(l, i))
    BY <1>1 DEF IsNewest, NewestWith
  <1>3. ASSUME NEW k, IsNewest(l, i, k) PROVE k = NewestWith(l, i)
    <2>1. k \in 1..Len(l) /\ NewestWith(l, i) \in 1..Len(l)
      BY <1>2, <1>3 DEF IsNewest
    <2>2. k <= NewestWith(l, i) /\ NewestWith(l, i) <= k
      BY <1>2, <1>3 DEF IsNewest
    <2> QED BY <2>1, <2>2
  <1> QED BY <1>2, <1>3

LEMMA EmptyLedger == WellFormed(<<>>) /\ \A d : RetainedImages(<<>>, d) = {}
  <1>1. DeployedImages(<<>>) = {}
    BY DEF DeployedImages
  <1> QED BY <1>1, FS_EmptySet DEF WellFormed, RetainedImages

(* A commit makes its release the newest of its image, and moves no other. *)
LEMMA AppendNewest ==
  ASSUME NEW l \in Seq(Release), WellFormed(l), NEW r \in Release, NEW m \in Seq(Release),
         m = Append(l, r)
  PROVE  /\ \A i : i \in DeployedImages(m) <=> i \in DeployedImages(l) \/ i = ImageOf[r]
         /\ WellFormed(m)
         /\ IsNewest(m, ImageOf[r], Len(m))
         /\ \A i \in DeployedImages(l) : i # ImageOf[r] => IsNewest(m, i, NewestWith(l, i))
  <1>1. /\ Len(m) = Len(l) + 1 /\ Len(l) \in Nat
        /\ DOMAIN m = DOMAIN l \cup {Len(m)} /\ DOMAIN l = 1..Len(l)
        /\ m[Len(m)] = r /\ \A k \in DOMAIN l : m[k] = l[k]
    OBVIOUS
  <1>2. DeployedImages(m) = DeployedImages(l) \cup {ImageOf[r]}
    BY <1>1 DEF DeployedImages
  <1>3. IsNewest(m, ImageOf[r], Len(m))
    BY <1>1 DEF IsNewest
  <1>4. ASSUME NEW i \in DeployedImages(l), i # ImageOf[r]
        PROVE  IsNewest(m, i, NewestWith(l, i)) /\ NewestWith(l, i) \in DOMAIN l
    <2>1. IsNewest(l, i, NewestWith(l, i))
      BY NewestIs
    <2> QED BY <1>1, <1>4, <2>1 DEF IsNewest
  <1>5. WellFormed(m)
    <2>1. IsFiniteSet(DeployedImages(m))
      BY <1>2, FS_AddElement DEF WellFormed
    <2>2. ASSUME NEW i \in DeployedImages(m) PROVE \E k \in DOMAIN m : IsNewest(m, i, k)
      BY <1>1, <1>2, <1>3, <1>4
    <2> QED BY <2>1, <2>2 DEF WellFormed
  <1> QED BY <1>2, <1>3, <1>4, <1>5

(* It brings nothing back into the retained depth: the images ahead of another one only  *)
(* become more.                                                                         *)
LEMMA AppendRetained ==
  ASSUME NEW l \in Seq(Release), WellFormed(l), NEW r \in Release, NEW m \in Seq(Release),
         m = Append(l, r), NEW d \in Nat, NEW i \in RetainedImages(m, d), i # ImageOf[r]
  PROVE  i \in RetainedImages(l, d)
  <1> DEFINE Ahead(h) == {j \in DeployedImages(h) : NewestWith(h, j) > NewestWith(h, i)}
  <1>1. WellFormed(m) /\ IsNewest(m, ImageOf[r], Len(m))
    BY AppendNewest
  <1>2. ASSUME NEW j \in DeployedImages(l), j # ImageOf[r]
        PROVE  IsNewest(m, j, NewestWith(l, j)) /\ j \in DeployedImages(m)
    BY <1>2, AppendNewest
  <1>3. ImageOf[r] \in DeployedImages(m)
    BY AppendNewest
  <1>4. Len(m) = Len(l) + 1 /\ Len(l) \in Nat /\ DOMAIN l = 1..Len(l)
    OBVIOUS
  <1>5. i \in DeployedImages(m) /\ Cardinality(Ahead(m)) < d
    BY DEF RetainedImages
  <1>6. i \in DeployedImages(l)
    BY <1>5, AppendNewest
  <1>7. NewestWith(l, i) \in 1..Len(l) /\ NewestWith(m, i) = NewestWith(l, i)
    <2>1. IsNewest(l, i, NewestWith(l, i))
      BY <1>6, NewestIs
    <2>2. NewestWith(m, i) = NewestWith(l, i)
      BY <1>1, <1>2, <1>5, <1>6, NewestIs
    <2> QED BY <1>4, <2>1, <2>2 DEF IsNewest
  <1>8. Ahead(l) \subseteq Ahead(m)
    <2> SUFFICES ASSUME NEW j \in Ahead(l) PROVE j \in Ahead(m)
      OBVIOUS
    <2>1. j \in DeployedImages(l) /\ NewestWith(l, j) > NewestWith(l, i)
      OBVIOUS
    <2>2. CASE j = ImageOf[r]
      <3>1. NewestWith(m, j) = Len(m)
        BY <1>1, <1>3, <2>2, NewestIs
      <3> QED BY <1>3, <1>4, <1>7, <2>2, <3>1
    <2>3. CASE j # ImageOf[r]
      <3>1. NewestWith(m, j) = NewestWith(l, j) /\ j \in DeployedImages(m)
        BY <1>1, <1>2, <2>1, <2>3, NewestIs
      <3> QED BY <1>7, <2>1, <3>1
    <2> QED BY <2>2, <2>3
  <1>9. IsFiniteSet(Ahead(m))
    BY <1>1, FS_Subset DEF WellFormed
  <1>10. IsFiniteSet(Ahead(l)) /\ Cardinality(Ahead(l)) <= Cardinality(Ahead(m))
    BY <1>8, <1>9, FS_Subset
  <1>11. Cardinality(Ahead(l)) \in Nat /\ Cardinality(Ahead(m)) \in Nat
    BY <1>9, <1>10, FS_CardinalityType
  <1>12. Cardinality(Ahead(l)) < d
    BY <1>5, <1>10, <1>11
  <1> QED BY <1>6, <1>12 DEF RetainedImages

(* The newest release of a retained image has a retained bundle. *)
LEMMA NewestIsRetained ==
  ASSUME NEW l \in Seq(Release), WellFormed(l), NEW d, NEW i \in RetainedImages(l, d)
  PROVE  /\ NewestWith(l, i) \in DOMAIN l /\ ImageOf[l[NewestWith(l, i)]] = i
         /\ BundleOf[l[NewestWith(l, i)]] \in RetainedBundles(l, d)
  <1>1. i \in DeployedImages(l)
    BY DEF RetainedImages
  <1>2. NewestWith(l, i) \in DOMAIN l /\ ImageOf[l[NewestWith(l, i)]] = i
    BY <1>1, NewestIs DEF IsNewest
  <1> QED BY <1>2 DEF RetainedBundles

-----------------------------------------------------------------------------
(* What a step of one scope leaves alone *)

LEMMA RetentionInitially == Init => RetentionInv
  <1> SUFFICES ASSUME Init PROVE RetentionInv
    OBVIOUS
  <1> USE RetentionAssumption DEF Init
  <1>1. Idle \in Operation /\ Idle.pc = "idle"
    BY DEF Idle, Operation, PC
  <1>2. \A s \in Scope : ledger[s] = <<>>
    OBVIOUS
  <1>3. TypeOK
    <2>1. ledger \in [Scope -> Seq(Release)] /\ \A s \in Scope : Len(ledger[s]) <= MaxReleases[s]
      OBVIOUS
    <2>2. staged \in [Bundle -> Directory] /\ op \in [Scope -> Operation]
      BY <1>1 DEF Directory
    <2> QED BY <2>1, <2>2 DEF TypeOK
  <1>4. Histories
    BY <1>2, EmptyLedger DEF Histories
  <1>5. RetainedBundlesWhole
    BY <1>2, EmptyLedger DEF RetainedBundlesWhole
  <1>6. Held
    BY DEF Held
  <1>7. \A s \in Scope : Own(s)
    BY <1>1 DEF Own, Ships, Runs, Prunes, Shipping
  <1> QED BY <1>3, <1>4, <1>5, <1>6, <1>7 DEF RetentionInv

(* A bundle belongs to one scope. *)
LEMMA OneScope ==
  ASSUME NEW s \in Scope, NEW r \in Release, ScopeOf[r] # s
  PROVE  BundleOf[r] \in Bundle \ BundlesOf(s)
  BY RetentionAssumption DEF BundlesOf

(* The commands of other scopes keep what they rely on. *)
LEMMA OthersStay ==
  ASSUME RetentionInv, NEW s \in Scope,
         \A t \in Scope \ {s} : /\ op'[t] = op[t] /\ ledger'[t] = ledger[t]
                              /\ named'[t] = named[t] /\ running'[t] = running[t],
         \A b \in Bundle \ BundlesOf(s) : staged[b] = "whole" => staged'[b] = "whole"
  PROVE  \A t \in Scope \ {s} : Own(t)'
  <1> SUFFICES ASSUME NEW t \in Scope \ {s} PROVE Own(t)'
    OBVIOUS
  <1>1. Own(t)
    BY DEF RetentionInv
  <1>2. Ships(t)'
    <2> SUFFICES ASSUME op[t].pc \in Shipping
                 PROVE  /\ op[t].rel \in Release /\ ScopeOf[op[t].rel] = t
                        /\ staged'[BundleOf[op[t].rel]] = "whole"
                        /\ Len(ledger[t]) < MaxReleases[t]
      BY DEF Ships
    <2>1. /\ op[t].rel \in Release /\ ScopeOf[op[t].rel] = t
          /\ staged[BundleOf[op[t].rel]] = "whole"
          /\ Len(ledger[t]) < MaxReleases[t]
      BY <1>1 DEF Own, Ships
    <2>2. BundleOf[op[t].rel] \in Bundle \ BundlesOf(s)
      BY <2>1, OneScope
    <2> QED BY <2>1, <2>2
  <1>3. Runs(t)' /\ Prunes(t)'
    BY <1>1 DEF Own, Runs, Prunes
  <1> QED BY <1>2, <1>3 DEF Own

(* Whole bundles that stay, and ledgers nobody writes, keep what is retained whole. *)
LEMMA WholeStays ==
  ASSUME RetentionInv, UNCHANGED ledger, \A b \in Bundle : staged[b] = "whole" => staged'[b] = "whole"
  PROVE  RetainedBundlesWhole' /\ Histories'
  <1>1. Histories'
    BY DEF RetentionInv, Histories
  <1>2. ASSUME NEW s \in Scope, NEW i \in RetainedImages(ledger[s], Depth[s])
        PROVE  staged'[BundleOf[ledger[s][NewestWith(ledger[s], i)]]] = "whole"
    <2>1. ledger[s] \in Seq(Release) /\ WellFormed(ledger[s])
      BY DEF RetentionInv, TypeOK, Histories
    <2>2. NewestWith(ledger[s], i) \in DOMAIN ledger[s]
      BY <2>1, NewestIsRetained
    <2>3. ledger[s][NewestWith(ledger[s], i)] \in Release
      BY <2>1, <2>2
    <2>4. staged[BundleOf[ledger[s][NewestWith(ledger[s], i)]]] = "whole"
      BY DEF RetentionInv, RetainedBundlesWhole
    <2> QED BY <2>3, <2>4, RetentionAssumption
  <1> QED BY <1>1, <1>2 DEF RetainedBundlesWhole

(* The pieces of a step that neither writes a ledger nor takes a bundle away. *)
LEMMA Assembled ==
  ASSUME RetentionInv, NEW s \in Scope, TypeOK', Held', Own(s)', UNCHANGED ledger,
         \A t \in Scope \ {s} : op'[t] = op[t] /\ named'[t] = named[t] /\ running'[t] = running[t],
         \A b \in Bundle : staged[b] = "whole" => staged'[b] = "whole"
  PROVE  RetentionInv'
  <1>1. RetainedBundlesWhole' /\ Histories'
    BY WholeStays
  <1>2. \A t \in Scope \ {s} : Own(t)'
    BY OthersStay
  <1> QED BY <1>1, <1>2 DEF RetentionInv

-----------------------------------------------------------------------------
(* deploy and rollback *)

(* The last release of a ledger, if there is one, is a release. *)
LEMMA CurrentIs ==
  ASSUME TypeOK, NEW s \in Scope
  PROVE  Current(s) \in Release \cup {NoRelease}
  <1>1. ledger[s] \in Seq(Release)
    BY DEF TypeOK
  <1> QED BY <1>1 DEF Current

(* Containers of r, or none, take the place of those of s. *)
LEMMA RunKeeps ==
  ASSUME RetentionInv, NEW s \in Scope, NEW r \in Release \cup {NoRelease}, SetRunning(s, r)
  PROVE  /\ running' \in [Scope -> Release \cup {NoRelease}] /\ running'[s] = r
         /\ \A t \in Scope \ {s} : running'[t] = running[t]
         /\ images' \subseteq Image /\ Held'
  <1>1. /\ running' = [running EXCEPT ![s] = r]
        /\ images' = images \cup (IF r = NoRelease THEN {} ELSE {ImageOf[r]})
        /\ running \in [Scope -> Release \cup {NoRelease}] /\ images \subseteq Image
    BY DEF SetRunning, RetentionInv, TypeOK
  <1>2. /\ running' \in [Scope -> Release \cup {NoRelease}] /\ running'[s] = r
        /\ \A t \in Scope \ {s} : running'[t] = running[t]
    BY <1>1
  <1>3. images' \subseteq Image
    BY <1>1, RetentionAssumption
  <1>4. Held'
    BY <1>1, <1>2 DEF Held, RetentionInv
  <1> QED BY <1>2, <1>3, <1>4

LEMMA BeginStep ==
  ASSUME RetentionInv, NEW s \in Scope,
         \/ \E r \in Release : StageBundle(s, r)
         \/ \E k \in DOMAIN ledger[s] : BeginRollback(s, k)
  PROVE  RetentionInv'
  <1>1. TypeOK /\ ledger[s] \in Seq(Release)
    BY DEF RetentionInv, TypeOK
  <1>2. PICK r \in Release :
          /\ Begin(s, r) /\ ScopeOf[r] = s /\ Len(ledger[s]) < MaxReleases[s]
          /\ staged' \in [Bundle -> Directory] /\ staged'[BundleOf[r]] = "whole"
          /\ \A b \in Bundle : staged[b] = "whole" => staged'[b] = "whole"
    <2>1. ASSUME NEW r \in Release, StageBundle(s, r)
          PROVE  /\ Begin(s, r) /\ ScopeOf[r] = s /\ Len(ledger[s]) < MaxReleases[s]
                 /\ staged' \in [Bundle -> Directory] /\ staged'[BundleOf[r]] = "whole"
                 /\ \A b \in Bundle : staged[b] = "whole" => staged'[b] = "whole"
      <3>1. staged' = [staged EXCEPT ![BundleOf[r]] = "whole"] /\ "whole" \in Directory
        BY <2>1 DEF StageBundle, Directory
      <3>2. BundleOf[r] \in Bundle /\ staged \in [Bundle -> Directory]
        BY <1>1, RetentionAssumption DEF TypeOK
      <3> QED BY <2>1, <3>1, <3>2 DEF StageBundle
    <2>2. ASSUME NEW k \in DOMAIN ledger[s], BeginRollback(s, k)
          PROVE  LET r == ledger[s][k]
                 IN  /\ r \in Release /\ Begin(s, r) /\ ScopeOf[r] = s
                     /\ Len(ledger[s]) < MaxReleases[s]
                     /\ staged' \in [Bundle -> Directory] /\ staged'[BundleOf[r]] = "whole"
                     /\ \A b \in Bundle : staged[b] = "whole" => staged'[b] = "whole"
      <3>1. ledger[s][k] \in Release /\ ScopeOf[ledger[s][k]] = s
        BY <1>1 DEF RetentionInv, Histories
      <3>2. staged' = staged /\ staged \in [Bundle -> Directory]
        BY <1>1, <2>2 DEF BeginRollback, TypeOK
      <3> QED BY <2>2, <3>1, <3>2 DEF BeginRollback
    <2> QED BY <2>1, <2>2
  <1>3. UNCHANGED <<ledger, named, unfinished, retired, images, running>>
    BY DEF StageBundle, BeginRollback
  <1>4. /\ [Idle EXCEPT !.pc = "pull", !.rel = r] \in Operation
        /\ [Idle EXCEPT !.pc = "pull", !.rel = r].pc = "pull"
        /\ [Idle EXCEPT !.pc = "pull", !.rel = r].rel = r
    BY DEF Idle, Operation, PC
  <1>5. op' = [op EXCEPT ![s] = [Idle EXCEPT !.pc = "pull", !.rel = r]]
    BY <1>2 DEF Begin
  <1>6. /\ op' \in [Scope -> Operation] /\ op'[s].pc = "pull" /\ op'[s].rel = r
        /\ \A t \in Scope \ {s} : op'[t] = op[t]
    BY <1>1, <1>4, <1>5 DEF TypeOK
  <1>7. TypeOK'
    BY <1>1, <1>2, <1>3, <1>6 DEF TypeOK
  <1>8. Held'
    BY <1>3 DEF RetentionInv, Held
  <1>9. Own(s)'
    BY <1>2, <1>3, <1>6 DEF Own, Ships, Runs, Prunes, Shipping
  <1> QED BY <1>2, <1>3, <1>6, <1>7, <1>8, <1>9, Assembled

LEMMA PullStep ==
  ASSUME RetentionInv, NEW s \in Scope, PullImage(s) \/ PullCurrent(s)
  PROVE  RetentionInv'
  <1>1. TypeOK /\ Own(s)
    BY DEF RetentionInv
  <1>2. CASE PullImage(s)
    <2>1. /\ op[s].pc = "pull" /\ images' = images \cup {ImageOf[op[s].rel]}
          /\ named' = [named EXCEPT ![s] = @ \cup {ImageOf[op[s].rel]}]
          /\ unfinished' = unfinished \cup {s} /\ op' = [op EXCEPT ![s].pc = "start"]
          /\ UNCHANGED <<ledger, retired, staged, running>>
      BY <1>2 DEF PullImage, At, Goto
    <2>2. op[s].rel \in Release
      BY <1>1, <2>1 DEF Own, Ships, Shipping
    <2>3. /\ op' \in [Scope -> Operation] /\ op'[s].pc = "start" /\ op'[s].rel = op[s].rel
          /\ \A t \in Scope \ {s} : op'[t] = op[t]
      BY <1>1, <2>1 DEF TypeOK, Operation, PC
    <2>4. /\ named' \in [Scope -> SUBSET Image] /\ \A t \in Scope \ {s} : named'[t] = named[t]
          /\ images' \subseteq Image
      BY <1>1, <2>1, <2>2, RetentionAssumption DEF TypeOK
    <2>5. TypeOK'
      BY <1>1, <2>1, <2>3, <2>4 DEF TypeOK
    <2>6. Held'
      BY <2>1 DEF RetentionInv, Held
    <2>7. Own(s)'
      BY <1>1, <2>1, <2>3 DEF Own, Ships, Runs, Prunes, Shipping
    <2> QED BY <2>1, <2>3, <2>4, <2>5, <2>6, <2>7, Assembled
  <1>3. CASE PullCurrent(s)
    <2>1. /\ images' = images \cup {ImageOf[Current(s)]} /\ Current(s) # NoRelease
          /\ UNCHANGED <<ledger, named, unfinished, retired, staged, running, op>>
      BY <1>3 DEF PullCurrent
    <2>2. images' \subseteq Image
      BY <1>1, <2>1, CurrentIs, RetentionAssumption DEF TypeOK
    <2>3. TypeOK'
      BY <1>1, <2>1, <2>2 DEF TypeOK
    <2>4. Held'
      BY <2>1 DEF RetentionInv, Held
    <2>5. Own(s)'
      BY <1>1, <2>1 DEF Own, Ships, Runs, Prunes, BundlesOf
    <2> QED BY <2>1, <2>3, <2>4, <2>5, Assembled
  <1> QED BY <1>2, <1>3

LEMMA StartReleaseStep ==
  ASSUME RetentionInv, NEW s \in Scope, StartRelease(s)
  PROVE  RetentionInv'
  <1>1. /\ TypeOK /\ Own(s) /\ op[s].pc = "start"
        /\ UNCHANGED <<ledger, named, unfinished, retired, staged>>
    BY DEF RetentionInv, StartRelease, At
  <1>2. op[s].rel \in Release
    BY <1>1 DEF Own, Ships, Shipping
  <1>3. PICK r \in Release \cup {NoRelease}, pc \in {"commit", "restore"} :
          /\ SetRunning(s, r) /\ op' = [op EXCEPT ![s].pc = pc]
          /\ pc = "commit" => r = op[s].rel
    <2>1. running[s] \in Release \cup {NoRelease}
      BY <1>1 DEF TypeOK
    <2> QED BY <1>2, <2>1 DEF StartRelease, Goto
  <1>4. /\ op' \in [Scope -> Operation] /\ op'[s].pc = pc /\ op'[s].rel = op[s].rel
        /\ \A t \in Scope \ {s} : op'[t] = op[t]
    BY <1>1, <1>3 DEF TypeOK, Operation, PC
  <1>5. /\ running' \in [Scope -> Release \cup {NoRelease}] /\ running'[s] = r
        /\ \A t \in Scope \ {s} : running'[t] = running[t]
        /\ images' \subseteq Image /\ Held'
    BY <1>3, RunKeeps
  <1>6. TypeOK'
    BY <1>1, <1>4, <1>5 DEF TypeOK
  <1>7. Own(s)'
    BY <1>1, <1>2, <1>3, <1>4, <1>5 DEF Own, Ships, Runs, Prunes, Shipping
  <1> QED BY <1>1, <1>4, <1>5, <1>6, <1>7, Assembled

LEMMA IdleFacts == Idle \in Operation /\ Idle.pc = "idle"
  BY DEF Idle, Operation, PC

LEMMA RestorePreviousStep ==
  ASSUME RetentionInv, NEW s \in Scope, RestorePrevious(s)
  PROVE  RetentionInv'
  <1>1. /\ TypeOK /\ unfinished' = unfinished \ {s} /\ op' = [op EXCEPT ![s] = Idle]
        /\ UNCHANGED <<ledger, named, retired, staged>>
    BY DEF RetentionInv, RestorePrevious
  <1>2. PICK r \in Release \cup {NoRelease} : SetRunning(s, r)
    <2>1. running[s] \in Release \cup {NoRelease}
      BY <1>1 DEF TypeOK
    <2> QED BY <1>1, <2>1, CurrentIs DEF RestorePrevious
  <1>3. /\ op' \in [Scope -> Operation] /\ op'[s].pc = "idle"
        /\ \A t \in Scope \ {s} : op'[t] = op[t]
    BY <1>1, IdleFacts DEF TypeOK
  <1>4. /\ running' \in [Scope -> Release \cup {NoRelease}]
        /\ \A t \in Scope \ {s} : running'[t] = running[t]
        /\ images' \subseteq Image /\ Held'
    BY <1>2, RunKeeps
  <1>5. TypeOK'
    BY <1>1, <1>3, <1>4 DEF TypeOK
  <1>6. Own(s)'
    BY <1>3 DEF Own, Ships, Runs, Prunes, Shipping
  <1> QED BY <1>1, <1>3, <1>4, <1>5, <1>6, Assembled

(* A commit adds the one release whose bundle is whole, and retains nothing else that it *)
(* did not retain before.                                                               *)
LEMMA CommitStep ==
  ASSUME RetentionInv, NEW s \in Scope, Commit(s)
  PROVE  RetentionInv'
  <1> DEFINE l == ledger[s]
             r == op[s].rel
             m == Append(l, r)
  <1>1. /\ TypeOK /\ Own(s) /\ op[s].pc = "commit"
        /\ ledger' = [ledger EXCEPT ![s] = m]
        /\ unfinished' = unfinished \ {s} /\ op' = [op EXCEPT ![s] = [Idle EXCEPT !.pc = "retain"]]
        /\ UNCHANGED <<named, retired, staged, images, running>>
    BY DEF RetentionInv, Commit, At
  <1>2. /\ r \in Release /\ ScopeOf[r] = s /\ staged[BundleOf[r]] = "whole"
        /\ Len(l) < MaxReleases[s] /\ l \in Seq(Release) /\ WellFormed(l)
        /\ \A k \in DOMAIN l : ScopeOf[l[k]] = s
    BY <1>1 DEF Own, Ships, Shipping, RetentionInv, Histories, TypeOK
  <1>3. /\ m \in Seq(Release) /\ Len(m) = Len(l) + 1 /\ Len(l) \in Nat
        /\ DOMAIN m = DOMAIN l \cup {Len(m)} /\ m[Len(m)] = r
        /\ \A k \in DOMAIN l : m[k] = l[k]
    BY <1>2
  <1>4. ledger'[s] = m /\ \A t \in Scope \ {s} : ledger'[t] = ledger[t]
    BY <1>1 DEF TypeOK
  <1>5. [Idle EXCEPT !.pc = "retain"] \in Operation /\ [Idle EXCEPT !.pc = "retain"].pc = "retain"
    BY DEF Idle, Operation, PC
  <1>6. /\ op' \in [Scope -> Operation] /\ op'[s].pc = "retain"
        /\ \A t \in Scope \ {s} : op'[t] = op[t]
    BY <1>1, <1>5 DEF TypeOK
  <1>7. TypeOK'
    <2>1. ledger' \in [Scope -> Seq(Release)]
      BY <1>1, <1>3 DEF TypeOK
    <2>2. MaxReleases[s] \in Nat
      BY RetentionAssumption
    <2>3. \A t \in Scope : Len(ledger'[t]) <= MaxReleases[t]
      BY <1>1, <1>2, <1>3, <1>4, <2>2 DEF TypeOK
    <2> QED BY <1>1, <1>6, <2>1, <2>3 DEF TypeOK
  <1> HIDE DEF m
  <1>8. m = Append(l, r)
    BY DEF m
  <1> HIDE DEF l, r
  <1>9. WellFormed(m)
    BY <1>2, <1>3, <1>8, AppendNewest
  <1>10. Histories'
    <2>1. \A k \in DOMAIN m : ScopeOf[m[k]] = s
      BY <1>2, <1>3
    <2> QED BY <1>4, <1>9, <2>1 DEF RetentionInv, Histories
  <1>11. RetainedBundlesWhole'
    <2> SUFFICES ASSUME NEW t \in Scope, NEW i \in RetainedImages(ledger'[t], Depth[t])
                 PROVE  staged[BundleOf[ledger'[t][NewestWith(ledger'[t], i)]]] = "whole"
      BY <1>1 DEF RetainedBundlesWhole
    <2>1. CASE t # s
      BY <1>4, <2>1 DEF RetentionInv, RetainedBundlesWhole
    <2>2. CASE t = s /\ i = ImageOf[r]
      <3>1. IsNewest(m, ImageOf[r], Len(m)) /\ ImageOf[r] \in DeployedImages(m)
        BY <1>2, <1>3, <1>8, AppendNewest
      <3>2. NewestWith(m, i) = Len(m)
        BY <1>3, <1>9, <2>2, <3>1, NewestIs
      <3> QED BY <1>2, <1>3, <1>4, <2>2, <3>2
    <2>3. CASE t = s /\ i # ImageOf[r]
      <3>1. i \in RetainedImages(l, Depth[s])
        BY <1>2, <1>3, <1>4, <1>8, <2>3, AppendRetained, RetentionAssumption
      <3>2. i \in DeployedImages(l)
        BY <3>1 DEF RetainedImages
      <3>3. IsNewest(m, i, NewestWith(l, i)) /\ i \in DeployedImages(m)
        BY <1>2, <1>3, <1>8, <2>3, <3>2, AppendNewest
      <3>4. NewestWith(m, i) = NewestWith(l, i) /\ NewestWith(l, i) \in DOMAIN l
        BY <1>2, <1>3, <1>9, <3>1, <3>3, NewestIs, NewestIsRetained
      <3>5. staged[BundleOf[l[NewestWith(l, i)]]] = "whole"
        BY <3>1 DEF RetentionInv, RetainedBundlesWhole, l
      <3> QED BY <1>3, <1>4, <2>3, <3>4, <3>5
    <2> QED BY <2>1, <2>2, <2>3
  <1>12. Held'
    BY <1>1 DEF RetentionInv, Held
  <1>13. Own(s)'
    BY <1>6 DEF Own, Ships, Runs, Prunes, Shipping
  <1>14. \A t \in Scope \ {s} : Own(t)'
    BY <1>1, <1>4, <1>6, OthersStay
  <1> QED BY <1>7, <1>10, <1>11, <1>12, <1>13, <1>14 DEF RetentionInv

-----------------------------------------------------------------------------
(* Retention *)

LEMMA PlanRetentionStep ==
  ASSUME RetentionInv, NEW s \in Scope, PlanRetention(s)
  PROVE  RetentionInv'
  <1> DEFINE bundles == {b \in BundlesOf(s) : staged[b] # "absent"} \ RetainedBundles(ledger[s], Depth[s])
             pruned == named[s] \ ProtectedImages(s)
  <1>1. /\ TypeOK
        /\ op' = [op EXCEPT ![s].pc = "prune", ![s].bundles = bundles, ![s].images = pruned]
        /\ UNCHANGED <<ledger, named, unfinished, retired, staged, images, running>>
    BY DEF RetentionInv, PlanRetention
  <1>2. bundles \subseteq BundlesOf(s) /\ bundles \cap RetainedBundles(ledger[s], Depth[s]) = {}
    OBVIOUS
  <1>3. pruned \subseteq named[s] /\ pruned \cap RetainedImages(ledger[s], Depth[s]) = {}
    BY DEF ProtectedImages
  <1>4. bundles \subseteq Bundle /\ pruned \subseteq Image
    <2>1. BundlesOf(s) \subseteq Bundle
      BY RetentionAssumption DEF BundlesOf
    <2>2. named[s] \subseteq Image
      BY <1>1 DEF TypeOK
    <2> QED BY <1>2, <1>3, <2>1, <2>2
  <1> HIDE DEF bundles, pruned
  <1>5. /\ op' \in [Scope -> Operation] /\ op'[s].pc = "prune"
        /\ op'[s].bundles = bundles /\ op'[s].images = pruned
        /\ \A t \in Scope \ {s} : op'[t] = op[t]
    BY <1>1, <1>4 DEF TypeOK, Operation, PC
  <1>6. TypeOK'
    BY <1>1, <1>5 DEF TypeOK
  <1>7. Held'
    BY <1>1 DEF RetentionInv, Held
  <1>8. Own(s)'
    BY <1>1, <1>2, <1>3, <1>5 DEF Own, Ships, Runs, Prunes, Shipping
  <1> QED BY <1>1, <1>5, <1>6, <1>7, <1>8, Assembled

LEMMA PruneBundleStep ==
  ASSUME RetentionInv, NEW s \in Scope, NEW b \in Bundle, PruneBundle(s, b)
  PROVE  RetentionInv'
  <1>1. /\ TypeOK /\ Own(s) /\ op[s].pc = "prune" /\ b \in op[s].bundles
        /\ op' = [op EXCEPT ![s].bundles = @ \ {b}]
        /\ UNCHANGED <<ledger, named, unfinished, retired, images, running>>
    BY DEF RetentionInv, PruneBundle, At
  <1>2. PICK d \in {"absent", "partial", staged[b]} : staged' = [staged EXCEPT ![b] = d]
    BY DEF PruneBundle
  <1>3. staged' \in [Bundle -> Directory] /\ \A c \in Bundle \ {b} : staged'[c] = staged[c]
    BY <1>1, <1>2 DEF TypeOK, Directory
  <1>4. /\ op' \in [Scope -> Operation] /\ op'[s].pc = "prune"
        /\ op'[s].bundles = op[s].bundles \ {b} /\ op'[s].images = op[s].images
        /\ \A t \in Scope \ {s} : op'[t] = op[t]
    BY <1>1 DEF TypeOK, Operation
  <1>5. TypeOK'
    BY <1>1, <1>3, <1>4 DEF TypeOK
  <1>6. b \in BundlesOf(s) /\ b \notin RetainedBundles(ledger[s], Depth[s])
    BY <1>1 DEF Own, Prunes
  <1>7. RetainedBundlesWhole'
    <2> SUFFICES ASSUME NEW t \in Scope, NEW i \in RetainedImages(ledger[t], Depth[t])
                 PROVE  staged'[BundleOf[ledger[t][NewestWith(ledger[t], i)]]] = "whole"
      BY <1>1 DEF RetainedBundlesWhole
    <2> DEFINE r == ledger[t][NewestWith(ledger[t], i)]
    <2>1. ledger[t] \in Seq(Release) /\ WellFormed(ledger[t])
      BY <1>1 DEF RetentionInv, TypeOK, Histories
    <2>2. /\ NewestWith(ledger[t], i) \in DOMAIN ledger[t]
          /\ BundleOf[r] \in RetainedBundles(ledger[t], Depth[t])
      BY <2>1, NewestIsRetained
    <2>3. r \in Release /\ ScopeOf[r] = t /\ staged[BundleOf[r]] = "whole"
      BY <2>1, <2>2 DEF RetentionInv, Histories, RetainedBundlesWhole
    <2>4. BundleOf[r] # b
      BY <1>6, <2>2, <2>3, OneScope
    <2> QED BY <1>3, <2>3, <2>4, RetentionAssumption
  <1>8. Histories' /\ Held'
    BY <1>1 DEF RetentionInv, Histories, Held
  <1>9. Own(s)'
    BY <1>1, <1>4 DEF Own, Ships, Runs, Prunes, Shipping, BundlesOf
  <1>10. \A t \in Scope \ {s} : Own(t)'
    BY <1>1, <1>3, <1>4, <1>6, OthersStay
  <1> QED BY <1>5, <1>7, <1>8, <1>9, <1>10 DEF RetentionInv

LEMMA PruneImageStep ==
  ASSUME RetentionInv, NEW s \in Scope, NEW i \in Image, PruneImage(s, i)
  PROVE  RetentionInv'
  <1>1. /\ TypeOK /\ Own(s) /\ op[s].pc = "prune"
        /\ images' \in {images, IF InUse(i) THEN images ELSE images \ {i}}
        /\ op' = [op EXCEPT ![s].images = @ \ {i}]
        /\ UNCHANGED <<ledger, named, unfinished, retired, staged, running>>
    BY DEF RetentionInv, PruneImage, At
  <1>2. /\ op' \in [Scope -> Operation] /\ op'[s].pc = "prune"
        /\ op'[s].bundles = op[s].bundles /\ op'[s].images = op[s].images \ {i}
        /\ \A t \in Scope \ {s} : op'[t] = op[t]
    BY <1>1 DEF TypeOK, Operation
  <1>3. images' \subseteq Image
    BY <1>1 DEF TypeOK
  <1>4. TypeOK'
    BY <1>1, <1>2, <1>3 DEF TypeOK
  <1>5. Held'
    BY <1>1 DEF RetentionInv, Held, InUse
  <1>6. Own(s)'
    BY <1>1, <1>2 DEF Own, Ships, Runs, Prunes, Shipping, BundlesOf
  <1> QED BY <1>1, <1>2, <1>4, <1>5, <1>6, Assembled

LEMMA EndStep ==
  ASSUME RetentionInv, NEW s \in Scope, Finish(s) \/ Kill(s)
  PROVE  RetentionInv'
  <1>1. /\ TypeOK /\ op' = [op EXCEPT ![s] = Idle] /\ retired' \in {retired, retired \ {s}}
        /\ UNCHANGED <<ledger, named, unfinished, staged, images, running>>
    BY DEF RetentionInv, Finish, Kill
  <1>2. /\ op' \in [Scope -> Operation] /\ op'[s].pc = "idle"
        /\ \A t \in Scope \ {s} : op'[t] = op[t]
    BY <1>1, IdleFacts DEF TypeOK
  <1>3. TypeOK'
    BY <1>1, <1>2 DEF TypeOK
  <1>4. Held'
    BY <1>1 DEF RetentionInv, Held
  <1>5. Own(s)'
    BY <1>2 DEF Own, Ships, Runs, Prunes, Shipping
  <1> QED BY <1>1, <1>2, <1>3, <1>4, <1>5, Assembled

-----------------------------------------------------------------------------
(* retire and purge *)

LEMMA RetireStep ==
  ASSUME RetentionInv, NEW s \in Scope, Retire(s)
  PROVE  RetentionInv'
  <1>1. /\ TypeOK /\ op[s].pc = "idle" /\ running' = [running EXCEPT ![s] = NoRelease]
        /\ retired' \in {retired, retired \cup {s}}
        /\ UNCHANGED <<ledger, named, unfinished, staged, images, op>>
    BY DEF RetentionInv, Retire, At
  <1>2. /\ running' \in [Scope -> Release \cup {NoRelease}] /\ running'[s] = NoRelease
        /\ \A t \in Scope \ {s} : running'[t] = running[t]
    BY <1>1 DEF TypeOK
  <1>3. TypeOK'
    BY <1>1, <1>2 DEF TypeOK
  <1>4. Held'
    BY <1>1, <1>2 DEF RetentionInv, Held
  <1>5. Own(s)'
    BY <1>1 DEF Own, Ships, Runs, Prunes, Shipping
  <1> QED BY <1>1, <1>2, <1>3, <1>4, <1>5, Assembled

(* A purge takes its own bundles, and leaves a ledger that retains nothing. *)
LEMMA PurgeStep ==
  ASSUME RetentionInv, NEW s \in Scope, Purge(s)
  PROVE  RetentionInv'
  <1>1. /\ TypeOK /\ op[s].pc = "idle"
        /\ ledger' = [ledger EXCEPT ![s] = <<>>] /\ named' = [named EXCEPT ![s] = {}]
        /\ unfinished' = unfinished \ {s} /\ retired' = retired \ {s}
        /\ staged' = [b \in Bundle |-> IF b \in BundlesOf(s) THEN "absent" ELSE staged[b]]
        /\ running' = [running EXCEPT ![s] = NoRelease]
        /\ UNCHANGED <<images, op>>
    BY DEF RetentionInv, Purge, At
  <1>2. /\ ledger' \in [Scope -> Seq(Release)] /\ ledger'[s] = <<>>
        /\ named' \in [Scope -> SUBSET Image] /\ staged' \in [Bundle -> Directory]
        /\ running' \in [Scope -> Release \cup {NoRelease}] /\ running'[s] = NoRelease
    BY <1>1 DEF TypeOK, Directory
  <1>3. \A t \in Scope \ {s} : /\ ledger'[t] = ledger[t] /\ named'[t] = named[t]
                              /\ running'[t] = running[t]
    BY <1>1 DEF TypeOK
  <1>4. TypeOK'
    <2>1. \A t \in Scope : Len(ledger'[t]) <= MaxReleases[t]
      BY <1>1, <1>2, <1>3, RetentionAssumption DEF TypeOK
    <2> QED BY <1>1, <1>2, <2>1 DEF TypeOK
  <1>5. Histories'
    BY <1>2, <1>3, EmptyLedger DEF RetentionInv, Histories
  <1>6. RetainedBundlesWhole'
    <2> SUFFICES ASSUME NEW t \in Scope, NEW i \in RetainedImages(ledger'[t], Depth[t])
                 PROVE  staged'[BundleOf[ledger'[t][NewestWith(ledger'[t], i)]]] = "whole"
      BY DEF RetainedBundlesWhole
    <2>1. t # s
      BY <1>2, EmptyLedger
    <2> DEFINE r == ledger[t][NewestWith(ledger[t], i)]
    <2>2. ledger'[t] = ledger[t] /\ ledger[t] \in Seq(Release) /\ WellFormed(ledger[t])
      BY <1>1, <1>3, <2>1 DEF RetentionInv, TypeOK, Histories
    <2>3. NewestWith(ledger[t], i) \in DOMAIN ledger[t]
      BY <2>2, NewestIsRetained
    <2>4. r \in Release /\ ScopeOf[r] = t /\ staged[BundleOf[r]] = "whole"
      BY <2>2, <2>3 DEF RetentionInv, Histories, RetainedBundlesWhole
    <2>5. BundleOf[r] \in Bundle \ BundlesOf(s)
      BY <2>1, <2>4, OneScope
    <2> QED BY <1>1, <2>2, <2>4, <2>5
  <1>7. Held'
    BY <1>1, <1>2, <1>3 DEF RetentionInv, Held
  <1>8. Own(s)'
    BY <1>1 DEF Own, Ships, Runs, Prunes, Shipping
  <1>9. \A t \in Scope \ {s} : Own(t)'
    BY <1>1, <1>3, OthersStay
  <1> QED BY <1>4, <1>5, <1>6, <1>7, <1>8, <1>9 DEF RetentionInv

-----------------------------------------------------------------------------
(* Every step *)

LEMMA RetentionPreserved == RetentionInv /\ [Next]_vars => RetentionInv'
  <1> SUFFICES ASSUME RetentionInv, [Next]_vars PROVE RetentionInv'
    OBVIOUS
  <1>1. CASE Next
    BY <1>1, BeginStep, PullStep, StartReleaseStep, RestorePreviousStep, CommitStep,
       PlanRetentionStep, PruneBundleStep, PruneImageStep, EndStep, RetireStep, PurgeStep
    DEF Next
  <1>2. CASE UNCHANGED vars
    BY <1>2 DEF vars, RetentionInv, TypeOK, Histories, Held, RetainedBundlesWhole, Own, Ships, Runs, Prunes,
                BundlesOf
  <1> QED BY <1>1, <1>2

LEMMA RetentionInvariance == Spec => []RetentionInv
  BY RetentionInitially, RetentionPreserved, PTL DEF Spec

-----------------------------------------------------------------------------
(* Theorems *)

(* Ledgers, directories, images, containers and commands have their types. *)
THEOREM RetentionTypeCorrect == Spec => []TypeOK
  <1>1. RetentionInv => TypeOK
    BY DEF RetentionInv
  <1> QED BY <1>1, RetentionInvariance, PTL

(* Whatever retention is killed in or fails to remove, what a scope retains can be rolled *)
(* back to, recovered and restored: its bundles are whole.                              *)
THEOREM RetainedIsWhole == Spec => []RetainedBundlesWhole
  <1>1. RetentionInv => RetainedBundlesWhole
    BY DEF RetentionInv
  <1> QED BY <1>1, RetentionInvariance, PTL

(* Only the retention of another scope that has a record of the same image can remove an *)
(* image a scope retains.                                                               *)
THEOREM ImagesAreKept == Spec => OwnImagesStay
  <1> DEFINE Kept ==
               \A s \in Scope : \A i \in Image \ (images' \cup UNION {named[t] : t \in Scope \ {s}}) :
                 i \in RetainedImages(ledger'[s], Depth[s]) =>
                   i \in RetainedImages(ledger[s], Depth[s]) \ images
  <1>1. ASSUME RetentionInv, [Next]_vars PROVE [Kept]_vars
    <2> SUFFICES ASSUME Next, NEW s \in Scope,
                        NEW i \in Image \ (images' \cup UNION {named[u] : u \in Scope \ {s}}),
                        i \in RetainedImages(ledger'[s], Depth[s])
                 PROVE  i \in RetainedImages(ledger[s], Depth[s]) \ images
      BY <1>1
    <2>1. PICK t \in Scope :
            \/ \E r \in Release : StageBundle(t, r)
            \/ \E k \in DOMAIN ledger[t] : BeginRollback(t, k)
            \/ PullImage(t) \/ PullCurrent(t) \/ StartRelease(t)
            \/ RestorePrevious(t) \/ Commit(t) \/ PlanRetention(t)
            \/ \E b \in Bundle : PruneBundle(t, b)
            \/ \E j \in Image : PruneImage(t, j)
            \/ Finish(t) \/ Kill(t) \/ Retire(t) \/ Purge(t)
      BY DEF Next
    <2>2. CASE UNCHANGED ledger /\ images \subseteq images'
      BY <2>2
    <2>3. CASE Commit(t)
      <3>1. /\ TypeOK /\ Own(t) /\ op[t].pc = "commit" /\ images' = images
            /\ ledger' = [ledger EXCEPT ![t] = Append(@, op[t].rel)]
        BY <1>1, <2>3 DEF RetentionInv, Commit, At
      <3>2. CASE s # t
        BY <3>1, <3>2 DEF TypeOK
      <3>3. CASE s = t
        <4>1. /\ op[t].rel \in Release /\ op[t].rel # NoRelease /\ running[t] = op[t].rel
              /\ ledger[t] \in Seq(Release) /\ WellFormed(ledger[t]) /\ Depth[t] \in Nat
          <5>1. op[t].rel \in Release /\ running[t] = op[t].rel
            BY <3>1 DEF Own, Ships, Runs, Shipping
          <5>2. op[t].rel # NoRelease
            BY <5>1, RetentionAssumption
          <5>3. ledger[t] \in Seq(Release)
            BY <3>1 DEF TypeOK
          <5>4. WellFormed(ledger[t])
            BY <1>1 DEF RetentionInv, Histories
          <5>5. Depth[t] \in Nat
            BY RetentionAssumption
          <5> QED BY <5>1, <5>2, <5>3, <5>4, <5>5
        <4>2. ImageOf[op[t].rel] \in images
          BY <1>1, <4>1 DEF RetentionInv, Held
        <4>3. PICK m \in Seq(Release) : m = Append(ledger[t], op[t].rel)
          <5>1. op[t].rel \in Release /\ ledger[t] \in Seq(Release)
            BY <4>1
          <5>2. Append(ledger[t], op[t].rel) \in Seq(Release)
            BY <5>1
          <5> QED BY <5>2
        <4>4. ledger'[t] = m
          BY <3>1, <4>3 DEF TypeOK
        <4>5. i \in RetainedImages(m, Depth[t]) /\ i # ImageOf[op[t].rel] /\ i \notin images
          BY <3>1, <3>3, <4>2, <4>4
        <4>6. i \in RetainedImages(ledger[t], Depth[t])
          BY <4>1, <4>3, <4>5, AppendRetained
        <4> QED BY <3>3, <4>5, <4>6
      <3> QED BY <3>2, <3>3
    <2>4. ASSUME NEW j \in Image, PruneImage(t, j)
          PROVE  i \in RetainedImages(ledger[s], Depth[s]) \ images
      <3>1. /\ Own(t) /\ op[t].pc = "prune" /\ j \in op[t].images
            /\ images' \in {images, images \ {j}} /\ ledger' = ledger
        BY <1>1, <2>4 DEF RetentionInv, PruneImage, At
      <3>2. j \in named[t] /\ j \notin RetainedImages(ledger[t], Depth[t])
        BY <3>1 DEF Own, Prunes
      <3> QED BY <3>1, <3>2
    <2>5. CASE Purge(t)
      <3>1. TypeOK /\ ledger' = [ledger EXCEPT ![t] = <<>>] /\ images' = images
        BY <1>1, <2>5 DEF RetentionInv, Purge
      <3>2. s # t
        BY <3>1, EmptyLedger DEF TypeOK
      <3> QED BY <3>1, <3>2 DEF TypeOK
    <2>6. \/ UNCHANGED ledger /\ images \subseteq images'
          \/ Commit(t) \/ Purge(t) \/ \E j \in Image : PruneImage(t, j)
      BY <2>1 DEF StageBundle, BeginRollback, PullImage, PullCurrent, StartRelease, RestorePrevious,
                  SetRunning, PlanRetention, PruneBundle, Finish, Kill, Retire
    <2> QED BY <2>2, <2>3, <2>4, <2>5, <2>6
  <1> QED BY <1>1, RetentionInvariance, PTL DEF Spec, OwnImagesStay

=============================================================================
