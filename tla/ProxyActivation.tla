-------------------------- MODULE ProxyActivation --------------------------
(***************************************************************************)
(* The reverse proxy of a host and everybody who changes it: deploy and    *)
(* retire commands of several environments (scopes), each of which is one  *)
(* nginx transaction, and the reconciler's timer.  They share the nginx    *)
(* lock, the pending marker, the fragments of vhost.d, the ownership       *)
(* records and default.conf, which docker-gen renders from whatever        *)
(* containers run at that moment.                                          *)
(*                                                                         *)
(* ReleaseLifecycle shows that a scope runs one command at a time, so a    *)
(* scope is a process here.  A rollback is a deploy of an earlier release. *)
(* Basic-auth files ride along with the fragments and are not told apart.  *)
(* Purge only removes the ownership record of a scope that owns nothing.   *)
(***************************************************************************)
EXTENDS Integers, FiniteSets

CONSTANTS
  Scope,        \* project/environment pairs
  Host,         \* domain names
  Release,      \* what a scope may deploy
  ScopeOf,      \* ScopeOf[r]: the scope release r belongs to
  HostsOf,      \* HostsOf[r]: the domains its manifest declares, all in VIRTUAL_HOST
  Rejected,     \* the releases whose fragments `nginx -t` does not accept
  Addr,         \* addresses Docker gives to containers
  Reconciler,   \* the reconciler as a holder of the lock
  None,
  MaxChanges,   \* bound: containers that restart or move on their own
  MaxRenewals   \* bound: certificates issued or renewed

ASSUME ProxyAssumption ==
  /\ ScopeOf \in [Release -> Scope]
  /\ HostsOf \in [Release -> SUBSET Host]
  /\ Rejected \subseteq Release
  /\ Reconciler \notin Scope
  /\ None \notin Scope \cup Release \cup Host \cup {Reconciler}
  /\ MaxChanges \in Nat /\ MaxRenewals \in Nat

VARIABLES
  app,      \* app[s]: the containers of scope s
  current,  \* current[s]: the release its ledger holds for current
  vhost,    \* vhost[h]: the release that wrote the fragment of h
  owner,    \* owner[s]: the hosts the ownership record of s lists
  conf,     \* default.conf: the upstreams of every host
  loaded,   \* what nginx runs with: the files it read at its last reload
  pending,  \* .activation-pending exists
  lock,     \* holder of the nginx transaction lock
  op,       \* op[s]: the command of scope s
  unfinished, \* scopes whose ledger has a record that a killed deploy left in deploying
  rec,      \* the reconciler
  state,    \* .reconciled-state: what the reconciler last applied
  cert,     \* version of the certificate directory
  changes   \* containers that changed on their own so far

vars == <<app, current, vhost, owner, conf, loaded, pending, lock, op, unfinished, rec, state, cert,
          changes>>

-----------------------------------------------------------------------------
(* State spaces *)

Containers == [rel : Release \cup {None}, addr : Addr \cup {None}, up : BOOLEAN]

Down == [rel |-> None, addr |-> None, up |-> FALSE]

Upstream == Release \X Addr

Config == [Host -> SUBSET Upstream]

Fragments == [Host -> Release \cup {None}]

Nginx == [conf : Config, vhost : Fragments, cert : 0..MaxRenewals]

PC == {"idle", "wait", "stage", "start", "install", "render", "test", "own", "reload",
       "commit", "release",
       "restore", "unstage", "rerender", "retest", "rereload", "settle"}

Operation ==
  [pc     : PC,
   rel    : Release \cup {None},                  \* None: release_domains of a retire
   vhost  : Fragments,                            \* snapshots of the transaction
   owner  : SUBSET Host,
   conf   : Config]

Empty == [h \in Host |-> None]
Blank == [h \in Host |-> {}]
Idle  == [pc |-> "idle", rel |-> None, vhost |-> Empty, owner |-> {}, conf |-> Blank]

RecPC == {"idle", "render", "compare", "test", "reload", "state", "undo"}

Reconciling == [pc : RecPC, cert : 0..MaxRenewals, conf : Config, old : Config]

Resting == [pc |-> "idle", cert |-> 0, conf |-> Blank, old |-> Blank]

TypeOK ==
  /\ app \in [Scope -> Containers]
  /\ current \in [Scope -> Release \cup {None}]
  /\ vhost \in Fragments
  /\ owner \in [Scope -> SUBSET Host]
  /\ conf \in Config
  /\ loaded \in Nginx
  /\ pending \in BOOLEAN
  /\ lock \in Scope \cup {Reconciler, None}
  /\ op \in [Scope -> Operation]
  /\ unfinished \subseteq Scope
  /\ rec \in Reconciling
  /\ state \in [conf : Config, cert : -1..MaxRenewals]
  /\ cert \in 0..MaxRenewals
  /\ changes \in 0..MaxChanges

Init ==
  /\ app = [s \in Scope |-> Down]
  /\ current = [s \in Scope |-> None]
  /\ vhost = Empty
  /\ owner = [s \in Scope |-> {}]
  /\ conf = Blank
  /\ loaded = [conf |-> Blank, vhost |-> Empty, cert |-> 0]
  /\ pending = FALSE
  /\ lock = None
  /\ op = [s \in Scope |-> Idle]
  /\ unfinished = {}
  /\ rec = Resting
  /\ state = [conf |-> Blank, cert |-> -1]
  /\ cert = 0
  /\ changes = 0

-----------------------------------------------------------------------------
(* Helpers *)

hostVars  == <<app, current, unfinished, cert, changes>>
proxyVars == <<vhost, owner, conf, loaded>>
recVars   == <<rec, state>>

At(s, pc)   == op[s].pc = pc
Goto(s, pc) == op' = [op EXCEPT ![s].pc = pc]

(* The command ends, normally or not: the lock goes with it. *)
Leave(s) ==
  /\ op' = [op EXCEPT ![s] = Idle]
  /\ lock' = IF lock = s THEN None ELSE lock

Plan(s) == IF op[s].rel = None THEN {} ELSE HostsOf[op[s].rel]

(* docker-gen: every running container, under each of its hosts. *)
Rendering ==
  [h \in Host |-> {<<app[s].rel, app[s].addr>> :
                     s \in {t \in Scope : app[t].up /\ h \in HostsOf[app[t].rel]}}]

ServerNames(c) == {h \in Host : c[h] # {}}

(* regenerate_config: the rendering has every expected host and none of the others. *)
Converged(c, expected, previous) ==
  /\ expected \subseteq ServerNames(c)
  /\ ServerNames(c) \cap (previous \ expected) = {}

(* nginx -t reads default.conf and the fragment of each server name in it. *)
Accepted(c, v) == \A h \in ServerNames(c) : v[h] \notin Rejected

OnDisk == [conf |-> conf, vhost |-> vhost, cert |-> cert]

Started(s, r, up) == {[app EXCEPT ![s] = [rel |-> r, addr |-> a, up |-> up]] : a \in Addr}

-----------------------------------------------------------------------------
(* prepare *)

Owned == UNION {owner[s] : s \in Scope}

(* Mutant of Refused: the plan is not compared with the other owners. *)
RefusedIgnoringOwners(s, plan) ==
  \/ pending
  \/ \E h \in Owned : vhost[h] = None

(* check_no_pending_activation and _prepare_locked: an owned fragment is missing, or a  *)
(* planned one is another scope's or nobody's.                                          *)
Refused(s, plan) ==
  \/ pending
  \/ \E h \in Owned : vhost[h] = None
  \/ \E h \in plan \ owner[s] : vhost[h] # None

Prepare(s, r, pc) ==
  /\ lock = None
  /\ ~Refused(s, IF r = None THEN {} ELSE HostsOf[r])
  /\ lock' = s
  /\ op' = [op EXCEPT ![s] = [pc |-> pc, rel |-> r, vhost |-> vhost, owner |-> owner[s],
                             conf |-> conf]]

(* Until it holds the lock a deploy has changed nothing here: one that is refused, or   *)
(* waits longer than NGINX_LOCK_WAIT_SECONDS, leaves no trace.                          *)
PrepareDeploy(s, r) ==
  /\ At(s, "idle")
  /\ ScopeOf[r] = s
  /\ Prepare(s, r, "stage")
  /\ UNCHANGED <<hostVars, proxyVars, pending, recVars>>

(* retire stops the containers before it asks for the lock.  It wants some record, which *)
(* a deploy that failed early is enough for, and none in deploying.                      *)
BeginRetire(s) ==
  /\ At(s, "idle")
  /\ s \notin unfinished
  /\ app' = [app EXCEPT ![s] = Down]
  /\ op' = [op EXCEPT ![s] = [Idle EXCEPT !.pc = "wait"]]
  /\ UNCHANGED <<current, unfinished, cert, changes, proxyVars, pending, lock, recVars>>

(* Kill covers a retire that is refused or waits too long. *)
PrepareRetire(s) ==
  /\ At(s, "wait")
  /\ Prepare(s, None, "stage")
  /\ UNCHANGED <<hostVars, proxyVars, pending, recVars>>

-----------------------------------------------------------------------------
(* stage and activate *)

Stage(s) ==
  /\ At(s, "stage")
  /\ pending' = TRUE
  /\ Goto(s, IF op[s].rel = None THEN "install" ELSE "start")
  /\ UNCHANGED <<hostVars, proxyVars, lock, recVars>>

StartRelease(s) ==
  /\ At(s, "start")
  /\ \/ /\ app' \in Started(s, op[s].rel, TRUE)
        /\ Goto(s, "install")
     \/ /\ app' \in {app} \cup UNION {Started(s, op[s].rel, up) : up \in BOOLEAN}
        /\ Goto(s, "restore")
  /\ UNCHANGED <<current, unfinished, cert, changes, proxyVars, pending, lock, recVars>>

(* What the fragment of h becomes: only the hosts of the plan and of the previous plan. *)
Planned(s, h) ==
  IF h \in Plan(s) THEN op[s].rel ELSE IF h \in op[s].owner THEN None ELSE vhost[h]

(* Activation failed: the ownership record goes back.  A deploy restores its previous   *)
(* release next; release_domains has nobody to call rollback().                         *)
Fail(s) ==
  /\ owner' = [owner EXCEPT ![s] = op[s].owner]
  /\ IF op[s].rel = None THEN Leave(s) ELSE Goto(s, "restore") /\ UNCHANGED lock

(* Each write is atomic; a kill may come between two. *)
InstallFragment(s, h) ==
  /\ At(s, "install")
  /\ vhost[h] # Planned(s, h)
  /\ vhost' = [vhost EXCEPT ![h] = Planned(s, h)]
  /\ UNCHANGED <<hostVars, owner, conf, loaded, pending, lock, op, recVars>>

Installed(s) ==
  /\ At(s, "install")
  /\ \A h \in Host : vhost[h] = Planned(s, h)
  /\ Goto(s, "render")
  /\ UNCHANGED <<hostVars, proxyVars, pending, lock, recVars>>

(* _install_fragments restores what it found before it raises. *)
InstallFails(s) ==
  /\ At(s, "install")
  /\ vhost' = op[s].vhost
  /\ conf' = op[s].conf
  /\ Fail(s)
  /\ UNCHANGED <<hostVars, loaded, pending, recVars>>

Regenerate(s) ==
  /\ At(s, "render")
  /\ Converged(Rendering, Plan(s), op[s].owner)
  /\ conf' = Rendering
  /\ Goto(s, "test")
  /\ UNCHANGED <<hostVars, vhost, owner, loaded, pending, lock, recVars>>

(* Mutant of TestConfiguration: nginx -t is not asked. *)
SkipTest(s) ==
  /\ At(s, "test")
  /\ Goto(s, "own")
  /\ UNCHANGED <<hostVars, proxyVars, pending, lock, recVars>>

TestConfiguration(s) ==
  /\ At(s, "test")
  /\ Accepted(conf, vhost)
  /\ Goto(s, "own")
  /\ UNCHANGED <<hostVars, proxyVars, pending, lock, recVars>>

WriteOwnership(s) ==
  /\ At(s, "own")
  /\ owner' = [owner EXCEPT ![s] = Plan(s)]
  /\ Goto(s, "reload")
  /\ UNCHANGED <<hostVars, vhost, conf, loaded, pending, lock, recVars>>

ReloadNginx(s) ==
  /\ At(s, "reload")
  /\ loaded' = OnDisk
  /\ Goto(s, IF op[s].rel = None THEN "release" ELSE "commit")
  /\ UNCHANGED <<hostVars, vhost, owner, conf, pending, lock, recVars>>

(* No convergence in 15 seconds, a rejected configuration, a docker command that fails  *)
(* or takes 30 seconds: a reload that was reported as failed may have happened.         *)
ActivateFails(s) ==
  /\ \/ /\ op[s].pc \in {"render", "test", "own"}
        /\ UNCHANGED loaded
     \/ /\ At(s, "reload")
        /\ loaded' \in {loaded, OnDisk}
  /\ Fail(s)
  /\ UNCHANGED <<hostVars, vhost, conf, pending, recVars>>

(* Status deployed, with the lock still held. *)
Commit(s) ==
  /\ At(s, "commit")
  /\ current' = [current EXCEPT ![s] = op[s].rel]
  /\ Goto(s, "release")
  /\ UNCHANGED <<app, unfinished, cert, changes, proxyVars, pending, lock, recVars>>

ReleaseLock(s) ==
  /\ At(s, "release")
  /\ pending' = FALSE
  /\ Leave(s)
  /\ UNCHANGED <<hostVars, proxyVars, recVars>>

-----------------------------------------------------------------------------
(* The failure path of execute_prepared_release, up to the end of prepare() *)

RestorePrevious(s) ==
  /\ At(s, "restore")
  /\ \/ /\ current[s] = None
        /\ app' \in {app, [app EXCEPT ![s] = Down]}
     \/ /\ current[s] # None
        /\ app' \in {app} \cup UNION {Started(s, current[s], up) : up \in BOOLEAN}
  /\ Goto(s, "unstage")
  /\ UNCHANGED <<current, unfinished, cert, changes, proxyVars, pending, lock, recVars>>

(* Mutant of RestoreFiles: the fragments that were removed are not put back. *)
RestorePlanned(s) ==
  /\ At(s, "unstage")
  /\ vhost' = [h \in Host |-> IF h \in Plan(s) THEN op[s].vhost[h] ELSE vhost[h]]
  /\ conf' = op[s].conf
  /\ owner' = [owner EXCEPT ![s] = op[s].owner]
  /\ Goto(s, "rerender")
  /\ UNCHANGED <<hostVars, loaded, pending, lock, recVars>>

RestoreFiles(s) ==
  /\ At(s, "unstage")
  /\ vhost' = [h \in Host |-> IF h \in Plan(s) \cup op[s].owner THEN op[s].vhost[h] ELSE vhost[h]]
  /\ conf' = op[s].conf
  /\ owner' = [owner EXCEPT ![s] = op[s].owner]
  /\ Goto(s, "rerender")
  /\ UNCHANGED <<hostVars, loaded, pending, lock, recVars>>

(* The restored containers may have new addresses: a saved configuration will not do. *)
RegeneratePrevious(s) ==
  /\ At(s, "rerender")
  /\ Converged(Rendering, op[s].owner, Plan(s))
  /\ conf' = Rendering
  /\ Goto(s, "retest")
  /\ UNCHANGED <<hostVars, vhost, owner, loaded, pending, lock, recVars>>

TestPrevious(s) ==
  /\ At(s, "retest")
  /\ Accepted(conf, vhost)
  /\ Goto(s, "rereload")
  /\ UNCHANGED <<hostVars, proxyVars, pending, lock, recVars>>

(* Mutant of ReloadPrevious: nginx is not told. *)
SkipReloadPrevious(s) ==
  /\ At(s, "rereload")
  /\ Goto(s, "settle")
  /\ UNCHANGED <<hostVars, proxyVars, pending, lock, recVars>>

ReloadPrevious(s) ==
  /\ At(s, "rereload")
  /\ loaded' = OnDisk
  /\ Goto(s, "settle")
  /\ UNCHANGED <<hostVars, vhost, owner, conf, pending, lock, recVars>>

(* The exception leaves prepare() with transaction.restored. *)
Settle(s) ==
  /\ At(s, "settle")
  /\ pending' = FALSE
  /\ Leave(s)
  /\ UNCHANGED <<hostVars, proxyVars, recVars>>

(* A step before stage() failed, or rollback() gave up: the record says failed, the     *)
(* lock is free and nothing more is written.  At "settle", the kill came after the      *)
(* record was.                                                                          *)
GiveUp(s) ==
  /\ op[s].pc \in {"stage", "unstage", "rerender", "retest", "rereload", "settle"}
  /\ Leave(s)
  /\ UNCHANGED <<hostVars, proxyVars, pending, recVars>>

(* A kill, or an exception no handler expects.  A retire writes no record. *)
Kill(s) ==
  /\ ~At(s, "idle")
  /\ Leave(s)
  /\ unfinished' = IF op[s].rel = None \/ At(s, "release") THEN unfinished
                                                           ELSE unfinished \cup {s}
  /\ UNCHANGED <<app, current, cert, changes, proxyVars, pending, recVars>>

-----------------------------------------------------------------------------
(* nginx_reconcile.reconcile *)

(* Busy or pending: the run ends at once and the next tick tries again. *)
Tick ==
  /\ rec.pc = "idle"
  /\ lock = None
  /\ ~pending
  /\ lock' = Reconciler
  /\ rec' = [Resting EXCEPT !.pc = "render", !.cert = cert]
  /\ UNCHANGED <<hostVars, proxyVars, pending, op, state>>

RenderCandidate ==
  /\ rec.pc = "render"
  /\ rec' = [rec EXCEPT !.pc = "compare", !.conf = Rendering]
  /\ UNCHANGED <<hostVars, proxyVars, pending, lock, op, state>>

Rest == rec' = Resting /\ lock' = None

(* Mutant of Unchanged: only the configuration is compared. *)
UnchangedConfig == rec.conf = conf

Unchanged == rec.conf = conf /\ state = [conf |-> rec.conf, cert |-> rec.cert]

Compare ==
  /\ rec.pc = "compare"
  /\ \/ /\ rec.cert # cert \/ Unchanged
        /\ Rest
        /\ UNCHANGED conf
     \/ /\ rec.cert = cert /\ ~Unchanged
        /\ conf' = rec.conf
        /\ rec' = [rec EXCEPT !.pc = "test", !.old = conf]
        /\ UNCHANGED lock
  /\ UNCHANGED <<hostVars, vhost, owner, loaded, pending, op, state>>

TestCandidate ==
  /\ rec.pc = "test"
  /\ Accepted(conf, vhost)
  /\ rec' = [rec EXCEPT !.pc = "reload"]
  /\ UNCHANGED <<hostVars, proxyVars, pending, lock, op, state>>

TestCandidateFails ==
  /\ rec.pc = "test"
  /\ conf' = rec.old
  /\ Rest
  /\ UNCHANGED <<hostVars, vhost, owner, loaded, pending, op, state>>

ReloadCandidate ==
  /\ rec.pc = "reload"
  /\ loaded' = OnDisk
  /\ rec' = [rec EXCEPT !.pc = "state"]
  /\ UNCHANGED <<hostVars, vhost, owner, conf, pending, lock, op, state>>

ReloadCandidateFails ==
  /\ rec.pc = "reload"
  /\ loaded' \in {loaded, OnDisk}
  /\ conf' = rec.old
  /\ rec' = [rec EXCEPT !.pc = "undo"]
  /\ UNCHANGED <<hostVars, vhost, owner, pending, lock, op, state>>

(* That the old configuration is refused as well, after a reload that failed, is left out. *)
UndoReload ==
  /\ rec.pc = "undo"
  /\ loaded' = OnDisk
  /\ Rest
  /\ UNCHANGED <<hostVars, vhost, owner, conf, pending, op, state>>

WriteState ==
  /\ rec.pc = "state"
  /\ state' = [conf |-> rec.conf, cert |-> rec.cert]
  /\ Rest
  /\ UNCHANGED <<hostVars, proxyVars, pending, op>>

(* Killed, or docker-gen or a certificate entry could not be read. *)
KillReconciler ==
  /\ rec.pc \notin {"idle", "undo"}
  /\ Rest
  /\ UNCHANGED <<hostVars, proxyVars, pending, op, state>>

-----------------------------------------------------------------------------
(* The environment *)

(* Docker restarts containers: they go away, come back, and may have moved. *)
ContainerChanges(s) ==
  /\ app[s].rel # None
  /\ changes < MaxChanges
  /\ changes' = changes + 1
  /\ app' \in (Started(s, app[s].rel, TRUE) \cup {[app EXCEPT ![s].up = FALSE]}) \ {app}
  /\ UNCHANGED <<current, unfinished, cert, proxyVars, pending, lock, op, recVars>>

(* The certificate companion writes without the lock. *)
Renew ==
  /\ cert < MaxRenewals
  /\ cert' = cert + 1
  /\ UNCHANGED <<app, current, unfinished, changes, proxyVars, pending, lock, op, recVars>>

-----------------------------------------------------------------------------

Command(s) ==
  \/ \E r \in Release : PrepareDeploy(s, r)
  \/ BeginRetire(s) \/ PrepareRetire(s) \/ Stage(s) \/ StartRelease(s)
  \/ \E h \in Host : InstallFragment(s, h)
  \/ Installed(s) \/ InstallFails(s) \/ Regenerate(s) \/ TestConfiguration(s)
  \/ WriteOwnership(s) \/ ReloadNginx(s) \/ ActivateFails(s) \/ Commit(s) \/ ReleaseLock(s)
  \/ RestorePrevious(s) \/ RestoreFiles(s) \/ RegeneratePrevious(s) \/ TestPrevious(s)
  \/ ReloadPrevious(s) \/ Settle(s)
  \/ GiveUp(s) \/ Kill(s)

Reconcile ==
  \/ Tick \/ RenderCandidate \/ Compare \/ TestCandidate \/ TestCandidateFails
  \/ ReloadCandidate \/ ReloadCandidateFails \/ UndoReload \/ WriteState \/ KillReconciler

Next ==
  \/ \E s \in Scope : Command(s) \/ ContainerChanges(s)
  \/ Reconcile \/ Renew

(* systemd starts the reconciler every ten seconds for ever, and its docker commands do *)
(* not fail for ever; of the commands of operators nothing is assumed.                  *)
Fairness ==
  /\ SF_vars(Tick) /\ SF_vars(RenderCandidate) /\ SF_vars(Compare) /\ SF_vars(TestCandidate)
  /\ SF_vars(ReloadCandidate) /\ SF_vars(UndoReload) /\ SF_vars(WriteState)

Spec == Init /\ [][Next]_vars /\ Fairness

-----------------------------------------------------------------------------
(* Properties *)

(* Ownership is what lets one project never overwrite another's domain: no host has two *)
(* owners, and while no activation is pending the fragments on disk are exactly those   *)
(* of the owned hosts, each written by a release of its owner.                          *)
OwnershipIsSound ==
  /\ \A s, t \in Scope : s # t => owner[s] \cap owner[t] = {}
  /\ ~pending =>
       \A h \in Host : IF vhost[h] = None THEN h \notin Owned
                                          ELSE h \in owner[ScopeOf[vhost[h]]]

(* While nobody is half way through an activation, the configuration on disk is one     *)
(* nginx accepts: wherever the reconciler dies and whatever containers do, a restart of *)
(* the proxy comes up.                                                                  *)
ProxyCanRestart == ~pending => Accepted(conf, vhost)

(* The pending marker goes only when nginx runs with what is on disk: neither a commit  *)
(* nor a restored transaction leaves it with files of the other.                        *)
MarkerClearedWhenApplied ==
  [][pending /\ ~pending' => loaded.conf = conf /\ loaded.vhost = vhost]_vars

(* Once the commands have ended and no activation is pending, nginx ends up with the    *)
(* newest certificates, whatever raced the reconciler and wherever its runs were killed. *)
Quiet == ~pending /\ \A s \in Scope : At(s, "idle")

NewCertificatesAreLoaded == <>[]Quiet => <>[](loaded.cert = cert)

(* The transaction is atomic: the domains of a scope switch together when nginx has      *)
(* loaded the plan, whatever fails before goes back to the fragments that were found, and *)
(* what a killed one leaves half done stays behind the pending marker.                    *)
Undecided == lock \in Scope /\ op[lock].pc \notin {"commit", "release"}
Serving   == IF Undecided THEN op[lock].vhost ELSE vhost
Torn      == pending /\ lock \notin Scope

Switching == INSTANCE DomainSwitch WITH serving <- Serving, torn <- Torn

SwitchImplemented == Switching!Spec

=============================================================================
