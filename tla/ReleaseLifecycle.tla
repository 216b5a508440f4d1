------------------------- MODULE ReleaseLifecycle -------------------------
(***************************************************************************)
(* One project/environment on its host: the deploy, rollback, retire and   *)
(* purge commands as the steps they take under the environment's lock, the *)
(* nginx reconciler, kills, reboots and boot recovery.                     *)
(*                                                                         *)
(* Several operators (or CI jobs) may run commands at once: a process p of *)
(* Proc is at step op[p].pc of the command it runs.  A Python exception    *)
(* that the command does not handle, and a kill, are the same action here: *)
(* Kill releases the locks and leaves every file as it is.  One exception  *)
(* that would do otherwise is left out: a ledger that cannot be written    *)
(* after the proxy was restored clears the pending marker all the same.    *)
(*                                                                         *)
(* The nginx lock and the pending marker are shared with the host's other  *)
(* environments; what those do shows here as NginxRefused and              *)
(* RetireRefused, which are always possible.  ProxyActivation models the   *)
(* sharing itself.                                                         *)
(***************************************************************************)
EXTENDS ReleaseLedger

CONSTANTS
  Proc,       \* concurrent invocations of the platform CLI
  Host,       \* domain names
  Migrates,   \* the tags whose manifest has a migration_command
  HostsOf     \* HostsOf[t]: the domains the manifest of tag t declares

ASSUME LifecycleAssumption ==
  /\ None \notin Proc
  /\ Migrates \subseteq Tag
  /\ HostsOf \in [Tag -> SUBSET Host]

VARIABLES
  ledger,     \* the environment's release records
  clock,      \* timestamps: advances with every record written
  retired,    \* retired.json exists
  volume,     \* the database volume exists
  app,        \* the application's containers: whose release, and healthy or not
  env,        \* env[r]: app.env of release r on tmpfs
  nginx,      \* the proxy files of this environment (see NginxState)
  pending,    \* .activation-pending exists
  scopeLock,  \* holder of the project/environment lock
  nginxLock,  \* holder of the nginx transaction lock
  op,         \* op[p]: what process p is doing
  host        \* "up", or "booting": Docker is gated on boot recovery

vars == <<ledger, clock, retired, volume, app, env, nginx, pending,
          scopeLock, nginxLock, op, host>>

-----------------------------------------------------------------------------
(* State spaces *)

PC == {"idle",
       "materialise", "inject", "current_env", "inject_current", "record",      \* prepare
       "validate", "backup", "migrate", "health", "stage", "start", "activate", \* execute
       "commit", "release", "retain", "clear",
       "restore", "unstage", "settle", "exit",                                  \* failure path
       "app_down", "domains", "marker",                                         \* retire
       "confirmed", "purge_down", "purge_trees", "purge_ledger", "purge_rest"}  \* purge

Kind == {"none", "deploy", "redeploy", "rollback", "retire", "purge"}

Operation ==
  [pc       : PC,
   kind     : Kind,
   tag      : Tag \cup {None},
   rel      : Release \cup {None},     \* the candidate (of a redeploy: the running release)
   previous : Release \cup {None},     \* the current release when the command read the ledger
   target   : Release \cup {None},     \* of a rollback
   frag     : SUBSET Host,             \* snapshots taken when the transaction was prepared
   owner    : SUBSET Host,
   staged   : BOOLEAN,                 \* transaction.staged
   clean    : BOOLEAN,                 \* cleanup_errors is empty
   restored : BOOLEAN]                 \* transaction.restored

Idle ==
  [pc |-> "idle", kind |-> "none", tag |-> None, rel |-> None, previous |-> None,
   target |-> None, frag |-> {}, owner |-> {}, staged |-> FALSE, clean |-> TRUE,
   restored |-> FALSE]

Containers == [rel : Release \cup {None}, ok : BOOLEAN]

Down == [rel |-> None, ok |-> FALSE]

(* frag: hosts with a fragment in vhost.d; owner: hosts the ownership record lists;   *)
(* routed: the release whose containers the configuration nginx loaded points at.      *)
NginxState == [frag : SUBSET Host, owner : SUBSET Host, routed : Release \cup {None}]

(* app.env as materialised from the bundle lacks DATABASE_URL until it is injected. *)
EnvFile == {"absent", "partial", "full"}

TypeOK ==
  /\ ledger \in Ledger
  /\ clock \in Nat
  /\ retired \in BOOLEAN
  /\ volume \in BOOLEAN
  /\ app \in Containers
  /\ env \in [Release -> EnvFile]
  /\ nginx \in NginxState
  /\ pending \in BOOLEAN
  /\ scopeLock \in Proc \cup {None}
  /\ nginxLock \in Proc \cup {None}
  /\ op \in [Proc -> Operation]
  /\ host \in {"up", "booting"}

Init ==
  /\ ledger = [r \in Release |-> NoRecord]
  /\ clock = 1
  /\ retired = FALSE
  /\ volume = FALSE
  /\ app = Down
  /\ env = [r \in Release |-> "absent"]
  /\ nginx = [frag |-> {}, owner |-> {}, routed |-> None]
  /\ pending = FALSE
  /\ scopeLock = None
  /\ nginxLock = None
  /\ op = [p \in Proc |-> Idle]
  /\ host = "up"

-----------------------------------------------------------------------------
(* Helpers *)

ledgerVars == <<ledger, clock>>
lockVars   == <<scopeLock, nginxLock>>
proxyVars  == <<nginx, pending>>
hostVars   == <<retired, volume, host>>

At(p, pc) == op[p].pc = pc /\ host = "up"

Goto(p, pc) == op' = [op EXCEPT ![p].pc = pc]

(* The command returns or dies: flock gives up both locks with the process. *)
Leave(p) ==
  /\ op' = [op EXCEPT ![p] = Idle]
  /\ scopeLock' = IF scopeLock = p THEN None ELSE scopeLock
  /\ nginxLock' = IF nginxLock = p THEN None ELSE nginxLock

(* update_release_state of p's candidate, whose other fields stay. *)
UpdateReleaseState(p, status, migration, health) ==
  /\ ledger' = [ledger EXCEPT ![op[p].rel] =
                  [@ EXCEPT !.status = status, !.migration = migration,
                            !.health = health, !.updated = clock]]
  /\ clock' = clock + 1

MigrationOf(p) == ledger[op[p].rel].migration
HealthOf(p)    == ledger[op[p].rel].health

HostsOfRelease(r) == IF r = None \/ ledger[r].tag = None THEN {} ELSE HostsOf[ledger[r].tag]

(* What docker-gen may render: the hosts of the running containers.  Containers that  *)
(* did not come up healthy may or may not be there when it looks.                      *)
Rendered(c) == IF c.ok THEN {c.rel} ELSE {c.rel, None}

(* regenerate_config accepts a rendering with every expected host and no removed one. *)
Converges(r, expected, previous) ==
  /\ expected \subseteq HostsOfRelease(r)
  /\ HostsOfRelease(r) \cap (previous \ expected) = {}

-----------------------------------------------------------------------------
(* run_deploy up to the ledger: decide, materialise, bring the database up, record *)

Unused == InStatus(ledger, "none")

(* Mutant of LockScope: the command goes on when the lock is busy. *)
LockScopeIgnoringBusy(p) == scopeLock' = p

(* project_environment_lock: taken at once or not at all; a busy command just fails. *)
LockScope(p) == scopeLock = None /\ scopeLock' = p

BeginDeploy(p, t) ==
  LET existing == FindByTag(ledger, t)
      current  == FindLatestDeployed(ledger)
      start(kind, r) ==
        op' = [op EXCEPT ![p] = [Idle EXCEPT !.pc = "materialise", !.kind = kind, !.tag = t,
                                             !.rel = r, !.previous = current]]
  IN  /\ At(p, "idle")
      /\ LockScope(p)
      /\ existing # None => ledger[existing].status # "deploying"
      /\ \/ /\ existing # None /\ existing = current
            /\ start("redeploy", existing)
         \/ /\ existing = None \/ existing # current
            /\ \E r \in Unused : start("deploy", r)
      /\ UNCHANGED <<ledgerVars, hostVars, app, env, proxyVars, nginxLock>>

(* materialize_release_secrets rewrites app.env from the bundle, atomically. *)
Materialise(p) ==
  /\ At(p, "materialise")
  /\ env' = [env EXCEPT ![op[p].rel] = "partial"]
  /\ Goto(p, IF op[p].kind = "rollback" THEN "inject_current" ELSE "inject")
  /\ UNCHANGED <<ledgerVars, lockVars, hostVars, app, proxyVars>>

(* prepare_release_database; a redeploy of the current release ends here. *)
InjectDatabase(p) ==
  /\ At(p, "inject")
  /\ volume' = TRUE
  /\ env' = [env EXCEPT ![op[p].rel] = "full"]
  /\ IF op[p].kind = "redeploy" THEN Leave(p)
                                ELSE Goto(p, "record") /\ UNCHANGED lockVars
  /\ UNCHANGED <<ledgerVars, retired, host, app, proxyVars>>

(* Staging, the pull, sops, the database or (rollback) the check of the current        *)
(* release's Compose file fails: the command ends with nothing in the ledger.          *)
PrepareFails(p) ==
  /\ \/ /\ \E pc \in {"materialise", "current_env", "record"} : At(p, pc)
        /\ UNCHANGED volume
     \/ /\ \E pc \in {"inject", "inject_current"} : At(p, pc)
        /\ volume' \in {volume, TRUE}       \* the database may have come up first
  /\ Leave(p)
  /\ UNCHANGED <<ledgerVars, retired, host, app, env, proxyVars>>

WriteReleaseRecord(p) ==
  /\ At(p, "record")
  /\ ledger' = [ledger EXCEPT ![op[p].rel] =
                  IF op[p].kind = "rollback"
                  THEN RollbackRecord(ledger, op[p].target, op[p].previous, clock)
                  ELSE PreparedRecord(op[p].tag, op[p].previous, op[p].tag \in Migrates, clock)]
  /\ clock' = clock + 1
  /\ Goto(p, "validate")
  /\ UNCHANGED <<lockVars, hostVars, app, env, proxyVars>>

-----------------------------------------------------------------------------
(* run_rollback: re-materialises the current release as well as the candidate *)

BeginRollback(p) ==
  LET current == FindLatestDeployed(ledger)
  IN  /\ At(p, "idle")
      /\ LockScope(p)
      /\ InStatus(ledger, "deploying") = {}
      /\ current # None
      /\ ~retired
      /\ \E target \in RollbackTargets(ledger) \ {None, current}, r \in Unused :
           op' = [op EXCEPT ![p] = [Idle EXCEPT !.pc = "current_env", !.kind = "rollback",
                                                !.tag = ledger[target].tag, !.rel = r,
                                                !.previous = current, !.target = target]]
      /\ UNCHANGED <<ledgerVars, hostVars, app, env, proxyVars, nginxLock>>

(* What the console lets an operator roll back to, when status was read just now. *)
Offered ==
  IF retired \/ InStatus(ledger, "deploying") # {} THEN {} ELSE EligibleTargets(ledger)

MaterialiseCurrent(p) ==
  /\ At(p, "current_env")
  /\ env' = [env EXCEPT ![op[p].previous] = "partial"]
  /\ Goto(p, "materialise")
  /\ UNCHANGED <<ledgerVars, lockVars, hostVars, app, proxyVars>>

InjectCurrent(p) ==
  /\ At(p, "inject_current")
  /\ volume' = TRUE
  /\ env' = [env EXCEPT ![op[p].previous] = "full"]
  /\ Goto(p, "inject")
  /\ UNCHANGED <<ledgerVars, lockVars, retired, host, app, proxyVars>>

-----------------------------------------------------------------------------
(* execute_prepared_release *)

ComposeRejected(p) ==
  /\ At(p, "validate")
  /\ UpdateReleaseState(p, "failed", MigrationOf(p), "failed")
  /\ Leave(p)
  /\ UNCHANGED <<hostVars, app, env, proxyVars>>

(* Another environment holds the nginx lock for too long or left an activation pending, *)
(* or owns a host of the plan: the record stays prepared.                               *)
NginxRefused(p) ==
  /\ At(p, "validate")
  /\ Leave(p)
  /\ UNCHANGED <<ledgerVars, hostVars, app, env, proxyVars>>

(* The lock is free, nothing is pending and no owned fragment is missing. *)
NginxReady == nginxLock = None /\ ~pending /\ nginx.owner \subseteq nginx.frag

(* NginxTransactionManager.prepare, then status deploying. *)
PrepareNginx(p) ==
  /\ At(p, "validate")
  /\ NginxReady
  /\ (HostsOf[op[p].tag] \ nginx.owner) \cap nginx.frag = {}        \* none is unmanaged
  /\ nginxLock' = p
  /\ UpdateReleaseState(p, "deploying", MigrationOf(p), HealthOf(p))
  /\ op' = [op EXCEPT ![p].pc = IF MigrationOf(p) = "not_required" THEN "health" ELSE "backup",
                      ![p].frag = nginx.frag, ![p].owner = nginx.owner]
  /\ UNCHANGED <<scopeLock, hostVars, app, env, proxyVars>>

PreMigrationBackup(p) ==
  /\ At(p, "backup")
  /\ \/ /\ UpdateReleaseState(p, "deploying", "running", HealthOf(p))
        /\ Goto(p, "migrate")
        /\ UNCHANGED lockVars
     \/ /\ UpdateReleaseState(p, "failed", "failed", HealthOf(p))
        /\ Leave(p)
  /\ UNCHANGED <<hostVars, app, env, proxyVars>>

RunMigration(p) ==
  /\ At(p, "migrate")
  /\ \/ /\ UpdateReleaseState(p, "deploying", "succeeded", HealthOf(p))
        /\ Goto(p, "health")
        /\ UNCHANGED lockVars
     \/ /\ UpdateReleaseState(p, "failed", "failed", HealthOf(p))
        /\ Leave(p)
  /\ UNCHANGED <<hostVars, app, env, proxyVars>>

HealthcheckRunning(p) ==
  /\ At(p, "health")
  /\ UpdateReleaseState(p, "deploying", MigrationOf(p), "running")
  /\ Goto(p, "stage")
  /\ UNCHANGED <<lockVars, hostVars, app, env, proxyVars>>

(* Mutant of StageActivation: the intent is kept in memory only. *)
StageWithoutMarker(p) ==
  /\ At(p, "stage")
  /\ op' = [op EXCEPT ![p].pc = "start", ![p].staged = TRUE]
  /\ UNCHANGED <<ledgerVars, lockVars, hostVars, app, env, nginx, pending>>

(* transaction.stage: the intent is on disk before any live file changes. *)
StageActivation(p) ==
  /\ At(p, "stage")
  /\ \/ /\ pending' = TRUE
        /\ op' = [op EXCEPT ![p].pc = "start", ![p].staged = TRUE]
     \/ /\ Goto(p, "restore")
        /\ UNCHANGED pending
  /\ UNCHANGED <<ledgerVars, lockVars, hostVars, app, env, nginx>>

(* Mutant of StartRelease: whatever came up counts as healthy. *)
StartWithoutProbe(p) ==
  /\ At(p, "start")
  /\ app' \in {[rel |-> op[p].rel, ok |-> b] : b \in BOOLEAN}
  /\ Goto(p, "activate")
  /\ UNCHANGED <<ledgerVars, lockVars, hostVars, env, proxyVars>>

(* start_release: compose up --wait, three inspections, the HTTP probe. *)
StartRelease(p) ==
  /\ At(p, "start")
  /\ \/ /\ app' = [rel |-> op[p].rel, ok |-> TRUE]
        /\ Goto(p, "activate")
     \/ /\ app' \in {app, [rel |-> op[p].rel, ok |-> FALSE]}
        /\ Goto(p, "restore")
  /\ UNCHANGED <<ledgerVars, lockVars, hostVars, env, proxyVars>>

(* transaction.activate.  When it fails the ownership record is put back and the       *)
(* fragments and the configuration are whatever it had reached.                        *)
Activate(p) ==
  LET plan == HostsOf[op[p].tag]
  IN  /\ At(p, "activate")
      /\ \/ /\ Converges(app.rel, plan, op[p].owner)
            /\ nginx' = [frag |-> plan \cup (nginx.frag \ op[p].owner), owner |-> plan,
                         routed |-> app.rel]
            /\ Goto(p, "commit")
         \/ /\ nginx' \in {[nginx EXCEPT !.frag = f, !.routed = r] :
                            f \in {nginx.frag, plan \cup (nginx.frag \ op[p].owner)},
                            r \in {nginx.routed, app.rel}}
            /\ Goto(p, "restore")
      /\ UNCHANGED <<ledgerVars, lockVars, hostVars, app, env, pending>>

(* The ledger is committed before the shared nginx lock is released. *)
Commit(p) ==
  /\ At(p, "commit")
  /\ UpdateReleaseState(p, "deployed", MigrationOf(p), "succeeded")
  /\ Goto(p, "release")
  /\ UNCHANGED <<lockVars, hostVars, app, env, proxyVars>>

(* prepare() ends normally: the pending marker goes, then the nginx lock. *)
ReleaseNginx(p) ==
  /\ At(p, "release")
  /\ pending' = FALSE
  /\ nginxLock' = None
  /\ Goto(p, "retain")
  /\ UNCHANGED <<ledgerVars, scopeLock, hostVars, app, env, nginx>>

(* Mutant of Superseded: spares the release it replaced, not the one it started. *)
SupersededByPrevious(p) == Release \ {op[p].previous}

(* prune_runtime_secrets keeps the new release's alone. *)
Superseded(p) == Release \ {op[p].rel}

(* run_release_retention, as far as this environment's tmpfs goes: decrypted secrets    *)
(* of every other release go, unless retention ends in a warning.                       *)
Retain(p) ==
  /\ At(p, "retain")
  /\ env' \in {env, [r \in Release |-> IF r \in Superseded(p) THEN "absent" ELSE env[r]]}
  /\ IF op[p].kind = "deploy" THEN Goto(p, "clear") /\ UNCHANGED lockVars
                              ELSE Leave(p)
  /\ UNCHANGED <<ledgerVars, hostVars, app, proxyVars>>

(* A deploy is how a retired application comes back. *)
ClearMarker(p) ==
  /\ At(p, "clear")
  /\ retired' = FALSE
  /\ Leave(p)
  /\ UNCHANGED <<ledgerVars, volume, host, app, env, proxyVars>>

-----------------------------------------------------------------------------
(* execute_prepared_release: the candidate could not be started or activated *)

(* stop_release of a first deploy; otherwise restore_previous_release, which needs the *)
(* app.env the previous release was left with and does not materialise it again.       *)
RestorePrevious(p) ==
  LET previous == op[p].previous
  IN  /\ At(p, "restore")
      /\ \/ /\ previous = None
            /\ app' = Down
            /\ Goto(p, "unstage")
         \/ /\ previous # None
            /\ env[previous] # "absent"
            /\ app' = [rel |-> previous, ok |-> TRUE]
            /\ Goto(p, "unstage")
         \/ /\ app' \in {app} \cup (IF previous = None \/ env[previous] = "absent" THEN {}
                                    ELSE {[rel |-> previous, ok |-> FALSE]})
            /\ op' = [op EXCEPT ![p].pc = "unstage", ![p].clean = FALSE]
      /\ UNCHANGED <<ledgerVars, lockVars, hostVars, env, proxyVars>>

(* transaction.rollback: nothing to do before stage(); afterwards the files and the    *)
(* ownership record go back and the configuration is rendered again, which must show   *)
(* the previous hosts and none of the candidate's own.                                 *)
RollbackNginx(p) ==
  LET files == [nginx EXCEPT !.frag = op[p].frag, !.owner = op[p].owner]
  IN  /\ At(p, "unstage")
      /\ \/ /\ ~op[p].staged
            /\ Goto(p, "settle")
            /\ UNCHANGED nginx
         \/ /\ op[p].staged
            /\ \E r \in Rendered(app) :
                 /\ Converges(r, op[p].owner, HostsOf[op[p].tag])
                 /\ nginx' = [files EXCEPT !.routed = r]
            /\ op' = [op EXCEPT ![p].pc = "settle", ![p].restored = TRUE]
         \/ /\ op[p].staged
            /\ nginx' \in {nginx, files} \cup {[files EXCEPT !.routed = r] : r \in Rendered(app)}
            /\ op' = [op EXCEPT ![p].pc = "settle", ![p].clean = FALSE]
      /\ UNCHANGED <<ledgerVars, lockVars, hostVars, app, env, pending>>

(* Mutant of Verdict: an incomplete restore counts as a rollback. *)
VerdictIgnoringErrors(p) == IF op[p].previous # None THEN "rolled_back" ELSE "failed"

Verdict(p) == IF op[p].previous # None /\ op[p].clean THEN "rolled_back" ELSE "failed"

Settle(p) ==
  /\ At(p, "settle")
  /\ UpdateReleaseState(p, Verdict(p), MigrationOf(p), "failed")
  /\ Goto(p, "exit")
  /\ UNCHANGED <<lockVars, hostVars, app, env, proxyVars>>

(* prepare() ends with the exception: the marker goes only when the proxy was restored. *)
FailDeployment(p) ==
  /\ At(p, "exit")
  /\ pending' = (pending /\ ~op[p].restored)
  /\ Leave(p)
  /\ UNCHANGED <<ledgerVars, hostVars, app, env, nginx>>

-----------------------------------------------------------------------------
(* retire *)

BeginRetire(p) ==
  /\ At(p, "idle")
  /\ LockScope(p)
  /\ Records(ledger) # {}
  /\ InStatus(ledger, "deploying") = {}
  /\ op' = [op EXCEPT ![p] = [Idle EXCEPT !.pc = "app_down", !.kind = "retire"]]
  /\ UNCHANGED <<ledgerVars, hostVars, app, env, proxyVars, nginxLock>>

(* compose down of the application, then of the database and the timers, none of which *)
(* this module keeps; a failure of either ends the command.                            *)
StopContainers(p) ==
  /\ At(p, "app_down")
  /\ \/ app' = Down /\ Goto(p, "domains") /\ UNCHANGED lockVars
     \/ app' = Down /\ Leave(p)
     \/ Leave(p) /\ UNCHANGED app
  /\ UNCHANGED <<ledgerVars, hostVars, env, proxyVars>>

(* release_domains: the whole nginx transaction of an empty plan. *)
ReleaseDomains(p) ==
  /\ At(p, "domains")
  /\ NginxReady
  /\ Converges(app.rel, {}, nginx.owner)
  /\ nginx' = [frag |-> nginx.frag \ nginx.owner, owner |-> {}, routed |-> app.rel]
  /\ Goto(p, "marker")
  /\ UNCHANGED <<ledgerVars, lockVars, hostVars, app, env, pending>>

(* An activation that fails is not rolled back, so its pending marker stays. *)
DomainsNotReleased(p) ==
  /\ At(p, "domains")
  /\ NginxReady
  /\ nginx' \in {[nginx EXCEPT !.frag = f, !.routed = r] :
                   f \in {nginx.frag, nginx.frag \ nginx.owner}, r \in {nginx.routed, app.rel}}
  /\ pending' = TRUE
  /\ Leave(p)
  /\ UNCHANGED <<ledgerVars, hostVars, app, env>>

RetireRefused(p) ==
  /\ At(p, "domains")
  /\ Leave(p)
  /\ UNCHANGED <<ledgerVars, hostVars, app, env, proxyVars>>

WriteMarker(p) ==
  /\ At(p, "marker")
  /\ retired' = TRUE
  /\ Leave(p)
  /\ UNCHANGED <<ledgerVars, volume, host, app, env, proxyVars>>

-----------------------------------------------------------------------------
(* purge *)

(* is_retired is read before the lock is taken. *)
ConfirmPurge(p) ==
  /\ At(p, "idle")
  /\ retired
  /\ op' = [op EXCEPT ![p] = [Idle EXCEPT !.pc = "confirmed", !.kind = "purge"]]
  /\ UNCHANGED <<ledgerVars, lockVars, hostVars, app, env, proxyVars>>

(* A busy environment fails the command. *)
LockPurge(p) ==
  /\ At(p, "confirmed")
  /\ \/ /\ LockScope(p)
        /\ Goto(p, "purge_down")
        /\ UNCHANGED nginxLock
     \/ /\ scopeLock # None
        /\ Leave(p)
  /\ UNCHANGED <<ledgerVars, hostVars, app, env, proxyVars>>

(* compose down --volumes of the application, then of the database; the second may fail. *)
DestroyContainers(p) ==
  /\ At(p, "purge_down")
  /\ app' = Down
  /\ \/ volume' = FALSE /\ Goto(p, "purge_trees") /\ UNCHANGED lockVars
     \/ Leave(p) /\ UNCHANGED volume
  /\ UNCHANGED <<ledgerVars, retired, host, env, proxyVars>>

(* Bundles, dumps, credentials, runtime secrets and exports, then the ownership record. *)
RemoveTrees(p) ==
  /\ At(p, "purge_trees")
  /\ env' = [r \in Release |-> "absent"]
  /\ nginx' = [nginx EXCEPT !.owner = {}]
  /\ Goto(p, "purge_ledger")
  /\ UNCHANGED <<ledgerVars, lockVars, hostVars, app, pending>>

Without(l, gone) == [r \in Release |-> IF r \in gone THEN PurgedRecord ELSE l[r]]

(* rmtree of the environment's directory removes records and marker one by one, in the *)
(* order the filesystem lists them: this is how far it may have come at some point.    *)
RemoveLedger(p) ==
  /\ At(p, "purge_ledger")
  /\ \E gone \in SUBSET Records(ledger), marker \in {retired, FALSE} :
       ledger' = Without(ledger, gone) /\ retired' = marker
  /\ Goto(p, "purge_rest")
  /\ UNCHANGED <<clock, lockVars, volume, host, app, env, proxyVars>>

FinishPurge(p) ==
  /\ At(p, "purge_rest")
  /\ ledger' = Without(ledger, Records(ledger))
  /\ retired' = FALSE
  /\ Leave(p)
  /\ UNCHANGED <<clock, volume, host, app, env, proxyVars>>

-----------------------------------------------------------------------------
(* The environment: kills, the reconciler's timer, reboots *)

Kill(p) ==
  /\ op[p].pc # "idle"
  /\ Leave(p)
  /\ UNCHANGED <<ledgerVars, hostVars, app, env, proxyVars>>

(* nginx_reconcile.reconcile, when it gets the lock at once and nothing is pending. *)
Reconcile ==
  /\ host = "up"
  /\ nginxLock = None
  /\ ~pending
  /\ \E r \in Rendered(app) : nginx' = [nginx EXCEPT !.routed = r]
  /\ UNCHANGED <<ledgerVars, lockVars, hostVars, app, env, pending, op>>

(* /run is lost and every process with it; Docker waits for boot recovery. *)
Reboot ==
  /\ host' = "booting"
  /\ op' = [p \in Proc |-> Idle]
  /\ scopeLock' = None
  /\ nginxLock' = None
  /\ env' = [r \in Release |-> "absent"]
  /\ UNCHANGED <<ledgerVars, retired, volume, app, proxyVars>>

(* discover_recovery_scopes and recover_project_environment_secrets.  Docker then brings *)
(* the containers back as they were.  A refusal leaves the host gated, and so does an   *)
(* environment directory that an interrupted purge left without a ledger: for that this *)
(* step need not happen.                                                                *)
BootRecovery ==
  /\ host = "booting"
  /\ retired \/ ~RecoveryRefuses(ledger)
  /\ host' = "up"
  /\ env' = [r \in Release |-> IF ~retired /\ r = RecoveryRelease(ledger)
                               THEN "full" ELSE env[r]]
  /\ UNCHANGED <<ledgerVars, lockVars, retired, volume, app, proxyVars, op>>

-----------------------------------------------------------------------------

Step(p) ==
  \/ \E t \in Tag : BeginDeploy(p, t)
  \/ Materialise(p) \/ InjectDatabase(p) \/ PrepareFails(p) \/ WriteReleaseRecord(p)
  \/ BeginRollback(p) \/ MaterialiseCurrent(p) \/ InjectCurrent(p)
  \/ ComposeRejected(p) \/ NginxRefused(p) \/ PrepareNginx(p)
  \/ PreMigrationBackup(p) \/ RunMigration(p) \/ HealthcheckRunning(p)
  \/ StageActivation(p) \/ StartRelease(p) \/ Activate(p)
  \/ Commit(p) \/ ReleaseNginx(p) \/ Retain(p) \/ ClearMarker(p)
  \/ RestorePrevious(p) \/ RollbackNginx(p) \/ Settle(p) \/ FailDeployment(p)
  \/ BeginRetire(p) \/ StopContainers(p) \/ ReleaseDomains(p) \/ DomainsNotReleased(p)
  \/ RetireRefused(p) \/ WriteMarker(p)
  \/ ConfirmPurge(p) \/ LockPurge(p) \/ DestroyContainers(p) \/ RemoveTrees(p)
  \/ RemoveLedger(p) \/ FinishPurge(p)
  \/ Kill(p)

Next == (\E p \in Proc : Step(p)) \/ Reconcile \/ Reboot \/ BootRecovery

Spec == Init /\ [][Next]_vars

-----------------------------------------------------------------------------
(* Properties *)

(* Wherever a reboot hits: if the ledger lets boot recovery choose a release, that is   *)
(* the release whose containers Docker brings back, and they were healthy.  A deploy or *)
(* rollback that replaced containers must by then have a record that makes              *)
(* select_recovery_release refuse, and one that failed must have restored them.         *)
RecoveryMatchesContainers ==
  LET r == RecoveryRelease(ledger)
  IN  r # None => app = Down \/ app = [rel |-> r, ok |-> TRUE]

(* nginx_transaction.stage: "a killed deploy must not let the background reconciler     *)
(* activate an uncommitted candidate".  If nginx sends traffic to a release whose       *)
(* record says it is still being deployed, the pending marker is there to stop the      *)
(* reconciler and the next transaction.                                                 *)
NoUncommittedTraffic ==
  \A r \in Release :
    nginx.routed = r /\ ledger[r].status \in {"prepared", "deploying"} => pending

(* A record turns deployed only while its own containers are healthy, nginx routes to   *)
(* them, every domain of its manifest is owned and its app.env is complete; it turns    *)
(* rolled_back only when the previous release is healthy again and the proxy files are  *)
(* those the transaction found.                                                         *)
VerdictIsEarned ==
  [][\A r \in Release :
       ledger'[r].status # ledger[r].status =>
         /\ ledger'[r].status = "deployed" =>
              /\ app = [rel |-> r, ok |-> TRUE]
              /\ nginx.routed = r
              /\ HostsOfRelease(r) = nginx.owner /\ nginx.owner \subseteq nginx.frag
              /\ env[r] = "full"
         /\ ledger'[r].status = "rolled_back" =>
              /\ app = [rel |-> ledger[r].previous, ok |-> TRUE]
              /\ \E p \in Proc :
                   op[p].rel = r /\ nginx.frag = op[p].frag /\ nginx.owner = op[p].owner
    ]_vars

(* A running release that boot recovery would choose has its app.env on tmpfs: no       *)
(* retention, failed deploy, purge or reboot leaves the containers without the file     *)
(* the next recreate, and restore_previous_release, read.                               *)
RunningKeepsSecrets ==
  LET r == RecoveryRelease(ledger)
  IN  host = "up" /\ ~retired /\ r # None /\ app.rel = r => env[r] # "absent"

(* "Offers only the targets the host would accept": the console excludes the tag of the  *)
(* current release and goes through the history, the host excludes the current release  *)
(* and goes through the records.  Whatever was deployed again, rolled back, failed or   *)
(* purged, they agree, and neither withholds what the other would take.                 *)
OfferedIsAccepted ==
  LET current == FindLatestDeployed(ledger)
  IN  Offered = IF retired \/ InStatus(ledger, "deploying") # {} \/ current = None
                THEN {} ELSE RollbackTargets(ledger) \ {None, current}

(* The ledger implements the chain: deploys and rollbacks of concurrent processes,      *)
(* killed anywhere, never commit over a release they did not know of.                   *)
Committed == InStatus(ledger, "deployed")

Chain == INSTANCE ReleaseChain WITH
  committed <- Committed,
  head      <- FindLatestDeployed(ledger),
  parent    <- [r \in Release |-> IF r \in Committed THEN ledger[r].previous ELSE None]

ChainImplemented == Chain!Spec

=============================================================================
