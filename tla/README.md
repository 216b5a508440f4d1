# Verification of platform-automation-core

TLA+ models, TLC runs and TLAPS proofs about the platform: the Python program
under `src/src/platform_automation/` that deploys, rolls back, retires, backs up
and restores applications on a Docker host, the operator's console that drives
it over SSH and through GitHub, and the Ansible roles that shut the doors of a
host. Paths below are relative to that directory unless they start with `src/`.

## 1. The system

One host runs the applications of many *project/environment* pairs ("scopes" in
the modules). Every command is a short-lived process, started over SSH by CI or
by an operator; nothing is a daemon except the timers systemd runs. All state is
files, Docker objects and the memory of nginx:

| component | code | state it keeps | operations |
|---|---|---|---|
| Release ledger | `release_ledger.py` | one JSON record per release: status, migration, healthcheck, timestamps | write, transition; select the latest, by tag, a rollback target, what boot recovery restores |
| Deploy and rollback | `platform_cli.py`, `compose_runtime.py` | nothing of its own | stage, pull, secrets, database, record, migrate, start, activate, commit; or restore and settle |
| Operation lock | `operation_lock.py` | one `flock` per scope | take at once or refuse |
| Retire and purge | `retire.py` | `retired.json` | stop, release domains, mark; destroy volume and files |
| Boot recovery | `reboot_recovery.py`, `reboot_recovery_entrypoint.py` | `/run` secrets | restore `app.env` of every scope before Docker starts |
| Nginx transaction | `nginx_transaction.py`, `nginx_config.py`, `htpasswd.py`, `domains.py` | fragments, ownership records, `default.conf`, `.activation-pending`, the nginx lock | prepare, stage, activate, commit, rollback |
| Nginx reconciler | `nginx_reconcile.py` | `.reconciled-state` | every ten seconds: render, compare, test, reload, note |
| Release retention | `release_retention.py` | bundles, secrets and images on the host | plan over all ledgers, then remove |
| Runtime secrets | `runtime_secrets.py`, `sops_validation.py` | `app.env` per release on tmpfs | decrypt, write atomically |
| Project database | `database_runtime.py` | volume, container, encrypted credential, `database.env`, Compose file | ensure, rotate, inject `DATABASE_URL`, restore at boot |
| Database sessions | `database_session.py` | short-lived roles in PostgreSQL | open (and sweep), close |
| Backups | `backup_runtime.py`, `restore_runtime.py` | dumps, cards, verification log | dump, prune, import, restore, verify |
| Offsite copies | `backup_offsite.py` | a bucket | upload what is missing, fetch back |
| Backup and export schedules | `backup_schedule.py`, `export_schedule.py`, `export_runtime.py` | timer drop-ins, export files | reconcile the timers with the manifest, publish exports |
| Deployment bundles | `build_bundle.py`, `verify_bundle.py`, `stage_bundle.py`, `bundle_action.py`, `deployment_request.py`, `observability_bundle.py` | staged directories | build, verify, stage by one rename |
| Manifest validation | `validate_manifest.py`, `contract_resources.py` | none | predicates over a document |
| Registry pull | `registry_pull.py` | the images of the daemon | login in a temporary directory, pull |
| ACME readiness | `acme_readiness.py` | none | DNS and port 80 probes |
| Metrics export | `metrics_export.py` | a text file | read the others' files, write metrics |
| Operator console | `operator/*.py` | the checkout it is started in: inventory, `requirements.yml`, the installed collection, an auth key | bootstrap, converge, update hosts; dispatch and watch deployments, deploy by hand, roll back; prove, restore and move dumps; tunnels to a database |
| Ansible roles | `src/roles/`, `src/playbooks/` | host configuration | users, tailnet, firewall, Docker, proxy, units |

How they meet:

- **The scope lock** serialises deploy, rollback, retire, purge, backup, restore
  and rotation of one scope. It is `LOCK_NB`: a busy scope is an error, not a
  wait. Purge reads `retired.json` before it takes the lock.
- **The nginx lock and the pending marker** are shared by all scopes and the
  reconciler. A deploy takes the lock before its containers change and gives it
  up after its record says `deployed`.
- **docker-gen** renders `default.conf` from whatever containers run at that
  moment, also those of other scopes and those of a candidate that is not
  committed yet; the certificate companion writes certificates without any lock.
- **The Docker daemon's images** are shared by all scopes, whose retention runs
  under the lock of one scope only.
- **The console** asks a host or GitHub one command at a time and decides on an
  answer that is minutes old; nothing is locked between two of its commands, and
  a second console may be at work on the same host.
- **Ansible** runs a task on every host of a play that has not failed yet, then
  the next; what is half done stays.
- **A reboot** empties `/run` (locks, `app.env`), kills every process, and
  starts Docker only after boot recovery; Docker then restarts the containers
  it had.

What is hard here: a process can be killed, or an exception escape, between any
two file writes; every command continues with what it read earlier; a docker
command that reports failure may have taken effect; and decisions about recovery
are made from records written by commands that never finished. `PROJECT.json`
lists the hazards line by line.

What makes each component correct:

- *ledger, deploy, rollback*: a record's verdict is true of containers, proxy
  and secrets; commits form one chain, no command overwrites another's.
- *boot recovery*: it never chooses a release other than the one Docker starts.
- *nginx transaction*: a host has one owner; what is on disk while nothing is
  pending is what owners wrote, passes `nginx -t` and is what nginx runs with.
- *reconciler*: every certificate reaches nginx; nginx ends up routing to the
  containers that run.
- *retention*: what is within the retained depth can be rolled back to,
  recovered and restored.
- *database*: the stored credential, the one PostgreSQL accepts and the one in
  every running release's `app.env` agree, or a documented command repairs it.
- *backups*: the newest dump is never pruned, and none goes unless a newer one that
  can be restored stays; a restore works on the dump it names.
- *timers*: after every deploy the enabled timers are those of the manifest, and
  no command touches the timers of another application.
- *bundles*: what is staged has passed every check, what the workflow records is
  one commit, what the build makes a host takes.
- *sessions*: a close whose tunnel is gone leaves nobody connected, an open ends
  nobody else's work.
- *console*: what it restores was proven, a restore leaves a way back, nobody is
  locked out of a host, and a reported success is one.

## 2. Modules

### ReleaseLedger, ReleaseLifecycle: one scope

`ReleaseLedger` is the data: a ledger is a function from release ids to records,
and the operators are the selections of `release_ledger.py` and
`platform_cli.py` (`FindLatestDeployed`, `FindByTag`, `RollbackTargets`,
`RecoveryRefuses`, `RecoveryRelease`). A timestamp is the value of a logical
clock. The code orders records by wall-clock times; that the clock never goes
back or stands still between two writes of one ledger is an assumption.

`ReleaseLifecycle` has any number of processes that run deploy, rollback, retire
and purge of one scope at once. `op[p]` is the command of process `p`: its
program counter, and exactly the values the Python function holds in local
variables over that step (candidate, current release as read, rollback target,
the transaction's snapshots). One action is the code between two points at which
a kill would leave different files behind:

| code | actions |
|---|---|
| `run_deploy` up to the record | `BeginDeploy`, `Materialise`, `InjectDatabase`, `PrepareFails`, `WriteReleaseRecord` |
| `run_rollback` | `BeginRollback`, `MaterialiseCurrent`, `InjectCurrent`, then as above |
| `execute_prepared_release` | `ComposeRejected`, `NginxRefused`, `PrepareNginx`, `PreMigrationBackup`, `RunMigration`, `HealthcheckRunning`, `StageActivation`, `StartRelease`, `Activate`, `Commit`, `ReleaseNginx` |
| its failure path | `RestorePrevious`, `RollbackNginx`, `Settle`, `FailDeployment` |
| after the commit | `Retain`, `ClearMarker` |
| `retire.py` | `BeginRetire`, `StopContainers`, `ReleaseDomains`, `DomainsNotReleased`, `RetireRefused`, `WriteMarker`; `ConfirmPurge`, `LockPurge`, `DestroyContainers`, `RemoveTrees`, `RemoveLedger`, `FinishPurge` |
| the host | `Kill` (also any exception that no handler catches), `Reconcile`, `Reboot`, `BootRecovery` |

`ReleaseChain` is the abstract specification: committed releases form one chain,
each commit names the release that was current at that instant, and nothing but
commits and purges moves the head. `ReleaseLifecycle` implements it under the
mapping at its end (`ChainImplemented`). `ReleaseLifecycleProofs` proves that and
what it needs, what a record's verdict says of containers, proxy and secrets, and
that what the console offers is accepted.

The console offers rollback targets by rules of its own (`operator/rollback.py`:
`EligibleTargets`, from the tags in a status document), the host judges by its
records (`RollbackTargets`); `OfferedIsAccepted` says the two agree in every
ledger the commands can make.

### ProxyActivation: what all scopes share

Scopes are processes here, since `OneCommandAtATime` shows that a scope runs one
command at a time. The state is the proxy's: who wrote each fragment, the
ownership records, `default.conf` as upstreams per host, what nginx *loaded*
(configuration, fragments and certificates at its last reload), the pending
marker, the nginx lock, and `.reconciled-state`. `Rendering` is what docker-gen
makes of the running containers. The actions follow `nginx_transaction.py`
(`PrepareDeploy` ... `ReleaseLock`, `RestorePrevious` ... `Settle`), the part of
`retire.py` that releases domains (`BeginRetire`, `PrepareRetire`, then the
same activation with an empty plan), and one run of `nginx_reconcile.py`
(`Tick` ... `WriteState`). `ContainerChanges` restarts or moves containers,
`Renew` writes certificates. `Kill` and `KillReconciler` may come at any step.

`DomainSwitch` is its abstract specification: every domain is served by one
release, and one step gives all the domains of a scope to its next release
(`Switch`), never another's domain; or an activation is left half done (`Tear`),
and nothing switches any more. The mapping takes for served what a transaction
found, until its reload, and from then on what is on disk; torn is a pending
marker whose transaction is gone (`Serving`, `Torn`). `SwitchImplemented` says
that every behaviour of `ProxyActivation` is one of `DomainSwitch`.

### Retention: bundles and images

Scopes are processes again. A bundle directory is absent, partial or whole; the
daemon has a set of images; `running` holds images in use. `StageBundle`,
`PullImage`, `StartRelease`, `Commit` are the parts of a deploy that use them;
`PlanRetention` reads every ledger at once, and `PruneBundle`, `PruneImage`
carry the plan out one item at a time while other scopes go on. `Retire` and
`Purge` are one step each, since their steps are `ReleaseLifecycle`'s matter.

### DatabaseCredential: copies of one password

The database the platform runs for one scope. The state is every place its
password lives: what PostgreSQL accepts (`db`, with the major of the cluster),
the encrypted credential file (`stored`), `DATABASE_URL` in the `app.env` of each
release (`env`), and what the application's containers were created with
(`app`); further the Compose file's major, and of the ledger only what the
commands ask of it (`current`, `recorded`, `unfinished`, `retired`).

| code | actions |
|---|---|
| `ensure_project_database` | `LoadOrCreateCredentials`, `WriteDatabaseCompose`, `StartDatabase` |
| `run_deploy`, `run_rollback` | `BeginDeploy`, `BeginRollback`, `Materialise`, `InjectDatabaseUrl`, `StatusDeploying`, `StartRelease`, `Commit`, `RestorePrevious` |
| `run_rotate_database_password` | `BeginRotate`, `AlterDatabasePassword`, `StoreCredential`, `Rematerialise`, `Reinject`, `RestartSucceeds`, `RestartFails` |
| `retire.py` | `BeginRetire`, `StopApplication`, `StopDatabase`, `WriteMarker`; `ConfirmPurge`, `LockPurge`, `Destroy`, `RemoveTrees`, `RemoveLedger` |
| the host | `Kill`, `Reboot`, `BootRecovery` (`restore_database_environment`) |

`ALTER USER` is sent through the socket inside the container, which asks for no
password. So a rotation does not need the credential file to be right, and one
that succeeds repairs whatever an interrupted one left: that is
`RotationAgrees`. Proxy, migration and backup steps are `ReleaseLifecycle`'s
matter; their failures are `Kill` here. The restart paths of a release let a
container with a wrong password pass its healthcheck, as the platform does not
ask that the healthcheck uses the database.

`OnePassword` is the abstract specification: the password PostgreSQL accepts, the one
that is stored, and whether a rotation is under way. A volume is initialised with
what is stored; only a rotation takes the two apart, PostgreSQL first, and what is
stored later is what PostgreSQL accepts by then; the stored one goes only after the
volume. `CredentialImplemented` states that `DatabaseCredential` implements it.

### BackupRestore: dumps on the host and in the bucket

One scope's dumps. The backup directory and the bucket are functions from names
(a stamp and a suffix, dump or card) to contents, where a dump can be *torn*;
`proof` is the last entry of the verification log, `live` says whether a
restore left the database replaced in part.

| code | actions |
|---|---|
| `create_backup` | `BeginBackup`, `DumpDatabase`, `WriteCard`, `PruneDump`, `PruneCard`, `EndPrune` |
| `upload_backups` | `ListLocal`, `CompareRemote`, `Send`, `EndUpload` |
| `import_backup` | `BeginImport`, `PlaceImport`, `ImportFails` |
| `download_backup` | `BeginFetch`, `FetchDump`, `WriteFetchedDump`, `FetchCard` |
| `restore_backup` | `SelectToRestore`, `DecryptToRestore`, `RestoreSucceeds` |
| `verify_backup`, also with `--all` | `SelectToVerify`, `VerifyNewest`, `DecryptToVerify`, `StartThrowaway`, `Prove`, `RecordVerification` |
| others | `Purge`, `Deploy` (each one step), `Kill` |

Backup, import and restore hold the scope's lock; upload, download and verify do
not, and those are the interleavings that matter here. `--from-offsite` is a
download before the lock is taken and then the command as without it, so the
model has it as two commands of one process. Only the
download writes in place; all else is written aside and renamed.

`BackupStore` is the abstract specification: a list of dumps and those of them that
were taken here and can be restored, which lose a dump, or its card, only while a
newer one that can be restored stays, and everything in a purge.
`StoreImplemented` states that `BackupRestore` implements it: of its restorable dumps
the newest is never taken away, whoever dies, prunes, imports or fetches meanwhile.
A dump of another host is not promised that: a download and an import of one stamp
beside each other may tear it, or leave it without its card.

### HostTimers: what systemd starts

The backup timer of every scope and one timer per export job, as units with a
template and an instance; `dropIn` is the override a unit has, `enabled` what
systemd starts. Instances are sequences of the words between hyphens, because
the code joins project, environment and job with hyphens and has to take them
apart again: a project `shop-lab` has units that begin like those of the
environment `lab` of `shop`. Scopes are processes, as in `ProxyActivation`.

| code | actions |
|---|---|
| `run_backup_schedule`, `enable_backup_timer`, `enable_export_timer` | `BeginDeploy`, `WriteOverride`, `ScheduleRefused`, `EnableTimer` |
| `disable_backup_timer`, `disable_export_timer` | `DisableTimer`, `RemoveOverride` |
| the end of a deploy | `FinishDeploy` |
| `retire.py` | `BeginRetire`, `WriteMarker`, `BeginPurge`, `RemoveCards`, `RemoveLedger` |
| `export_runtime.py` | `StartByTimer`, `StartByHand` (both `StartExport`), `FinishExport`, `KillExport` |
| the host | `Kill`, which may leave a drop-in directory without its file |

Every call of `systemctl` may fail, or fail after it took effect; a deploy turns
that into a warning and goes on, retire and purge stop.

An export takes no lock. `run[r]` is what process `r` works with: the timer that
started it (none, if it was started by hand), the scope and job that the instance
or the arguments name, and the release that served when it began. Between that
and the card lie a query and a mail, minutes in which deploys, retire and purge
may do anything to the timer, the release and the directory of the card, and in
which another run of the job, by hand, may begin and end.

### Contract, Delivery: from a checkout to a staged bundle

`Contract` is pure: a document is a record of what the checks of
`validate_manifest.py`, `contract_resources.py`, `sops_validation.py`,
`observability_bundle.py` and `verify_bundle.py` look at, and every check is a
predicate. Whether a document satisfies its JSON schema is a field of it, a
digest is the content itself.

`Delivery` uses them from both ends. A delivery is a run of the Deploy workflow,
with a checkout to itself, or the console's manual deployment, in a directory
somebody edits (`Edit`) between any two of its steps. The build reads each file
to check it (`Collect`), for its digest (`Digest`) and for the archive
(`Archive`); the bundle is copied (`BeginTransfer`, `EndTransfer`,
`TransferFails`), compared on the host (`CheckDigest`), verified against the
request (`LoadRequest`), staged and recorded (`Deploy`), and removed from `/tmp`
(`RemoveBundle`). `Dies` leaves what is there. `Delivery` and `Retention` share no name
(`job` and `op`, `DeliverySpec` and `Spec`), because `BundleProofs` extends both.

### ConsoleRestore: an operator's restore

`operator/console.py` over the backups of one scope: `List`, `Choose`,
`Fetch` and `Prove`, `SafetyDump` (or `SkipSafety`, `SafetyFails`),
`Restore`; and the move of a dump from another host, `ListSource`,
`CopyAndRekey`, `Import`. A command of the host is one step here, since
`BackupRestore` follows it step by step; what matters is what happens between
two commands: `Timer` backups with their retention, `VerifyBackup` by its own
timer, `Deploy` of another depth, and a second console. `verify-backup
--from-offsite` is two steps, the download and the proof.

What a command leaves that ends half way is modelled, since the lists are made of
it: a stamp has in the directory, and in the bucket, nothing, a dump with its card
(`"whole"`), one without (`"bare"`), or one where either is torn. A download
writes under the final names (`HalfFetched`), so a torn dump of a killed one is
listed, blocks another download of the same stamp, and is told as proven if the
last verification was of that stamp. A backup may end before its card
(`BackupCutShort`), an upload behind any file (`Upload`), an import with a torn
dump. `local`, `offsite` and `proven` in `desk` are what the
console read when it began. Its names carry a prefix (`ConsoleInit`, `ConsoleSpec`)
because `ConsoleProofs` extends it together with `DatabaseSessions`.

### Fleet: bootstrap, convergence, core updates

The hosts of a company: how the inventory reaches each (`route`), which have
users, are in the tailnet, still have public SSH `open`, and what the roles have
left: those before the firewall (`early`), the runtime of `platform_cli` with the
file a console reads the version from (`runtime`), and the rest of that role with
the three after it (`late`). A group of roles that a host was lost in has left no
single version (`None`). The checkout the consoles share has the pin, the
installed collection and the key.

| code | actions |
|---|---|
| `bootstrap_action`, `bootstrap.py` | `BeginBootstrap`, `AlreadyJoined`, `StartBootstrap`, `CreateUsers`, `JoinTailnet`, `JoinFails`, `ProveHandover`, `Preflight` |
| `converge_hosts`, `src/playbooks/converge.yml`, roles | `BeginConverge`, `Guard`, `ConvergeEarly`, `CloseFirewall`, `InstallRuntime`, `ConvergeLate`, `Verdict`, `Report`, `Stop` |
| `run_core_update`, `core_update.py` | `BeginUpdate`, `ChooseTarget`, `RewritePin`, `InstallCollection`, `ChooseHosts` |

A task of a play goes on where it did not fail, which is any subset of the hosts
it reaches. `alone` marks a console that nobody interfered with: the last two
properties are only claimed for those. `NoneLeftBehind` speaks of the runtime only,
as that is what a console compares (section 5).

### DatabaseSessions: short-lived logins

`database_session.py` statement by statement, since psql runs its script that way
and holds no lock: `BeginOpen`, `SweepTerminate`, `SweepSelect`, `SweepDrop`,
`SweepFails`, `SweepEnds`, `CreateRole`; `CloseTerminate`, `CloseDrop`; the
console's tunnel around it (`OpenTunnel`, `CloseTunnel`, `KillConsole`); what an
operator may do beside the console, `platform database-session --close` typed
while whatever tunnel stands (`CloseByHand`) and a port forwarded by hand
(`ForwardByHand`); and what the database and its clients do meanwhile (`Connect`,
`CreateObject`, `GiveAway`, `Expire`, `RestartDatabase`, `TunnelEnds`). A
forwarded port leads to the database and not to a login, so `tunnel[w]` is the
session its clients use it for. `alone` in the record of a close is history that
no step reads: no tunnel but the one it ended itself has led to its role since it
began.

### Dispatch: deploying through GitHub

`deploy_action` of the console with `operator/deploy.py`: what to deploy and
under which name (`Choose`, `ChooseTarget`, `ChooseLabel`), the runs that were
there before (`ListRuns`), the dispatch, the run that appears (`FindRun`), and
how it ended (`Watch`). GitHub registers a run after it accepted it; other
operators and the button dispatch on the same branch.

### The MC modules

One `MC` module per specification gives the constants that are functions their
values, and where they help a symmetry and a view.

### Proof modules

`ReleaseLifecycleProofs`, `ProxyActivationProofs`, `DatabaseCredentialProofs`,
`BackupRestoreProofs`, `FleetProofs` and `HostTimersProofs` each extend their
specification, `ConsoleProofs` the two dialogues of the console with one scope and
`BundleProofs` the two ends of a bundle, `Delivery` and `Retention`; see section 4.

## 3. Runs

| run | expected | question and answer |
|---|---|---|
| `lifecycle` | pass | Do ledger, containers, proxy and secrets agree, whatever is killed, rebooted or run twice, and does the console offer what the host takes? `RecoveryMatchesContainers`, `NoUncommittedTraffic`, `RunningKeepsSecrets`, `OfferedIsAccepted`, `VerdictIsEarned`, and the refinement `ChainImplemented` hold. |
| `proxy` | pass | `OwnershipIsSound`, `ProxyCanRestart`, `MarkerClearedWhenApplied` and the refinement `SwitchImplemented` hold for two scopes that want one domain. |
| `proxy_reconciles` | pass | A new certificate always reaches nginx (`NewCertificatesAreLoaded`, liveness). |
| `retention` | pass | A bundle within the retained depth is whole, and no retention removes an image its own scope retains: `RetainedBundlesWhole`, `OwnImagesStay`. |
| `credential` | pass | Who may take the copies of the password apart, and who brings them together: `SacredVolume`, `RotationAgrees`, `CommittedCanLogIn`, `LoginKept`, and the refinement `CredentialImplemented` hold. |
| `backups` | pass | Which dumps stay, and what a restore or an upload that ends well has done: `BackupKept`, `StoreImplemented`, `RestoreHoldsItsSource`, `NoDumpDuringRestore`, `UploadReconciles`. |
| `timers` | pass | Do the timers match the release although every call may fail, and do names that begin alike stay apart? `EnabledIsFound`, `TimersMatchRelease`, `RetiredIsQuiet`, `OnlyOwnTimers`; and does the card of an export tell what ran, whatever was deployed or retired while it did? `CardsTellWhatRan`. |
| `delivery` | pass | What can be edited, torn or overwritten between a checkout and the releases directory? `StagedIsAccepted`, `RunIsOneCommit`, `BuiltIsTaken`. |
| `console_restore` | pass | Does a restore from the console keep its promises although lists and proofs are minutes old and downloads end half way? `RestoresProven`, `WayBackExists`, `SafetyDumpSpares`. |
| `fleet` | pass | Is anybody locked out of a host, and does a reported success mean what it says? `NotLockedOut`, `CleanMeansConverged`, `NoneLeftBehind`. |
| `sessions` | pass | Whom does a sweep or a close cut off, and whom does it forget? `ValidSessionsStay`, `ClosedIsClosed`, `OpenSweeps`. |
| `watches_its_run` | violation | The console takes the first run that was not listed before for its own (`SuccessIsItsOwn`): it reports the success of somebody else's run, for a deployment that may not have begun. |

The violation run checks what the console's own texts say; `findings` in
`PROJECT.json` quotes the lines. Every property of a passing run has a mutant of
a definition, written beside it, that breaks the property. No run repeats the type
invariants: section 4 proves that of every specification with a proof module.

### Bounds, and why they are enough

- **lifecycle**: 2 tags (one migrates, their domains overlap), 2 domains, 3
  release ids, 2 processes. Three ids give a current release, a predecessor and
  a candidate, the most any selection relates, and let a rollback meet a record
  that a purge removed. Two processes race; a third could only be refused at
  the lock, as the theorem `OneCommandAtATime` holds for any number. Ids are
  never reused, so the number of ids bounds the number of commands that write a
  record; kills and reboots are not bounded. Release ids and processes are
  symmetric: the specification compares them for equality only (`Last` chooses
  by timestamps, which differ). The view keeps of the timestamps their order,
  which is all that is compared, and drops fields no later step reads; its
  comment says which.
- **proxy**: 2 scopes, 2 domains of which both want one, 3 releases of which
  one never passes `nginx -t`, 2 addresses, one spontaneous container change.
  Commands are not bounded. A conflict needs two scopes and one host; a stale
  upstream needs two addresses.
- **proxy_reconciles**: one scope, as the liveness question is between one
  transaction and the reconciler, with one renewal and one change.
- **retention**: 2 scopes that share both images, depths 1 and 2, two and three
  successful releases, commands killed and repeated without bound. A release
  beyond the depth needs one more than the depth, and so does a rollback.
- **credential**: 3 releases of which one asks for another PostgreSQL major,
  2 processes (the lock leaves one of them in a command, the other may wait in
  purge's unlocked test), 5 passwords. Database, file, application, an `app.env`
  and a command's memory can hold five different ones; a command that finds no
  fresh password is not started, which is a bound. Commands, kills and reboots
  are not bounded, and deadlock is checked. Processes and passwords are
  symmetric. The view drops `app.env` of releases neither current nor worked on,
  which is written again before anything reads it.
- **backups**: 3 stamps of which the first belongs to a dump of another host,
  retained count 1, 2 processes, which may each be in an upload, a download or a
  verification while one of them holds the lock. With count 1 every backup after
  the first prunes, and an imported dump is older than all others. The number of
  stamps bounds the backups; everything else is unbounded, and the theorems hold
  for any number of all three. Deadlock is checked. The view drops `proof` and
  `live`, which no step reads and no property of the run speaks of, and of a
  verification or an upload what its remaining steps do not read (`Doing`).
- **timers**: the scopes `shop`/`lab` and `shop-lab`/`staging`, 2 jobs, 3
  releases that between them declare no timer for the backups, a backup and an export,
  an export with a schedule systemd refuses, and a job that leaves the manifest. Two jobs
  are needed for one to fail while the other is set; commands are unbounded and
  deadlock is checked. One process runs exports (`Runner`), and while it does at most
  one scope has a command at work (`Apart`): what a command of another application
  could do to a run it does in any order with the first. The view drops the cards,
  which no step reads. Both bounds are the run's; the theorems have neither, and two
  runs of one job may overwrite each other's card there.
- **delivery**: one run and one workstation, at most 2 deliveries, seven tagged
  commits that differ in what a check could miss (fewer recipients, a file that
  is too large, a path that is not in its shortest form, one file for two
  purposes, a port of the host, no dashboards) and four states of the edited directory. One delivery may be edited
  between any two steps, and the other may overwrite it or meet its label; the
  bound counts deliveries, so there is no deadlock as editing goes on.
- **console_restore**: 2 consoles of which one cannot read its manifest, 4
  stamps of which one is foreign and one does not restore, retained counts 1 and 2
  deployed over time. Four stamps are the dump to restore, the safety dump, and two
  that a timer takes around it. One console at a time is in a restore
  (`OneRestores`), beside moves, timers and deploys; the theorems have no such bound.
- **fleet**: 2 hosts, 2 consoles, 2 versions: one host that fails while the
  other goes on, one console that meets the other's half-done work, an old and a
  new version. One core update at a time, beside bootstraps and convergences of the
  other console (`OneUpdates`), which may end its being alone at any step; the
  theorems allow any number. Nothing else is bounded, and deadlock is checked.
- **sessions**: 2 consoles, 3 role names. A name is not drawn twice, so three
  opens: an expired role that is swept by two opens at once, or one close that
  meets a forward, a second close and an open. It ends when the names are used up, hence
  `CHECK_DEADLOCK FALSE`; the theorems hold for any number.
- **watches_its_run**: 2 consoles, 2 versions and a branch, 2 dispatches.

### Fairness

All specifications but one state none: commands are started by people and may
die. `ProxyActivation` assumes strong fairness of the reconciler's steps
`Tick`, `RenderCandidate`, `Compare`, `TestCandidate`, `ReloadCandidate`,
`UndoReload` and `WriteState`: the unit's timer starts it again every ten seconds
whatever became of the last run, so a step that is possible again and again is
taken sometime. Strong, since a run may be killed or lose a race any number of
times without losing all of them. Nothing is assumed of commands, of containers
or of the companion; that they become quiet is the premise of the property
(`<>[]Quiet`).

## 4. Proofs

Each proof module extends its specification, or two of them, and proves its
theorems for every value of the constants, from the named assumptions on them
only. All have the same shape: an inductive invariant for each specification
(`IInv`, and in a module about two of them `RestoreInv`, `DeliveryInv`,
`RetentionInv`), a lemma that `Init` establishes it, a lemma per action that keeps
it, and theorems that follow from its being always true.

| module | theorem | states |
|---|---|---|
| `ReleaseLifecycleProofs` | `TypeCorrect` | `[]TypeOK` |
| | `OneCommandAtATime` | at most one process is past the lock |
| | `LedgerImplementsChain` | `ChainImplemented` |
| | `VerdictInvariance` | the inductive invariant of the next four, beside the first |
| | `RecoveryIsRight` | `[]RecoveryMatchesContainers` |
| | `TrafficIsCommitted` | `[]NoUncommittedTraffic` |
| | `SecretsAreKept` | `[]RunningKeepsSecrets` |
| | `VerdictsAreEarned` | `VerdictIsEarned` |
| | `HistoryIsOrdered` | of two deployed releases the one recorded first was committed first |
| | `OffersAreAccepted` | `[]OfferedIsAccepted`, if no tag of an application is one of a rollback |
| `ProxyActivationProofs` | `TypeCorrect` | `[]TypeOK` |
| | `OneOwner` | `[]OwnershipIsSound` |
| | `RestartsCleanly` | `[]ProxyCanRestart` |
| | `MarkerIsHonest` | `MarkerClearedWhenApplied` |
| | `TransactionsAreAtomic` | `SwitchImplemented` |
| `DatabaseCredentialProofs` | `TypeCorrect` | `[]TypeOK` |
| | `VolumeIsSacred` | `[]SacredVolume` |
| | `CredentialIsOnePassword` | `CredentialImplemented` |
| | `RotationEndsInAgreement` | `RotationAgrees` |
| | `CommitsWhatLogsIn` | `CommittedCanLogIn` |
| | `LoginSurvives` | `LoginKept` |
| `BackupRestoreProofs` | `TypeCorrect` | `[]TypeOK` |
| | `BackupStays` | `BackupKept` |
| | `BackupsImplementStore` | `StoreImplemented` |
| | `RestoreIsWhole` | `RestoreHoldsItsSource` |
| | `NoMixedDump` | `NoDumpDuringRestore` |
| | `UploadIsComplete` | `UploadReconciles` |
| `FleetProofs` | `TypeCorrect` | `[]TypeOK` |
| | `NobodyLockedOut` | `[]NotLockedOut` |
| | `ReportsConverged` | `CleanMeansConverged` |
| | `UpdatesEveryHost` | `NoneLeftBehind` |
| `BundleProofs` | `StagedAccepted` | `[]StagedIsAccepted` |
| | `RunsRecordOneCommit` | `[]RunIsOneCommit` |
| | `BuildTakesWhatTheHostTakes` | any commit the build accepts passes the host's checks, with four exceptions |
| | `BuildsAreTaken` | `[]BuiltIsTaken` |
| | `ComparedIsRead` | what a run compared on the host is there until it is read |
| | `RetentionTypeCorrect` | `[]TypeOK` of `Retention` |
| | `RetainedIsWhole` | `[]RetainedBundlesWhole` |
| | `ImagesAreKept` | `OwnImagesStay` |
| `ConsoleProofs` | `ConsoleTypeCorrect` | `[]ConsoleTypeOK` |
| | `OnlyProvenIsRestored` | `RestoresProven` |
| | `ThereIsAWayBack` | `WayBackExists` |
| | `SafetyDumpIsSafe` | `SafetyDumpSpares` |
| | `TypeCorrect` | `[]TypeOK`, of `DatabaseSessions` |
| | `CloseEvicts` | `ClosedIsClosed` |
| | `SweptOnOpen` | `OpenSweeps` |
| | `ValidUntilClosed` | `ValidSessionsStay` |
| `HostTimersProofs` | `TypeCorrect` | `[]TypeOK` |
| | `NoneIsLost` | `[]EnabledIsFound` |
| | `DeploysTakeEffect` | `TimersMatchRelease` |
| | `RemovedIsQuiet` | `RetiredIsQuiet` |
| | `CommandsKeepToTheirScope` | `OnlyOwnTimers` |
| | `RunsKeepToTheirJob` | `CardsTellWhatRan` |

**ReleaseLifecycleProofs**, from `LedgerAssumption` and `LifecycleAssumption`:
`IInv == TypeOK /\ Stamped /\ Exclusive /\ \A p : Informed(p)`.

- `Stamped`: timestamps lie before the clock and no two records share one, so
  that every selection has exactly one candidate. Without it `CHOOSE` in `Last`
  says nothing about the result of a commit.
- `Exclusive`: whoever is past its first step holds the scope lock. This is what
  makes the next part stable under the other processes' steps.
- `Informed(p)`: what a command read when it began is still so: its
  candidate is unused until it is recorded, then its own record, not committed;
  `op[p].previous` is still the latest deployed release, and is what the record
  names as its predecessor. The commit step of the refinement is exactly this.

The proof has a lemma per action of `Step(p)`, each from two general facts: a
process that leaves (`StepLeave`) or goes on without touching the ledger
(`StepOn`) preserves `IInv`, and a process that writes its own record does not
disturb what the others know (`OthersInformed`). The refinement is a second case
split over the same actions: `Commit` maps to the chain's commit, the purge
steps to `Forget`, everything else to a stutter.

Its second part has an invariant inductive beside `IInv`:
`JInv == Outcome /\ \A p : Achieved(p)`.

- `Outcome` is what the invariants of the run say of the host, and `Marked`:
  containers or traffic of a release without a verdict are there only behind the
  pending marker. A reboot brings containers back but never takes the marker away.
- `Achieved(p)` is what the command has done by the step it is at: its own record
  (`Recorded`), the marker, and that there are no containers of a third release
  without a verdict (`Transacts`), what runs after a start, an activation or a
  restore (`Runs`), and the secrets it will need (`Equipped`). A verdict is earned
  because the step that writes it stands at the end of these.
- `BackAgain` is claimed of a clean restore only. One that was not writes `failed`,
  newer than the current release, and `RecoveryRefuses` such a ledger; that is how
  `RecoveryMatchesContainers` survives a restore that did not succeed.

Its third part is about the console and has an invariant of its own beside `IInv`,
`HInv == Ordered /\ \A p : Newest(p)`. The console goes by
tags and by the order in which records were created, the host by records and the
order in which they were last written; `Ordered` says that the two orders agree on
what is deployed, `Newest(p)` that nobody created a record since `p` did, which is
what the scope's lock gives. The theorem has the hypothesis `Tag \cap Release = {}`:
a rollback's own tag, `rollback-` and a random id (`release_ledger.py:253`), is not
one an application gives a release.

**ProxyActivationProofs**, from `ProxyAssumption`:
`IInv == TypeOK /\ Exclusive /\ Placed /\ Settled /\ \A s : Own(s)`.

- `Exclusive`: whoever is past `prepare` holds the lock, and the reconciler works
  only while nothing is pending. So beside an active command nobody changes files.
- `Settled`: domains have one owner, and while nothing is pending the fragments
  match the owners and none of them is of a release nginx rejects. The last is the
  strengthening that makes `ProxyCanRestart` inductive: `nginx -t` then accepts
  any rendering, also one that a killed reconciler left.
- `Own(s)`, of a command in its transaction. `Prepared`: what it found matched, and
  its plan is nobody else's. `Progress`: only hosts of its old and new plan differ
  from what it found, and from `Installed` on they are all as planned, from
  `RestoreFiles` on all as found; it needs `Converged`, by which the rendering has
  every planned host, so that the `nginx -t` that passed has read every planned
  fragment. `Marked`: the marker is there from `stage` on, and nginx has loaded
  what is on disk before a step removes it.
- `Placed`: what runs has a release and an address, so that a rendering is a
  configuration.

The second part proves the refinement. It adds `Halfway`: a scope that holds the
lock is in a transaction, and each fragment is as found or as planned. Every
command is then one of four kinds of step (`CommandEffect`): it `Waits` and has
nothing; it `Prepares`, and takes its snapshot; it `Proceeds`, rewriting its own
fragments only and towards one of the two (`Rewrites`); or it `Ends`. By `Prepared`
and `Progress` the plan is a switch `DomainSwitch` allows, and what it leads to
(`PlanIsASwitch`). So `ReloadNginx` is the `Switch`, an end that leaves the marker
is a `Tear`, and everything else stutters, also the end of a rollback, whose
fragments are those that were found.

**DatabaseCredentialProofs**, from `CredentialAssumption`:
`IInv == TypeOK /\ Exclusive /\ Gated /\ State /\ \A p : Own(p)`.

- `Gated`: no command is at work while the host boots, so boot recovery meets none.
- `State`: beside `SacredVolume`, that a database that is up has a volume, and
  `Apart`: when database and credential differ, the accepted password is one that
  neither the containers nor the current `app.env` ever had, as a rotation draws
  it fresh. So an application that can log in shows that the two agree, and one
  started with the stored credential can log in as well: that is `LoginKept`.
- `Own(p)`: what a deploy (`Prepares`), a rotation (`Rotates`) and a purge
  (`Purges`) rely on: the password in hand is the stored one, the releases
  still to get their URL end with the candidate, the volume is gone before the
  files are.
- The refinement is step by step (`PasswordStep`): each action is a step of
  `OnePassword` or leaves both passwords alone (`Turning`). `Own(p)` makes
  `StoreCredential` an `Adopt`, and the removal of the files by a purge a `Forget`;
  a database starts in an empty volume only with the stored password.

**BackupRestoreProofs**, from `BackupAssumption`:
`IInv == TypeOK /\ Exclusive /\ NoFuture /\ \A p : Own(p)`.

- `NoFuture`: no dump, on the host or in the bucket, has a stamp that is still to
  come. So the dump of a backup under way is the newest, whatever is imported or
  fetched beside it, and no file is in its way.
- `Own(p)`: what a command relies on. The stamp of a backup is of this host, that of
  an import is not, so an import that is refused, or stores a torn dump, takes nothing
  from the restorable ones. The dump and card of a backup are whole from
  their step on, and only older dumps are planned for (`NewestStays`: retention
  never supersedes the newest of a set, which is where `Retain > 0` is used); a
  restore works on a whole dump that is still there; an upload has still to send
  whatever it found and the bucket has not.
- What makes `Own(p)` stable is `Frame`: a step beside somebody's lock takes no
  whole file away and leaves the clock; nothing ever leaves the bucket.
- The refinement is step by step: writing a dump or a card is `Add` or a stutter
  (`DumpWritten`, `CardWritten`), since a step that writes a torn file finds none or a
  torn one in its place, or one of another host; what a prune removes is older than
  the dump its backup has just completed, so it is `Drop` (`FileGone`, `PruneDrops`).

**FleetProofs**, from `FleetAssumption`:
`IInv == TypeOK /\ AboutAHost /\ Targeted /\ PastTheGuard /\ BehindTheFirewall /\
NotLockedOut`.
`PastTheGuard` says what a console that is past the guard knows of the hosts
still running: they are reached over the tailnet. It stays so because no step takes users, tailnet or inventory back
(lemmas named for the steps' groups); so the firewall is only shut where it
holds. `BehindTheFirewall`: a play that is past that task runs only on hosts whose
public door is shut, and no step opens one, so that a report needs no look at the
door of its own. `AboutAHost` and `Targeted` say that a play has hosts
and a core update past its choice a version.

What a report says is proved of the consoles nobody interfered with, from
`Undisturbed`, inductive beside `IInv`: `Reliable` is what such a console may rely on
at the step it is at. From the firewall on, the hosts still running have the early
roles of the collection the play began with, then its runtime, at the verdict the
late roles too; a version it saw is that of the host's runtime or unknown; and if it
took the hosts it ticked, the hosts it leaves out have the target's runtime already,
which is all that can be said of them. A step of another console either ends
`alone` or leaves all that as it is (`OthersStay`).

**BundleProofs**, first part, about `Delivery`, from `DeliveryAssumption` and
`MarksAssumption`: `DeliveryInv == Shaped /\ RunsKeepOne /\ HandsAreNamed /\ StillThere /\ TakenIsPassed /\
StagedIsAccepted /\ RunIsOneCommit`.

- A document may be anything, so there is no type invariant; `Shaped` says which
  fields the record of a delivery has and which names there are in `/tmp`, and that
  is all an assignment needs.
- `RunsKeepOne`: a run has one commit before it throughout, so that what it reads
  again for the archive is what it read for the digests (`SameAgain`), and its bundle
  is the commit's (`BundleFor`). Nothing like it holds by hand, where `Edit` is.
- `StillThere`: between the comparison on the host and `platform deploy` nobody
  writes over the bundle of a run. It rests on `HandsAreNamed`, by which the names of
  two deliveries differ as soon as one is a run (`PathsApart`).
- `TakenIsPassed`: what is deployed passed `verify_bundle`, with no such help: that
  is why `StagedIsAccepted` holds of deliveries by hand as well.
- `BuildTakesWhatTheHostTakes` compares the two programs of checks, for any
  documents: build and host disagree only where `BuiltIsTaken` says so. The proof
  found the exception `DistinctPaths` (section 5).

Second part, about `Retention`, from `RetentionAssumption`:
`RetentionInv == TypeOK /\ Histories /\ Held /\ RetainedBundlesWhole /\ \A s : Own(s)`.

- `Histories`: a ledger has releases of its own scope only, and finitely many
  images, each with a newest release. That makes `NewestWith` and the cardinality in
  `RetainedImages` mean what they should; it stands for an induction over ledgers.
- `Held`: containers that exist hold their image, so an image that is being
  committed is there whatever another scope has pruned since it was pulled.
- `Own(s)`: until it is committed, the release of a command is whole on disk
  (`Ships`) and is what runs at the commit (`Runs`); what is planned for removal is
  the scope's own and outside its retained depth (`Prunes`). The plan stays so
  because the ledger only grows at its owner's commit, and `AppendRetained`: a commit
  brings nothing back into the retained depth.
- What the other scopes do cannot disturb this for bundles, as a bundle has one
  scope; for images it can, which is the exception `OwnImagesStay` states.

**ConsoleProofs**, first part, from `ConsoleAssumption`:
`RestoreInv == ConsoleTypeOK /\ HostHolds /\ \A c : Founded(desk[c]) /\ WayStands(desk[c], disk)`.

- `HostHolds`: no dump, on the host or in the bucket, has a stamp that is still to
  come, so a backup finds no file in its way, and its own dump is the newest and
  inside any retained depth (`BackupGoesOn`). No proof is of a stamp that does not
  restore, whatever a download has left under it.
- `Founded`: what a console may rely on however old its answers are. It relies on
  the list for nothing but the stamp; the proof it read stays true of the stamp.
- `WayStands`: the safety dump, or a later one of this host, is whole on disk.
  `HostGoesOn` keeps it: what a command of the host does, one that is cut short
  included, either takes no whole dump away or leaves a new one.
- `OneMoreIsKept` counts: one dump more moves the chosen one by one place. It is
  where `WouldPrune` has to have `depth - 1`.

Second part, from `SessionAssumption`:
`IInv == TypeOK /\ Owned /\ Tunnelled /\ Terminated /\ Swept`.

- `Owned`: until its `CREATE ROLE` a name is drawn by one command only, and a role
  exists, or has existed, from then on.
- `Tunnelled`: no tunnel leads to a role before there is one, nor to a role whose
  close is alone. A forward, by the console or by hand, ends that of every close it
  meets (`Forwarding`).
- `Terminated`: at `closeDrop` of such a close nobody is connected as the role. A
  role already dropped by somebody else's close is not meant: nobody can be found
  by its name any more.
- `Swept`: what the sweep of an open has dropped does not come back, so each role
  of `expiredBefore` is still `due` or gone, and all are gone at `create`.

**HostTimersProofs**, from `TimersAssumption`:
`IInv == TypeOK /\ Found /\ \A s : Fits(s)`.

- The names come first. `AppendSplits` says what `Front` and `Last` undo, `NamesTell`
  and `ExportTells` that the name of a unit leads back to its scope and job, and
  `UnitsAreApart` that no unit is of two scopes and that one whose name without its
  last word is the scope's is a unit of the scope. Nothing is assumed of the projects'
  names; a job is one word.
- `Found`: an enabled unit, of an export or of the backups, has a drop-in.
- `Fits(s)` has two parts. `Shape`: the command of a scope visits its own units, the
  declared ones in the first phase, and at each of its steps the drop-in is there
  before the unit is enabled and the unit disabled before the drop-in goes. That is
  what keeps `Found` when a command is cut short. `Handled`: while there is nothing to
  warn of, each unit of the scope is as the release asks (`Right`), or the command is
  at it or still comes to it (`Later`). The second phase takes up what its own reading
  of the drop-ins finds, and by `Found` it overlooks no enabled unit, which is where
  the two parts meet. At the end nothing is left to come to, so all are right:
  `TimersMatchRelease`, and, as a command that removes asks for nothing and never
  warns, `RetiredIsQuiet`.
- `Origin`, inductive beside `IInv` (`OriginHolds`): a run that has begun is of the
  scope and job its instance names, or was started by hand, and its release is one
  that was deployed to that scope, however long ago. No command undoes that, so it
  is still true when the card is written; that the timer is still enabled then is not
  claimed, and is not so.
- `FitsLocally`: `Fits(s)` is about the units of `s` only, and `StepsAreLocal`: a
  command touches no others. So the steps of other scopes need no case of their own.

Only model-checked: `NewCertificatesAreLoaded`, a liveness property, out of the
prover's reach, as are `ENABLED` and induction over data; and `SuccessIsItsOwn`,
which does not hold. What `MapThenSumSet` adds up in `WithinLimits` is never looked
into: the theorems on bundles hold for any way to add sizes.

## 5. What the models leave out

- The formats: JSON schemas, symlink and mode checks, wording, fragment text.
- Double faults: a second failure of docker while the reconciler undoes a reload
  (`nginx_reconcile.py:109`); a ledger that cannot be written after the proxy
  was restored (`platform_cli.py:1564`), which leaves a record in `deploying`.
- A clock that goes back (`release_ledger.py:39`).
- A retained depth that changes between the manifests of one scope.
- Boot recovery over several scopes (`reboot_recovery_entrypoint.py:53`): the
  first ledger that refuses, or whose secrets cannot be decrypted, ends it for
  every scope after it, and Docker stays gated. `ReleaseLifecycle` has one scope.
- In `ReleaseLifecycle`, `app.env` without `DATABASE_URL` (`platform_cli.py:1817`)
  is `"partial"`; what containers started from such a file can do is a matter of
  `DatabaseCredential` (`LoginKept`).
- In `BackupRestore`: two dumps of one second, the bucket's lifecycle rule, the
  history of verifications before the last (whose update is a read, an append and
  a write without a lock, `restore_runtime.py:467`), the scratch directory and
  throwaway container that a killed verification leaves behind with a decrypted
  copy, cards cut short, and a dump under a name that was created anew while its
  download was still writing.
- In `DatabaseCredential`: `database.env`, which only an empty volume reads and
  which every command that may start the container on one rewrites; a database
  in mode `external`, for which the platform keeps no credential; the retention
  of `app.env` of old releases.
- In `HostTimers`: the text of an export's query, message and mail; and a directory
  of drop-ins that cannot be listed (`export_schedule.py:162`), which counts as one
  with none in it: timers to remove would then be overlooked without a warning.
- In `ConsoleRestore`: what a host that lost its power keeps of a file that was being
  written; a process that is killed leaves the whole of what it wrote. Two restores
  from two consoles at once are left to the proofs.
- In `Delivery`: what a deployment does once its bundle is staged; two releases
  of one label; the pruning of staged bundles, which is `Retention`'s matter.
- In `Fleet`: what a service keeps in memory. A play that fails after a file was
  changed loses the handlers it notified (`src/roles/ssh/tasks/main.yml:26`); the
  next passes find the file in place, change nothing and are reported clean. What
  readiness looks at is left out as well: the console names no phase
  (`operator/console.py:551`), the role's default is `pre`
  (`src/roles/vps_readiness/defaults/main.yml:2`), and whether an inventory says
  `post` is its own affair (the template does, `src/examples/consumer` does not). No
  property rests on it.
- In `DatabaseSessions`: passwords and the grants of the role; clients that log in
  from the host itself.
- Leftovers that nothing reads again (`.<digest>.*` of a killed staging).
- ACME readiness and the metrics export, which read what the others leave and
  write for people and collectors; of the console its prompts and tables, the
  scaffold of a new company, the editor of secrets, logs and the doctor's report.
  They keep no state that a command decides on. Of the roles, those that install
  packages and units.

Behaviour the code has that a reader of its documents might not expect, met while
modelling and reached by the models unless said otherwise:

- **Purge tests the marker before it takes the lock** (`retire.py:253`): an
  application that was revived in between is destroyed although it is not retired
  any more, against `retire.py:6`. `ConfirmPurge` and `LockPurge` are two steps in
  `ReleaseLifecycle` and in `DatabaseCredential` for that reason.
- **A failed deploy after a retire** (`platform_cli.py:1536`) restores the release
  the retire stopped, whose domains were released; another application may have
  taken them (`ProxyActivation`).
- **A retire whose activation fails** (`retire.py:127`) is not rolled back; the
  pending marker stays, and every later `Prepare` of the host is refused until an
  operator clears it. `src/docs/handbook.html:16150` says that it was rolled back.
- **The digest in `.reconciled-state`** (`nginx_reconcile.py:93`) is written by the
  reconciler alone; after a deploy it may match a rendering nginx does not run
  with, and nginx keeps upstreams that are gone until the rendering changes again.
- **A crash between the commit of a deploy and `clear_marker`**
  (`platform_cli.py:1954`) leaves a running application marked as retired. Boot
  recovery skips its `app.env`; its containers come back after a reboot without the
  file a later restart needs. `RunningKeepsSecrets` excludes a retired scope for
  that reason. Deploying a new tag clears the marker.
- **A deploy of the current tag** takes the reuse path (`platform_cli.py:1805`),
  which starts no container: after a rotation whose restart failed
  (`src/docs/runbook.md:47` sends the operator there) the application keeps the old
  password, and a retired application stays down although the deploy succeeds.
- **A deploy killed in `deploying`** (`platform_cli.py:1790`) blocks rollback,
  retire, the same tag and boot recovery until its record is edited by hand.
- **Images are pruned by the plan of another scope** (`release_retention.py:367`),
  made before that scope committed; other scopes count with the default depth, not
  the one of their own manifests (`release_retention.py:171`). An image within a
  retained depth may be gone (`src/docs/runbook.md:426`).
- **An upload sends what was listed under its name by now**
  (`backup_offsite.py:226`): one that compared long ago replaces a whole copy in
  the bucket by a file that is half fetched.
- **A restore that fails** (`restore_runtime.py:217`) leaves the live database
  replaced in part, and the next scheduled dump is of that database.
- **`exec` rewrites `app.env` and the database's environment without the lock**
  (`platform_cli.py:2515`): beside a rotation it stores the password it read before.
  It is in none of the models; with it `RotationAgrees` would not hold.
- **An export outlives what it was started for** (`platform_cli.py:2325`,
  `export_runtime.py:421`): it takes no lock, so its card may tell of a release that
  was replaced, of a job that left the manifest or of an environment that was purged
  meanwhile, whose directory it makes again; and of two runs of one job the one that
  ends last has the card.
- **A killed download is listed as a dump** (`backup_offsite.py:316`): the torn file
  stays under its final name, where the next download refuses to write, and
  `platform backups` calls it verified if the last verification was of its stamp
  (`platform_cli.py:2068`). The console then offers it, takes it for proven and asks
  to confirm; only the host's own decryption refuses it.
- **A core update may leave old roles behind and report success**
  (`operator/core_update.py:197`): the version a console reads is that of the runtime,
  which `platform_cli` puts down before its own last tasks and the roles `proxy`,
  `observability` and `reboot_recovery` (`src/playbooks/converge.yml:19`). A host that
  was lost in those tells the target, is not ticked the next time, and the update of
  the others is reported as one of the fleet. `NoneLeftBehind` claims the runtime only.
- **A session closed by hand while a tunnel stands** (`database_session.py:201`; the
  command is printed as `close_with`): a client of that tunnel, be it the console's,
  one opened by hand, or an ssh that outlived a killed console, may come back between
  the termination and `DROP ROLE`, and stays connected as a role that is gone and that
  no later sweep finds. `ClosedIsClosed` is claimed of a close that no other tunnel
  meets, which is every close of the console's own unless somebody forwards a port
  beside it.
- **The console deploys by hand what the directory holds when the bundle is built**
  (`operator/console.py:1768`), minutes after it found the tree clean; `Edit` in
  `Delivery` is that, and `RunIsOneCommit` is claimed for the workflow only.
- **A dump is proven by stamp** (`operator/console.py:2575`): one that was moved
  here may have been pruned and imported again, torn, since its proof;
  `RestoresProven` claims of the host's own dumps only that they are whole.
- **The build takes one file for two purposes** (`build_bundle.py:139`): nothing keeps
  `compose_file` and `secrets.source` apart, and a Compose file with the metadata of
  SOPS in it passes both checks. The bundle it makes declares one path twice, which
  the host refuses (`verify_bundle.py:290`): `observability_bundle.py:29` wants a
  build that does not make what no host will take. `BuiltIsTaken` has the exception
  `DistinctPaths` for it, and a commit of the run reaches it.
- **A session role that owns an object** (`database_session.py:116`) cannot be
  dropped: its close fails, and once it has expired every later open stops at its
  sweep, until somebody gives the object away. **A role that expires between the
  two statements of a sweep** is dropped with its client still connected.

## 6. Plan

Done: every component whose state decides what a later command does, except boot
recovery over several scopes and what section 5 lists; proofs of every safety
property of the lifecycle, the proxy, retention, the credential, the backups, the
fleet, the sessions, the timers, the deliveries and the console's restores; the
refinements of `ReleaseChain`, `DomainSwitch`, `BackupStore` and `OnePassword`.

Next, in this order:

1. **Host recovery**: boot recovery over several scopes, with the database's part.
2. **exec** as a command of `DatabaseCredential`, with the properties that hold
   beside it.
