------------------------ MODULE DatabaseCredential ------------------------
(***************************************************************************)
(* The database the platform runs for one project/environment, and the     *)
(* copies of its password: the one PostgreSQL accepts, the encrypted       *)
(* credential file, DATABASE_URL in the app.env of a release, and what the *)
(* application's containers were created with.  Deploy, rollback, rotate,  *)
(* retire and purge take the environment's lock and are followed as far as *)
(* they touch one of those.  platform exec, which takes no lock, is left   *)
(* out.  A failure that changes nothing more, and any exception, is Kill:  *)
(* the command ends where it is.                                           *)
(*                                                                         *)
(* ALTER USER is sent through the container's own socket, which asks for   *)
(* no password: it succeeds whatever the credential file says.             *)
(* database.env, which only an empty volume reads, is rewritten from the   *)
(* credential by every command that may start the container on one.        *)
(***************************************************************************)
EXTENDS Integers, Sequences, FiniteSets

CONSTANTS
  Proc,      \* concurrent invocations of the platform CLI
  Release,   \* what may be deployed
  Major,     \* PostgreSQL major versions
  MajorOf,   \* MajorOf[r]: database.postgres_major of its manifest
  Password,  \* what generate_password may return
  NoUrl,     \* of an app.env: it is there, but without DATABASE_URL
  None

ASSUME CredentialAssumption ==
  /\ MajorOf \in [Release -> Major]
  /\ None \notin Proc \cup Release \cup Major \cup Password
  /\ NoUrl \notin Password \cup {None}

VARIABLES
  db,         \* the volume: the password PostgreSQL accepts, and the cluster's major
  dbUp,       \* the database container runs
  stored,     \* the password in credentials.sops.json
  compose,    \* the major in the database's Compose file
  env,        \* env[r]: the password in DATABASE_URL of app.env of r
  app,        \* the application's containers, with the password baked into them
  current,    \* the release the ledger holds for current
  recorded,   \* the ledger has a record
  unfinished, \* the releases with a record in deploying
  retired,    \* retired.json exists
  lock,       \* holder of the project/environment lock
  op,         \* op[p]: what process p is doing
  host        \* "up", or "booting": Docker is gated on boot recovery

vars == <<db, dbUp, stored, compose, env, app, current, recorded, unfinished, retired,
          lock, op, host>>

-----------------------------------------------------------------------------
(* State spaces *)

PC == {"idle",
       "materialise", "credential", "compose", "up", "inject",   \* deploy and rollback
       "record", "start", "commit", "restore",
       "alter", "store", "rematerialise", "reinject", "restart", \* rotate
       "app_down", "db_down", "marker",                          \* retire
       "confirmed", "destroy", "trees", "ledger"}                \* purge

Kind == {"none", "deploy", "redeploy", "rollback", "rotate", "retire", "purge"}

Operation ==
  [pc       : PC,
   kind     : Kind,
   rel      : Release \cup {None},    \* the candidate
   previous : Release \cup {None},    \* the current release when the command began
   todo     : Seq(Release),           \* whose app.env still gets its DATABASE_URL
   pw       : Password \cup {None}]   \* the password the process holds in memory

Idle ==
  [pc |-> "idle", kind |-> "none", rel |-> None, previous |-> None, todo |-> <<>>, pw |-> None]

Volume     == [pw : Password, major : Major] \cup {[pw |-> None, major |-> None]}
NoVolume   == [pw |-> None, major |-> None]
EnvFile    == Password \cup {NoUrl, None}
Containers == [rel : Release \cup {None}, pw : EnvFile, ok : BOOLEAN]
Down       == [rel |-> None, pw |-> None, ok |-> FALSE]

TypeOK ==
  /\ db \in Volume
  /\ dbUp \in BOOLEAN
  /\ stored \in Password \cup {None}
  /\ compose \in Major \cup {None}
  /\ env \in [Release -> EnvFile]
  /\ app \in Containers
  /\ current \in Release \cup {None}
  /\ recorded \in BOOLEAN
  /\ unfinished \subseteq Release
  /\ retired \in BOOLEAN
  /\ lock \in Proc \cup {None}
  /\ op \in [Proc -> Operation]
  /\ host \in {"up", "booting"}

Init ==
  /\ db = NoVolume
  /\ dbUp = FALSE
  /\ stored = None
  /\ compose = None
  /\ env = [r \in Release |-> None]
  /\ app = Down
  /\ current = None
  /\ recorded = FALSE
  /\ unfinished = {}
  /\ retired = FALSE
  /\ lock = None
  /\ op = [p \in Proc |-> Idle]
  /\ host = "up"

-----------------------------------------------------------------------------
(* Helpers *)

dbVars     == <<db, dbUp, stored, compose>>
ledgerVars == <<current, recorded, unfinished, retired>>

At(p, pc) == op[p].pc = pc /\ host = "up"

Goto(p, pc) == op' = [op EXCEPT ![p].pc = pc]

Leave(p) ==
  /\ op' = [op EXCEPT ![p] = Idle]
  /\ lock' = IF lock = p THEN None ELSE lock

(* Mutant of LockScope: the command goes on when the lock is busy. *)
LockScopeIgnoringBusy(p) == lock' = p

(* project_environment_lock: taken at once, or the command fails. *)
LockScope(p) == lock = None /\ lock' = p

(* generate_password returns what nobody has.  The app.env of a release that is not      *)
(* current is written anew before anything reads it.                                     *)
Fresh ==
  Password \ ({db.pw, stored, app.pw} \cup {env[r] : r \in Release \cap {current}}
                \cup {op[p].pw : p \in Proc})

HasVolume == db # NoVolume

(* The containers of r, created from its app.env as it is now. *)
ContainersOf(r, ok) == [rel |-> r, pw |-> env[r], ok |-> ok]

-----------------------------------------------------------------------------
(* run_deploy and run_rollback up to the ledger *)

(* Deploying the tag of the current release again is a redeploy. *)
BeginDeploy(p, r) ==
  /\ At(p, "idle")
  /\ LockScope(p)
  /\ r \notin unfinished
  /\ op' = [op EXCEPT ![p] = [Idle EXCEPT !.pc = "materialise", !.rel = r,
                                !.kind = IF r = current THEN "redeploy" ELSE "deploy",
                                !.previous = current, !.todo = <<r>>]]
  /\ UNCHANGED <<dbVars, env, app, ledgerVars, host>>

(* Rollback prepares the current release as well as the one it goes back to. *)
BeginRollback(p, r) ==
  /\ At(p, "idle")
  /\ LockScope(p)
  /\ unfinished = {} /\ ~retired
  /\ current \notin {None, r}
  /\ op' = [op EXCEPT ![p] = [Idle EXCEPT !.pc = "materialise", !.rel = r, !.kind = "rollback",
                                          !.previous = current, !.todo = <<current, r>>]]
  /\ UNCHANGED <<dbVars, env, app, ledgerVars, host>>

Todo(p) == {op[p].todo[k] : k \in DOMAIN op[p].todo}

(* app.env is written anew from the bundle, whose secrets hold no DATABASE_URL. *)
Materialise(p) ==
  /\ At(p, "materialise")
  /\ env' = [r \in Release |-> IF r \in Todo(p) THEN NoUrl ELSE env[r]]
  /\ Goto(p, "credential")
  /\ UNCHANGED <<dbVars, app, ledgerVars, lock, host>>

(* Mutant of LoadOrCreateCredentials: a re-enveloped credential is a new one. *)
RenewCredentials(p) ==
  /\ At(p, "credential")
  /\ \E pw \in Fresh : stored' = pw /\ op' = [op EXCEPT ![p].pc = "compose", ![p].pw = pw]
  /\ UNCHANGED <<db, dbUp, compose, env, app, ledgerVars, lock, host>>

(* load_or_create_credentials: a volume without its credential ends the command.  The   *)
(* envelope may change; the password does not.                                          *)
LoadOrCreateCredentials(p) ==
  /\ At(p, "credential")
  /\ \/ /\ stored # None
        /\ op' = [op EXCEPT ![p].pc = "compose", ![p].pw = stored]
        /\ UNCHANGED stored
     \/ /\ stored = None /\ ~HasVolume
        /\ \E pw \in Fresh : stored' = pw /\ op' = [op EXCEPT ![p].pc = "compose", ![p].pw = pw]
  /\ UNCHANGED <<db, dbUp, compose, env, app, ledgerVars, lock, host>>

(* ensure_project_database: an existing cluster is never handed to another major. *)
WriteDatabaseCompose(p) ==
  LET requested == MajorOf[Head(op[p].todo)]
  IN  /\ At(p, "compose")
      /\ HasVolume => compose \in {None, requested}
      /\ compose' = requested
      /\ Goto(p, "up")
      /\ UNCHANGED <<db, dbUp, stored, env, app, ledgerVars, lock, host>>

(* docker compose up: an empty volume is initialised with database.env.  It may fail    *)
(* before or after that.                                                                *)
StartDatabase(p) ==
  LET initialised == IF HasVolume THEN db ELSE [pw |-> op[p].pw, major |-> compose]
  IN  /\ At(p, "up")
      /\ \/ /\ db' = initialised
            /\ dbUp' = TRUE
            /\ Goto(p, "inject") /\ UNCHANGED lock
         \/ /\ db' \in {db, initialised}
            /\ dbUp' \in {dbUp, FALSE}
            /\ Leave(p)
      /\ UNCHANGED <<stored, compose, env, app, ledgerVars, host>>

(* Mutant of InjectDatabaseUrl: only the first of the releases gets its URL. *)
InjectFirst(p) ==
  /\ At(p, "inject")
  /\ env' = [env EXCEPT ![Head(op[p].todo)] = op[p].pw]
  /\ IF op[p].kind = "redeploy" THEN Leave(p) ELSE Goto(p, "record") /\ UNCHANGED lock
  /\ UNCHANGED <<dbVars, app, ledgerVars, host>>

(* inject_database_url.  A redeploy ends here, with no container touched. *)
InjectDatabaseUrl(p) ==
  LET rest == Tail(op[p].todo)
  IN  /\ At(p, "inject")
      /\ env' = [env EXCEPT ![Head(op[p].todo)] = op[p].pw]
      /\ IF op[p].kind = "redeploy"
         THEN Leave(p)
         ELSE /\ op' = [op EXCEPT ![p].pc = IF rest = <<>> THEN "record" ELSE "credential",
                                  ![p].todo = rest]
              /\ UNCHANGED lock
      /\ UNCHANGED <<dbVars, app, ledgerVars, host>>

-----------------------------------------------------------------------------
(* execute_prepared_release *)

StatusDeploying(p) ==
  /\ At(p, "record")
  /\ recorded' = TRUE
  /\ unfinished' = unfinished \cup {op[p].rel}
  /\ Goto(p, "start")
  /\ UNCHANGED <<dbVars, env, app, current, retired, lock, host>>

(* The containers are recreated from app.env.  Whether a wrong password shows depends   *)
(* on the application: the healthcheck need not touch the database.                     *)
StartRelease(p) ==
  /\ At(p, "start")
  /\ \/ app' = ContainersOf(op[p].rel, TRUE) /\ \E pc \in {"commit", "restore"} : Goto(p, pc)
     \/ app' \in {app, ContainersOf(op[p].rel, FALSE)} /\ Goto(p, "restore")
  /\ UNCHANGED <<dbVars, env, ledgerVars, lock, host>>

(* A kill may come before a deploy clears the marker. *)
Commit(p) ==
  /\ At(p, "commit")
  /\ current' = op[p].rel
  /\ unfinished' = unfinished \ {op[p].rel}
  /\ retired' \in IF op[p].kind = "deploy" THEN {retired, FALSE} ELSE {retired}
  /\ Leave(p)
  /\ UNCHANGED <<dbVars, env, app, recorded, host>>

(* restore_previous_release starts from the app.env the previous release was left with. *)
RestorePrevious(p) ==
  LET previous == op[p].previous
  IN  /\ At(p, "restore")
      /\ app' \in {app} \cup IF previous = None THEN {Down}
                             ELSE IF env[previous] = None THEN {}
                             ELSE {ContainersOf(previous, ok) : ok \in BOOLEAN}
      /\ unfinished' = unfinished \ {op[p].rel}
      /\ Leave(p)
      /\ UNCHANGED <<dbVars, env, current, recorded, retired, host>>

-----------------------------------------------------------------------------
(* run_rotate_database_password *)

BeginRotate(p) ==
  /\ At(p, "idle")
  /\ LockScope(p)
  /\ current # None
  /\ stored # None
  /\ \E pw \in Fresh :
       op' = [op EXCEPT ![p] = [Idle EXCEPT !.pc = "alter", !.kind = "rotate", !.rel = current,
                                            !.pw = pw]]
  /\ UNCHANGED <<dbVars, env, app, ledgerVars, host>>

(* docker exec may time out after the statement took effect. *)
AlterDatabasePassword(p) ==
  /\ At(p, "alter")
  /\ dbUp
  /\ db' = [db EXCEPT !.pw = op[p].pw]
  /\ \/ Goto(p, "store") /\ UNCHANGED lock
     \/ Leave(p)
  /\ UNCHANGED <<dbUp, stored, compose, env, app, ledgerVars, host>>

(* Mutant of StoreCredential: the application is restarted from the app.env it has. *)
StoreAndRestart(p) ==
  /\ At(p, "store")
  /\ stored' = op[p].pw
  /\ Goto(p, "restart")
  /\ UNCHANGED <<db, dbUp, compose, env, app, ledgerVars, lock, host>>

StoreCredential(p) ==
  /\ At(p, "store")
  /\ stored' = op[p].pw
  /\ Goto(p, "rematerialise")
  /\ UNCHANGED <<db, dbUp, compose, env, app, ledgerVars, lock, host>>

Rematerialise(p) ==
  /\ At(p, "rematerialise")
  /\ env' = [env EXCEPT ![op[p].rel] = NoUrl]
  /\ Goto(p, "reinject")
  /\ UNCHANGED <<dbVars, app, ledgerVars, lock, host>>

(* The password is read back from the credential file. *)
Reinject(p) ==
  /\ At(p, "reinject")
  /\ env' = [env EXCEPT ![op[p].rel] = stored]
  /\ Goto(p, "restart")
  /\ UNCHANGED <<dbVars, app, ledgerVars, lock, host>>

RestartSucceeds(p) ==
  /\ At(p, "restart")
  /\ app' = ContainersOf(op[p].rel, TRUE)
  /\ Leave(p)
  /\ UNCHANGED <<dbVars, env, ledgerVars, host>>

RestartFails(p) ==
  /\ At(p, "restart")
  /\ app' \in {app, ContainersOf(op[p].rel, FALSE)}
  /\ Leave(p)
  /\ UNCHANGED <<dbVars, env, ledgerVars, host>>

-----------------------------------------------------------------------------
(* retire and purge *)

BeginRetire(p) ==
  /\ At(p, "idle")
  /\ LockScope(p)
  /\ recorded /\ unfinished = {}
  /\ op' = [op EXCEPT ![p] = [Idle EXCEPT !.pc = "app_down", !.kind = "retire"]]
  /\ UNCHANGED <<dbVars, env, app, ledgerVars, host>>

StopApplication(p) ==
  /\ At(p, "app_down")
  /\ app' = Down
  /\ Goto(p, "db_down")
  /\ UNCHANGED <<dbVars, env, ledgerVars, lock, host>>

StopDatabase(p) ==
  /\ At(p, "db_down")
  /\ dbUp' = FALSE
  /\ Goto(p, "marker")
  /\ UNCHANGED <<db, stored, compose, env, app, ledgerVars, lock, host>>

WriteMarker(p) ==
  /\ At(p, "marker")
  /\ retired' = TRUE
  /\ Leave(p)
  /\ UNCHANGED <<dbVars, env, app, current, recorded, unfinished, host>>

(* The marker is read before the lock is taken. *)
ConfirmPurge(p) ==
  /\ At(p, "idle")
  /\ retired
  /\ op' = [op EXCEPT ![p] = [Idle EXCEPT !.pc = "confirmed", !.kind = "purge"]]
  /\ UNCHANGED <<dbVars, env, app, ledgerVars, lock, host>>

LockPurge(p) ==
  /\ At(p, "confirmed")
  /\ LockScope(p)
  /\ Goto(p, "destroy")
  /\ UNCHANGED <<dbVars, env, app, ledgerVars, host>>

(* Mutant of Destroy: the database's containers go, its volume stays. *)
DestroyKeepingVolume(p) ==
  /\ At(p, "destroy")
  /\ app' = Down
  /\ dbUp' = FALSE
  /\ Goto(p, "trees")
  /\ UNCHANGED <<db, stored, compose, env, ledgerVars, lock, host>>

(* compose down --volumes of the application, then of the database, where it may fail  *)
(* with the container gone and the volume left.                                         *)
Destroy(p) ==
  /\ At(p, "destroy")
  /\ app' = Down
  /\ \/ db' = NoVolume /\ dbUp' = FALSE /\ Goto(p, "trees") /\ UNCHANGED lock
     \/ dbUp' \in {dbUp, FALSE} /\ Leave(p) /\ UNCHANGED db
  /\ UNCHANGED <<stored, compose, env, ledgerVars, host>>

(* rmtree of the database's directory may be cut short after either file. *)
RemoveTrees(p) ==
  /\ At(p, "trees")
  /\ \/ /\ stored' \in {stored, None} /\ compose' \in {compose, None}
        /\ Leave(p)
        /\ UNCHANGED env
     \/ /\ stored' = None /\ compose' = None
        /\ env' = [r \in Release |-> None]
        /\ Goto(p, "ledger") /\ UNCHANGED lock
  /\ UNCHANGED <<db, dbUp, app, ledgerVars, host>>

RemoveLedger(p) ==
  /\ At(p, "ledger")
  /\ current' = None
  /\ recorded' = FALSE
  /\ unfinished' = {}
  /\ retired' = FALSE
  /\ Leave(p)
  /\ UNCHANGED <<dbVars, env, app, host>>

-----------------------------------------------------------------------------
(* The environment *)

Kill(p) ==
  /\ op[p].pc # "idle"
  /\ Leave(p)
  /\ UNCHANGED <<dbVars, env, app, ledgerVars, host>>

Reboot ==
  /\ host' = "booting"
  /\ op' = [p \in Proc |-> Idle]
  /\ lock' = None
  /\ env' = [r \in Release |-> None]
  /\ UNCHANGED <<dbVars, app, ledgerVars>>

(* restore_database_environment.  Docker then restarts both containers as they were     *)
(* created.  A credential that is missing leaves the host gated, and so does a ledger   *)
(* that needs an operator, of which only the unfinished ones are kept here.             *)
BootRecovery ==
  /\ host = "booting"
  /\ \/ /\ retired \/ (current = None /\ unfinished = {})
        /\ UNCHANGED env
     \/ /\ ~retired /\ current # None /\ unfinished = {}
        /\ stored # None
        /\ env' = [env EXCEPT ![current] = stored]
  /\ host' = "up"
  /\ UNCHANGED <<dbVars, app, ledgerVars, lock, op>>

Step(p) ==
  \/ \E r \in Release : BeginDeploy(p, r) \/ BeginRollback(p, r)
  \/ Materialise(p) \/ LoadOrCreateCredentials(p) \/ WriteDatabaseCompose(p) \/ StartDatabase(p)
  \/ InjectDatabaseUrl(p) \/ StatusDeploying(p) \/ StartRelease(p) \/ Commit(p)
  \/ RestorePrevious(p)
  \/ BeginRotate(p) \/ AlterDatabasePassword(p) \/ StoreCredential(p) \/ Rematerialise(p)
  \/ Reinject(p) \/ RestartSucceeds(p) \/ RestartFails(p)
  \/ BeginRetire(p) \/ StopApplication(p) \/ StopDatabase(p) \/ WriteMarker(p)
  \/ ConfirmPurge(p) \/ LockPurge(p) \/ Destroy(p) \/ RemoveTrees(p) \/ RemoveLedger(p)
  \/ Kill(p)

Next == (\E p \in Proc : Step(p)) \/ Reboot \/ BootRecovery

Spec == Init /\ [][Next]_vars

-----------------------------------------------------------------------------
(* Properties *)

(* "An existing volume is sacred": a volume never lacks its credential, whatever a      *)
(* first deploy or a purge left behind when it was cut short, so no deploy is refused   *)
(* over it; and the Compose file that starts it names the major of its cluster.         *)
SacredVolume == HasVolume => stored # None /\ compose = db.major

Credential == INSTANCE OnePassword WITH
  accepted <- db.pw,
  rotating <- \E p \in Proc : op[p].kind = "rotate"

(* A volume is initialised with the stored credential, also with one that outlived an   *)
(* earlier volume.  Once the two agree only a rotation under way takes them apart, by a *)
(* password that is new, and whatever is stored later is what PostgreSQL accepts; a     *)
(* credential goes only when its volume is gone.  So it is with commands killed         *)
(* anywhere, an ALTER USER that times out, and a purge cut short.                       *)
CredentialImplemented == Credential!Spec

(* A rotation that ends well leaves database, credential and application with one       *)
(* password, whatever an earlier rotation that was cut short had left them with.        *)
RotationAgrees ==
  [][\A p \in Proc : RestartSucceeds(p) => stored' = db'.pw /\ app'.pw = stored']_vars

(* A release becomes current only while its containers run with the stored credential   *)
(* beside a running database: the password read before the ledger was written is still  *)
(* the one on disk at the end.                                                          *)
CommittedCanLogIn ==
  [][\A p \in Proc :
       Commit(p) => app.ok /\ app.rel = op[p].rel /\ app.pw = stored /\ dbUp /\ HasVolume]_vars

CanLogIn == app.ok /\ HasVolume /\ app.pw = db.pw

(* A healthy application that can log in stays so: apart from a rotation, only a        *)
(* restore of a previous release whose app.env an interrupted command left stale can    *)
(* replace it by healthy containers that cannot.                                        *)
LoginKept ==
  [][CanLogIn /\ app'.ok /\ ~CanLogIn' =>
       \E p \in Proc :
         \/ op[p].kind = "rotate"
         \/ At(p, "restore") /\ op[p].previous # None /\ env[op[p].previous] # stored]_vars

=============================================================================
