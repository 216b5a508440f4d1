---------------------------- MODULE HostTimers ----------------------------
(***************************************************************************)
(* The systemd timers of a host: one for the backups of an environment,    *)
(* one for each of its export jobs.  A deploy makes them equal to what the *)
(* release declares, retire and purge remove them, and what a timer starts *)
(* finds out from the name of its instance for whom it works.              *)
(*                                                                         *)
(* Names are sequences of the words between hyphens: a project may have    *)
(* several, an environment and a job have one.  Scopes are processes, as   *)
(* one command of a scope runs at a time (OneCommandAtATime of             *)
(* ReleaseLifecycleProofs).  An export takes no lock: it reads the release *)
(* when it starts, and writes its card when it ends, whatever the commands *)
(* did meanwhile.                                                          *)
(*                                                                         *)
(* systemctl enable and disable reload systemd's configuration themselves, *)
(* so the daemon-reload before them is one more call that may fail, and    *)
(* what systemd runs with after a successful enable is the file.           *)
(***************************************************************************)
EXTENDS Integers, Sequences, FiniteSets

CONSTANTS
  Scope,     \* records: project, a sequence of words, and environment, a word
  Job,       \* names of export jobs
  Schedule,  \* intervals and calendars
  Refused,   \* the schedules that are out of bounds, or that systemd does not accept
  Release,   \* manifests: the parts of them the timers depend on
  Offered,   \* Offered[s]: the releases that may be deployed to scope s
  Interval,  \* Interval[m]: of its backups, or None
  Jobs,      \* Jobs[m][n]: the schedule of export n, or None
  Runner,    \* processes that run `platform export`
  Torn,      \* of a drop-in: the directory is there, the file is not, or not whole
  None

ASSUME TimersAssumption ==
  /\ \A s \in Scope : s.project \in Seq(STRING) /\ s.environment \in STRING
  /\ Scope \subseteq [project : Seq(STRING), environment : STRING]
  /\ Job \subseteq STRING
  /\ Refused \subseteq Schedule
  /\ Offered \in [Scope -> SUBSET Release]
  /\ Interval \in [Release -> Schedule \cup {None}]
  /\ Jobs \in [Release -> [Job -> Schedule \cup {None}]]
  /\ None \notin Schedule \cup Release \cup {Torn} /\ Torn \notin Schedule

-----------------------------------------------------------------------------
(* Names *)

(* timer_instance and export_instance. *)
TimerInstance(s)     == Append(s.project, s.environment)
ExportInstance(s, n) == Append(TimerInstance(s), n)

BackupUnit(s)    == [template |-> "backup", instance |-> TimerInstance(s)]
ExportUnit(s, n) == [template |-> "export", instance |-> ExportInstance(s, n)]
ExportUnits(s)   == {ExportUnit(s, n) : n \in Job}
UnitsOf(s)       == {BackupUnit(s)} \cup ExportUnits(s)
Unit             == UNION {UnitsOf(s) : s \in Scope}

Last(q)  == q[Len(q)]
Front(q) == SubSeq(q, 1, Len(q) - 1)

(* Mutant of SplitInstance: the project ends at the first hyphen. *)
SplitAtFirst(q) == [project |-> <<q[1]>>, environment |-> q[2]]

(* split_instance and split_export_instance: the environment is the last word of the    *)
(* scope's name, the job the last one of the unit's.                                    *)
SplitInstance(q) == [project |-> Front(q), environment |-> Last(q)]
ScopeOfExport(u) == SplitInstance(Front(u.instance))
JobOfExport(u)   == Last(u.instance)

-----------------------------------------------------------------------------
VARIABLES
  dropIn,   \* dropIn[u]: what the override directory of unit u holds
  enabled,  \* the units that are enabled
  current,  \* current[s]: the release that serves
  retired,  \* the scopes with a retired.json
  card,     \* card[s][n]: what the last run of an export left, or None
  run,      \* run[r]: the export that process r is at, or None
  op        \* op[s]: the command at work on scope s

vars == <<dropIn, enabled, current, retired, card, run, op>>

PC == {"idle", "write", "enable", "disable", "rmtree", "finish", "ledger"}

Command ==
  [pc    : PC,
   kind  : {"none", "deploy", "reuse", "retire", "purge"},
   unit  : Unit \cup {None},      \* the timer it is at
   left  : SUBSET Unit,           \* the timers it visits after that
   phase : {"declare", "remove"}, \* the declared ones come first, then those to remove
   warn  : BOOLEAN]               \* a warning is to be reported

Card == [release : Release, outcome : {"sent", "failed"}]

Run ==
  [unit    : Unit \cup {None},  \* the timer that started it; None: started by hand
   scope   : Scope,
   job     : Job,
   release : Release]           \* the one that served when it started

Idle ==
  [pc |-> "idle", kind |-> "none", unit |-> None, left |-> {}, phase |-> "declare",
   warn |-> FALSE]

TypeOK ==
  /\ dropIn \in [Unit -> Schedule \cup {Torn, None}]
  /\ enabled \subseteq Unit
  /\ current \in [Scope -> Release \cup {None}]
  /\ retired \subseteq Scope
  /\ card \in [Scope -> [Job -> Card \cup {None}]]
  /\ run \in [Runner -> Run \cup {None}]
  /\ op \in [Scope -> Command]

NoCards == [n \in Job |-> None]

Init ==
  /\ dropIn = [u \in Unit |-> None]
  /\ enabled = {}
  /\ current = [s \in Scope |-> None]
  /\ retired = {}
  /\ card = [s \in Scope |-> NoCards]
  /\ run = [r \in Runner |-> None]
  /\ op = [s \in Scope |-> Idle]

-----------------------------------------------------------------------------
(* What a release asks for *)

(* backups_are_scheduled, resolve_interval and declared_jobs.  A command that is not a  *)
(* deploy asks for nothing.                                                             *)
Reconciles(s) == op[s].kind \in {"deploy", "reuse"}

ScheduleFor(s, u) ==
  IF ~Reconciles(s) THEN None
  ELSE IF u = BackupUnit(s) THEN Interval[current[s]]
  ELSE Jobs[current[s]][JobOfExport(u)]

WantedExports(s) == {u \in ExportUnits(s) : ScheduleFor(s, u) # None}

(* Mutant of ExistingExports: whatever begins with the scope's name is the scope's. *)
ExistingByPrefix(s, files) ==
  LET prefix == TimerInstance(s)
  IN  {u \in Unit : /\ u.template = "export"
                    /\ files[u] # None
                    /\ SubSeq(u.instance, 1, Len(prefix)) = prefix}

(* existing_instances: found by their drop-ins.  What follows the prefix has to be the  *)
(* name of a job, which is one word.                                                    *)
ExistingExports(s, files) ==
  {u \in Unit : /\ u.template = "export"
                /\ files[u] # None
                /\ Front(u.instance) = TimerInstance(s)}

-----------------------------------------------------------------------------
(* Helpers *)

At(s, pc)   == op[s].pc = pc
Goto(s, pc) == op' = [op EXCEPT ![s].pc = pc]
Leave(s)    == op' = [op EXCEPT ![s] = Idle]

(* What the host has and the release does not ask for. *)
Undeclared(s, files) == ExistingExports(s, files) \ WantedExports(s)

(* The command is done with one timer and goes on to the next, when the drop-ins on     *)
(* disk are files.                                                                      *)
Advance(s, files, warn) ==
  LET first == op[s].left # {}
      phase == IF first THEN op[s].phase ELSE "remove"
      todo  == IF first THEN op[s].left
               ELSE IF op[s].phase = "remove" THEN {} ELSE Undeclared(s, files)
  IN  IF todo = {}
      THEN op' = [op EXCEPT ![s] = [Idle EXCEPT !.pc = "finish", !.kind = op[s].kind, !.warn = warn]]
      ELSE \E u \in todo :
             op' = [op EXCEPT ![s] = [@ EXCEPT !.pc = IF phase = "declare" THEN "write" ELSE "disable",
                                              !.unit = u, !.left = todo \ {u}, !.phase = phase,
                                              !.warn = warn]]

UnitDone(s, files) == Advance(s, files, op[s].warn)

(* Mutant of UnitFails: retire and purge go on as well. *)
UnitFailsAlwaysWarns(s, files) == Advance(s, files, TRUE)

(* A deploy turns the failure of one timer into a warning and goes on; retire and purge *)
(* end where they are.                                                                  *)
UnitFails(s, files) == IF Reconciles(s) THEN Advance(s, files, TRUE) ELSE Leave(s)

timerVars  == <<dropIn, enabled>>
ledgerVars == <<current, retired>>

-----------------------------------------------------------------------------
(* run_backup_schedule: first the backup timer, then the exports the release declares,  *)
(* then those the host has and the release does not declare.                            *)

(* The release is committed, or found to be the current one already. *)
BeginDeploy(s, m) ==
  LET wanted == {u \in ExportUnits(s) : Jobs[m][JobOfExport(u)] # None}
  IN  /\ At(s, "idle")
      /\ current' = [current EXCEPT ![s] = m]
      /\ \E kind \in {"deploy"} \cup (IF m = current[s] THEN {"reuse"} ELSE {}) :
           op' = [op EXCEPT ![s] =
                    [Idle EXCEPT !.kind = kind, !.unit = BackupUnit(s), !.left = wanted,
                                 !.pc = IF Interval[m] = None THEN "disable" ELSE "write"]]
      /\ UNCHANGED <<timerVars, retired, card, run>>

(* Mutant of WriteOverride: a file that is as it should be needs no enable either. *)
WriteAndTrust(s) ==
  LET u == op[s].unit x == ScheduleFor(s, u) files == [dropIn EXCEPT ![u] = x]
  IN  /\ At(s, "write")
      /\ x \notin Refused
      /\ dropIn' = files
      /\ IF dropIn[u] = x THEN UnitDone(s, files) ELSE Goto(s, "enable") \/ UnitFails(s, files)
      /\ UNCHANGED <<enabled, ledgerVars, card, run>>

(* resolve_interval or check_calendar, write_..._override, and daemon-reload, which is   *)
(* called only if the file is new and may fail.                                          *)
WriteOverride(s) ==
  LET u == op[s].unit x == ScheduleFor(s, u) files == [dropIn EXCEPT ![u] = x]
  IN  /\ At(s, "write")
      /\ x \notin Refused
      /\ dropIn' = files
      /\ \/ Goto(s, "enable")
         \/ dropIn[u] # x /\ UnitFails(s, files)
      /\ UNCHANGED <<enabled, ledgerVars, card, run>>

ScheduleRefused(s) ==
  /\ At(s, "write")
  /\ ScheduleFor(s, op[s].unit) \in Refused
  /\ UnitFails(s, dropIn)
  /\ UNCHANGED <<timerVars, ledgerVars, card, run>>

(* systemctl enable --now, which may time out after it took effect. *)
EnableTimer(s) ==
  LET on == enabled \cup {op[s].unit}
  IN  /\ At(s, "enable")
      /\ \/ enabled' = on /\ UnitDone(s, dropIn)
         \/ enabled' \in {enabled, on} /\ UnitFails(s, dropIn)
      /\ UNCHANGED <<dropIn, ledgerVars, card, run>>

(* Mutant of DisableTimer: the drop-in goes first. *)
RemoveThenDisable(s) ==
  LET u == op[s].unit files == [dropIn EXCEPT ![u] = None]
  IN  /\ At(s, "disable")
      /\ dropIn' = files
      /\ \/ enabled' = enabled \ {u} /\ UnitDone(s, files)
         \/ UNCHANGED enabled /\ UnitFails(s, files)
      /\ UNCHANGED <<ledgerVars, card, run>>

(* systemctl disable --now. *)
DisableTimer(s) ==
  LET u == op[s].unit off == enabled \ {u}
  IN  /\ At(s, "disable")
      /\ \/ enabled' = off /\ dropIn[u] # None /\ Goto(s, "rmtree")
         \/ enabled' = off /\ dropIn[u] = None /\ UnitDone(s, dropIn)
         \/ enabled' \in {enabled, off} /\ UnitFails(s, dropIn)
      /\ UNCHANGED <<dropIn, ledgerVars, card, run>>

(* rmtree of the override directory, and a daemon-reload that may fail. *)
RemoveOverride(s) ==
  LET files == [dropIn EXCEPT ![op[s].unit] = None]
  IN  /\ At(s, "rmtree")
      /\ dropIn' = files
      /\ UnitDone(s, files) \/ UnitFails(s, files)
      /\ UNCHANGED <<enabled, ledgerVars, card, run>>

(* clear_marker, which the reuse of the current release does not reach. *)
FinishDeploy(s) ==
  /\ At(s, "finish") /\ Reconciles(s)
  /\ retired' = IF op[s].kind = "deploy" THEN retired \ {s} ELSE retired
  /\ Leave(s)
  /\ UNCHANGED <<timerVars, current, card, run>>

-----------------------------------------------------------------------------
(* retire and purge, as far as they touch the timers and the exports' cards *)

BeginRetire(s) ==
  /\ At(s, "idle")
  /\ current[s] # None
  /\ op' = [op EXCEPT ![s] = [Idle EXCEPT !.pc = "disable", !.kind = "retire",
                                          !.unit = BackupUnit(s)]]
  /\ UNCHANGED <<timerVars, ledgerVars, card, run>>

WriteMarker(s) ==
  /\ At(s, "finish") /\ op[s].kind = "retire"
  /\ retired' = retired \cup {s}
  /\ Leave(s)
  /\ UNCHANGED <<timerVars, current, card, run>>

BeginPurge(s) ==
  /\ At(s, "idle")
  /\ s \in retired
  /\ op' = [op EXCEPT ![s] = [Idle EXCEPT !.pc = "disable", !.kind = "purge",
                                          !.unit = BackupUnit(s)]]
  /\ UNCHANGED <<timerVars, ledgerVars, card, run>>

RemoveCards(s) ==
  /\ At(s, "finish") /\ op[s].kind = "purge"
  /\ card' = [card EXCEPT ![s] = NoCards]
  /\ Goto(s, "ledger")
  /\ UNCHANGED <<timerVars, ledgerVars, run>>

RemoveLedger(s) ==
  /\ At(s, "ledger")
  /\ current' = [current EXCEPT ![s] = None]
  /\ retired' = retired \ {s}
  /\ Leave(s)
  /\ UNCHANGED <<timerVars, card, run>>

-----------------------------------------------------------------------------
(* run_export.  The release that serves when it starts is the one it works with; a scope *)
(* without one is an error that leaves no card.                                          *)
StartExport(r, u, s, n) ==
  /\ run[r] = None
  /\ s \in Scope /\ n \in Job /\ current[s] # None
  /\ run' = [run EXCEPT ![r] = [unit |-> u, scope |-> s, job |-> n, release |-> current[s]]]
  /\ UNCHANGED <<timerVars, ledgerVars, card, op>>

(* The service of a timer runs once at a time; the name of its instance says for which   *)
(* job.                                                                                  *)
StartByTimer(r, u) ==
  /\ u.template = "export" /\ u \in enabled
  /\ \A q \in Runner : run[q] # None => run[q].unit # u
  /\ StartExport(r, u, ScopeOfExport(u), JobOfExport(u))

(* platform export --project --environment --name, whether there is a timer or not. *)
StartByHand(r) == \E s \in Scope, n \in Job : StartExport(r, None, s, n)

(* Mutant of FinishExport: the card names the release that serves when it is written. *)
FinishAsCurrent(r) ==
  LET x == run[r]
  IN  /\ x # None
      /\ \E outcome \in {"failed"} \cup (IF Jobs[x.release][x.job] = None THEN {} ELSE {"sent"}) :
           card' = [card EXCEPT ![x.scope][x.job] =
                      [release |-> current[x.scope], outcome |-> outcome]]
      /\ run' = [run EXCEPT ![r] = None]
      /\ UNCHANGED <<timerVars, ledgerVars, op>>

(* find_job, the query and the mail may fail; write_card replaces the card, also one of  *)
(* a run that started later, and makes its directory where a purge removed it.           *)
FinishExport(r) ==
  LET x == run[r]
  IN  /\ x # None
      /\ \E outcome \in {"failed"} \cup (IF Jobs[x.release][x.job] = None THEN {} ELSE {"sent"}) :
           card' = [card EXCEPT ![x.scope][x.job] = [release |-> x.release, outcome |-> outcome]]
      /\ run' = [run EXCEPT ![r] = None]
      /\ UNCHANGED <<timerVars, ledgerVars, op>>

(* A run that is killed, or out of time, leaves the card it found. *)
KillExport(r) ==
  /\ run[r] # None
  /\ run' = [run EXCEPT ![r] = None]
  /\ UNCHANGED <<timerVars, ledgerVars, card, op>>

Export(r) ==
  \/ \E u \in Unit : StartByTimer(r, u)
  \/ StartByHand(r) \/ FinishExport(r) \/ KillExport(r)

-----------------------------------------------------------------------------
(* A command may end anywhere; while it writes or removes a drop-in, the directory may  *)
(* stay without a whole file.                                                           *)
Kill(s) ==
  /\ op[s].pc # "idle"
  /\ \/ UNCHANGED dropIn
     \/ /\ op[s].pc \in {"write", "rmtree"}
        /\ op[s].pc = "write" => ScheduleFor(s, op[s].unit) \notin Refused \cup {dropIn[op[s].unit]}
        /\ dropIn' = [dropIn EXCEPT ![op[s].unit] = Torn]
  /\ Leave(s)
  /\ UNCHANGED <<enabled, ledgerVars, card, run>>

Step(s) ==
  \/ \E m \in Offered[s] : BeginDeploy(s, m)
  \/ WriteOverride(s) \/ ScheduleRefused(s) \/ EnableTimer(s)
  \/ DisableTimer(s) \/ RemoveOverride(s)
  \/ FinishDeploy(s)
  \/ BeginRetire(s) \/ WriteMarker(s)
  \/ BeginPurge(s) \/ RemoveCards(s) \/ RemoveLedger(s)
  \/ Kill(s)

Next == (\E s \in Scope : Step(s)) \/ (\E r \in Runner : Export(r))

Spec == Init /\ [][Next]_vars

-----------------------------------------------------------------------------
(* Properties *)

(* "a job that leaves the manifest must take its timer with it": the timers to remove   *)
(* are found by their drop-ins, so one that is enabled must have its own, whatever      *)
(* command was cut short on the way to enabling or disabling it.                        *)
EnabledIsFound ==
  \A s \in Scope : enabled \cap ExportUnits(s) \subseteq ExistingExports(s, dropIn)

(* A deploy that reports no warning leaves exactly the timers the release declares, with *)
(* the schedules it declares, whatever the commands before it left undone.               *)
TimersMatchRelease ==
  [][\A s \in Scope :
       FinishDeploy(s) /\ ~op[s].warn =>
         \A u \in UnitsOf(s) :
           /\ u \in enabled <=> ScheduleFor(s, u) # None
           /\ dropIn[u] = ScheduleFor(s, u)]_vars

(* The marker of a retired application is written when none of its timers is enabled,   *)
(* and its ledger goes only then.                                                       *)
RetiredIsQuiet ==
  [][\A s \in Scope : WriteMarker(s) \/ RemoveLedger(s) => enabled \cap UnitsOf(s) = {}]_vars

(* Names that begin alike belong to nobody else: a timer changes only by a command of   *)
(* its own scope.                                                                       *)
OnlyOwnTimers ==
  [][\A s \in Scope :
       op'[s] = op[s] =>
         \A u \in UnitsOf(s) : dropIn'[u] = dropIn[u] /\ (u \in enabled' <=> u \in enabled)]_vars

(* What the card of a job says is what a run of that very job did, started by the timer  *)
(* of that job or by hand: the release it names is one of the application's own, and if  *)
(* the mail went out it is one that asks for it, although deploys, retirement and a      *)
(* purge go on while the run is at its query and its mail.                               *)
CardsTellWhatRan ==
  [][\A s \in Scope, n \in Job :
       LET c == card'[s][n]
       IN  c \notin {card[s][n], None} =>
             /\ \E r \in Runner : /\ run[r] # None /\ run'[r] = None
                                 /\ run[r].scope = s /\ run[r].job = n
                                 /\ run[r].unit \in {None, ExportUnit(s, n)}
             /\ c.release \in Offered[s]
             /\ c.outcome = "sent" => Jobs[c.release][n] # None]_vars

=============================================================================
