------------------------------- MODULE Fleet -------------------------------
(***************************************************************************)
(* The hosts of one company and the consoles that bootstrap and converge   *)
(* them: a new host goes from the provider's public SSH to the tailnet,    *)
(* convergence shuts the public door, and a core update brings hosts to    *)
(* another version of the platform.  A playbook is lost at any task, on    *)
(* any of its hosts; nothing keeps two consoles from the same host.        *)
(*                                                                         *)
(* The roles are grouped by what the consoles tell apart: those before the *)
(* firewall, the firewall, the runtime whose version the consoles read,    *)
(* and everything after it.  Ansible runs a task on all hosts of a play    *)
(* that have not failed before it starts the next one.  What a host keeps  *)
(* in memory until a handler restarts it is left out.                      *)
(***************************************************************************)
EXTENDS FiniteSets

CONSTANTS
  Host,
  Console,  \* consoles started in one checkout of the infrastructure, on one workstation
  Version,  \* releases of the core
  None

ASSUME FleetAssumption == None \notin Version /\ Version # {}

VARIABLES
  route,      \* route[h]: where inventory/hosts.yml leads, "tailnet" or the "public" address
  users,      \* the hosts that have the users ops and deploy
  joined,     \* the hosts in the tailnet
  open,       \* the hosts whose public SSH is open
  early,      \* early[h]: the version the roles before the firewall have left, if it is one
  runtime,    \* runtime[h]: the version the runtime on the host tells
  late,       \* late[h]: the version the tasks after that file have left, if it is one
  pin,        \* the version in requirements.yml
  collection, \* the version of the collection that is installed
  key,        \* the one-off auth key: "fresh" or "spent"
  op          \* op[c]: what the console is doing

hostVars  == <<route, users, joined, open, early, runtime, late>>
checkout  == <<pin, collection, key>>
vars      == <<hostVars, checkout, op>>

-----------------------------------------------------------------------------
PC == {"idle", "probe", "handover", "users", "join", "preflight",
       "target", "pin", "install", "choose",
       "guard", "early", "firewall", "runtime", "late", "verdict", "readiness"}

(* hosts is --limit, running those of them that have not failed in this pass; changed is   *)
(* whether the second pass changed anything.  alone ends when another console touches a    *)
(* host, the pin or the collection.                                                       *)
Operation == [pc : PC, hosts : SUBSET Host, running : SUBSET Host, pass : {1, 2},
              changed : BOOLEAN, target : Version \cup {None},
              seen : [Host -> Version \cup {None}], ticked : BOOLEAN, alone : BOOLEAN]

Idle == [pc |-> "idle", hosts |-> {}, running |-> {}, pass |-> 1, changed |-> FALSE,
         target |-> None, seen |-> [h \in Host |-> None], ticked |-> FALSE, alone |-> TRUE]

TypeOK ==
  /\ route \in [Host -> {"tailnet", "public"}]
  /\ users \subseteq Host /\ joined \subseteq Host /\ open \subseteq Host
  /\ early \in [Host -> Version \cup {None}] /\ runtime \in [Host -> Version \cup {None}]
  /\ late \in [Host -> Version \cup {None}]
  /\ pin \in Version /\ collection \in Version
  /\ key \in {"fresh", "spent"}
  /\ op \in [Console -> Operation]

Init ==
  /\ route \in [Host -> {"tailnet", "public"}]
  /\ users = {}
  /\ joined = {}
  /\ open = Host
  /\ early = [h \in Host |-> None] /\ runtime = early /\ late = early
  /\ pin \in Version /\ collection = pin
  /\ key = "fresh"
  /\ op = [c \in Console |-> Idle]

At(c, pc) == op[c].pc = pc

(* The step of console c leaves its record as it is here; after one that changes a host    *)
(* or the checkout no other console is alone.                                             *)
Becomes(c, r)  == op' = [op EXCEPT ![c] = r]
Touching(c, r) == op' = [d \in Console |-> IF d = c THEN r
                                           ELSE IF At(d, "idle") THEN op[d]
                                           ELSE [op[d] EXCEPT !.alone = FALSE]]
Leave(c)       == Becomes(c, Idle)
Goto(c, pc)    == Becomes(c, [op[c] EXCEPT !.pc = pc])

(* ops gets in at the address of the inventory, arriving at a tailnet address or not. *)
OverTailnet(h) == h \in users /\ route[h] = "tailnet" /\ h \in joined
OverPublic(h)  == h \in users /\ route[h] = "public" /\ h \in open
Reaches(h)     == OverTailnet(h) \/ OverPublic(h)

-----------------------------------------------------------------------------
(* bootstrap_action *)

Only(c) == CHOOSE h \in op[c].hosts : TRUE

BeginBootstrap(c) ==
  /\ At(c, "idle")
  /\ \E h \in Host : Becomes(c, [Idle EXCEPT !.pc = "probe", !.hosts = {h}])
  /\ UNCHANGED <<hostVars, checkout>>

(* wait_for_handover with one attempt: bootstrap is behind this host. *)
AlreadyJoined(c) ==
  /\ At(c, "probe")
  /\ OverTailnet(Only(c))
  /\ Goto(c, "preflight")
  /\ UNCHANGED <<hostVars, checkout>>

(* No handover, which may only mean that a packet was lost: with an auth key on disk, spent *)
(* or not, and an answer over the provider's SSH, bootstrap starts.                         *)
StartBootstrap(c) ==
  /\ At(c, "probe")
  /\ Only(c) \in open
  /\ Goto(c, "users")
  /\ UNCHANGED <<hostVars, checkout>>

CreateUsers(c) ==
  /\ At(c, "users")
  /\ Only(c) \in open
  /\ users' = users \cup op[c].hosts
  /\ Touching(c, [op[c] EXCEPT !.pc = "join"])
  /\ UNCHANGED <<route, joined, open, early, runtime, late, checkout>>

(* The role of Tailscale enrolls a host only while its backend does not run. *)
JoinTailnet(c) ==
  LET h == Only(c)
  IN  /\ At(c, "join")
      /\ h \in open
      /\ IF h \in joined THEN UNCHANGED <<joined, key>>
         ELSE /\ key = "fresh"
              /\ joined' = joined \cup {h}
              /\ key' = "spent"
      /\ Touching(c, [op[c] EXCEPT !.pc = "handover"])
      /\ UNCHANGED <<route, users, open, early, runtime, late, pin, collection>>

(* tailscale up fails, before or after the key was used up. *)
JoinFails(c) ==
  /\ At(c, "join")
  /\ key' \in {key, "spent"}
  /\ Leave(c)
  /\ UNCHANGED <<hostVars, pin, collection>>

(* wait_for_handover: the session must have arrived at a tailnet address of the host. *)
ProveHandover(c) ==
  /\ At(c, "handover")
  /\ OverTailnet(Only(c))
  /\ Goto(c, "preflight")
  /\ UNCHANGED <<hostVars, checkout>>

-----------------------------------------------------------------------------
(* converge_hosts: two passes and readiness *)

Pass(r, n) == [r EXCEPT !.pc = "guard", !.pass = n, !.running = r.hosts, !.changed = FALSE]

Preflight(c) ==
  /\ At(c, "preflight")
  /\ Reaches(Only(c))
  /\ Becomes(c, Pass(op[c], 1))
  /\ UNCHANGED <<hostVars, checkout>>

BeginConverge(c) ==
  /\ At(c, "idle")
  /\ \E h \in Host : Becomes(c, Pass([Idle EXCEPT !.hosts = {h}], 1))
  /\ UNCHANGED <<hostVars, checkout>>

(* The task goes on where it did not fail; a host that cannot be reached fails it. *)
Task(c, survivors) ==
  /\ survivors # {}
  /\ survivors \subseteq {h \in op[c].running : Reaches(h)}

(* Mutant of Guarded: it suffices that the host is in the tailnet. *)
GuardedByState(h) == h \in joined

(* access_guard: the session is of ops, Tailscale runs, and the address the session       *)
(* arrived at is one of the tailnet's.                                                    *)
Guarded(h) == OverTailnet(h)

Guard(c) ==
  /\ At(c, "guard")
  /\ \E S \in SUBSET op[c].running :
       /\ Task(c, S) /\ \A h \in S : Guarded(h)
       /\ Becomes(c, [op[c] EXCEPT !.pc = "early", !.running = S])
  /\ UNCHANGED <<hostVars, checkout>>

(* Roles leave the version of the collection where all of them ran, and no single one     *)
(* where the play was lost between two of them.                                           *)
Written(f, S, torn) ==
  [h \in Host |-> IF h \in S THEN collection ELSE IF h \in torn THEN None ELSE f[h]]

Changed(f, c, S) == op[c].pass = 2 /\ \E h \in S : f[h] # collection
Shuts(c, S)      == op[c].pass = 2 /\ S \cap open # {}

(* Goes on to pc with the hosts of S. *)
Passes(c, pc, S, changed) ==
  Touching(c, [op[c] EXCEPT !.pc = pc, !.running = S, !.changed = @ \/ changed])

ConvergeEarly(c) ==
  /\ At(c, "early")
  /\ \E S \in SUBSET op[c].running :
       /\ Task(c, S)
       /\ \E torn \in SUBSET (op[c].running \ S) : early' = Written(early, S, torn)
       /\ Passes(c, "firewall", S, Changed(early, c, S))
  /\ UNCHANGED <<route, users, joined, open, runtime, late, checkout>>

CloseFirewall(c) ==
  /\ At(c, "firewall")
  /\ \E S \in SUBSET op[c].running :
       /\ Task(c, S)
       /\ open' = open \ S
       /\ Passes(c, "runtime", S, Shuts(c, S))
  /\ UNCHANGED <<route, users, joined, early, runtime, late, checkout>>

(* platform_cli copies the modules of the runtime, the one with its version among them;   *)
(* the rest of them, and of the role, and three roles more are still to come.             *)
InstallRuntime(c) ==
  /\ At(c, "runtime")
  /\ \E S \in SUBSET op[c].running :
       /\ Task(c, S)
       /\ runtime' = Written(runtime, S, {})
       /\ Passes(c, "late", S, Changed(runtime, c, S))
  /\ UNCHANGED <<route, users, joined, open, early, late, checkout>>

ConvergeLate(c) ==
  /\ At(c, "late")
  /\ \E S \in SUBSET op[c].running :
       /\ Task(c, S)
       /\ \E torn \in SUBSET (op[c].running \ S) : late' = Written(late, S, torn)
       /\ Passes(c, "verdict", S, Changed(late, c, S))
  /\ UNCHANGED <<route, users, joined, open, early, runtime, checkout>>

(* Mutant of Clean: only the hosts that reached the end of the play are looked at. *)
CleanWhereItRan(c) == op[c].pass = 2 => ~op[c].changed

(* verdict over the recap: every host got to the end, and the second pass changed none. *)
Clean(c) ==
  /\ op[c].running = op[c].hosts
  /\ op[c].pass = 2 => ~op[c].changed

Verdict(c) ==
  /\ At(c, "verdict")
  /\ IF ~Clean(c) THEN Leave(c)
     ELSE IF op[c].pass = 1 THEN Becomes(c, Pass(op[c], 2))
     ELSE Goto(c, "readiness")
  /\ UNCHANGED <<hostVars, checkout>>

(* Readiness passes and the console reports success: for converge and bootstrap, that the *)
(* host is converged, for a core update, that the hosts run its target.  What readiness   *)
(* itself looks at depends on the phase the inventory names, and nothing here rests on it. *)
Report(c) ==
  /\ At(c, "readiness")
  /\ \A h \in op[c].hosts : Reaches(h)
  /\ Leave(c)
  /\ UNCHANGED <<hostVars, checkout>>

(* A playbook or a probe fails, the operator declines or the console dies. *)
Stop(c) ==
  /\ ~At(c, "idle")
  /\ Leave(c)
  /\ UNCHANGED <<hostVars, checkout>>

-----------------------------------------------------------------------------
(* run_core_update *)

(* The version that the runtime of each host that answers tells. *)
BeginUpdate(c) ==
  /\ At(c, "idle")
  /\ \E answered \in SUBSET {h \in Host : Reaches(h)} :
       Becomes(c, [Idle EXCEPT !.pc = "target", !.hosts = {},
                     !.seen = [h \in Host |-> IF h \in answered THEN runtime[h] ELSE None]])
  /\ UNCHANGED <<hostVars, checkout>>

(* A target that is the current pin leaves requirements.yml alone. *)
ChooseTarget(c) ==
  /\ At(c, "target")
  /\ \E v \in Version :
       Becomes(c, [op[c] EXCEPT !.pc = IF v = pin THEN "install" ELSE "pin", !.target = v])
  /\ UNCHANGED <<hostVars, checkout>>

RewritePin(c) ==
  /\ At(c, "pin")
  /\ pin' = op[c].target
  /\ Touching(c, [op[c] EXCEPT !.pc = "install"])
  /\ UNCHANGED <<hostVars, collection, key>>

(* By requirements.yml, or by the address of the target's artifact when Galaxy times out. *)
InstallCollection(c) ==
  /\ At(c, "install")
  /\ collection' \in {pin, op[c].target}
  /\ Touching(c, [op[c] EXCEPT !.pc = "choose"])
  /\ UNCHANGED <<hostVars, pin, key>>

(* Mutant of Preselected: a host that did not tell its version is not ticked. *)
PreselectedKnown(c) ==
  LET known == {h \in Host : op[c].seen[h] \notin {op[c].target, None}}
  IN  IF known # {} THEN known ELSE Host

Preselected(c) ==
  LET behind == {h \in Host : op[c].seen[h] # op[c].target}
  IN  IF behind # {} THEN behind ELSE Host

(* Enter takes the ticked hosts; the operator may tick others. *)
ChooseHosts(c) ==
  /\ At(c, "choose")
  /\ \E S \in SUBSET Host \ {{}} :
       Becomes(c, Pass([op[c] EXCEPT !.hosts = S, !.seen = Idle.seen,
                                 !.ticked = (S = Preselected(c))], 1))
  /\ UNCHANGED <<hostVars, checkout>>

-----------------------------------------------------------------------------
(* What happens around the consoles *)

NewKey ==
  /\ key = "spent"
  /\ key' = "fresh"
  /\ UNCHANGED <<hostVars, pin, collection, op>>

CorrectInventory(h) ==
  /\ route[h] = "public"
  /\ route' = [route EXCEPT ![h] = "tailnet"]
  /\ UNCHANGED <<users, joined, open, early, runtime, late, checkout, op>>

Step(c) ==
  \/ BeginBootstrap(c) \/ AlreadyJoined(c) \/ StartBootstrap(c) \/ CreateUsers(c)
  \/ JoinTailnet(c) \/ JoinFails(c) \/ ProveHandover(c) \/ Preflight(c)
  \/ BeginConverge(c) \/ Guard(c) \/ ConvergeEarly(c) \/ CloseFirewall(c)
  \/ InstallRuntime(c) \/ ConvergeLate(c)
  \/ Verdict(c) \/ Report(c) \/ Stop(c)
  \/ BeginUpdate(c) \/ ChooseTarget(c) \/ RewritePin(c) \/ InstallCollection(c)
  \/ ChooseHosts(c)

Next ==
  \/ \E c \in Console : Step(c)
  \/ NewKey \/ \E h \in Host : CorrectInventory(h)

Spec == Init /\ [][Next]_vars

-----------------------------------------------------------------------------
(* Properties *)

(* "Convergence would close the public SSH you still have": the public door is shut only  *)
(* on hosts that ops reaches over the tailnet, at the address the inventory has.          *)
NotLockedOut ==
  \A h \in Host \ open : h \in users /\ route[h] = "tailnet" /\ h \in joined

(* A console that nobody interfered with reports success only for hosts on which all the  *)
(* roles of one version are in place: that of its collection, which is the target of an   *)
(* update whichever way it was installed.                                                 *)
CleanMeansConverged ==
  [][\A c \in Console : Report(c) /\ op[c].alone =>
       \A h \in op[c].hosts :
         /\ h \notin open
         /\ {early[h], runtime[h], late[h]} = {collection}
         /\ op[c].target # None => collection = op[c].target]_vars

(* Who takes the hosts the console ticked leaves the target's runtime on every host of    *)
(* the inventory, those that did not answer included.  One that told the target before    *)
(* is not ticked, and may still lack the roles of a play it was lost from.                *)
NoneLeftBehind ==
  [][\A c \in Console : Report(c) /\ op[c].alone /\ op[c].ticked =>
       \A h \in Host : runtime[h] = op[c].target]_vars

=============================================================================
