------------------------- MODULE DatabaseSessions -------------------------
(***************************************************************************)
(* Short-lived logins to the database of one project/environment: platform *)
(* database-session opens a role that expires, an open first sweeps the    *)
(* roles that have expired, and the console puts a tunnel around it.  No   *)
(* lock is held, so opens, closes and expiry meet in any order; psql runs  *)
(* a script statement by statement and stops at the first error.           *)
(*                                                                         *)
(* The same commands may be typed on the host, and a port forwarded by     *)
(* hand: a session then need not be closed where it was opened, nor after  *)
(* its tunnel.  The roles of a database that is restarted stay, its        *)
(* connections do not.                                                     *)
(***************************************************************************)
EXTENDS FiniteSets

CONSTANTS
  Console,  \* workstations; each has one local port for a tunnel
  Role,     \* the names open_session may draw; a name is not drawn twice
  None

ASSUME SessionAssumption == None \notin Role

VARIABLES
  role,      \* role[r]: "unused", "valid", "expired" or "dropped"
  owning,    \* the roles that own an object of the database
  backends,  \* the roles somebody is connected as
  tunnel,    \* tunnel[w]: the session that clients use the forwarded port of w for, or None
  op         \* op[w]: what the command or console of w is doing

vars == <<role, owning, backends, tunnel, op>>

-----------------------------------------------------------------------------
PC == {"idle", "terminate", "drop", "dropping", "create", "forward", "open",
       "closeTerminate", "closeDrop"}

(* due is what the sweep has still to drop; expiredBefore had expired when this open began; *)
(* alone says of a close that no tunnel it does not end itself has led to its role since    *)
(* it began.                                                                              *)
Operation == [pc : PC, role : Role \cup {None}, due : SUBSET Role, expiredBefore : SUBSET Role,
              alone : BOOLEAN]

Idle == [pc |-> "idle", role |-> None, due |-> {}, expiredBefore |-> {}, alone |-> FALSE]

TypeOK ==
  /\ role \in [Role -> {"unused", "valid", "expired", "dropped"}]
  /\ owning \subseteq Role /\ backends \subseteq Role
  /\ tunnel \in [Console -> Role \cup {None}]
  /\ op \in [Console -> Operation]

Init ==
  /\ role = [r \in Role |-> "unused"]
  /\ owning = {} /\ backends = {}
  /\ tunnel = [w \in Console |-> None]
  /\ op = [w \in Console |-> Idle]

At(w, pc)   == op[w].pc = pc
Goto(w, pc) == op' = [op EXCEPT ![w].pc = pc]
Leave(w)    == op' = [op EXCEPT ![w] = Idle]

Exists(r) == role[r] \in {"valid", "expired"}
Drawn     == {op[w].role : w \in Console}
Leading(r) == {w \in Console : tunnel[w] = r}

-----------------------------------------------------------------------------
(* open_session *)

(* Mutant of Expired: every session role is swept. *)
AnySession == {r \in Role : Exists(r)}

(* rolvaliduntil < now() *)
Expired == {r \in Role : role[r] = "expired"}

(* The console refuses while the local port is taken. *)
BeginOpen(w) ==
  /\ At(w, "idle")
  /\ tunnel[w] = None
  /\ \E r \in Role \ Drawn :
       /\ role[r] = "unused"
       /\ op' = [op EXCEPT ![w] = [Idle EXCEPT !.pc = "terminate", !.role = r,
                                          !.expiredBefore = {s \in Role : role[s] = "expired"}]]
  /\ UNCHANGED <<role, owning, backends, tunnel>>

SweepTerminate(w) ==
  /\ At(w, "terminate")
  /\ backends' = backends \ Expired
  /\ Goto(w, "drop")
  /\ UNCHANGED <<role, owning, tunnel>>

(* Which roles \gexec drops is read once. *)
SweepSelect(w) ==
  /\ At(w, "drop")
  /\ op' = [op EXCEPT ![w].pc = "dropping", ![w].due = Expired]
  /\ UNCHANGED <<role, owning, backends, tunnel>>

(* DROP ROLE does not ask whether anybody is connected. *)
Dropped(r) == role' = [role EXCEPT ![r] = "dropped"]

SweepDrop(w) ==
  /\ At(w, "dropping")
  /\ \E r \in op[w].due :
       /\ Exists(r) /\ r \notin owning
       /\ Dropped(r)
       /\ op' = [op EXCEPT ![w].due = @ \ {r}]
  /\ UNCHANGED <<owning, backends, tunnel>>

(* The role is gone, dropped by another command, or owns what keeps it: ON_ERROR_STOP. *)
SweepFails(w) ==
  /\ At(w, "dropping")
  /\ \E r \in op[w].due : ~Exists(r) \/ r \in owning
  /\ Leave(w)
  /\ UNCHANGED <<role, owning, backends, tunnel>>

(* Mutant of SweepEnds: an error of the sweep does not end the script. *)
SweepGoesOn(w) ==
  /\ At(w, "dropping")
  /\ \A r \in op[w].due : ~Exists(r) \/ r \in owning
  /\ op' = [op EXCEPT ![w].pc = "create", ![w].due = {}]
  /\ UNCHANGED <<role, owning, backends, tunnel>>

SweepEnds(w) ==
  /\ At(w, "dropping")
  /\ op[w].due = {}
  /\ Goto(w, "create")
  /\ UNCHANGED <<role, owning, backends, tunnel>>

CreateRole(w) ==
  /\ At(w, "create")
  /\ role' = [role EXCEPT ![op[w].role] = "valid"]
  /\ Goto(w, "forward")
  /\ UNCHANGED <<owning, backends, tunnel>>

-----------------------------------------------------------------------------
(* The console's tunnel *)

(* From now on clients reach r by the port of w, while others may be closing it; pc is     *)
(* what w does next.                                                                      *)
Forwards(w, r, pc) ==
  /\ tunnel' = [tunnel EXCEPT ![w] = r]
  /\ op' = [v \in Console |-> IF v = w THEN [op[v] EXCEPT !.pc = pc]
                              ELSE [op[v] EXCEPT !.alone = @ /\ op[v].role # r]]

OpenTunnel(w) ==
  /\ At(w, "forward")
  /\ Forwards(w, op[w].role, "open")
  /\ UNCHANGED <<role, owning, backends>>

(* ssh -L without the console, for a session of whichever workstation. *)
ForwardByHand(w) ==
  /\ At(w, "idle") /\ tunnel[w] = None
  /\ \E r \in Role : role[r] # "unused" /\ Forwards(w, r, "idle")
  /\ UNCHANGED <<role, owning, backends>>

BeginsClose(w) ==
  op' = [op EXCEPT ![w].pc = "closeTerminate", ![w].alone = Leading(op[w].role) \subseteq {w}]

(* Mutant of CloseTunnel: the role is dropped while the tunnel still stands. *)
CloseRoleFirst(w) ==
  /\ At(w, "open")
  /\ BeginsClose(w)
  /\ UNCHANGED <<role, owning, backends, tunnel>>

(* Enter, the deadline, Ctrl-C or the end of ssh: the tunnel is gone before the role is    *)
(* closed.  A backend that runs a statement need not have noticed.                         *)
CloseTunnel(w) ==
  /\ At(w, "open")
  /\ tunnel' = [tunnel EXCEPT ![w] = None]
  /\ backends' \in {backends, backends \ {op[w].role}}
  /\ BeginsClose(w)
  /\ UNCHANGED <<role, owning>>

(* platform database-session --close by hand, which ends no tunnel. *)
CloseByHand(w) ==
  /\ At(w, "idle")
  /\ \E r \in Role :
       /\ role[r] # "unused"
       /\ op' = [op EXCEPT ![w] = [Idle EXCEPT !.pc = "closeTerminate", !.role = r,
                                          !.alone = (Leading(r) = {})]]
  /\ UNCHANGED <<role, owning, backends, tunnel>>

(* A dropped role has no name any more by which its connection could be found. *)
CloseTerminate(w) ==
  LET r == op[w].role
  IN  /\ At(w, "closeTerminate")
      /\ backends' = IF Exists(r) THEN backends \ {r} ELSE backends
      /\ Goto(w, "closeDrop")
      /\ UNCHANGED <<role, owning, tunnel>>

(* DROP ROLE IF EXISTS *)
CloseDrop(w) ==
  LET r == op[w].role
  IN  /\ At(w, "closeDrop")
      /\ Exists(r) => r \notin owning
      /\ IF Exists(r) THEN Dropped(r) ELSE UNCHANGED role
      /\ Leave(w)
      /\ UNCHANGED <<owning, backends, tunnel>>

(* A statement or the connection to the host fails; whatever was done stays. *)
Fails(w) ==
  /\ op[w].pc \notin {"idle", "open"}
  /\ Leave(w)
  /\ UNCHANGED <<role, owning, backends, tunnel>>

(* The console is killed; its ssh may go on without it. *)
KillConsole(w) ==
  /\ At(w, "open")
  /\ tunnel' \in {tunnel, [tunnel EXCEPT ![w] = None]}
  /\ Leave(w)
  /\ UNCHANGED <<role, owning, backends>>

-----------------------------------------------------------------------------
(* The client, the database and time *)

Connect(w) ==
  /\ tunnel[w] # None
  /\ role[tunnel[w]] = "valid"
  /\ backends' = backends \cup {tunnel[w]}
  /\ UNCHANGED <<role, owning, tunnel, op>>

(* CREATE TABLE without SET ROLE *)
CreateObject(r) ==
  /\ r \in backends
  /\ owning' = owning \cup {r}
  /\ UNCHANGED <<role, backends, tunnel, op>>

(* The object is given to app or dropped. *)
GiveAway(r) ==
  /\ r \in owning
  /\ owning' = owning \ {r}
  /\ UNCHANGED <<role, backends, tunnel, op>>

Expire(r) ==
  /\ role[r] = "valid"
  /\ role' = [role EXCEPT ![r] = "expired"]
  /\ UNCHANGED <<owning, backends, tunnel, op>>

RestartDatabase ==
  /\ backends # {}
  /\ backends' = {}
  /\ UNCHANGED <<role, owning, tunnel, op>>

(* An ssh that outlived its console ends. *)
TunnelEnds(w) ==
  /\ ~At(w, "open") /\ tunnel[w] # None
  /\ tunnel' = [tunnel EXCEPT ![w] = None]
  /\ UNCHANGED <<role, owning, backends, op>>

Command(w) ==
  \/ BeginOpen(w) \/ SweepTerminate(w) \/ SweepSelect(w) \/ SweepDrop(w) \/ SweepFails(w)
  \/ SweepEnds(w) \/ CreateRole(w) \/ OpenTunnel(w) \/ CloseTunnel(w) \/ CloseTerminate(w)
  \/ CloseDrop(w) \/ Fails(w) \/ KillConsole(w) \/ ForwardByHand(w) \/ CloseByHand(w)

Next ==
  \/ \E w \in Console : Command(w) \/ Connect(w) \/ TunnelEnds(w)
  \/ \E r \in Role : CreateObject(r) \/ GiveAway(r) \/ Expire(r)
  \/ RestartDatabase

Spec == Init /\ [][Next]_vars

-----------------------------------------------------------------------------
(* Properties *)

(* An open sweeps what has expired and nothing else: the session of another operator that  *)
(* is still valid keeps its role until its own close, and loses its connections only when  *)
(* it is closed or the database restarts.                                                  *)
ValidSessionsStay ==
  [][\A r \in Role : role[r] = "valid" =>
       /\ role'[r] = "dropped" => \E w \in Console : CloseDrop(w) /\ op[w].role = r
       /\ r \in backends \ backends' =>
            \/ \E w \in Console : (CloseTunnel(w) \/ CloseTerminate(w)) /\ op[w].role = r
            \/ RestartDatabase]_vars

(* "The role is dropped when this closes": a close that drops the role leaves nobody       *)
(* connected as it, however often the client came back before, provided the only tunnel    *)
(* to it was the one that this close ended: a client behind another one may come back      *)
(* between the two statements.                                                            *)
ClosedIsClosed ==
  [][\A w \in Console :
       CloseDrop(w) /\ Exists(op[w].role) /\ op[w].alone => op[w].role \notin backends']_vars

(* "Expired session roles are swept on every open": whoever gets a session, none is left   *)
(* of the roles that had expired when it was asked for, whoever else was sweeping.         *)
OpenSweeps ==
  [][\A w \in Console : CreateRole(w) => \A r \in op[w].expiredBefore : ~Exists(r)]_vars

=============================================================================
