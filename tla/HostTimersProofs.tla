-------------------------- MODULE HostTimersProofs --------------------------
(***************************************************************************)
(* Theorems about HostTimers, for any scopes, jobs, schedules and          *)
(* releases: type correctness, that no enabled timer is beyond the reach   *)
(* of the commands that remove timers, that a command that reports success *)
(* leaves what its release declares, and that scopes whose names begin     *)
(* alike do not meet.                                                      *)
(***************************************************************************)
EXTENDS HostTimers, TLAPS

-----------------------------------------------------------------------------
(* The inductive invariant.  Its parts are about a scope s whose command has record r,  *)
(* whose current release is m, and about the drop-ins f and the enabled units o.        *)

Reconciling == {"deploy", "reuse"}

(* The steps that are about a unit. *)
Busy == {"write", "enable", "disable", "rmtree"}

(* ScheduleFor. *)
Asked(s, k, m, u) ==
  IF k \notin Reconciling THEN None
  ELSE IF u = BackupUnit(s) THEN Interval[m]
  ELSE Jobs[m][JobOfExport(u)]

(* The command visits the units of its scope only: first the declared ones, then others. *)
(* A unit is enabled behind its drop-in, and disabled before the drop-in goes.           *)
Shape(s, r, m, f, o) ==
  /\ r.kind \in Reconciling => m \in Release
  /\ r.warn => r.kind \in Reconciling
  /\ r.pc = "ledger" => r.kind = "purge"
  /\ r.pc \in Busy =>
       /\ r.unit \in UnitsOf(s) /\ r.left \subseteq ExportUnits(s)
       /\ \A u \in r.left : Asked(s, r.kind, m, u) # None <=> r.phase = "declare"
  /\ r.pc \in {"write", "enable"} => Asked(s, r.kind, m, r.unit) # None
  /\ r.pc = "enable" => f[r.unit] = Asked(s, r.kind, m, r.unit)
  /\ r.pc \in {"disable", "rmtree"} => Asked(s, r.kind, m, r.unit) = None
  /\ r.pc = "rmtree" => r.unit \notin o

(* The unit is as the release asks. *)
Right(s, k, m, f, o, u) ==
  /\ f[u] = Asked(s, k, m, u)
  /\ u \in o <=> Asked(s, k, m, u) # None

(* It is still to be visited, once the command is done with the one it is at. *)
Later(s, r, m, u) ==
  \/ u \in r.left
  \/ r.phase = "declare" /\ u \in ExportUnits(s) /\ Asked(s, r.kind, m, u) = None

(* As long as there is nothing to warn of, every unit is right or still to be visited. *)
Handled(s, r, m, f, o) ==
  r.pc # "idle" /\ ~r.warn =>
    \A u \in UnitsOf(s) : \/ Right(s, r.kind, m, f, o, u)
                          \/ r.pc \in Busy /\ (u = r.unit \/ Later(s, r, m, u))

Fits(s, r, m, f, o) == Shape(s, r, m, f, o) /\ Handled(s, r, m, f, o)

Found(f, o) == \A u \in Unit : u \in o => f[u] # None

IInv ==
  /\ TypeOK
  /\ Found(dropIn, enabled)
  /\ \A s \in Scope : Fits(s, op[s], current[s], dropIn, enabled)

-----------------------------------------------------------------------------
(* Names *)

LEMMA AppendSplits ==
  ASSUME NEW S, NEW q \in Seq(S), NEW x \in S
  PROVE  Front(Append(q, x)) = q /\ Last(Append(q, x)) = x
  <1>1. /\ Append(q, x) \in Seq(S) /\ Len(q) \in Nat
        /\ Len(Append(q, x)) = Len(q) + 1
        /\ Append(q, x)[Len(q) + 1] = x
        /\ \A i \in 1..Len(q) : Append(q, x)[i] = q[i]
    OBVIOUS
  <1>2. Last(Append(q, x)) = x
    BY <1>1 DEF Last
  <1>3. Front(Append(q, x)) = SubSeq(Append(q, x), 1, Len(q))
    BY <1>1 DEF Front
  <1>4. SubSeq(Append(q, x), 1, Len(q)) = q
    <2>1. /\ SubSeq(Append(q, x), 1, Len(q)) \in Seq(S)
          /\ Len(SubSeq(Append(q, x), 1, Len(q))) = Len(q)
          /\ \A i \in 1..Len(q) : SubSeq(Append(q, x), 1, Len(q))[i] = q[i]
      BY <1>1
    <2> QED BY <2>1
  <1> QED BY <1>2, <1>3, <1>4

(* The name of a timer tells its scope and, of an export, its job. *)
LEMMA NamesTell ==
  ASSUME NEW s \in Scope
  PROVE  /\ TimerInstance(s) \in Seq(STRING)
         /\ SplitInstance(TimerInstance(s)) = s
         /\ \A n \in Job : /\ Front(ExportInstance(s, n)) = TimerInstance(s)
                           /\ Last(ExportInstance(s, n)) = n
  <1>1. s.project \in Seq(STRING) /\ s.environment \in STRING /\ Job \subseteq STRING
    BY TimersAssumption
  <1>2. TimerInstance(s) \in Seq(STRING)
    BY <1>1 DEF TimerInstance
  <1>3. s = [project |-> s.project, environment |-> s.environment]
    BY TimersAssumption
  <1>4. Front(TimerInstance(s)) = s.project /\ Last(TimerInstance(s)) = s.environment
    BY <1>1, AppendSplits DEF TimerInstance
  <1>5. SplitInstance(TimerInstance(s)) = s
    BY <1>3, <1>4 DEF SplitInstance
  <1>6. ASSUME NEW n \in Job
        PROVE  Front(ExportInstance(s, n)) = TimerInstance(s) /\ Last(ExportInstance(s, n)) = n
    <2>1. n \in STRING
      BY <1>1
    <2> QED BY <1>2, <2>1, AppendSplits DEF ExportInstance
  <1> QED BY <1>2, <1>5, <1>6

LEMMA ExportTells ==
  ASSUME NEW s \in Scope, NEW u \in ExportUnits(s)
  PROVE  /\ u.template = "export" /\ Front(u.instance) = TimerInstance(s)
         /\ ScopeOfExport(u) = s
         /\ JobOfExport(u) \in Job /\ u = ExportUnit(s, JobOfExport(u))
  <1>1. PICK n \in Job : u = ExportUnit(s, n)
    BY DEF ExportUnits
  <1>2. u.template = "export" /\ u.instance = ExportInstance(s, n)
    BY <1>1 DEF ExportUnit
  <1>3. Front(u.instance) = TimerInstance(s) /\ JobOfExport(u) = n
    BY <1>2, NamesTell DEF JobOfExport
  <1>4. ScopeOfExport(u) = s
    BY <1>3, NamesTell DEF ScopeOfExport
  <1> QED BY <1>1, <1>2, <1>3, <1>4

(* Every unit is of one scope, the one that has its name or, of an export, its prefix. *)
LEMMA UnitsAreApart ==
  ASSUME NEW s \in Scope
  PROVE  /\ UnitsOf(s) \subseteq Unit
         /\ BackupUnit(s) \in UnitsOf(s) /\ BackupUnit(s) \notin ExportUnits(s)
         /\ ExportUnits(s) \subseteq UnitsOf(s)
         /\ \A u \in UnitsOf(s) : u = BackupUnit(s) \/ u \in ExportUnits(s)
         /\ \A t \in Scope \ {s} : \A u \in UnitsOf(s) : u \notin UnitsOf(t)
         /\ \A u \in Unit : u.template = "export" /\ Front(u.instance) = TimerInstance(s)
                              => u \in ExportUnits(s)
  <1>1. UnitsOf(s) \subseteq Unit /\ BackupUnit(s) \in UnitsOf(s) /\ ExportUnits(s) \subseteq UnitsOf(s)
    BY DEF Unit, UnitsOf
  <1>2. \A t \in Scope : BackupUnit(t).template = "backup" /\ BackupUnit(t).instance = TimerInstance(t)
    BY DEF BackupUnit
  <1>3. \A t \in Scope : BackupUnit(s) \notin ExportUnits(t) /\ BackupUnit(t) \notin ExportUnits(s)
    BY <1>2, ExportTells
  <1>4. \A t \in Scope : TimerInstance(s) = TimerInstance(t) => s = t
    BY NamesTell
  <1>5. \A u \in UnitsOf(s) : u = BackupUnit(s) \/ u \in ExportUnits(s)
    BY DEF UnitsOf
  <1>6. ASSUME NEW t \in Scope \ {s}, NEW u \in UnitsOf(s), u \in UnitsOf(t) PROVE FALSE
    <2>1. u = BackupUnit(t) \/ u \in ExportUnits(t)
      BY <1>6 DEF UnitsOf
    <2>2. CASE u \in ExportUnits(s) /\ u \in ExportUnits(t)
      BY <2>2, ExportTells
    <2>3. CASE u = BackupUnit(s) /\ u = BackupUnit(t)
      BY <1>2, <1>4, <2>3
    <2> QED BY <1>3, <1>5, <2>1, <2>2, <2>3
  <1>7. ASSUME NEW u \in Unit, u.template = "export", Front(u.instance) = TimerInstance(s)
        PROVE  u \in ExportUnits(s)
    <2>1. PICK t \in Scope : u \in UnitsOf(t)
      BY DEF Unit
    <2>2. u \in ExportUnits(t)
      BY <1>2, <1>7, <2>1 DEF UnitsOf
    <2>3. TimerInstance(t) = TimerInstance(s)
      BY <1>7, <2>2, ExportTells
    <2> QED BY <1>4, <2>2, <2>3
  <1> QED BY <1>1, <1>3, <1>5, <1>6, <1>7

-----------------------------------------------------------------------------
(* Lemmas about the invariant *)

LEMMA AskedIsASchedule ==
  ASSUME NEW s \in Scope, NEW k, NEW m, k \in Reconciling => m \in Release,
         NEW u \in UnitsOf(s)
  PROVE  Asked(s, k, m, u) \in Schedule \cup {None}
  <1>1. u = BackupUnit(s) \/ JobOfExport(u) \in Job
    BY UnitsAreApart, ExportTells
  <1>2. CASE k \in Reconciling
    <2>1. m \in Release /\ Interval[m] \in Schedule \cup {None} /\ Jobs[m] \in [Job -> Schedule \cup {None}]
      BY <1>2, TimersAssumption
    <2> QED BY <1>1, <2>1 DEF Asked
  <1> QED BY <1>2 DEF Asked

(* The invariant of a scope is about its own units only. *)
LEMMA FitsLocally ==
  ASSUME NEW s \in Scope, NEW r, NEW m, NEW f, NEW o, NEW g, NEW p, Fits(s, r, m, f, o),
         \A u \in UnitsOf(s) : g[u] = f[u] /\ (u \in p <=> u \in o)
  PROVE  Fits(s, r, m, g, p)
  <1>1. Shape(s, r, m, g, p)
    <2>1. r.pc \in Busy => r.unit \in UnitsOf(s)
      BY DEF Fits, Shape
    <2>2. /\ r.pc = "enable" => r.pc \in Busy
          /\ r.pc = "rmtree" => r.pc \in Busy
      BY DEF Busy
    <2> QED BY <2>1, <2>2 DEF Fits, Shape
  <1>2. Handled(s, r, m, g, p)
    BY DEF Fits, Handled, Right
  <1> QED BY <1>1, <1>2 DEF Fits

(* Where Advance goes, from a unit that is right or warned of. *)
Todo(s, r, m, f) ==
  IF r.left # {} THEN r.left
  ELSE IF r.phase = "remove" THEN {}
  ELSE {u \in ExportUnits(s) : f[u] # None /\ Asked(s, r.kind, m, u) = None}

(* Its record afterwards, when w says whether there is something to warn of. *)
NextUnit(s, r, m, f, w, q) ==
  IF Todo(s, r, m, f) = {}
  THEN q = [Idle EXCEPT !.pc = "finish", !.kind = r.kind, !.warn = w]
  ELSE LET phase == IF r.left # {} THEN r.phase ELSE "remove"
       IN  \E u \in Todo(s, r, m, f) :
             q = [r EXCEPT !.pc = IF phase = "declare" THEN "write" ELSE "disable",
                           !.unit = u, !.left = Todo(s, r, m, f) \ {u}, !.phase = phase,
                           !.warn = w]

LEMMA AdvanceFits ==
  ASSUME NEW s \in Scope, NEW r \in Command, NEW m, NEW f, NEW o, NEW w \in BOOLEAN, NEW q,
         r.pc \in Busy, Shape(s, r, m, f, o), w => r.kind \in Reconciling,
         \A u \in ExportUnits(s) : u \in o => f[u] # None,
         ~w => \A u \in UnitsOf(s) : Right(s, r.kind, m, f, o, u) \/ Later(s, r, m, u),
         NextUnit(s, r, m, f, w, q)
  PROVE  q \in Command /\ Fits(s, q, m, f, o) /\ q # r
  <1>1. /\ r.kind \in Reconciling => m \in Release
        /\ r.left \subseteq ExportUnits(s)
        /\ \A u \in r.left : Asked(s, r.kind, m, u) # None <=> r.phase = "declare"
    BY DEF Shape
  <1>2. ExportUnits(s) \subseteq UnitsOf(s) /\ UnitsOf(s) \subseteq Unit
    BY UnitsAreApart
  <1>3. CASE Todo(s, r, m, f) = {}
    <2>1. q = [Idle EXCEPT !.pc = "finish", !.kind = r.kind, !.warn = w]
      BY <1>3 DEF NextUnit
    <2>2. /\ q \in Command /\ q.pc = "finish" /\ q.kind = r.kind /\ q.warn = w
      BY <2>1 DEF Command, Idle, PC
    <2>3. r.left = {} /\ (r.phase = "declare" =>
            \A u \in ExportUnits(s) : f[u] = None \/ Asked(s, r.kind, m, u) # None)
      BY <1>3 DEF Todo
    <2>4. ASSUME ~w, NEW u \in UnitsOf(s) PROVE Right(s, r.kind, m, f, o, u)
      BY <2>3, <2>4 DEF Later, Right
    <2>5. Shape(s, q, m, f, o)
      BY <1>1, <2>2 DEF Shape, Busy
    <2>6. Handled(s, q, m, f, o)
      BY <2>2, <2>4 DEF Handled
    <2>7. q # r
      BY <2>2 DEF Busy
    <2> QED BY <2>2, <2>5, <2>6, <2>7 DEF Fits
  <1>4. CASE Todo(s, r, m, f) # {}
    <2> DEFINE phase == IF r.left # {} THEN r.phase ELSE "remove"
    <2>1. PICK u \in Todo(s, r, m, f) :
            q = [r EXCEPT !.pc = IF phase = "declare" THEN "write" ELSE "disable",
                          !.unit = u, !.left = Todo(s, r, m, f) \ {u}, !.phase = phase, !.warn = w]
      BY <1>4 DEF NextUnit
    <2>2. Todo(s, r, m, f) \subseteq ExportUnits(s)
      BY <1>1 DEF Todo
    <2>3. phase \in {"declare", "remove"}
      BY DEF Command
    <2>4. /\ q \in Command /\ q.kind = r.kind /\ q.warn = w /\ q.unit = u
          /\ q.left = Todo(s, r, m, f) \ {u} /\ q.phase = phase
          /\ q.pc = IF phase = "declare" THEN "write" ELSE "disable"
      <3>1. Todo(s, r, m, f) \ {u} \in SUBSET Unit /\ u \in Unit
        BY <1>2, <2>2
      <3> HIDE DEF phase
      <3> QED BY <2>1, <2>3, <3>1 DEF Command, PC
    <2>5. \A v \in Todo(s, r, m, f) : Asked(s, r.kind, m, v) # None <=> phase = "declare"
      <3>1. CASE r.left # {}
        BY <1>1, <3>1 DEF Todo
      <3>2. CASE r.left = {}
        BY <3>2 DEF Todo
      <3> QED BY <3>1, <3>2
    <2>6. Shape(s, q, m, f, o)
      <3> HIDE DEF phase
      <3>1. q.pc \in {"write", "disable"}
        BY <2>4
      <3> QED BY <1>1, <1>2, <2>2, <2>3, <2>4, <2>5, <3>1 DEF Shape, Busy
    <2>7. ASSUME ~w, NEW v \in UnitsOf(s)
          PROVE  Right(s, r.kind, m, f, o, v) \/ v = q.unit \/ Later(s, q, m, v)
      <3>1. CASE v \in r.left
        <4>1. v \in Todo(s, r, m, f)
          BY <3>1 DEF Todo
        <4> QED BY <2>4, <4>1 DEF Later
      <3>2. CASE r.phase = "declare" /\ v \in ExportUnits(s) /\ Asked(s, r.kind, m, v) = None
        <4>1. CASE r.left # {}
          BY <2>4, <3>2, <4>1 DEF Later
        <4>2. CASE r.left = {} /\ f[v] # None
          <5>1. v \in Todo(s, r, m, f)
            BY <3>2, <4>2 DEF Todo
          <5> QED BY <2>4, <5>1 DEF Later
        <4>3. CASE f[v] = None
          BY <3>2, <4>3 DEF Right
        <4> QED BY <4>1, <4>2, <4>3
      <3> QED BY <2>7, <3>1, <3>2 DEF Later
    <2>8. Handled(s, q, m, f, o)
      BY <2>4, <2>7 DEF Handled, Busy
    <2>9. q # r
      <3>1. CASE r.left # {}
        <4>1. u \in r.left /\ u \notin q.left
          BY <2>4, <3>1 DEF Todo
        <4> QED BY <4>1
      <3>2. CASE r.left = {}
        <4>1. r.phase # "remove" /\ q.phase = "remove"
          BY <1>4, <2>4, <3>2 DEF Todo
        <4> QED BY <4>1
      <3> QED BY <3>1, <3>2
    <2> QED BY <2>4, <2>6, <2>8, <2>9 DEF Fits
  <1> QED BY <1>3, <1>4

LEMMA AskedIsScheduleFor ==
  ASSUME NEW s, NEW u
  PROVE  \A x : ScheduleFor(s, u) = x <=> Asked(s, op[s].kind, current[s], u) = x
  BY DEF ScheduleFor, Reconciles, Asked, Reconciling

LEMMA UndeclaredAre ==
  ASSUME NEW s \in Scope, NEW f
  PROVE  \A u : u \in Undeclared(s, f) <=>
           u \in ExportUnits(s) /\ f[u] # None /\ Asked(s, op[s].kind, current[s], u) = None
  <1>1. \A u : u \in ExistingExports(s, f) <=> u \in ExportUnits(s) /\ f[u] # None
    BY UnitsAreApart, ExportTells DEF ExistingExports
  <1>2. \A u : u \in WantedExports(s) <=>
          u \in ExportUnits(s) /\ Asked(s, op[s].kind, current[s], u) # None
    BY AskedIsScheduleFor DEF WantedExports
  <1> QED BY <1>1, <1>2 DEF Undeclared

LEMMA AdvanceGoes ==
  ASSUME TypeOK, NEW s \in Scope, NEW f, NEW w, Advance(s, f, w)
  PROVE  \E q : op' = [op EXCEPT ![s] = q] /\ NextUnit(s, op[s], current[s], f, w, q)
  <1> DEFINE first == op[s].left # {}
             phase == IF first THEN op[s].phase ELSE "remove"
             todo == IF first THEN op[s].left
                     ELSE IF op[s].phase = "remove" THEN {} ELSE Undeclared(s, f)
  <1>1. todo = Todo(s, op[s], current[s], f)
    <2>1. Undeclared(s, f) = {u \in ExportUnits(s) : /\ f[u] # None
                                                    /\ Asked(s, op[s].kind, current[s], u) = None}
      BY UndeclaredAre
    <2> QED BY <2>1 DEF Todo
  <1>2. op \in [Scope -> Command]
    BY DEF TypeOK
  <1>3. IF todo = {}
        THEN op' = [op EXCEPT ![s] = [Idle EXCEPT !.pc = "finish", !.kind = op[s].kind, !.warn = w]]
        ELSE \E u \in todo :
               op' = [op EXCEPT ![s] = [@ EXCEPT !.pc = IF phase = "declare" THEN "write" ELSE "disable",
                                                !.unit = u, !.left = todo \ {u}, !.phase = phase,
                                                !.warn = w]]
    BY DEF Advance
  <1>4. CASE todo = {}
    <2> DEFINE q == [Idle EXCEPT !.pc = "finish", !.kind = op[s].kind, !.warn = w]
    <2>1. op' = [op EXCEPT ![s] = q]
      BY <1>3, <1>4
    <2>2. NextUnit(s, op[s], current[s], f, w, q)
      BY <1>1, <1>4 DEF NextUnit
    <2> QED BY <2>1, <2>2
  <1>5. CASE todo # {}
    <2>1. PICK u \in todo :
            op' = [op EXCEPT ![s] = [op[s] EXCEPT !.pc = IF phase = "declare" THEN "write" ELSE "disable",
                                                  !.unit = u, !.left = todo \ {u}, !.phase = phase,
                                                  !.warn = w]]
      BY <1>2, <1>3, <1>5
    <2> DEFINE q == [op[s] EXCEPT !.pc = IF phase = "declare" THEN "write" ELSE "disable",
                                  !.unit = u, !.left = todo \ {u}, !.phase = phase, !.warn = w]
    <2>2. op' = [op EXCEPT ![s] = q]
      BY <2>1
    <2>3. \E v \in todo :
            q = [op[s] EXCEPT !.pc = IF phase = "declare" THEN "write" ELSE "disable",
                              !.unit = v, !.left = todo \ {v}, !.phase = phase, !.warn = w]
      OBVIOUS
    <2>4. NextUnit(s, op[s], current[s], f, w, q)
      <3> HIDE DEF todo, q
      <3> QED BY <1>1, <1>5, <2>3 DEF NextUnit
    <2> HIDE DEF q
    <2> QED BY <2>2, <2>4
  <1> QED BY <1>4, <1>5

(* What a step of the command of s may do. *)
LEMMA OwnStep ==
  ASSUME IInv, NEW s \in Scope, NEW q \in Command, op' = [op EXCEPT ![s] = q],
         dropIn' \in [Unit -> Schedule \cup {Torn, None}], enabled' \subseteq Unit,
         \A u \in Unit \ UnitsOf(s) : dropIn'[u] = dropIn[u] /\ (u \in enabled' <=> u \in enabled),
         current' \in [Scope -> Release \cup {None}], retired' \subseteq Scope,
         card' \in [Scope -> [Job -> Card \cup {None}]], UNCHANGED run,
         \A t \in Scope \ {s} : current'[t] = current[t],
         \A u \in UnitsOf(s) : u \in enabled' => dropIn'[u] # None,
         Fits(s, q, current'[s], dropIn', enabled')
  PROVE  IInv'
  <1>1. op \in [Scope -> Command]
    BY DEF IInv, TypeOK
  <1>2. op' \in [Scope -> Command] /\ op'[s] = q /\ \A t \in Scope \ {s} : op'[t] = op[t]
    BY <1>1
  <1>3. TypeOK'
    BY <1>2 DEF TypeOK, IInv
  <1>4. \A t \in Scope \ {s} : \A u \in UnitsOf(t) :
          dropIn'[u] = dropIn[u] /\ (u \in enabled' <=> u \in enabled)
    BY UnitsAreApart
  <1>5. Found(dropIn', enabled')
    <2>1. ASSUME NEW u \in Unit, u \in enabled' PROVE dropIn'[u] # None
      BY <2>1 DEF IInv, Found
    <2> QED BY <2>1 DEF Found
  <1>6. ASSUME NEW t \in Scope PROVE Fits(t, op'[t], current'[t], dropIn', enabled')
    <2>1. CASE t = s
      BY <1>2, <2>1
    <2>2. CASE t # s
      <3>1. Fits(t, op[t], current[t], dropIn, enabled)
        BY DEF IInv
      <3>2. Fits(t, op[t], current[t], dropIn', enabled')
        BY <1>4, <2>2, <3>1, FitsLocally
      <3> QED BY <1>2, <2>2, <3>2
    <2> QED BY <2>1, <2>2
  <1> QED BY <1>3, <1>5, <1>6 DEF IInv

(* A command that has ended owes nothing. *)
LEMMA IdleFits ==
  ASSUME NEW s, NEW m, NEW f, NEW o
  PROVE  Idle \in Command /\ Fits(s, Idle, m, f, o)
  BY DEF Idle, Command, PC, Fits, Shape, Handled, Busy, Reconciling

(* Whichever way a command is done with the unit it is at, when that unit is right or   *)
(* the command warns.                                                                   *)
LEMMA UnitStep ==
  ASSUME IInv, NEW s \in Scope, op[s].pc \in Busy,
         NEW w \in BOOLEAN, Advance(s, dropIn', w), UNCHANGED <<current, retired, card, run>>,
         dropIn' \in [Unit -> Schedule \cup {Torn, None}], enabled' \subseteq Unit,
         \A u \in Unit \ {op[s].unit} : dropIn'[u] = dropIn[u] /\ (u \in enabled' <=> u \in enabled),
         op[s].unit \in enabled' => dropIn'[op[s].unit] # None,
         Shape(s, op[s], current[s], dropIn', enabled'),
         w => op[s].kind \in Reconciling,
         ~w => /\ ~op[s].warn
               /\ Right(s, op[s].kind, current[s], dropIn', enabled', op[s].unit)
  PROVE  IInv' /\ op'[s] # op[s]
  <1>0. /\ op[s] \in Command /\ TypeOK /\ Fits(s, op[s], current[s], dropIn, enabled)
        /\ op \in [Scope -> Command] /\ op[s].unit \in UnitsOf(s) /\ op[s].pc # "idle"
    BY DEF IInv, TypeOK, Fits, Shape, Busy
  <1>1. PICK q : op' = [op EXCEPT ![s] = q] /\ NextUnit(s, op[s], current[s], dropIn', w, q)
    BY <1>0, AdvanceGoes
  <1>2. \A u \in UnitsOf(s) : u \in enabled' => dropIn'[u] # None
    BY UnitsAreApart DEF IInv, Found
  <1>3. ~w => \A u \in UnitsOf(s) : \/ Right(s, op[s].kind, current[s], dropIn', enabled', u)
                                    \/ Later(s, op[s], current[s], u)
    <2> SUFFICES ASSUME ~w, NEW u \in UnitsOf(s)
                 PROVE  \/ Right(s, op[s].kind, current[s], dropIn', enabled', u)
                        \/ Later(s, op[s], current[s], u)
      OBVIOUS
    <2>1. CASE u = op[s].unit
      BY <2>1
    <2>2. CASE u # op[s].unit
      <3>1. Right(s, op[s].kind, current[s], dropIn, enabled, u) \/ Later(s, op[s], current[s], u)
        BY <1>0, <2>2 DEF Fits, Handled
      <3>2. dropIn'[u] = dropIn[u] /\ (u \in enabled' <=> u \in enabled)
        BY <2>2, UnitsAreApart
      <3> QED BY <3>1, <3>2 DEF Right
    <2> QED BY <2>1, <2>2
  <1>4. q \in Command /\ Fits(s, q, current[s], dropIn', enabled') /\ q # op[s]
    BY <1>0, <1>1, <1>2, <1>3, UnitsAreApart, AdvanceFits
  <1>5. IInv'
    <2>1. \A u \in Unit \ UnitsOf(s) : dropIn'[u] = dropIn[u] /\ (u \in enabled' <=> u \in enabled)
      BY <1>0
    <2>2. /\ current' \in [Scope -> Release \cup {None}] /\ retired' \subseteq Scope
          /\ card' \in [Scope -> [Job -> Card \cup {None}]]
      BY <1>0 DEF TypeOK
    <2>3. /\ current'[s] = current[s] /\ \A t \in Scope \ {s} : current'[t] = current[t]
      OBVIOUS
    <2> QED BY <1>1, <1>2, <1>4, <2>1, <2>2, <2>3, OwnStep
  <1> QED BY <1>0, <1>1, <1>4, <1>5


LEMMA LeaveStep ==
  ASSUME IInv, NEW s \in Scope, op[s].pc # "idle", Leave(s),
         dropIn' \in [Unit -> Schedule \cup {Torn, None}], enabled' \subseteq Unit,
         \A u \in Unit \ UnitsOf(s) : dropIn'[u] = dropIn[u] /\ (u \in enabled' <=> u \in enabled),
         \A u \in UnitsOf(s) : u \in enabled' => dropIn'[u] # None,
         current' \in [Scope -> Release \cup {None}], retired' \subseteq Scope,
         card' \in [Scope -> [Job -> Card \cup {None}]], UNCHANGED run,
         \A t \in Scope \ {s} : current'[t] = current[t]
  PROVE  IInv' /\ op'[s] # op[s]
  <1>1. op' = [op EXCEPT ![s] = Idle]
    BY DEF Leave
  <1>2. Idle \in Command /\ Fits(s, Idle, current'[s], dropIn', enabled')
    BY IdleFits
  <1>3. op'[s] # op[s]
    BY <1>1 DEF IInv, TypeOK, Idle
  <1>4. IInv'
    BY <1>1, <1>2, OwnStep
  <1> QED BY <1>3, <1>4

(* Its ways to be done with a unit. *)
LEMMA DoneStep ==
  ASSUME IInv, NEW s \in Scope, op[s].pc \in Busy,
         UnitDone(s, dropIn'), UNCHANGED <<current, retired, card, run>>,
         dropIn' \in [Unit -> Schedule \cup {Torn, None}], enabled' \subseteq Unit,
         \A u \in Unit \ {op[s].unit} : dropIn'[u] = dropIn[u] /\ (u \in enabled' <=> u \in enabled),
         op[s].unit \in enabled' => dropIn'[op[s].unit] # None,
         Shape(s, op[s], current[s], dropIn', enabled'),
         Right(s, op[s].kind, current[s], dropIn', enabled', op[s].unit)
  PROVE  IInv' /\ op'[s] # op[s]
  <1>1. Advance(s, dropIn', op[s].warn)
    BY DEF UnitDone
  <1>2. op[s].warn \in BOOLEAN
    BY DEF IInv, TypeOK, Command
  <1>3. op[s].warn => op[s].kind \in Reconciling
    BY DEF Shape
  <1> QED BY <1>1, <1>2, <1>3, UnitStep

LEMMA FailStep ==
  ASSUME IInv, NEW s \in Scope, op[s].pc \in Busy,
         UnitFails(s, dropIn'), UNCHANGED <<current, retired, card, run>>,
         dropIn' \in [Unit -> Schedule \cup {Torn, None}], enabled' \subseteq Unit,
         \A u \in Unit \ {op[s].unit} : dropIn'[u] = dropIn[u] /\ (u \in enabled' <=> u \in enabled),
         op[s].unit \in enabled' => dropIn'[op[s].unit] # None,
         Shape(s, op[s], current[s], dropIn', enabled')
  PROVE  IInv' /\ op'[s] # op[s]
  <1>1. CASE op[s].kind \in Reconciling
    <2>1. Advance(s, dropIn', TRUE)
      BY <1>1 DEF UnitFails, Reconciles, Reconciling
    <2> QED BY <1>1, <2>1, UnitStep
  <1>2. CASE op[s].kind \notin Reconciling
    <2>1. Leave(s)
      BY <1>2 DEF UnitFails, Reconciles, Reconciling
    <2>2. op[s].pc # "idle" /\ op[s].unit \in UnitsOf(s)
      BY DEF Busy, Shape
    <2>3. \A u \in UnitsOf(s) : u \in enabled' => dropIn'[u] # None
      BY UnitsAreApart DEF IInv, Found
    <2>4. /\ current' \in [Scope -> Release \cup {None}] /\ retired' \subseteq Scope
          /\ card' \in [Scope -> [Job -> Card \cup {None}]]
          /\ \A t \in Scope \ {s} : current'[t] = current[t]
      BY DEF IInv, TypeOK
    <2>5. \A u \in Unit \ UnitsOf(s) : dropIn'[u] = dropIn[u] /\ (u \in enabled' <=> u \in enabled)
      BY <2>2
    <2> QED BY <2>1, <2>2, <2>3, <2>4, <2>5, LeaveStep
  <1> QED BY <1>1, <1>2

(* The command goes on with the same unit, which the next step looks after. *)
LEMMA SameUnitStep ==
  ASSUME IInv, NEW s \in Scope, NEW pc \in Busy, op[s].pc \in Busy \ {pc}, Goto(s, pc),
         UNCHANGED <<current, retired, card, run>>,
         dropIn' \in [Unit -> Schedule \cup {Torn, None}], enabled' \subseteq Unit,
         \A u \in Unit \ {op[s].unit} : dropIn'[u] = dropIn[u] /\ (u \in enabled' <=> u \in enabled),
         op[s].unit \in enabled' => dropIn'[op[s].unit] # None,
         Shape(s, [op[s] EXCEPT !.pc = pc], current[s], dropIn', enabled')
  PROVE  IInv' /\ op'[s] # op[s]
  <1> DEFINE q == [op[s] EXCEPT !.pc = pc]
  <1>0. /\ op[s] \in Command /\ op \in [Scope -> Command] /\ op[s].pc # "idle"
        /\ Fits(s, op[s], current[s], dropIn, enabled)
    BY DEF IInv, TypeOK, Busy
  <1>1. op' = [op EXCEPT ![s] = q]
    BY DEF Goto
  <1>2. pc \in PC
    BY DEF Busy, PC
  <1>3. /\ q \in Command /\ q.pc = pc /\ q.kind = op[s].kind /\ q.unit = op[s].unit
        /\ q.left = op[s].left /\ q.phase = op[s].phase /\ q.warn = op[s].warn
    BY <1>0, <1>2 DEF Command
  <1>4. Shape(s, q, current[s], dropIn', enabled')
    OBVIOUS
  <1> HIDE DEF q
  <1>5. q.unit \in UnitsOf(s)
    BY <1>3, <1>4 DEF Shape
  <1>6. Handled(s, q, current[s], dropIn', enabled')
    <2> SUFFICES ASSUME ~q.warn, NEW u \in UnitsOf(s), u # q.unit
                 PROVE  \/ Right(s, q.kind, current[s], dropIn', enabled', u)
                        \/ Later(s, q, current[s], u)
      BY <1>3 DEF Handled
    <2>1. Right(s, op[s].kind, current[s], dropIn, enabled, u) \/ Later(s, op[s], current[s], u)
      BY <1>0, <1>3 DEF Fits, Handled
    <2>2. dropIn'[u] = dropIn[u] /\ (u \in enabled' <=> u \in enabled)
      BY <1>3, UnitsAreApart
    <2>3. Later(s, op[s], current[s], u) => Later(s, q, current[s], u)
      BY <1>3 DEF Later
    <2> QED BY <1>3, <2>1, <2>2, <2>3 DEF Right
  <1>7. Fits(s, q, current'[s], dropIn', enabled')
    BY <1>4, <1>6 DEF Fits
  <1>8. \A u \in Unit \ UnitsOf(s) : dropIn'[u] = dropIn[u] /\ (u \in enabled' <=> u \in enabled)
    BY <1>3, <1>5
  <1>9. /\ current' \in [Scope -> Release \cup {None}] /\ retired' \subseteq Scope
        /\ card' \in [Scope -> [Job -> Card \cup {None}]]
        /\ \A t \in Scope \ {s} : current'[t] = current[t]
    BY DEF IInv, TypeOK
  <1>10. \A u \in UnitsOf(s) : u \in enabled' => dropIn'[u] # None
    BY UnitsAreApart DEF IInv, Found
  <1>11. IInv'
    BY <1>1, <1>3, <1>7, <1>8, <1>9, <1>10, OwnStep
  <1>12. op'[s] # op[s]
    BY <1>0, <1>1, <1>3
  <1> QED BY <1>11, <1>12

-----------------------------------------------------------------------------
(* The steps *)

LEMMA Initially == Init => IInv
  <1> SUFFICES ASSUME Init PROVE IInv
    OBVIOUS
  <1>1. Idle \in Command
    BY IdleFits
  <1>2. TypeOK
    BY <1>1, TimersAssumption DEF Init, TypeOK, NoCards
  <1>3. Found(dropIn, enabled)
    BY DEF Init, Found
  <1>4. \A s \in Scope : Fits(s, op[s], current[s], dropIn, enabled)
    BY IdleFits DEF Init
  <1> QED BY <1>2, <1>3, <1>4 DEF IInv

LEMMA DeployStarts ==
  ASSUME IInv, NEW s \in Scope, NEW m \in Offered[s], BeginDeploy(s, m)
  PROVE  IInv' /\ op'[s] # op[s]
  <1> DEFINE wanted == {u \in ExportUnits(s) : Jobs[m][JobOfExport(u)] # None}
  <1>1. /\ m \in Release /\ Interval[m] \in Schedule \cup {None}
    BY TimersAssumption
  <1>2. PICK kind \in Reconciling :
          op' = [op EXCEPT ![s] =
                   [Idle EXCEPT !.kind = kind, !.unit = BackupUnit(s), !.left = wanted,
                                !.pc = IF Interval[m] = None THEN "disable" ELSE "write"]]
    BY DEF BeginDeploy, Reconciling
  <1> DEFINE q == [Idle EXCEPT !.kind = kind, !.unit = BackupUnit(s), !.left = wanted,
                               !.pc = IF Interval[m] = None THEN "disable" ELSE "write"]
  <1>3. /\ q.kind = kind /\ q.unit = BackupUnit(s) /\ q.left = wanted /\ q.phase = "declare"
        /\ q.pc = IF Interval[m] = None THEN "disable" ELSE "write"
    BY DEF Idle
  <1>4. q \in Command
    <2>1. wanted \in SUBSET Unit /\ BackupUnit(s) \in Unit
      BY UnitsAreApart
    <2> HIDE DEF wanted
    <2> QED BY <2>1 DEF Command, Idle, PC, Reconciling
  <1>5. op' = [op EXCEPT ![s] = q]
    BY <1>2
  <1>6. current'[s] = m /\ \A t \in Scope \ {s} : current'[t] = current[t]
    BY DEF BeginDeploy, IInv, TypeOK
  <1>7. /\ current' \in [Scope -> Release \cup {None}]
        /\ UNCHANGED <<dropIn, enabled, retired, card, run>> /\ TypeOK /\ op[s].pc = "idle"
    BY <1>1 DEF BeginDeploy, IInv, TypeOK, timerVars, At
  <1>8. /\ Asked(s, kind, m, BackupUnit(s)) = Interval[m]
        /\ \A u \in ExportUnits(s) : u \in wanted <=> Asked(s, kind, m, u) # None
    BY UnitsAreApart DEF Asked
  <1>9. wanted \subseteq ExportUnits(s)
    OBVIOUS
  <1> HIDE DEF q, wanted
  <1>10. Shape(s, q, m, dropIn, enabled)
    <2>1. q.pc \in {"disable", "write"} /\ (q.pc = "disable" <=> Interval[m] = None) /\ ~q.warn
      BY <1>3 DEF q, Idle
    <2> QED BY <1>1, <1>3, <1>8, <1>9, <2>1, UnitsAreApart DEF Shape
  <1>11. Handled(s, q, m, dropIn, enabled)
    <2>1. q.pc \in Busy
      BY <1>3 DEF Busy
    <2> QED BY <1>3, <1>8, <2>1, UnitsAreApart DEF Handled, Later
  <1>12. Fits(s, q, current'[s], dropIn', enabled')
    BY <1>6, <1>7, <1>10, <1>11 DEF Fits
  <1>13. \A u \in UnitsOf(s) : u \in enabled' => dropIn'[u] # None
    BY <1>7, UnitsAreApart DEF IInv, Found
  <1>14. IInv'
    BY <1>4, <1>5, <1>6, <1>7, <1>12, <1>13, OwnStep DEF TypeOK
  <1>15. op'[s] # op[s]
    BY <1>3, <1>5, <1>7 DEF TypeOK
  <1> QED BY <1>14, <1>15

LEMMA RemovalStarts ==
  ASSUME IInv, NEW s \in Scope, BeginRetire(s) \/ BeginPurge(s)
  PROVE  IInv' /\ op'[s] # op[s]
  <1>1. PICK kind \in {"retire", "purge"} :
          op' = [op EXCEPT ![s] = [Idle EXCEPT !.pc = "disable", !.kind = kind,
                                               !.unit = BackupUnit(s)]]
    BY DEF BeginRetire, BeginPurge
  <1> DEFINE q == [Idle EXCEPT !.pc = "disable", !.kind = kind, !.unit = BackupUnit(s)]
  <1>2. /\ q.pc = "disable" /\ q.kind = kind /\ q.unit = BackupUnit(s) /\ q.left = {}
        /\ q.phase = "declare" /\ q.warn = FALSE
    BY DEF Idle
  <1>3. q \in Command
    BY UnitsAreApart DEF Command, Idle, PC
  <1>4. op' = [op EXCEPT ![s] = q]
    BY <1>1
  <1>5. UNCHANGED <<dropIn, enabled, current, retired, card, run>> /\ TypeOK /\ op[s].pc = "idle"
    BY DEF BeginRetire, BeginPurge, timerVars, ledgerVars, At, IInv
  <1>6. \A u \in UnitsOf(s) : Asked(s, kind, current[s], u) = None
    BY DEF Asked, Reconciling
  <1> HIDE DEF q
  <1>7. Shape(s, q, current[s], dropIn, enabled)
    BY <1>2, <1>6, UnitsAreApart DEF Shape, Reconciling
  <1>8. Handled(s, q, current[s], dropIn, enabled)
    BY <1>2, <1>6, UnitsAreApart DEF Handled, Later, Busy
  <1>9. Fits(s, q, current'[s], dropIn', enabled')
    BY <1>5, <1>7, <1>8 DEF Fits
  <1>10. \A u \in UnitsOf(s) : u \in enabled' => dropIn'[u] # None
    BY <1>5, UnitsAreApart DEF IInv, Found
  <1>11. IInv'
    BY <1>3, <1>4, <1>5, <1>9, <1>10, OwnStep DEF TypeOK
  <1>12. op'[s] # op[s]
    BY <1>2, <1>4, <1>5 DEF TypeOK
  <1> QED BY <1>11, <1>12

(* What the invariant says of the unit the command of s is at. *)
LEMMA AtUnit ==
  ASSUME IInv, NEW s \in Scope, op[s].pc \in Busy
  PROVE  /\ op[s].unit \in UnitsOf(s) /\ op[s].unit \in Unit
         /\ Asked(s, op[s].kind, current[s], op[s].unit) \in Schedule \cup {None}
         /\ op[s].unit \in enabled => dropIn[op[s].unit] # None
         /\ \A f, o :
              /\ op[s].pc = "enable" => f[op[s].unit] = Asked(s, op[s].kind, current[s], op[s].unit)
              /\ op[s].pc = "rmtree" => op[s].unit \notin o
              => Shape(s, op[s], current[s], f, o)
         /\ Shape(s, op[s], current[s], dropIn, enabled)
         /\ dropIn \in [Unit -> Schedule \cup {Torn, None}] /\ enabled \subseteq Unit
  <1>1. Shape(s, op[s], current[s], dropIn, enabled)
    BY DEF IInv, Fits
  <1>2. op[s].unit \in UnitsOf(s) /\ op[s].unit \in Unit
    BY <1>1, UnitsAreApart DEF Shape
  <1>3. op[s].kind \in Reconciling => current[s] \in Release
    BY <1>1 DEF Shape
  <1>4. Asked(s, op[s].kind, current[s], op[s].unit) \in Schedule \cup {None}
    BY <1>2, <1>3, AskedIsASchedule
  <1>5. \A f, o :
          /\ op[s].pc = "enable" => f[op[s].unit] = Asked(s, op[s].kind, current[s], op[s].unit)
          /\ op[s].pc = "rmtree" => op[s].unit \notin o
          => Shape(s, op[s], current[s], f, o)
    BY <1>1 DEF Shape
  <1>6. op[s].unit \in enabled => dropIn[op[s].unit] # None
    BY <1>2 DEF IInv, Found
  <1> QED BY <1>1, <1>2, <1>4, <1>5, <1>6 DEF IInv, TypeOK

LEMMA Writes ==
  ASSUME IInv, NEW s \in Scope, WriteOverride(s)
  PROVE  IInv' /\ op'[s] # op[s]
  <1> DEFINE u == op[s].unit
             x == Asked(s, op[s].kind, current[s], u)
             files == [dropIn EXCEPT ![u] = x]
  <1>1. op[s].pc = "write" /\ op[s].pc \in Busy
    BY DEF WriteOverride, At, Busy
  <1>2. /\ u \in UnitsOf(s) /\ u \in Unit /\ x \in Schedule \cup {None} /\ x # None
        /\ Shape(s, op[s], current[s], dropIn, enabled)
        /\ dropIn \in [Unit -> Schedule \cup {Torn, None}] /\ enabled \subseteq Unit
    BY <1>1, AtUnit DEF Shape
  <1>3. ScheduleFor(s, u) = x
    BY AskedIsScheduleFor
  <1>4. /\ dropIn' = files /\ UNCHANGED <<enabled, current, retired, card, run>>
        /\ Goto(s, "enable") \/ UnitFails(s, files)
    BY <1>3 DEF WriteOverride, ledgerVars
  <1>5. /\ dropIn' \in [Unit -> Schedule \cup {Torn, None}] /\ dropIn'[u] = x
        /\ \A v \in Unit \ {u} : dropIn'[v] = dropIn[v]
    BY <1>2, <1>4
  <1>6. Shape(s, op[s], current[s], dropIn', enabled')
    BY <1>1, AtUnit
  <1> HIDE DEF u, x, files
  <1>7. CASE UnitFails(s, files)
    BY <1>1, <1>2, <1>4, <1>5, <1>6, <1>7, FailStep DEF u
  <1>8. CASE Goto(s, "enable")
    <2> DEFINE q == [op[s] EXCEPT !.pc = "enable"]
    <2>1. /\ q.pc = "enable" /\ q.kind = op[s].kind /\ q.unit = op[s].unit
          /\ q.left = op[s].left /\ q.phase = op[s].phase /\ q.warn = op[s].warn
      BY DEF IInv, TypeOK, Command
    <2> HIDE DEF q
    <2>2. Shape(s, q, current[s], dropIn', enabled')
      BY <1>1, <1>2, <1>5, <1>6, <2>1 DEF Shape, Busy, u, x
    <2>3. "enable" \in Busy /\ op[s].pc \in Busy \ {"enable"}
      BY <1>1 DEF Busy
    <2> QED BY <1>2, <1>4, <1>5, <1>8, <2>2, <2>3, SameUnitStep DEF q, u
  <1> QED BY <1>4, <1>7, <1>8

LEMMA Refuses ==
  ASSUME IInv, NEW s \in Scope, ScheduleRefused(s)
  PROVE  IInv' /\ op'[s] # op[s]
  <1>1. op[s].pc \in Busy
    BY DEF ScheduleRefused, At, Busy
  <1>2. UNCHANGED <<dropIn, enabled, current, retired, card, run>> /\ UnitFails(s, dropIn')
    BY DEF ScheduleRefused, timerVars, ledgerVars
  <1>3. /\ dropIn' \in [Unit -> Schedule \cup {Torn, None}] /\ enabled' \subseteq Unit
        /\ op[s].unit \in enabled' => dropIn'[op[s].unit] # None
        /\ Shape(s, op[s], current[s], dropIn', enabled')
        /\ \A u \in Unit \ {op[s].unit} : dropIn'[u] = dropIn[u] /\ (u \in enabled' <=> u \in enabled)
    BY <1>1, <1>2, AtUnit
  <1> QED BY <1>1, <1>2, <1>3, FailStep

LEMMA Enables ==
  ASSUME IInv, NEW s \in Scope, EnableTimer(s)
  PROVE  IInv' /\ op'[s] # op[s]
  <1> DEFINE u == op[s].unit
             x == Asked(s, op[s].kind, current[s], u)
  <1>1. op[s].pc = "enable" /\ op[s].pc \in Busy
    BY DEF EnableTimer, At, Busy
  <1>2. /\ u \in Unit /\ x # None /\ dropIn[u] = x
        /\ dropIn \in [Unit -> Schedule \cup {Torn, None}] /\ enabled \subseteq Unit
    BY <1>1, AtUnit DEF Shape
  <1>3. /\ UNCHANGED <<dropIn, current, retired, card, run>>
        /\ \/ enabled' = enabled \cup {u} /\ UnitDone(s, dropIn')
           \/ enabled' \in {enabled, enabled \cup {u}} /\ UnitFails(s, dropIn')
    BY DEF EnableTimer, ledgerVars
  <1>4. Shape(s, op[s], current[s], dropIn', enabled')
    BY <1>1, <1>2, <1>3, AtUnit
  <1>5. /\ dropIn' \in [Unit -> Schedule \cup {Torn, None}] /\ enabled' \subseteq Unit
        /\ dropIn'[u] # None
        /\ \A v \in Unit \ {u} : dropIn'[v] = dropIn[v] /\ (v \in enabled' <=> v \in enabled)
    BY <1>2, <1>3
  <1>6. CASE enabled' = enabled \cup {u} /\ UnitDone(s, dropIn')
    <2>1. Right(s, op[s].kind, current[s], dropIn', enabled', u)
      BY <1>2, <1>3, <1>6 DEF Right
    <2> QED BY <1>1, <1>3, <1>4, <1>5, <1>6, <2>1, DoneStep
  <1>7. CASE UnitFails(s, dropIn')
    BY <1>1, <1>3, <1>4, <1>5, <1>7, FailStep
  <1> QED BY <1>3, <1>6, <1>7

LEMMA Disables ==
  ASSUME IInv, NEW s \in Scope, DisableTimer(s)
  PROVE  IInv' /\ op'[s] # op[s]
  <1> DEFINE u == op[s].unit
             x == Asked(s, op[s].kind, current[s], u)
  <1>1. op[s].pc = "disable" /\ op[s].pc \in Busy
    BY DEF DisableTimer, At, Busy
  <1>2. /\ u \in UnitsOf(s) /\ u \in Unit /\ x = None /\ (u \in enabled => dropIn[u] # None)
        /\ dropIn \in [Unit -> Schedule \cup {Torn, None}] /\ enabled \subseteq Unit
    BY <1>1, AtUnit DEF Shape
  <1>3. /\ UNCHANGED <<dropIn, current, retired, card, run>>
        /\ \/ enabled' = enabled \ {u} /\ dropIn[u] # None /\ Goto(s, "rmtree")
           \/ enabled' = enabled \ {u} /\ dropIn[u] = None /\ UnitDone(s, dropIn')
           \/ enabled' \in {enabled, enabled \ {u}} /\ UnitFails(s, dropIn')
    BY DEF DisableTimer, ledgerVars
  <1>4. Shape(s, op[s], current[s], dropIn', enabled')
    BY <1>1, AtUnit
  <1>5. /\ dropIn' \in [Unit -> Schedule \cup {Torn, None}] /\ enabled' \subseteq Unit
        /\ u \in enabled' => dropIn'[u] # None
        /\ \A v \in Unit \ {u} : dropIn'[v] = dropIn[v] /\ (v \in enabled' <=> v \in enabled)
    BY <1>2, <1>3
  <1>6. CASE enabled' = enabled \ {u} /\ dropIn[u] # None /\ Goto(s, "rmtree")
    <2> DEFINE q == [op[s] EXCEPT !.pc = "rmtree"]
    <2>1. /\ q.pc = "rmtree" /\ q.kind = op[s].kind /\ q.unit = op[s].unit
          /\ q.left = op[s].left /\ q.phase = op[s].phase /\ q.warn = op[s].warn
      BY DEF IInv, TypeOK, Command
    <2> HIDE DEF q
    <2>2. u \notin enabled'
      BY <1>6
    <2>3. Shape(s, q, current[s], dropIn', enabled')
      BY <1>1, <1>2, <1>4, <2>1, <2>2 DEF Shape, Busy
    <2>4. "rmtree" \in Busy /\ op[s].pc \in Busy \ {"rmtree"}
      BY <1>1 DEF Busy
    <2> QED BY <1>3, <1>5, <1>6, <2>3, <2>4, SameUnitStep DEF q
  <1>7. CASE enabled' = enabled \ {u} /\ dropIn[u] = None /\ UnitDone(s, dropIn')
    <2>1. Right(s, op[s].kind, current[s], dropIn', enabled', u)
      BY <1>2, <1>3, <1>7 DEF Right
    <2> QED BY <1>1, <1>3, <1>4, <1>5, <1>7, <2>1, DoneStep
  <1>8. CASE UnitFails(s, dropIn')
    BY <1>1, <1>3, <1>4, <1>5, <1>8, FailStep
  <1> QED BY <1>3, <1>6, <1>7, <1>8

LEMMA Removes ==
  ASSUME IInv, NEW s \in Scope, RemoveOverride(s)
  PROVE  IInv' /\ op'[s] # op[s]
  <1> DEFINE u == op[s].unit
             x == Asked(s, op[s].kind, current[s], u)
  <1>1. op[s].pc = "rmtree" /\ op[s].pc \in Busy
    BY DEF RemoveOverride, At, Busy
  <1>2. /\ u \in Unit /\ x = None /\ u \notin enabled
        /\ dropIn \in [Unit -> Schedule \cup {Torn, None}] /\ enabled \subseteq Unit
    BY <1>1, AtUnit DEF Shape
  <1>3. /\ UNCHANGED <<enabled, current, retired, card, run>> /\ dropIn' = [dropIn EXCEPT ![u] = None]
        /\ UnitDone(s, dropIn') \/ UnitFails(s, dropIn')
    BY DEF RemoveOverride, ledgerVars
  <1>4. Shape(s, op[s], current[s], dropIn', enabled')
    BY <1>1, <1>2, <1>3, AtUnit
  <1>5. /\ dropIn' \in [Unit -> Schedule \cup {Torn, None}] /\ enabled' \subseteq Unit
        /\ u \notin enabled' /\ dropIn'[u] = None
        /\ \A v \in Unit \ {u} : dropIn'[v] = dropIn[v] /\ (v \in enabled' <=> v \in enabled)
    BY <1>2, <1>3
  <1>6. CASE UnitDone(s, dropIn')
    <2>1. Right(s, op[s].kind, current[s], dropIn', enabled', u)
      BY <1>2, <1>5 DEF Right
    <2> QED BY <1>1, <1>3, <1>4, <1>5, <1>6, <2>1, DoneStep
  <1>7. CASE UnitFails(s, dropIn')
    BY <1>1, <1>3, <1>4, <1>5, <1>7, FailStep
  <1> QED BY <1>3, <1>6, <1>7

(* The commands end by leaving the timers alone, or in the middle of a file of their own. *)
LEMMA Ends ==
  ASSUME IInv, NEW s \in Scope,
         FinishDeploy(s) \/ WriteMarker(s) \/ RemoveLedger(s) \/ Kill(s)
  PROVE  IInv' /\ op'[s] # op[s]
  <1>1. Leave(s) /\ op[s].pc # "idle" /\ UNCHANGED <<enabled, card, run>> /\ TypeOK
    BY DEF FinishDeploy, WriteMarker, RemoveLedger, Kill, At, IInv, timerVars
  <1>2. \/ UNCHANGED dropIn
        \/ op[s].pc \in {"write", "rmtree"} /\ dropIn' = [dropIn EXCEPT ![op[s].unit] = Torn]
    BY DEF FinishDeploy, WriteMarker, RemoveLedger, Kill, timerVars
  <1>3. /\ dropIn' \in [Unit -> Schedule \cup {Torn, None}]
        /\ \A u \in Unit \ UnitsOf(s) : dropIn'[u] = dropIn[u]
        /\ \A u \in Unit : dropIn'[u] # dropIn[u] => dropIn'[u] = Torn
    <2>1. CASE UNCHANGED dropIn
      BY <1>1, <2>1 DEF TypeOK
    <2>2. CASE /\ op[s].pc \in {"write", "rmtree"}
               /\ dropIn' = [dropIn EXCEPT ![op[s].unit] = Torn]
      <3>1. op[s].unit \in UnitsOf(s) /\ dropIn \in [Unit -> Schedule \cup {Torn, None}]
        BY <2>2, AtUnit DEF Busy
      <3> QED BY <2>2, <3>1
    <2> QED BY <1>2, <2>1, <2>2
  <1>4. \A u \in UnitsOf(s) : u \in enabled' => dropIn'[u] # None
    BY <1>1, <1>3, TimersAssumption, UnitsAreApart DEF IInv, Found
  <1>5. /\ current' \in [Scope -> Release \cup {None}] /\ retired' \subseteq Scope
        /\ \A t \in Scope \ {s} : current'[t] = current[t]
    <2>1. \/ UNCHANGED current
          \/ current' = [current EXCEPT ![s] = None]
      BY DEF FinishDeploy, WriteMarker, RemoveLedger, Kill, ledgerVars
    <2>2. retired' \in {retired, retired \cup {s}, retired \ {s}}
      BY DEF FinishDeploy, WriteMarker, RemoveLedger, Kill, ledgerVars
    <2> QED BY <1>1, <2>1, <2>2 DEF TypeOK
  <1> QED BY <1>1, <1>3, <1>4, <1>5, LeaveStep DEF TypeOK

LEMMA CardsGo ==
  ASSUME IInv, NEW s \in Scope, RemoveCards(s)
  PROVE  IInv' /\ op'[s] # op[s]
  <1> DEFINE q == [op[s] EXCEPT !.pc = "ledger"]
  <1>1. /\ op[s].pc = "finish" /\ op[s].kind = "purge" /\ op' = [op EXCEPT ![s] = q]
        /\ card' = [card EXCEPT ![s] = NoCards]
        /\ UNCHANGED <<dropIn, enabled, current, retired, run>>
    BY DEF RemoveCards, At, Goto, timerVars, ledgerVars
  <1>2. TypeOK /\ op[s] \in Command /\ Fits(s, op[s], current[s], dropIn, enabled)
    BY DEF IInv, TypeOK
  <1>3. /\ q \in Command /\ q.pc = "ledger" /\ q.kind = op[s].kind /\ q.warn = op[s].warn
    BY <1>2 DEF Command, PC
  <1>4. card' \in [Scope -> [Job -> Card \cup {None}]]
    BY <1>1, <1>2 DEF TypeOK, NoCards
  <1> HIDE DEF q
  <1>5. Shape(s, q, current[s], dropIn, enabled)
    BY <1>1, <1>2, <1>3 DEF Fits, Shape, Busy
  <1>6. Handled(s, q, current[s], dropIn, enabled)
    BY <1>1, <1>2, <1>3 DEF Fits, Handled, Busy
  <1>7. Fits(s, q, current'[s], dropIn', enabled')
    BY <1>1, <1>5, <1>6 DEF Fits
  <1>8. \A u \in UnitsOf(s) : u \in enabled' => dropIn'[u] # None
    BY <1>1, UnitsAreApart DEF IInv, Found
  <1>9. IInv'
    BY <1>1, <1>2, <1>3, <1>4, <1>7, <1>8, OwnStep DEF TypeOK
  <1>10. op'[s] # op[s]
    BY <1>1, <1>2, <1>3 DEF TypeOK
  <1> QED BY <1>9, <1>10

LEMMA CommandSteps ==
  ASSUME IInv, NEW s \in Scope, Step(s)
  PROVE  IInv' /\ op'[s] # op[s]
  <1>1. CASE \E m \in Offered[s] : BeginDeploy(s, m)
    BY <1>1, DeployStarts
  <1>2. CASE WriteOverride(s)
    BY <1>2, Writes
  <1>3. CASE ScheduleRefused(s)
    BY <1>3, Refuses
  <1>4. CASE EnableTimer(s)
    BY <1>4, Enables
  <1>5. CASE DisableTimer(s)
    BY <1>5, Disables
  <1>6. CASE RemoveOverride(s)
    BY <1>6, Removes
  <1>7. CASE FinishDeploy(s) \/ WriteMarker(s) \/ RemoveLedger(s) \/ Kill(s)
    BY <1>7, Ends
  <1>8. CASE BeginRetire(s) \/ BeginPurge(s)
    BY <1>8, RemovalStarts
  <1>9. CASE RemoveCards(s)
    BY <1>9, CardsGo
  <1> QED BY <1>1, <1>2, <1>3, <1>4, <1>5, <1>6, <1>7, <1>8, <1>9 DEF Step

(* A run is started by hand or by the timer of its very job, with a release that was      *)
(* offered to its scope.                                                                  *)
Origin ==
  /\ \A s \in Scope : current[s] \in Offered[s] \cup {None}
  /\ \A r \in Runner : run[r] # None =>
       /\ run[r].unit \in {None, ExportUnit(run[r].scope, run[r].job)}
       /\ run[r].release \in Offered[run[r].scope]

(* The name of an instance leads to the scope and the job whose unit it is. *)
LEMMA InstanceLeadsHome ==
  ASSUME NEW u \in Unit, u.template = "export"
  PROVE  /\ ScopeOfExport(u) \in Scope /\ JobOfExport(u) \in Job
         /\ u = ExportUnit(ScopeOfExport(u), JobOfExport(u))
  <1>1. PICK s \in Scope : u \in UnitsOf(s)
    BY DEF Unit
  <1>2. u \in ExportUnits(s)
    BY <1>1 DEF UnitsOf, BackupUnit
  <1> QED BY <1>2, ExportTells

(* What a step of an export does. *)
Started(r, x) ==
  /\ x \in Run /\ x.release = current[x.scope] /\ current[x.scope] # None
  /\ x.unit \in {None, ExportUnit(x.scope, x.job)}
  /\ run' = [run EXCEPT ![r] = x] /\ UNCHANGED card

Finished(r, x, outcome) ==
  /\ x # None /\ outcome \in {"sent", "failed"}
  /\ outcome = "sent" => Jobs[x.release][x.job] # None
  /\ card' = [card EXCEPT ![x.scope][x.job] = [release |-> x.release, outcome |-> outcome]]
  /\ run' = [run EXCEPT ![r] = None]

LEMMA ExportSteps ==
  ASSUME TypeOK, NEW r \in Runner, Export(r)
  PROVE  /\ UNCHANGED <<dropIn, enabled, current, retired, op>>
         /\ \/ \E x : Started(r, x)
            \/ \E outcome : Finished(r, run[r], outcome)
            \/ run' = [run EXCEPT ![r] = None] /\ UNCHANGED card
  <1>1. ASSUME NEW s \in Scope, NEW n \in Job, NEW u, u \in {None, ExportUnit(s, n)},
               StartExport(r, u, s, n)
        PROVE  /\ UNCHANGED <<dropIn, enabled, current, retired, op>> /\ \E x : Started(r, x)
    <2> DEFINE x == [unit |-> u, scope |-> s, job |-> n, release |-> current[s]]
    <2>1. /\ x.unit = u /\ x.scope = s /\ x.job = n /\ x.release = current[s]
      OBVIOUS
    <2>2. ExportUnit(s, n) \in Unit
      BY UnitsAreApart DEF ExportUnits
    <2>3. current[s] \in Release /\ current[s] # None
      BY <1>1 DEF StartExport, TypeOK
    <2>4. x \in Run
      BY <1>1, <2>2, <2>3 DEF Run
    <2>5. run' = [run EXCEPT ![r] = x] /\ UNCHANGED <<dropIn, enabled, current, retired, card, op>>
      BY <1>1 DEF StartExport, timerVars, ledgerVars
    <2> HIDE DEF x
    <2>6. Started(r, x)
      BY <1>1, <2>1, <2>3, <2>4, <2>5 DEF Started
    <2> QED BY <2>5, <2>6
  <1>2. CASE \E u \in Unit : StartByTimer(r, u)
    <2>1. PICK u \in Unit : StartByTimer(r, u)
      BY <1>2
    <2>2. /\ ScopeOfExport(u) \in Scope /\ JobOfExport(u) \in Job
          /\ u = ExportUnit(ScopeOfExport(u), JobOfExport(u))
      BY <2>1, InstanceLeadsHome DEF StartByTimer
    <2> QED BY <1>1, <2>1, <2>2 DEF StartByTimer
  <1>3. CASE StartByHand(r)
    BY <1>1, <1>3 DEF StartByHand
  <1>4. CASE FinishExport(r)
    BY <1>4 DEF FinishExport, Finished, timerVars, ledgerVars
  <1>5. CASE KillExport(r)
    BY <1>5 DEF KillExport, timerVars, ledgerVars
  <1> QED BY <1>2, <1>3, <1>4, <1>5 DEF Export

LEMMA ExportTypes ==
  ASSUME TypeOK, NEW r \in Runner, Export(r)
  PROVE  run' \in [Runner -> Run \cup {None}] /\ card' \in [Scope -> [Job -> Card \cup {None}]]
  <1>1. CASE \E x : Started(r, x)
    BY <1>1 DEF Started, TypeOK
  <1>2. CASE \E outcome : Finished(r, run[r], outcome)
    <2>1. PICK outcome : Finished(r, run[r], outcome)
      BY <1>2
    <2> DEFINE x == run[r]
               c == [release |-> x.release, outcome |-> outcome]
    <2>2. x \in Run
      BY <2>1 DEF TypeOK, Finished
    <2>3. x.scope \in Scope /\ x.job \in Job /\ x.release \in Release
      BY <2>2 DEF Run
    <2>4. c \in Card
      BY <2>1, <2>3 DEF Finished, Card
    <2>5. card' = [card EXCEPT ![x.scope][x.job] = c] /\ run' = [run EXCEPT ![r] = None]
      BY <2>1 DEF Finished
    <2> HIDE DEF c, x
    <2> QED BY <2>3, <2>4, <2>5 DEF TypeOK
  <1>3. CASE run' = [run EXCEPT ![r] = None] /\ UNCHANGED card
    BY <1>3 DEF TypeOK
  <1> QED BY <1>1, <1>2, <1>3, ExportSteps

LEMMA Inductive == IInv /\ [Next]_vars => IInv'
  <1> SUFFICES ASSUME IInv, [Next]_vars PROVE IInv'
    OBVIOUS
  <1>1. CASE \E s \in Scope : Step(s)
    BY <1>1, CommandSteps
  <1>2. ASSUME NEW r \in Runner, Export(r) PROVE IInv'
    <2>1. UNCHANGED <<dropIn, enabled, current, retired, op>>
      BY <1>2, ExportSteps DEF IInv
    <2>2. TypeOK'
      BY <1>2, <2>1, ExportTypes DEF IInv, TypeOK
    <2>3. Found(dropIn', enabled') /\ \A s \in Scope : Fits(s, op'[s], current'[s], dropIn', enabled')
      BY <2>1 DEF IInv
    <2> QED BY <2>2, <2>3 DEF IInv
  <1>3. CASE UNCHANGED vars
    <2>1. TypeOK'
      BY <1>3 DEF IInv, TypeOK, vars
    <2>2. Found(dropIn', enabled') /\ \A s \in Scope : Fits(s, op'[s], current'[s], dropIn', enabled')
      BY <1>3 DEF IInv, vars
    <2> QED BY <2>1, <2>2 DEF IInv
  <1> QED BY <1>1, <1>2, <1>3 DEF Next

(* What a command does to the releases. *)
LEMMA CommandsDeployWhatIsOffered ==
  ASSUME NEW s \in Scope, Step(s)
  PROVE  /\ UNCHANGED run
         /\ UNCHANGED card \/ card' = [card EXCEPT ![s] = NoCards]
         /\ \E m \in Offered[s] \cup {None, current[s]} : current' = [current EXCEPT ![s] = m]
              \/ UNCHANGED current
  BY DEF Step, BeginDeploy, WriteOverride, ScheduleRefused, EnableTimer, DisableTimer,
         RemoveOverride, FinishDeploy, BeginRetire, WriteMarker, BeginPurge, RemoveCards,
         RemoveLedger, Kill, timerVars, ledgerVars

LEMMA OriginKept == IInv /\ Origin /\ [Next]_vars => Origin'
  <1> SUFFICES ASSUME IInv, Origin, [Next]_vars PROVE Origin'
    OBVIOUS
  <1>0. TypeOK
    BY DEF IInv
  <1>1. ASSUME NEW s \in Scope, Step(s) PROVE Origin'
    <2>1. UNCHANGED run
      BY <1>1, CommandsDeployWhatIsOffered
    <2>2. \A t \in Scope : current'[t] \in Offered[t] \cup {None}
      BY <1>0, <1>1, CommandsDeployWhatIsOffered DEF Origin, TypeOK
    <2> QED BY <2>1, <2>2 DEF Origin
  <1>2. ASSUME NEW r \in Runner, Export(r) PROVE Origin'
    <2>1. UNCHANGED current /\ run \in [Runner -> Run \cup {None}]
      BY <1>0, <1>2, ExportSteps DEF TypeOK
    <2>2. CASE \E x : Started(r, x)
      <3>1. PICK x : Started(r, x)
        BY <2>2
      <3>2. x.scope \in Scope /\ x.release \in Offered[x.scope] /\ x.unit \in {None, ExportUnit(x.scope, x.job)}
        BY <3>1 DEF Started, Run, Origin
      <3>3. run'[r] = x /\ \A q \in Runner \ {r} : run'[q] = run[q]
        BY <2>1, <3>1 DEF Started
      <3> QED BY <2>1, <3>2, <3>3 DEF Origin
    <2>3. CASE run' = [run EXCEPT ![r] = None]
      BY <2>1, <2>3 DEF Origin
    <2> QED BY <1>0, <1>2, <2>2, <2>3, ExportSteps DEF Finished
  <1>3. CASE UNCHANGED vars
    BY <1>3 DEF Origin, vars
  <1> QED BY <1>1, <1>2, <1>3 DEF Next

LEMMA InvariantHolds == Spec => []IInv
  BY Initially, Inductive, PTL DEF Spec

LEMMA OriginHolds == Spec => []Origin
  <1>1. Init => Origin
    BY DEF Init, Origin
  <1> QED BY <1>1, InvariantHolds, OriginKept, PTL DEF Spec

-----------------------------------------------------------------------------
(* The theorems *)

(* The variables keep their types: the command of a scope is at a unit of this host, and *)
(* a card is written for a job that has one.                                             *)
THEOREM TypeCorrect == Spec => []TypeOK
  <1>1. IInv => TypeOK
    BY DEF IInv
  <1> QED BY <1>1, InvariantHolds, PTL

(* Every enabled export timer has the drop-in by which the commands that remove timers   *)
(* find it, whichever of them was cut short, and wherever (export_schedule.py).           *)
THEOREM NoneIsLost == Spec => []EnabledIsFound
  <1>1. IInv => EnabledIsFound
    <2> SUFFICES ASSUME IInv, NEW s \in Scope, NEW u \in ExportUnits(s), u \in enabled
                 PROVE  u \in ExistingExports(s, dropIn)
      BY DEF EnabledIsFound
    <2>1. u \in Unit /\ u.template = "export" /\ Front(u.instance) = TimerInstance(s)
      BY UnitsAreApart, ExportTells
    <2>2. dropIn[u] # None
      BY <2>1 DEF IInv, Found
    <2> QED BY <2>1, <2>2 DEF ExistingExports
  <1> QED BY <1>1, InvariantHolds, PTL

(* At the end of a command without a warning, its units are right. *)
LEMMA EndsRight ==
  ASSUME IInv, NEW s \in Scope, op[s].pc \in {"finish", "ledger"}, ~op[s].warn,
         NEW u \in UnitsOf(s)
  PROVE  Right(s, op[s].kind, current[s], dropIn, enabled, u)
  BY DEF IInv, Fits, Handled, Busy

(* A deploy that reports no warning leaves the timers its release declares, with their   *)
(* schedules, and no others, whatever earlier commands left undone (run_backup_schedule). *)
THEOREM DeploysTakeEffect == Spec => TimersMatchRelease
  <1> DEFINE Act == \A s \in Scope :
                      FinishDeploy(s) /\ ~op[s].warn =>
                        \A u \in UnitsOf(s) :
                          /\ u \in enabled <=> ScheduleFor(s, u) # None
                          /\ dropIn[u] = ScheduleFor(s, u)
  <1>1. IInv => Act
    <2> SUFFICES ASSUME IInv, NEW s \in Scope, FinishDeploy(s), ~op[s].warn, NEW u \in UnitsOf(s)
                 PROVE  /\ u \in enabled <=> ScheduleFor(s, u) # None
                        /\ dropIn[u] = ScheduleFor(s, u)
      OBVIOUS
    <2>1. Right(s, op[s].kind, current[s], dropIn, enabled, u)
      BY EndsRight DEF FinishDeploy, At
    <2>2. ScheduleFor(s, u) = Asked(s, op[s].kind, current[s], u)
      BY AskedIsScheduleFor
    <2> QED BY <2>1, <2>2 DEF Right
  <1>2. [][Act]_vars <=> TimersMatchRelease
    BY DEF TimersMatchRelease
  <1>3. IInv /\ [Next]_vars => [Act]_vars
    BY <1>1
  <1> HIDE DEF Act
  <1> QED BY <1>2, <1>3, InvariantHolds, PTL DEF Spec

(* An application is marked as retired, and its ledger is removed, when none of its       *)
(* timers is enabled (retire and purge).                                                  *)
THEOREM RemovedIsQuiet == Spec => RetiredIsQuiet
  <1> DEFINE Act == \A s \in Scope :
                      WriteMarker(s) \/ RemoveLedger(s) => enabled \cap UnitsOf(s) = {}
  <1>1. IInv => Act
    <2> SUFFICES ASSUME IInv, NEW s \in Scope, WriteMarker(s) \/ RemoveLedger(s),
                        NEW u \in UnitsOf(s)
                 PROVE  u \notin enabled
      OBVIOUS
    <2>1. op[s].pc \in {"finish", "ledger"} /\ op[s].kind \in {"retire", "purge"}
      BY DEF WriteMarker, RemoveLedger, At, IInv, Fits, Shape
    <2>2. ~op[s].warn
      BY <2>1 DEF IInv, Fits, Shape, Reconciling
    <2>3. Asked(s, op[s].kind, current[s], u) = None
      BY <2>1 DEF Asked, Reconciling
    <2> QED BY <2>1, <2>2, <2>3, EndsRight DEF Right
  <1>2. [][Act]_vars <=> RetiredIsQuiet
    BY DEF RetiredIsQuiet
  <1>3. IInv /\ [Next]_vars => [Act]_vars
    BY <1>1
  <1> HIDE DEF Act
  <1> QED BY <1>2, <1>3, InvariantHolds, PTL DEF Spec

(* A step of a command touches at most the unit it is at. *)
LEMMA StepsAreLocal ==
  ASSUME IInv, NEW s \in Scope, Step(s), NEW u \in Unit \ UnitsOf(s)
  PROVE  dropIn'[u] = dropIn[u] /\ (u \in enabled' <=> u \in enabled)
  <1>1. op[s].pc \in Busy => op[s].unit # u
    BY AtUnit
  <1>2. \/ UNCHANGED dropIn
        \/ op[s].pc \in Busy /\ \E x : dropIn' = [dropIn EXCEPT ![op[s].unit] = x]
    BY DEF Step, BeginDeploy, WriteOverride, ScheduleRefused, EnableTimer, DisableTimer,
           RemoveOverride, FinishDeploy, BeginRetire, WriteMarker, BeginPurge, RemoveCards,
           RemoveLedger, Kill, At, Busy, timerVars
  <1>3. \/ UNCHANGED enabled
        \/ /\ op[s].pc \in Busy
           /\ enabled' \in {enabled \cup {op[s].unit}, enabled \ {op[s].unit}}
    BY DEF Step, BeginDeploy, WriteOverride, ScheduleRefused, EnableTimer, DisableTimer,
           RemoveOverride, FinishDeploy, BeginRetire, WriteMarker, BeginPurge, RemoveCards,
           RemoveLedger, Kill, At, Busy, timerVars
  <1>4. dropIn'[u] = dropIn[u]
    BY <1>1, <1>2 DEF IInv, TypeOK
  <1>5. u \in enabled' <=> u \in enabled
    BY <1>1, <1>3
  <1> QED BY <1>4, <1>5

(* A timer changes by a command of its own scope only: a name that begins like another    *)
(* one, with hyphens in a project's name, is not taken for it (existing_instances).        *)
THEOREM CommandsKeepToTheirScope == Spec => OnlyOwnTimers
  <1> DEFINE Own(s) == op'[s] = op[s] =>
                         \A u \in UnitsOf(s) :
                           dropIn'[u] = dropIn[u] /\ (u \in enabled' <=> u \in enabled)
  <1>1. ASSUME IInv, [Next]_vars, NEW s \in Scope PROVE Own(s)
    <2> SUFFICES ASSUME op'[s] = op[s], NEW u \in UnitsOf(s)
                 PROVE  dropIn'[u] = dropIn[u] /\ (u \in enabled' <=> u \in enabled)
      OBVIOUS
    <2>1. ASSUME NEW t \in Scope, Step(t)
          PROVE  dropIn'[u] = dropIn[u] /\ (u \in enabled' <=> u \in enabled)
      <3>1. t # s
        BY <1>1, <2>1, CommandSteps
      <3>2. u \in Unit \ UnitsOf(t)
        BY <3>1, UnitsAreApart
      <3> QED BY <1>1, <2>1, <3>2, StepsAreLocal
    <2>2. ASSUME NEW r \in Runner, Export(r) PROVE UNCHANGED <<dropIn, enabled>>
      BY <1>1, <2>2, ExportSteps DEF IInv
    <2>3. CASE UNCHANGED vars
      BY <2>3 DEF vars
    <2> QED BY <1>1, <2>1, <2>2, <2>3 DEF Next
  <1>2. [][\A s \in Scope : Own(s)]_vars <=> OnlyOwnTimers
    BY DEF OnlyOwnTimers
  <1>3. IInv /\ [Next]_vars => [\A s \in Scope : Own(s)]_vars
    BY <1>1
  <1> HIDE DEF Own
  <1> QED BY <1>2, <1>3, InvariantHolds, PTL DEF Spec

(* A card is what a run of its own job left, with a release of its own scope that, if the  *)
(* mail went out, declares the job, whatever commands ran while the export did: the name   *)
(* of the instance leads to scope and job (split_export_instance), and the release is the  *)
(* one read at the start (run_export).                                                     *)
THEOREM RunsKeepToTheirJob == Spec => CardsTellWhatRan
  <1> DEFINE Told(s, n) ==
               card'[s][n] \notin {card[s][n], None} =>
                 /\ \E r \in Runner : /\ run[r] # None /\ run'[r] = None
                                     /\ run[r].scope = s /\ run[r].job = n
                                     /\ run[r].unit \in {None, ExportUnit(s, n)}
                 /\ card'[s][n].release \in Offered[s]
                 /\ card'[s][n].outcome = "sent" => Jobs[card'[s][n].release][n] # None
  <1>1. ASSUME IInv, Origin, [Next]_vars, NEW s \in Scope, NEW n \in Job PROVE Told(s, n)
    <2> SUFFICES ASSUME card'[s][n] \notin {card[s][n], None} PROVE Told(s, n)
      OBVIOUS
    <2>1. card \in [Scope -> [Job -> Card \cup {None}]] /\ run \in [Runner -> Run \cup {None}] /\ TypeOK
      BY <1>1 DEF IInv, TypeOK
    <2>2. ASSUME NEW t \in Scope, Step(t) PROVE FALSE
      <3>1. card'[s][n] \in {card[s][n], None}
        BY <2>1, <2>2, CommandsDeployWhatIsOffered DEF NoCards
      <3> QED BY <3>1
    <2>3. ASSUME NEW r \in Runner, Export(r) PROVE Told(s, n)
      <3>1. PICK outcome : Finished(r, run[r], outcome)
        BY <2>1, <2>3, ExportSteps DEF Started
      <3> DEFINE x == run[r]
                 c == [release |-> x.release, outcome |-> outcome]
      <3>2. /\ x # None /\ card' = [card EXCEPT ![x.scope][x.job] = c] /\ run' = [run EXCEPT ![r] = None]
            /\ outcome = "sent" => Jobs[x.release][x.job] # None
        BY <3>1 DEF Finished
      <3>3. x \in Run /\ x.scope \in Scope /\ x.job \in Job
        BY <2>1, <3>2 DEF Run
      <3>4. /\ x.unit \in {None, ExportUnit(x.scope, x.job)}
            /\ x.release \in Offered[x.scope]
        BY <1>1, <3>2 DEF Origin
      <3>5. c.release = x.release /\ c.outcome = outcome
        OBVIOUS
      <3> HIDE DEF c
      <3>6. x.scope = s /\ x.job = n /\ card'[s][n] = c /\ run'[r] = None
        BY <2>1, <3>2, <3>3
      <3> QED BY <3>2, <3>4, <3>5, <3>6
    <2>4. CASE UNCHANGED vars
      BY <2>4 DEF vars
    <2> QED BY <1>1, <2>2, <2>3, <2>4 DEF Next
  <1>2. [][\A s \in Scope, n \in Job : Told(s, n)]_vars <=> CardsTellWhatRan
    BY DEF CardsTellWhatRan
  <1>3. IInv /\ Origin /\ [Next]_vars => [\A s \in Scope, n \in Job : Told(s, n)]_vars
    BY <1>1
  <1> HIDE DEF Told
  <1> QED BY <1>2, <1>3, InvariantHolds, OriginHolds, PTL DEF Spec

=============================================================================
