---------------------------- MODULE FleetProofs ----------------------------
(***************************************************************************)
(* Theorems about Fleet, for any number of hosts, consoles and versions:   *)
(* type correctness, that no console shuts the public SSH of a host that   *)
(* is not reached over the tailnet, and that the success a console         *)
(* reports is true.                                                        *)
(***************************************************************************)
EXTENDS Fleet, TLAPS

-----------------------------------------------------------------------------
(* The inductive invariant *)

(* A bootstrap is about a host. *)
AboutAHost ==
  \A c \in Console :
    op[c].pc \in {"probe", "handover", "users", "join", "preflight"} => op[c].hosts # {}

(* A core update past the choice of its target has one. *)
Targeted == \A c \in Console : op[c].pc \in {"pin", "install"} => op[c].target \in Version

(* Past the guard, and until the firewall is in place, a play goes on only on hosts that  *)
(* are reached over the tailnet: no step makes a host leave it.                           *)
PastTheGuard ==
  \A c \in Console :
    op[c].pc \in {"early", "firewall"} => \A h \in op[c].running : OverTailnet(h)

(* Behind the firewall a play goes on only on hosts whose public door is shut, and nothing *)
(* opens one again.                                                                       *)
BehindTheFirewall ==
  \A c \in Console :
    /\ op[c].pc \in {"runtime", "late", "verdict"} => op[c].running \cap open = {}
    /\ op[c].pc = "readiness" => op[c].hosts \cap open = {}

IInv ==
  TypeOK /\ AboutAHost /\ Targeted /\ PastTheGuard /\ BehindTheFirewall /\ NotLockedOut

-----------------------------------------------------------------------------
(* Lemmas about the helpers *)

(* Whichever way a console takes its step, its record becomes r, and the others keep what  *)
(* the invariant speaks of.                                                               *)
LEMMA StepOfOne ==
  ASSUME TypeOK, NEW c \in Console, NEW r \in Operation, Becomes(c, r) \/ Touching(c, r)
  PROVE  /\ op' \in [Console -> Operation]
         /\ op'[c] = r
         /\ \A d \in Console \ {c} : /\ op'[d].pc = op[d].pc
                                     /\ op'[d].hosts = op[d].hosts
                                     /\ op'[d].running = op[d].running
                                     /\ op'[d].target = op[d].target
  <1>1. op \in [Console -> Operation]
    BY DEF TypeOK
  <1>2. CASE Becomes(c, r)
    BY <1>1, <1>2 DEF Becomes
  <1>3. CASE Touching(c, r)
    <2>1. \A d \in Console : [op[d] EXCEPT !.alone = FALSE] \in Operation
      BY <1>1 DEF Operation
    <2>2. op' = [d \in Console |-> IF d = c THEN r
                                   ELSE IF At(d, "idle") THEN op[d]
                                   ELSE [op[d] EXCEPT !.alone = FALSE]]
      BY <1>3 DEF Touching
    <2>3. op' \in [Console -> Operation] /\ op'[c] = r
      BY <1>1, <2>1, <2>2
    <2>4. ASSUME NEW d \in Console \ {c}
          PROVE  /\ op'[d].pc = op[d].pc /\ op'[d].hosts = op[d].hosts
                 /\ op'[d].running = op[d].running /\ op'[d].target = op[d].target
      BY <1>1, <2>2 DEF Operation
    <2> QED BY <2>3, <2>4
  <1> QED BY <1>2, <1>3

LEMMA IdleIsOperation == Idle \in Operation
  BY FleetAssumption DEF Idle, Operation, PC

(* A console that stops, or goes on without leaving its pass, keeps a well-formed record. *)
LEMMA StaysOperation ==
  ASSUME NEW r \in Operation
  PROVE  /\ \A pc \in PC : [r EXCEPT !.pc = pc] \in Operation
         /\ \A pc \in PC, S \in SUBSET Host : [r EXCEPT !.pc = pc, !.running = S] \in Operation
         /\ \A n \in {1, 2} : Pass(r, n) \in Operation
  <1>1. \A pc \in PC : [r EXCEPT !.pc = pc] \in Operation
    BY DEF Operation
  <1>2. \A pc \in PC, S \in SUBSET Host : [r EXCEPT !.pc = pc, !.running = S] \in Operation
    BY DEF Operation
  <1>3. ASSUME NEW n \in {1, 2} PROVE Pass(r, n) \in Operation
    <2>1. "guard" \in PC
      BY DEF PC
    <2> QED BY <2>1 DEF Operation, Pass
  <1> QED BY <1>1, <1>2, <1>3

(* The one host of a bootstrap. *)
LEMMA OnlyIsOne ==
  ASSUME TypeOK, NEW c \in Console, op[c].hosts # {}
  PROVE  Only(c) \in Host
  <1>1. op[c].hosts \subseteq Host
    BY DEF TypeOK, Operation
  <1>2. \E h \in op[c].hosts : TRUE
    OBVIOUS
  <1> QED BY <1>1, <1>2 DEF Only

(* What the console c becomes has to agree with the invariant, and nothing may take a host *)
(* out of the tailnet.                                                                    *)
LEMMA OneStep ==
  ASSUME IInv, NEW c \in Console, NEW r \in Operation, Becomes(c, r) \/ Touching(c, r),
         \A h \in Host : OverTailnet(h) => OverTailnet(h)', open' \subseteq open,
         r.pc \in {"probe", "handover", "users", "join", "preflight"} => r.hosts # {},
         r.pc \in {"pin", "install"} => r.target \in Version,
         r.pc \in {"early", "firewall"} => \A h \in r.running : OverTailnet(h)',
         r.pc \in {"runtime", "late", "verdict"} => r.running \cap open' = {},
         r.pc = "readiness" => r.hosts \cap open' = {}
  PROVE  /\ op' \in [Console -> Operation] /\ AboutAHost' /\ Targeted'
         /\ PastTheGuard' /\ BehindTheFirewall'
  <1>1. /\ op' \in [Console -> Operation]
        /\ op'[c] = r
        /\ \A d \in Console \ {c} : /\ op'[d].pc = op[d].pc
                                    /\ op'[d].hosts = op[d].hosts
                                    /\ op'[d].running = op[d].running
                                    /\ op'[d].target = op[d].target
    BY StepOfOne DEF IInv
  <1>2. AboutAHost' /\ Targeted'
    BY <1>1 DEF IInv, AboutAHost, Targeted
  <1>3. ASSUME NEW d \in Console, op'[d].pc \in {"early", "firewall"}, NEW h \in op'[d].running
        PROVE  OverTailnet(h)'
    <2>1. CASE d = c
      BY <1>1, <1>3, <2>1
    <2>2. CASE d # c
      <3>1. op[d].pc \in {"early", "firewall"} /\ h \in op[d].running
        BY <1>1, <1>3, <2>2
      <3>2. OverTailnet(h)
        BY <3>1 DEF IInv, PastTheGuard
      <3>3. h \in Host
        BY <3>1 DEF IInv, TypeOK, Operation
      <3> QED BY <3>2, <3>3
    <2> QED BY <2>1, <2>2
  <1>4. BehindTheFirewall'
    BY <1>1 DEF IInv, BehindTheFirewall
  <1> QED BY <1>1, <1>2, <1>3, <1>4 DEF PastTheGuard

(* Most steps leave the hosts alone. *)
LEMMA QuietStep ==
  ASSUME IInv, NEW c \in Console, NEW r \in Operation, Becomes(c, r) \/ Touching(c, r),
         UNCHANGED hostVars,
         pin' \in Version /\ collection' \in Version /\ key' \in {"fresh", "spent"},
         r.pc \in {"probe", "handover", "users", "join", "preflight"} => r.hosts # {},
         r.pc \in {"pin", "install"} => r.target \in Version,
         r.pc \in {"early", "firewall"} => \A h \in r.running : OverTailnet(h),
         r.pc \in {"runtime", "late", "verdict"} => r.running \cap open = {},
         r.pc = "readiness" => r.hosts \cap open = {}
  PROVE  IInv'
  <1>1. \A h : OverTailnet(h)' <=> OverTailnet(h)
    BY DEF OverTailnet, hostVars
  <1>2. /\ op' \in [Console -> Operation] /\ AboutAHost' /\ Targeted'
        /\ PastTheGuard' /\ BehindTheFirewall'
    BY <1>1, OneStep DEF hostVars
  <1>3. TypeOK'
    BY <1>2 DEF IInv, TypeOK, hostVars
  <1>4. NotLockedOut'
    BY DEF IInv, NotLockedOut, hostVars
  <1> QED BY <1>2, <1>3, <1>4 DEF IInv

-----------------------------------------------------------------------------
(* The steps *)

LEMMA Initially == Init => IInv
  <1> SUFFICES ASSUME Init PROVE IInv
    OBVIOUS
  <1>1. TypeOK
    BY IdleIsOperation DEF Init, TypeOK
  <1>2. AboutAHost /\ Targeted /\ PastTheGuard /\ BehindTheFirewall
    BY DEF Init, AboutAHost, Targeted, PastTheGuard, BehindTheFirewall, Idle
  <1>3. NotLockedOut
    BY DEF Init, NotLockedOut
  <1> QED BY <1>1, <1>2, <1>3 DEF IInv

(* The steps that only read the hosts. *)
LEMMA Reading ==
  ASSUME IInv, NEW c \in Console,
         \/ BeginBootstrap(c) \/ AlreadyJoined(c) \/ StartBootstrap(c) \/ ProveHandover(c)
         \/ JoinFails(c) \/ Preflight(c) \/ BeginConverge(c) \/ Verdict(c)
         \/ Report(c) \/ Stop(c)
  PROVE  IInv'
  <1> USE DEF At
  <1>0. /\ op[c] \in Operation /\ TypeOK /\ AboutAHost
        /\ pin \in Version /\ collection \in Version /\ key \in {"fresh", "spent"}
    BY DEF IInv, TypeOK
  <1>1. CASE BeginBootstrap(c)
    <2>1. PICK h \in Host : Becomes(c, [Idle EXCEPT !.pc = "probe", !.hosts = {h}])
      BY <1>1 DEF BeginBootstrap
    <2> DEFINE r == [Idle EXCEPT !.pc = "probe", !.hosts = {h}]
    <2>2. r \in Operation /\ r.pc = "probe" /\ r.hosts # {}
      BY IdleIsOperation DEF Operation, PC, Idle
    <2>3. UNCHANGED <<hostVars, checkout>>
      BY <1>1 DEF BeginBootstrap
    <2> HIDE DEF r
    <2> QED BY <1>0, <2>1, <2>2, <2>3, QuietStep DEF r, checkout
  <1>2. CASE AlreadyJoined(c) \/ ProveHandover(c)
    <2>1. /\ op[c].hosts # {}
          /\ [op[c] EXCEPT !.pc = "preflight"] \in Operation
          /\ [op[c] EXCEPT !.pc = "preflight"].pc = "preflight"
          /\ [op[c] EXCEPT !.pc = "preflight"].hosts = op[c].hosts
      BY <1>0, <1>2 DEF AboutAHost, AlreadyJoined, ProveHandover, Operation, PC
    <2>2. Becomes(c, [op[c] EXCEPT !.pc = "preflight"]) /\ UNCHANGED <<hostVars, checkout>>
      BY <1>2 DEF AlreadyJoined, ProveHandover, Goto
    <2> QED BY <1>0, <2>1, <2>2, QuietStep DEF checkout
  <1>3. CASE StartBootstrap(c)
    <2>1. /\ op[c].hosts # {}
          /\ [op[c] EXCEPT !.pc = "users"] \in Operation
          /\ [op[c] EXCEPT !.pc = "users"].pc = "users"
          /\ [op[c] EXCEPT !.pc = "users"].hosts = op[c].hosts
      BY <1>0, <1>3 DEF AboutAHost, StartBootstrap, Operation, PC
    <2>2. Becomes(c, [op[c] EXCEPT !.pc = "users"]) /\ UNCHANGED <<hostVars, checkout>>
      BY <1>3 DEF StartBootstrap, Goto
    <2> QED BY <1>0, <2>1, <2>2, QuietStep DEF checkout
  <1>4. CASE JoinFails(c) \/ Report(c) \/ Stop(c) \/ (Verdict(c) /\ ~Clean(c))
    <2>1. /\ Becomes(c, Idle) /\ UNCHANGED <<hostVars, pin, collection>>
          /\ key' \in {key, "spent"}
      BY <1>4 DEF JoinFails, Report, Stop, Verdict, Leave, checkout
    <2>2. Idle.pc = "idle"
      BY DEF Idle
    <2> QED BY <1>0, <2>1, <2>2, IdleIsOperation, QuietStep
  <1>5. CASE Preflight(c) \/ (Verdict(c) /\ Clean(c) /\ op[c].pass = 1)
    <2>1. PICK n \in {1, 2} : Becomes(c, Pass(op[c], n))
      BY <1>5 DEF Preflight, Verdict
    <2>2. Pass(op[c], n) \in Operation /\ Pass(op[c], n).pc = "guard"
      BY <1>0, StaysOperation DEF Pass, Operation
    <2>3. UNCHANGED <<hostVars, checkout>>
      BY <1>5 DEF Preflight, Verdict
    <2> QED BY <1>0, <2>1, <2>2, <2>3, QuietStep DEF checkout
  <1>6. CASE Verdict(c) /\ Clean(c) /\ op[c].pass # 1
    <2>1. Becomes(c, [op[c] EXCEPT !.pc = "readiness"]) /\ UNCHANGED <<hostVars, checkout>>
      BY <1>6 DEF Verdict, Goto
    <2>2. /\ [op[c] EXCEPT !.pc = "readiness"] \in Operation
          /\ [op[c] EXCEPT !.pc = "readiness"].pc = "readiness"
          /\ [op[c] EXCEPT !.pc = "readiness"].hosts = op[c].running
      BY <1>0, <1>6 DEF Operation, PC, Clean
    <2>3. op[c].running \cap open = {}
      BY <1>6 DEF IInv, BehindTheFirewall, Verdict
    <2> QED BY <1>0, <2>1, <2>2, <2>3, QuietStep DEF checkout
  <1>7. CASE BeginConverge(c)
    <2>1. PICK h \in Host : Becomes(c, Pass([Idle EXCEPT !.hosts = {h}], 1))
      BY <1>7 DEF BeginConverge
    <2> DEFINE r == [Idle EXCEPT !.hosts = {h}]
    <2>2. r \in Operation
      BY IdleIsOperation DEF Operation
    <2>3. Pass(r, 1) \in Operation
      BY <2>2, StaysOperation
    <2>4. Pass(r, 1).pc = "guard"
      BY <2>2 DEF Pass, Operation
    <2>5. UNCHANGED <<hostVars, checkout>>
      BY <1>7 DEF BeginConverge
    <2> HIDE DEF r
    <2> QED BY <1>0, <2>1, <2>3, <2>4, <2>5, QuietStep DEF r, checkout
  <1> QED BY <1>1, <1>2, <1>3, <1>4, <1>5, <1>6, <1>7

(* The steps of a core update before its passes. *)
LEMMA Updating ==
  ASSUME IInv, NEW c \in Console,
         \/ BeginUpdate(c) \/ ChooseTarget(c) \/ RewritePin(c) \/ InstallCollection(c)
         \/ ChooseHosts(c)
  PROVE  IInv'
  <1>0. /\ op[c] \in Operation /\ TypeOK
        /\ pin \in Version /\ collection \in Version /\ key \in {"fresh", "spent"}
    BY DEF IInv, TypeOK
  <1>1. CASE BeginUpdate(c)
    <2>1. PICK answered \in SUBSET {h \in Host : Reaches(h)} :
            Becomes(c, [Idle EXCEPT !.pc = "target", !.hosts = {},
                          !.seen = [h \in Host |-> IF h \in answered THEN runtime[h] ELSE None]])
      BY <1>1 DEF BeginUpdate
    <2> DEFINE r == [Idle EXCEPT !.pc = "target", !.hosts = {},
                       !.seen = [h \in Host |-> IF h \in answered THEN runtime[h] ELSE None]]
    <2>2. [h \in Host |-> IF h \in answered THEN runtime[h] ELSE None]
            \in [Host -> Version \cup {None}]
      BY <1>0 DEF TypeOK
    <2>3. r \in Operation /\ r.pc = "target"
      BY <2>2, IdleIsOperation DEF Operation, PC
    <2>4. UNCHANGED <<hostVars, checkout>>
      BY <1>1 DEF BeginUpdate
    <2> HIDE DEF r
    <2> QED BY <1>0, <2>1, <2>3, <2>4, QuietStep DEF r, checkout
  <1>2. CASE ChooseTarget(c)
    <2>1. PICK v \in Version :
            Becomes(c, [op[c] EXCEPT !.pc = IF v = pin THEN "install" ELSE "pin", !.target = v])
      BY <1>2 DEF ChooseTarget
    <2> DEFINE r == [op[c] EXCEPT !.pc = IF v = pin THEN "install" ELSE "pin", !.target = v]
    <2>2. r \in Operation /\ r.pc \in {"install", "pin"} /\ r.target = v
      BY <1>0 DEF Operation, PC
    <2>3. UNCHANGED <<hostVars, checkout>>
      BY <1>2 DEF ChooseTarget
    <2> HIDE DEF r
    <2> QED BY <1>0, <2>1, <2>2, <2>3, QuietStep DEF r, checkout
  <1>3. CASE RewritePin(c)
    <2> DEFINE r == [op[c] EXCEPT !.pc = "install"]
    <2>1. Touching(c, r) /\ pin' = op[c].target /\ UNCHANGED <<hostVars, collection, key>>
      BY <1>3 DEF RewritePin
    <2>2. r \in Operation /\ r.pc = "install" /\ r.target = op[c].target
      BY <1>0 DEF Operation, PC
    <2>3. pin' \in Version
      BY <1>0, <1>3, <2>1 DEF IInv, Targeted, RewritePin, At
    <2> HIDE DEF r
    <2> QED BY <1>0, <2>1, <2>2, <2>3, QuietStep DEF r
  <1>4. CASE InstallCollection(c)
    <2> DEFINE r == [op[c] EXCEPT !.pc = "choose"]
    <2>1. /\ Touching(c, r) /\ collection' \in {pin, op[c].target}
          /\ UNCHANGED <<hostVars, pin, key>>
      BY <1>4 DEF InstallCollection
    <2>2. r \in Operation /\ r.pc = "choose"
      BY <1>0 DEF Operation, PC
    <2>3. collection' \in Version
      BY <1>0, <1>4, <2>1 DEF IInv, Targeted, InstallCollection, At
    <2> HIDE DEF r
    <2> QED BY <1>0, <2>1, <2>2, <2>3, QuietStep DEF r
  <1>5. CASE ChooseHosts(c)
    <2>1. PICK S \in SUBSET Host :
            Becomes(c, Pass([op[c] EXCEPT !.hosts = S, !.seen = Idle.seen,
                                          !.ticked = (S = Preselected(c))], 1))
      BY <1>5 DEF ChooseHosts
    <2> DEFINE r == [op[c] EXCEPT !.hosts = S, !.seen = Idle.seen,
                                  !.ticked = (S = Preselected(c))]
    <2>2. Idle.seen \in [Host -> Version \cup {None}]
      BY IdleIsOperation DEF Operation
    <2>3. (S = Preselected(c)) \in BOOLEAN
      OBVIOUS
    <2>4. r \in Operation
      BY <1>0, <2>2, <2>3 DEF Operation
    <2>5. Pass(r, 1) \in Operation
      BY <2>4, StaysOperation
    <2>6. Pass(r, 1).pc = "guard"
      BY <2>4 DEF Pass, Operation
    <2>7. UNCHANGED <<hostVars, checkout>>
      BY <1>5 DEF ChooseHosts
    <2> HIDE DEF r
    <2> QED BY <1>0, <2>1, <2>5, <2>6, <2>7, QuietStep DEF r, checkout
  <1> QED BY <1>1, <1>2, <1>3, <1>4, <1>5

(* The steps that change hosts, but do not close anything. *)
LEMMA Opening ==
  ASSUME IInv, NEW c \in Console, CreateUsers(c) \/ JoinTailnet(c)
  PROVE  IInv'
  <1>0. /\ op[c] \in Operation /\ TypeOK /\ op[c].hosts # {} /\ op[c].hosts \subseteq Host
    BY DEF IInv, TypeOK, AboutAHost, CreateUsers, JoinTailnet, At, Operation
  <1>1. Only(c) \in Host
    BY <1>0, OnlyIsOne
  <1>2. PICK pc \in {"join", "handover"} : Touching(c, [op[c] EXCEPT !.pc = pc])
    BY DEF CreateUsers, JoinTailnet
  <1> DEFINE r == [op[c] EXCEPT !.pc = pc]
  <1>3. r \in Operation /\ r.pc = pc /\ r.hosts = op[c].hosts
    BY <1>0 DEF Operation, PC
  <1>4. /\ users \subseteq users' /\ users' \subseteq Host
        /\ joined \subseteq joined' /\ joined' \subseteq Host
        /\ key' \in {"fresh", "spent"}
        /\ UNCHANGED <<route, open, early, runtime, late, pin, collection>>
    BY <1>0, <1>1 DEF TypeOK, CreateUsers, JoinTailnet, checkout
  <1>5. \A h \in Host : OverTailnet(h) => OverTailnet(h)'
    BY <1>4 DEF OverTailnet
  <1>6. /\ op' \in [Console -> Operation] /\ AboutAHost' /\ Targeted'
        /\ PastTheGuard' /\ BehindTheFirewall'
    <2> HIDE DEF r
    <2>1. Touching(c, r)
      BY <1>2 DEF r
    <2> QED BY <1>0, <1>2, <1>3, <1>4, <1>5, <2>1, OneStep
  <1>7. TypeOK'
    BY <1>0, <1>4, <1>6 DEF TypeOK
  <1>8. NotLockedOut'
    BY <1>4 DEF IInv, NotLockedOut
  <1> QED BY <1>6, <1>7, <1>8 DEF IInv

(* A task of a pass moves the console on with some of its hosts. *)
LEMMA PassesOn ==
  ASSUME TypeOK, NEW c \in Console, NEW pc \in PC, NEW S \in SUBSET op[c].running,
         NEW changed \in BOOLEAN, Passes(c, pc, S, changed)
  PROVE  \E r \in Operation :
           /\ Touching(c, r) /\ r.pc = pc /\ r.running = S /\ r.hosts = op[c].hosts
           /\ r.target = op[c].target /\ r.ticked = op[c].ticked /\ r.alone = op[c].alone
  <1>1. op[c] \in Operation /\ S \in SUBSET Host
    BY DEF TypeOK, Operation
  <1> DEFINE r == [op[c] EXCEPT !.pc = pc, !.running = S, !.changed = @ \/ changed]
  <1>2. (op[c].changed \/ changed) \in BOOLEAN
    OBVIOUS
  <1>3. /\ r \in Operation /\ r.pc = pc /\ r.running = S /\ r.hosts = op[c].hosts
        /\ r.target = op[c].target /\ r.ticked = op[c].ticked /\ r.alone = op[c].alone
    BY <1>1, <1>2 DEF Operation
  <1>4. Touching(c, r)
    BY DEF Passes
  <1> QED BY <1>3, <1>4

LEMMA WrittenIs ==
  ASSUME TypeOK, NEW f \in [Host -> Version \cup {None}], NEW S, NEW torn
  PROVE  /\ Written(f, S, torn) \in [Host -> Version \cup {None}]
         /\ \A h \in Host : h \in S => Written(f, S, torn)[h] = collection
         /\ \A h \in Host \ (S \cup torn) : Written(f, S, torn)[h] = f[h]
  BY DEF Written, TypeOK

LEMMA ChangedIs ==
  ASSUME NEW f, NEW c, NEW S
  PROVE  Changed(f, c, S) \in BOOLEAN /\ Shuts(c, S) \in BOOLEAN
  BY DEF Changed, Shuts

(* A task that leaves users, tailnet and firewall alone. *)
LEMMA TaskKeeps ==
  ASSUME IInv, NEW c \in Console, NEW r \in Operation, Touching(c, r),
         UNCHANGED <<route, users, joined, open, checkout>>,
         early' \in [Host -> Version \cup {None}], runtime' \in [Host -> Version \cup {None}],
         late' \in [Host -> Version \cup {None}],
         r.pc \in {"firewall", "late", "verdict"},
         r.pc = "firewall" => \A h \in r.running : OverTailnet(h),
         r.pc # "firewall" => r.running \cap open = {}
  PROVE  IInv'
  <1>1. \A h : OverTailnet(h)' <=> OverTailnet(h)
    BY DEF OverTailnet
  <1>2. /\ op' \in [Console -> Operation] /\ AboutAHost' /\ Targeted'
        /\ PastTheGuard' /\ BehindTheFirewall'
    BY <1>1, OneStep
  <1>3. TypeOK' /\ NotLockedOut'
    BY <1>2 DEF IInv, TypeOK, NotLockedOut, checkout
  <1> QED BY <1>2, <1>3 DEF IInv

(* The tasks of a pass: only the hosts that are still running are written. *)
LEMMA Converging ==
  ASSUME IInv, NEW c \in Console,
         \/ Guard(c) \/ ConvergeEarly(c) \/ CloseFirewall(c)
         \/ InstallRuntime(c) \/ ConvergeLate(c)
  PROVE  IInv'
  <1>0. /\ op[c] \in Operation /\ TypeOK /\ op[c].running \subseteq Host
        /\ pin \in Version /\ collection \in Version /\ key \in {"fresh", "spent"}
        /\ early \in [Host -> Version \cup {None}] /\ runtime \in [Host -> Version \cup {None}]
        /\ late \in [Host -> Version \cup {None}]
    BY DEF IInv, TypeOK, Operation
  <1>a. /\ \A S \in SUBSET op[c].running : S \in SUBSET Host
        /\ {"early", "firewall", "runtime", "late", "verdict"} \subseteq PC
    BY <1>0 DEF PC
  <1>1. CASE Guard(c)
    <2>1. PICK S \in SUBSET op[c].running :
            /\ \A h \in S : Guarded(h)
            /\ Becomes(c, [op[c] EXCEPT !.pc = "early", !.running = S])
      BY <1>1 DEF Guard
    <2> DEFINE r == [op[c] EXCEPT !.pc = "early", !.running = S]
    <2>2. r \in Operation /\ r.pc = "early" /\ r.running = S
      BY <1>0, <1>a DEF Operation, PC
    <2>3. \A h \in S : OverTailnet(h)
      BY <2>1 DEF Guarded
    <2>4. UNCHANGED <<hostVars, checkout>>
      BY <1>1 DEF Guard
    <2> HIDE DEF r
    <2> QED BY <1>0, <2>1, <2>2, <2>3, <2>4, QuietStep DEF r, checkout
  <1>2. CASE ConvergeEarly(c)
    <2>1. PICK S \in SUBSET op[c].running, torn \in SUBSET op[c].running :
            /\ early' = Written(early, S, torn)
            /\ Passes(c, "firewall", S, Changed(early, c, S))
      BY <1>2 DEF ConvergeEarly
    <2>2. PICK r \in Operation : Touching(c, r) /\ r.pc = "firewall" /\ r.running = S
      BY <1>0, <1>a, <2>1, ChangedIs, PassesOn
    <2>3. \A h \in S : OverTailnet(h)
      BY <1>2 DEF IInv, PastTheGuard, ConvergeEarly, At
    <2>4. UNCHANGED <<route, users, joined, open, runtime, late, checkout>>
      BY <1>2 DEF ConvergeEarly
    <2>5. early' \in [Host -> Version \cup {None}]
      BY <1>0, <2>1, WrittenIs
    <2> QED BY <1>0, <2>2, <2>3, <2>4, <2>5, TaskKeeps
  <1>3. CASE CloseFirewall(c)
    <2>1. PICK S \in SUBSET op[c].running :
            /\ open' = open \ S
            /\ Passes(c, "runtime", S, Shuts(c, S))
      BY <1>3 DEF CloseFirewall
    <2>2. PICK r \in Operation : Touching(c, r) /\ r.pc = "runtime" /\ r.running = S
      BY <1>0, <1>a, <2>1, ChangedIs, PassesOn
    <2>3. \A h \in S : OverTailnet(h)
      BY <1>3 DEF IInv, PastTheGuard, CloseFirewall, At
    <2>4. UNCHANGED <<route, users, joined, early, runtime, late, checkout>>
      BY <1>3 DEF CloseFirewall
    <2>5. \A h : OverTailnet(h)' <=> OverTailnet(h)
      BY <2>4 DEF OverTailnet
    <2>6. /\ op' \in [Console -> Operation] /\ AboutAHost' /\ Targeted'
          /\ PastTheGuard' /\ BehindTheFirewall'
      BY <2>1, <2>2, <2>5, OneStep
    <2>7. TypeOK'
      BY <1>0, <2>1, <2>4, <2>6 DEF TypeOK, checkout
    <2>8. NotLockedOut'
      BY <2>1, <2>3, <2>4 DEF IInv, NotLockedOut, OverTailnet
    <2> QED BY <2>6, <2>7, <2>8 DEF IInv
  <1>4. CASE InstallRuntime(c)
    <2>1. PICK S \in SUBSET op[c].running :
            /\ runtime' = Written(runtime, S, {})
            /\ Passes(c, "late", S, Changed(runtime, c, S))
      BY <1>4 DEF InstallRuntime
    <2>2. PICK r \in Operation : Touching(c, r) /\ r.pc = "late" /\ r.running = S
      BY <1>0, <1>a, <2>1, ChangedIs, PassesOn
    <2>3. S \cap open = {}
      BY <1>4 DEF IInv, BehindTheFirewall, InstallRuntime, At
    <2>4. UNCHANGED <<route, users, joined, open, early, late, checkout>>
      BY <1>4 DEF InstallRuntime
    <2>5. runtime' \in [Host -> Version \cup {None}]
      BY <1>0, <2>1, WrittenIs
    <2> QED BY <1>0, <2>2, <2>3, <2>4, <2>5, TaskKeeps
  <1>5. CASE ConvergeLate(c)
    <2>1. PICK S \in SUBSET op[c].running, torn \in SUBSET op[c].running :
            /\ late' = Written(late, S, torn)
            /\ Passes(c, "verdict", S, Changed(late, c, S))
      BY <1>5 DEF ConvergeLate
    <2>2. PICK r \in Operation : Touching(c, r) /\ r.pc = "verdict" /\ r.running = S
      BY <1>0, <1>a, <2>1, ChangedIs, PassesOn
    <2>3. S \cap open = {}
      BY <1>5 DEF IInv, BehindTheFirewall, ConvergeLate, At
    <2>4. UNCHANGED <<route, users, joined, open, early, runtime, checkout>>
      BY <1>5 DEF ConvergeLate
    <2>5. late' \in [Host -> Version \cup {None}]
      BY <1>0, <2>1, WrittenIs
    <2> QED BY <1>0, <2>2, <2>3, <2>4, <2>5, TaskKeeps
  <1> QED BY <1>1, <1>2, <1>3, <1>4, <1>5

(* What happens around the consoles only ever leads to the tailnet. *)
LEMMA Around ==
  ASSUME IInv, NewKey \/ \E h \in Host : CorrectInventory(h)
  PROVE  IInv'
  <1>1. /\ UNCHANGED <<users, joined, open, early, runtime, late, pin, collection, op>>
        /\ key' \in {"fresh", "spent"}
        /\ route' \in [Host -> {"tailnet", "public"}]
        /\ \A h \in Host : route[h] = "tailnet" => route'[h] = "tailnet"
    BY DEF NewKey, CorrectInventory, IInv, TypeOK, hostVars, checkout
  <1>2. TypeOK'
    BY <1>1 DEF IInv, TypeOK
  <1>3. AboutAHost' /\ Targeted' /\ BehindTheFirewall'
    BY <1>1 DEF IInv, AboutAHost, Targeted, BehindTheFirewall
  <1>4. PastTheGuard'
    BY <1>1 DEF IInv, PastTheGuard, OverTailnet, TypeOK, Operation
  <1>5. NotLockedOut'
    BY <1>1 DEF IInv, NotLockedOut
  <1> QED BY <1>2, <1>3, <1>4, <1>5 DEF IInv

LEMMA Stuttering == ASSUME IInv, UNCHANGED vars PROVE IInv'
  BY DEF vars, hostVars, checkout, IInv, TypeOK, AboutAHost, Targeted, PastTheGuard,
         BehindTheFirewall, OverTailnet, NotLockedOut

LEMMA Inductive == Spec => []IInv
  <1>1. IInv /\ [Next]_vars => IInv'
    <2> SUFFICES ASSUME IInv, [Next]_vars PROVE IInv'
      OBVIOUS
    <2>1. ASSUME NEW c \in Console, Step(c) PROVE IInv'
      BY <2>1, Reading, Updating, Opening, Converging DEF Step
    <2> QED BY <2>1, Around, Stuttering DEF Next
  <1> QED BY Initially, <1>1, PTL DEF Spec

-----------------------------------------------------------------------------
(* Theorems *)

(* The variables keep their types, however the consoles meet. *)
THEOREM TypeCorrect == Spec => []TypeOK
  BY Inductive, PTL DEF IInv

(* bootstrap.py and the access guard: the public door of a host is shut only when ops      *)
(* reaches it over the tailnet, at the address of the inventory, and that stays so.        *)
THEOREM NobodyLockedOut == Spec => []NotLockedOut
  BY Inductive, PTL DEF IInv

-----------------------------------------------------------------------------
(* Second part: what a console reports.  Its inductive invariant, beside IInv:             *)

(* What a console with record r that nobody interfered with can rely on, when e, m and l    *)
(* are what early, runtime and late say, p is the pin and k the collection.                 *)
Reliable(r, e, m, l, p, k) ==
  /\ r.pc \notin {"pin", "install"} /\ r.target # None => k = r.target
  /\ r.pc = "install" => p = r.target
  /\ r.pc \in {"firewall", "runtime", "late", "verdict"} => \A h \in r.running : e[h] = k
  /\ r.pc \in {"late", "verdict"} => \A h \in r.running : m[h] = k
  /\ r.pc = "verdict" => \A h \in r.running : l[h] = k
  /\ r.pc = "readiness" => \A h \in r.hosts : e[h] = k /\ m[h] = k /\ l[h] = k
  /\ r.pc \in {"target", "pin", "install", "choose"} =>
       ~r.ticked /\ \A h \in Host : r.seen[h] \in {None, m[h]}
  /\ r.pc = "choose" => r.target \in Version
  /\ r.ticked => r.target \in Version /\ \A h \in Host \ r.hosts : m[h] = r.target

Undisturbed ==
  \A c \in Console :
    op[c].alone /\ op[c].pc # "idle" => Reliable(op[c], early, runtime, late, pin, collection)

-----------------------------------------------------------------------------
(* Lemmas about records *)

(* A step keeps the others reliable: it disturbs them, or leaves what they rely on.         *)
LEMMA OthersStay ==
  ASSUME TypeOK, Undisturbed, NEW c \in Console, NEW r \in Operation,
         Touching(c, r) \/ (Becomes(c, r) /\ UNCHANGED <<early, runtime, late, pin, collection>>),
         r.alone /\ r.pc # "idle" => Reliable(r, early', runtime', late', pin', collection')
  PROVE  Undisturbed'
  <1>1. op \in [Console -> Operation]
    BY DEF TypeOK
  <1>2. op'[c] = r
    BY StepOfOne
  <1>3. ASSUME NEW d \in Console, op'[d].alone, op'[d].pc # "idle"
        PROVE  Reliable(op'[d], early', runtime', late', pin', collection')
    <2>1. CASE d = c
      BY <1>2, <1>3, <2>1
    <2>2. CASE d # c /\ Touching(c, r)
      <3>1. op'[d] = IF At(d, "idle") THEN op[d] ELSE [op[d] EXCEPT !.alone = FALSE]
        BY <2>2 DEF Touching
      <3>2. ~[op[d] EXCEPT !.alone = FALSE].alone
        BY <1>1 DEF Operation
      <3> QED BY <1>3, <3>1, <3>2 DEF At
    <2>3. CASE d # c /\ Becomes(c, r) /\ UNCHANGED <<early, runtime, late, pin, collection>>
      <3>1. op'[d] = op[d]
        BY <1>1, <2>3 DEF Becomes
      <3> QED BY <1>3, <2>3, <3>1 DEF Undisturbed
    <2> QED BY <2>1, <2>2, <2>3
  <1> QED BY <1>3 DEF Undisturbed

(* On the way to its passes a bootstrap has no target, and a pass relies on the target and  *)
(* the choice of hosts only.                                                               *)
Bootstrapping == {"probe", "handover", "users", "join", "preflight"}

LEMMA GoesOn ==
  ASSUME NEW q \in Operation, NEW r \in Operation, NEW e, NEW m, NEW l, NEW p, NEW k,
         Reliable(q, e, m, l, p, k), q.pc \notin {"pin", "install"},
         r.pc \in Bootstrapping \cup {"guard", "early"},
         r.target = q.target, r.ticked = q.ticked, r.hosts = q.hosts
  PROVE  Reliable(r, e, m, l, p, k)
  BY DEF Reliable, Bootstrapping

LEMMA Begins ==
  ASSUME NEW r \in Operation, NEW e, NEW m, NEW l, NEW p, NEW k,
         r.pc \in Bootstrapping \cup {"guard"}, r.target = None, ~r.ticked
  PROVE  Reliable(r, e, m, l, p, k)
  BY DEF Reliable, Bootstrapping

-----------------------------------------------------------------------------
(* The steps *)

LEMMA BootstrapReliable ==
  ASSUME IInv, Undisturbed, NEW c \in Console,
         \/ BeginBootstrap(c) \/ AlreadyJoined(c) \/ StartBootstrap(c) \/ CreateUsers(c)
         \/ JoinTailnet(c) \/ ProveHandover(c) \/ Preflight(c) \/ BeginConverge(c)
  PROVE  Undisturbed'
  <1>0. op[c] \in Operation /\ TypeOK
    BY DEF IInv, TypeOK
  <1>1. CASE BeginBootstrap(c)
    <2>1. PICK h \in Host : Becomes(c, [Idle EXCEPT !.pc = "probe", !.hosts = {h}])
      BY <1>1 DEF BeginBootstrap
    <2> DEFINE r == [Idle EXCEPT !.pc = "probe", !.hosts = {h}]
    <2>2. r \in Operation /\ r.pc = "probe" /\ r.target = None /\ ~r.ticked
      BY IdleIsOperation DEF Operation, PC, Idle
    <2>3. Becomes(c, r) /\ UNCHANGED <<early, runtime, late, pin, collection>>
      BY <1>1, <2>1 DEF BeginBootstrap, hostVars, checkout
    <2> HIDE DEF r
    <2>4. Reliable(r, early', runtime', late', pin', collection')
      BY <2>2, Begins DEF Bootstrapping
    <2> QED BY <1>0, <2>2, <2>3, <2>4, OthersStay
  <1>2. CASE BeginConverge(c)
    <2>1. PICK h \in Host : Becomes(c, Pass([Idle EXCEPT !.hosts = {h}], 1))
      BY <1>2 DEF BeginConverge
    <2> DEFINE r == Pass([Idle EXCEPT !.hosts = {h}], 1)
    <2>2. [Idle EXCEPT !.hosts = {h}] \in Operation
      BY IdleIsOperation DEF Operation
    <2>3. r \in Operation
      BY <2>2, StaysOperation
    <2>4. r.pc = "guard" /\ r.target = None /\ ~r.ticked
      BY <2>2 DEF Pass, Operation, Idle
    <2>5. Becomes(c, r) /\ UNCHANGED <<early, runtime, late, pin, collection>>
      BY <1>2, <2>1 DEF BeginConverge, hostVars, checkout
    <2> HIDE DEF r
    <2>6. Reliable(r, early', runtime', late', pin', collection')
      BY <2>3, <2>4, Begins
    <2> QED BY <1>0, <2>3, <2>5, <2>6, OthersStay
  <1>3. CASE ~BeginBootstrap(c) /\ ~BeginConverge(c)
    <2>1. /\ op[c].pc \in Bootstrapping
          /\ UNCHANGED <<early, runtime, late, pin, collection>>
      BY <1>3 DEF AlreadyJoined, StartBootstrap, CreateUsers, JoinTailnet, ProveHandover,
                  Preflight, At, Bootstrapping, hostVars, checkout
    <2>2. \/ Becomes(c, Pass(op[c], 1))
          \/ \E pc \in Bootstrapping : \/ Becomes(c, [op[c] EXCEPT !.pc = pc])
                                       \/ Touching(c, [op[c] EXCEPT !.pc = pc])
      BY <1>3 DEF AlreadyJoined, StartBootstrap, CreateUsers, JoinTailnet, ProveHandover,
                  Preflight, Goto, Bootstrapping
    <2>3. PICK r \in {Pass(op[c], 1)} \cup {[op[c] EXCEPT !.pc = pc] : pc \in Bootstrapping} :
            Becomes(c, r) \/ Touching(c, r)
      BY <2>2
    <2>4. /\ r \in Operation /\ r.pc \in Bootstrapping \cup {"guard"}
          /\ r.target = op[c].target /\ r.ticked = op[c].ticked /\ r.hosts = op[c].hosts
          /\ r.alone = op[c].alone
      <3>1. CASE r = Pass(op[c], 1)
        BY <1>0, <3>1, StaysOperation DEF Pass, Operation
      <3>2. CASE \E pc \in Bootstrapping : r = [op[c] EXCEPT !.pc = pc]
        <4>1. PICK pc \in Bootstrapping : r = [op[c] EXCEPT !.pc = pc]
          BY <3>2
        <4>2. pc \in PC
          BY DEF Bootstrapping, PC
        <4> QED BY <1>0, <4>1, <4>2, StaysOperation DEF Operation
      <3> QED BY <3>1, <3>2
    <2>5. ASSUME r.alone PROVE Reliable(r, early, runtime, late, pin, collection)
      <3>1. Reliable(op[c], early, runtime, late, pin, collection)
        BY <2>1, <2>4, <2>5 DEF Undisturbed, Bootstrapping
      <3>2. op[c].pc \notin {"pin", "install"}
        BY <2>1 DEF Bootstrapping
      <3> QED BY <1>0, <2>4, <3>1, <3>2, GoesOn
    <2> QED BY <1>0, <2>1, <2>3, <2>4, <2>5, OthersStay
  <1> QED BY <1>1, <1>2, <1>3

LEMMA PassReliable ==
  ASSUME IInv, Undisturbed, NEW c \in Console,
         \/ Guard(c) \/ ConvergeEarly(c) \/ CloseFirewall(c) \/ InstallRuntime(c)
         \/ ConvergeLate(c) \/ Verdict(c)
  PROVE  Undisturbed'
  <1>0. /\ op[c] \in Operation /\ TypeOK /\ op[c].running \subseteq Host
        /\ \A S \in SUBSET op[c].running : S \in SUBSET Host
        /\ {"firewall", "runtime", "late", "verdict"} \subseteq PC
    BY DEF IInv, TypeOK, Operation, PC
  <1>1. op[c].alone /\ op[c].pc # "idle" => Reliable(op[c], early, runtime, late, pin, collection)
    BY DEF Undisturbed
  <1>2. CASE Guard(c)
    <2>1. PICK S \in SUBSET op[c].running : Becomes(c, [op[c] EXCEPT !.pc = "early", !.running = S])
      BY <1>2 DEF Guard
    <2> DEFINE r == [op[c] EXCEPT !.pc = "early", !.running = S]
    <2>2. /\ r \in Operation /\ r.pc = "early" /\ r.alone = op[c].alone
          /\ r.target = op[c].target /\ r.ticked = op[c].ticked /\ r.hosts = op[c].hosts
      BY <1>0 DEF Operation, PC
    <2>3. op[c].pc = "guard" /\ Becomes(c, r) /\ UNCHANGED <<early, runtime, late, pin, collection>>
      BY <1>2, <2>1 DEF Guard, At, hostVars, checkout
    <2> HIDE DEF r
    <2>4. r.alone => Reliable(r, early, runtime, late, pin, collection)
      BY <1>0, <1>1, <2>2, <2>3, GoesOn
    <2> QED BY <1>0, <2>2, <2>3, <2>4, OthersStay
  <1>3. CASE ConvergeEarly(c)
    <2>1. PICK S \in SUBSET op[c].running, torn \in SUBSET op[c].running :
            /\ early' = Written(early, S, torn)
            /\ Passes(c, "firewall", S, Changed(early, c, S))
      BY <1>3 DEF ConvergeEarly
    <2>2. PICK r \in Operation :
            /\ Touching(c, r) /\ r.pc = "firewall" /\ r.running = S /\ r.hosts = op[c].hosts
            /\ r.target = op[c].target /\ r.ticked = op[c].ticked /\ r.alone = op[c].alone
      BY <1>0, <2>1, ChangedIs, PassesOn
    <2>3. op[c].pc = "early" /\ UNCHANGED <<runtime, late, pin, collection>>
      BY <1>3 DEF ConvergeEarly, At, checkout
    <2>4. \A h \in S : early'[h] = collection
      BY <1>0, <2>1, WrittenIs DEF TypeOK
    <2>5. r.alone => Reliable(r, early', runtime', late', pin', collection')
      BY <1>1, <2>2, <2>3, <2>4 DEF Reliable
    <2> QED BY <1>0, <2>2, <2>5, OthersStay
  <1>4. CASE CloseFirewall(c)
    <2>1. PICK S \in SUBSET op[c].running :
            Passes(c, "runtime", S, Shuts(c, S))
      BY <1>4 DEF CloseFirewall
    <2>2. PICK r \in Operation :
            /\ Touching(c, r) /\ r.pc = "runtime" /\ r.running = S /\ r.hosts = op[c].hosts
            /\ r.target = op[c].target /\ r.ticked = op[c].ticked /\ r.alone = op[c].alone
      BY <1>0, <2>1, ChangedIs, PassesOn
    <2>3. op[c].pc = "firewall" /\ UNCHANGED <<early, runtime, late, pin, collection>>
      BY <1>4 DEF CloseFirewall, At, checkout
    <2>4. r.alone => Reliable(r, early', runtime', late', pin', collection')
      BY <1>1, <2>2, <2>3 DEF Reliable
    <2> QED BY <1>0, <2>2, <2>4, OthersStay
  <1>5. CASE InstallRuntime(c)
    <2>1. PICK S \in SUBSET op[c].running :
            /\ runtime' = Written(runtime, S, {})
            /\ Passes(c, "late", S, Changed(runtime, c, S))
      BY <1>5 DEF InstallRuntime
    <2>2. PICK r \in Operation :
            /\ Touching(c, r) /\ r.pc = "late" /\ r.running = S /\ r.hosts = op[c].hosts
            /\ r.target = op[c].target /\ r.ticked = op[c].ticked /\ r.alone = op[c].alone
      BY <1>0, <2>1, ChangedIs, PassesOn
    <2>3. op[c].pc = "runtime" /\ UNCHANGED <<early, late, pin, collection>>
      BY <1>5 DEF InstallRuntime, At, checkout
    <2>4. /\ \A h \in S : runtime'[h] = collection
          /\ \A h \in Host \ S : runtime'[h] = runtime[h]
      BY <1>0, <2>1, WrittenIs DEF TypeOK
    <2>5. ASSUME r.alone PROVE Reliable(r, early', runtime', late', pin', collection')
      <3>1. Reliable(op[c], early, runtime, late, pin, collection)
        BY <1>1, <2>2, <2>3, <2>5
      <3>2. /\ r.target # None => collection = r.target
            /\ \A h \in S : early[h] = collection
            /\ r.ticked => r.target \in Version /\ \A h \in Host \ r.hosts : runtime[h] = r.target
        BY <2>2, <2>3, <3>1 DEF Reliable
      <3>3. r.ticked => \A h \in Host \ r.hosts : runtime'[h] = r.target
        BY <2>4, <3>2, FleetAssumption
      <3> QED BY <2>2, <2>3, <2>4, <3>2, <3>3 DEF Reliable
    <2> QED BY <1>0, <2>2, <2>5, OthersStay
  <1>6. CASE ConvergeLate(c)
    <2>1. PICK S \in SUBSET op[c].running, torn \in SUBSET op[c].running :
            /\ late' = Written(late, S, torn)
            /\ Passes(c, "verdict", S, Changed(late, c, S))
      BY <1>6 DEF ConvergeLate
    <2>2. PICK r \in Operation :
            /\ Touching(c, r) /\ r.pc = "verdict" /\ r.running = S /\ r.hosts = op[c].hosts
            /\ r.target = op[c].target /\ r.ticked = op[c].ticked /\ r.alone = op[c].alone
      BY <1>0, <2>1, ChangedIs, PassesOn
    <2>3. op[c].pc = "late" /\ UNCHANGED <<early, runtime, pin, collection>>
      BY <1>6 DEF ConvergeLate, At, checkout
    <2>4. \A h \in S : late'[h] = collection
      BY <1>0, <2>1, WrittenIs DEF TypeOK
    <2>5. r.alone => Reliable(r, early', runtime', late', pin', collection')
      BY <1>1, <2>2, <2>3, <2>4 DEF Reliable
    <2> QED BY <1>0, <2>2, <2>5, OthersStay
  <1>7. CASE Verdict(c) /\ ~Clean(c)
    <2>1. Becomes(c, Idle) /\ UNCHANGED <<early, runtime, late, pin, collection>> /\ Idle.pc = "idle"
      BY <1>7 DEF Verdict, Leave, hostVars, checkout, Idle
    <2> QED BY <1>0, <2>1, IdleIsOperation, OthersStay
  <1>8. CASE Verdict(c) /\ Clean(c) /\ op[c].pass = 1
    <2> DEFINE r == Pass(op[c], 2)
    <2>1. /\ r \in Operation /\ r.pc = "guard" /\ r.alone = op[c].alone
          /\ r.target = op[c].target /\ r.ticked = op[c].ticked /\ r.hosts = op[c].hosts
      BY <1>0, StaysOperation DEF Pass, Operation
    <2>2. op[c].pc = "verdict" /\ Becomes(c, r) /\ UNCHANGED <<early, runtime, late, pin, collection>>
      BY <1>8 DEF Verdict, At, hostVars, checkout
    <2> HIDE DEF r
    <2>3. r.alone => Reliable(r, early, runtime, late, pin, collection)
      BY <1>0, <1>1, <2>1, <2>2, GoesOn
    <2> QED BY <1>0, <2>1, <2>2, <2>3, OthersStay
  <1>9. CASE Verdict(c) /\ Clean(c) /\ op[c].pass # 1
    <2> DEFINE r == [op[c] EXCEPT !.pc = "readiness"]
    <2>1. /\ r \in Operation /\ r.pc = "readiness" /\ r.alone = op[c].alone
          /\ r.target = op[c].target /\ r.ticked = op[c].ticked /\ r.hosts = op[c].hosts
      BY <1>0 DEF Operation, PC
    <2>2. /\ op[c].pc = "verdict" /\ op[c].running = op[c].hosts
          /\ Becomes(c, r) /\ UNCHANGED <<early, runtime, late, pin, collection>>
      BY <1>9 DEF Verdict, Clean, Goto, At, hostVars, checkout
    <2> HIDE DEF r
    <2>3. r.alone => Reliable(r, early, runtime, late, pin, collection)
      BY <1>1, <2>1, <2>2 DEF Reliable
    <2> QED BY <1>0, <2>1, <2>2, <2>3, OthersStay
  <1> QED BY <1>2, <1>3, <1>4, <1>5, <1>6, <1>7, <1>8, <1>9

LEMMA UpdateReliable ==
  ASSUME IInv, Undisturbed, NEW c \in Console,
         \/ BeginUpdate(c) \/ ChooseTarget(c) \/ RewritePin(c) \/ InstallCollection(c)
         \/ ChooseHosts(c)
  PROVE  Undisturbed'
  <1>0. op[c] \in Operation /\ TypeOK
    BY DEF IInv, TypeOK
  <1>1. op[c].alone /\ op[c].pc # "idle" => Reliable(op[c], early, runtime, late, pin, collection)
    BY DEF Undisturbed
  <1>2. CASE BeginUpdate(c)
    <2>1. PICK answered \in SUBSET {h \in Host : Reaches(h)} :
            Becomes(c, [Idle EXCEPT !.pc = "target", !.hosts = {},
                          !.seen = [h \in Host |-> IF h \in answered THEN runtime[h] ELSE None]])
      BY <1>2 DEF BeginUpdate
    <2> DEFINE seen == [h \in Host |-> IF h \in answered THEN runtime[h] ELSE None]
               r == [Idle EXCEPT !.pc = "target", !.hosts = {}, !.seen = seen]
    <2>2. seen \in [Host -> Version \cup {None}] /\ \A h \in Host : seen[h] \in {None, runtime[h]}
      BY <1>0 DEF TypeOK
    <2>3. Becomes(c, r) /\ UNCHANGED <<early, runtime, late, pin, collection>>
      BY <1>2, <2>1 DEF BeginUpdate, hostVars, checkout
    <2> HIDE DEF seen
    <2>4. r \in Operation /\ r.pc = "target" /\ r.target = None /\ ~r.ticked /\ r.seen = seen
      BY <2>2, IdleIsOperation DEF Operation, PC, Idle
    <2> HIDE DEF r
    <2>5. Reliable(r, early, runtime, late, pin, collection)
      BY <2>2, <2>4 DEF Reliable
    <2> QED BY <1>0, <2>3, <2>4, <2>5, OthersStay
  <1>3. CASE ChooseTarget(c)
    <2>1. PICK v \in Version :
            Becomes(c, [op[c] EXCEPT !.pc = IF v = pin THEN "install" ELSE "pin", !.target = v])
      BY <1>3 DEF ChooseTarget
    <2> DEFINE r == [op[c] EXCEPT !.pc = IF v = pin THEN "install" ELSE "pin", !.target = v]
    <2>2. /\ r \in Operation /\ r.pc = (IF v = pin THEN "install" ELSE "pin") /\ r.target = v
          /\ r.alone = op[c].alone /\ r.ticked = op[c].ticked /\ r.seen = op[c].seen
      BY <1>0 DEF Operation, PC
    <2>3. op[c].pc = "target" /\ Becomes(c, r) /\ UNCHANGED <<early, runtime, late, pin, collection>>
      BY <1>3, <2>1 DEF ChooseTarget, At, hostVars, checkout
    <2> HIDE DEF r
    <2>4. r.alone => Reliable(r, early, runtime, late, pin, collection)
      BY <1>1, <2>2, <2>3 DEF Reliable
    <2> QED BY <1>0, <2>2, <2>3, <2>4, OthersStay
  <1>4. CASE RewritePin(c)
    <2> DEFINE r == [op[c] EXCEPT !.pc = "install"]
    <2>1. /\ r \in Operation /\ r.pc = "install" /\ r.target = op[c].target
          /\ r.alone = op[c].alone /\ r.ticked = op[c].ticked /\ r.seen = op[c].seen
      BY <1>0 DEF Operation, PC
    <2>2. /\ op[c].pc = "pin" /\ pin' = op[c].target /\ Touching(c, r)
          /\ UNCHANGED <<early, runtime, late, collection>>
      BY <1>4 DEF RewritePin, At, hostVars
    <2> HIDE DEF r
    <2>3. r.alone => Reliable(r, early', runtime', late', pin', collection')
      BY <1>1, <2>1, <2>2 DEF Reliable
    <2> QED BY <1>0, <2>1, <2>2, <2>3, OthersStay
  <1>5. CASE InstallCollection(c)
    <2> DEFINE r == [op[c] EXCEPT !.pc = "choose"]
    <2>1. /\ r \in Operation /\ r.pc = "choose" /\ r.target = op[c].target
          /\ r.alone = op[c].alone /\ r.ticked = op[c].ticked /\ r.seen = op[c].seen
      BY <1>0 DEF Operation, PC
    <2>2. /\ op[c].pc = "install" /\ collection' \in {pin, op[c].target} /\ Touching(c, r)
          /\ UNCHANGED <<early, runtime, late, pin>>
      BY <1>5 DEF InstallCollection, At, hostVars
    <2>3. op[c].target \in Version
      BY <2>2 DEF IInv, Targeted
    <2> HIDE DEF r
    <2>4. r.alone => Reliable(r, early', runtime', late', pin', collection')
      BY <1>1, <2>1, <2>2, <2>3 DEF Reliable
    <2> QED BY <1>0, <2>1, <2>2, <2>4, OthersStay
  <1>6. CASE ChooseHosts(c)
    <2>1. PICK S \in SUBSET Host :
            Becomes(c, Pass([op[c] EXCEPT !.hosts = S, !.seen = Idle.seen,
                                          !.ticked = (S = Preselected(c))], 1))
      BY <1>6 DEF ChooseHosts
    <2> DEFINE q == [op[c] EXCEPT !.hosts = S, !.seen = Idle.seen,
                                  !.ticked = (S = Preselected(c))]
               r == Pass(q, 1)
    <2>2. Idle.seen \in [Host -> Version \cup {None}] /\ (S = Preselected(c)) \in BOOLEAN
      BY IdleIsOperation DEF Operation
    <2>3. /\ q \in Operation /\ q.hosts = S /\ q.ticked = (S = Preselected(c))
          /\ q.target = op[c].target /\ q.alone = op[c].alone
      BY <1>0, <2>2 DEF Operation
    <2>4. op[c].pc = "choose" /\ Becomes(c, r) /\ UNCHANGED <<early, runtime, late, pin, collection>>
      BY <1>6, <2>1 DEF ChooseHosts, At, hostVars, checkout
    <2> HIDE DEF q
    <2>5. /\ r \in Operation /\ r.pc = "guard" /\ r.hosts = q.hosts /\ r.ticked = q.ticked
          /\ r.target = q.target /\ r.alone = q.alone
      BY <2>3, StaysOperation DEF Pass, Operation
    <2> HIDE DEF r
    <2>6. ASSUME r.alone PROVE Reliable(r, early, runtime, late, pin, collection)
      <3>1. /\ op[c].target \in Version /\ op[c].target # None /\ collection = op[c].target
            /\ \A h \in Host : op[c].seen[h] \in {None, runtime[h]}
        BY <1>1, <2>3, <2>4, <2>5, <2>6, FleetAssumption DEF Reliable
      <3>2. ASSUME S = Preselected(c), NEW h \in Host \ S PROVE runtime[h] = op[c].target
        <4>1. op[c].seen[h] = op[c].target
          BY <3>2 DEF Preselected
        <4> QED BY <3>1, <4>1
      <3> QED BY <2>3, <2>5, <3>1, <3>2 DEF Reliable
    <2> QED BY <1>0, <2>4, <2>5, <2>6, OthersStay
  <1> QED BY <1>2, <1>3, <1>4, <1>5, <1>6

LEMMA UndisturbedInductive == Spec => []Undisturbed
  <1>1. Init => Undisturbed
    BY DEF Init, Undisturbed, Idle
  <1>2. IInv /\ Undisturbed /\ [Next]_vars => Undisturbed'
    <2> SUFFICES ASSUME IInv, Undisturbed, [Next]_vars PROVE Undisturbed'
      OBVIOUS
    <2>1. ASSUME NEW c \in Console, Step(c) PROVE Undisturbed'
      <3>1. CASE JoinFails(c) \/ Report(c) \/ Stop(c)
        <4>1. Becomes(c, Idle) /\ UNCHANGED <<early, runtime, late, pin, collection>> /\ Idle.pc = "idle"
          BY <3>1 DEF JoinFails, Report, Stop, Leave, hostVars, checkout, Idle
        <4> QED BY <4>1, IdleIsOperation, OthersStay DEF IInv
      <3> QED BY <2>1, <3>1, BootstrapReliable, PassReliable, UpdateReliable DEF Step
    <2>2. CASE \/ NewKey \/ \E h \in Host : CorrectInventory(h)
               \/ UNCHANGED vars
      <3>1. UNCHANGED <<early, runtime, late, pin, collection, op>>
        BY <2>2 DEF NewKey, CorrectInventory, vars, hostVars, checkout
      <3> QED BY <3>1 DEF Undisturbed
    <2> QED BY <2>1, <2>2 DEF Next
  <1> QED BY <1>1, <1>2, Inductive, PTL DEF Spec

(* converge.py: a console nobody interfered with reports success only for hosts on which    *)
(* all the roles of one version are in place, its collection's, which is the update's.      *)
THEOREM ReportsConverged == Spec => CleanMeansConverged
  <1>1. IInv /\ Undisturbed /\ [Next]_vars =>
          [\A c \in Console : Report(c) /\ op[c].alone =>
             \A h \in op[c].hosts :
               /\ h \notin open
               /\ {early[h], runtime[h], late[h]} = {collection}
               /\ op[c].target # None => collection = op[c].target]_vars
    BY DEF IInv, BehindTheFirewall, Undisturbed, Reliable, Report, At
  <1> QED BY <1>1, Inductive, UndisturbedInductive, PTL DEF Spec, CleanMeansConverged

(* core_update.py: who takes the hosts the console ticked leaves the target's runtime on    *)
(* every host, also on those that did not answer.                                          *)
THEOREM UpdatesEveryHost == Spec => NoneLeftBehind
  <1>1. Undisturbed /\ [Next]_vars =>
          [\A c \in Console : Report(c) /\ op[c].alone /\ op[c].ticked =>
             \A h \in Host : runtime[h] = op[c].target]_vars
    <2> SUFFICES ASSUME Undisturbed, NEW c \in Console, Report(c), op[c].alone, op[c].ticked,
                        NEW h \in Host
                 PROVE  runtime[h] = op[c].target
      OBVIOUS
    <2>1. op[c].pc = "readiness" /\ Reliable(op[c], early, runtime, late, pin, collection)
      BY DEF Undisturbed, Report, At
    <2>2. op[c].target \in Version /\ op[c].target # None
      BY <2>1, FleetAssumption DEF Reliable
    <2>3. CASE h \in op[c].hosts
      BY <2>1, <2>2, <2>3 DEF Reliable
    <2>4. CASE h \notin op[c].hosts
      BY <2>1, <2>4 DEF Reliable
    <2> QED BY <2>3, <2>4
  <1> QED BY <1>1, UndisturbedInductive, PTL DEF Spec, NoneLeftBehind

=============================================================================
