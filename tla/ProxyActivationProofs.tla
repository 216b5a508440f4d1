----------------------- MODULE ProxyActivationProofs -----------------------
(***************************************************************************)
(* Theorems about ProxyActivation, for any number of scopes, domains,      *)
(* releases and containers: type correctness, that a domain has one owner  *)
(* whose fragment is on disk, that what is on disk passes nginx -t, that   *)
(* the pending marker goes only when nginx runs with it, and that the      *)
(* transactions are the switches of DomainSwitch.                          *)
(***************************************************************************)
EXTENDS ProxyActivation, TLAPS

-----------------------------------------------------------------------------
(* The inductive invariant *)

(* Past prepare a command has the lock; before it has only stopped containers. *)
Active(s) == op[s].pc \notin {"idle", "wait"}

(* The lock has one holder, and the reconciler works only while nothing is pending. *)
Exclusive ==
  /\ \A s \in Scope : Active(s) => lock = s
  /\ rec.pc # "idle" => lock = Reconciler /\ ~pending

(* What runs is a release, at an address: docker-gen has something to render. *)
Placed == \A s \in Scope : app[s].up => app[s].rel \in Release /\ app[s].addr \in Addr

Disjoint(own) == \A s, t \in Scope : s # t => own[s] \cap own[t] = {}

(* The fragments v are those of the hosts owned, each its owner's, none rejected. *)
Matches(v, own) ==
  /\ \A h \in Host : v[h] = None => \A s \in Scope : h \notin own[s]
  /\ \A h \in Host : v[h] # None => h \in own[ScopeOf[v[h]]]
  /\ \A h \in Host : v[h] \notin Rejected

(* The ownership records as the transaction of s found them. *)
Found(s) == [owner EXCEPT ![s] = op[s].owner]

(* What the plan was checked against when the transaction was prepared. *)
Prepared(s) ==
  /\ Disjoint(Found(s)) /\ Matches(op[s].vhost, Found(s))
  /\ \A t \in Scope \ {s} : Plan(s) \cap owner[t] = {}
  /\ op[s].rel # None => ScopeOf[op[s].rel] = s

(* How far it has come with the files: those of its own hosts only, and all of them    *)
(* either as planned or as found, according to the step it is at.                      *)
Progress(s) ==
  /\ owner[s] = IF op[s].pc \in {"reload", "commit", "release"} THEN Plan(s) ELSE op[s].owner
  /\ \A h \in Host \ (Plan(s) \cup op[s].owner) : vhost[h] = op[s].vhost[h]
  /\ op[s].pc \in {"render", "test", "own", "reload", "commit", "release"} =>
       \A h \in Host : vhost[h] = Planned(s, h)
  /\ op[s].pc \in {"stage", "rerender", "retest", "rereload", "settle"} => vhost = op[s].vhost
  /\ op[s].pc = "test" => Plan(s) \subseteq ServerNames(conf)
  /\ op[s].pc \in {"own", "reload", "commit", "release"} => \A h \in Plan(s) : op[s].rel \notin Rejected

(* The marker is there from stage() on, and nginx runs with the files before it goes. *)
Marked(s) ==
  /\ op[s].pc = "stage" <=> ~pending
  /\ op[s].pc = "start" => op[s].rel # None
  /\ op[s].pc \in {"commit", "release", "settle"} => loaded.conf = conf /\ loaded.vhost = vhost

Own(s) == Active(s) => Prepared(s) /\ Progress(s) /\ Marked(s)

Settled == Disjoint(owner) /\ (~pending => Matches(vhost, owner))

IInv == TypeOK /\ Exclusive /\ Placed /\ Settled /\ \A s \in Scope : Own(s)

-----------------------------------------------------------------------------
(* Lemmas about the helpers *)

LEMMA InitInv == Init => IInv
  <1> SUFFICES ASSUME Init PROVE IInv
    OBVIOUS
  <1> USE ProxyAssumption DEF Init
  <1>1. Idle \in Operation /\ Empty \in Fragments /\ Blank \in Config /\ Down \in Containers
    BY DEF Idle, Operation, PC, Fragments, Config, Empty, Blank, Containers, Down
  <1>2. Resting \in Reconciling
    BY <1>1 DEF Resting, Reconciling, RecPC
  <1>3. TypeOK
    <2>1. [conf |-> Blank, vhost |-> Empty, cert |-> 0] \in Nginx
      BY <1>1 DEF Nginx
    <2>2. [conf |-> Blank, cert |-> -1] \in [conf : Config, cert : -1..MaxRenewals]
      BY <1>1
    <2>3. /\ app \in [Scope -> Containers] /\ vhost \in Fragments /\ conf \in Config
          /\ op \in [Scope -> Operation] /\ rec \in Reconciling
      BY <1>1, <1>2
    <2>4. /\ current \in [Scope -> Release \cup {None}] /\ owner \in [Scope -> SUBSET Host]
          /\ pending \in BOOLEAN /\ lock \in Scope \cup {Reconciler, None}
          /\ unfinished \subseteq Scope
      OBVIOUS
    <2>5. cert \in 0..MaxRenewals /\ changes \in 0..MaxChanges
      OBVIOUS
    <2> QED BY <2>1, <2>2, <2>3, <2>4, <2>5 DEF TypeOK
  <1>4. \A s \in Scope : ~Active(s)
    BY DEF Active, Idle
  <1>5. Exclusive /\ Placed /\ \A s \in Scope : Own(s)
    BY <1>4 DEF Exclusive, Placed, Own, Resting, Down
  <1>6. Disjoint(owner)
    BY DEF Disjoint
  <1>7. Matches(vhost, owner)
    BY DEF Matches, Empty
  <1> QED BY <1>3, <1>5, <1>6, <1>7 DEF IInv, Settled

(* docker-gen renders a configuration, and what is on disk is something to load. *)
LEMMA RenderingIsConfig ==
  ASSUME TypeOK, Placed
  PROVE  Rendering \in Config /\ OnDisk \in Nginx
  <1>1. OnDisk \in Nginx
    BY DEF OnDisk, Nginx, TypeOK
  <1>2. \A s \in Scope : app[s].up => <<app[s].rel, app[s].addr>> \in Upstream
    BY DEF Placed, Upstream
  <1>3. Rendering \in Config
    BY <1>2 DEF Rendering, Config
  <1> QED BY <1>1, <1>3

(* Whatever containers scope s starts, they are a release's and have an address. *)
LEMMA StartedIsPlaced ==
  ASSUME TypeOK, Placed, NEW s \in Scope, NEW r \in Release, NEW up \in BOOLEAN,
         NEW a \in Started(s, r, up)
  PROVE  /\ a \in [Scope -> Containers]
         /\ \A t \in Scope : a[t].up => a[t].rel \in Release /\ a[t].addr \in Addr
  <1>1. PICK addr \in Addr : a = [app EXCEPT ![s] = [rel |-> r, addr |-> addr, up |-> up]]
    BY DEF Started
  <1>2. [rel |-> r, addr |-> addr, up |-> up] \in Containers
    BY DEF Containers
  <1>3. app \in [Scope -> Containers]
    BY DEF TypeOK
  <1>4. a \in [Scope -> Containers]
    BY <1>1, <1>2, <1>3
  <1>5. \A t \in Scope : a[t].up => a[t].rel \in Release /\ a[t].addr \in Addr
    BY <1>1, <1>3 DEF Placed
  <1> QED BY <1>4, <1>5

LEMMA DownIsPlaced ==
  ASSUME TypeOK, Placed, NEW s \in Scope
  PROVE  /\ [app EXCEPT ![s] = Down] \in [Scope -> Containers]
         /\ \A t \in Scope : [app EXCEPT ![s] = Down][t].up =>
              /\ [app EXCEPT ![s] = Down][t].rel \in Release
              /\ [app EXCEPT ![s] = Down][t].addr \in Addr
  <1>1. app \in [Scope -> Containers] /\ Down \in Containers
    BY DEF TypeOK, Containers, Down
  <1> QED BY <1>1 DEF Placed, Down

(* Beside an active command nobody else is at work. *)
LEMMA Alone ==
  ASSUME IInv, NEW s \in Scope, Active(s)
  PROVE  lock = s /\ rec.pc = "idle" /\ \A t \in Scope \ {s} : ~Active(t)
  BY ProxyAssumption DEF IInv, Exclusive

(* Who does nothing himself is not disturbed by a step that leaves the proxy alone. *)
LEMMA Undisturbed ==
  ASSUME IInv, NEW t \in Scope, op'[t] = op[t],
         UNCHANGED <<vhost, owner, conf, loaded, pending>>
  PROVE  Own(t)'
  <1>1. Own(t)
    BY DEF IInv
  <1> QED
    BY <1>1 DEF Own, Active, Prepared, Progress, Marked, Disjoint, Matches, Found, Plan, Planned,
                ServerNames

(* A command that goes on with its transaction: what it relies on of the other scopes   *)
(* stays, and they have nothing to rely on.                                             *)
LEMMA GoesOn ==
  ASSUME IInv, NEW s \in Scope, Active(s), NEW pc \in PC \ {"idle", "wait"}, Goto(s, pc),
         UNCHANGED <<lock, recVars>>, owner' \in [Scope -> SUBSET Host],
         \A t \in Scope \ {s} : owner'[t] = owner[t]
  PROVE  /\ op' \in [Scope -> Operation]
         /\ op'[s].pc = pc /\ op'[s].rel = op[s].rel /\ op'[s].vhost = op[s].vhost
         /\ op'[s].owner = op[s].owner /\ op'[s].conf = op[s].conf
         /\ Plan(s)' = Plan(s)
         /\ Active(s)' /\ Exclusive' /\ Prepared(s)'
         /\ \A t \in Scope \ {s} : Own(t)'
  <1>1. op \in [Scope -> Operation] /\ owner \in [Scope -> SUBSET Host]
    BY DEF IInv, TypeOK
  <1>2. op' = [op EXCEPT ![s].pc = pc]
    BY DEF Goto
  <1>3. /\ op' \in [Scope -> Operation] /\ op'[s].pc = pc
        /\ op'[s].rel = op[s].rel /\ op'[s].vhost = op[s].vhost
        /\ op'[s].owner = op[s].owner /\ op'[s].conf = op[s].conf
        /\ \A t \in Scope \ {s} : op'[t] = op[t]
    BY <1>1, <1>2 DEF Operation
  <1>4. lock = s /\ rec.pc = "idle" /\ \A t \in Scope \ {s} : ~Active(t)
    BY Alone
  <1>5. Active(s)' /\ \A t \in Scope \ {s} : ~Active(t)'
    BY <1>3, <1>4 DEF Active
  <1>6. Exclusive' /\ \A t \in Scope \ {s} : Own(t)'
    BY <1>4, <1>5 DEF Exclusive, Own, recVars
  <1>7. Plan(s)' = Plan(s)
    BY <1>3 DEF Plan
  <1>8. Found(s)' = Found(s)
    BY <1>1, <1>3 DEF Found
  <1>9. Prepared(s)
    BY DEF IInv, Own
  <1>10. Prepared(s)'
    BY <1>3, <1>7, <1>8, <1>9 DEF Prepared, Disjoint, Matches
  <1> QED BY <1>3, <1>5, <1>6, <1>7, <1>10

(* A command that ends, in the middle or not. *)
LEMMA Leaves ==
  ASSUME IInv, NEW s \in Scope, Leave(s), UNCHANGED recVars,
         Active(s) \/ UNCHANGED <<vhost, owner, conf, loaded, pending>>
  PROVE  /\ op' \in [Scope -> Operation] /\ lock' \in Scope \cup {Reconciler, None}
         /\ Exclusive' /\ \A t \in Scope : Own(t)'
  <1>1. op \in [Scope -> Operation] /\ lock \in Scope \cup {Reconciler, None}
    BY DEF IInv, TypeOK
  <1>2. Idle \in Operation
    BY DEF Idle, Operation, PC, Fragments, Config, Empty, Blank
  <1>3. /\ op' \in [Scope -> Operation] /\ lock' \in Scope \cup {Reconciler, None}
        /\ op'[s].pc = "idle" /\ \A t \in Scope \ {s} : op'[t] = op[t]
    BY <1>1, <1>2 DEF Leave, Idle
  <1>4. ~Active(s)' /\ Own(s)'
    BY <1>3 DEF Active, Own
  <1>5. CASE Active(s)
    <2>1. lock = s /\ rec.pc = "idle" /\ \A t \in Scope \ {s} : ~Active(t)'
      BY <1>3, <1>5, Alone DEF Active
    <2>2. Exclusive' /\ \A t \in Scope : Own(t)'
      BY <1>4, <2>1 DEF Exclusive, Own, recVars
    <2> QED BY <1>3, <2>2
  <1>6. CASE ~Active(s) /\ UNCHANGED <<vhost, owner, conf, loaded, pending>>
    <2>1. \A t \in Scope : Own(t)'
      BY <1>3, <1>4, <1>6, Undisturbed
    <2>2. \A t \in Scope \ {s} : Active(t)' => lock = t
      BY <1>3 DEF IInv, Exclusive, Active
    <2>3. rec.pc # "idle" => lock = Reconciler /\ ~pending
      BY DEF IInv, Exclusive
    <2>4. lock' = IF lock = s THEN None ELSE lock
      BY DEF Leave
    <2>5. Exclusive'
      BY <1>4, <1>6, <2>2, <2>3, <2>4, ProxyAssumption DEF Exclusive, recVars
    <2> QED BY <1>3, <2>1, <2>5
  <1> QED BY <1>5, <1>6

-----------------------------------------------------------------------------
(* The steps that begin a command *)

LEMMA PrepareStep ==
  ASSUME IInv, NEW s \in Scope, ~Active(s), NEW r \in Release \cup {None},
         r # None => ScopeOf[r] = s, Prepare(s, r, "stage"),
         UNCHANGED <<hostVars, proxyVars, pending, recVars>>
  PROVE  IInv'
  <1> USE DEF hostVars, proxyVars, recVars
  <1> DEFINE plan == IF r = None THEN {} ELSE HostsOf[r]
             new == [pc |-> "stage", rel |-> r, vhost |-> vhost, owner |-> owner[s], conf |-> conf]
  <1>1. /\ lock = None /\ lock' = s /\ op' = [op EXCEPT ![s] = new]
        /\ ~Refused(s, plan)
    BY DEF Prepare
  <1>2. new \in Operation
    BY DEF IInv, TypeOK, Operation, PC
  <1>3. op \in [Scope -> Operation] /\ owner \in [Scope -> SUBSET Host]
    BY DEF IInv, TypeOK
  <1>4. op' \in [Scope -> Operation] /\ op'[s] = new /\ \A t \in Scope \ {s} : op'[t] = op[t]
    BY <1>1, <1>2, <1>3
  <1>5. TypeOK'
    BY <1>1, <1>4 DEF IInv, TypeOK
  <1>6. rec.pc = "idle" /\ \A t \in Scope : ~Active(t)
    BY <1>1, ProxyAssumption DEF IInv, Exclusive
  <1>7. Exclusive'
    BY <1>1, <1>4, <1>6 DEF Exclusive, Active
  <1>8. Placed' /\ Settled'
    BY DEF IInv, Placed, Settled, Disjoint, Matches
  <1>9. \A t \in Scope \ {s} : Own(t)'
    BY <1>4, Undisturbed
  <1>10. Own(s)'
    <2>1. /\ op'[s].pc = "stage" /\ op'[s].rel = r /\ op'[s].vhost = vhost
          /\ op'[s].owner = owner[s]
      BY <1>4
    <2>2. ~pending /\ Matches(vhost, owner) /\ Disjoint(owner)
      BY <1>1 DEF Refused, IInv, Settled
    <2>3. Found(s)' = owner
      BY <1>3, <2>1 DEF Found
    <2>4. Plan(s)' = plan /\ plan \subseteq Host
      BY <2>1, ProxyAssumption DEF Plan
    <2>5. ASSUME NEW t \in Scope \ {s}, NEW h \in plan \cap owner[t] PROVE FALSE
      <3>1. h \in Host /\ vhost[h] # None
        BY <2>2, <2>4, <2>5 DEF Matches
      <3>2. h \in owner[s]
        BY <1>1, <2>5, <3>1 DEF Refused
      <3> QED BY <2>2, <2>5, <3>2 DEF Disjoint
    <2>6. Prepared(s)'
      BY <2>1, <2>2, <2>3, <2>4, <2>5 DEF Prepared, Disjoint, Matches
    <2>7. Progress(s)' /\ Marked(s)'
      BY <2>1, <2>2 DEF Progress, Marked
    <2> QED BY <2>6, <2>7 DEF Own
  <1> QED BY <1>5, <1>7, <1>8, <1>9, <1>10 DEF IInv

LEMMA BeginStep ==
  ASSUME IInv, NEW s \in Scope,
         (\E r \in Release : PrepareDeploy(s, r)) \/ BeginRetire(s) \/ PrepareRetire(s)
  PROVE  IInv'
  <1>1. CASE \E r \in Release : PrepareDeploy(s, r)
    BY <1>1, PrepareStep DEF PrepareDeploy, At, Active
  <1>2. CASE PrepareRetire(s)
    BY <1>2, PrepareStep DEF PrepareRetire, At, Active
  <1>3. CASE BeginRetire(s)
    <2>1. /\ app' = [app EXCEPT ![s] = Down]
          /\ op' = [op EXCEPT ![s] = [Idle EXCEPT !.pc = "wait"]]
          /\ UNCHANGED <<current, unfinished, cert, changes, vhost, owner, conf, loaded, pending,
                         lock, rec, state>>
      BY <1>3 DEF BeginRetire, proxyVars, recVars
    <2>2. [Idle EXCEPT !.pc = "wait"] \in Operation
      BY DEF Idle, Operation, PC, Fragments, Config, Empty, Blank
    <2>3. op \in [Scope -> Operation]
      BY DEF IInv, TypeOK
    <2>4. /\ op' \in [Scope -> Operation] /\ op'[s].pc = "wait"
          /\ \A t \in Scope \ {s} : op'[t] = op[t]
      BY <2>1, <2>2, <2>3 DEF Idle
    <2>5. app' \in [Scope -> Containers] /\ Placed'
      BY <2>1, DownIsPlaced DEF IInv, Placed
    <2>6. TypeOK'
      BY <2>1, <2>4, <2>5 DEF IInv, TypeOK
    <2>7. Exclusive'
      BY <2>1, <2>4 DEF IInv, Exclusive, Active
    <2>8. Settled'
      BY <2>1 DEF IInv, Settled, Disjoint, Matches
    <2>9. \A t \in Scope : Own(t)'
      BY <2>1, <2>4, Undisturbed DEF Own, Active
    <2> QED BY <2>5, <2>6, <2>7, <2>8, <2>9 DEF IInv
  <1> QED BY <1>1, <1>2, <1>3

-----------------------------------------------------------------------------
(* The steps of a transaction *)

(* What the steps that go on have in common: the pieces make the invariant. *)
LEMMA Assembled ==
  ASSUME IInv, NEW s \in Scope, TypeOK', Exclusive', Placed', Settled',
         Prepared(s)', Progress(s)', Marked(s)', \A t \in Scope \ {s} : Own(t)'
  PROVE  IInv'
  BY DEF IInv, Own

LEMMA StageStep ==
  ASSUME IInv, NEW s \in Scope, Stage(s)
  PROVE  IInv'
  <1> DEFINE pc == IF op[s].rel = None THEN "install" ELSE "start"
  <1>1. /\ op[s].pc = "stage" /\ pending' = TRUE /\ Goto(s, pc)
        /\ UNCHANGED <<app, current, unfinished, cert, changes, vhost, owner, conf, loaded, lock, rec,
                       state>>
    BY DEF Stage, At, hostVars, proxyVars, recVars
  <1>2. Active(s) /\ pc \in PC \ {"idle", "wait"} /\ TypeOK
    BY <1>1 DEF Active, PC, IInv
  <1> HIDE DEF pc
  <1>3. /\ op' \in [Scope -> Operation] /\ op'[s].pc = pc /\ op'[s].rel = op[s].rel
        /\ op'[s].vhost = op[s].vhost /\ op'[s].owner = op[s].owner /\ Plan(s)' = Plan(s)
        /\ Exclusive' /\ Prepared(s)' /\ \A t \in Scope \ {s} : Own(t)'
    BY <1>1, <1>2, GoesOn DEF TypeOK, recVars
  <1>4. TypeOK'
    BY <1>1, <1>2, <1>3 DEF TypeOK
  <1>5. Placed' /\ Settled'
    BY <1>1 DEF IInv, Placed, Settled, Disjoint
  <1>6. Progress(s) /\ Marked(s)
    BY <1>2 DEF IInv, Own
  <1>7. Progress(s)' /\ Marked(s)'
    BY <1>1, <1>3, <1>6 DEF Progress, Marked, pc
  <1> QED BY <1>3, <1>4, <1>5, <1>7, Assembled

LEMMA StartReleaseStep ==
  ASSUME IInv, NEW s \in Scope, StartRelease(s)
  PROVE  IInv'
  <1>1. /\ op[s].pc = "start"
        /\ UNCHANGED <<current, unfinished, cert, changes, vhost, owner, conf, loaded, pending, lock,
                       rec, state>>
    BY DEF StartRelease, At, proxyVars, recVars
  <1>2. PICK pc \in {"install", "restore"} :
          /\ Goto(s, pc)
          /\ app' \in {app} \cup UNION {Started(s, op[s].rel, up) : up \in BOOLEAN}
    BY DEF StartRelease
  <1>3. Active(s) /\ pc \in PC \ {"idle", "wait"} /\ TypeOK
    BY <1>1 DEF Active, PC, IInv
  <1>4. /\ op' \in [Scope -> Operation] /\ op'[s].pc = pc /\ op'[s].rel = op[s].rel
        /\ op'[s].vhost = op[s].vhost /\ op'[s].owner = op[s].owner /\ Plan(s)' = Plan(s)
        /\ Exclusive' /\ Prepared(s)' /\ \A t \in Scope \ {s} : Own(t)'
    BY <1>1, <1>2, <1>3, GoesOn DEF TypeOK, recVars
  <1>5. Progress(s) /\ Marked(s)
    BY <1>3 DEF IInv, Own
  <1>6. op[s].rel \in Release
    BY <1>1, <1>3, <1>5 DEF Marked, TypeOK, Operation
  <1>7. app' \in [Scope -> Containers] /\ Placed'
    <2>1. CASE app' = app
      BY <2>1, <1>3 DEF IInv, TypeOK, Placed
    <2>2. CASE \E up \in BOOLEAN : app' \in Started(s, op[s].rel, up)
      BY <2>2, <1>6, StartedIsPlaced DEF IInv, Placed
    <2> QED BY <1>2, <2>1, <2>2
  <1>8. TypeOK'
    BY <1>1, <1>3, <1>4, <1>7 DEF TypeOK
  <1>9. Settled'
    BY <1>1 DEF IInv, Settled, Disjoint, Matches
  <1>10. Progress(s)' /\ Marked(s)'
    BY <1>1, <1>2, <1>4, <1>5 DEF Progress, Marked
  <1> QED BY <1>4, <1>7, <1>8, <1>9, <1>10, Assembled

LEMMA InstallFragmentStep ==
  ASSUME IInv, NEW s \in Scope, NEW h \in Host, InstallFragment(s, h)
  PROVE  IInv'
  <1>1. /\ op[s].pc = "install" /\ vhost[h] # Planned(s, h)
        /\ vhost' = [vhost EXCEPT ![h] = Planned(s, h)]
        /\ UNCHANGED <<app, current, unfinished, cert, changes, owner, conf, loaded, pending, lock,
                       op, rec, state>>
    BY DEF InstallFragment, At, hostVars, recVars
  <1>2. Active(s) /\ TypeOK
    BY <1>1 DEF Active, IInv
  <1>3. Prepared(s) /\ Progress(s) /\ Marked(s)
    BY <1>2 DEF IInv, Own
  <1>4. Planned(s, h) \in Release \cup {None}
    BY <1>2 DEF Planned, TypeOK, Operation, Fragments
  <1>5. vhost' \in Fragments
    BY <1>1, <1>2, <1>4 DEF TypeOK, Fragments
  <1>6. TypeOK'
    BY <1>1, <1>2, <1>5 DEF TypeOK
  <1>7. Exclusive' /\ Placed'
    BY <1>1 DEF IInv, Exclusive, Active, Placed
  <1>8. pending
    BY <1>1, <1>3 DEF Marked
  <1>9. Settled'
    BY <1>1, <1>8 DEF IInv, Settled, Disjoint
  <1>10. \A t \in Scope \ {s} : Own(t)'
    BY <1>1, <1>2, Alone DEF Own, Active
  <1>11. Prepared(s)'
    BY <1>1, <1>3 DEF Prepared, Disjoint, Matches, Found, Plan
  <1>12. h \in Plan(s) \cup op[s].owner
    BY <1>1 DEF Planned
  <1>13. Progress(s)'
    <2>1. \A g \in Host \ (Plan(s) \cup op[s].owner) : vhost'[g] = op[s].vhost[g]
      BY <1>1, <1>2, <1>3, <1>12 DEF Progress, TypeOK, Fragments
    <2> QED BY <1>1, <1>3, <2>1 DEF Progress, Plan
  <1>14. Marked(s)'
    BY <1>1, <1>3 DEF Marked
  <1> QED BY <1>6, <1>7, <1>9, <1>10, <1>11, <1>13, <1>14, Assembled

LEMMA InstalledStep ==
  ASSUME IInv, NEW s \in Scope, Installed(s)
  PROVE  IInv'
  <1>1. /\ op[s].pc = "install" /\ Goto(s, "render")
        /\ \A h \in Host : vhost[h] = Planned(s, h)
        /\ UNCHANGED <<app, current, unfinished, cert, changes, vhost, owner, conf, loaded, pending,
                       lock, rec, state>>
    BY DEF Installed, At, hostVars, proxyVars, recVars
  <1>2. Active(s) /\ "render" \in PC \ {"idle", "wait"} /\ TypeOK
    BY <1>1 DEF Active, PC, IInv
  <1>3. /\ op' \in [Scope -> Operation] /\ op'[s].pc = "render" /\ op'[s].rel = op[s].rel
        /\ op'[s].vhost = op[s].vhost /\ op'[s].owner = op[s].owner /\ Plan(s)' = Plan(s)
        /\ Exclusive' /\ Prepared(s)' /\ \A t \in Scope \ {s} : Own(t)'
    BY <1>1, <1>2, GoesOn DEF TypeOK, recVars
  <1>4. TypeOK'
    BY <1>1, <1>2, <1>3 DEF TypeOK
  <1>5. Placed' /\ Settled'
    BY <1>1 DEF IInv, Placed, Settled, Disjoint, Matches
  <1>6. Progress(s) /\ Marked(s)
    BY <1>2 DEF IInv, Own
  <1>7. Progress(s)' /\ Marked(s)'
    BY <1>1, <1>3, <1>6 DEF Progress, Marked, Planned
  <1> QED BY <1>3, <1>4, <1>5, <1>7, Assembled

LEMMA RegenerateStep ==
  ASSUME IInv, NEW s \in Scope, Regenerate(s)
  PROVE  IInv'
  <1>1. /\ op[s].pc = "render" /\ Goto(s, "test") /\ conf' = Rendering
        /\ Plan(s) \subseteq ServerNames(Rendering)
        /\ UNCHANGED <<app, current, unfinished, cert, changes, vhost, owner, loaded, pending, lock,
                       rec, state>>
    BY DEF Regenerate, Converged, At, hostVars, recVars
  <1>2. Active(s) /\ "test" \in PC \ {"idle", "wait"} /\ TypeOK /\ Rendering \in Config
    BY <1>1, RenderingIsConfig DEF Active, PC, IInv
  <1>3. /\ op' \in [Scope -> Operation] /\ op'[s].pc = "test" /\ op'[s].rel = op[s].rel
        /\ op'[s].vhost = op[s].vhost /\ op'[s].owner = op[s].owner /\ Plan(s)' = Plan(s)
        /\ Exclusive' /\ Prepared(s)' /\ \A t \in Scope \ {s} : Own(t)'
    BY <1>1, <1>2, GoesOn DEF TypeOK, recVars
  <1>4. TypeOK'
    BY <1>1, <1>2, <1>3 DEF TypeOK
  <1>5. Placed' /\ Settled'
    BY <1>1 DEF IInv, Placed, Settled, Disjoint, Matches
  <1>6. Progress(s) /\ Marked(s)
    BY <1>2 DEF IInv, Own
  <1>7. Progress(s)' /\ Marked(s)'
    BY <1>1, <1>3, <1>6 DEF Progress, Marked, Planned, ServerNames
  <1> QED BY <1>3, <1>4, <1>5, <1>7, Assembled

LEMMA TestConfigurationStep ==
  ASSUME IInv, NEW s \in Scope, TestConfiguration(s)
  PROVE  IInv'
  <1>1. /\ op[s].pc = "test" /\ Goto(s, "own") /\ Accepted(conf, vhost)
        /\ UNCHANGED <<app, current, unfinished, cert, changes, vhost, owner, conf, loaded, pending,
                       lock, rec, state>>
    BY DEF TestConfiguration, At, hostVars, proxyVars, recVars
  <1>2. Active(s) /\ "own" \in PC \ {"idle", "wait"} /\ TypeOK
    BY <1>1 DEF Active, PC, IInv
  <1>3. /\ op' \in [Scope -> Operation] /\ op'[s].pc = "own" /\ op'[s].rel = op[s].rel
        /\ op'[s].vhost = op[s].vhost /\ op'[s].owner = op[s].owner /\ Plan(s)' = Plan(s)
        /\ Exclusive' /\ Prepared(s)' /\ \A t \in Scope \ {s} : Own(t)'
    BY <1>1, <1>2, GoesOn DEF TypeOK, recVars
  <1>4. TypeOK'
    BY <1>1, <1>2, <1>3 DEF TypeOK
  <1>5. Placed' /\ Settled'
    BY <1>1 DEF IInv, Placed, Settled, Disjoint, Matches
  <1>6. Progress(s) /\ Marked(s)
    BY <1>2 DEF IInv, Own
  <1>7. \A h \in Plan(s) : op[s].rel \notin Rejected
    BY <1>1, <1>6 DEF Progress, Planned, Accepted, ServerNames
  <1>8. Progress(s)' /\ Marked(s)'
    BY <1>1, <1>3, <1>6, <1>7 DEF Progress, Marked, Planned
  <1> QED BY <1>3, <1>4, <1>5, <1>8, Assembled

LEMMA WriteOwnershipStep ==
  ASSUME IInv, NEW s \in Scope, WriteOwnership(s)
  PROVE  IInv'
  <1>1. /\ op[s].pc = "own" /\ Goto(s, "reload") /\ owner' = [owner EXCEPT ![s] = Plan(s)]
        /\ UNCHANGED <<app, current, unfinished, cert, changes, vhost, conf, loaded, pending, lock,
                       rec, state>>
    BY DEF WriteOwnership, At, hostVars, recVars
  <1>2. /\ Active(s) /\ "reload" \in PC \ {"idle", "wait"} /\ TypeOK
        /\ owner' \in [Scope -> SUBSET Host] /\ owner'[s] = Plan(s)
        /\ \A t \in Scope \ {s} : owner'[t] = owner[t]
    <2>1. Active(s) /\ "reload" \in PC \ {"idle", "wait"} /\ TypeOK
      BY <1>1 DEF Active, PC, IInv
    <2>2. Plan(s) \subseteq Host
      BY <2>1, ProxyAssumption DEF Plan, TypeOK, Operation
    <2> QED BY <1>1, <2>1, <2>2 DEF TypeOK
  <1>3. /\ op' \in [Scope -> Operation] /\ op'[s].pc = "reload" /\ op'[s].rel = op[s].rel
        /\ op'[s].vhost = op[s].vhost /\ op'[s].owner = op[s].owner /\ Plan(s)' = Plan(s)
        /\ Exclusive' /\ Prepared(s)' /\ \A t \in Scope \ {s} : Own(t)'
    BY <1>1, <1>2, GoesOn DEF TypeOK, recVars
  <1>4. TypeOK'
    BY <1>1, <1>2, <1>3 DEF TypeOK
  <1>5. Prepared(s) /\ Progress(s) /\ Marked(s) /\ Settled
    BY <1>2 DEF IInv, Own
  <1>6. Placed'
    BY <1>1 DEF IInv, Placed
  <1>7. Disjoint(owner)' /\ pending'
    BY <1>1, <1>2, <1>5 DEF Prepared, Settled, Disjoint, Marked
  <1>8. Settled'
    BY <1>7 DEF Settled
  <1>9. Progress(s)' /\ Marked(s)'
    BY <1>1, <1>2, <1>3, <1>5 DEF Progress, Marked, Planned
  <1> QED BY <1>3, <1>4, <1>6, <1>8, <1>9, Assembled

LEMMA ReloadNginxStep ==
  ASSUME IInv, NEW s \in Scope, ReloadNginx(s)
  PROVE  IInv'
  <1> DEFINE pc == IF op[s].rel = None THEN "release" ELSE "commit"
  <1>1. /\ op[s].pc = "reload" /\ Goto(s, pc) /\ loaded' = OnDisk
        /\ UNCHANGED <<app, current, unfinished, cert, changes, vhost, owner, conf, pending, lock,
                       rec, state>>
    BY DEF ReloadNginx, At, hostVars, recVars
  <1>2. /\ Active(s) /\ pc \in PC \ {"idle", "wait"} /\ TypeOK /\ OnDisk \in Nginx
        /\ pc \in {"release", "commit"}
    BY <1>1, RenderingIsConfig DEF Active, PC, IInv
  <1> HIDE DEF pc
  <1>3. /\ op' \in [Scope -> Operation] /\ op'[s].pc = pc /\ op'[s].rel = op[s].rel
        /\ op'[s].vhost = op[s].vhost /\ op'[s].owner = op[s].owner /\ Plan(s)' = Plan(s)
        /\ Exclusive' /\ Prepared(s)' /\ \A t \in Scope \ {s} : Own(t)'
    BY <1>1, <1>2, GoesOn DEF TypeOK, recVars
  <1>4. TypeOK'
    BY <1>1, <1>2, <1>3 DEF TypeOK
  <1>5. Placed' /\ Settled'
    BY <1>1 DEF IInv, Placed, Settled, Disjoint, Matches
  <1>6. Progress(s) /\ Marked(s)
    BY <1>2 DEF IInv, Own
  <1>7. loaded'.conf = conf' /\ loaded'.vhost = vhost'
    BY <1>1 DEF OnDisk
  <1>8. Progress(s)'
    BY <1>1, <1>2, <1>3, <1>6 DEF Progress, Planned
  <1>9. Marked(s)'
    BY <1>1, <1>2, <1>3, <1>6, <1>7 DEF Marked
  <1> QED BY <1>3, <1>4, <1>5, <1>8, <1>9, Assembled

LEMMA CommitStep ==
  ASSUME IInv, NEW s \in Scope, Commit(s)
  PROVE  IInv'
  <1>1. /\ op[s].pc = "commit" /\ Goto(s, "release")
        /\ current' = [current EXCEPT ![s] = op[s].rel]
        /\ UNCHANGED <<app, unfinished, cert, changes, vhost, owner, conf, loaded, pending, lock, rec,
                       state>>
    BY DEF Commit, At, proxyVars, recVars
  <1>2. Active(s) /\ "release" \in PC \ {"idle", "wait"} /\ TypeOK
    BY <1>1 DEF Active, PC, IInv
  <1>3. /\ op' \in [Scope -> Operation] /\ op'[s].pc = "release" /\ op'[s].rel = op[s].rel
        /\ op'[s].vhost = op[s].vhost /\ op'[s].owner = op[s].owner /\ Plan(s)' = Plan(s)
        /\ Exclusive' /\ Prepared(s)' /\ \A t \in Scope \ {s} : Own(t)'
    BY <1>1, <1>2, GoesOn DEF TypeOK, recVars
  <1>4. current' \in [Scope -> Release \cup {None}]
    BY <1>1, <1>2 DEF TypeOK, Operation
  <1>5. TypeOK'
    BY <1>1, <1>2, <1>3, <1>4 DEF TypeOK
  <1>6. Placed' /\ Settled'
    BY <1>1 DEF IInv, Placed, Settled, Disjoint, Matches
  <1>7. Progress(s) /\ Marked(s)
    BY <1>2 DEF IInv, Own
  <1>8. Progress(s)' /\ Marked(s)'
    BY <1>1, <1>3, <1>7 DEF Progress, Marked, Planned
  <1> QED BY <1>3, <1>5, <1>6, <1>8, Assembled

(* The marker goes: the fragments are those of the plan, or those that were found. *)
LEMMA ReleaseLockStep ==
  ASSUME IInv, NEW s \in Scope, ReleaseLock(s)
  PROVE  IInv'
  <1>1. /\ op[s].pc = "release" /\ Leave(s) /\ pending' = FALSE
        /\ UNCHANGED <<app, current, unfinished, cert, changes, vhost, owner, conf, loaded, rec, state>>
    BY DEF ReleaseLock, At, hostVars, proxyVars, recVars
  <1>2. Active(s) /\ TypeOK
    BY <1>1 DEF Active, IInv
  <1>3. /\ op' \in [Scope -> Operation] /\ lock' \in Scope \cup {Reconciler, None}
        /\ Exclusive' /\ \A t \in Scope : Own(t)'
    BY <1>1, <1>2, Leaves DEF recVars
  <1>4. TypeOK' /\ Placed'
    BY <1>1, <1>2, <1>3 DEF IInv, TypeOK, Placed
  <1>5. Prepared(s) /\ Progress(s) /\ Disjoint(owner)
    BY <1>2 DEF IInv, Own, Settled
  <1>6. owner[s] = Plan(s) /\ op[s].rel \in Release \cup {None}
    BY <1>1, <1>2, <1>5 DEF Progress, TypeOK, Operation
  <1>7. /\ \A t \in Scope \ {s} : Found(s)[t] = owner[t]
        /\ Found(s)[s] = op[s].owner
    BY <1>2 DEF Found, TypeOK
  <1>8. ASSUME NEW h \in Host
        PROVE  /\ vhost[h] = None => \A t \in Scope : h \notin owner[t]
               /\ vhost[h] # None => h \in owner[ScopeOf[vhost[h]]]
               /\ vhost[h] \notin Rejected
    <2>1. vhost[h] = Planned(s, h)
      BY <1>1, <1>5 DEF Progress
    <2>2. CASE h \in Plan(s)
      <3>1. vhost[h] = op[s].rel /\ op[s].rel # None /\ op[s].rel \notin Rejected
        BY <1>1, <1>5, <2>1, <2>2 DEF Planned, Progress, Plan
      <3>2. ScopeOf[op[s].rel] = s
        BY <1>5, <3>1 DEF Prepared
      <3> QED BY <1>6, <2>2, <3>1, <3>2
    <2>3. CASE h \in op[s].owner \ Plan(s)
      <3>1. vhost[h] = None
        BY <2>1, <2>3 DEF Planned
      <3>2. \A t \in Scope \ {s} : h \notin owner[t]
        BY <1>5, <1>7, <2>3 DEF Prepared, Disjoint
      <3> QED BY <1>6, <2>3, <3>1, <3>2, ProxyAssumption
    <2>4. CASE h \notin Plan(s) \cup op[s].owner
      <3>1. vhost[h] = op[s].vhost[h]
        BY <1>5, <2>4 DEF Progress
      <3>2. /\ op[s].vhost[h] = None => \A t \in Scope : h \notin Found(s)[t]
            /\ op[s].vhost[h] # None => h \in Found(s)[ScopeOf[op[s].vhost[h]]]
            /\ op[s].vhost[h] \notin Rejected
        BY <1>5 DEF Prepared, Matches
      <3>3. vhost[h] # None => ScopeOf[vhost[h]] \in Scope
        BY <1>2, ProxyAssumption DEF TypeOK, Fragments
      <3> QED BY <1>6, <1>7, <2>4, <3>1, <3>2, <3>3
    <2> QED BY <2>2, <2>3, <2>4
  <1>9. Matches(vhost, owner)
    BY <1>8 DEF Matches
  <1>10. Settled'
    BY <1>1, <1>5, <1>9 DEF Settled, Disjoint, Matches
  <1> QED BY <1>3, <1>4, <1>10 DEF IInv

-----------------------------------------------------------------------------
(* The failure path *)

(* A failed activation puts its ownership record back and keeps the marker. *)
LEMMA FailStep ==
  ASSUME IInv, NEW s \in Scope, op[s].pc \in {"install", "render", "test", "own", "reload"},
         Fail(s), UNCHANGED <<hostVars, pending, recVars>>,
         vhost' \in Fragments, conf' \in Config, loaded' \in Nginx,
         \A h \in Host \ (Plan(s) \cup op[s].owner) : vhost'[h] = op[s].vhost[h]
  PROVE  IInv'
  <1>1. /\ owner' = [owner EXCEPT ![s] = op[s].owner]
        /\ UNCHANGED <<app, current, unfinished, cert, changes, pending, rec, state>>
    BY DEF Fail, hostVars, recVars
  <1>2. /\ Active(s) /\ TypeOK
        /\ owner' \in [Scope -> SUBSET Host] /\ owner'[s] = op[s].owner
        /\ \A t \in Scope \ {s} : owner'[t] = owner[t]
    BY <1>1 DEF Active, IInv, TypeOK, Operation
  <1>3. Prepared(s) /\ Marked(s)
    BY <1>2 DEF IInv, Own
  <1>4. pending' /\ Placed'
    BY <1>1, <1>3 DEF Marked, IInv, Placed
  <1>5. Disjoint(owner)'
    BY <1>1, <1>3 DEF Prepared, Found, Disjoint
  <1>6. Settled'
    BY <1>4, <1>5 DEF Settled
  <1>7. CASE op[s].rel = None
    <2>1. Leave(s)
      BY <1>7 DEF Fail
    <2>2. /\ op' \in [Scope -> Operation] /\ lock' \in Scope \cup {Reconciler, None}
          /\ Exclusive' /\ \A t \in Scope : Own(t)'
      BY <1>2, <2>1, Leaves
    <2>3. TypeOK'
      BY <1>1, <1>2, <2>2 DEF TypeOK
    <2> QED BY <1>4, <1>6, <2>2, <2>3 DEF IInv
  <1>8. CASE op[s].rel # None
    <2>1. Goto(s, "restore") /\ lock' = lock
      BY <1>8 DEF Fail
    <2>2. "restore" \in PC \ {"idle", "wait"}
      BY DEF PC
    <2>3. /\ op' \in [Scope -> Operation] /\ op'[s].pc = "restore" /\ op'[s].rel = op[s].rel
          /\ op'[s].vhost = op[s].vhost /\ op'[s].owner = op[s].owner /\ Plan(s)' = Plan(s)
          /\ Exclusive' /\ Prepared(s)' /\ \A t \in Scope \ {s} : Own(t)'
      BY <1>2, <2>1, <2>2, GoesOn
    <2>4. TypeOK'
      BY <1>1, <1>2, <2>1, <2>3 DEF TypeOK
    <2>5. Progress(s)'
      BY <1>2, <2>3 DEF Progress
    <2>6. Marked(s)'
      BY <1>4, <2>3 DEF Marked
    <2> QED BY <1>4, <1>6, <2>3, <2>4, <2>5, <2>6, Assembled
  <1> QED BY <1>7, <1>8

LEMMA InstallFailsStep ==
  ASSUME IInv, NEW s \in Scope, InstallFails(s)
  PROVE  IInv'
  <1>1. op[s].vhost \in Fragments /\ op[s].conf \in Config /\ loaded \in Nginx
    BY DEF IInv, TypeOK, Operation
  <1> QED BY <1>1, FailStep DEF InstallFails, At

LEMMA ActivateFailsStep ==
  ASSUME IInv, NEW s \in Scope, ActivateFails(s)
  PROVE  IInv'
  <1>1. /\ op[s].pc \in {"render", "test", "own", "reload"} /\ loaded' \in {loaded, OnDisk}
        /\ Fail(s) /\ UNCHANGED <<hostVars, vhost, conf, pending, recVars>>
    BY DEF ActivateFails, At
  <1>2. Active(s) /\ TypeOK
    BY <1>1 DEF Active, IInv
  <1>3. Progress(s)
    BY <1>2 DEF IInv, Own
  <1>4. loaded' \in Nginx /\ vhost' \in Fragments /\ conf' \in Config
    BY <1>1, <1>2, RenderingIsConfig DEF IInv, TypeOK
  <1>5. \A h \in Host \ (Plan(s) \cup op[s].owner) : vhost'[h] = op[s].vhost[h]
    BY <1>1, <1>3 DEF Progress
  <1> QED BY <1>1, <1>4, <1>5, FailStep

LEMMA RestorePreviousStep ==
  ASSUME IInv, NEW s \in Scope, RestorePrevious(s)
  PROVE  IInv'
  <1>1. /\ op[s].pc = "restore" /\ Goto(s, "unstage")
        /\ UNCHANGED <<current, unfinished, cert, changes, vhost, owner, conf, loaded, pending, lock,
                       rec, state>>
    BY DEF RestorePrevious, At, proxyVars, recVars
  <1>2. Active(s) /\ "unstage" \in PC \ {"idle", "wait"} /\ TypeOK
    BY <1>1 DEF Active, PC, IInv
  <1>3. /\ op' \in [Scope -> Operation] /\ op'[s].pc = "unstage" /\ op'[s].rel = op[s].rel
        /\ op'[s].vhost = op[s].vhost /\ op'[s].owner = op[s].owner /\ Plan(s)' = Plan(s)
        /\ Exclusive' /\ Prepared(s)' /\ \A t \in Scope \ {s} : Own(t)'
    BY <1>1, <1>2, GoesOn DEF TypeOK, recVars
  <1>4. app' \in [Scope -> Containers] /\ Placed'
    <2>1. CASE app' = app
      BY <2>1, <1>2 DEF IInv, TypeOK, Placed
    <2>2. CASE app' = [app EXCEPT ![s] = Down]
      BY <2>2, DownIsPlaced DEF IInv, Placed
    <2>3. CASE current[s] # None /\ \E up \in BOOLEAN : app' \in Started(s, current[s], up)
      <3>1. current[s] \in Release
        BY <1>2, <2>3 DEF TypeOK
      <3> QED BY <2>3, <3>1, StartedIsPlaced DEF IInv, Placed
    <2> QED BY <2>1, <2>2, <2>3 DEF RestorePrevious
  <1>5. TypeOK'
    BY <1>1, <1>2, <1>3, <1>4 DEF TypeOK
  <1>6. Settled'
    BY <1>1 DEF IInv, Settled, Disjoint, Matches
  <1>7. Progress(s) /\ Marked(s)
    BY <1>2 DEF IInv, Own
  <1>8. Progress(s)' /\ Marked(s)'
    BY <1>1, <1>3, <1>7 DEF Progress, Marked
  <1> QED BY <1>3, <1>4, <1>5, <1>6, <1>8, Assembled

LEMMA RestoreFilesStep ==
  ASSUME IInv, NEW s \in Scope, RestoreFiles(s)
  PROVE  IInv'
  <1>1. /\ op[s].pc = "unstage" /\ Goto(s, "rerender")
        /\ vhost' = [h \in Host |-> IF h \in Plan(s) \cup op[s].owner THEN op[s].vhost[h]
                                                                    ELSE vhost[h]]
        /\ conf' = op[s].conf /\ owner' = [owner EXCEPT ![s] = op[s].owner]
        /\ UNCHANGED <<app, current, unfinished, cert, changes, loaded, pending, lock, rec, state>>
    BY DEF RestoreFiles, At, hostVars, recVars
  <1>2. /\ Active(s) /\ "rerender" \in PC \ {"idle", "wait"} /\ TypeOK
        /\ owner' \in [Scope -> SUBSET Host] /\ owner'[s] = op[s].owner
        /\ \A t \in Scope \ {s} : owner'[t] = owner[t]
    BY <1>1 DEF Active, PC, IInv, TypeOK, Operation
  <1>3. /\ op' \in [Scope -> Operation] /\ op'[s].pc = "rerender" /\ op'[s].rel = op[s].rel
        /\ op'[s].vhost = op[s].vhost /\ op'[s].owner = op[s].owner /\ Plan(s)' = Plan(s)
        /\ Exclusive' /\ Prepared(s)' /\ \A t \in Scope \ {s} : Own(t)'
    BY <1>1, <1>2, GoesOn DEF TypeOK, recVars
  <1>4. Prepared(s) /\ Progress(s) /\ Marked(s)
    BY <1>2 DEF IInv, Own
  <1>5. op[s].vhost \in Fragments /\ op[s].conf \in Config
    BY <1>2 DEF TypeOK, Operation
  <1>6. vhost' = op[s].vhost
    BY <1>1, <1>4, <1>5 DEF Progress, Fragments
  <1>7. TypeOK'
    BY <1>1, <1>2, <1>3, <1>5, <1>6 DEF TypeOK
  <1>8. Placed' /\ pending'
    BY <1>1, <1>4 DEF IInv, Placed, Marked
  <1>9. Disjoint(owner)'
    BY <1>1, <1>4 DEF Prepared, Found, Disjoint
  <1>10. Settled'
    BY <1>8, <1>9 DEF Settled
  <1>11. Progress(s)' /\ Marked(s)'
    BY <1>2, <1>3, <1>6, <1>8 DEF Progress, Marked
  <1> QED BY <1>3, <1>7, <1>8, <1>10, <1>11, Assembled

LEMMA RegeneratePreviousStep ==
  ASSUME IInv, NEW s \in Scope, RegeneratePrevious(s)
  PROVE  IInv'
  <1>1. /\ op[s].pc = "rerender" /\ Goto(s, "retest") /\ conf' = Rendering
        /\ UNCHANGED <<app, current, unfinished, cert, changes, vhost, owner, loaded, pending, lock,
                       rec, state>>
    BY DEF RegeneratePrevious, At, hostVars, recVars
  <1>2. Active(s) /\ "retest" \in PC \ {"idle", "wait"} /\ TypeOK /\ Rendering \in Config
    BY <1>1, RenderingIsConfig DEF Active, PC, IInv
  <1>3. /\ op' \in [Scope -> Operation] /\ op'[s].pc = "retest" /\ op'[s].rel = op[s].rel
        /\ op'[s].vhost = op[s].vhost /\ op'[s].owner = op[s].owner /\ Plan(s)' = Plan(s)
        /\ Exclusive' /\ Prepared(s)' /\ \A t \in Scope \ {s} : Own(t)'
    BY <1>1, <1>2, GoesOn DEF TypeOK, recVars
  <1>4. TypeOK'
    BY <1>1, <1>2, <1>3 DEF TypeOK
  <1>5. Placed' /\ Settled'
    BY <1>1 DEF IInv, Placed, Settled, Disjoint, Matches
  <1>6. Progress(s) /\ Marked(s)
    BY <1>2 DEF IInv, Own
  <1>7. Progress(s)' /\ Marked(s)'
    BY <1>1, <1>3, <1>6 DEF Progress, Marked
  <1> QED BY <1>3, <1>4, <1>5, <1>7, Assembled

LEMMA TestPreviousStep ==
  ASSUME IInv, NEW s \in Scope, TestPrevious(s)
  PROVE  IInv'
  <1>1. /\ op[s].pc = "retest" /\ Goto(s, "rereload")
        /\ UNCHANGED <<app, current, unfinished, cert, changes, vhost, owner, conf, loaded, pending,
                       lock, rec, state>>
    BY DEF TestPrevious, At, hostVars, proxyVars, recVars
  <1>2. Active(s) /\ "rereload" \in PC \ {"idle", "wait"} /\ TypeOK
    BY <1>1 DEF Active, PC, IInv
  <1>3. /\ op' \in [Scope -> Operation] /\ op'[s].pc = "rereload" /\ op'[s].rel = op[s].rel
        /\ op'[s].vhost = op[s].vhost /\ op'[s].owner = op[s].owner /\ Plan(s)' = Plan(s)
        /\ Exclusive' /\ Prepared(s)' /\ \A t \in Scope \ {s} : Own(t)'
    BY <1>1, <1>2, GoesOn DEF TypeOK, recVars
  <1>4. TypeOK'
    BY <1>1, <1>2, <1>3 DEF TypeOK
  <1>5. Placed' /\ Settled'
    BY <1>1 DEF IInv, Placed, Settled, Disjoint, Matches
  <1>6. Progress(s) /\ Marked(s)
    BY <1>2 DEF IInv, Own
  <1>7. Progress(s)' /\ Marked(s)'
    BY <1>1, <1>3, <1>6 DEF Progress, Marked
  <1> QED BY <1>3, <1>4, <1>5, <1>7, Assembled

LEMMA ReloadPreviousStep ==
  ASSUME IInv, NEW s \in Scope, ReloadPrevious(s)
  PROVE  IInv'
  <1>1. /\ op[s].pc = "rereload" /\ Goto(s, "settle") /\ loaded' = OnDisk
        /\ UNCHANGED <<app, current, unfinished, cert, changes, vhost, owner, conf, pending, lock,
                       rec, state>>
    BY DEF ReloadPrevious, At, hostVars, recVars
  <1>2. Active(s) /\ "settle" \in PC \ {"idle", "wait"} /\ TypeOK /\ OnDisk \in Nginx
    BY <1>1, RenderingIsConfig DEF Active, PC, IInv
  <1>3. /\ op' \in [Scope -> Operation] /\ op'[s].pc = "settle" /\ op'[s].rel = op[s].rel
        /\ op'[s].vhost = op[s].vhost /\ op'[s].owner = op[s].owner /\ Plan(s)' = Plan(s)
        /\ Exclusive' /\ Prepared(s)' /\ \A t \in Scope \ {s} : Own(t)'
    BY <1>1, <1>2, GoesOn DEF TypeOK, recVars
  <1>4. TypeOK'
    BY <1>1, <1>2, <1>3 DEF TypeOK
  <1>5. Placed' /\ Settled'
    BY <1>1 DEF IInv, Placed, Settled, Disjoint, Matches
  <1>6. Progress(s) /\ Marked(s)
    BY <1>2 DEF IInv, Own
  <1>7. loaded'.conf = conf' /\ loaded'.vhost = vhost'
    BY <1>1 DEF OnDisk
  <1>8. Progress(s)' /\ Marked(s)'
    BY <1>1, <1>3, <1>6, <1>7 DEF Progress, Marked
  <1> QED BY <1>3, <1>4, <1>5, <1>8, Assembled

(* The marker goes: everything is as the transaction found it. *)
LEMMA SettleStep ==
  ASSUME IInv, NEW s \in Scope, Settle(s)
  PROVE  IInv'
  <1>1. /\ op[s].pc = "settle" /\ Leave(s) /\ pending' = FALSE
        /\ UNCHANGED <<app, current, unfinished, cert, changes, vhost, owner, conf, loaded, rec, state>>
    BY DEF Settle, At, hostVars, proxyVars, recVars
  <1>2. Active(s) /\ TypeOK
    BY <1>1 DEF Active, IInv
  <1>3. /\ op' \in [Scope -> Operation] /\ lock' \in Scope \cup {Reconciler, None}
        /\ Exclusive' /\ \A t \in Scope : Own(t)'
    BY <1>1, <1>2, Leaves DEF recVars
  <1>4. TypeOK' /\ Placed'
    BY <1>1, <1>2, <1>3 DEF IInv, TypeOK, Placed
  <1>5. Prepared(s) /\ Progress(s) /\ Disjoint(owner)
    BY <1>2 DEF IInv, Own, Settled
  <1>6. vhost = op[s].vhost /\ Found(s) = owner
    BY <1>1, <1>2, <1>5 DEF Progress, Found, TypeOK
  <1>7. Matches(vhost, owner)
    BY <1>5, <1>6 DEF Prepared
  <1>8. Settled'
    BY <1>1, <1>5, <1>7 DEF Settled, Disjoint, Matches
  <1> QED BY <1>3, <1>4, <1>8 DEF IInv

LEMMA EndStep ==
  ASSUME IInv, NEW s \in Scope, GiveUp(s) \/ Kill(s)
  PROVE  IInv'
  <1>1. /\ Leave(s) /\ unfinished' \in {unfinished, unfinished \cup {s}}
        /\ UNCHANGED <<app, current, cert, changes, vhost, owner, conf, loaded, pending, rec, state>>
    BY DEF GiveUp, Kill, hostVars, proxyVars, recVars
  <1>2. /\ op' \in [Scope -> Operation] /\ lock' \in Scope \cup {Reconciler, None}
        /\ Exclusive' /\ \A t \in Scope : Own(t)'
    BY <1>1, Leaves DEF recVars
  <1>3. TypeOK' /\ Placed'
    BY <1>1, <1>2 DEF IInv, TypeOK, Placed
  <1>4. Settled'
    BY <1>1 DEF IInv, Settled, Disjoint, Matches
  <1> QED BY <1>2, <1>3, <1>4 DEF IInv

-----------------------------------------------------------------------------
(* The reconciler and the environment *)

(* The reconciler takes the lock while no command is active, and changes only the       *)
(* configuration and what is loaded; neither the fragments nor their owners.            *)
LEMMA ReconcilerStep ==
  ASSUME IInv, UNCHANGED <<hostVars, vhost, owner, pending, op>>,
         rec.pc = "idle" => lock = None /\ ~pending,
         conf' \in Config, loaded' \in Nginx, rec' \in Reconciling,
         state' \in [conf : Config, cert : -1..MaxRenewals],
         IF rec'.pc = "idle" THEN lock' = None ELSE lock' = Reconciler
  PROVE  IInv'
  <1>1. ~pending /\ \A s \in Scope : ~Active(s)
    BY ProxyAssumption DEF IInv, Exclusive
  <1>2. lock' \in {Reconciler, None}
    OBVIOUS
  <1>3. TypeOK'
    BY <1>2 DEF IInv, TypeOK, hostVars
  <1>4. \A s \in Scope : ~Active(s)'
    BY <1>1 DEF Active
  <1>5. Exclusive' /\ \A s \in Scope : Own(s)'
    BY <1>1, <1>4 DEF Exclusive, Own
  <1>6. Placed' /\ Settled'
    BY DEF IInv, Placed, Settled, Disjoint, Matches, hostVars
  <1> QED BY <1>3, <1>5, <1>6 DEF IInv

LEMMA ReconcileStep == IInv /\ Reconcile => IInv'
  <1> SUFFICES ASSUME IInv, Reconcile PROVE IInv'
    OBVIOUS
  <1> USE DEF hostVars, proxyVars, recVars
  <1>1. /\ TypeOK /\ Rendering \in Config /\ OnDisk \in Nginx
        /\ rec \in Reconciling /\ conf \in Config /\ loaded \in Nginx
        /\ state \in [conf : Config, cert : -1..MaxRenewals] /\ cert \in 0..MaxRenewals
        /\ rec.pc # "idle" => lock = Reconciler
    BY RenderingIsConfig DEF IInv, TypeOK, Exclusive
  <1>2. Resting \in Reconciling /\ Resting.pc = "idle"
    BY ProxyAssumption DEF Resting, Reconciling, RecPC, Config, Blank
  <1>3. CASE Tick
    <2>1. rec' = [Resting EXCEPT !.pc = "render", !.cert = cert]
      BY <1>3 DEF Tick
    <2>2. rec' \in Reconciling /\ rec'.pc = "render"
      BY <1>1, <1>2, <2>1 DEF Reconciling, RecPC
    <2> QED BY <1>1, <1>3, <2>2, ReconcilerStep DEF Tick
  <1>4. CASE RenderCandidate
    <2>1. rec' \in Reconciling /\ rec'.pc = "compare"
      BY <1>1, <1>4 DEF RenderCandidate, Reconciling, RecPC
    <2> QED BY <1>1, <1>4, <2>1, ReconcilerStep DEF RenderCandidate
  <1>5. CASE Compare /\ Rest
    BY <1>1, <1>2, <1>5, ReconcilerStep DEF Compare, Rest, Reconciling
  <1>6. CASE Compare /\ conf' = rec.conf /\ rec' = [rec EXCEPT !.pc = "test", !.old = conf]
             /\ UNCHANGED lock
    <2>1. rec' \in Reconciling /\ rec'.pc = "test" /\ rec.conf \in Config
      BY <1>1, <1>6 DEF Reconciling, RecPC
    <2> QED BY <1>1, <1>6, <2>1, ReconcilerStep DEF Compare
  <1>7. CASE TestCandidate
    <2>1. rec' \in Reconciling /\ rec'.pc = "reload"
      BY <1>1, <1>7 DEF TestCandidate, Reconciling, RecPC
    <2> QED BY <1>1, <1>7, <2>1, ReconcilerStep DEF TestCandidate
  <1>8. CASE TestCandidateFails
    BY <1>1, <1>2, <1>8, ReconcilerStep DEF TestCandidateFails, Rest, Reconciling
  <1>9. CASE ReloadCandidate
    <2>1. rec' \in Reconciling /\ rec'.pc = "state"
      BY <1>1, <1>9 DEF ReloadCandidate, Reconciling, RecPC
    <2> QED BY <1>1, <1>9, <2>1, ReconcilerStep DEF ReloadCandidate
  <1>10. CASE ReloadCandidateFails
    <2>1. rec' \in Reconciling /\ rec'.pc = "undo" /\ rec.old \in Config
      BY <1>1, <1>10 DEF ReloadCandidateFails, Reconciling, RecPC
    <2> QED BY <1>1, <1>10, <2>1, ReconcilerStep DEF ReloadCandidateFails
  <1>11. CASE UndoReload
    BY <1>1, <1>2, <1>11, ReconcilerStep DEF UndoReload, Rest
  <1>12. CASE WriteState
    <2>1. state' \in [conf : Config, cert : -1..MaxRenewals]
      <3>1. rec.conf \in Config /\ rec.cert \in 0..MaxRenewals
        BY <1>1 DEF Reconciling
      <3>2. rec.cert \in -1..MaxRenewals
        BY <3>1, ProxyAssumption
      <3> QED BY <1>12, <3>1, <3>2 DEF WriteState
    <2> QED BY <1>1, <1>2, <1>12, <2>1, ReconcilerStep DEF WriteState, Rest
  <1>13. CASE KillReconciler
    BY <1>1, <1>2, <1>13, ReconcilerStep DEF KillReconciler, Rest
  <1>14. Compare => \/ Compare /\ Rest
                    \/ /\ Compare /\ conf' = rec.conf /\ UNCHANGED lock
                       /\ rec' = [rec EXCEPT !.pc = "test", !.old = conf]
    BY DEF Compare
  <1> QED
    BY <1>3, <1>4, <1>5, <1>6, <1>7, <1>8, <1>9, <1>10, <1>11, <1>12, <1>13, <1>14 DEF Reconcile

LEMMA EnvironmentStep ==
  ASSUME IInv, Renew \/ \E s \in Scope : ContainerChanges(s)
  PROVE  IInv'
  <1> USE DEF proxyVars, recVars
  <1>1. /\ UNCHANGED <<current, unfinished, vhost, owner, conf, loaded, pending, lock, op, rec, state>>
        /\ cert' \in 0..MaxRenewals /\ changes' \in 0..MaxChanges
    <2>1. cert \in 0..MaxRenewals /\ changes \in 0..MaxChanges
      BY DEF IInv, TypeOK
    <2>2. MaxRenewals \in Nat /\ MaxChanges \in Nat
      BY ProxyAssumption
    <2>3. CASE Renew
      BY <2>1, <2>2, <2>3 DEF Renew
    <2>4. CASE \E s \in Scope : ContainerChanges(s)
      BY <2>1, <2>2, <2>4 DEF ContainerChanges
    <2> QED BY <2>3, <2>4
  <1>2. app' \in [Scope -> Containers] /\ Placed'
    <2>1. CASE app' = app
      BY <2>1 DEF IInv, TypeOK, Placed
    <2>2. ASSUME NEW s \in Scope, ContainerChanges(s) PROVE app' \in [Scope -> Containers] /\ Placed'
      <3>1. app \in [Scope -> Containers]
        BY DEF IInv, TypeOK
      <3>2. app[s].rel \in Release
        BY <2>2, <3>1 DEF ContainerChanges, Containers
      <3>3. CASE app' \in Started(s, app[s].rel, TRUE)
        BY <3>2, <3>3, StartedIsPlaced DEF IInv, Placed
      <3>4. CASE app' = [app EXCEPT ![s].up = FALSE]
        <4>1. app' \in [Scope -> Containers]
          BY <3>1, <3>4 DEF Containers
        <4>2. ~app'[s].up /\ \A t \in Scope \ {s} : app'[t] = app[t]
          BY <3>1, <3>4 DEF Containers
        <4> QED BY <4>1, <4>2 DEF IInv, Placed
      <3> QED BY <2>2, <3>3, <3>4 DEF ContainerChanges
    <2> QED BY <2>1, <2>2 DEF Renew
  <1>3. TypeOK'
    BY <1>1, <1>2 DEF IInv, TypeOK
  <1>4. Exclusive' /\ Settled'
    BY <1>1 DEF IInv, Exclusive, Active, Settled, Disjoint, Matches
  <1>5. \A t \in Scope : Own(t)'
    BY <1>1, Undisturbed
  <1> QED BY <1>2, <1>3, <1>4, <1>5 DEF IInv

-----------------------------------------------------------------------------
(* Every step *)

LEMMA CommandStep ==
  ASSUME IInv, NEW s \in Scope, Command(s)
  PROVE  IInv'
  BY BeginStep, StageStep, StartReleaseStep, InstallFragmentStep, InstalledStep, InstallFailsStep,
     RegenerateStep, TestConfigurationStep, WriteOwnershipStep, ReloadNginxStep, ActivateFailsStep,
     CommitStep, ReleaseLockStep, RestorePreviousStep, RestoreFilesStep, RegeneratePreviousStep,
     TestPreviousStep, ReloadPreviousStep, SettleStep, EndStep
  DEF Command

LEMMA StepInv == IInv /\ [Next]_vars => IInv'
  <1> SUFFICES ASSUME IInv, [Next]_vars PROVE IInv'
    OBVIOUS
  <1>1. CASE Next
    BY <1>1, CommandStep, ReconcileStep, EnvironmentStep DEF Next
  <1>2. CASE UNCHANGED vars
    <2>1. \A t \in Scope : Own(t)'
      BY <1>2, Undisturbed DEF vars
    <2>2. TypeOK'
      BY <1>2 DEF IInv, TypeOK, vars
    <2>3. Exclusive' /\ Placed' /\ Settled'
      BY <1>2 DEF IInv, Exclusive, Active, Placed, Settled, Disjoint, Matches, vars
    <2> QED BY <2>1, <2>2, <2>3 DEF IInv
  <1> QED BY <1>1, <1>2

LEMMA Invariance == Spec => []IInv
  BY InitInv, StepInv, PTL DEF Spec

(* The state of the proxy, its records and every command has its type. *)
THEOREM TypeCorrect == Spec => []TypeOK
  <1>1. IInv => TypeOK
    BY DEF IInv
  <1> QED BY <1>1, Invariance, PTL

(* A domain never has two owners, and while no activation is pending the fragments on   *)
(* disk are those of the owned domains, each its owner's, wherever commands were killed. *)
THEOREM OneOwner == Spec => []OwnershipIsSound
  <1>1. IInv => OwnershipIsSound
    BY DEF IInv, Settled, Disjoint, Matches, OwnershipIsSound, Owned
  <1> QED BY <1>1, Invariance, PTL

(* While no activation is pending nginx -t accepts what is on disk, also what the       *)
(* reconciler left half way: no fragment there is of a release it rejects.              *)
THEOREM RestartsCleanly == Spec => []ProxyCanRestart
  <1>1. IInv => ProxyCanRestart
    BY DEF IInv, Settled, Matches, ProxyCanRestart, Accepted, ServerNames
  <1> QED BY <1>1, Invariance, PTL

(* Only the end of a transaction removes the marker, and nginx then runs with its files. *)
THEOREM MarkerIsHonest == Spec => MarkerClearedWhenApplied
  <1> DEFINE Honest == pending /\ ~pending' => loaded.conf = conf /\ loaded.vhost = vhost
  <1>1. ASSUME IInv, Next, pending, ~pending' PROVE loaded.conf = conf /\ loaded.vhost = vhost
    <2>1. \E s \in Scope : ReleaseLock(s) \/ Settle(s)
      <3>1. ~Reconcile /\ ~Renew
        BY <1>1 DEF Reconcile, Renew, Tick, RenderCandidate, Compare, TestCandidate,
                    TestCandidateFails, ReloadCandidate, ReloadCandidateFails, UndoReload, WriteState,
                    KillReconciler
      <3>2. ASSUME NEW s \in Scope, Command(s) \/ ContainerChanges(s)
            PROVE  ReleaseLock(s) \/ Settle(s)
        BY <1>1, <3>2
        DEF Command, ContainerChanges, PrepareDeploy, BeginRetire, PrepareRetire, Stage, StartRelease,
            InstallFragment, Installed, InstallFails, Regenerate, TestConfiguration, WriteOwnership,
            ReloadNginx, ActivateFails, Commit, RestorePrevious, RestoreFiles, RegeneratePrevious,
            TestPrevious, ReloadPrevious, GiveUp, Kill
      <3> QED BY <1>1, <3>1, <3>2 DEF Next
    <2>2. PICK s \in Scope : op[s].pc \in {"release", "settle"}
      BY <2>1 DEF ReleaseLock, Settle, At
    <2>3. Marked(s)
      BY <1>1, <2>2 DEF IInv, Own, Active
    <2> QED BY <2>2, <2>3 DEF Marked
  <1>2. IInv /\ [Next]_vars => [Honest]_vars
    BY <1>1
  <1> QED BY <1>2, Invariance, PTL DEF Spec, MarkerClearedWhenApplied

-----------------------------------------------------------------------------
(* Second part: a transaction is atomic.  Beside IInv, the lock is held by whoever is at  *)
(* work only, and then each fragment is as it was found or as it is planned.              *)

Between(s) == \A h \in Host : vhost[h] \in {op[s].vhost[h], Planned(s, h)}

Halfway == lock \in Scope => Active(lock) /\ Between(lock)

(* What a transaction does to the fragments, whatever step it is at. *)
Rewrites(s) ==
  \A h \in Host : /\ vhost'[h] \in {vhost[h], op[s].vhost[h], Planned(s, h)}
                  /\ h \notin Plan(s) \cup op[s].owner => vhost'[h] = vhost[h]

(* From the reload on the plan counts, and no longer what was found. *)
Decided == {"commit", "release"}

(* What a command does to the lock, the marker, the fragments and what it knows of them. *)
Waits(s) ==
  /\ ~Active(s) /\ ~Active(s)' /\ \A t \in Scope \ {s} : op'[t] = op[t]
  /\ lock # s /\ UNCHANGED <<vhost, pending, lock>>

Prepares(s) ==
  /\ lock = None /\ lock' = s /\ ~pending /\ UNCHANGED <<vhost, pending>>
  /\ op'[s].pc = "stage" /\ op'[s].vhost = vhost

Proceeds(s) ==
  /\ Active(s) /\ Active(s)' /\ UNCHANGED lock
  /\ op'[s].rel = op[s].rel /\ op'[s].vhost = op[s].vhost /\ op'[s].owner = op[s].owner
  /\ Rewrites(s)
  /\ \/ op[s].pc \notin Decided /\ op'[s].pc \notin Decided
     \/ op[s].pc \in {"reload", "commit"} /\ op'[s].pc \in Decided /\ UNCHANGED vhost

Ends(s) ==
  /\ Active(s) /\ ~Active(s)' /\ lock' = None
  /\ Rewrites(s)
  /\ op[s].pc \in Decided => UNCHANGED vhost
  /\ ~pending' => op[s].pc \in {"stage", "release", "settle"} /\ UNCHANGED vhost

LEMMA KeepsFragments ==
  ASSUME IInv, NEW s \in Scope, UNCHANGED vhost
  PROVE  Rewrites(s)
  BY DEF Rewrites

LEMMA ProceedsBy ==
  ASSUME IInv, NEW s \in Scope, Active(s), NEW pc \in PC \ {"idle", "wait"}, Goto(s, pc),
         UNCHANGED lock, Rewrites(s),
         \/ op[s].pc \notin Decided /\ pc \notin Decided
         \/ op[s].pc \in {"reload", "commit"} /\ pc \in Decided /\ UNCHANGED vhost
  PROVE  Proceeds(s)
  <1>1. op \in [Scope -> Operation] /\ op' = [op EXCEPT ![s].pc = pc]
    BY DEF IInv, TypeOK, Goto
  <1>2. /\ op'[s].pc = pc /\ op'[s].rel = op[s].rel /\ op'[s].vhost = op[s].vhost
        /\ op'[s].owner = op[s].owner
    BY <1>1 DEF Operation
  <1> QED BY <1>2 DEF Proceeds, Active

LEMMA EndsBy ==
  ASSUME IInv, NEW s \in Scope, Active(s), Leave(s), Rewrites(s),
         op[s].pc \in Decided => UNCHANGED vhost,
         ~pending' => op[s].pc \in {"stage", "release", "settle"} /\ UNCHANGED vhost
  PROVE  Ends(s)
  <1>1. lock = s /\ op \in [Scope -> Operation]
    BY Alone DEF IInv, TypeOK
  <1>2. lock' = None /\ op'[s].pc = "idle"
    BY <1>1 DEF Leave, Idle
  <1> QED BY <1>2 DEF Ends, Active

LEMMA CommandEffect ==
  ASSUME IInv, Halfway, NEW s \in Scope, Command(s)
  PROVE  Waits(s) \/ Prepares(s) \/ Proceeds(s) \/ Ends(s)
  <1> USE DEF proxyVars, hostVars
  <1>0. op \in [Scope -> Operation]
    BY DEF IInv, TypeOK
  <1>1. CASE (\E r \in Release : PrepareDeploy(s, r)) \/ PrepareRetire(s)
    <2>1. PICK r \in Release \cup {None} : Prepare(s, r, "stage") /\ UNCHANGED <<vhost, pending>>
      BY <1>1 DEF PrepareDeploy, PrepareRetire
    <2>2. /\ lock = None /\ lock' = s /\ ~pending
          /\ op' = [op EXCEPT ![s] = [pc |-> "stage", rel |-> r, vhost |-> vhost,
                                      owner |-> owner[s], conf |-> conf]]
      BY <2>1 DEF Prepare, Refused
    <2>3. op'[s].pc = "stage" /\ op'[s].vhost = vhost
      BY <1>0, <2>2
    <2> QED BY <2>1, <2>2, <2>3 DEF Prepares
  <1>2. CASE BeginRetire(s)
    <2>1. /\ op[s].pc = "idle" /\ op' = [op EXCEPT ![s] = [Idle EXCEPT !.pc = "wait"]]
          /\ UNCHANGED <<vhost, pending, lock>>
      BY <1>2 DEF BeginRetire, At
    <2>2. op'[s].pc = "wait" /\ \A t \in Scope \ {s} : op'[t] = op[t]
      BY <1>0, <2>1 DEF Idle
    <2>3. ~Active(s) /\ ~Active(s)' /\ lock # s
      BY <2>1, <2>2 DEF Active, Halfway
    <2> QED BY <2>1, <2>2, <2>3 DEF Waits
  <1>3. CASE Kill(s) /\ ~Active(s)
    <2>1. op' = [op EXCEPT ![s] = Idle] /\ UNCHANGED <<vhost, pending>> /\ lock # s
      BY <1>3 DEF Kill, Leave, Halfway
    <2>2. op'[s].pc = "idle" /\ \A t \in Scope \ {s} : op'[t] = op[t]
      BY <1>0, <2>1 DEF Idle
    <2>3. UNCHANGED lock
      BY <1>3, <2>1 DEF Kill, Leave
    <2> QED BY <1>3, <2>1, <2>2, <2>3 DEF Waits, Active
  <1>4. CASE (Kill(s) /\ Active(s)) \/ GiveUp(s)
    <2>1. Active(s) /\ Leave(s) /\ UNCHANGED <<vhost, pending>>
      BY <1>4 DEF Kill, GiveUp, Active
    <2>2. ~pending => op[s].pc = "stage"
      BY <2>1 DEF IInv, Own, Marked
    <2> QED BY <2>1, <2>2, KeepsFragments, EndsBy
  <1>5. CASE ReleaseLock(s) \/ Settle(s)
    <2>1. /\ op[s].pc \in {"release", "settle"} /\ Active(s) /\ Leave(s) /\ UNCHANGED vhost
      BY <1>5 DEF ReleaseLock, Settle, At, Active
    <2> QED BY <2>1, KeepsFragments, EndsBy
  <1>6. CASE InstallFails(s) \/ ActivateFails(s)
    <2>1. /\ op[s].pc \in {"install", "render", "test", "own", "reload"} /\ Fail(s)
          /\ UNCHANGED pending /\ vhost' \in {vhost, op[s].vhost}
      BY <1>6 DEF InstallFails, ActivateFails, At
    <2>2. Active(s)
      BY <2>1 DEF Active
    <2>3. pending /\ Progress(s)
      BY <2>1, <2>2 DEF IInv, Own, Marked
    <2>4. Rewrites(s)
      BY <2>1, <2>3 DEF Rewrites, Progress
    <2>5. CASE op[s].rel = None
      BY <2>1, <2>2, <2>3, <2>4, <2>5, EndsBy DEF Fail, Decided
    <2>6. CASE op[s].rel # None
      BY <2>1, <2>2, <2>4, <2>6, ProceedsBy DEF Fail, PC, Decided
    <2> QED BY <2>5, <2>6
  <1>7. CASE \E h \in Host : InstallFragment(s, h)
    <2>1. PICK h \in Host : InstallFragment(s, h)
      BY <1>7
    <2>2. /\ op[s].pc = "install" /\ vhost' = [vhost EXCEPT ![h] = Planned(s, h)]
          /\ vhost[h] # Planned(s, h) /\ UNCHANGED <<op, lock>>
      BY <2>1 DEF InstallFragment, At
    <2>3. vhost \in Fragments
      BY DEF IInv, TypeOK
    <2>4. Rewrites(s)
      BY <2>2, <2>3 DEF Rewrites, Planned, Fragments
    <2> QED BY <2>2, <2>4 DEF Proceeds, Active, Decided
  <1>8. CASE RestoreFiles(s)
    <2>1. /\ op[s].pc = "unstage" /\ Goto(s, "rerender") /\ UNCHANGED lock
          /\ vhost' = [h \in Host |-> IF h \in Plan(s) \cup op[s].owner THEN op[s].vhost[h] ELSE vhost[h]]
      BY <1>8 DEF RestoreFiles, At
    <2>2. Rewrites(s)
      BY <2>1 DEF Rewrites
    <2> QED BY <2>1, <2>2, ProceedsBy DEF Active, PC, Decided
  <1>9. CASE \/ Stage(s) \/ StartRelease(s) \/ Installed(s) \/ Regenerate(s) \/ TestConfiguration(s)
             \/ WriteOwnership(s) \/ ReloadNginx(s) \/ Commit(s) \/ RestorePrevious(s)
             \/ RegeneratePrevious(s) \/ TestPrevious(s) \/ ReloadPrevious(s)
    <2>1. UNCHANGED <<vhost, lock>> /\ Active(s)
      BY <1>9 DEF Stage, StartRelease, Installed, Regenerate, TestConfiguration, WriteOwnership,
                  ReloadNginx, Commit, RestorePrevious, RegeneratePrevious, TestPrevious,
                  ReloadPrevious, At, Active
    <2>2. \E pc \in PC \ {"idle", "wait"} :
            /\ Goto(s, pc)
            /\ \/ op[s].pc \notin Decided /\ pc \notin Decided
               \/ op[s].pc \in {"reload", "commit"} /\ pc \in Decided
      <3>1. CASE Stage(s)
        BY <3>1 DEF Stage, PC, Decided, At
      <3>2. CASE StartRelease(s)
        <4>1. op[s].pc = "start" /\ (Goto(s, "install") \/ Goto(s, "restore"))
          BY <3>2 DEF StartRelease, At
        <4> QED BY <4>1 DEF PC, Decided
      <3>3. CASE Installed(s) \/ Regenerate(s) \/ TestConfiguration(s)
        BY <3>3 DEF Installed, Regenerate, TestConfiguration, PC, Decided, At
      <3>4. CASE WriteOwnership(s) \/ ReloadNginx(s) \/ Commit(s) \/ RestorePrevious(s)
        BY <3>4 DEF WriteOwnership, ReloadNginx, Commit, RestorePrevious, PC, Decided, At
      <3>5. CASE RegeneratePrevious(s) \/ TestPrevious(s) \/ ReloadPrevious(s)
        BY <3>5 DEF RegeneratePrevious, TestPrevious, ReloadPrevious, PC, Decided, At
      <3> QED BY <1>9, <3>1, <3>2, <3>3, <3>4, <3>5
    <2> QED BY <2>1, <2>2, KeepsFragments, ProceedsBy
  <1> QED BY <1>1, <1>2, <1>3, <1>4, <1>5, <1>6, <1>7, <1>8, <1>9 DEF Command

(* Everything else leaves commands and fragments alone. *)
LEMMA OthersEffect ==
  ASSUME IInv, Reconcile \/ Renew \/ (\E s \in Scope : ContainerChanges(s)) \/ UNCHANGED vars
  PROVE  /\ UNCHANGED <<vhost, pending, op>>
         /\ UNCHANGED lock \/ (lock \notin Scope /\ lock' \notin Scope)
  <1>1. CASE Reconcile
    <2>1. UNCHANGED <<vhost, pending, op>>
      BY <1>1 DEF Reconcile, Tick, RenderCandidate, Compare, TestCandidate, TestCandidateFails,
                  ReloadCandidate, ReloadCandidateFails, UndoReload, WriteState, KillReconciler,
                  proxyVars
    <2>2. \/ UNCHANGED lock
          \/ rec.pc # "idle" /\ lock' = None
          \/ lock = None /\ lock' = Reconciler
      BY <1>1 DEF Reconcile, Tick, RenderCandidate, Compare, TestCandidate, TestCandidateFails,
                  ReloadCandidate, ReloadCandidateFails, UndoReload, WriteState, KillReconciler, Rest,
                  proxyVars
    <2>3. rec.pc # "idle" => lock = Reconciler
      BY DEF IInv, Exclusive
    <2> QED BY <2>1, <2>2, <2>3, ProxyAssumption
  <1>2. CASE Renew \/ \E s \in Scope : ContainerChanges(s)
    BY <1>2 DEF Renew, ContainerChanges, proxyVars
  <1>3. CASE UNCHANGED vars
    BY <1>3 DEF vars
  <1> QED BY <1>1, <1>2, <1>3

LEMMA HalfwayInv == IInv /\ Halfway /\ [Next]_vars => Halfway'
  <1> SUFFICES ASSUME IInv, Halfway, [Next]_vars, lock' \in Scope
               PROVE  Active(lock)' /\ Between(lock)'
    BY DEF Halfway
  <1>1. ASSUME NEW s \in Scope, Command(s) PROVE Active(lock)' /\ Between(lock)'
    <2>1. CASE Waits(s)
      <3>1. lock' = lock /\ lock # s /\ op'[lock] = op[lock] /\ vhost' = vhost
        BY <2>1 DEF Waits
      <3> QED BY <3>1 DEF Halfway, Active, Between, Planned, Plan
    <2>2. CASE Prepares(s)
      BY <2>2 DEF Prepares, Active, Between
    <2>3. CASE Proceeds(s)
      <3>1. lock = s /\ lock' = s
        BY <2>3, Alone DEF Proceeds
      <3>2. Between(s) /\ Progress(s)
        BY <2>3, <3>1 DEF Halfway, IInv, Own, Proceeds
      <3>3. Plan(s)' = Plan(s)
        BY <2>3 DEF Proceeds, Plan
      <3>4. ASSUME NEW h \in Host PROVE vhost'[h] \in {op'[s].vhost[h], Planned(s, h)'}
        <4>1. CASE h \in Plan(s) \cup op[s].owner
          <5>1. Planned(s, h)' = Planned(s, h)
            BY <2>3, <3>3, <4>1 DEF Proceeds, Planned
          <5> QED BY <2>3, <3>2, <5>1 DEF Proceeds, Rewrites, Between
        <4>2. CASE h \notin Plan(s) \cup op[s].owner
          BY <2>3, <3>2, <4>2 DEF Proceeds, Rewrites, Progress
        <4> QED BY <4>1, <4>2
      <3> QED BY <2>3, <3>1, <3>4 DEF Proceeds, Between
    <2>4. CASE Ends(s)
      BY <2>4, ProxyAssumption DEF Ends
    <2> QED BY <1>1, <2>1, <2>2, <2>3, <2>4, CommandEffect
  <1>2. CASE Reconcile \/ Renew \/ (\E s \in Scope : ContainerChanges(s)) \/ UNCHANGED vars
    <2>1. UNCHANGED <<vhost, op, lock>>
      BY <1>2, OthersEffect
    <2> QED BY <2>1 DEF Halfway, Active, Between, Planned, Plan
  <1> QED BY <1>1, <1>2 DEF Next

LEMMA HalfwayInvariance == Spec => [](IInv /\ Halfway)
  <1>1. Init => Halfway
    BY ProxyAssumption DEF Init, Halfway
  <1> QED BY <1>1, InitInv, StepInv, HalfwayInv, PTL DEF Spec

(* The hosts DomainSwitch has s hold are those it was found to own, so that the plan is *)
(* allowed and is what the transaction is to write.                                     *)
LEMMA PlanIsASwitch ==
  ASSUME IInv, NEW s \in Scope, Active(s), op[s].pc \notin Decided
  PROVE  /\ Serving = op[s].vhost
         /\ Switching!Allowed(s, op[s].rel)
         /\ \A h \in Host : Switching!After(s, op[s].rel)[h] = Planned(s, h)
  <1>1. lock = s /\ op[s].rel \in Release \cup {None} /\ op[s].vhost \in Fragments
    BY Alone DEF IInv, TypeOK, Operation
  <1>2. Serving = op[s].vhost
    BY <1>1 DEF Serving, Undecided, Decided
  <1>3. Prepared(s) /\ Progress(s)
    BY DEF IInv, Own
  <1>4. /\ Found(s)[s] = op[s].owner
        /\ \A t \in Scope \ {s} : Found(s)[t] = owner[t]
    BY DEF IInv, TypeOK, Found
  <1>5. \A h \in Host : op[s].vhost[h] # None => ScopeOf[op[s].vhost[h]] \in Scope
    BY <1>1, ProxyAssumption DEF Fragments
  <1>6. ASSUME NEW h \in Host
        PROVE  (op[s].vhost[h] # None /\ ScopeOf[op[s].vhost[h]] = s) <=> h \in op[s].owner
    BY <1>3, <1>4, <1>5 DEF Prepared, Matches, Disjoint
  <1>7. \A h \in Plan(s) : h \in Host /\ (op[s].vhost[h] = None \/ ScopeOf[op[s].vhost[h]] = s)
    <2>1. Plan(s) \subseteq Host
      BY <1>1, ProxyAssumption DEF Plan
    <2> QED BY <1>3, <1>4, <1>5, <2>1 DEF Prepared, Matches
  <1>8. Switching!Allowed(s, op[s].rel)
    BY <1>2, <1>3, <1>7 DEF Switching!Allowed, Switching!Held, Prepared, Plan
  <1>9. ASSUME NEW h \in Host PROVE Switching!After(s, op[s].rel)[h] = Planned(s, h)
    <2>1. h \in Switching!Held(s) <=> h \in op[s].owner
      BY <1>2, <1>6 DEF Switching!Held
    <2>2. h \notin Plan(s) \cup op[s].owner => vhost[h] = op[s].vhost[h]
      BY <1>3 DEF Progress
    <2> QED BY <1>2, <2>1, <2>2 DEF Switching!After, Planned, Plan
  <1> QED BY <1>2, <1>8, <1>9

LEMMA SwitchInit == Init => Switching!Init
  BY ProxyAssumption DEF Init, Switching!Init, Serving, Undecided, Torn, Empty

(* A command: the reload is the switch, and an end that leaves the marker is a tear. *)
LEMMA CommandSwitches ==
  ASSUME IInv, Halfway, NEW s \in Scope, Command(s)
  PROVE  Switching!Next \/ UNCHANGED <<Serving, Torn>>
  <1>1. CASE Waits(s)
    BY <1>1 DEF Waits, Serving, Undecided, Torn
  <1>2. CASE Prepares(s)
    BY <1>2, ProxyAssumption DEF Prepares, Serving, Undecided, Torn
  <1>3. CASE Proceeds(s)
    <2>1. /\ lock = s /\ lock' = s /\ ~Torn /\ ~Torn' /\ UNCHANGED Torn
          /\ op'[s].vhost = op[s].vhost /\ op[s].rel \in Release \cup {None}
      BY <1>3, Alone DEF Proceeds, Torn, IInv, TypeOK, Operation
    <2>2. CASE op[s].pc \notin Decided /\ op'[s].pc \notin Decided
      BY <2>1, <2>2 DEF Serving, Undecided, Decided
    <2>3. CASE op[s].pc = "commit" /\ op'[s].pc \in Decided /\ UNCHANGED vhost
      BY <2>1, <2>3 DEF Serving, Undecided, Decided
    <2>4. CASE op[s].pc = "reload" /\ op'[s].pc \in Decided /\ UNCHANGED vhost
      <3>1. Active(s) /\ op[s].pc \notin Decided
        BY <2>4 DEF Active, Decided
      <3>2. Serving' = vhost /\ vhost \in Fragments
        BY <2>1, <2>4 DEF Serving, Undecided, Decided, IInv, TypeOK
      <3>3. \A h \in Host : vhost[h] = Switching!After(s, op[s].rel)[h]
        BY <2>4, <3>1, PlanIsASwitch DEF IInv, Own, Progress
      <3>4. Serving' = Switching!After(s, op[s].rel)
        BY <3>2, <3>3 DEF Switching!After, Fragments
      <3>5. Switching!Switch(s, op[s].rel)
        BY <2>1, <3>1, <3>4, PlanIsASwitch DEF Switching!Switch
      <3> QED BY <2>1, <3>5 DEF Switching!Next
    <2> QED BY <1>3, <2>2, <2>3, <2>4 DEF Proceeds
  <1>4. CASE Ends(s)
    <2>0. Active(s) /\ lock = s /\ lock' \notin Scope /\ op[s].rel \in Release \cup {None}
      BY <1>4, Alone, ProxyAssumption DEF Ends, IInv, TypeOK, Operation
    <2>1. /\ Active(s) /\ lock = s /\ ~Torn /\ (Torn' <=> pending')
          /\ Serving' = vhost' /\ op[s].rel \in Release \cup {None}
      BY <2>0 DEF Torn, Serving, Undecided
    <2>2. CASE ~pending'
      <3>1. Serving = vhost
        BY <1>4, <2>1, <2>2 DEF Ends, Serving, Undecided, Decided, IInv, Own, Progress
      <3> QED BY <1>4, <2>1, <2>2, <3>1 DEF Ends, Torn
    <2>3. CASE pending' /\ op[s].pc \notin Decided
      <3>1. \A h \in Host : vhost'[h] \in {op[s].vhost[h], Planned(s, h)}
        BY <1>4, <2>1 DEF Ends, Rewrites, Halfway, Between
      <3>2. Switching!Tear(s, op[s].rel)
        BY <2>1, <2>3, <3>1, PlanIsASwitch DEF Switching!Tear
      <3> QED BY <2>1, <3>2 DEF Switching!Next
    <2>4. CASE pending' /\ op[s].pc \in Decided
      <3>1. Serving' = Serving
        BY <1>4, <2>1, <2>4 DEF Ends, Serving, Undecided, Decided
      <3>2. Switching!Tear(s, None)
        BY <2>1, <2>4, <3>1 DEF Switching!Tear, Switching!Allowed
      <3> QED BY <3>2 DEF Switching!Next
    <2> QED BY <2>2, <2>3, <2>4
  <1> QED BY <1>1, <1>2, <1>3, <1>4, CommandEffect

LEMMA SwitchStep ==
  IInv /\ Halfway /\ [Next]_vars => [Switching!Next]_(Switching!switchVars)
  <1> SUFFICES ASSUME IInv, Halfway, [Next]_vars
               PROVE  Switching!Next \/ UNCHANGED <<Serving, Torn>>
    BY DEF Switching!switchVars
  <1>1. CASE \E s \in Scope : Command(s)
    BY <1>1, CommandSwitches
  <1>2. CASE Reconcile \/ Renew \/ (\E s \in Scope : ContainerChanges(s)) \/ UNCHANGED vars
    BY <1>2, OthersEffect DEF Serving, Undecided, Torn
  <1> QED BY <1>1, <1>2 DEF Next

(* nginx transactions are atomic: the domains of a scope switch to a release together, or *)
(* not at all, and a transaction cut short leaves the marker that refuses the next one    *)
(* (stage, activate, rollback and release of NginxTransaction).                           *)
THEOREM TransactionsAreAtomic == Spec => SwitchImplemented
  <1> QED BY HalfwayInvariance, SwitchInit, SwitchStep, PTL
          DEF Spec, SwitchImplemented, Switching!Spec

=============================================================================
