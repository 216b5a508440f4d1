--------------------- MODULE DatabaseCredentialProofs ---------------------
(***************************************************************************)
(* Theorems about DatabaseCredential, for any number of releases, majors,  *)
(* passwords and processes: how far database, credential file, app.env and *)
(* containers may come apart.                                              *)
(***************************************************************************)
EXTENDS DatabaseCredential, TLAPS

-----------------------------------------------------------------------------
(* The inductive invariant *)

Preparing == {"materialise", "credential", "compose", "up", "inject"}
Executing == {"record", "start", "commit"}
Rotating  == {"alter", "store", "rematerialise", "reinject", "restart"}
Working   == PC \ {"idle", "confirmed"}

(* A command past its first step holds the lock, and none is left while the host boots. *)
Exclusive == \A p \in Proc : op[p].pc \in Working => lock = p
Gated     == host = "booting" => \A p \in Proc : op[p].pc = "idle"

Running == dbUp => HasVolume

(* When database and credential differ, by a rotation cut short, the password PostgreSQL  *)
(* accepts is one that neither the containers nor the current app.env ever had.           *)
Apart ==
  HasVolume /\ stored # db.pw =>
    app.pw # db.pw /\ (current # None => env[current] # db.pw)

(* What a deploy or rollback relies on. *)
Prepares(p) ==
  /\ op[p].pc \in Preparing => op[p].todo # <<>> /\ op[p].todo[Len(op[p].todo)] = op[p].rel
  /\ op[p].pc \in Preparing \cup Executing \cup {"restore"} =>
       op[p].rel \in Release /\ op[p].previous = current
  /\ op[p].pc \in {"compose", "up", "inject"} => op[p].pw = stored /\ stored # None
  /\ op[p].pc = "up" => compose # None
  /\ op[p].pc \in {"inject"} \cup Executing => dbUp /\ HasVolume
  /\ op[p].pc \in Executing => env[op[p].rel] = stored /\ stored # None
  /\ op[p].pc = "commit" => app.ok /\ app.rel = op[p].rel /\ app.pw = stored

(* What a rotation relies on. *)
Rotates(p) ==
  /\ op[p].pc \in Rotating =>
       /\ op[p].kind = "rotate" /\ op[p].rel \in Release /\ op[p].rel = current
       /\ op[p].pw # None
  /\ op[p].pc = "alter" => /\ op[p].pw \notin {app.pw, stored}
                           /\ op[p].pw # env[current]
  /\ op[p].pc \in Rotating \ {"alter"} => HasVolume
  /\ op[p].pc = "store" => db.pw = op[p].pw
  /\ op[p].pc \in {"rematerialise", "reinject", "restart"} => stored = db.pw
  /\ op[p].pc = "restart" => env[op[p].rel] = stored

(* A purge removes the files when the volume is gone. *)
Purges(p) == op[p].pc = "trees" => ~HasVolume

Own(p) == Prepares(p) /\ Rotates(p) /\ Purges(p)

State == SacredVolume /\ Running /\ Apart

IInv == TypeOK /\ Exclusive /\ Gated /\ State /\ \A p \in Proc : Own(p)

-----------------------------------------------------------------------------
(* Lemmas about the helpers *)

LEMMA Kinds ==
  /\ Idle \in Operation /\ Idle.pc = "idle" /\ Idle.kind = "none"
  /\ Down \in Containers /\ Down.pw = None /\ ~Down.ok
  /\ NoVolume \in Volume
  /\ \A pw \in Password, m \in Major : [pw |-> pw, major |-> m] \in Volume
  /\ \A v \in Volume : v # NoVolume => v.pw \in Password /\ v.major \in Major
  /\ \A pw \in Password : pw # None /\ pw # NoUrl /\ pw \in EnvFile
  /\ NoUrl \in EnvFile /\ None \in EnvFile
  /\ \A m \in Major : m # None
  /\ \A r \in Release : r # None /\ MajorOf[r] \in Major
  /\ \A q \in Proc : q # None
  <1>1. <<>> \in Seq(Release)
    OBVIOUS
  <1>2. Idle \in Operation /\ Idle.pc = "idle" /\ Idle.kind = "none"
    BY <1>1 DEF Idle, Operation, PC, Kind
  <1>3. Down \in Containers /\ Down.pw = None /\ ~Down.ok
    BY DEF Down, Containers, EnvFile
  <1>4. \A v \in Volume : v # NoVolume => v.pw \in Password /\ v.major \in Major
    BY DEF Volume, NoVolume
  <1>5. /\ NoVolume \in Volume
        /\ \A pw \in Password, m \in Major : [pw |-> pw, major |-> m] \in Volume
    BY DEF Volume, NoVolume
  <1>6. /\ \A pw \in Password : pw # None /\ pw # NoUrl /\ pw \in EnvFile
        /\ NoUrl \in EnvFile /\ None \in EnvFile
        /\ \A m \in Major : m # None
        /\ \A r \in Release : r # None /\ MajorOf[r] \in Major
        /\ \A q \in Proc : q # None
    BY CredentialAssumption DEF EnvFile
  <1> QED BY <1>2, <1>3, <1>4, <1>5, <1>6

(* The releases that still get their URL: the candidate is the last of them. *)
LEMMA Remaining ==
  ASSUME NEW s \in Seq(Release), s # <<>>
  PROVE  /\ Head(s) \in Release
         /\ Tail(s) \in Seq(Release)
         /\ Tail(s) = <<>> => Head(s) = s[Len(s)]
         /\ Tail(s) # <<>> => Tail(s)[Len(Tail(s))] = s[Len(s)]
  <1>1. Len(s) \in Nat /\ Len(s) >= 1
    OBVIOUS
  <1>2. Head(s) = s[1] /\ Head(s) \in Release /\ Tail(s) \in Seq(Release)
    BY <1>1
  <1>3. Len(Tail(s)) = Len(s) - 1 /\ \A i \in 1..(Len(s) - 1) : Tail(s)[i] = s[i + 1]
    BY <1>1
  <1>4. Tail(s) = <<>> => Len(s) = 1
    <2>1. Len(<<>>) = 0
      OBVIOUS
    <2>2. Tail(s) = <<>> => Len(Tail(s)) = 0
      BY <2>1
    <2> QED BY <1>1, <1>3, <2>2
  <1>5. Tail(s) # <<>> => Len(Tail(s)) >= 1
    BY <1>2
  <1> QED BY <1>1, <1>2, <1>3, <1>4, <1>5

LEMMA Lists ==
  ASSUME NEW r \in Release, NEW q \in Release
  PROVE  /\ <<r>> \in Seq(Release) /\ <<r>> # <<>> /\ <<r>>[Len(<<r>>)] = r
         /\ <<q, r>> \in Seq(Release) /\ <<q, r>> # <<>> /\ <<q, r>>[Len(<<q, r>>)] = r
  OBVIOUS

(* What p is at when it goes on, or leaves. *)
Onward(p, pc) ==
  /\ op' \in [Proc -> Operation]
  /\ op'[p].pc = pc
  /\ op'[p].kind = op[p].kind /\ op'[p].rel = op[p].rel /\ op'[p].previous = op[p].previous
  /\ \A q \in Proc \ {p} : op'[q] = op[q]

LEMMA Goes ==
  ASSUME TypeOK, NEW p \in Proc, NEW pc \in PC, Goto(p, pc)
  PROVE  Onward(p, pc) /\ op'[p].todo = op[p].todo /\ op'[p].pw = op[p].pw
  <1>1. op[p] \in Operation /\ op \in [Proc -> Operation]
    BY DEF TypeOK
  <1>2. [op[p] EXCEPT !.pc = pc] \in Operation
    BY <1>1 DEF Operation
  <1>3. op'[p] = [op[p] EXCEPT !.pc = pc] /\ \A q \in Proc \ {p} : op'[q] = op[q]
    BY <1>1 DEF Goto
  <1>4. op' \in [Proc -> Operation]
    BY <1>1, <1>2 DEF Goto
  <1> QED BY <1>1, <1>3, <1>4 DEF Operation, Onward

LEMMA Leaves ==
  ASSUME TypeOK, NEW p \in Proc, Leave(p)
  PROVE  /\ op' \in [Proc -> Operation]
         /\ op'[p].pc = "idle"
         /\ \A q \in Proc \ {p} : op'[q] = op[q]
         /\ lock' \in Proc \cup {None}
         /\ lock' = lock \/ (lock = p /\ lock' = None)
  <1>0. Idle \in Operation /\ Idle.pc = "idle"
    BY Kinds
  <1>1. op \in [Proc -> Operation] /\ lock \in Proc \cup {None}
    BY DEF TypeOK
  <1>2. op' = [op EXCEPT ![p] = Idle] /\ lock' = IF lock = p THEN None ELSE lock
    BY DEF Leave
  <1>3. op' \in [Proc -> Operation] /\ op'[p] = Idle /\ \A q \in Proc \ {p} : op'[q] = op[q]
    BY <1>0, <1>1, <1>2
  <1> QED BY <1>0, <1>1, <1>2, <1>3

(* A command that holds the lock, or takes it, is the only one that works; so what the     *)
(* others rely on does not matter.                                                         *)
LEMMA Alone ==
  ASSUME IInv, NEW p \in Proc, op[p].pc \in Working \/ lock = None, NEW q \in Proc \ {p}
  PROVE  op[q].pc \notin Working
  BY Kinds DEF IInv, Exclusive

LEMMA Undisturbed ==
  ASSUME IInv, NEW p \in Proc,
         op[p].pc \in Working \/ lock = None,
         host = "up", UNCHANGED host,
         TypeOK', \A q \in Proc \ {p} : op'[q] = op[q],
         op'[p].pc \in Working => lock' = p,
         State', Own(p)'
  PROVE  IInv'
  <1>1. \A q \in Proc \ {p} : op'[q].pc \notin Working /\ op'[q].pc \in PC
    BY Alone DEF IInv, TypeOK, Operation
  <1>2. Exclusive'
    BY <1>1 DEF Exclusive
  <1>3. Gated'
    BY DEF Gated
  <1>4. ASSUME NEW q \in Proc \ {p} PROVE Own(q)'
    <2>1. op'[q].pc \in {"idle", "confirmed"}
      BY <1>1 DEF Working
    <2> QED BY <2>1 DEF Own, Prepares, Rotates, Purges, Preparing, Executing, Rotating
  <1> QED BY <1>2, <1>3, <1>4 DEF IInv

(* A command that has left relies on nothing. *)
LEMMA IdleOwns ==
  ASSUME NEW p \in Proc, op'[p].pc \in {"idle", "confirmed"}
  PROVE  Own(p)' /\ op'[p].pc \notin Working
  BY DEF Own, Prepares, Rotates, Purges, Preparing, Executing, Rotating, Working

-----------------------------------------------------------------------------
(* The steps *)

LEMMA Initially == Init => IInv
  <1> SUFFICES ASSUME Init PROVE IInv
    OBVIOUS
  <1>1. /\ op = [p \in Proc |-> Idle] /\ Idle \in Operation /\ Idle.pc = "idle"
        /\ db = NoVolume /\ app = Down /\ NoVolume \in Volume /\ Down \in Containers
        /\ env = [r \in Release |-> None] /\ None \in EnvFile
    BY Kinds DEF Init
  <1>2. TypeOK
    BY <1>1 DEF Init, TypeOK
  <1>3. Exclusive /\ Gated
    BY <1>1 DEF Init, Exclusive, Gated, Working
  <1>4. State
    BY <1>1 DEF Init, State, SacredVolume, HasVolume, Running, Apart
  <1>5. \A p \in Proc : Own(p)
    BY <1>1 DEF Own, Prepares, Rotates, Purges, Preparing, Executing, Rotating
  <1> QED BY <1>2, <1>3, <1>4, <1>5 DEF IInv

(* Every command that takes the lock begins from idle, with a record of its own. *)
LEMMA Begins ==
  ASSUME IInv, NEW p \in Proc, NEW r \in Operation,
         At(p, "idle"), LockScope(p), r.pc \in PC,
         op' = [op EXCEPT ![p] = r], UNCHANGED <<dbVars, env, app, ledgerVars, host>>
  PROVE  /\ TypeOK' /\ State'
         /\ op'[p] = r
         /\ Own(p)' => IInv'
  <1>0. TypeOK /\ State /\ host = "up" /\ lock = None /\ lock' = p
    BY DEF IInv, At, LockScope
  <1>1. /\ op' \in [Proc -> Operation] /\ op'[p] = r
        /\ \A q \in Proc \ {p} : op'[q] = op[q]
    BY <1>0 DEF TypeOK
  <1>2. TypeOK'
    BY <1>0, <1>1 DEF TypeOK, dbVars, ledgerVars
  <1>3. State'
    BY <1>0 DEF State, SacredVolume, HasVolume, Running, Apart, dbVars, ledgerVars
  <1> QED BY <1>0, <1>1, <1>2, <1>3, Undisturbed

LEMMA BeginsToPrepare ==
  ASSUME IInv, NEW p \in Proc, NEW r \in Release, BeginDeploy(p, r) \/ BeginRollback(p, r)
  PROVE  IInv'
  <1>0. TypeOK
    BY DEF IInv
  <1>1. \E kind \in {"deploy", "redeploy", "rollback"}, todo \in Seq(Release) :
          /\ op' = [op EXCEPT ![p] = [Idle EXCEPT !.pc = "materialise", !.kind = kind, !.rel = r,
                                                  !.previous = current, !.todo = todo]]
          /\ todo # <<>> /\ todo[Len(todo)] = r
    <2>1. CASE BeginDeploy(p, r)
      <3>1. op' = [op EXCEPT ![p] = [Idle EXCEPT !.pc = "materialise", !.rel = r,
                                !.kind = IF r = current THEN "redeploy" ELSE "deploy",
                                !.previous = current, !.todo = <<r>>]]
        BY <2>1 DEF BeginDeploy
      <3> QED BY <3>1, Lists DEF Idle
    <2>2. CASE BeginRollback(p, r)
      <3>1. current \in Release
        BY <1>0, <2>2 DEF BeginRollback, TypeOK
      <3>2. op' = [op EXCEPT ![p] = [Idle EXCEPT !.pc = "materialise", !.rel = r,
                                          !.kind = "rollback",
                                          !.previous = current, !.todo = <<current, r>>]]
        BY <2>2 DEF BeginRollback
      <3> QED BY <3>1, <3>2, Lists DEF Idle
    <2> QED BY <2>1, <2>2
  <1>2. PICK kind \in {"deploy", "redeploy", "rollback"}, todo \in Seq(Release) :
          /\ op' = [op EXCEPT ![p] = [Idle EXCEPT !.pc = "materialise", !.kind = kind, !.rel = r,
                                                  !.previous = current, !.todo = todo]]
          /\ todo # <<>> /\ todo[Len(todo)] = r
    BY <1>1
  <1> DEFINE new == [Idle EXCEPT !.pc = "materialise", !.kind = kind, !.rel = r,
                                 !.previous = current, !.todo = todo]
  <1>3. /\ new \in Operation /\ new.pc = "materialise" /\ new.rel = r /\ new.todo = todo
        /\ new.previous = current
    BY <1>0, <1>2 DEF Idle, Operation, PC, Kind, TypeOK
  <1>4. /\ At(p, "idle") /\ LockScope(p) /\ UNCHANGED <<dbVars, env, app, ledgerVars, host>>
    BY DEF BeginDeploy, BeginRollback
  <1>5. op' = [op EXCEPT ![p] = new]
    BY <1>2
  <1> HIDE DEF new
  <1>6. op'[p] = new /\ (Own(p)' => IInv')
    BY <1>3, <1>4, <1>5, Begins DEF PC
  <1>7. Own(p)'
    BY <1>2, <1>3, <1>4, <1>6
       DEF Own, Prepares, Rotates, Purges, Preparing, Executing, Rotating, ledgerVars
  <1> QED BY <1>6, <1>7

LEMMA BeginsToRotate ==
  ASSUME IInv, NEW p \in Proc, BeginRotate(p)
  PROVE  IInv'
  <1>0. TypeOK
    BY DEF IInv
  <1>1. /\ At(p, "idle") /\ LockScope(p) /\ UNCHANGED <<dbVars, env, app, ledgerVars, host>>
        /\ current \in Release
    BY <1>0 DEF BeginRotate, TypeOK
  <1>2. PICK pw \in Fresh :
          op' = [op EXCEPT ![p] = [Idle EXCEPT !.pc = "alter", !.kind = "rotate",
                                               !.rel = current, !.pw = pw]]
    BY DEF BeginRotate
  <1>3. /\ pw \in Password /\ pw # None
        /\ pw \notin {app.pw, stored} /\ pw # env[current]
    BY <1>1, <1>2, CredentialAssumption DEF Fresh
  <1> DEFINE new == [Idle EXCEPT !.pc = "alter", !.kind = "rotate", !.rel = current, !.pw = pw]
  <1>4. /\ new \in Operation /\ new.pc = "alter" /\ new.kind = "rotate" /\ new.rel = current
        /\ new.pw = pw
    <2>1. Idle \in Operation
      BY Kinds
    <2> QED BY <1>1, <1>3, <2>1 DEF Operation, PC, Kind
  <1>5. op' = [op EXCEPT ![p] = new]
    BY <1>2
  <1> HIDE DEF new
  <1>6. op'[p] = new /\ (Own(p)' => IInv')
    BY <1>1, <1>4, <1>5, Begins DEF PC
  <1>7. Own(p)'
    BY <1>1, <1>3, <1>4, <1>6
       DEF Own, Prepares, Rotates, Purges, Preparing, Executing, Rotating, dbVars, ledgerVars
  <1> QED BY <1>6, <1>7

LEMMA BeginsToRetire ==
  ASSUME IInv, NEW p \in Proc, BeginRetire(p)
  PROVE  IInv'
  <1> DEFINE new == [Idle EXCEPT !.pc = "app_down", !.kind = "retire"]
  <1>1. /\ At(p, "idle") /\ LockScope(p) /\ UNCHANGED <<dbVars, env, app, ledgerVars, host>>
        /\ op' = [op EXCEPT ![p] = new]
    BY DEF BeginRetire
  <1>2. new \in Operation /\ new.pc = "app_down"
    <2>1. Idle \in Operation
      BY Kinds
    <2> QED BY <2>1 DEF Operation, PC, Kind
  <1> HIDE DEF new
  <1>3. op'[p] = new /\ (Own(p)' => IInv')
    BY <1>1, <1>2, Begins DEF PC
  <1>4. Own(p)'
    BY <1>2, <1>3 DEF Own, Prepares, Rotates, Purges, Preparing, Executing, Rotating
  <1> QED BY <1>3, <1>4

(* Everything but the lock and what the processes do. *)
DataOK ==
  /\ db \in Volume /\ dbUp \in BOOLEAN /\ stored \in Password \cup {None}
  /\ compose \in Major \cup {None} /\ env \in [Release -> EnvFile] /\ app \in Containers
  /\ current \in Release \cup {None} /\ recorded \in BOOLEAN /\ unfinished \subseteq Release
  /\ retired \in BOOLEAN /\ host \in {"up", "booting"}

LEMMA GoesOn ==
  ASSUME IInv, NEW p \in Proc, NEW pc \in Working, Onward(p, pc),
         op[p].pc \in Working, host = "up", UNCHANGED <<lock, host>>,
         DataOK', State', Own(p)'
  PROVE  IInv'
  <1>1. TypeOK'
    BY DEF IInv, TypeOK, DataOK, Onward
  <1>2. lock' = p
    BY DEF IInv, Exclusive
  <1> QED BY <1>1, <1>2, Undisturbed DEF Onward

LEMMA Quits ==
  ASSUME IInv, NEW p \in Proc, Leave(p), op[p].pc \in Working, host = "up", UNCHANGED host,
         DataOK', State'
  PROVE  IInv'
  <1>0. TypeOK
    BY DEF IInv
  <1>1. TypeOK'
    BY <1>0, Leaves DEF TypeOK, DataOK
  <1>2. op'[p].pc = "idle" /\ \A q \in Proc \ {p} : op'[q] = op[q]
    BY <1>0, Leaves
  <1> QED BY <1>1, <1>2, IdleOwns, Undisturbed

LEMMA Knows ==
  ASSUME IInv, NEW p \in Proc
  PROVE  TypeOK /\ DataOK /\ State /\ Own(p) /\ op[p] \in Operation
  BY DEF IInv, TypeOK, DataOK

-----------------------------------------------------------------------------
(* Deploy and rollback *)

LEMMA Materialising ==
  ASSUME IInv, NEW p \in Proc, Materialise(p)
  PROVE  IInv'
  <1>0. /\ TypeOK /\ DataOK /\ State /\ Own(p)
        /\ op[p].pc = "materialise" /\ host = "up" /\ UNCHANGED <<lock, host>>
        /\ env' = [r \in Release |-> IF r \in Todo(p) THEN NoUrl ELSE env[r]]
        /\ UNCHANGED <<dbVars, app, ledgerVars>>
    BY Knows DEF Materialise, At
  <1>1. Onward(p, "credential") /\ op'[p].todo = op[p].todo /\ op'[p].pw = op[p].pw
    BY <1>0, Goes DEF Materialise, PC
  <1>2. DataOK'
    BY <1>0, Kinds DEF DataOK, dbVars, ledgerVars
  <1>3. State'
    <2>1. HasVolume => db.pw # NoUrl
      BY <1>0, Kinds DEF HasVolume, DataOK
    <2> QED BY <1>0, <2>1 DEF State, SacredVolume, HasVolume, Running, Apart, DataOK, dbVars,
                              ledgerVars
  <1>4. Own(p)'
    BY <1>0, <1>1 DEF Onward, Own, Prepares, Rotates, Purges, Preparing, Executing, Rotating,
                      dbVars, ledgerVars
  <1> QED BY <1>0, <1>1, <1>2, <1>3, <1>4, GoesOn DEF Working, PC

LEMMA LoadingCredentials ==
  ASSUME IInv, NEW p \in Proc, LoadOrCreateCredentials(p)
  PROVE  IInv'
  <1>0. /\ TypeOK /\ DataOK /\ State /\ Own(p) /\ op[p] \in Operation
        /\ op[p].pc = "credential" /\ host = "up" /\ UNCHANGED <<lock, host>>
        /\ UNCHANGED <<db, dbUp, compose, env, app, ledgerVars>>
    BY Knows DEF LoadOrCreateCredentials, At
  <1>1. PICK pw \in Password :
          /\ stored' = pw /\ (HasVolume => stored = pw)
          /\ op' = [op EXCEPT ![p] = [op[p] EXCEPT !.pc = "compose", !.pw = pw]]
    BY <1>0 DEF LoadOrCreateCredentials, DataOK, Fresh
  <1>2. [op[p] EXCEPT !.pc = "compose", !.pw = pw] \in Operation
    BY <1>0 DEF Operation, PC
  <1>3. Onward(p, "compose") /\ op'[p].todo = op[p].todo /\ op'[p].pw = pw
    <2>1. /\ op' \in [Proc -> Operation]
          /\ op'[p] = [op[p] EXCEPT !.pc = "compose", !.pw = pw]
          /\ \A q \in Proc \ {p} : op'[q] = op[q]
      BY <1>0, <1>1, <1>2 DEF TypeOK
    <2> QED BY <1>0, <2>1 DEF Onward, Operation
  <1>4. DataOK'
    BY <1>0, <1>1 DEF DataOK, ledgerVars
  <1>5. State'
    BY <1>0, <1>1, Kinds DEF State, SacredVolume, HasVolume, Running, Apart, ledgerVars
  <1>6. Own(p)'
    <2>1. pw # None
      BY Kinds
    <2> QED BY <1>0, <1>1, <1>3, <2>1
            DEF Onward, Own, Prepares, Rotates, Purges, Preparing, Executing, Rotating, ledgerVars
  <1> QED BY <1>0, <1>3, <1>4, <1>5, <1>6, GoesOn DEF Working, PC

LEMMA WritingCompose ==
  ASSUME IInv, NEW p \in Proc, WriteDatabaseCompose(p)
  PROVE  IInv'
  <1> DEFINE requested == MajorOf[Head(op[p].todo)]
  <1>0. /\ TypeOK /\ DataOK /\ State /\ Own(p) /\ op[p] \in Operation
        /\ op[p].pc = "compose" /\ host = "up" /\ UNCHANGED <<lock, host>>
        /\ UNCHANGED <<db, dbUp, stored, env, app, ledgerVars>>
        /\ compose' = requested /\ (HasVolume => compose \in {None, requested})
    BY Knows DEF WriteDatabaseCompose, At
  <1>1. Onward(p, "up") /\ op'[p].todo = op[p].todo /\ op'[p].pw = op[p].pw
    BY <1>0, Goes DEF WriteDatabaseCompose, PC
  <1>2. requested \in Major /\ requested # None
    <2>1. Head(op[p].todo) \in Release
      BY <1>0, Remaining DEF Own, Prepares, Preparing, Operation
    <2> QED BY <2>1, Kinds
  <1>3. HasVolume => compose = requested
    BY <1>0, Kinds DEF State, SacredVolume, HasVolume, DataOK
  <1> HIDE DEF requested
  <1>4. DataOK'
    BY <1>0, <1>2 DEF DataOK, ledgerVars
  <1>5. State'
    BY <1>0, <1>3 DEF State, SacredVolume, HasVolume, Running, Apart, ledgerVars
  <1>6. Own(p)'
    BY <1>0, <1>1, <1>2
       DEF Onward, Own, Prepares, Rotates, Purges, Preparing, Executing, Rotating, ledgerVars
  <1> QED BY <1>0, <1>1, <1>4, <1>5, <1>6, GoesOn DEF Working, PC

LEMMA StartingDatabase ==
  ASSUME IInv, NEW p \in Proc, StartDatabase(p)
  PROVE  IInv'
  <1> DEFINE initialised == IF HasVolume THEN db ELSE [pw |-> op[p].pw, major |-> compose]
  <1>0. /\ TypeOK /\ DataOK /\ State /\ Own(p) /\ op[p] \in Operation
        /\ op[p].pc = "up" /\ host = "up" /\ UNCHANGED host
        /\ UNCHANGED <<stored, compose, env, app, ledgerVars>>
    BY Knows DEF StartDatabase, At
  <1>1. /\ op[p].pw = stored /\ stored \in Password /\ compose \in Major
        /\ op[p].rel \in Release /\ op[p].todo # <<>> /\ op[p].todo[Len(op[p].todo)] = op[p].rel
        /\ op[p].previous = current
    BY <1>0 DEF Own, Prepares, Preparing, DataOK
  <1>2. initialised \in Volume /\ initialised # NoVolume
        /\ (HasVolume => initialised = db)
        /\ (~HasVolume => initialised.pw = stored /\ initialised.major = compose)
    <2>1. [pw |-> op[p].pw, major |-> compose] \in Volume
      BY <1>1, Kinds
    <2>2. [pw |-> op[p].pw, major |-> compose] # NoVolume
      BY <1>1, Kinds DEF NoVolume
    <2> QED BY <1>0, <1>1, <2>1, <2>2 DEF HasVolume, DataOK
  <1>3. /\ db' \in {db, initialised} /\ dbUp' \in BOOLEAN
        /\ \/ db' = initialised /\ dbUp' = TRUE /\ Goto(p, "inject") /\ UNCHANGED lock
           \/ (dbUp' => dbUp) /\ Leave(p)
    <2>1. \/ db' = initialised /\ dbUp' = TRUE /\ Goto(p, "inject") /\ UNCHANGED lock
          \/ db' \in {db, initialised} /\ dbUp' \in {dbUp, FALSE} /\ Leave(p)
      BY DEF StartDatabase
    <2>2. dbUp' \in {dbUp, FALSE} => dbUp' \in BOOLEAN /\ (dbUp' => dbUp)
      <3>1. dbUp' = dbUp => dbUp' \in BOOLEAN /\ (dbUp' => dbUp)
        BY <1>0 DEF DataOK
      <3> QED BY <3>1
    <2> QED BY <2>1, <2>2
  <1> HIDE DEF initialised
  <1>4. DataOK'
    BY <1>0, <1>2, <1>3 DEF DataOK, ledgerVars
  <1>5. State'
    BY <1>0, <1>1, <1>2, <1>3, Kinds
       DEF State, SacredVolume, HasVolume, Running, Apart, ledgerVars
  <1>6. CASE Leave(p)
    BY <1>0, <1>4, <1>5, <1>6, Quits DEF Working, PC
  <1>7. CASE db' = initialised /\ dbUp' = TRUE /\ Goto(p, "inject") /\ UNCHANGED lock
    <2>1. Onward(p, "inject") /\ op'[p].todo = op[p].todo /\ op'[p].pw = op[p].pw
      BY <1>0, <1>7, Goes DEF PC
    <2>2. Own(p)'
      BY <1>0, <1>1, <1>2, <1>7, <2>1, Kinds
         DEF Onward, Own, Prepares, Rotates, Purges, Preparing, Executing, Rotating, HasVolume,
             ledgerVars
    <2> QED BY <1>0, <1>4, <1>5, <1>7, <2>1, <2>2, GoesOn DEF Working, PC
  <1> QED BY <1>3, <1>6, <1>7

LEMMA InjectingUrl ==
  ASSUME IInv, NEW p \in Proc, InjectDatabaseUrl(p)
  PROVE  IInv'
  <1> DEFINE first == Head(op[p].todo)
             rest  == Tail(op[p].todo)
             pc    == IF rest = <<>> THEN "record" ELSE "credential"
  <1>0. /\ TypeOK /\ DataOK /\ State /\ Own(p) /\ op[p] \in Operation
        /\ op[p].pc = "inject" /\ host = "up" /\ UNCHANGED host
        /\ UNCHANGED <<dbVars, app, ledgerVars>>
        /\ env' = [env EXCEPT ![first] = op[p].pw]
    BY Knows DEF InjectDatabaseUrl, At
  <1>1. /\ op[p].pw = stored /\ stored \in Password /\ dbUp /\ HasVolume
        /\ op[p].rel \in Release /\ op[p].previous = current
        /\ op[p].todo \in Seq(Release) /\ op[p].todo # <<>>
        /\ op[p].todo[Len(op[p].todo)] = op[p].rel
    BY <1>0 DEF Own, Prepares, Preparing, DataOK, Operation
  <1>2. /\ first \in Release /\ rest \in Seq(Release)
        /\ rest = <<>> => first = op[p].rel
        /\ rest # <<>> => rest[Len(rest)] = op[p].rel
    BY <1>1, Remaining
  <1>3. \/ Leave(p)
        \/ UNCHANGED lock /\ op' = [op EXCEPT ![p] = [op[p] EXCEPT !.pc = pc, !.todo = rest]]
    BY <1>0 DEF InjectDatabaseUrl, TypeOK
  <1>4. [op[p] EXCEPT !.pc = pc, !.todo = rest] \in Operation
    BY <1>0, <1>2 DEF Operation, PC
  <1> HIDE DEF first, rest
  <1>5. DataOK'
    <2>1. op[p].pw \in EnvFile
      BY <1>1, Kinds
    <2> QED BY <1>0, <2>1 DEF DataOK, dbVars, ledgerVars
  <1>6. State'
    <2>1. \A r \in Release : env'[r] \in {env[r], stored}
      BY <1>0, <1>1 DEF DataOK
    <2> QED BY <1>0, <2>1 DEF State, SacredVolume, HasVolume, Running, Apart, DataOK, dbVars,
                              ledgerVars
  <1>7. CASE Leave(p)
    BY <1>0, <1>5, <1>6, <1>7, Quits DEF Working, PC
  <1>8. CASE UNCHANGED lock /\ op' = [op EXCEPT ![p] = [op[p] EXCEPT !.pc = pc, !.todo = rest]]
    <2>1. Onward(p, pc) /\ op'[p].todo = rest /\ op'[p].pw = op[p].pw
      <3>1. /\ op' \in [Proc -> Operation]
            /\ op'[p] = [op[p] EXCEPT !.pc = pc, !.todo = rest]
            /\ \A q \in Proc \ {p} : op'[q] = op[q]
        BY <1>0, <1>4, <1>8 DEF TypeOK
      <3> QED BY <1>0, <3>1 DEF Onward, Operation
    <2>2. rest = <<>> => env'[op[p].rel] = stored
      BY <1>0, <1>1, <1>2 DEF DataOK
    <2>3. stored # None
      BY <1>1, Kinds
    <2>4. Own(p)'
      BY <1>0, <1>1, <1>2, <2>1, <2>2, <2>3
         DEF Onward, Own, Prepares, Rotates, Purges, Preparing, Executing, Rotating, HasVolume,
             dbVars, ledgerVars
    <2> QED BY <1>0, <1>5, <1>6, <1>8, <2>1, <2>4, GoesOn DEF Working, PC
  <1> QED BY <1>3, <1>7, <1>8

LEMMA Recording ==
  ASSUME IInv, NEW p \in Proc, StatusDeploying(p)
  PROVE  IInv'
  <1>0. /\ TypeOK /\ DataOK /\ State /\ Own(p) /\ op[p] \in Operation
        /\ op[p].pc = "record" /\ host = "up" /\ UNCHANGED <<lock, host>>
        /\ recorded' = TRUE /\ unfinished' = unfinished \cup {op[p].rel}
        /\ UNCHANGED <<dbVars, env, app, current, retired>>
    BY Knows DEF StatusDeploying, At
  <1>1. Onward(p, "start")
    BY <1>0, Goes DEF StatusDeploying, PC
  <1>2. DataOK'
    BY <1>0 DEF DataOK, dbVars, Own, Prepares, Executing
  <1>3. State'
    BY <1>0 DEF State, SacredVolume, HasVolume, Running, Apart, dbVars
  <1>4. Own(p)'
    BY <1>0, <1>1 DEF Onward, Own, Prepares, Rotates, Purges, Preparing, Executing, Rotating,
                      HasVolume, dbVars
  <1> QED BY <1>0, <1>1, <1>2, <1>3, <1>4, GoesOn DEF Working, PC

(* What the containers of a release are. *)
LEMMA Created ==
  ASSUME DataOK, NEW r \in Release, NEW ok \in BOOLEAN
  PROVE  /\ ContainersOf(r, ok) \in Containers
         /\ ContainersOf(r, ok).rel = r /\ ContainersOf(r, ok).pw = env[r]
         /\ ContainersOf(r, ok).ok = ok
  BY DEF ContainersOf, Containers, DataOK

LEMMA StartingRelease ==
  ASSUME IInv, NEW p \in Proc, StartRelease(p)
  PROVE  IInv'
  <1>0. /\ TypeOK /\ DataOK /\ State /\ Own(p) /\ op[p] \in Operation
        /\ op[p].pc = "start" /\ host = "up" /\ UNCHANGED <<lock, host>>
        /\ UNCHANGED <<dbVars, env, ledgerVars>>
    BY Knows DEF StartRelease, At
  <1>1. /\ op[p].rel \in Release /\ env[op[p].rel] = stored /\ stored # None
        /\ op[p].previous = current /\ dbUp /\ HasVolume
    BY <1>0 DEF Own, Prepares, Executing
  <1>2. PICK pc \in {"commit", "restore"} :
          /\ Goto(p, pc)
          /\ \/ app' = ContainersOf(op[p].rel, TRUE)
             \/ pc = "restore" /\ app' \in {app, ContainersOf(op[p].rel, FALSE)}
    BY DEF StartRelease
  <1>3. Onward(p, pc)
    BY <1>0, <1>2, Goes DEF PC
  <1>4. /\ app' \in Containers /\ app'.pw \in {app.pw, stored}
        /\ pc = "commit" => app'.ok /\ app'.rel = op[p].rel /\ app'.pw = stored
    BY <1>0, <1>1, <1>2, Created DEF DataOK
  <1>5. DataOK'
    BY <1>0, <1>4 DEF DataOK, dbVars, ledgerVars
  <1>6. State'
    BY <1>0, <1>4 DEF State, SacredVolume, HasVolume, Running, Apart, dbVars, ledgerVars
  <1>7. Own(p)'
    BY <1>0, <1>1, <1>3, <1>4
       DEF Onward, Own, Prepares, Rotates, Purges, Preparing, Executing, Rotating, HasVolume,
           dbVars, ledgerVars
  <1> QED BY <1>0, <1>2, <1>3, <1>5, <1>6, <1>7, GoesOn DEF Working, PC

LEMMA Committing ==
  ASSUME IInv, NEW p \in Proc, Commit(p)
  PROVE  IInv'
  <1>0. /\ TypeOK /\ DataOK /\ State /\ Own(p)
        /\ op[p].pc = "commit" /\ host = "up" /\ UNCHANGED host /\ Leave(p)
        /\ current' = op[p].rel /\ unfinished' = unfinished \ {op[p].rel}
        /\ UNCHANGED <<dbVars, env, app, recorded>>
    BY Knows DEF Commit, At
  <1>1. op[p].rel \in Release /\ env[op[p].rel] = stored
    BY <1>0 DEF Own, Prepares, Executing
  <1>2. retired' \in BOOLEAN
    BY <1>0 DEF Commit, DataOK
  <1>3. DataOK'
    BY <1>0, <1>1, <1>2 DEF DataOK, dbVars
  <1>4. State'
    BY <1>0, <1>1 DEF State, SacredVolume, HasVolume, Running, Apart, dbVars
  <1> QED BY <1>0, <1>3, <1>4, Quits DEF Working, PC

LEMMA Restoring ==
  ASSUME IInv, NEW p \in Proc, RestorePrevious(p)
  PROVE  IInv'
  <1>0. /\ TypeOK /\ DataOK /\ State /\ Own(p) /\ op[p] \in Operation
        /\ op[p].pc = "restore" /\ host = "up" /\ UNCHANGED host /\ Leave(p)
        /\ unfinished' = unfinished \ {op[p].rel}
        /\ UNCHANGED <<dbVars, env, current, recorded, retired>>
    BY Knows DEF RestorePrevious, At
  <1>1. /\ app' \in Containers
        /\ \/ app' = app
           \/ app'.pw = None
           \/ current # None /\ app'.pw = env[current]
    <2>1. op[p].previous = current
      BY <1>0 DEF Own, Prepares
    <2>2. \/ app' = app
          \/ app' = Down
          \/ /\ current # None
             /\ \E ok \in BOOLEAN : app' = ContainersOf(current, ok)
      BY <2>1 DEF RestorePrevious
    <2>3. current # None => current \in Release
      BY <1>0 DEF DataOK
    <2>4. Down \in Containers /\ Down.pw = None
      BY Kinds
    <2> QED BY <1>0, <2>2, <2>3, <2>4, Created DEF DataOK
  <1>2. DataOK'
    BY <1>0, <1>1 DEF DataOK, dbVars
  <1>3. State'
    <2>1. HasVolume => db.pw # None
      BY <1>0, Kinds DEF HasVolume, DataOK
    <2> QED BY <1>0, <1>1, <2>1 DEF State, SacredVolume, HasVolume, Running, Apart, dbVars
  <1> QED BY <1>0, <1>2, <1>3, Quits DEF Working, PC

-----------------------------------------------------------------------------
(* Rotation *)

LEMMA Altering ==
  ASSUME IInv, NEW p \in Proc, AlterDatabasePassword(p)
  PROVE  IInv'
  <1>0. /\ TypeOK /\ DataOK /\ State /\ Own(p) /\ op[p] \in Operation
        /\ op[p].pc = "alter" /\ host = "up" /\ UNCHANGED host
        /\ dbUp /\ db' = [db EXCEPT !.pw = op[p].pw]
        /\ UNCHANGED <<dbUp, stored, compose, env, app, ledgerVars>>
    BY Knows DEF AlterDatabasePassword, At
  <1>1. /\ op[p].pw \in Password /\ op[p].pw \notin {app.pw, stored}
        /\ op[p].kind = "rotate" /\ op[p].rel \in Release /\ op[p].rel = current
        /\ op[p].pw # env[current]
    BY <1>0 DEF Own, Rotates, Rotating, Operation
  <1>2. HasVolume /\ db.major \in Major
    BY <1>0, Kinds DEF State, Running, HasVolume, DataOK
  <1>3. db' \in Volume /\ db' # NoVolume /\ db'.pw = op[p].pw /\ db'.major = db.major
    <2>1. db' = [pw |-> op[p].pw, major |-> db.major]
      BY <1>0 DEF DataOK, Volume
    <2>2. db' \in Volume
      BY <1>1, <1>2, <2>1, Kinds
    <2>3. op[p].pw # None
      BY <1>1, Kinds
    <2> QED BY <2>1, <2>2, <2>3 DEF NoVolume
  <1>4. DataOK'
    BY <1>0, <1>3 DEF DataOK, ledgerVars
  <1>5. State'
    BY <1>0, <1>1, <1>2, <1>3 DEF State, SacredVolume, HasVolume, Running, Apart, ledgerVars
  <1>6. CASE Leave(p)
    BY <1>0, <1>4, <1>5, <1>6, Quits DEF Working, PC
  <1>7. CASE Goto(p, "store") /\ UNCHANGED lock
    <2>1. Onward(p, "store") /\ op'[p].pw = op[p].pw
      BY <1>0, <1>7, Goes DEF PC
    <2>2. Own(p)'
      BY <1>0, <1>1, <1>3, <2>1, Kinds
         DEF Onward, Own, Prepares, Rotates, Purges, Preparing, Executing, Rotating, HasVolume,
             ledgerVars
    <2> QED BY <1>0, <1>4, <1>5, <1>7, <2>1, <2>2, GoesOn DEF Working, PC
  <1> QED BY <1>6, <1>7 DEF AlterDatabasePassword

LEMMA Storing ==
  ASSUME IInv, NEW p \in Proc, StoreCredential(p)
  PROVE  IInv'
  <1>0. /\ TypeOK /\ DataOK /\ State /\ Own(p) /\ op[p] \in Operation
        /\ op[p].pc = "store" /\ host = "up" /\ UNCHANGED <<lock, host>>
        /\ stored' = op[p].pw
        /\ UNCHANGED <<db, dbUp, compose, env, app, ledgerVars>>
    BY Knows DEF StoreCredential, At
  <1>1. /\ op[p].kind = "rotate" /\ op[p].rel \in Release /\ op[p].rel = current
        /\ HasVolume /\ db.pw = op[p].pw /\ op[p].pw # None
    BY <1>0 DEF Own, Rotates, Rotating
  <1>2. Onward(p, "rematerialise") /\ op'[p].pw = op[p].pw
    BY <1>0, Goes DEF StoreCredential, PC
  <1>3. DataOK'
    BY <1>0, <1>1 DEF DataOK, ledgerVars, Operation
  <1>4. State'
    BY <1>0, <1>1 DEF State, SacredVolume, HasVolume, Running, Apart, ledgerVars
  <1>5. Own(p)'
    BY <1>0, <1>1, <1>2
       DEF Onward, Own, Prepares, Rotates, Purges, Preparing, Executing, Rotating, HasVolume,
           ledgerVars
  <1> QED BY <1>0, <1>2, <1>3, <1>4, <1>5, GoesOn DEF Working, PC

LEMMA RotatingEnv ==
  ASSUME IInv, NEW p \in Proc, Rematerialise(p) \/ Reinject(p)
  PROVE  IInv'
  <1>1. PICK pc \in {"reinject", "restart"}, value \in {NoUrl, stored} :
          /\ Goto(p, pc) /\ env' = [env EXCEPT ![op[p].rel] = value]
          /\ pc = "restart" => value = stored
    BY DEF Rematerialise, Reinject
  <1>0. /\ TypeOK /\ DataOK /\ State /\ Own(p) /\ op[p] \in Operation
        /\ op[p].pc \in {"rematerialise", "reinject"} /\ host = "up" /\ UNCHANGED <<lock, host>>
        /\ UNCHANGED <<dbVars, app, ledgerVars>>
    BY Knows DEF Rematerialise, Reinject, At
  <1>2. /\ op[p].kind = "rotate" /\ op[p].rel \in Release /\ op[p].rel = current
        /\ HasVolume /\ stored = db.pw /\ op[p].pw # None
    BY <1>0 DEF Own, Rotates, Rotating
  <1>3. Onward(p, pc) /\ op'[p].pw = op[p].pw
    BY <1>0, <1>1, Goes DEF PC
  <1>4. DataOK'
    <2>1. value \in EnvFile
      BY <1>0, Kinds DEF DataOK
    <2> QED BY <1>0, <1>1, <2>1 DEF DataOK, dbVars, ledgerVars
  <1>5. State'
    BY <1>0, <1>2 DEF State, SacredVolume, HasVolume, Running, Apart, dbVars, ledgerVars
  <1>6. Own(p)'
    <2>1. env'[op[p].rel] = value
      BY <1>0, <1>1, <1>2 DEF DataOK
    <2> QED BY <1>0, <1>1, <1>2, <1>3, <2>1
            DEF Onward, Own, Prepares, Rotates, Purges, Preparing, Executing, Rotating, HasVolume,
                dbVars, ledgerVars
  <1> QED BY <1>0, <1>1, <1>3, <1>4, <1>5, <1>6, GoesOn DEF Working, PC

LEMMA Restarting ==
  ASSUME IInv, NEW p \in Proc, RestartSucceeds(p) \/ RestartFails(p)
  PROVE  IInv'
  <1>0. /\ TypeOK /\ DataOK /\ State /\ Own(p)
        /\ op[p].pc = "restart" /\ host = "up" /\ UNCHANGED host /\ Leave(p)
        /\ UNCHANGED <<dbVars, env, ledgerVars>>
    BY Knows DEF RestartSucceeds, RestartFails, At
  <1>1. op[p].rel \in Release /\ stored = db.pw
    BY <1>0 DEF Own, Rotates, Rotating
  <1>2. app' = app \/ \E ok \in BOOLEAN : app' = ContainersOf(op[p].rel, ok)
    BY DEF RestartSucceeds, RestartFails
  <1>3. DataOK'
    BY <1>0, <1>1, <1>2, Created DEF DataOK, dbVars, ledgerVars
  <1>4. State'
    BY <1>0, <1>1 DEF State, SacredVolume, HasVolume, Running, Apart, dbVars, ledgerVars
  <1> QED BY <1>0, <1>3, <1>4, Quits DEF Working, PC

-----------------------------------------------------------------------------
(* Retire and purge *)

LEMMA Stopping ==
  ASSUME IInv, NEW p \in Proc, StopApplication(p) \/ StopDatabase(p)
  PROVE  IInv'
  <1>0. /\ TypeOK /\ DataOK /\ State /\ Own(p) /\ op[p] \in Operation
        /\ op[p].pc \in {"app_down", "db_down"} /\ host = "up" /\ UNCHANGED <<lock, host>>
        /\ UNCHANGED <<db, stored, compose, env, ledgerVars>>
    BY Knows DEF StopApplication, StopDatabase, At, dbVars
  <1>1. /\ app' = Down \/ UNCHANGED app
        /\ dbUp' = FALSE \/ UNCHANGED dbUp
    BY DEF StopApplication, StopDatabase, dbVars
  <1>2. PICK pc \in {"db_down", "marker"} : Goto(p, pc)
    BY DEF StopApplication, StopDatabase
  <1>3. Onward(p, pc)
    BY <1>0, <1>2, Goes DEF PC
  <1>4. DataOK'
    <2>1. app' \in Containers
      BY <1>0, <1>1, Kinds DEF DataOK
    <2>2. dbUp' \in BOOLEAN
      BY <1>0, <1>1 DEF DataOK
    <2> QED BY <1>0, <2>1, <2>2 DEF DataOK, ledgerVars
  <1>5. State'
    <2>1. HasVolume => db.pw # None
      BY <1>0, Kinds DEF HasVolume, DataOK
    <2>2. app'.pw \in {app.pw, None}
      BY <1>1, Kinds
    <2>3. Running'
      BY <1>0, <1>1 DEF State, Running, HasVolume
    <2> QED BY <1>0, <2>1, <2>2, <2>3 DEF State, SacredVolume, HasVolume, Apart, ledgerVars
  <1>6. Own(p)'
    BY <1>3 DEF Onward, Own, Prepares, Rotates, Purges, Preparing, Executing, Rotating
  <1> QED BY <1>0, <1>3, <1>4, <1>5, <1>6, GoesOn DEF Working, PC

LEMMA Marking ==
  ASSUME IInv, NEW p \in Proc, WriteMarker(p)
  PROVE  IInv'
  <1>0. /\ TypeOK /\ DataOK /\ State
        /\ op[p].pc = "marker" /\ host = "up" /\ UNCHANGED host /\ Leave(p)
        /\ retired' = TRUE /\ UNCHANGED <<dbVars, env, app, current, recorded, unfinished>>
    BY Knows DEF WriteMarker, At
  <1>1. DataOK'
    BY <1>0 DEF DataOK, dbVars
  <1>2. State'
    BY <1>0 DEF State, SacredVolume, HasVolume, Running, Apart, dbVars
  <1> QED BY <1>0, <1>1, <1>2, Quits DEF Working, PC

(* Before it takes the lock a purge has only read the marker. *)
LEMMA Confirming ==
  ASSUME IInv, NEW p \in Proc, ConfirmPurge(p)
  PROVE  IInv'
  <1> DEFINE new == [Idle EXCEPT !.pc = "confirmed", !.kind = "purge"]
  <1>0. /\ IInv /\ TypeOK /\ op[p].pc = "idle" /\ host = "up"
        /\ op' = [op EXCEPT ![p] = new]
        /\ UNCHANGED <<dbVars, env, app, ledgerVars, lock, host>>
    BY DEF IInv, ConfirmPurge, At
  <1>1. new \in Operation /\ new.pc = "confirmed"
    <2>1. Idle \in Operation
      BY Kinds
    <2> QED BY <2>1 DEF Operation, PC, Kind
  <1> HIDE DEF new
  <1>2. /\ op' \in [Proc -> Operation] /\ op'[p].pc = "confirmed"
        /\ \A q \in Proc \ {p} : op'[q] = op[q]
    BY <1>0, <1>1 DEF TypeOK
  <1>3. TypeOK'
    BY <1>0, <1>2 DEF TypeOK, dbVars, ledgerVars
  <1>4. Exclusive' /\ Gated'
    BY <1>0, <1>2 DEF IInv, Exclusive, Gated, Working
  <1>5. State'
    BY <1>0 DEF IInv, State, SacredVolume, HasVolume, Running, Apart, dbVars, ledgerVars
  <1>6. ASSUME NEW q \in Proc PROVE Own(q)'
    <2>1. CASE q = p
      BY <1>2, <2>1, IdleOwns
    <2>2. CASE q # p
      BY <1>0, <1>2, <2>2 DEF IInv, Own, Prepares, Rotates, Purges, HasVolume, dbVars, ledgerVars
    <2> QED BY <2>1, <2>2
  <1> QED BY <1>3, <1>4, <1>5, <1>6 DEF IInv

LEMMA LockingPurge ==
  ASSUME IInv, NEW p \in Proc, LockPurge(p)
  PROVE  IInv'
  <1>0. /\ TypeOK /\ State /\ op[p].pc = "confirmed" /\ host = "up" /\ UNCHANGED host
        /\ lock = None /\ lock' = p /\ Goto(p, "destroy")
        /\ UNCHANGED <<dbVars, env, app, ledgerVars>>
    BY DEF IInv, LockPurge, LockScope, At
  <1>1. Onward(p, "destroy")
    BY <1>0, Goes DEF PC
  <1>2. TypeOK'
    BY <1>0, <1>1 DEF TypeOK, Onward, dbVars, ledgerVars
  <1>3. State'
    BY <1>0 DEF State, SacredVolume, HasVolume, Running, Apart, dbVars, ledgerVars
  <1>4. Own(p)'
    BY <1>1 DEF Onward, Own, Prepares, Rotates, Purges, Preparing, Executing, Rotating
  <1> QED BY <1>0, <1>1, <1>2, <1>3, <1>4, Undisturbed DEF Onward

LEMMA Destroying ==
  ASSUME IInv, NEW p \in Proc, Destroy(p)
  PROVE  IInv'
  <1>0. /\ TypeOK /\ DataOK /\ State /\ op[p] \in Operation
        /\ op[p].pc = "destroy" /\ host = "up" /\ UNCHANGED host
        /\ app' = Down /\ app' \in Containers /\ app'.pw = None
        /\ UNCHANGED <<stored, compose, env, ledgerVars>>
    BY Knows, Kinds DEF Destroy, At
  <1>1. HasVolume => db.pw # None
    BY <1>0, Kinds DEF HasVolume, DataOK
  <1>2. CASE db' = NoVolume /\ dbUp' = FALSE /\ Goto(p, "trees") /\ UNCHANGED lock
    <2>1. Onward(p, "trees")
      BY <1>0, <1>2, Goes DEF PC
    <2>2. DataOK'
      BY <1>0, <1>2, Kinds DEF DataOK, ledgerVars
    <2>3. State'
      BY <1>2 DEF State, SacredVolume, HasVolume, Running, Apart
    <2>4. Own(p)'
      BY <1>2, <2>1 DEF Onward, Own, Prepares, Rotates, Purges, Preparing, Executing, Rotating,
                        HasVolume
    <2> QED BY <1>0, <1>2, <2>1, <2>2, <2>3, <2>4, GoesOn DEF Working, PC
  <1>3. CASE dbUp' \in {dbUp, FALSE} /\ Leave(p) /\ UNCHANGED db
    <2>1. dbUp' \in BOOLEAN /\ Running'
      <3>1. CASE dbUp' = dbUp
        BY <1>0, <1>3, <3>1 DEF State, Running, HasVolume, DataOK
      <3>2. CASE dbUp' = FALSE
        BY <3>2 DEF Running
      <3> QED BY <1>3, <3>1, <3>2
    <2>2. DataOK'
      BY <1>0, <1>3, <2>1 DEF DataOK, ledgerVars
    <2>3. State'
      BY <1>0, <1>1, <1>3, <2>1 DEF State, SacredVolume, HasVolume, Apart, ledgerVars
    <2> QED BY <1>0, <1>3, <2>2, <2>3, Quits DEF Working, PC
  <1> QED BY <1>2, <1>3 DEF Destroy

LEMMA RemovingTrees ==
  ASSUME IInv, NEW p \in Proc, RemoveTrees(p)
  PROVE  IInv'
  <1>0. /\ TypeOK /\ DataOK /\ State /\ op[p] \in Operation /\ ~HasVolume
        /\ op[p].pc = "trees" /\ host = "up" /\ UNCHANGED host
        /\ UNCHANGED <<db, dbUp, app, ledgerVars>>
        /\ stored' \in {stored, None} /\ compose' \in {compose, None}
        /\ UNCHANGED env \/ env' = [r \in Release |-> None]
    BY Knows DEF RemoveTrees, At, Own, Purges
  <1>1. DataOK'
    BY <1>0, Kinds DEF DataOK, ledgerVars
  <1>2. State'
    BY <1>0 DEF State, SacredVolume, HasVolume, Running, Apart
  <1>3. CASE Leave(p)
    BY <1>0, <1>1, <1>2, <1>3, Quits DEF Working, PC
  <1>4. CASE Goto(p, "ledger") /\ UNCHANGED lock
    <2>1. Onward(p, "ledger")
      BY <1>0, <1>4, Goes DEF PC
    <2>2. Own(p)'
      BY <2>1 DEF Onward, Own, Prepares, Rotates, Purges, Preparing, Executing, Rotating
    <2> QED BY <1>0, <1>1, <1>2, <1>4, <2>1, <2>2, GoesOn DEF Working, PC
  <1> QED BY <1>3, <1>4 DEF RemoveTrees

LEMMA RemovingLedger ==
  ASSUME IInv, NEW p \in Proc, RemoveLedger(p)
  PROVE  IInv'
  <1>0. /\ TypeOK /\ DataOK /\ State
        /\ op[p].pc = "ledger" /\ host = "up" /\ UNCHANGED host /\ Leave(p)
        /\ current' = None /\ recorded' = FALSE /\ unfinished' = {} /\ retired' = FALSE
        /\ UNCHANGED <<dbVars, env, app>>
    BY Knows DEF RemoveLedger, At
  <1>1. DataOK'
    BY <1>0 DEF DataOK, dbVars
  <1>2. State'
    BY <1>0 DEF State, SacredVolume, HasVolume, Running, Apart, dbVars
  <1> QED BY <1>0, <1>1, <1>2, Quits DEF Working, PC

-----------------------------------------------------------------------------
(* The environment *)

LEMMA Killing ==
  ASSUME IInv, NEW p \in Proc, Kill(p)
  PROVE  IInv'
  <1>0. /\ TypeOK /\ State /\ op[p].pc # "idle" /\ Leave(p)
        /\ UNCHANGED <<dbVars, env, app, ledgerVars, host>>
    BY DEF IInv, Kill
  <1>1. /\ op' \in [Proc -> Operation] /\ op'[p].pc = "idle"
        /\ \A q \in Proc \ {p} : op'[q] = op[q]
        /\ lock' \in Proc \cup {None}
        /\ lock' = lock \/ (lock = p /\ lock' = None)
    BY <1>0, Leaves
  <1>2. TypeOK'
    BY <1>0, <1>1 DEF TypeOK, dbVars, ledgerVars
  <1>3. Exclusive'
    <2>1. \A q \in Proc : op'[q].pc \in Working => q # p /\ lock = q
      BY <1>1, IdleOwns DEF IInv, Exclusive
    <2> QED BY <1>1, <2>1 DEF Exclusive
  <1>4. Gated' /\ State'
    BY <1>0, <1>1 DEF IInv, Gated, State, SacredVolume, HasVolume, Running, Apart, dbVars,
                      ledgerVars
  <1>5. ASSUME NEW q \in Proc PROVE Own(q)'
    <2>1. CASE q = p
      BY <1>1, <2>1, IdleOwns
    <2>2. CASE q # p
      BY <1>0, <1>1, <2>2 DEF IInv, Own, Prepares, Rotates, Purges, HasVolume, dbVars, ledgerVars
    <2> QED BY <2>1, <2>2
  <1> QED BY <1>2, <1>3, <1>4, <1>5 DEF IInv

(* While the host boots nobody works, so nobody is disturbed. *)
LEMMA Booting ==
  ASSUME IInv, Reboot \/ BootRecovery
  PROVE  IInv'
  <1>0. /\ TypeOK /\ DataOK /\ State /\ UNCHANGED <<dbVars, app, ledgerVars>>
        /\ None \in EnvFile
    BY Kinds DEF IInv, TypeOK, DataOK, Reboot, BootRecovery
  <1>1. /\ op' \in [Proc -> Operation] /\ lock' \in Proc \cup {None}
        /\ \A p \in Proc : op'[p].pc = "idle"
    <2>1. Idle \in Operation /\ Idle.pc = "idle"
      BY Kinds
    <2> QED BY <2>1 DEF IInv, TypeOK, Gated, Reboot, BootRecovery
  <1>2. /\ env' \in [Release -> EnvFile] /\ host' \in {"up", "booting"}
        /\ current # None => env'[current] \in {env[current], stored, None}
    <2>1. CASE Reboot
      BY <1>0, <2>1 DEF Reboot, DataOK
    <2>2. CASE BootRecovery
      <3>1. stored \in EnvFile
        BY <1>0, Kinds DEF DataOK
      <3> QED BY <1>0, <2>2, <3>1 DEF BootRecovery, DataOK
    <2> QED BY <2>1, <2>2
  <1>3. TypeOK'
    BY <1>0, <1>1, <1>2 DEF TypeOK, DataOK, dbVars, ledgerVars
  <1>4. Exclusive' /\ Gated'
    BY <1>1 DEF Exclusive, Gated, Working
  <1>5. State'
    <2>1. HasVolume => db.pw # None
      BY <1>0, Kinds DEF HasVolume, DataOK
    <2> QED BY <1>0, <1>2, <2>1 DEF State, SacredVolume, HasVolume, Running, Apart, dbVars,
                                    ledgerVars
  <1>6. \A p \in Proc : Own(p)'
    BY <1>1, IdleOwns
  <1> QED BY <1>3, <1>4, <1>5, <1>6 DEF IInv

LEMMA Stuttering ==
  ASSUME IInv, UNCHANGED vars
  PROVE  IInv'
  BY DEF vars, IInv, TypeOK, Exclusive, Gated, State, SacredVolume, Running, Apart, Own, Prepares,
         Rotates, Purges, HasVolume

LEMMA Inductive == Spec => []IInv
  <1>1. IInv /\ [Next]_vars => IInv'
    <2> SUFFICES ASSUME IInv, [Next]_vars PROVE IInv'
      OBVIOUS
    <2>1. ASSUME NEW p \in Proc, Step(p) PROVE IInv'
      BY <2>1, BeginsToPrepare, BeginsToRotate, BeginsToRetire, Materialising, LoadingCredentials,
         WritingCompose, StartingDatabase, InjectingUrl, Recording, StartingRelease, Committing,
         Restoring, Altering, Storing, RotatingEnv, Restarting, Stopping, Marking, Confirming,
         LockingPurge, Destroying, RemovingTrees, RemovingLedger, Killing DEF Step
    <2> QED BY <2>1, Booting, Stuttering DEF Next
  <1> QED BY Initially, <1>1, PTL DEF Spec

-----------------------------------------------------------------------------
(* What a step may do *)

(* A rotation is known by its kind. *)
LEMMA KnownRotation ==
  ASSUME IInv, NEW p \in Proc,
         \/ AlterDatabasePassword(p) \/ StoreCredential(p) \/ Rematerialise(p) \/ Reinject(p)
         \/ RestartSucceeds(p) \/ RestartFails(p)
  PROVE  op[p].kind = "rotate"
  BY DEF AlterDatabasePassword, StoreCredential, Rematerialise, Reinject, RestartSucceeds,
         RestartFails, At, IInv, Own, Rotates, Rotating

(* The steps that touch neither volume nor credential. *)
LEMMA VolumeAside ==
  ASSUME NEW p \in Proc,
         \/ \E r \in Release : BeginDeploy(p, r) \/ BeginRollback(p, r)
         \/ Materialise(p) \/ WriteDatabaseCompose(p) \/ InjectDatabaseUrl(p)
         \/ StatusDeploying(p) \/ StartRelease(p) \/ Commit(p) \/ RestorePrevious(p)
         \/ BeginRotate(p) \/ BeginRetire(p) \/ StopApplication(p) \/ StopDatabase(p)
         \/ WriteMarker(p) \/ ConfirmPurge(p) \/ LockPurge(p) \/ RemoveLedger(p) \/ Kill(p)
  PROVE  UNCHANGED <<db, stored>>
  BY DEF BeginDeploy, BeginRollback, Materialise, WriteDatabaseCompose, InjectDatabaseUrl,
         StatusDeploying, StartRelease, Commit, RestorePrevious, BeginRotate, BeginRetire,
         StopApplication, StopDatabase, WriteMarker, ConfirmPurge, LockPurge, RemoveLedger, Kill,
         dbVars

LEMMA Initialised ==
  ASSUME IInv, NEW p \in Proc, StartDatabase(p)
  PROVE  /\ HasVolume => db' = db
         /\ ~HasVolume /\ HasVolume' => db'.pw = stored
         /\ UNCHANGED <<stored, app>>
  <1>1. op[p].pw = stored
    BY DEF StartDatabase, At, IInv, Own, Prepares
  <1>2. db' \in {db, IF HasVolume THEN db ELSE [pw |-> op[p].pw, major |-> compose]}
    BY DEF StartDatabase
  <1> QED BY <1>1, <1>2 DEF HasVolume, StartDatabase

(* Whether a rotation is under way is free. *)
LEMMA Turning ==
  ASSUME UNCHANGED <<db, stored>>
  PROVE  Credential!Next
  BY DEF Credential!Next, Credential!Turn

LEMMA VolumeHasPassword == \A v \in Volume : v # NoVolume <=> v.pw # None
  BY Kinds DEF Volume, NoVolume

LEMMA PasswordStep ==
  ASSUME IInv, IInv', [Next]_vars
  PROVE  Credential!Next \/ UNCHANGED Credential!passwordVars
  <1>1. UNCHANGED <<db, stored>> => Credential!Next
    BY Turning
  <1>2. CASE Reboot \/ BootRecovery \/ UNCHANGED vars
    BY <1>1, <1>2 DEF Reboot, BootRecovery, vars, dbVars
  <1>3. ASSUME NEW p \in Proc, Step(p)
        PROVE  Credential!Next
    <2>0. /\ TypeOK /\ TypeOK' /\ Own(p) /\ Running /\ SacredVolume
          /\ (HasVolume <=> db.pw # None) /\ (HasVolume' <=> db'.pw # None)
      BY VolumeHasPassword DEF IInv, State, TypeOK, HasVolume
    <2>1. CASE StartDatabase(p)
      <3>1. CASE UNCHANGED <<db, stored>>
        BY <1>1, <3>1
      <3>2. CASE ~UNCHANGED <<db, stored>>
        <4>1. stored' = stored /\ stored # None
          BY <2>0, <2>1 DEF StartDatabase, At, Own, Prepares
        <4>2. ~HasVolume /\ db' # db
          BY <2>1, <3>2, <4>1, Initialised
        <4>3. db' = [pw |-> op[p].pw, major |-> compose] /\ op[p].pw = stored
          BY <2>0, <2>1, <4>2 DEF StartDatabase, At, Own, Prepares
        <4> QED BY <2>0, <4>1, <4>2, <4>3 DEF Credential!Next, Credential!Initialise
      <3> QED BY <3>1, <3>2
    <2>2. CASE LoadOrCreateCredentials(p)
      <3>1. CASE UNCHANGED <<db, stored>>
        BY <1>1, <3>1
      <3>2. CASE ~UNCHANGED <<db, stored>>
        <4>1. stored = None /\ ~HasVolume /\ stored' \in Password /\ db' = db
          BY <2>2, <3>2 DEF LoadOrCreateCredentials, Fresh
        <4> QED BY <2>0, <4>1 DEF Credential!Next, Credential!Draw
      <3> QED BY <3>1, <3>2
    <2>3. CASE Destroy(p)
      <3>1. CASE UNCHANGED <<db, stored>>
        BY <1>1, <3>1
      <3>2. CASE ~UNCHANGED <<db, stored>>
        <4>1. db' = NoVolume /\ stored' = stored
          BY <2>3, <3>2 DEF Destroy
        <4>2. db'.pw = None
          BY <4>1 DEF NoVolume
        <4> QED BY <4>1, <4>2 DEF Credential!Next, Credential!Destroy
      <3> QED BY <3>1, <3>2
    <2>4. CASE RemoveTrees(p)
      <3>1. ~HasVolume /\ db' = db /\ stored' \in {stored, None}
        BY <2>0, <2>4 DEF RemoveTrees, At, Own, Purges
      <3>2. CASE stored' = stored
        BY <1>1, <3>1, <3>2
      <3>3. CASE stored' = None
        BY <2>0, <3>1, <3>3 DEF Credential!Next, Credential!Forget
      <3> QED BY <3>1, <3>2, <3>3
    <2>5. CASE AlterDatabasePassword(p)
      <3>1. /\ op[p].kind = "rotate" /\ HasVolume /\ stored # None /\ stored' = stored
            /\ op[p].pw # stored /\ op[p].pw # None /\ op[p].pw \in Password
        <4>1. op[p].pw \in Password \cup {None} /\ op[p].pc = "alter" /\ dbUp /\ stored' = stored
          BY <2>0, <2>5 DEF TypeOK, Operation, AlterDatabasePassword, At
        <4>2. op[p].kind = "rotate" /\ op[p].pw # None /\ op[p].pw # stored
          BY <2>0, <4>1 DEF Own, Rotates, Rotating
        <4> QED BY <2>0, <4>1, <4>2 DEF Running, SacredVolume
      <3>2. db'.pw = op[p].pw
        BY <2>0, <2>5 DEF AlterDatabasePassword, TypeOK, Volume
      <3> QED BY <2>0, <3>1, <3>2 DEF Credential!Next, Credential!Alter
    <2>6. CASE StoreCredential(p)
      <3>1. op[p].pc = "store" /\ stored' = op[p].pw /\ db' = db
        BY <2>6 DEF StoreCredential, At
      <3>2. op[p].kind = "rotate" /\ HasVolume /\ db.pw = op[p].pw
        BY <2>0, <3>1 DEF Own, Rotates, Rotating
      <3> QED BY <2>0, <3>1, <3>2 DEF Credential!Next, Credential!Adopt
    <2>7. CASE Rematerialise(p) \/ Reinject(p) \/ RestartSucceeds(p) \/ RestartFails(p)
      BY <1>1, <2>7 DEF Rematerialise, Reinject, RestartSucceeds, RestartFails, dbVars
    <2>8. CASE \/ \E r \in Release : BeginDeploy(p, r) \/ BeginRollback(p, r)
               \/ Materialise(p) \/ WriteDatabaseCompose(p) \/ InjectDatabaseUrl(p)
               \/ StatusDeploying(p) \/ StartRelease(p) \/ Commit(p) \/ RestorePrevious(p)
               \/ BeginRotate(p) \/ BeginRetire(p) \/ StopApplication(p) \/ StopDatabase(p)
               \/ WriteMarker(p) \/ ConfirmPurge(p) \/ LockPurge(p) \/ RemoveLedger(p)
               \/ Kill(p)
      BY <1>1, <2>8, VolumeAside
    <2> QED BY <1>3, <2>1, <2>2, <2>3, <2>4, <2>5, <2>6, <2>7, <2>8 DEF Step
  <1> QED BY <1>2, <1>3 DEF Next

LEMMA PasswordInit == Init => Credential!Init
  BY DEF Init, Credential!Init, NoVolume, Idle

LEMMA Agreeing ==
  ASSUME IInv, NEW p \in Proc, RestartSucceeds(p)
  PROVE  stored' = db'.pw /\ app'.pw = stored'
  <1>1. /\ op[p].pc = "restart" /\ app' = ContainersOf(op[p].rel, TRUE)
        /\ UNCHANGED <<db, stored>>
    BY DEF RestartSucceeds, At, dbVars
  <1>2. env[op[p].rel] = stored /\ stored = db.pw
    BY <1>1 DEF IInv, Own, Rotates
  <1> QED BY <1>1, <1>2 DEF ContainersOf

(* The steps that leave containers and volume as they are. *)
LEMMA LoginAside ==
  ASSUME NEW p \in Proc,
         \/ \E r \in Release : BeginDeploy(p, r) \/ BeginRollback(p, r)
         \/ Materialise(p) \/ LoadOrCreateCredentials(p) \/ WriteDatabaseCompose(p)
         \/ InjectDatabaseUrl(p) \/ StatusDeploying(p) \/ Commit(p)
         \/ BeginRotate(p) \/ BeginRetire(p) \/ StopDatabase(p) \/ WriteMarker(p)
         \/ ConfirmPurge(p) \/ LockPurge(p) \/ RemoveTrees(p) \/ RemoveLedger(p) \/ Kill(p)
  PROVE  UNCHANGED <<db, app>>
  BY DEF BeginDeploy, BeginRollback, Materialise, LoadOrCreateCredentials, WriteDatabaseCompose,
         InjectDatabaseUrl, StatusDeploying, Commit, BeginRotate, BeginRetire, StopDatabase,
         WriteMarker, ConfirmPurge, LockPurge, RemoveTrees, RemoveLedger, Kill, dbVars

(* What a restore starts can log in, unless the app.env it found was not the stored one:   *)
(* otherwise PostgreSQL would accept a password the current app.env never had.             *)
LEMMA RestoreLogsIn ==
  ASSUME IInv, NEW p \in Proc, RestorePrevious(p), CanLogIn, app'.ok, ~CanLogIn'
  PROVE  At(p, "restore") /\ op[p].previous # None /\ env[op[p].previous] # stored
  <1>1. /\ At(p, "restore") /\ op[p].pc = "restore" /\ UNCHANGED <<db, stored>>
        /\ app' \in {app} \cup
               IF op[p].previous = None THEN {Down}
               ELSE IF env[op[p].previous] = None THEN {}
               ELSE {ContainersOf(op[p].previous, ok) : ok \in BOOLEAN}
    BY DEF RestorePrevious, At, dbVars
  <1>2. app' # app
    BY <1>1 DEF CanLogIn, HasVolume
  <1>3. /\ op[p].previous # None
        /\ \E ok \in BOOLEAN : app' = ContainersOf(op[p].previous, ok)
    <2>1. ~Down.ok
      BY Kinds
    <2> QED BY <1>1, <1>2, <2>1
  <1>4. app'.pw = env[op[p].previous]
    BY <1>3 DEF ContainersOf
  <1>5. HasVolume' /\ db.pw = app.pw /\ db.pw # app'.pw
    BY <1>1 DEF CanLogIn, HasVolume
  <1>6. stored = db.pw
    BY <1>1, <1>5 DEF IInv, State, Apart, HasVolume
  <1> QED BY <1>1, <1>3, <1>4, <1>5, <1>6

(* A release that starts has the stored credential, and so what PostgreSQL accepts, when   *)
(* the containers before it could log in.                                                  *)
LEMMA ReleaseLogsIn ==
  ASSUME IInv, NEW p \in Proc, StartRelease(p), CanLogIn, app'.ok
  PROVE  CanLogIn'
  <1>1. /\ op[p].pc = "start" /\ UNCHANGED <<db, stored>>
        /\ app' = app \/ \E ok \in BOOLEAN : app' = ContainersOf(op[p].rel, ok)
    BY DEF StartRelease, At, dbVars
  <1>2. env[op[p].rel] = stored
    BY <1>1 DEF IInv, Own, Prepares, Executing
  <1>3. app' = app \/ app'.pw = stored
    BY <1>1, <1>2 DEF ContainersOf
  <1>4. HasVolume /\ app.pw = db.pw
    BY DEF CanLogIn
  <1>5. stored = db.pw
    BY <1>4 DEF IInv, State, Apart
  <1> QED BY <1>1, <1>3, <1>4, <1>5 DEF CanLogIn, HasVolume

LEMMA KeepingLogin ==
  ASSUME IInv, [Next]_vars, CanLogIn, app'.ok, ~CanLogIn'
  PROVE  \E p \in Proc :
           \/ op[p].kind = "rotate"
           \/ At(p, "restore") /\ op[p].previous # None /\ env[op[p].previous] # stored
  <1>1. ~UNCHANGED <<db, app>>
    BY DEF CanLogIn, HasVolume
  <1>2. ~(Reboot \/ BootRecovery \/ UNCHANGED vars)
    BY <1>1 DEF Reboot, BootRecovery, vars, dbVars
  <1>3. PICK p \in Proc : Step(p)
    BY <1>2 DEF Next
  <1>4. ~Down.ok
    BY Kinds
  <1>5. CASE StartDatabase(p)
    BY <1>1, <1>5, Initialised DEF CanLogIn
  <1>6. CASE StartRelease(p)
    BY <1>6, ReleaseLogsIn
  <1>7. CASE RestorePrevious(p)
    BY <1>7, RestoreLogsIn
  <1>8. CASE StopApplication(p) \/ Destroy(p)
    BY <1>4, <1>8 DEF StopApplication, Destroy
  <1>9. CASE \/ AlterDatabasePassword(p) \/ StoreCredential(p) \/ Rematerialise(p)
             \/ Reinject(p) \/ RestartSucceeds(p) \/ RestartFails(p)
    BY <1>9, KnownRotation
  <1>10. CASE \/ \E r \in Release : BeginDeploy(p, r) \/ BeginRollback(p, r)
              \/ Materialise(p) \/ LoadOrCreateCredentials(p) \/ WriteDatabaseCompose(p)
              \/ InjectDatabaseUrl(p) \/ StatusDeploying(p) \/ Commit(p)
              \/ BeginRotate(p) \/ BeginRetire(p) \/ StopDatabase(p) \/ WriteMarker(p)
              \/ ConfirmPurge(p) \/ LockPurge(p) \/ RemoveTrees(p) \/ RemoveLedger(p)
              \/ Kill(p)
    BY <1>1, <1>10, LoginAside
  <1> QED BY <1>3, <1>5, <1>6, <1>7, <1>8, <1>9, <1>10 DEF Step

-----------------------------------------------------------------------------
(* Theorems *)

(* The variables keep their types, however the commands of database_runtime.py and the     *)
(* deploys around them interleave, are killed, or meet a reboot.                           *)
THEOREM TypeCorrect == Spec => []TypeOK
  BY Inductive, PTL DEF IInv

(* load_or_create_credentials and ensure_project_database: a volume never lacks its        *)
(* credential, nor is it handed to another major.                                          *)
THEOREM VolumeIsSacred == Spec => []SacredVolume
  BY Inductive, PTL DEF IInv, State

(* database_runtime.py keeps one password: a volume accepts the stored one from the start, *)
(* only a rotation takes the two apart, and what it stores is what PostgreSQL accepts.     *)
THEOREM CredentialIsOnePassword == Spec => CredentialImplemented
  <1>1. IInv /\ IInv' /\ [Next]_vars => [Credential!Next]_(Credential!passwordVars)
    BY PasswordStep
  <1> QED
    BY <1>1, PasswordInit, Inductive, PTL DEF Spec, CredentialImplemented, Credential!Spec

(* run_rotate_database_password: a rotation that ends well leaves one password, whatever   *)
(* an earlier one that was cut short had left.                                             *)
THEOREM RotationEndsInAgreement == Spec => RotationAgrees
  <1>1. IInv => [\A p \in Proc :
                   RestartSucceeds(p) => stored' = db'.pw /\ app'.pw = stored']_vars
    BY Agreeing
  <1> QED BY <1>1, Inductive, PTL DEF RotationAgrees

(* execute_prepared_release: what becomes current runs with the stored credential beside   *)
(* a running database.                                                                     *)
THEOREM CommitsWhatLogsIn == Spec => CommittedCanLogIn
  <1>1. IInv => [\A p \in Proc : Commit(p) =>
                   app.ok /\ app.rel = op[p].rel /\ app.pw = stored /\ dbUp /\ HasVolume]_vars
    BY DEF IInv, Own, Prepares, Executing, Commit, At
  <1> QED BY <1>1, Inductive, PTL DEF CommittedCanLogIn

(* Deploy, rollback and their restores keep a healthy application logged in, but for a     *)
(* restore from an app.env that an interrupted command left stale.                         *)
THEOREM LoginSurvives == Spec => LoginKept
  <1>1. IInv /\ [Next]_vars =>
          [CanLogIn /\ app'.ok /\ ~CanLogIn' =>
             \E p \in Proc :
               \/ op[p].kind = "rotate"
               \/ At(p, "restore") /\ op[p].previous # None /\ env[op[p].previous] # stored]_vars
    BY KeepingLogin
  <1> QED BY <1>1, Inductive, PTL DEF Spec, LoginKept

=============================================================================
