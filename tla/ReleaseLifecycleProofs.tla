---------------------- MODULE ReleaseLifecycleProofs ----------------------
(***************************************************************************)
(* Theorems about ReleaseLifecycle, for any number of releases, tags,      *)
(* domains and concurrent processes, whatever is killed or rebooted.       *)
(* First, type correctness, the exclusion of the environment's lock, and   *)
(* that the ledger implements ReleaseChain; then, that what the ledger     *)
(* says agrees with the containers, the proxy and the secrets of the host, *)
(* and with what the console reads from it.                                *)
(***************************************************************************)
EXTENDS ReleaseLifecycle, TLAPS

-----------------------------------------------------------------------------
(* The inductive invariant *)

(* The steps of a deploy or rollback before its record is written, while the record is  *)
(* prepared or deploying, and after the verdict.                                        *)
Preparing == {"materialise", "inject", "current_env", "inject_current", "record"}
Executing == {"validate", "backup", "migrate", "health", "stage", "start", "activate",
              "commit", "restore", "unstage", "settle"}
Ending    == {"release", "retain", "clear", "exit"}

(* Every set of records has a latest one, by either timestamp; no two were last written *)
(* at the same time; the clock is ahead of them all; every record has a tag.            *)
HasLatest(stamp) ==
  DOMAIN stamp # {} => \E r \in DOMAIN stamp : \A q \in DOMAIN stamp : stamp[q] <= stamp[r]

Stamped ==
  /\ \A r \in Release : ledger[r].created < clock /\ ledger[r].updated < clock
  /\ \A r, q \in Records(ledger) : ledger[r].updated = ledger[q].updated => r = q
  /\ \A S \in SUBSET Records(ledger) :
       HasLatest(CreatedAt(ledger, S)) /\ HasLatest(UpdatedAt(ledger, S))
  /\ \A r \in Records(ledger) : ledger[r].tag \in Tag

(* A command past its first step holds the environment's lock. *)
Exclusive == \A p \in Proc : op[p].pc \notin {"idle", "confirmed"} => scopeLock = p

(* What a deploy or rollback knows is so: its candidate, and the release it replaces. *)
Informed(p) ==
  /\ op[p].pc \in Preparing \cup Executing \cup Ending =>
       op[p].rel \in Release /\ op[p].tag \in Tag
  /\ op[p].pc \in Preparing /\ op[p].kind = "rollback" => op[p].target \in Records(ledger)
  /\ op[p].pc \in {"current_env", "inject_current"} => op[p].kind = "rollback"
  /\ op[p].pc \in {"record"} \cup Executing => op[p].kind # "redeploy"
  /\ op[p].pc \in Preparing /\ op[p].kind # "redeploy" =>
       /\ ledger[op[p].rel].status = "none"
       /\ op[p].previous = FindLatestDeployed(ledger)
  /\ op[p].pc \in Executing =>
       /\ ledger[op[p].rel].status \in {"prepared", "deploying"}
       /\ ledger[op[p].rel].previous = op[p].previous
       /\ op[p].previous = FindLatestDeployed(ledger)

IInv == TypeOK /\ Stamped /\ Exclusive /\ (\A p \in Proc : Informed(p))

-----------------------------------------------------------------------------
(* Lemmas about the helpers *)

(* Goto changes the program counter of its process and nothing else. *)
LEMMA GotoFacts ==
  ASSUME TypeOK, NEW p \in Proc, NEW pc \in PC, Goto(p, pc)
  PROVE  /\ op' \in [Proc -> Operation]
         /\ op'[p] = [op[p] EXCEPT !.pc = pc]
         /\ \A q \in Proc \ {p} : op'[q] = op[q]
  BY DEF TypeOK, Goto, Operation

(* Leave makes its process idle and takes away its locks, and nobody else's. *)
LEMMA LeaveFacts ==
  ASSUME TypeOK, NEW p \in Proc, Leave(p)
  PROVE  /\ op' \in [Proc -> Operation]
         /\ op'[p] = Idle
         /\ \A q \in Proc \ {p} : op'[q] = op[q]
         /\ scopeLock' \in Proc \cup {None} /\ nginxLock' \in Proc \cup {None}
         /\ scopeLock' = IF scopeLock = p THEN None ELSE scopeLock
  BY DEF TypeOK, Leave, Operation, Idle, PC, Kind

(* update_release_state writes one record, whose identity and links stay. *)
LEMMA UpdateFacts ==
  ASSUME TypeOK, NEW p \in Proc, op[p].rel \in Release,
         NEW status \in Status, NEW migration \in Migration, NEW health \in Health,
         UpdateReleaseState(p, status, migration, health)
  PROVE  /\ ledger' \in Ledger /\ clock' \in Nat /\ clock' = clock + 1
         /\ ledger' = [ledger EXCEPT ![op[p].rel] =
                          [ledger[op[p].rel] EXCEPT !.status = status, !.migration = migration,
                                                    !.health = health, !.updated = clock]]
  <1>1. PICK r \in Release : r = op[p].rel
    OBVIOUS
  <1>2. ledger[r] \in Record /\ clock \in Nat
    BY DEF TypeOK, Ledger
  <1>3. [ledger[r] EXCEPT !.status = status, !.migration = migration,
                          !.health = health, !.updated = clock] \in Record
    BY <1>2 DEF Record
  <1> QED
    BY <1>1, <1>2, <1>3 DEF TypeOK, UpdateReleaseState, Ledger

-----------------------------------------------------------------------------
(* Preservation of the invariant, by kind of step *)

Working(p) == op[p].pc \notin {"idle", "confirmed"}

(* A step of p leaves the others informed, whether p holds the lock or not. *)
LEMMA OthersInformed ==
  ASSUME IInv, NEW p \in Proc, TypeOK', Stamped',
         \A q \in Proc \ {p} : op'[q] = op[q],
         \A q \in Proc \ {p} : scopeLock = q => scopeLock' = q,
         Working(p) \/ ledger' = ledger,
         Working(p)' => scopeLock' = p,
         Informed(p)'
  PROVE  IInv'
  <1>1. ASSUME NEW q \in Proc \ {p}, Working(q)
        PROVE  ~Working(p) /\ scopeLock = q
    BY <1>1 DEF IInv, Exclusive, Working
  <1>2. Exclusive'
    BY <1>1 DEF Exclusive, Working
  <1>3. ASSUME NEW q \in Proc \ {p}
        PROVE  Informed(q)'
    <2>1. op'[q] = op[q]
      OBVIOUS
    <2>2. CASE Working(q)
      <3>1. ledger' = ledger
        BY <1>1, <2>2
      <3>2. Informed(q)
        BY DEF IInv
      <3> QED
        BY <2>1, <3>1, <3>2 DEF Informed
    <2>3. CASE ~Working(q)
      BY <2>1, <2>3 DEF Informed, Working, Preparing, Executing, Ending
    <2> QED
      BY <2>2, <2>3
  <1> QED
    BY <1>2, <1>3 DEF IInv

(* The command ends: it knows nothing any more. *)
LEMMA StepLeave ==
  ASSUME IInv, NEW p \in Proc, Leave(p), TypeOK', Stamped', Working(p) \/ ledger' = ledger
  PROVE  IInv'
  <1>1. op'[p] = Idle /\ \A q \in Proc \ {p} : op'[q] = op[q]
    BY LeaveFacts DEF IInv
  <1>2. \A q \in Proc \ {p} : scopeLock = q => scopeLock' = q
    BY LeaveFacts DEF IInv
  <1>3. Informed(p)'
    BY <1>1 DEF Informed, Idle, Preparing, Executing, Ending
  <1>4. ~Working(p)'
    BY <1>1 DEF Working, Idle
  <1> QED
    BY <1>1, <1>2, <1>3, <1>4, OthersInformed

(* A step that keeps the ledger keeps its stamps. *)
LEMMA StampedKept ==
  ASSUME IInv, ledger' = ledger, clock' = clock
  PROVE  Stamped'
  BY DEF IInv, Stamped

(* p goes on to pc, still the same command. *)
Advances(p, pc) ==
  /\ op' \in [Proc -> Operation]
  /\ \A q \in Proc \ {p} : op'[q] = op[q]
  /\ op'[p].pc = pc
  /\ op'[p].kind = op[p].kind /\ op'[p].tag = op[p].tag /\ op'[p].rel = op[p].rel
  /\ op'[p].previous = op[p].previous /\ op'[p].target = op[p].target

LEMMA GotoAdvances ==
  ASSUME TypeOK, NEW p \in Proc, NEW pc \in PC, Goto(p, pc)
  PROVE  Advances(p, pc)
  <1>1. op[p] \in Operation
    BY DEF TypeOK
  <1> QED
    BY <1>1, GotoFacts DEF Advances, Operation

(* The order of the steps: preparing, executing, ending; what needs the kind of the     *)
(* command comes only in commands of that kind.                                         *)
Follows(p, pc) ==
  \/ /\ op[p].pc \in Preparing /\ pc \in Preparing
     /\ pc \in {"current_env", "inject_current"} => op[p].kind = "rollback"
     /\ pc = "record" => op[p].kind # "redeploy"
  \/ op[p].pc \in Executing /\ pc \in Executing \cup Ending
  \/ op[p].pc \in Ending /\ pc \in Ending
  \/ pc \notin Preparing \cup Executing \cup Ending

(* The command goes on, and the ledger stays. *)
LEMMA StepOn ==
  ASSUME IInv, NEW p \in Proc, NEW pc \in PC, Working(p), Advances(p, pc), Follows(p, pc),
         TypeOK', ledger' = ledger, clock' = clock, scopeLock' = scopeLock
  PROVE  IInv'
  <1>1. Informed(p)
    BY DEF IInv
  <1>2. Informed(p)'
    <2>1. CASE op[p].pc \in Preparing /\ pc \in Preparing
      BY <1>1, <2>1 DEF Informed, Advances, Follows, Preparing, Executing, Ending
    <2>2. CASE op[p].pc \in Executing /\ pc \in Executing \cup Ending
      BY <1>1, <2>2 DEF Informed, Advances, Preparing, Executing, Ending
    <2>3. CASE op[p].pc \in Ending /\ pc \in Ending
      BY <1>1, <2>3 DEF Informed, Advances, Preparing, Executing, Ending
    <2>4. CASE pc \notin Preparing \cup Executing \cup Ending
      BY <2>4 DEF Informed, Advances, Preparing, Executing, Ending
    <2> QED
      BY <2>1, <2>2, <2>3, <2>4 DEF Follows
  <1>3. scopeLock' = p
    BY DEF IInv, Exclusive, Working
  <1> QED
    BY <1>2, <1>3, StampedKept, OthersInformed DEF Advances

-----------------------------------------------------------------------------
(* The actions that leave the ledger alone *)

LEMMA MaterialiseStep ==
  ASSUME IInv, NEW p \in Proc, Materialise(p)
  PROVE  IInv'
  <1> DEFINE pc == IF op[p].kind = "rollback" THEN "inject_current" ELSE "inject"
  <1>1. pc \in PC /\ Goto(p, pc) /\ op[p].pc = "materialise"
    BY DEF PC, Materialise, At
  <1>2. Working(p) /\ Follows(p, pc)
    BY <1>1 DEF Working, Follows, Preparing, Executing, Ending, IInv, Informed
  <1>3. Advances(p, pc)
    BY <1>1, GotoAdvances DEF IInv
  <1>4. TypeOK'
    BY <1>3
       DEF IInv, TypeOK, Materialise, Advances, ledgerVars, lockVars, hostVars, proxyVars, EnvFile
  <1> QED
    BY <1>1, <1>2, <1>3, <1>4, StepOn DEF Materialise, ledgerVars, lockVars

LEMMA MaterialiseCurrentStep ==
  ASSUME IInv, NEW p \in Proc, MaterialiseCurrent(p)
  PROVE  IInv'
  <1> DEFINE pc == "materialise"
  <1>1. pc \in PC /\ Goto(p, pc) /\ op[p].pc = "current_env"
    BY DEF PC, MaterialiseCurrent, At
  <1>2. Working(p) /\ Follows(p, pc)
    BY <1>1 DEF Working, Follows, Preparing, Executing, Ending, IInv, Informed
  <1>3. Advances(p, pc)
    BY <1>1, GotoAdvances DEF IInv
  <1>4. TypeOK'
    BY <1>3
       DEF IInv, TypeOK, MaterialiseCurrent, Advances, ledgerVars, lockVars, hostVars, proxyVars, EnvFile
  <1> QED
    BY <1>1, <1>2, <1>3, <1>4, StepOn DEF MaterialiseCurrent, ledgerVars, lockVars

LEMMA InjectCurrentStep ==
  ASSUME IInv, NEW p \in Proc, InjectCurrent(p)
  PROVE  IInv'
  <1> DEFINE pc == "inject"
  <1>1. pc \in PC /\ Goto(p, pc) /\ op[p].pc = "inject_current"
    BY DEF PC, InjectCurrent, At
  <1>2. Working(p) /\ Follows(p, pc)
    BY <1>1 DEF Working, Follows, Preparing, Executing, Ending, IInv, Informed
  <1>3. Advances(p, pc)
    BY <1>1, GotoAdvances DEF IInv
  <1>4. TypeOK'
    BY <1>3
       DEF IInv, TypeOK, InjectCurrent, Advances, ledgerVars, lockVars, hostVars, proxyVars, EnvFile
  <1> QED
    BY <1>1, <1>2, <1>3, <1>4, StepOn DEF InjectCurrent, ledgerVars, lockVars

LEMMA PrepareFailsStep ==
  ASSUME IInv, NEW p \in Proc, PrepareFails(p)
  PROVE  IInv'
  <1>1. Leave(p) /\ UNCHANGED ledgerVars
    BY DEF PrepareFails
  <1>2. TypeOK'
    BY <1>1, LeaveFacts
       DEF IInv, TypeOK, PrepareFails, ledgerVars, lockVars, hostVars, proxyVars
  <1> QED
    BY <1>1, <1>2, StepLeave, StampedKept DEF ledgerVars

LEMMA NginxRefusedStep ==
  ASSUME IInv, NEW p \in Proc, NginxRefused(p)
  PROVE  IInv'
  <1>1. Leave(p) /\ UNCHANGED ledgerVars
    BY DEF NginxRefused
  <1>2. TypeOK'
    BY <1>1, LeaveFacts
       DEF IInv, TypeOK, NginxRefused, ledgerVars, lockVars, hostVars, proxyVars
  <1> QED
    BY <1>1, <1>2, StepLeave, StampedKept DEF ledgerVars

LEMMA ClearMarkerStep ==
  ASSUME IInv, NEW p \in Proc, ClearMarker(p)
  PROVE  IInv'
  <1>1. Leave(p) /\ UNCHANGED ledgerVars
    BY DEF ClearMarker
  <1>2. TypeOK'
    BY <1>1, LeaveFacts DEF IInv, TypeOK, ClearMarker, ledgerVars, lockVars, hostVars, proxyVars
  <1> QED
    BY <1>1, <1>2, StepLeave, StampedKept DEF ledgerVars

LEMMA FailDeploymentStep ==
  ASSUME IInv, NEW p \in Proc, FailDeployment(p)
  PROVE  IInv'
  <1>1. Leave(p) /\ UNCHANGED ledgerVars
    BY DEF FailDeployment
  <1>2. TypeOK'
    BY <1>1, LeaveFacts
       DEF IInv, TypeOK, FailDeployment, ledgerVars, lockVars, hostVars, proxyVars
  <1> QED
    BY <1>1, <1>2, StepLeave, StampedKept DEF ledgerVars

LEMMA RetireRefusedStep ==
  ASSUME IInv, NEW p \in Proc, RetireRefused(p)
  PROVE  IInv'
  <1>1. Leave(p) /\ UNCHANGED ledgerVars
    BY DEF RetireRefused
  <1>2. TypeOK'
    BY <1>1, LeaveFacts
       DEF IInv, TypeOK, RetireRefused, ledgerVars, lockVars, hostVars, proxyVars
  <1> QED
    BY <1>1, <1>2, StepLeave, StampedKept DEF ledgerVars

LEMMA WriteMarkerStep ==
  ASSUME IInv, NEW p \in Proc, WriteMarker(p)
  PROVE  IInv'
  <1>1. Leave(p) /\ UNCHANGED ledgerVars
    BY DEF WriteMarker
  <1>2. TypeOK'
    BY <1>1, LeaveFacts DEF IInv, TypeOK, WriteMarker, ledgerVars, lockVars, hostVars, proxyVars
  <1> QED
    BY <1>1, <1>2, StepLeave, StampedKept DEF ledgerVars

LEMMA KillStep ==
  ASSUME IInv, NEW p \in Proc, Kill(p)
  PROVE  IInv'
  <1>1. Leave(p) /\ UNCHANGED ledgerVars
    BY DEF Kill
  <1>2. TypeOK'
    BY <1>1, LeaveFacts DEF IInv, TypeOK, Kill, ledgerVars, lockVars, hostVars, proxyVars
  <1> QED
    BY <1>1, <1>2, StepLeave, StampedKept DEF ledgerVars

LEMMA ReleaseNginxStep ==
  ASSUME IInv, NEW p \in Proc, ReleaseNginx(p)
  PROVE  IInv'
  <1> DEFINE pc == "retain"
  <1>1. pc \in PC /\ Goto(p, pc) /\ op[p].pc = "release"
    BY DEF PC, ReleaseNginx, At
  <1>2. Working(p) /\ Follows(p, pc)
    BY <1>1 DEF Working, Follows, Preparing, Executing, Ending, IInv, Informed
  <1>3. Advances(p, pc)
    BY <1>1, GotoAdvances DEF IInv
  <1>4. TypeOK'
    BY <1>3 DEF IInv, TypeOK, ReleaseNginx, Advances, ledgerVars, lockVars, hostVars, proxyVars
  <1> QED
    BY <1>1, <1>2, <1>3, <1>4, StepOn DEF ReleaseNginx, ledgerVars, lockVars

LEMMA RemoveTreesStep ==
  ASSUME IInv, NEW p \in Proc, RemoveTrees(p)
  PROVE  IInv'
  <1> DEFINE pc == "purge_ledger"
  <1>1. pc \in PC /\ Goto(p, pc) /\ op[p].pc = "purge_trees"
    BY DEF PC, RemoveTrees, At
  <1>2. Working(p) /\ Follows(p, pc)
    BY <1>1 DEF Working, Follows, Preparing, Executing, Ending, IInv, Informed
  <1>3. Advances(p, pc)
    BY <1>1, GotoAdvances DEF IInv
  <1>4. TypeOK'
    BY <1>3
       DEF IInv, TypeOK, RemoveTrees, Advances, ledgerVars, lockVars, hostVars, proxyVars, EnvFile, NginxState
  <1> QED
    BY <1>1, <1>2, <1>3, <1>4, StepOn DEF RemoveTrees, ledgerVars, lockVars

LEMMA RetainStep ==
  ASSUME IInv, NEW p \in Proc, Retain(p)
  PROVE  IInv'
  <1>1. op[p].pc = "retain" /\ UNCHANGED ledgerVars
    BY DEF Retain, At
  <1>2. CASE Leave(p)
    <2>1. TypeOK'
      BY <1>2, LeaveFacts
         DEF IInv, TypeOK, Retain, ledgerVars, lockVars, hostVars, proxyVars, EnvFile
    <2> QED
      BY <1>1, <1>2, <2>1, StepLeave, StampedKept DEF ledgerVars
  <1>3. ASSUME NEW pc \in {"clear"}, Goto(p, pc), UNCHANGED scopeLock, nginxLock' \in {nginxLock, None}
        PROVE  IInv'
    <2>1. pc \in PC /\ Working(p) /\ Follows(p, pc)
      BY <1>1, <1>3 DEF PC, Working, Follows, Preparing, Executing, Ending, IInv, Informed
    <2>2. Advances(p, pc)
      BY <1>3, <2>1, GotoAdvances DEF IInv
    <2>3. TypeOK'
      BY <1>3, <2>2
         DEF IInv, TypeOK, Retain, Advances, ledgerVars, lockVars, hostVars, proxyVars, EnvFile
    <2> QED
      BY <1>1, <1>3, <2>1, <2>2, <2>3, StepOn DEF ledgerVars
  <1> QED
    BY <1>2, <1>3 DEF Retain, lockVars

LEMMA StopContainersStep ==
  ASSUME IInv, NEW p \in Proc, StopContainers(p)
  PROVE  IInv'
  <1>0. app' \in Containers
    <2>1. Down \in Containers /\ app \in Containers
      BY DEF Down, Containers, IInv, TypeOK
    <2> QED
      BY <2>1 DEF StopContainers
  <1>1. op[p].pc = "app_down" /\ UNCHANGED ledgerVars
    BY DEF StopContainers, At
  <1>2. CASE Leave(p)
    <2>1. TypeOK'
      BY <1>2, <1>0, LeaveFacts
         DEF IInv, TypeOK, StopContainers, ledgerVars, lockVars, hostVars, proxyVars
    <2> QED
      BY <1>1, <1>2, <2>1, StepLeave, StampedKept DEF ledgerVars
  <1>3. ASSUME NEW pc \in {"domains"}, Goto(p, pc), UNCHANGED scopeLock, nginxLock' \in {nginxLock, None}
        PROVE  IInv'
    <2>1. pc \in PC /\ Working(p) /\ Follows(p, pc)
      BY <1>1, <1>3 DEF PC, Working, Follows, Preparing, Executing, Ending, IInv, Informed
    <2>2. Advances(p, pc)
      BY <1>3, <2>1, GotoAdvances DEF IInv
    <2>3. TypeOK'
      BY <1>3, <1>0, <2>2
         DEF IInv, TypeOK, StopContainers, Advances, ledgerVars, lockVars, hostVars, proxyVars
    <2> QED
      BY <1>1, <1>3, <2>1, <2>2, <2>3, StepOn DEF ledgerVars
  <1> QED
    BY <1>2, <1>3 DEF StopContainers, lockVars

LEMMA DestroyContainersStep ==
  ASSUME IInv, NEW p \in Proc, DestroyContainers(p)
  PROVE  IInv'
  <1>0. app' \in Containers
    BY DEF Down, Containers, DestroyContainers
  <1>1. op[p].pc = "purge_down" /\ UNCHANGED ledgerVars
    BY DEF DestroyContainers, At
  <1>2. CASE Leave(p)
    <2>1. TypeOK'
      BY <1>2, <1>0, LeaveFacts
         DEF IInv, TypeOK, DestroyContainers, ledgerVars, lockVars, hostVars, proxyVars
    <2> QED
      BY <1>1, <1>2, <2>1, StepLeave, StampedKept DEF ledgerVars
  <1>3. ASSUME NEW pc \in {"purge_trees"}, Goto(p, pc), UNCHANGED scopeLock, nginxLock' \in {nginxLock, None}
        PROVE  IInv'
    <2>1. pc \in PC /\ Working(p) /\ Follows(p, pc)
      BY <1>1, <1>3 DEF PC, Working, Follows, Preparing, Executing, Ending, IInv, Informed
    <2>2. Advances(p, pc)
      BY <1>3, <2>1, GotoAdvances DEF IInv
    <2>3. TypeOK'
      BY <1>3, <1>0, <2>2
         DEF IInv, TypeOK, DestroyContainers, Advances, ledgerVars, lockVars, hostVars, proxyVars
    <2> QED
      BY <1>1, <1>3, <2>1, <2>2, <2>3, StepOn DEF ledgerVars
  <1> QED
    BY <1>2, <1>3 DEF DestroyContainers, lockVars

LEMMA ReleaseDomainsStep ==
  ASSUME IInv, NEW p \in Proc, ReleaseDomains(p)
  PROVE  IInv'
  <1> DEFINE pc == "marker"
  <1>1. pc \in PC /\ Goto(p, pc) /\ op[p].pc = "domains"
    BY DEF PC, ReleaseDomains, At
  <1>2. Working(p) /\ Follows(p, pc)
    BY <1>1 DEF Working, Follows, Preparing, Executing, Ending, IInv, Informed
  <1>3. Advances(p, pc)
    BY <1>1, GotoAdvances DEF IInv
  <1>4. TypeOK'
    BY <1>3
       DEF IInv, TypeOK, ReleaseDomains, Advances, ledgerVars, lockVars, hostVars, proxyVars, NginxState, Containers
  <1> QED
    BY <1>1, <1>2, <1>3, <1>4, StepOn DEF ReleaseDomains, ledgerVars, lockVars

LEMMA DomainsNotReleasedStep ==
  ASSUME IInv, NEW p \in Proc, DomainsNotReleased(p)
  PROVE  IInv'
  <1>1. Leave(p) /\ UNCHANGED ledgerVars
    BY DEF DomainsNotReleased
  <1>0. nginx' \in NginxState
    <2>1. nginx \in NginxState /\ app.rel \in Release \cup {None}
      BY DEF IInv, TypeOK, Containers
    <2>2. PICK f \in {nginx.frag, nginx.frag \ nginx.owner}, r \in {nginx.routed, app.rel} :
             nginx' = [nginx EXCEPT !.frag = f, !.routed = r]
      BY DEF DomainsNotReleased
    <2> QED
      BY <2>1, <2>2 DEF NginxState
  <1>2. TypeOK'
    BY <1>0, <1>1, LeaveFacts
       DEF IInv, TypeOK, DomainsNotReleased, ledgerVars, lockVars, hostVars, proxyVars
  <1> QED
    BY <1>1, <1>2, StepLeave, StampedKept DEF ledgerVars

LEMMA StartReleaseStep ==
  ASSUME IInv, NEW p \in Proc, StartRelease(p)
  PROVE  IInv'
  <1>0. app' \in Containers
    <2>1. op[p].rel \in Release /\ app \in Containers
      BY DEF IInv, TypeOK, Informed, StartRelease, At, Preparing, Executing, Ending
    <2>2. \A b \in BOOLEAN : [rel |-> op[p].rel, ok |-> b] \in Containers
      BY <2>1 DEF Containers
    <2> QED
      BY <2>1, <2>2 DEF StartRelease
  <1>1. op[p].pc = "start" /\ UNCHANGED ledgerVars
    BY DEF StartRelease, At
  <1>2. CASE Leave(p)
    <2>1. TypeOK'
      BY <1>2, <1>0, LeaveFacts
         DEF IInv, TypeOK, StartRelease, ledgerVars, lockVars, hostVars, proxyVars
    <2> QED
      BY <1>1, <1>2, <2>1, StepLeave, StampedKept DEF ledgerVars
  <1>3. ASSUME NEW pc \in {"activate", "restore"}, Goto(p, pc), UNCHANGED scopeLock, nginxLock' \in {nginxLock, None}
        PROVE  IInv'
    <2>1. pc \in PC /\ Working(p) /\ Follows(p, pc)
      BY <1>1, <1>3 DEF PC, Working, Follows, Preparing, Executing, Ending, IInv, Informed
    <2>2. Advances(p, pc)
      BY <1>3, <2>1, GotoAdvances DEF IInv
    <2>3. TypeOK'
      BY <1>3, <1>0, <2>2
         DEF IInv, TypeOK, StartRelease, Advances, ledgerVars, lockVars, hostVars, proxyVars
    <2> QED
      BY <1>1, <1>3, <2>1, <2>2, <2>3, StepOn DEF ledgerVars
  <1> QED
    BY <1>2, <1>3 DEF StartRelease, lockVars

LEMMA ActivateStep ==
  ASSUME IInv, NEW p \in Proc, Activate(p)
  PROVE  IInv'
  <1>0. nginx' \in NginxState
    <2> DEFINE plan == HostsOf[op[p].tag]
    <2>1. plan \in SUBSET Host
      BY LifecycleAssumption DEF IInv, Informed, Activate, At, Preparing, Executing, Ending
    <2>2. nginx \in NginxState /\ app.rel \in Release \cup {None} /\ op[p].owner \in SUBSET Host
      BY DEF IInv, TypeOK, Containers, Operation
    <2>3. \A f \in SUBSET Host, r \in Release \cup {None} :
             /\ [nginx EXCEPT !.frag = f, !.routed = r] \in NginxState
             /\ [frag |-> f, owner |-> plan, routed |-> r] \in NginxState
      BY <2>1, <2>2 DEF NginxState
    <2>4. /\ nginx.frag \in SUBSET Host /\ plan \cup (nginx.frag \ op[p].owner) \in SUBSET Host
          /\ nginx.routed \in Release \cup {None}
      BY <2>1, <2>2 DEF NginxState
    <2> DEFINE moved == plan \cup (nginx.frag \ op[p].owner)
    <2>5. CASE nginx' = [frag |-> moved, owner |-> plan, routed |-> app.rel]
      BY <2>2, <2>3, <2>4, <2>5
    <2>6. CASE nginx' \in {[nginx EXCEPT !.frag = f, !.routed = r] :
                            f \in {nginx.frag, moved}, r \in {nginx.routed, app.rel}}
      <3>1. PICK f \in {nginx.frag, moved}, r \in {nginx.routed, app.rel} :
               nginx' = [nginx EXCEPT !.frag = f, !.routed = r]
        BY <2>6
      <3> QED
        BY <3>1, <2>2, <2>3, <2>4
    <2> QED
      BY <2>5, <2>6 DEF Activate
  <1>1. op[p].pc = "activate" /\ UNCHANGED ledgerVars
    BY DEF Activate, At
  <1>2. CASE Leave(p)
    <2>1. TypeOK'
      BY <1>2, <1>0, LeaveFacts
         DEF IInv, TypeOK, Activate, ledgerVars, lockVars, hostVars, proxyVars
    <2> QED
      BY <1>1, <1>2, <2>1, StepLeave, StampedKept DEF ledgerVars
  <1>3. ASSUME NEW pc \in {"commit", "restore"}, Goto(p, pc), UNCHANGED scopeLock, nginxLock' \in {nginxLock, None}
        PROVE  IInv'
    <2>1. pc \in PC /\ Working(p) /\ Follows(p, pc)
      BY <1>1, <1>3 DEF PC, Working, Follows, Preparing, Executing, Ending, IInv, Informed
    <2>2. Advances(p, pc)
      BY <1>3, <2>1, GotoAdvances DEF IInv
    <2>3. TypeOK'
      BY <1>3, <1>0, <2>2
         DEF IInv, TypeOK, Activate, Advances, ledgerVars, lockVars, hostVars, proxyVars
    <2> QED
      BY <1>1, <1>3, <2>1, <2>2, <2>3, StepOn DEF ledgerVars
  <1> QED
    BY <1>2, <1>3 DEF Activate, lockVars

LEMMA InjectDatabaseStep ==
  ASSUME IInv, NEW p \in Proc, InjectDatabase(p)
  PROVE  IInv'
  <1>1. op[p].pc = "inject" /\ UNCHANGED ledgerVars
    BY DEF InjectDatabase, At
  <1>2. env' \in [Release -> EnvFile]
    BY DEF InjectDatabase, EnvFile, IInv, TypeOK
  <1>3. CASE op[p].kind = "redeploy"
    <2>1. Leave(p)
      BY <1>3 DEF InjectDatabase
    <2>2. TypeOK'
      BY <1>2, <2>1, LeaveFacts DEF IInv, TypeOK, InjectDatabase, ledgerVars, proxyVars
    <2> QED
      BY <1>1, <2>1, <2>2, StepLeave, StampedKept DEF ledgerVars
  <1>4. CASE op[p].kind # "redeploy"
    <2>1. Goto(p, "record") /\ UNCHANGED lockVars
      BY <1>4 DEF InjectDatabase
    <2>2. "record" \in PC /\ Working(p) /\ Follows(p, "record")
      BY <1>1, <1>4 DEF PC, Working, Follows, Preparing
    <2>3. Advances(p, "record")
      BY <2>1, <2>2, GotoAdvances DEF IInv
    <2>4. TypeOK'
      BY <1>2, <2>1, <2>3
         DEF IInv, TypeOK, InjectDatabase, Advances, ledgerVars, lockVars, proxyVars
    <2> QED
      BY <1>1, <2>1, <2>2, <2>3, <2>4, StepOn DEF ledgerVars, lockVars
  <1> QED
    BY <1>3, <1>4

LEMMA StageActivationStep ==
  ASSUME IInv, NEW p \in Proc, StageActivation(p)
  PROVE  IInv'
  <1>1. op[p].pc = "stage" /\ UNCHANGED <<ledgerVars, lockVars>>
    BY DEF StageActivation, At
  <1>2. op[p] \in Operation
    BY DEF IInv, TypeOK
  <1>3. PICK pc \in {"start", "restore"} : Advances(p, pc)
    <2>1. CASE Goto(p, "restore")
      BY <2>1, GotoAdvances DEF IInv, PC
    <2>2. CASE op' = [op EXCEPT ![p].pc = "start", ![p].staged = TRUE]
      BY <1>2, <2>2 DEF Advances, Operation, PC, IInv, TypeOK
    <2> QED
      BY <2>1, <2>2 DEF StageActivation
  <1>4. pc \in PC /\ Working(p) /\ Follows(p, pc)
    BY <1>1 DEF PC, Working, Follows, Executing
  <1>5. TypeOK'
    <2>1. CASE pending' = TRUE
      BY <1>1, <1>3, <2>1
         DEF IInv, TypeOK, StageActivation, Advances, ledgerVars, lockVars, hostVars
    <2>2. CASE UNCHANGED pending
      BY <1>1, <1>3, <2>2
         DEF IInv, TypeOK, StageActivation, Advances, ledgerVars, lockVars, hostVars
    <2> QED
      BY <2>1, <2>2 DEF StageActivation
  <1> QED
    BY <1>1, <1>3, <1>4, <1>5, StepOn DEF ledgerVars, lockVars

LEMMA RestorePreviousStep ==
  ASSUME IInv, NEW p \in Proc, RestorePrevious(p)
  PROVE  IInv'
  <1>1. op[p].pc = "restore" /\ UNCHANGED <<ledgerVars, lockVars, hostVars, env, proxyVars>>
    BY DEF RestorePrevious, At
  <1>2. op[p] \in Operation /\ app \in Containers /\ op[p].previous \in Release \cup {None}
    BY DEF IInv, TypeOK, Operation
  <1>3. Advances(p, "unstage")
    <2>1. CASE Goto(p, "unstage")
      BY <2>1, GotoAdvances DEF IInv, PC
    <2>2. CASE op' = [op EXCEPT ![p].pc = "unstage", ![p].clean = FALSE]
      BY <1>2, <2>2 DEF Advances, Operation, PC, IInv, TypeOK
    <2> QED
      BY <2>1, <2>2 DEF RestorePrevious
  <1>4. "unstage" \in PC /\ Working(p) /\ Follows(p, "unstage")
    BY <1>1 DEF PC, Working, Follows, Executing
  <1>5. app' \in Containers
    <2>1. \A r \in Release \cup {None}, b \in BOOLEAN : [rel |-> r, ok |-> b] \in Containers
      BY DEF Containers
    <2>2. \/ app' = Down \/ app' = app
          \/ app' = [rel |-> op[p].previous, ok |-> TRUE]
          \/ app' = [rel |-> op[p].previous, ok |-> FALSE]
      BY DEF RestorePrevious
    <2> QED
      BY <1>2, <2>1, <2>2 DEF Down
  <1>6. TypeOK'
    BY <1>1, <1>3, <1>5 DEF IInv, TypeOK, Advances, ledgerVars, lockVars, hostVars, proxyVars
  <1> QED
    BY <1>1, <1>3, <1>4, <1>6, StepOn DEF ledgerVars, lockVars

LEMMA RollbackNginxStep ==
  ASSUME IInv, NEW p \in Proc, RollbackNginx(p)
  PROVE  IInv'
  <1> DEFINE files == [nginx EXCEPT !.frag = op[p].frag, !.owner = op[p].owner]
  <1>1. op[p].pc = "unstage" /\ UNCHANGED <<ledgerVars, lockVars, hostVars, app, env, pending>>
    BY DEF RollbackNginx, At
  <1>2. op[p] \in Operation /\ nginx \in NginxState /\ app \in Containers
    BY DEF IInv, TypeOK
  <1>3. Advances(p, "settle")
    <2>1. CASE Goto(p, "settle")
      BY <2>1, GotoAdvances DEF IInv, PC
    <2>2. CASE op' = [op EXCEPT ![p].pc = "settle", ![p].restored = TRUE]
      BY <1>2, <2>2 DEF Advances, Operation, PC, IInv, TypeOK
    <2>3. CASE op' = [op EXCEPT ![p].pc = "settle", ![p].clean = FALSE]
      BY <1>2, <2>3 DEF Advances, Operation, PC, IInv, TypeOK
    <2> QED
      BY <2>1, <2>2, <2>3 DEF RollbackNginx
  <1>4. "settle" \in PC /\ Working(p) /\ Follows(p, "settle")
    BY <1>1 DEF PC, Working, Follows, Executing
  <1>5. nginx' \in NginxState
    <2>1. files \in NginxState
      BY <1>2 DEF Operation, NginxState
    <2>2. \A r \in Rendered(app) : [files EXCEPT !.routed = r] \in NginxState
      BY <1>2, <2>1 DEF Rendered, Containers, NginxState
    <2>3. \/ nginx' = nginx \/ nginx' = files
          \/ \E r \in Rendered(app) : nginx' = [files EXCEPT !.routed = r]
      BY DEF RollbackNginx
    <2> QED
      BY <1>2, <2>1, <2>2, <2>3
  <1>6. TypeOK'
    BY <1>1, <1>3, <1>5 DEF IInv, TypeOK, Advances, ledgerVars, lockVars, hostVars
  <1> QED
    BY <1>1, <1>3, <1>4, <1>6, StepOn DEF ledgerVars, lockVars

LEMMA ConfirmPurgeStep ==
  ASSUME IInv, NEW p \in Proc, ConfirmPurge(p)
  PROVE  IInv'
  <1>1. UNCHANGED <<ledgerVars, lockVars, hostVars, app, env, proxyVars>>
    BY DEF ConfirmPurge
  <1>2. /\ op' \in [Proc -> Operation] /\ op'[p].pc = "confirmed"
        /\ \A q \in Proc \ {p} : op'[q] = op[q]
    BY DEF ConfirmPurge, IInv, TypeOK, Operation, Idle, PC, Kind
  <1>3. TypeOK'
    BY <1>1, <1>2 DEF IInv, TypeOK, ledgerVars, lockVars, hostVars, proxyVars
  <1>4. Informed(p)' /\ ~Working(p)'
    BY <1>2 DEF Informed, Working, Preparing, Executing, Ending
  <1> QED
    BY <1>1, <1>2, <1>3, <1>4, OthersInformed, StampedKept DEF ledgerVars, lockVars

(* A command that takes the lock finds it free, so no other command is working. *)
LEMMA StepLock ==
  ASSUME IInv, NEW p \in Proc, LockScope(p), UNCHANGED <<ledgerVars, hostVars, app, env, proxyVars, nginxLock>>,
         op' \in [Proc -> Operation], \A q \in Proc \ {p} : op'[q] = op[q],
         Informed(p)'
  PROVE  IInv'
  <1>1. TypeOK'
    BY DEF IInv, TypeOK, LockScope, ledgerVars, hostVars, proxyVars
  <1>2. \A q \in Proc \ {p} : scopeLock = q => scopeLock' = q
    BY LifecycleAssumption DEF LockScope
  <1> QED
    BY <1>1, <1>2, OthersInformed, StampedKept DEF LockScope, ledgerVars

LEMMA LockPurgeStep ==
  ASSUME IInv, NEW p \in Proc, LockPurge(p)
  PROVE  IInv'
  <1>1. UNCHANGED <<ledgerVars, hostVars, app, env, proxyVars>>
    BY DEF LockPurge
  <1>2. CASE LockScope(p) /\ Goto(p, "purge_down") /\ UNCHANGED nginxLock
    <2>1. "purge_down" \in PC
      BY DEF PC
    <2>2. Advances(p, "purge_down")
      BY <1>2, <2>1, GotoAdvances DEF IInv
    <2>3. Informed(p)'
      BY <2>2 DEF Advances, Informed, Preparing, Executing, Ending
    <2> QED
      BY <1>1, <1>2, <2>2, <2>3, StepLock DEF Advances
  <1>3. CASE Leave(p)
    <2>1. TypeOK'
      BY <1>1, <1>3, LeaveFacts DEF IInv, TypeOK, ledgerVars, hostVars, proxyVars
    <2> QED
      BY <1>1, <1>3, <2>1, StepLeave, StampedKept DEF ledgerVars
  <1> QED
    BY <1>2, <1>3 DEF LockPurge

LEMMA BeginRetireStep ==
  ASSUME IInv, NEW p \in Proc, BeginRetire(p)
  PROVE  IInv'
  <1>1. /\ op' \in [Proc -> Operation] /\ op'[p].pc = "app_down"
        /\ \A q \in Proc \ {p} : op'[q] = op[q]
    BY DEF BeginRetire, IInv, TypeOK, Operation, Idle, PC, Kind
  <1>2. Informed(p)'
    BY <1>1 DEF Informed, Preparing, Executing, Ending
  <1> QED
    BY <1>1, <1>2, StepLock DEF BeginRetire

(* The latest of a set of records is one of them. *)
LEMMA LastIsMember ==
  ASSUME NEW stamp, HasLatest(stamp), DOMAIN stamp # {}
  PROVE  /\ Last(stamp) \in DOMAIN stamp
         /\ \A q \in DOMAIN stamp : stamp[q] <= stamp[Last(stamp)]
  BY DEF HasLatest, Last

(* What the ledger names as current is a deployed record, and the last written of them. *)
LEMMA LatestDeployed ==
  ASSUME IInv, FindLatestDeployed(ledger) # None
  PROVE  /\ FindLatestDeployed(ledger) \in InStatus(ledger, "deployed")
         /\ \A q \in InStatus(ledger, "deployed") :
              ledger[q].updated <= ledger[FindLatestDeployed(ledger)].updated
  <1> DEFINE D == InStatus(ledger, "deployed")
  <1>1. D \in SUBSET Records(ledger)
    BY DEF InStatus, Records
  <1>2. DOMAIN UpdatedAt(ledger, D) = D /\ \A r \in D : UpdatedAt(ledger, D)[r] = ledger[r].updated
    BY DEF UpdatedAt
  <1>3. HasLatest(UpdatedAt(ledger, D))
    BY <1>1 DEF IInv, Stamped
  <1>4. D # {}
    BY <1>2 DEF FindLatestDeployed, Last
  <1> QED
    BY <1>2, <1>3, <1>4, LastIsMember DEF FindLatestDeployed

LEMMA CurrentType ==
  ASSUME IInv
  PROVE  FindLatestDeployed(ledger) \in Release \cup {None}
  BY LatestDeployed DEF InStatus

LEMMA BeginDeployStep ==
  ASSUME IInv, NEW p \in Proc, NEW t \in Tag, BeginDeploy(p, t)
  PROVE  IInv'
  <1> DEFINE current == FindLatestDeployed(ledger)
  <1> DEFINE start(kind, r) == [Idle EXCEPT !.pc = "materialise", !.kind = kind, !.tag = t,
                                            !.rel = r, !.previous = current]
  <1>1. PICK kind \in {"deploy", "redeploy"}, r \in Release :
           /\ op' = [op EXCEPT ![p] = start(kind, r)]
           /\ kind = "deploy" => r \in Unused
    <2>1. CASE \E r \in Unused : op' = [op EXCEPT ![p] = start("deploy", r)]
      BY <2>1 DEF Unused, InStatus
    <2>2. CASE FindByTag(ledger, t) = current /\ current # None
               /\ op' = [op EXCEPT ![p] = start("redeploy", FindByTag(ledger, t))]
      BY <2>2, CurrentType
    <2> QED
      BY <2>1, <2>2 DEF BeginDeploy
  <1>2. current \in Release \cup {None}
    BY CurrentType
  <1>3. /\ op' \in [Proc -> Operation] /\ op'[p] = start(kind, r)
        /\ \A q \in Proc \ {p} : op'[q] = op[q]
    BY <1>1, <1>2 DEF IInv, TypeOK, Operation, Idle, PC, Kind
  <1>4. UNCHANGED ledger
    BY DEF BeginDeploy, ledgerVars
  <1>5. Informed(p)'
    BY <1>1, <1>3, <1>4 DEF Informed, Idle, Preparing, Executing, Ending, Unused, InStatus
  <1> QED
    BY <1>3, <1>5, StepLock DEF BeginDeploy

LEMMA BeginRollbackStep ==
  ASSUME IInv, NEW p \in Proc, BeginRollback(p)
  PROVE  IInv'
  <1> DEFINE current == FindLatestDeployed(ledger)
  <1>1. PICK target \in RollbackTargets(ledger) \ {None, current}, r \in Unused :
           op' = [op EXCEPT ![p] = [Idle EXCEPT !.pc = "current_env", !.kind = "rollback",
                                                !.tag = ledger[target].tag, !.rel = r,
                                                !.previous = current, !.target = target]]
    BY DEF BeginRollback
  <1>2. target \in Records(ledger)
    <2>1. CASE \E t \in Tag : target = Last(CreatedAt(ledger,
                 {q \in Succeeded(ledger) : ledger[q].tag = t /\ ledger[q].target = None}))
      <3>1. PICK t \in Tag : target = Last(CreatedAt(ledger,
                 {q \in Succeeded(ledger) : ledger[q].tag = t /\ ledger[q].target = None}))
        BY <2>1
      <3> DEFINE S == {q \in Succeeded(ledger) : ledger[q].tag = t /\ ledger[q].target = None}
      <3>2. S \in SUBSET Records(ledger)
        BY DEF Succeeded, InStatus, Records
      <3>3. DOMAIN CreatedAt(ledger, S) = S
        BY DEF CreatedAt
      <3>4. S # {}
        BY <1>1, <3>1, <3>3 DEF Last
      <3>5. HasLatest(CreatedAt(ledger, S))
        BY <3>2 DEF IInv, Stamped
      <3> QED
        BY <3>1, <3>2, <3>3, <3>4, <3>5, LastIsMember
    <2>2. CASE target \in Succeeded(ledger)
      BY <2>2 DEF Succeeded, InStatus, Records
    <2> QED
      BY <1>1, <2>1, <2>2 DEF RollbackTargets
  <1>3. target \in Release /\ ledger[target].tag \in Tag /\ r \in Release
    BY <1>2 DEF IInv, Stamped, Records, Unused, InStatus
  <1>4. current \in Release \cup {None}
    BY CurrentType
  <1>5. /\ op' \in [Proc -> Operation]
        /\ op'[p] = [Idle EXCEPT !.pc = "current_env", !.kind = "rollback",
                                 !.tag = ledger[target].tag, !.rel = r,
                                 !.previous = current, !.target = target]
        /\ \A q \in Proc \ {p} : op'[q] = op[q]
    BY <1>1, <1>3, <1>4 DEF IInv, TypeOK, Operation, Idle, PC, Kind
  <1>6. UNCHANGED ledger
    BY DEF BeginRollback, ledgerVars
  <1>7. ledger[r].status = "none"
    BY DEF Unused, InStatus
  <1>8. Informed(p)'
    BY <1>2, <1>3, <1>5, <1>6, <1>7 DEF Informed, Idle, Preparing, Executing, Ending
  <1> QED
    BY <1>5, <1>8, StepLock DEF BeginRollback

-----------------------------------------------------------------------------
(* The actions that write the ledger *)

(* Writing one record with the present time keeps every set of records ordered. *)
LEMMA StampedWrite ==
  ASSUME IInv, NEW r \in Release, NEW rec \in Record,
         rec.status \notin {"none", "purged"}, rec.tag \in Tag, rec.updated = clock,
         rec.created = clock \/ (r \in Records(ledger) /\ rec.created = ledger[r].created),
         ledger' = [ledger EXCEPT ![r] = rec], clock' = clock + 1
  PROVE  Stamped'
  <1>1. /\ ledger \in [Release -> Record] /\ clock \in Nat
        /\ \A q \in Release : /\ ledger[q].created \in Nat /\ ledger[q].updated \in Nat
                              /\ ledger[q].created < clock /\ ledger[q].updated < clock
    BY DEF IInv, TypeOK, Ledger, Record, Stamped
  <1>2. ledger'[r] = rec /\ \A q \in Release \ {r} : ledger'[q] = ledger[q]
    BY <1>1
  <1>3. Records(ledger') = Records(ledger) \cup {r}
    BY <1>2 DEF Records
  <1>4. \A q \in Release : ledger'[q].created < clock' /\ ledger'[q].updated < clock'
    BY <1>1, <1>2
  <1>5. \A a, b \in Records(ledger') : ledger'[a].updated = ledger'[b].updated => a = b
    BY <1>1, <1>2, <1>3 DEF IInv, Stamped, Records
  <1>6. ASSUME NEW S \in SUBSET Records(ledger')
        PROVE  HasLatest(UpdatedAt(ledger', S))
    <2>1. CASE r \in S
      <3>1. \A q \in S : ledger'[q].updated <= ledger'[r].updated
        BY <1>1, <1>2, <1>3 DEF Records
      <3> QED
        BY <2>1, <3>1 DEF HasLatest, UpdatedAt
    <2>2. CASE r \notin S
      <3>1. S \in SUBSET Records(ledger)
        BY <1>3, <2>2
      <3>2. UpdatedAt(ledger', S) = UpdatedAt(ledger, S)
        BY <1>2, <2>2, <3>1 DEF UpdatedAt, Records
      <3> QED
        BY <3>1, <3>2 DEF IInv, Stamped
    <2> QED
      BY <2>1, <2>2
  <1>7. ASSUME NEW S \in SUBSET Records(ledger')
        PROVE  HasLatest(CreatedAt(ledger', S))
    <2>1. CASE r \in S /\ rec.created = clock
      <3>1. \A q \in S : ledger'[q].created <= ledger'[r].created
        BY <1>1, <1>2, <1>3, <2>1 DEF Records
      <3> QED
        BY <2>1, <3>1 DEF HasLatest, CreatedAt
    <2>2. CASE r \notin S \/ (r \in Records(ledger) /\ rec.created = ledger[r].created)
      <3>1. S \in SUBSET Records(ledger)
        BY <1>3, <2>2
      <3>2. CreatedAt(ledger', S) = CreatedAt(ledger, S)
        BY <1>2, <2>2, <3>1 DEF CreatedAt, Records
      <3> QED
        BY <3>1, <3>2 DEF IInv, Stamped
    <2> QED
      BY <2>1, <2>2
  <1>8. \A q \in Records(ledger') : ledger'[q].tag \in Tag
    BY <1>2, <1>3 DEF IInv, Stamped, Records
  <1> QED
    BY <1>4, <1>5, <1>6, <1>7, <1>8 DEF Stamped

(* The current release is the same in ledgers with the same deployed records. *)
LEMMA LatestKept ==
  ASSUME NEW l1, NEW l2, InStatus(l1, "deployed") = InStatus(l2, "deployed"),
         \A r \in InStatus(l1, "deployed") : l1[r].updated = l2[r].updated
  PROVE  FindLatestDeployed(l1) = FindLatestDeployed(l2)
  <1>1. UpdatedAt(l1, InStatus(l1, "deployed")) = UpdatedAt(l2, InStatus(l2, "deployed"))
    BY DEF UpdatedAt
  <1> QED
    BY <1>1 DEF FindLatestDeployed

(* What a step of the execution does to the candidate's record and to the ledger. *)
LEMMA ExecutingUpdate ==
  ASSUME IInv, NEW p \in Proc, op[p].pc \in Executing,
         NEW status \in {"deploying", "deployed", "failed", "rolled_back"},
         NEW migration \in Migration, NEW health \in Health,
         UpdateReleaseState(p, status, migration, health)
  PROVE  /\ ledger' \in Ledger /\ clock' \in Nat /\ Stamped'
         /\ op[p].rel \in Release
         /\ ledger[op[p].rel].status \in {"prepared", "deploying"}
         /\ ledger'[op[p].rel].status = status
         /\ ledger'[op[p].rel].previous = op[p].previous
         /\ \A r \in Release \ {op[p].rel} : ledger'[r] = ledger[r]
         /\ status # "deployed" =>
              /\ InStatus(ledger', "deployed") = InStatus(ledger, "deployed")
              /\ FindLatestDeployed(ledger') = FindLatestDeployed(ledger)
  <1> DEFINE r == op[p].rel
             rec == [ledger[r] EXCEPT !.status = status, !.migration = migration,
                                      !.health = health, !.updated = clock]
  <1>1. /\ r \in Release /\ ledger[r].status \in {"prepared", "deploying"}
        /\ ledger[r].previous = op[p].previous
    BY DEF IInv, Informed, Executing
  <1>2. /\ ledger' \in Ledger /\ clock' \in Nat /\ clock' = clock + 1
        /\ ledger' = [ledger EXCEPT ![r] = rec]
    <2>1. TypeOK /\ status \in Status
      BY DEF Status, IInv
    <2>2. clock' = clock + 1 /\ ledger' = [ledger EXCEPT ![r] = rec]
      BY DEF UpdateReleaseState
    <2>3. ledger' \in Ledger /\ clock' \in Nat
      BY <1>1, <2>1, UpdateFacts
    <2> QED
      BY <2>2, <2>3
  <1>3. ledger \in [Release -> Record] /\ ledger[r] \in Record /\ clock \in Nat
    BY <1>1 DEF IInv, TypeOK, Ledger
  <1>4. /\ rec \in Record
        /\ rec.status = status /\ rec.previous = ledger[r].previous /\ rec.tag = ledger[r].tag
        /\ rec.created = ledger[r].created /\ rec.updated = clock
    BY <1>3 DEF Record, Status
  <1>5. r \in Records(ledger)
    BY <1>1 DEF Records
  <1>6. rec.tag \in Tag
    BY <1>4, <1>5 DEF IInv, Stamped
  <1> HIDE DEF rec
  <1>7. Stamped'
    BY <1>1, <1>2, <1>4, <1>5, <1>6, StampedWrite
  <1>8. ledger'[r] = rec /\ \A q \in Release \ {r} : ledger'[q] = ledger[q]
    BY <1>1, <1>2, <1>3
  <1>9. ASSUME status # "deployed"
        PROVE  /\ InStatus(ledger', "deployed") = InStatus(ledger, "deployed")
               /\ FindLatestDeployed(ledger') = FindLatestDeployed(ledger)
    <2>1. InStatus(ledger', "deployed") = InStatus(ledger, "deployed")
      BY <1>1, <1>4, <1>8, <1>9 DEF InStatus
    <2>2. \A q \in InStatus(ledger', "deployed") : ledger'[q].updated = ledger[q].updated
      BY <1>1, <1>8, <2>1 DEF InStatus
    <2> QED
      BY <2>1, <2>2, LatestKept
  <1> QED
    BY <1>1, <1>2, <1>4, <1>7, <1>8, <1>9

(* The command writes a state and goes on: as deploying in the execution, with any      *)
(* verdict at its end.                                                                  *)
LEMMA StepUpdate ==
  ASSUME IInv, NEW p \in Proc, op[p].pc \in Executing,
         NEW status \in {"deploying", "deployed", "failed", "rolled_back"},
         NEW migration \in Migration, NEW health \in Health,
         UpdateReleaseState(p, status, migration, health),
         NEW pc \in Executing \cup Ending, pc \in Executing => status = "deploying",
         Advances(p, pc), UNCHANGED scopeLock, nginxLock' \in Proc \cup {None},
         UNCHANGED <<hostVars, app, env, proxyVars>>
  PROVE  IInv'
  <1>1. Working(p) /\ scopeLock' = p
    BY DEF Working, Executing, IInv, Exclusive
  <1>2. TypeOK'
    BY ExecutingUpdate DEF IInv, TypeOK, Advances, hostVars, proxyVars
  <1>3. Informed(p)
    BY DEF IInv
  <1>4. Informed(p)'
    <2>1. CASE pc \in Executing
      BY <1>3, <2>1, ExecutingUpdate DEF Informed, Advances, Preparing, Executing, Ending
    <2>2. CASE pc \in Ending
      BY <1>3, <2>2 DEF Informed, Advances, Preparing, Executing, Ending
    <2> QED
      BY <2>1, <2>2
  <1> QED
    BY <1>1, <1>2, <1>4, ExecutingUpdate, OthersInformed DEF Advances

(* The command writes a verdict and ends. *)
LEMMA StepUpdateLeave ==
  ASSUME IInv, NEW p \in Proc, op[p].pc \in Executing,
         NEW status \in {"deploying", "deployed", "failed", "rolled_back"},
         NEW migration \in Migration, NEW health \in Health,
         UpdateReleaseState(p, status, migration, health),
         Leave(p), UNCHANGED <<hostVars, app, env, proxyVars>>
  PROVE  IInv'
  <1>1. Working(p)
    BY DEF Working, Executing
  <1>2. TypeOK'
    BY ExecutingUpdate, LeaveFacts DEF IInv, TypeOK, hostVars, proxyVars
  <1> QED
    BY <1>1, <1>2, ExecutingUpdate, StepLeave

(* The candidate's migration and healthcheck, as the record has them. *)
LEMMA CandidateFields ==
  ASSUME IInv, NEW p \in Proc, op[p].pc \in Executing
  PROVE  MigrationOf(p) \in Migration /\ HealthOf(p) \in Health
  <1>1. ledger[op[p].rel] \in Record
    BY DEF IInv, TypeOK, Ledger, Informed
  <1> QED
    BY <1>1 DEF MigrationOf, HealthOf, Record

LEMMA ComposeRejectedStep ==
  ASSUME IInv, NEW p \in Proc, ComposeRejected(p)
  PROVE  IInv'
  <1>1. op[p].pc \in Executing
    BY DEF ComposeRejected, At, Executing
  <1> QED
    BY <1>1, CandidateFields, StepUpdateLeave DEF ComposeRejected, Health

LEMMA PrepareNginxStep ==
  ASSUME IInv, NEW p \in Proc, PrepareNginx(p)
  PROVE  IInv'
  <1> DEFINE pc == IF MigrationOf(p) = "not_required" THEN "health" ELSE "backup"
  <1>1. op[p].pc \in Executing /\ pc \in Executing /\ pc \in PC
    BY DEF PrepareNginx, At, Executing, PC
  <1>2. op[p] \in Operation /\ nginx.frag \in SUBSET Host /\ nginx.owner \in SUBSET Host
    BY DEF IInv, TypeOK, NginxState
  <1>3. op' = [op EXCEPT ![p].pc = pc, ![p].frag = nginx.frag, ![p].owner = nginx.owner]
    BY DEF PrepareNginx
  <1> HIDE DEF pc
  <1>4. Advances(p, pc)
    BY <1>1, <1>2, <1>3 DEF Advances, Operation, IInv, TypeOK
  <1> QED
    BY <1>1, <1>4, CandidateFields, StepUpdate DEF PrepareNginx

LEMMA PreMigrationBackupStep ==
  ASSUME IInv, NEW p \in Proc, PreMigrationBackup(p)
  PROVE  IInv'
  <1>1. op[p].pc \in Executing
    BY DEF PreMigrationBackup, At, Executing
  <1>2. "migrate" \in PC /\ "migrate" \in Executing
    BY DEF PC, Executing
  <1>3. CASE UpdateReleaseState(p, "deploying", "running", HealthOf(p)) /\ Goto(p, "migrate") /\ UNCHANGED lockVars
    <2>1. Advances(p, "migrate")
      BY <1>2, <1>3, GotoAdvances DEF IInv
    <2>2. nginxLock' \in Proc \cup {None} /\ UNCHANGED scopeLock
      BY <1>3 DEF IInv, TypeOK, lockVars
    <2> QED
      BY <1>1, <1>2, <1>3, <2>1, <2>2, CandidateFields, StepUpdate
         DEF PreMigrationBackup, Migration
  <1>4. CASE UpdateReleaseState(p, "failed", "failed", HealthOf(p)) /\ Leave(p)
    BY <1>1, <1>4, CandidateFields, StepUpdateLeave DEF PreMigrationBackup, Migration
  <1> QED
    BY <1>3, <1>4 DEF PreMigrationBackup

LEMMA RunMigrationStep ==
  ASSUME IInv, NEW p \in Proc, RunMigration(p)
  PROVE  IInv'
  <1>1. op[p].pc \in Executing
    BY DEF RunMigration, At, Executing
  <1>2. "health" \in PC /\ "health" \in Executing
    BY DEF PC, Executing
  <1>3. CASE UpdateReleaseState(p, "deploying", "succeeded", HealthOf(p)) /\ Goto(p, "health") /\ UNCHANGED lockVars
    <2>1. Advances(p, "health")
      BY <1>2, <1>3, GotoAdvances DEF IInv
    <2>2. nginxLock' \in Proc \cup {None} /\ UNCHANGED scopeLock
      BY <1>3 DEF IInv, TypeOK, lockVars
    <2> QED
      BY <1>1, <1>2, <1>3, <2>1, <2>2, CandidateFields, StepUpdate DEF RunMigration, Migration
  <1>4. CASE UpdateReleaseState(p, "failed", "failed", HealthOf(p)) /\ Leave(p)
    BY <1>1, <1>4, CandidateFields, StepUpdateLeave DEF RunMigration, Migration
  <1> QED
    BY <1>3, <1>4 DEF RunMigration

LEMMA HealthcheckRunningStep ==
  ASSUME IInv, NEW p \in Proc, HealthcheckRunning(p)
  PROVE  IInv'
  <1>1. op[p].pc \in Executing /\ UpdateReleaseState(p, "deploying", MigrationOf(p), "running")
    BY DEF HealthcheckRunning, At, Executing
  <1>2. "stage" \in PC /\ "stage" \in Executing \cup Ending
    BY DEF PC, Executing, Ending
  <1>3. Advances(p, "stage")
    BY <1>2, GotoAdvances DEF IInv, HealthcheckRunning
  <1>4. nginxLock' \in Proc \cup {None} /\ UNCHANGED scopeLock
    BY DEF IInv, TypeOK, lockVars, HealthcheckRunning
  <1>5. "deploying" \in {"deploying", "deployed", "failed", "rolled_back"} /\ "running" \in Health
    BY DEF Health
  <1> QED
    BY <1>1, <1>2, <1>3, <1>4, <1>5, CandidateFields, StepUpdate
       DEF HealthcheckRunning, Executing

LEMMA CommitStep ==
  ASSUME IInv, NEW p \in Proc, Commit(p)
  PROVE  IInv'
  <1>1. op[p].pc \in Executing /\ UpdateReleaseState(p, "deployed", MigrationOf(p), "succeeded")
    BY DEF Commit, At, Executing
  <1>2. "release" \in PC /\ "release" \in Executing \cup Ending
    BY DEF PC, Executing, Ending
  <1>3. Advances(p, "release")
    BY <1>2, GotoAdvances DEF IInv, Commit
  <1>4. nginxLock' \in Proc \cup {None} /\ UNCHANGED scopeLock
    BY DEF IInv, TypeOK, lockVars, Commit
  <1>5. "deployed" \in {"deploying", "deployed", "failed", "rolled_back"} /\ "succeeded" \in Health
    BY DEF Health
  <1> QED
    BY <1>1, <1>2, <1>3, <1>4, <1>5, CandidateFields, StepUpdate DEF Commit, Executing

LEMMA SettleStep ==
  ASSUME IInv, NEW p \in Proc, Settle(p)
  PROVE  IInv'
  <1>1. op[p].pc \in Executing /\ UpdateReleaseState(p, Verdict(p), MigrationOf(p), "failed")
    BY DEF Settle, At, Executing
  <1>2. "exit" \in PC /\ "exit" \in Executing \cup Ending
    BY DEF PC, Executing, Ending
  <1>3. Advances(p, "exit")
    BY <1>2, GotoAdvances DEF IInv, Settle
  <1>4. nginxLock' \in Proc \cup {None} /\ UNCHANGED scopeLock
    BY DEF IInv, TypeOK, lockVars, Settle
  <1>5. Verdict(p) \in {"deploying", "deployed", "failed", "rolled_back"} /\ "failed" \in Health
    BY DEF Health, Verdict
  <1> QED
    BY <1>1, <1>2, <1>3, <1>4, <1>5, CandidateFields, StepUpdate DEF Settle, Executing

(* What WriteReleaseRecord puts into the ledger, for a process that is informed. *)
LEMMA NewRecord ==
  ASSUME IInv, NEW p \in Proc, WriteReleaseRecord(p)
  PROVE  /\ op[p].rel \in Release /\ ledger[op[p].rel].status = "none"
         /\ ledger' \in Ledger /\ ledger'[op[p].rel] \in Record
         /\ ledger' = [ledger EXCEPT ![op[p].rel] = ledger'[op[p].rel]]
         /\ ledger'[op[p].rel].status = "prepared" /\ ledger'[op[p].rel].tag \in Tag
         /\ ledger'[op[p].rel].previous = op[p].previous
         /\ ledger'[op[p].rel].created = clock /\ ledger'[op[p].rel].updated = clock
  <1> DEFINE r == op[p].rel
             rec == IF op[p].kind = "rollback"
                    THEN RollbackRecord(ledger, op[p].target, op[p].previous, clock)
                    ELSE PreparedRecord(op[p].tag, op[p].previous, op[p].tag \in Migrates, clock)
  <1>1. op[p].pc = "record"
    BY DEF WriteReleaseRecord, At
  <1>2. /\ r \in Release /\ op[p].tag \in Tag /\ ledger[r].status = "none"
        /\ op[p].kind = "rollback" => op[p].target \in Records(ledger)
    BY <1>1 DEF IInv, Informed, Preparing, Executing
  <1>3. op[p].previous \in Release \cup {None} /\ clock \in Nat /\ ledger \in [Release -> Record]
    BY DEF IInv, TypeOK, Operation, Ledger
  <1>4. /\ rec \in Record /\ rec.status = "prepared" /\ rec.tag \in Tag
        /\ rec.previous = op[p].previous /\ rec.created = clock /\ rec.updated = clock
    <2>1. CASE op[p].kind = "rollback"
      <3>1. op[p].target \in Release /\ ledger[op[p].target].tag \in Tag
        BY <1>2, <2>1 DEF IInv, Stamped, Records
      <3> QED
        BY <1>3, <2>1, <3>1 DEF RollbackRecord, NoRecord, Record, Status, Migration, Health
    <2>2. CASE op[p].kind # "rollback"
      BY <1>2, <1>3, <2>2 DEF PreparedRecord, NoRecord, Record, Status, Migration, Health
    <2> QED
      BY <2>1, <2>2
  <1>5. ledger' = [ledger EXCEPT ![r] = rec]
    BY DEF WriteReleaseRecord
  <1> HIDE DEF rec
  <1>6. ledger'[r] = rec
    BY <1>2, <1>3, <1>5
  <1> QED
    BY <1>2, <1>3, <1>4, <1>5, <1>6 DEF Ledger

LEMMA WriteReleaseRecordStep ==
  ASSUME IInv, NEW p \in Proc, WriteReleaseRecord(p)
  PROVE  IInv'
  <1> DEFINE r == op[p].rel
  <1>1. /\ op[p].pc = "record" /\ Goto(p, "validate") /\ clock' = clock + 1
        /\ UNCHANGED <<lockVars, hostVars, app, env, proxyVars>>
    BY DEF WriteReleaseRecord, At
  <1>2. "validate" \in PC /\ Working(p)
    BY <1>1 DEF PC, Working
  <1>3. Advances(p, "validate")
    BY <1>1, <1>2, GotoAdvances DEF IInv
  <1>4. clock \in Nat /\ clock' \in Nat
    BY <1>1 DEF IInv, TypeOK
  <1>5. Stamped'
    <2>1. /\ r \in Release /\ ledger'[r] \in Record /\ ledger' = [ledger EXCEPT ![r] = ledger'[r]]
          /\ ledger'[r].status \notin {"none", "purged"} /\ ledger'[r].tag \in Tag
          /\ ledger'[r].updated = clock /\ ledger'[r].created = clock
      BY NewRecord
    <2> QED
      BY <1>1, <2>1, StampedWrite
  <1>6. TypeOK'
    BY <1>1, <1>3, <1>4, NewRecord DEF IInv, TypeOK, Advances, lockVars, hostVars, proxyVars
  <1>7. FindLatestDeployed(ledger') = FindLatestDeployed(ledger)
    <2>1. ledger \in [Release -> Record]
      BY DEF IInv, TypeOK, Ledger
    <2>2. \A q \in Release \ {r} : ledger'[q] = ledger[q]
      BY <2>1, NewRecord
    <2>3. InStatus(ledger', "deployed") = InStatus(ledger, "deployed")
      BY <2>2, NewRecord DEF InStatus
    <2>4. \A q \in InStatus(ledger', "deployed") : ledger'[q].updated = ledger[q].updated
      BY <2>2, NewRecord DEF InStatus
    <2> QED
      BY <2>3, <2>4, LatestKept
  <1>8. Informed(p)'
    <2>1. Informed(p)
      BY DEF IInv
    <2> QED
      BY <1>1, <1>3, <1>7, <2>1, NewRecord DEF Informed, Advances, Preparing, Executing, Ending
  <1>9. scopeLock' = p
    BY <1>1, <1>2 DEF IInv, Exclusive, Working, lockVars
  <1> QED
    BY <1>1, <1>2, <1>3, <1>5, <1>6, <1>8, <1>9, OthersInformed DEF Advances, lockVars

(* Removing records keeps the rest ordered. *)
LEMMA StampedForget ==
  ASSUME IInv, NEW gone \in SUBSET Records(ledger), ledger' = Without(ledger, gone), clock' = clock
  PROVE  ledger' \in Ledger /\ Stamped'
  <1>1. /\ ledger \in [Release -> Record] /\ clock \in Nat
        /\ \A q \in Release : /\ ledger[q].created \in Nat /\ ledger[q].updated \in Nat
                              /\ ledger[q].created < clock /\ ledger[q].updated < clock
    BY DEF IInv, TypeOK, Ledger, Record, Stamped
  <1>2. PurgedRecord \in Record /\ PurgedRecord.status = "purged"
        /\ PurgedRecord.created = 0 /\ PurgedRecord.updated = 0
    BY DEF PurgedRecord, NoRecord, Record, Status, Migration, Health
  <1>3. \A q \in Release : ledger'[q] = IF q \in gone THEN PurgedRecord ELSE ledger[q]
    BY DEF Without
  <1>4. ledger' \in Ledger
    BY <1>1, <1>2 DEF Without, Ledger
  <1>5. Records(ledger') = Records(ledger) \ gone
    BY <1>2, <1>3 DEF Records
  <1>6. \A q \in Release : ledger'[q].created < clock' /\ ledger'[q].updated < clock'
    BY <1>1, <1>2, <1>3
  <1>7. ASSUME NEW S \in SUBSET Records(ledger')
        PROVE  HasLatest(CreatedAt(ledger', S)) /\ HasLatest(UpdatedAt(ledger', S))
    <2>1. S \in SUBSET Records(ledger)
      BY <1>5
    <2>2. CreatedAt(ledger', S) = CreatedAt(ledger, S) /\ UpdatedAt(ledger', S) = UpdatedAt(ledger, S)
      BY <1>3, <1>5 DEF CreatedAt, UpdatedAt, Records
    <2> QED
      BY <2>1, <2>2 DEF IInv, Stamped
  <1>8. /\ \A a, b \in Records(ledger') : ledger'[a].updated = ledger'[b].updated => a = b
        /\ \A q \in Records(ledger') : ledger'[q].tag \in Tag
    BY <1>3, <1>5 DEF IInv, Stamped, Records
  <1> QED
    BY <1>4, <1>6, <1>7, <1>8 DEF Stamped

LEMMA RemoveLedgerStep ==
  ASSUME IInv, NEW p \in Proc, RemoveLedger(p)
  PROVE  IInv'
  <1>1. /\ op[p].pc = "purge_ledger" /\ Goto(p, "purge_rest")
        /\ UNCHANGED <<clock, lockVars, volume, host, app, env, proxyVars>>
    BY DEF RemoveLedger, At
  <1>2. PICK gone \in SUBSET Records(ledger), marker \in {retired, FALSE} :
           ledger' = Without(ledger, gone) /\ retired' = marker
    BY DEF RemoveLedger
  <1>3. ledger' \in Ledger /\ Stamped'
    BY <1>1, <1>2, StampedForget
  <1>4. "purge_rest" \in PC /\ Working(p)
    BY <1>1 DEF PC, Working
  <1>5. Advances(p, "purge_rest")
    BY <1>1, <1>4, GotoAdvances DEF IInv
  <1>6. retired' \in BOOLEAN
    BY <1>2 DEF IInv, TypeOK
  <1>7. TypeOK'
    BY <1>1, <1>3, <1>5, <1>6 DEF IInv, TypeOK, Advances, lockVars, proxyVars
  <1>8. Informed(p)'
    BY <1>5 DEF Advances, Informed, Preparing, Executing, Ending
  <1>9. scopeLock' = p /\ UNCHANGED scopeLock
    BY <1>1, <1>4 DEF IInv, Exclusive, Working, lockVars
  <1> QED
    BY <1>3, <1>4, <1>5, <1>7, <1>8, <1>9, OthersInformed DEF Advances

LEMMA FinishPurgeStep ==
  ASSUME IInv, NEW p \in Proc, FinishPurge(p)
  PROVE  IInv'
  <1>1. /\ op[p].pc = "purge_rest" /\ Leave(p)
        /\ ledger' = Without(ledger, Records(ledger)) /\ retired' = FALSE
        /\ UNCHANGED <<clock, volume, host, app, env, proxyVars>>
    BY DEF FinishPurge, At
  <1>2. ledger' \in Ledger /\ Stamped'
    BY <1>1, StampedForget
  <1>3. TypeOK'
    BY <1>1, <1>2, LeaveFacts DEF IInv, TypeOK, proxyVars
  <1> QED
    BY <1>1, <1>2, <1>3, StepLeave DEF Working

-----------------------------------------------------------------------------
(* The steps of the environment *)

LEMMA ReconcileStep ==
  ASSUME IInv, Reconcile
  PROVE  IInv'
  <1>1. UNCHANGED <<ledgerVars, lockVars, hostVars, app, env, pending, op>>
    BY DEF Reconcile
  <1>2. nginx' \in NginxState
    <2>1. nginx \in NginxState /\ app \in Containers
      BY DEF IInv, TypeOK
    <2>2. PICK r \in Rendered(app) : nginx' = [nginx EXCEPT !.routed = r]
      BY DEF Reconcile
    <2> QED
      BY <2>1, <2>2 DEF Rendered, Containers, NginxState
  <1>3. TypeOK'
    BY <1>1, <1>2 DEF IInv, TypeOK, ledgerVars, lockVars, hostVars
  <1>4. Stamped'
    BY <1>1, StampedKept DEF ledgerVars
  <1>5. Exclusive' /\ \A p \in Proc : Informed(p)'
    BY <1>1 DEF IInv, Exclusive, Informed, ledgerVars, lockVars
  <1> QED
    BY <1>3, <1>4, <1>5 DEF IInv

LEMMA RebootStep ==
  ASSUME IInv, Reboot
  PROVE  IInv'
  <1>1. UNCHANGED <<ledgerVars, retired, volume, app, proxyVars>>
    BY DEF Reboot
  <1>2. op' = [p \in Proc |-> Idle] /\ Idle \in Operation
    BY DEF Reboot, Operation, Idle, PC, Kind
  <1>3. TypeOK'
    BY <1>1, <1>2 DEF IInv, TypeOK, Reboot, EnvFile, ledgerVars, proxyVars
  <1>4. Stamped'
    BY <1>1, StampedKept DEF ledgerVars
  <1>5. Exclusive' /\ \A p \in Proc : Informed(p)'
    BY <1>2 DEF Exclusive, Informed, Idle, Preparing, Executing, Ending
  <1> QED
    BY <1>3, <1>4, <1>5 DEF IInv

LEMMA BootRecoveryStep ==
  ASSUME IInv, BootRecovery
  PROVE  IInv'
  <1>1. UNCHANGED <<ledgerVars, lockVars, retired, volume, app, proxyVars, op>>
    BY DEF BootRecovery
  <1>2. env' \in [Release -> EnvFile] /\ host' = "up"
    BY DEF BootRecovery, IInv, TypeOK, EnvFile
  <1>3. TypeOK'
    BY <1>1, <1>2 DEF IInv, TypeOK, ledgerVars, lockVars, proxyVars
  <1>4. Stamped'
    BY <1>1, StampedKept DEF ledgerVars
  <1>5. Exclusive' /\ \A p \in Proc : Informed(p)'
    BY <1>1 DEF IInv, Exclusive, Informed, ledgerVars, lockVars
  <1> QED
    BY <1>3, <1>4, <1>5 DEF IInv

-----------------------------------------------------------------------------
(* The invariant *)

LEMMA InitInv == Init => IInv
  <1> SUFFICES ASSUME Init PROVE IInv
    OBVIOUS
  <1>1. \A r \in Release : ledger[r] = NoRecord
    BY DEF Init
  <1>2. NoRecord \in Record /\ NoRecord.status = "none" /\ NoRecord.created = 0 /\ NoRecord.updated = 0
    BY DEF NoRecord, Record, Status, Migration, Health
  <1>3. Records(ledger) = {}
    BY <1>1, <1>2 DEF Records
  <1>4. Idle \in Operation
    BY DEF Operation, Idle, PC, Kind
  <1>5. Down \in Containers /\ [frag |-> {}, owner |-> {}, routed |-> None] \in NginxState
    BY DEF Down, Containers, NginxState
  <1>6. ledger \in Ledger
    BY <1>2 DEF Init, Ledger
  <1>7. TypeOK
    BY <1>4, <1>5, <1>6 DEF Init, TypeOK, EnvFile
  <1>8. Stamped
    <2>1. \A r \in Release : ledger[r].created < clock /\ ledger[r].updated < clock
      BY <1>1, <1>2 DEF Init
    <2>2. HasLatest(CreatedAt(ledger, {})) /\ HasLatest(UpdatedAt(ledger, {}))
      BY DEF HasLatest, CreatedAt, UpdatedAt
    <2> QED
      BY <1>3, <2>1, <2>2 DEF Stamped
  <1>9. Exclusive /\ \A p \in Proc : Informed(p)
    BY DEF Init, Exclusive, Informed, Idle, Preparing, Executing, Ending
  <1> QED
    BY <1>7, <1>8, <1>9 DEF IInv

LEMMA NextInv == IInv /\ [Next]_vars => IInv'
  <1> SUFFICES ASSUME IInv, [Next]_vars PROVE IInv'
    OBVIOUS
  <1>1. ASSUME NEW p \in Proc, Step(p)
        PROVE  IInv'
    <2>1. CASE \E t \in Tag : BeginDeploy(p, t)
      BY <1>1, <2>1, BeginDeployStep
    <2>2. CASE Materialise(p)
      BY <1>1, <2>2, MaterialiseStep
    <2>3. CASE InjectDatabase(p)
      BY <1>1, <2>3, InjectDatabaseStep
    <2>4. CASE PrepareFails(p)
      BY <1>1, <2>4, PrepareFailsStep
    <2>5. CASE WriteReleaseRecord(p)
      BY <1>1, <2>5, WriteReleaseRecordStep
    <2>6. CASE BeginRollback(p)
      BY <1>1, <2>6, BeginRollbackStep
    <2>7. CASE MaterialiseCurrent(p)
      BY <1>1, <2>7, MaterialiseCurrentStep
    <2>8. CASE InjectCurrent(p)
      BY <1>1, <2>8, InjectCurrentStep
    <2>9. CASE ComposeRejected(p)
      BY <1>1, <2>9, ComposeRejectedStep
    <2>10. CASE NginxRefused(p)
      BY <1>1, <2>10, NginxRefusedStep
    <2>11. CASE PrepareNginx(p)
      BY <1>1, <2>11, PrepareNginxStep
    <2>12. CASE PreMigrationBackup(p)
      BY <1>1, <2>12, PreMigrationBackupStep
    <2>13. CASE RunMigration(p)
      BY <1>1, <2>13, RunMigrationStep
    <2>14. CASE HealthcheckRunning(p)
      BY <1>1, <2>14, HealthcheckRunningStep
    <2>15. CASE StageActivation(p)
      BY <1>1, <2>15, StageActivationStep
    <2>16. CASE StartRelease(p)
      BY <1>1, <2>16, StartReleaseStep
    <2>17. CASE Activate(p)
      BY <1>1, <2>17, ActivateStep
    <2>18. CASE Commit(p)
      BY <1>1, <2>18, CommitStep
    <2>19. CASE ReleaseNginx(p)
      BY <1>1, <2>19, ReleaseNginxStep
    <2>20. CASE Retain(p)
      BY <1>1, <2>20, RetainStep
    <2>21. CASE ClearMarker(p)
      BY <1>1, <2>21, ClearMarkerStep
    <2>22. CASE RestorePrevious(p)
      BY <1>1, <2>22, RestorePreviousStep
    <2>23. CASE RollbackNginx(p)
      BY <1>1, <2>23, RollbackNginxStep
    <2>24. CASE Settle(p)
      BY <1>1, <2>24, SettleStep
    <2>25. CASE FailDeployment(p)
      BY <1>1, <2>25, FailDeploymentStep
    <2>26. CASE BeginRetire(p)
      BY <1>1, <2>26, BeginRetireStep
    <2>27. CASE StopContainers(p)
      BY <1>1, <2>27, StopContainersStep
    <2>28. CASE ReleaseDomains(p)
      BY <1>1, <2>28, ReleaseDomainsStep
    <2>29. CASE DomainsNotReleased(p)
      BY <1>1, <2>29, DomainsNotReleasedStep
    <2>30. CASE RetireRefused(p)
      BY <1>1, <2>30, RetireRefusedStep
    <2>31. CASE WriteMarker(p)
      BY <1>1, <2>31, WriteMarkerStep
    <2>32. CASE ConfirmPurge(p)
      BY <1>1, <2>32, ConfirmPurgeStep
    <2>33. CASE LockPurge(p)
      BY <1>1, <2>33, LockPurgeStep
    <2>34. CASE DestroyContainers(p)
      BY <1>1, <2>34, DestroyContainersStep
    <2>35. CASE RemoveTrees(p)
      BY <1>1, <2>35, RemoveTreesStep
    <2>36. CASE RemoveLedger(p)
      BY <1>1, <2>36, RemoveLedgerStep
    <2>37. CASE FinishPurge(p)
      BY <1>1, <2>37, FinishPurgeStep
    <2>38. CASE Kill(p)
      BY <1>1, <2>38, KillStep
    <2> QED
      BY <1>1, <2>1, <2>2, <2>3, <2>4, <2>5, <2>6, <2>7, <2>8, <2>9, <2>10,
         <2>11, <2>12, <2>13, <2>14, <2>15, <2>16, <2>17, <2>18, <2>19, <2>20,
         <2>21, <2>22, <2>23, <2>24, <2>25, <2>26, <2>27, <2>28, <2>29, <2>30,
         <2>31, <2>32, <2>33, <2>34, <2>35, <2>36, <2>37, <2>38 DEF Step
  <1>2. CASE Reconcile
    BY <1>2, ReconcileStep
  <1>3. CASE Reboot
    BY <1>3, RebootStep
  <1>4. CASE BootRecovery
    BY <1>4, BootRecoveryStep
  <1>5. CASE UNCHANGED vars
    BY <1>5 DEF vars, IInv, TypeOK, Stamped, Exclusive, Informed
  <1> QED
    BY <1>1, <1>2, <1>3, <1>4, <1>5 DEF Next

(* The invariant is inductive: every step of every command, wherever others stand, keeps *)
(* the ledger's timestamps ordered, the lock exclusive and what each command read true.  *)
THEOREM Invariance == Spec => []IInv
  BY InitInv, NextInv, PTL DEF Spec

(* Every variable keeps its type: the commands build well-formed records, operations    *)
(* and proxy files whatever they race with.                                             *)
THEOREM TypeCorrect == Spec => []TypeOK
  <1>1. IInv => TypeOK
    BY DEF IInv
  <1> QED
    BY <1>1, Invariance, PTL

(* project_environment_lock: of the commands past their first step, at most one runs    *)
(* in an environment at a time, and it holds the lock.                                  *)
THEOREM OneCommandAtATime ==
  Spec => [](\A p, q \in Proc : Working(p) /\ Working(q) => p = q)
  <1>1. IInv => \A p, q \in Proc : Working(p) /\ Working(q) => p = q
    BY DEF IInv, Exclusive, Working
  <1> QED
    BY <1>1, Invariance, PTL

-----------------------------------------------------------------------------
(* The ledger implements ReleaseChain *)

(* A step that changes no deployed record is a stutter of the chain. *)
LEMMA ChainStutter ==
  ASSUME InStatus(ledger', "deployed") = InStatus(ledger, "deployed"),
         \A r \in InStatus(ledger, "deployed") :
           ledger'[r].updated = ledger[r].updated /\ ledger'[r].previous = ledger[r].previous
  PROVE  UNCHANGED Chain!chainVars
  <1>1. FindLatestDeployed(ledger') = FindLatestDeployed(ledger)
    BY LatestKept
  <1>2. [r \in Release |-> IF r \in Committed THEN ledger[r].previous ELSE None]'
          = [r \in Release |-> IF r \in Committed THEN ledger[r].previous ELSE None]
    BY DEF Committed
  <1> QED
    BY <1>1, <1>2 DEF Chain!chainVars, Committed

(* update_release_state to anything but deployed. *)
LEMMA ChainUpdate ==
  ASSUME IInv, NEW p \in Proc, op[p].pc \in Executing,
         NEW status \in {"deploying", "failed", "rolled_back"},
         NEW migration \in Migration, NEW health \in Health,
         UpdateReleaseState(p, status, migration, health)
  PROVE  UNCHANGED Chain!chainVars
  <1>1. /\ InStatus(ledger', "deployed") = InStatus(ledger, "deployed")
        /\ ledger[op[p].rel].status # "deployed"
        /\ \A r \in Release \ {op[p].rel} : ledger'[r] = ledger[r]
    BY ExecutingUpdate
  <1>2. \A r \in InStatus(ledger, "deployed") : ledger'[r] = ledger[r]
    BY <1>1 DEF InStatus
  <1> QED
    BY <1>1, <1>2, ChainStutter

LEMMA ChainRecord ==
  ASSUME IInv, NEW p \in Proc, WriteReleaseRecord(p)
  PROVE  UNCHANGED Chain!chainVars
  <1>1. \A r \in Release \ {op[p].rel} : ledger'[r] = ledger[r]
    BY NewRecord DEF IInv, TypeOK, Ledger
  <1>2. InStatus(ledger', "deployed") = InStatus(ledger, "deployed")
    BY <1>1, NewRecord DEF InStatus
  <1>3. \A r \in InStatus(ledger, "deployed") : ledger'[r] = ledger[r]
    BY <1>1, NewRecord DEF InStatus
  <1> QED
    BY <1>2, <1>3, ChainStutter

(* The commit links the candidate to the release that is current at that very moment. *)
LEMMA ChainCommit ==
  ASSUME IInv, IInv', NEW p \in Proc, Commit(p), NEW r \in Release, r = op[p].rel
  PROVE  Chain!Commit(r)
  <1> DEFINE D == InStatus(ledger', "deployed")
  <1>1. op[p].pc \in Executing /\ UpdateReleaseState(p, "deployed", MigrationOf(p), "succeeded")
    BY DEF Commit, At, Executing
  <1>2. MigrationOf(p) \in Migration /\ "succeeded" \in Health
    BY <1>1, CandidateFields DEF Health
  <1>3. /\ r \in Release /\ ledger[r].status \in {"prepared", "deploying"}
        /\ ledger'[r].status = "deployed" /\ ledger'[r].previous = op[p].previous
        /\ \A q \in Release \ {r} : ledger'[q] = ledger[q]
    BY <1>1, <1>2, ExecutingUpdate
  <1>4. op[p].previous = FindLatestDeployed(ledger)
    BY <1>1 DEF IInv, Informed
  <1>5. D = InStatus(ledger, "deployed") \cup {r} /\ r \notin InStatus(ledger, "deployed")
    BY <1>3 DEF InStatus
  <1>6. ledger'[r].updated = clock /\ \A q \in D \ {r} : ledger'[q].updated < clock
    <2>1. ledger[r] \in Record /\ ledger \in [Release -> Record]
      BY <1>3 DEF IInv, TypeOK, Ledger
    <2>2. ledger'[r].updated = clock
      BY <1>1, <1>3, <2>1 DEF UpdateReleaseState, Record
    <2>3. \A q \in D \ {r} : ledger'[q].updated < clock
      BY <1>3, <1>5 DEF IInv, Stamped, InStatus
    <2> QED
      BY <2>2, <2>3
  <1>7. FindLatestDeployed(ledger') = r
    <2>1. DOMAIN UpdatedAt(ledger', D) = D /\ \A q \in D : UpdatedAt(ledger', D)[q] = ledger'[q].updated
      BY DEF UpdatedAt
    <2>2. D \in SUBSET Records(ledger')
      BY DEF InStatus, Records
    <2>3. HasLatest(UpdatedAt(ledger', D))
      BY <2>2 DEF IInv, Stamped
    <2>4. r \in D /\ D # {}
      BY <1>5
    <2>5. /\ FindLatestDeployed(ledger') \in D
          /\ ledger'[r].updated <= ledger'[FindLatestDeployed(ledger')].updated
      BY <2>1, <2>3, <2>4, LastIsMember DEF FindLatestDeployed
    <2>6. \A q \in D : ledger'[q].updated \in Nat
      BY DEF IInv, TypeOK, Ledger, Record, InStatus
    <2>7. clock \in Nat
      BY DEF IInv, TypeOK
    <2> HIDE DEF D
    <2> QED
      BY <1>6, <2>4, <2>5, <2>6, <2>7
  <1>8. [q \in Release |-> IF q \in Committed THEN ledger[q].previous ELSE None]'
          = [[q \in Release |-> IF q \in Committed THEN ledger[q].previous ELSE None]
               EXCEPT ![r] = FindLatestDeployed(ledger)]
    BY <1>3, <1>4, <1>5 DEF Committed
  <1> QED
    BY <1>5, <1>7, <1>8 DEF Chain!Commit, Committed

(* A purge, whole or interrupted, forgets releases and moves the head only if it goes. *)
LEMMA ChainForget ==
  ASSUME IInv, IInv', NEW gone \in SUBSET Records(ledger), ledger' = Without(ledger, gone)
  PROVE  \E g \in SUBSET Committed : Chain!Forget(g)
  <1>0. PICK g \in SUBSET Committed : g = gone \cap Committed
    OBVIOUS
  <1> DEFINE D == InStatus(ledger, "deployed")
             E == InStatus(ledger', "deployed")
  <1>1. \A q \in Release : ledger'[q] = IF q \in gone THEN PurgedRecord ELSE ledger[q]
    BY DEF Without
  <1>2. PurgedRecord.status = "purged"
    BY DEF PurgedRecord, NoRecord
  <1>3. E = D \ g
    BY <1>0, <1>1, <1>2 DEF InStatus, Committed
  <1>4. \A q \in E : ledger'[q] = ledger[q]
    BY <1>1, <1>2 DEF InStatus
  <1>5. FindLatestDeployed(ledger') \in
          IF FindLatestDeployed(ledger) \in g THEN E \cup {None} ELSE {FindLatestDeployed(ledger)}
    <2>1. CASE FindLatestDeployed(ledger) \in g
      <3>1. DOMAIN UpdatedAt(ledger', E) = E
        BY DEF UpdatedAt
      <3>2. HasLatest(UpdatedAt(ledger', E))
        BY DEF IInv, Stamped, InStatus, Records
      <3>3. E # {} => FindLatestDeployed(ledger') \in E
        BY <3>1, <3>2, LastIsMember DEF FindLatestDeployed
      <3>4. E = {} => FindLatestDeployed(ledger') = None
        BY <3>1 DEF FindLatestDeployed, Last
      <3> QED
        BY <2>1, <3>3, <3>4
    <2>2. CASE FindLatestDeployed(ledger) \notin g /\ FindLatestDeployed(ledger) = None
      <3>1. D = {}
        <4>1. DOMAIN UpdatedAt(ledger, D) = D
          BY DEF UpdatedAt
        <4>2. HasLatest(UpdatedAt(ledger, D))
          BY DEF IInv, Stamped, InStatus, Records
        <4>3. D # {} => FindLatestDeployed(ledger) \in D
          BY <4>1, <4>2, LastIsMember DEF FindLatestDeployed
        <4>4. None \notin D
          BY LedgerAssumption DEF InStatus
        <4> QED
          BY <2>2, <4>3, <4>4
      <3>2. E = {}
        BY <1>3, <3>1
      <3>3. FindLatestDeployed(ledger') = None
        BY <3>2 DEF FindLatestDeployed, Last, UpdatedAt
      <3> QED
        BY <2>2, <3>3
    <2>3. CASE FindLatestDeployed(ledger) \notin g /\ FindLatestDeployed(ledger) # None
      <3> DEFINE h == FindLatestDeployed(ledger)
                 k == FindLatestDeployed(ledger')
      <3>1. h \in D /\ \A q \in D : ledger[q].updated <= ledger[h].updated
        BY <2>3, LatestDeployed
      <3>2. h \in E
        BY <1>3, <2>3, <3>1
      <3>3. DOMAIN UpdatedAt(ledger', E) = E /\ \A q \in E : UpdatedAt(ledger', E)[q] = ledger'[q].updated
        BY DEF UpdatedAt
      <3>4. HasLatest(UpdatedAt(ledger', E))
        BY DEF IInv, Stamped, InStatus, Records
      <3>5. k \in E /\ ledger'[h].updated <= ledger'[k].updated
        BY <3>2, <3>3, <3>4, LastIsMember DEF FindLatestDeployed
      <3>6. /\ ledger[h].updated <= ledger[k].updated /\ ledger[k].updated <= ledger[h].updated
            /\ h \in Records(ledger) /\ k \in Records(ledger)
            /\ ledger[h].updated \in Nat /\ ledger[k].updated \in Nat
        <4>1. k \in D
          BY <1>3, <3>5
        <4>2. h \in Records(ledger) /\ k \in Records(ledger)
          BY <3>1, <4>1 DEF InStatus, Records
        <4>3. ledger[h].updated \in Nat /\ ledger[k].updated \in Nat
          BY <4>2 DEF IInv, TypeOK, Ledger, Record, Records
        <4> HIDE DEF h, k, D, E
        <4> QED
          BY <1>4, <3>1, <3>2, <3>5, <4>1, <4>2, <4>3
      <3>7. h = k
        BY <3>6 DEF IInv, Stamped
      <3> QED
        BY <2>3, <3>7
    <2> QED
      BY <2>1, <2>2, <2>3
  <1>6. [q \in Release |-> IF q \in Committed THEN ledger[q].previous ELSE None]'
          = [q \in Release |-> IF q \in g THEN None
               ELSE [r \in Release |-> IF r \in Committed THEN ledger[r].previous ELSE None][q]]
    BY <1>3, <1>4 DEF Committed
  <1>7. Chain!Forget(g)
    BY <1>3, <1>5, <1>6 DEF Chain!Forget, Committed
  <1> QED
    BY <1>7

LEMMA ChainInit == Init => Chain!Init
  <1> SUFFICES ASSUME Init PROVE Chain!Init
    OBVIOUS
  <1>1. InStatus(ledger, "deployed") = {}
    BY DEF Init, InStatus, NoRecord
  <1>2. FindLatestDeployed(ledger) = None
    BY <1>1 DEF FindLatestDeployed, Last, UpdatedAt
  <1> QED
    BY <1>1, <1>2 DEF Chain!Init, Committed

LEMMA ChainStep == IInv /\ IInv' /\ [Next]_vars => [Chain!Next]_(Chain!chainVars)
  <1> SUFFICES ASSUME IInv, IInv', [Next]_vars PROVE [Chain!Next]_(Chain!chainVars)
    OBVIOUS
  <1>1. ASSUME UNCHANGED ledger PROVE UNCHANGED Chain!chainVars
    BY <1>1, ChainStutter
  <1>2. ASSUME NEW p \in Proc, Step(p)
        PROVE  [Chain!Next]_(Chain!chainVars)
    <2>1. CASE WriteReleaseRecord(p)
      BY <2>1, ChainRecord
    <2>2. CASE Commit(p)
      <3>1. PICK r \in Release : r = op[p].rel
        BY <2>2 DEF Commit, At, IInv, Informed, Executing
      <3>2. Chain!Commit(r)
        BY <2>2, <3>1, ChainCommit
      <3> QED
        BY <3>2 DEF Chain!Next
    <2>3. CASE RemoveLedger(p)
      <3>1. PICK gone \in SUBSET Records(ledger) : ledger' = Without(ledger, gone)
        BY <2>3 DEF RemoveLedger
      <3> QED
        BY <3>1, ChainForget DEF Chain!Next
    <2>4. CASE FinishPurge(p)
      <3>1. ledger' = Without(ledger, Records(ledger))
        BY <2>4 DEF FinishPurge
      <3> QED
        BY <3>1, ChainForget DEF Chain!Next
    <2>5. CASE \/ ComposeRejected(p) \/ PrepareNginx(p) \/ PreMigrationBackup(p) \/ RunMigration(p)
               \/ HealthcheckRunning(p) \/ Settle(p)
      <3>1. op[p].pc \in Executing
        BY <2>5 DEF ComposeRejected, PrepareNginx, PreMigrationBackup, RunMigration,
             HealthcheckRunning, Settle, At, Executing
      <3>2. MigrationOf(p) \in Migration /\ HealthOf(p) \in Health
        BY <3>1, CandidateFields
      <3>3. PICK status \in {"deploying", "failed", "rolled_back"},
                 migration \in Migration, health \in Health :
               UpdateReleaseState(p, status, migration, health)
        <4>1. /\ {"running", "succeeded", "failed"} \subseteq Migration
              /\ {"running", "failed"} \subseteq Health
              /\ Verdict(p) \in {"failed", "rolled_back"}
          BY DEF Migration, Health, Verdict
        <4> QED
          BY <2>5, <3>2, <4>1
             DEF ComposeRejected, PrepareNginx, PreMigrationBackup, RunMigration,
               HealthcheckRunning, Settle
      <3> QED
        BY <3>1, <3>3, ChainUpdate
    <2>6. CASE \E t \in Tag : BeginDeploy(p, t)
      BY <1>1, <2>6 DEF BeginDeploy, ledgerVars
    <2>7. CASE Materialise(p) \/ InjectDatabase(p) \/ PrepareFails(p) \/
               MaterialiseCurrent(p) \/ InjectCurrent(p) \/ NginxRefused(p) \/
               StageActivation(p) \/ StartRelease(p)
      BY <1>1, <2>7 DEF Materialise, InjectDatabase, PrepareFails,
           MaterialiseCurrent, InjectCurrent, NginxRefused, StageActivation,
           StartRelease, ledgerVars
    <2>8. CASE ReleaseNginx(p) \/ Retain(p) \/ ClearMarker(p) \/ RestorePrevious(p) \/
               FailDeployment(p) \/ BeginRetire(p) \/ StopContainers(p) \/
               ReleaseDomains(p)
      BY <1>1, <2>8 DEF ReleaseNginx, Retain, ClearMarker, RestorePrevious,
           FailDeployment, BeginRetire, StopContainers, ReleaseDomains,
           ledgerVars
    <2>9. CASE DomainsNotReleased(p) \/ RetireRefused(p) \/ WriteMarker(p) \/ ConfirmPurge(p)
               \/ LockPurge(p) \/ DestroyContainers(p) \/ RemoveTrees(p) \/
               Kill(p)
      BY <1>1, <2>9 DEF DomainsNotReleased, RetireRefused, WriteMarker,
           ConfirmPurge, LockPurge, DestroyContainers, RemoveTrees, Kill,
           ledgerVars
    <2>10. CASE Activate(p)
      BY <1>1, <2>10 DEF Activate, ledgerVars
    <2>11. CASE RollbackNginx(p)
      BY <1>1, <2>11 DEF RollbackNginx, ledgerVars
    <2>12. CASE BeginRollback(p)
      BY <1>1, <2>12 DEF BeginRollback, ledgerVars
    <2> QED
      BY <1>2, <2>1, <2>2, <2>3, <2>4, <2>5, <2>6, <2>7, <2>8, <2>9, <2>10, <2>11, <2>12
         DEF Step
  <1>3. CASE Reconcile \/ Reboot \/ BootRecovery
    BY <1>1, <1>3 DEF Reconcile, Reboot, BootRecovery, ledgerVars
  <1>4. CASE UNCHANGED vars
    BY <1>1, <1>4 DEF vars
  <1> QED
    BY <1>2, <1>3, <1>4 DEF Next

(* Deploys and rollbacks of any number of processes, killed anywhere and retried,       *)
(* extend one chain of releases: the previous_release_id of a committed record is the   *)
(* release that was current when it was committed.                                      *)
THEOREM LedgerImplementsChain == Spec => ChainImplemented
  <1>1. IInv /\ IInv' /\ [Next]_vars => [Chain!Next]_(Chain!chainVars)
    BY ChainStep
  <1> QED
    BY <1>1, ChainInit, Invariance, PTL DEF Spec, ChainImplemented, Chain!Spec

-----------------------------------------------------------------------------
(* Second part: what the ledger says agrees with the containers, the proxy and the      *)
(* secrets of the host.  Its inductive invariant, beside IInv:                          *)

Deploying == {"backup", "migrate", "health", "stage", "start", "activate",
              "commit", "restore", "unstage", "settle"}
Staging   == {"start", "activate", "commit", "restore", "unstage", "settle", "release", "exit"}
Done      == {"release", "retain", "clear"}

Uncommitted(r) == ledger[r].status \in {"prepared", "deploying"}

(* Containers or traffic of r may be there. *)
Present(r) == app.rel = r \/ nginx.routed = r

(* Containers and traffic of a release without a verdict are behind the pending marker;   *)
(* those of a release that was never recorded are not there.                              *)
Marked ==
  \A r \in Release : /\ Uncommitted(r) /\ Present(r) => pending
                     /\ ledger[r].status = "none" => ~Present(r)

Unmoved(p) == nginx.frag = op[p].frag /\ nginx.owner = op[p].owner

(* What the restore of a previous release has achieved. *)
BackAgain(p) ==
  IF op[p].previous = None THEN app = Down
  ELSE app = [rel |-> op[p].previous, ok |-> TRUE] /\ env[op[p].previous] # "absent"

(* The record of a command, and of what else there may be containers or traffic. *)
Recorded(p) ==
  /\ op[p].pc \in Deploying => ledger[op[p].rel].status = "deploying"
  /\ op[p].pc \in Executing => ledger[op[p].rel].tag = op[p].tag
  /\ op[p].pc \in Preparing /\ op[p].kind = "rollback" => ledger[op[p].target].tag = op[p].tag
  /\ op[p].pc \in Done => FindLatestDeployed(ledger) = op[p].rel
  /\ op[p].pc \in {"release", "exit"} => ~Uncommitted(op[p].rel)

(* The pending marker, which only the transaction of this command lifts. *)
Transacts(p) ==
  /\ op[p].pc \in {"backup", "migrate", "health", "stage"} => ~pending
  /\ op[p].pc \in {"start", "activate", "commit", "release"} => pending
  /\ op[p].pc \in {"start", "activate"} => op[p].staged
  /\ op[p].pc \in Staging =>
       \A r \in Release \ {op[p].rel} : Uncommitted(r) => ~Present(r)
  /\ op[p].pc \in Deploying \ {"commit", "restore", "unstage", "settle"} => Unmoved(p)
  /\ op[p].pc \in {"restore", "unstage"} /\ ~op[p].staged => Unmoved(p)
  /\ op[p].pc = "settle" /\ op[p].clean => Unmoved(p)

(* What has been started, activated or restored. *)
Runs(p) ==
  /\ op[p].pc \in {"activate", "commit"} => app = [rel |-> op[p].rel, ok |-> TRUE]
  /\ op[p].pc = "commit" =>
       /\ nginx.routed = op[p].rel /\ nginx.owner = HostsOf[op[p].tag]
       /\ nginx.owner \subseteq nginx.frag
  /\ op[p].pc \in {"unstage", "settle"} /\ op[p].clean => BackAgain(p)
  /\ op[p].pc \in {"purge_trees", "purge_ledger", "purge_rest"} => app = Down

Equipped(p) ==
  /\ op[p].pc \in {"inject", "inject_current"} \cup Done => env[op[p].rel] # "absent"
  /\ op[p].pc \in {"record"} \cup Executing => env[op[p].rel] = "full"

Achieved(p) == Recorded(p) /\ Transacts(p) /\ Runs(p) /\ Equipped(p)

Outcome == Marked /\ RecoveryMatchesContainers /\ RunningKeepsSecrets

JInv == Outcome /\ \A p \in Proc : Achieved(p)

-----------------------------------------------------------------------------
(* Lemmas about the helpers *)

(* p goes on to pc, still the same command with the same transaction. *)
Onward(p, pc) ==
  /\ Advances(p, pc)
  /\ op'[p].frag = op[p].frag /\ op'[p].owner = op[p].owner
  /\ op'[p].staged = op[p].staged /\ op'[p].clean = op[p].clean

LEMMA GoesOnward ==
  ASSUME IInv, NEW p \in Proc, NEW pc \in PC, Goto(p, pc)
  PROVE  Onward(p, pc)
  <1>1. TypeOK /\ op[p] \in Operation
    BY DEF IInv, TypeOK
  <1> QED
    BY <1>1, GotoAdvances, GotoFacts DEF Onward, Operation

(* Nothing is claimed of a command that has not begun, or only goes to stop something. *)
NoClaim == {"idle", "confirmed", "app_down", "domains", "marker", "purge_down"}

LEMMA ClaimsNothing ==
  ASSUME NEW p \in Proc, op'[p].pc \in NoClaim
  PROVE  Achieved(p)'
  BY DEF NoClaim, Achieved, Recorded, Transacts, Runs, Equipped, Deploying, Staging, Done,
         Preparing, Executing

(* What others have achieved is not undone: they do not work, or nothing changes. *)
LEMMA OthersAchieved ==
  ASSUME IInv, JInv, NEW p \in Proc,
         \A q \in Proc \ {p} : op'[q] = op[q],
         Working(p) \/ UNCHANGED <<ledger, app, nginx, pending, env>>,
         Outcome', Achieved(p)'
  PROVE  JInv'
  <1>1. ASSUME NEW q \in Proc \ {p} PROVE Achieved(q)'
    <2>1. CASE Working(p)
      <3>1. op'[q].pc \in NoClaim
        BY <2>1 DEF IInv, Exclusive, Working, NoClaim
      <3> QED
        BY <3>1, ClaimsNothing
    <2>2. CASE UNCHANGED <<ledger, app, nginx, pending, env>>
      BY <2>2 DEF JInv, Achieved, Recorded, Transacts, Runs, Equipped, Uncommitted, Present,
                  Unmoved, BackAgain
    <2> QED
      BY <2>1, <2>2
  <1> QED
    BY <1>1 DEF JInv

LEMMA LeavesAchieved ==
  ASSUME IInv, JInv, NEW p \in Proc, Leave(p),
         Working(p) \/ UNCHANGED <<ledger, app, nginx, pending, env>>,
         Outcome'
  PROVE  JInv'
  <1>1. op'[p] = Idle /\ \A q \in Proc \ {p} : op'[q] = op[q]
    BY LeaveFacts DEF IInv
  <1> QED
    BY <1>1, ClaimsNothing, OthersAchieved DEF Idle, NoClaim

(* A step that only adds secrets leaves the outcome. *)
LEMMA Calm ==
  ASSUME IInv, JInv, UNCHANGED <<ledger, app, nginx, pending, retired, host>>,
         \A r \in Release : env[r] # "absent" => env'[r] # "absent"
  PROVE  Outcome'
  <1>1. Marked'
    BY DEF JInv, Outcome, Marked, Uncommitted, Present
  <1>2. RecoveryMatchesContainers'
    BY DEF JInv, Outcome, RecoveryMatchesContainers
  <1>3. RunningKeepsSecrets'
    <2>1. RecoveryRelease(ledger) # None /\ app.rel = RecoveryRelease(ledger) =>
            env[RecoveryRelease(ledger)] # "absent" \/ host # "up" \/ retired
      BY DEF JInv, Outcome, RunningKeepsSecrets
    <2> SUFFICES ASSUME host = "up", ~retired, RecoveryRelease(ledger) # None,
                        app.rel = RecoveryRelease(ledger)
                 PROVE  env'[RecoveryRelease(ledger)] # "absent"
      BY DEF RunningKeepsSecrets
    <2>2. RecoveryRelease(ledger) \in Release
      BY CurrentType DEF RecoveryRelease
    <2> QED
      BY <2>1, <2>2
  <1> QED
    BY <1>1, <1>2, <1>3 DEF Outcome

(* Boot recovery refuses while a record is deploying, or the last failure is the newest *)
(* record: then it picks nothing.                                                       *)
LEMMA Refused ==
  ASSUME RecoveryRefuses(ledger)'
  PROVE  RecoveryMatchesContainers' /\ RunningKeepsSecrets'
  BY DEF RecoveryMatchesContainers, RunningKeepsSecrets, RecoveryRelease

LEMMA DeployingRefuses ==
  ASSUME NEW r \in Release, ledger'[r].status = "deploying"
  PROVE  RecoveryRefuses(ledger)'
  BY DEF RecoveryRefuses, InStatus

LEMMA FailureRefuses ==
  ASSUME IInv, NEW p \in Proc, op[p].pc \in Executing,
         NEW migration \in Migration, NEW health \in Health,
         UpdateReleaseState(p, "failed", migration, health)
  PROVE  RecoveryRefuses(ledger)'
  <1>1. PICK r \in Release : r = op[p].rel
    BY DEF IInv, Informed
  <1>2. /\ ledger'[r].status = "failed" /\ ledger[r].status \in {"prepared", "deploying"}
        /\ \A q \in Release \ {r} : ledger'[q] = ledger[q]
        /\ FindLatestDeployed(ledger') = FindLatestDeployed(ledger)
    BY <1>1, ExecutingUpdate
  <1>3. ledger'[r].updated = clock
    <2>1. ledger \in [Release -> Record] /\ ledger[r] \in Record
      BY DEF IInv, TypeOK, Ledger
    <2> QED
      BY <1>1, <2>1 DEF UpdateReleaseState, Record
  <1>4. r \in InStatus(ledger', "failed")
    BY <1>2 DEF InStatus
  <1>5. CASE FindLatestDeployed(ledger) = None
    BY <1>2, <1>4, <1>5 DEF RecoveryRefuses
  <1>6. CASE FindLatestDeployed(ledger) # None
    <2>1. PICK c \in Release : c = FindLatestDeployed(ledger)
      BY <1>6, CurrentType
    <2>2. ledger[c].status = "deployed"
      BY <1>6, <2>1, LatestDeployed DEF InStatus
    <2>3. ledger'[c] = ledger[c]
      BY <1>2, <2>2
    <2>4. ledger[c].updated < clock /\ ledger[c].updated \in Nat /\ clock \in Nat
      BY DEF IInv, Stamped, TypeOK, Ledger, Record
    <2>5. ledger'[r].updated >= ledger'[c].updated
      BY <1>3, <2>3, <2>4
    <2>6. c = FindLatestDeployed(ledger') /\ c # None
      BY <1>2, <1>6, <2>1
    <2> QED
      BY <1>4, <2>5, <2>6 DEF RecoveryRefuses
  <1> QED
    BY <1>5, <1>6

(* A change of the candidate's status gives no release containers or traffic. *)
LEMMA MarkedUpdate ==
  ASSUME IInv, JInv, NEW p \in Proc, op[p].pc \in Executing,
         NEW status \in {"deploying", "deployed", "failed", "rolled_back"},
         NEW migration \in Migration, NEW health \in Health,
         UpdateReleaseState(p, status, migration, health),
         UNCHANGED <<app, nginx, pending>>
  PROVE  Marked'
  <1>1. PICK c \in Release : c = op[p].rel
    BY DEF IInv, Informed
  <1>2. /\ ledger'[c].status = status /\ ledger[c].status \in {"prepared", "deploying"}
        /\ \A q \in Release \ {c} : ledger'[q] = ledger[q]
    BY <1>1, ExecutingUpdate
  <1>3. Marked
    BY DEF JInv, Outcome
  <1> SUFFICES ASSUME NEW r \in Release
               PROVE  /\ (Uncommitted(r) /\ Present(r) => pending)'
                      /\ (ledger[r].status = "none" => ~Present(r))'
    BY DEF Marked
  <1>4. CASE r = c
    BY <1>2, <1>3, <1>4 DEF Marked, Uncommitted, Present
  <1>5. CASE r # c
    BY <1>2, <1>3, <1>5 DEF Marked, Uncommitted, Present
  <1> QED
    BY <1>4, <1>5

(* The candidate's record after an update. *)
LEMMA UpdatedRecord ==
  ASSUME IInv, NEW p \in Proc, op[p].pc \in Executing,
         NEW status \in {"deploying", "deployed", "failed", "rolled_back"},
         NEW migration \in Migration, NEW health \in Health,
         UpdateReleaseState(p, status, migration, health)
  PROVE  /\ op[p].rel \in Release
         /\ ledger'[op[p].rel].status = status
         /\ ledger'[op[p].rel].tag = ledger[op[p].rel].tag
         /\ \A r \in Release \ {op[p].rel} : ledger'[r] = ledger[r]
  <1>1. PICK c \in Release : c = op[p].rel
    BY DEF IInv, Informed
  <1>2. ledger \in [Release -> Record] /\ ledger[c] \in Record
    BY DEF IInv, TypeOK, Ledger
  <1>3. ledger'[c].tag = ledger[c].tag
    BY <1>1, <1>2 DEF UpdateReleaseState, Record
  <1> QED
    BY <1>1, <1>3, ExecutingUpdate

-----------------------------------------------------------------------------
(* The steps that change nothing but the command, or only add secrets *)

LEMMA LeavesCalmly ==
  ASSUME IInv, JInv, NEW p \in Proc, Leave(p),
         UNCHANGED <<ledger, app, nginx, pending, env, retired, host>>
  PROVE  JInv'
  <1>1. Outcome'
    BY Calm
  <1> QED
    BY <1>1, LeavesAchieved

LEMMA BeginsCalmly ==
  ASSUME IInv, JInv, NEW p \in Proc, \A q \in Proc \ {p} : op'[q] = op[q], Achieved(p)',
         UNCHANGED <<ledger, app, nginx, pending, env, retired, host>>
  PROVE  JInv'
  <1>1. Outcome'
    BY Calm
  <1> QED
    BY <1>1, OthersAchieved

LEMMA LeavingVerdict ==
  ASSUME IInv, JInv, NEW p \in Proc,
         PrepareFails(p) \/ NginxRefused(p) \/ RetireRefused(p) \/ Kill(p)
  PROVE  JInv'
  <1>1. Leave(p) /\ UNCHANGED <<ledger, app, nginx, pending, env, retired, host>>
    BY DEF PrepareFails, NginxRefused, RetireRefused, Kill, ledgerVars, hostVars, proxyVars
  <1> QED
    BY <1>1, LeavesCalmly

LEMMA BeginDeployVerdict ==
  ASSUME IInv, JInv, NEW p \in Proc, NEW t \in Tag, BeginDeploy(p, t)
  PROVE  JInv'
  <1>1. PICK kind \in {"deploy", "redeploy"}, r \in Release \cup {None} :
          op' = [op EXCEPT ![p] = [Idle EXCEPT !.pc = "materialise", !.kind = kind, !.tag = t,
                                     !.rel = r, !.previous = FindLatestDeployed(ledger)]]
    BY CurrentType DEF BeginDeploy, Unused, InStatus
  <1>2. \A q \in Proc \ {p} : op'[q] = op[q]
    BY <1>1
  <1>3. op'[p].pc = "materialise" /\ op'[p].kind # "rollback"
    BY <1>1 DEF IInv, TypeOK, Idle
  <1>4. Achieved(p)'
    BY <1>3 DEF Achieved, Recorded, Transacts, Runs, Equipped, Deploying, Staging, Done,
                Preparing, Executing
  <1> QED
    BY <1>2, <1>4, BeginsCalmly DEF BeginDeploy, ledgerVars, hostVars, proxyVars

LEMMA BeginRollbackVerdict ==
  ASSUME IInv, JInv, NEW p \in Proc, BeginRollback(p)
  PROVE  JInv'
  <1>1. PICK target, r :
          op' = [op EXCEPT ![p] = [Idle EXCEPT !.pc = "current_env", !.kind = "rollback",
                                     !.tag = ledger[target].tag, !.rel = r,
                                     !.previous = FindLatestDeployed(ledger), !.target = target]]
    BY DEF BeginRollback
  <1>2. \A q \in Proc \ {p} : op'[q] = op[q]
    BY <1>1
  <1>3. op'[p].pc = "current_env" /\ op'[p].tag = ledger[op'[p].target].tag
    BY <1>1 DEF IInv, TypeOK, Idle
  <1>4. ledger' = ledger
    BY DEF BeginRollback, ledgerVars
  <1>5. Achieved(p)'
    BY <1>3, <1>4 DEF Achieved, Recorded, Transacts, Runs, Equipped, Deploying, Staging, Done,
                Preparing, Executing
  <1> QED
    BY <1>2, <1>5, BeginsCalmly DEF BeginRollback, ledgerVars, hostVars, proxyVars

LEMMA BeginStopVerdict ==
  ASSUME IInv, JInv, NEW p \in Proc, BeginRetire(p) \/ ConfirmPurge(p) \/ LockPurge(p)
  PROVE  JInv'
  <1>1. UNCHANGED <<ledger, app, nginx, pending, env, retired, host>>
    BY DEF BeginRetire, ConfirmPurge, LockPurge, ledgerVars, hostVars, proxyVars
  <1>2. op'[p].pc \in NoClaim /\ \A q \in Proc \ {p} : op'[q] = op[q]
    <2>1. CASE BeginRetire(p)
      BY <2>1 DEF BeginRetire, NoClaim, IInv, TypeOK, Idle
    <2>2. CASE ConfirmPurge(p)
      BY <2>2 DEF ConfirmPurge, NoClaim, IInv, TypeOK, Idle
    <2>3. CASE LockPurge(p) /\ Goto(p, "purge_down")
      BY <2>3, GotoAdvances DEF Advances, NoClaim, IInv, PC
    <2>4. CASE LockPurge(p) /\ Leave(p)
      BY <2>4, LeaveFacts DEF NoClaim, IInv, Idle
    <2> QED
      BY <2>1, <2>2, <2>3, <2>4 DEF LockPurge
  <1> QED
    BY <1>1, <1>2, ClaimsNothing, BeginsCalmly

LEMMA MaterialiseVerdict ==
  ASSUME IInv, JInv, NEW p \in Proc, Materialise(p)
  PROVE  JInv'
  <1> DEFINE pc == IF op[p].kind = "rollback" THEN "inject_current" ELSE "inject"
  <1>1. op[p].pc = "materialise" /\ Working(p) /\ op[p].rel \in Release
    BY DEF Materialise, At, Working, IInv, Informed, Preparing
  <1>2. Onward(p, pc)
    BY GoesOnward DEF Materialise, PC
  <1>3. env'[op[p].rel] = "partial" /\ \A r \in Release : env[r] # "absent" => env'[r] # "absent"
    BY <1>1 DEF Materialise, IInv, TypeOK
  <1>4. UNCHANGED <<ledger, app, nginx, pending, retired, host>>
    BY DEF Materialise, ledgerVars, hostVars, proxyVars
  <1>5. Outcome'
    BY <1>3, <1>4, Calm
  <1>6. op[p].kind = "rollback" => ledger[op[p].target].tag = op[p].tag
    BY <1>1 DEF JInv, Achieved, Recorded, Preparing
  <1>7. Achieved(p)'
    BY <1>1, <1>2, <1>3, <1>4, <1>6
       DEF Onward, Advances, Achieved, Recorded, Transacts, Runs, Equipped, Deploying, Staging,
           Done, Preparing, Executing
  <1> QED
    BY <1>1, <1>2, <1>5, <1>7, OthersAchieved DEF Onward, Advances

LEMMA MaterialiseCurrentVerdict ==
  ASSUME IInv, JInv, NEW p \in Proc, MaterialiseCurrent(p)
  PROVE  JInv'
  <1>1. op[p].pc = "current_env" /\ Working(p)
    BY DEF MaterialiseCurrent, At, Working
  <1>2. Onward(p, "materialise")
    BY GoesOnward DEF MaterialiseCurrent, PC
  <1>3. \A r \in Release : env[r] # "absent" => env'[r] # "absent"
    BY DEF MaterialiseCurrent, IInv, TypeOK
  <1>4. UNCHANGED <<ledger, app, nginx, pending, retired, host>>
    BY DEF MaterialiseCurrent, ledgerVars, hostVars, proxyVars
  <1>5. Outcome'
    BY <1>3, <1>4, Calm
  <1>6. op[p].kind = "rollback" => ledger[op[p].target].tag = op[p].tag
    BY <1>1 DEF JInv, Achieved, Recorded, Preparing
  <1>7. Achieved(p)'
    BY <1>1, <1>2, <1>4, <1>6
       DEF Onward, Advances, Achieved, Recorded, Transacts, Runs, Equipped, Deploying, Staging,
           Done, Preparing, Executing
  <1> QED
    BY <1>1, <1>2, <1>5, <1>7, OthersAchieved DEF Onward, Advances

LEMMA InjectCurrentVerdict ==
  ASSUME IInv, JInv, NEW p \in Proc, InjectCurrent(p)
  PROVE  JInv'
  <1>1. op[p].pc = "inject_current" /\ Working(p) /\ op[p].rel \in Release
    BY DEF InjectCurrent, At, Working, IInv, Informed, Preparing
  <1>2. Onward(p, "inject")
    BY GoesOnward DEF InjectCurrent, PC
  <1>3. \A r \in Release : env[r] # "absent" => env'[r] # "absent"
    BY DEF InjectCurrent, IInv, TypeOK
  <1>4. UNCHANGED <<ledger, app, nginx, pending, retired, host>>
    BY DEF InjectCurrent, ledgerVars, proxyVars
  <1>5. Outcome'
    BY <1>3, <1>4, Calm
  <1>6. /\ op[p].kind = "rollback" => ledger[op[p].target].tag = op[p].tag
        /\ env[op[p].rel] # "absent"
    BY <1>1 DEF JInv, Achieved, Recorded, Equipped, Preparing
  <1>7. Achieved(p)'
    BY <1>1, <1>2, <1>3, <1>4, <1>6
       DEF Onward, Advances, Achieved, Recorded, Transacts, Runs, Equipped, Deploying, Staging,
           Done, Preparing, Executing
  <1> QED
    BY <1>1, <1>2, <1>5, <1>7, OthersAchieved DEF Onward, Advances

LEMMA InjectDatabaseVerdict ==
  ASSUME IInv, JInv, NEW p \in Proc, InjectDatabase(p)
  PROVE  JInv'
  <1>1. op[p].pc = "inject" /\ Working(p) /\ op[p].rel \in Release
    BY DEF InjectDatabase, At, Working, IInv, Informed, Preparing
  <1>3. env'[op[p].rel] = "full" /\ \A r \in Release : env[r] # "absent" => env'[r] # "absent"
    BY <1>1 DEF InjectDatabase, IInv, TypeOK
  <1>4. UNCHANGED <<ledger, app, nginx, pending, retired, host>>
    BY DEF InjectDatabase, ledgerVars, proxyVars
  <1>5. Outcome'
    BY <1>3, <1>4, Calm
  <1>6. op[p].kind = "rollback" => ledger[op[p].target].tag = op[p].tag
    BY <1>1 DEF JInv, Achieved, Recorded, Preparing
  <1>7. CASE Goto(p, "record")
    <2>1. Onward(p, "record")
      BY <1>7, GoesOnward DEF PC
    <2>2. Achieved(p)'
      BY <1>1, <2>1, <1>3, <1>4, <1>6
         DEF Onward, Advances, Achieved, Recorded, Transacts, Runs, Equipped, Deploying,
             Staging, Done, Preparing, Executing
    <2> QED
      BY <1>1, <1>5, <2>1, <2>2, OthersAchieved DEF Onward, Advances
  <1>8. CASE Leave(p)
    BY <1>1, <1>5, <1>8, LeavesAchieved
  <1> QED
    BY <1>7, <1>8 DEF InjectDatabase

-----------------------------------------------------------------------------
(* The steps that write a record *)

(* A first record decides nothing: boot recovery picks what it picked before. *)
LEMMA RecordKeepsRecovery ==
  ASSUME IInv, NEW p \in Proc, WriteReleaseRecord(p)
  PROVE  RecoveryRelease(ledger') = RecoveryRelease(ledger)
  <1>1. PICK c \in Release : c = op[p].rel
    BY NewRecord
  <1>2. /\ ledger[c].status = "none" /\ ledger'[c].status = "prepared"
        /\ \A q \in Release \ {c} : ledger'[q] = ledger[q]
    BY <1>1, NewRecord DEF IInv, TypeOK, Ledger
  <1>3. \A s \in {"deploying", "deployed", "failed", "rolled_back"} :
          InStatus(ledger', s) = InStatus(ledger, s)
    BY <1>2 DEF InStatus
  <1>4. \A s \in {"deploying", "deployed", "failed", "rolled_back"} :
          \A q \in InStatus(ledger, s) : ledger'[q] = ledger[q]
    BY <1>2 DEF InStatus
  <1>5. FindLatestDeployed(ledger') = FindLatestDeployed(ledger)
    BY <1>3, <1>4, LatestKept
  <1> DEFINE current == FindLatestDeployed(ledger)
  <1>6. current # None => current \in InStatus(ledger, "deployed")
    BY LatestDeployed
  <1>7. current # None => ledger'[current] = ledger[current]
    BY <1>4, <1>6
  <1>8. RecoveryRefuses(ledger') <=> RecoveryRefuses(ledger)
    BY <1>3, <1>4, <1>5, <1>7 DEF RecoveryRefuses
  <1> QED
    BY <1>5, <1>8 DEF RecoveryRelease

LEMMA WriteReleaseRecordVerdict ==
  ASSUME IInv, JInv, NEW p \in Proc, WriteReleaseRecord(p)
  PROVE  JInv'
  <1>1. op[p].pc = "record" /\ Working(p)
    BY DEF WriteReleaseRecord, At, Working
  <1>2. Onward(p, "validate")
    BY GoesOnward DEF WriteReleaseRecord, PC
  <1>3. UNCHANGED <<app, nginx, pending, env, retired, host>>
    BY DEF WriteReleaseRecord, hostVars, proxyVars
  <1>4. PICK c \in Release : c = op[p].rel
    BY NewRecord
  <1>5. /\ ledger[c].status = "none" /\ ledger'[c].status = "prepared"
        /\ \A q \in Release \ {c} : ledger'[q] = ledger[q]
    BY <1>4, NewRecord DEF IInv, TypeOK, Ledger
  <1>6. ledger'[c].tag = op[p].tag
    <2>1. ledger \in [Release -> Record]
      BY DEF IInv, TypeOK, Ledger
    <2>2. CASE op[p].kind = "rollback"
      <3>1. ledger[op[p].target].tag = op[p].tag
        BY <1>1, <2>2 DEF JInv, Achieved, Recorded, Preparing
      <3>2. ledger'[c] = RollbackRecord(ledger, op[p].target, op[p].previous, clock)
        BY <1>4, <2>1, <2>2 DEF WriteReleaseRecord
      <3> QED
        BY <3>1, <3>2 DEF RollbackRecord, NoRecord
    <2>3. CASE op[p].kind # "rollback"
      <3>1. ledger'[c] = PreparedRecord(op[p].tag, op[p].previous, op[p].tag \in Migrates, clock)
        BY <1>4, <2>1, <2>3 DEF WriteReleaseRecord
      <3> QED
        BY <3>1 DEF PreparedRecord, NoRecord
    <2> QED
      BY <2>2, <2>3
  <1>7. Marked'
    <2> SUFFICES ASSUME NEW r \in Release
                 PROVE  /\ (Uncommitted(r) /\ Present(r) => pending)'
                        /\ (ledger[r].status = "none" => ~Present(r))'
      BY DEF Marked
    <2>1. CASE r = c
      BY <1>3, <1>5, <2>1 DEF JInv, Outcome, Marked, Uncommitted, Present
    <2>2. CASE r # c
      BY <1>3, <1>5, <2>2 DEF JInv, Outcome, Marked, Uncommitted, Present
    <2> QED
      BY <2>1, <2>2
  <1>8. RecoveryMatchesContainers' /\ RunningKeepsSecrets'
    BY <1>3, RecordKeepsRecovery
       DEF JInv, Outcome, RecoveryMatchesContainers, RunningKeepsSecrets
  <1>9. Achieved(p)'
    <2>1. env[op[p].rel] = "full"
      BY <1>1 DEF JInv, Achieved, Equipped
    <2> QED
      BY <1>1, <1>2, <1>3, <1>4, <1>6, <2>1
         DEF Onward, Advances, Achieved, Recorded, Transacts, Runs, Equipped, Deploying,
             Staging, Done, Preparing, Executing
  <1> QED
    BY <1>1, <1>2, <1>7, <1>8, <1>9, OthersAchieved DEF Outcome, Onward, Advances

(* The command writes failed and ends, with containers and proxy untouched. *)
LEMMA FailsVerdict ==
  ASSUME IInv, JInv, NEW p \in Proc, op[p].pc \in Executing, Leave(p),
         NEW migration \in Migration, NEW health \in Health,
         UpdateReleaseState(p, "failed", migration, health),
         UNCHANGED <<app, nginx, pending, env, retired, host>>
  PROVE  JInv'
  <1>1. RecoveryMatchesContainers' /\ RunningKeepsSecrets'
    BY FailureRefuses, Refused
  <1>2. Marked'
    BY MarkedUpdate
  <1>3. Working(p)
    BY DEF Working, Executing
  <1> QED
    BY <1>1, <1>2, <1>3, LeavesAchieved DEF Outcome

(* The command writes deploying and goes on towards the stage of the transaction. *)
LEMMA DeploysVerdict ==
  ASSUME IInv, JInv, NEW p \in Proc, op[p].pc \in {"validate", "backup", "migrate", "health"},
         NEW pc \in {"backup", "migrate", "health", "stage"}, Advances(p, pc),
         NEW migration \in Migration, NEW health \in Health,
         UpdateReleaseState(p, "deploying", migration, health),
         UNCHANGED <<app, nginx, pending, env, retired, host>>,
         ~pending, Unmoved(p)'
  PROVE  JInv'
  <1>0. op[p].pc \in Executing /\ Working(p)
    BY DEF Executing, Working
  <1>1. PICK c \in Release : c = op[p].rel
    BY <1>0 DEF IInv, Informed
  <1>2. ledger'[c].status = "deploying" /\ ledger'[c].tag = ledger[c].tag
    BY <1>0, <1>1, UpdatedRecord
  <1>3. RecoveryMatchesContainers' /\ RunningKeepsSecrets'
    BY <1>2, DeployingRefuses, Refused
  <1>4. Marked'
    BY <1>0, MarkedUpdate
  <1>5. ledger[c].tag = op[p].tag /\ env[c] = "full"
    BY <1>0, <1>1 DEF JInv, Achieved, Recorded, Equipped
  <1>6. Achieved(p)'
    BY <1>1, <1>2, <1>5
       DEF Advances, Achieved, Recorded, Transacts, Runs, Equipped, Deploying, Staging, Done,
           Preparing, Executing
  <1> QED
    BY <1>0, <1>3, <1>4, <1>6, OthersAchieved DEF Outcome, Advances

LEMMA ComposeRejectedVerdict ==
  ASSUME IInv, JInv, NEW p \in Proc, ComposeRejected(p)
  PROVE  JInv'
  <1>1. op[p].pc \in Executing
    BY DEF ComposeRejected, At, Executing
  <1>2. MigrationOf(p) \in Migration /\ "failed" \in Health
    BY <1>1, CandidateFields DEF Health
  <1> QED
    BY <1>1, <1>2, FailsVerdict DEF ComposeRejected, hostVars, proxyVars

LEMMA PrepareNginxVerdict ==
  ASSUME IInv, JInv, NEW p \in Proc, PrepareNginx(p)
  PROVE  JInv'
  <1>1. op[p].pc = "validate" /\ op[p].pc \in Executing
    BY DEF PrepareNginx, At, Executing
  <1>2. MigrationOf(p) \in Migration /\ HealthOf(p) \in Health
    BY <1>1, CandidateFields
  <1>3. PICK pc \in {"health", "backup"} :
          op' = [op EXCEPT ![p].pc = pc, ![p].frag = nginx.frag, ![p].owner = nginx.owner]
    BY DEF PrepareNginx
  <1>4. op \in [Proc -> Operation] /\ op[p] \in Operation
    BY DEF IInv, TypeOK
  <1>5. op'[p] = [op[p] EXCEPT !.pc = pc, !.frag = nginx.frag, !.owner = nginx.owner]
    BY <1>3, <1>4
  <1>6. nginx.frag \in SUBSET Host /\ nginx.owner \in SUBSET Host /\ pc \in PC
    BY DEF IInv, TypeOK, NginxState, PC
  <1>7. op'[p] \in Operation /\ op'[p].frag = nginx.frag /\ op'[p].owner = nginx.owner
    BY <1>4, <1>5, <1>6 DEF Operation
  <1>8. Advances(p, pc)
    BY <1>3, <1>4, <1>5, <1>7 DEF Advances, Operation
  <1>9. UNCHANGED <<app, nginx, pending, env, retired, host>> /\ ~pending
    BY DEF PrepareNginx, NginxReady, hostVars, proxyVars
  <1>10. Unmoved(p)'
    BY <1>7, <1>9 DEF Unmoved
  <1>11. UpdateReleaseState(p, "deploying", MigrationOf(p), HealthOf(p))
    BY DEF PrepareNginx
  <1> QED
    BY <1>1, <1>2, <1>8, <1>9, <1>10, <1>11, DeploysVerdict

LEMMA MigrationVerdict ==
  ASSUME IInv, JInv, NEW p \in Proc,
         PreMigrationBackup(p) \/ RunMigration(p) \/ HealthcheckRunning(p)
  PROVE  JInv'
  <1>1. op[p].pc \in {"backup", "migrate", "health"} /\ op[p].pc \in Executing
    BY DEF PreMigrationBackup, RunMigration, HealthcheckRunning, At, Executing
  <1>2. /\ MigrationOf(p) \in Migration /\ HealthOf(p) \in Health
        /\ {"running", "succeeded", "failed"} \subseteq Migration /\ "running" \in Health
    BY <1>1, CandidateFields DEF Migration, Health
  <1>3. UNCHANGED <<app, nginx, pending, env, retired, host>>
    BY DEF PreMigrationBackup, RunMigration, HealthcheckRunning, hostVars, proxyVars
  <1>4. ~pending /\ Unmoved(p)
    BY <1>1 DEF JInv, Achieved, Transacts, Deploying
  <1>5. CASE /\ Leave(p)
             /\ \E m \in Migration, h \in Health : UpdateReleaseState(p, "failed", m, h)
    BY <1>1, <1>3, <1>5, FailsVerdict
  <1>6. ASSUME NEW pc \in {"migrate", "health", "stage"}, Goto(p, pc),
               NEW m \in Migration, NEW h \in Health, UpdateReleaseState(p, "deploying", m, h)
        PROVE  JInv'
    <2>1. Onward(p, pc)
      BY <1>6, GoesOnward DEF PC
    <2>2. Unmoved(p)'
      BY <1>3, <1>4, <2>1 DEF Unmoved, Onward
    <2> QED
      BY <1>1, <1>3, <1>4, <1>6, <2>1, <2>2, DeploysVerdict DEF Onward
  <1>7. CASE PreMigrationBackup(p)
    BY <1>2, <1>5, <1>6, <1>7 DEF PreMigrationBackup
  <1>8. CASE RunMigration(p)
    BY <1>2, <1>5, <1>6, <1>8 DEF RunMigration
  <1>9. CASE HealthcheckRunning(p)
    BY <1>2, <1>6, <1>9 DEF HealthcheckRunning
  <1> QED
    BY <1>7, <1>8, <1>9

-----------------------------------------------------------------------------
(* The transaction: staged, started, activated, committed *)

(* While p is deploying, boot recovery refuses. *)
LEMMA DeployingIsSafe ==
  ASSUME IInv, JInv, NEW p \in Proc, op[p].pc \in Deploying, ledger' = ledger
  PROVE  RecoveryMatchesContainers' /\ RunningKeepsSecrets'
  <1>1. op[p].rel \in Release
    BY DEF IInv, Informed, Deploying, Executing
  <1>2. ledger'[op[p].rel].status = "deploying"
    BY DEF JInv, Achieved, Recorded
  <1> QED
    BY <1>1, <1>2, DeployingRefuses, Refused

(* p remains the command of a record that is deploying, with its secrets. *)
LEMMA StillDeploying ==
  ASSUME IInv, JInv, NEW p \in Proc, op[p].pc \in Deploying, ledger' = ledger, env' = env,
         NEW pc \in Deploying, Advances(p, pc)
  PROVE  Recorded(p)' /\ Equipped(p)'
  <1>1. ledger[op[p].rel].status = "deploying" /\ ledger[op[p].rel].tag = op[p].tag
    BY DEF JInv, Achieved, Recorded, Deploying, Executing
  <1>2. env[op[p].rel] = "full"
    BY DEF JInv, Achieved, Equipped, Deploying, Executing
  <1> QED
    BY <1>1, <1>2 DEF Advances, Recorded, Equipped, Deploying, Done, Preparing, Executing

LEMMA StageActivationVerdict ==
  ASSUME IInv, JInv, NEW p \in Proc, StageActivation(p)
  PROVE  JInv'
  <1>1. op[p].pc = "stage" /\ op[p].pc \in Deploying /\ Working(p)
    BY DEF StageActivation, At, Deploying, Working
  <1>2. UNCHANGED <<ledger, app, nginx, env, retired, host>>
    BY DEF StageActivation, ledgerVars, hostVars
  <1>3. ~pending /\ Unmoved(p)
    BY <1>1 DEF JInv, Achieved, Transacts
  <1>4. \A r \in Release \ {op[p].rel} : Uncommitted(r) => ~Present(r)
    BY <1>3 DEF JInv, Outcome, Marked
  <1>5. Marked'
    BY <1>2, <1>3 DEF JInv, Outcome, Marked, Uncommitted, Present
  <1>6. Outcome'
    BY <1>1, <1>2, <1>5, DeployingIsSafe DEF Outcome
  <1>7. CASE pending' = TRUE /\ op' = [op EXCEPT ![p].pc = "start", ![p].staged = TRUE]
    <2>1. op[p] \in Operation /\ op \in [Proc -> Operation]
      BY DEF IInv, TypeOK
    <2>2. op'[p] = [op[p] EXCEPT !.pc = "start", !.staged = TRUE]
      BY <1>7, <2>1
    <2>3. op'[p] \in Operation
      BY <2>1, <2>2 DEF Operation, PC
    <2>4. Advances(p, "start") /\ op'[p].frag = op[p].frag /\ op'[p].owner = op[p].owner
          /\ op'[p].staged
      BY <1>7, <2>1, <2>2, <2>3 DEF Advances, Operation
    <2>5. Recorded(p)' /\ Equipped(p)'
      BY <1>1, <1>2, <2>4, StillDeploying DEF Deploying
    <2>6. Transacts(p)' /\ Runs(p)'
      BY <1>2, <1>3, <1>4, <1>7, <2>4
         DEF Advances, Transacts, Runs, Uncommitted, Present, Unmoved, Staging, Deploying
    <2> QED
      BY <1>1, <1>6, <2>4, <2>5, <2>6, OthersAchieved DEF Achieved, Advances
  <1>8. CASE Goto(p, "restore") /\ UNCHANGED pending
    <2>1. Onward(p, "restore")
      BY <1>8, GoesOnward DEF PC
    <2>2. Recorded(p)' /\ Equipped(p)'
      BY <1>1, <1>2, <2>1, StillDeploying DEF Deploying, Onward
    <2>3. Transacts(p)' /\ Runs(p)'
      BY <1>2, <1>3, <1>4, <1>8, <2>1
         DEF Onward, Advances, Transacts, Runs, Uncommitted, Present, Unmoved, Staging, Deploying
    <2> QED
      BY <1>1, <1>6, <2>1, <2>2, <2>3, OthersAchieved DEF Achieved, Onward, Advances
  <1> QED
    BY <1>7, <1>8 DEF StageActivation

(* The candidate's containers come up, or some of them, behind the pending marker. *)
LEMMA StartReleaseVerdict ==
  ASSUME IInv, JInv, NEW p \in Proc, StartRelease(p)
  PROVE  JInv'
  <1>1. op[p].pc = "start" /\ op[p].pc \in Deploying /\ Working(p)
    BY DEF StartRelease, At, Deploying, Working
  <1>2. UNCHANGED <<ledger, nginx, pending, env, retired, host>>
    BY DEF StartRelease, ledgerVars, hostVars, proxyVars
  <1>3. /\ pending /\ op[p].staged /\ Unmoved(p)
        /\ \A r \in Release \ {op[p].rel} : Uncommitted(r) => ~Present(r)
    BY <1>1 DEF JInv, Achieved, Transacts, Staging, Deploying
  <1>4. ledger[op[p].rel].status = "deploying"
    BY <1>1 DEF JInv, Achieved, Recorded
  <1>5. app'.rel \in {app.rel, op[p].rel}
    BY DEF StartRelease
  <1>6. Marked'
    BY <1>2, <1>3, <1>4, <1>5 DEF JInv, Outcome, Marked, Uncommitted, Present
  <1>7. Outcome'
    BY <1>1, <1>2, <1>6, DeployingIsSafe DEF Outcome
  <1>8. ASSUME NEW pc \in {"activate", "restore"}, Goto(p, pc),
               pc = "activate" => app' = [rel |-> op[p].rel, ok |-> TRUE]
        PROVE  JInv'
    <2>1. Onward(p, pc)
      BY <1>8, GoesOnward DEF PC
    <2>2. Recorded(p)' /\ Equipped(p)'
      BY <1>1, <1>2, <2>1, StillDeploying DEF Deploying, Onward
    <2>3. \A r \in Release \ {op[p].rel} : (Uncommitted(r) => ~Present(r))'
      BY <1>2, <1>3, <1>5, <2>1 DEF Onward, Advances, Uncommitted, Present
    <2>4. Transacts(p)' /\ Runs(p)'
      BY <1>2, <1>3, <1>8, <2>1, <2>3
         DEF Onward, Advances, Transacts, Runs, Unmoved, Staging, Deploying
    <2> QED
      BY <1>1, <1>7, <2>1, <2>2, <2>4, OthersAchieved DEF Achieved, Onward, Advances
  <1> QED
    BY <1>8 DEF StartRelease

LEMMA ActivateVerdict ==
  ASSUME IInv, JInv, NEW p \in Proc, Activate(p)
  PROVE  JInv'
  <1>1. op[p].pc = "activate" /\ op[p].pc \in Deploying /\ Working(p)
    BY DEF Activate, At, Deploying, Working
  <1>2. UNCHANGED <<ledger, app, pending, env, retired, host>>
    BY DEF Activate, ledgerVars, hostVars
  <1>3. /\ pending /\ op[p].staged
        /\ \A r \in Release \ {op[p].rel} : Uncommitted(r) => ~Present(r)
    BY <1>1 DEF JInv, Achieved, Transacts, Staging
  <1>4. app = [rel |-> op[p].rel, ok |-> TRUE]
    BY <1>1 DEF JInv, Achieved, Runs
  <1>5. nginx \in NginxState
    BY DEF IInv, TypeOK
  <1> DEFINE plan  == HostsOf[op[p].tag]
             moved == plan \cup (nginx.frag \ op[p].owner)
  <1>6. \/ /\ Goto(p, "commit")
           /\ nginx'.routed = op[p].rel /\ nginx'.owner = plan /\ plan \subseteq nginx'.frag
        \/ Goto(p, "restore") /\ nginx'.routed \in {nginx.routed, op[p].rel}
    <2>1. CASE Goto(p, "commit")
               /\ nginx' = [frag |-> moved, owner |-> plan, routed |-> app.rel]
      BY <1>4, <2>1
    <2>2. CASE /\ nginx' \in {[nginx EXCEPT !.frag = f, !.routed = r] :
                                f \in {nginx.frag, moved}, r \in {nginx.routed, app.rel}}
               /\ Goto(p, "restore")
      <3>1. PICK f \in {nginx.frag, moved}, r \in {nginx.routed, app.rel} :
              nginx' = [nginx EXCEPT !.frag = f, !.routed = r]
        BY <2>2
      <3>2. nginx'.routed = r
        BY <1>5, <3>1 DEF NginxState
      <3> QED
        BY <1>4, <2>2, <3>1, <3>2
    <2> QED
      BY <2>1, <2>2 DEF Activate
  <1> HIDE DEF plan, moved
  <1>7. ledger[op[p].rel].status = "deploying"
    BY <1>1 DEF JInv, Achieved, Recorded
  <1>8. Marked'
    BY <1>2, <1>3, <1>6, <1>7 DEF JInv, Outcome, Marked, Uncommitted, Present
  <1>9. Outcome'
    BY <1>1, <1>2, <1>8, DeployingIsSafe DEF Outcome
  <1>10. ASSUME NEW pc \in {"commit", "restore"}, Goto(p, pc),
                nginx'.routed \in {nginx.routed, op[p].rel},
                pc = "commit" => /\ nginx'.routed = op[p].rel /\ nginx'.owner = plan
                                 /\ plan \subseteq nginx'.frag
        PROVE  JInv'
    <2>1. Onward(p, pc)
      BY <1>10, GoesOnward DEF PC
    <2>2. Recorded(p)' /\ Equipped(p)'
      BY <1>1, <1>2, <2>1, StillDeploying DEF Deploying, Onward
    <2>3. \A r \in Release \ {op[p].rel} : (Uncommitted(r) => ~Present(r))'
      BY <1>2, <1>3, <1>10, <2>1 DEF Onward, Advances, Uncommitted, Present
    <2>4. Transacts(p)'
      BY <1>2, <1>3, <2>1, <2>3 DEF Onward, Advances, Transacts, Staging, Deploying
    <2>5. Runs(p)'
      BY <1>2, <1>4, <1>10, <2>1 DEF Onward, Advances, Runs, plan
    <2> QED
      BY <1>1, <1>9, <2>1, <2>2, <2>4, <2>5, OthersAchieved DEF Achieved, Onward, Advances
  <1> QED
    BY <1>6, <1>10

LEMMA CommitVerdict ==
  ASSUME IInv, IInv', JInv, NEW p \in Proc, Commit(p)
  PROVE  JInv'
  <1>1. op[p].pc = "commit" /\ op[p].pc \in Executing /\ Working(p)
    BY DEF Commit, At, Executing, Working
  <1>2. UNCHANGED <<app, nginx, pending, env, retired, host>>
    BY DEF Commit, hostVars, proxyVars
  <1>3. PICK c \in Release : c = op[p].rel
    BY <1>1 DEF IInv, Informed
  <1>4. MigrationOf(p) \in Migration /\ "succeeded" \in Health
    BY <1>1, CandidateFields DEF Health
  <1>5. UpdateReleaseState(p, "deployed", MigrationOf(p), "succeeded")
    BY DEF Commit
  <1>6. /\ ledger'[c].status = "deployed" /\ \A r \in Release \ {c} : ledger'[r] = ledger[r]
    BY <1>1, <1>3, <1>4, <1>5, UpdatedRecord
  <1>7. FindLatestDeployed(ledger') = c
    BY <1>3, ChainCommit DEF Chain!Commit
  <1>8. Onward(p, "release")
    BY GoesOnward DEF Commit, PC
  <1>9. app = [rel |-> c, ok |-> TRUE] /\ env[c] = "full"
    BY <1>1, <1>3 DEF JInv, Achieved, Runs, Equipped
  <1>10. pending /\ \A r \in Release \ {c} : Uncommitted(r) => ~Present(r)
    BY <1>1, <1>3 DEF JInv, Achieved, Transacts, Staging
  <1>11. Marked'
    BY <1>1, <1>2, <1>4, <1>5, MarkedUpdate
  <1>12. RecoveryMatchesContainers' /\ RunningKeepsSecrets'
    BY <1>2, <1>7, <1>9 DEF RecoveryMatchesContainers, RunningKeepsSecrets, RecoveryRelease
  <1>13. Recorded(p)'
    BY <1>3, <1>6, <1>7, <1>8
       DEF Onward, Advances, Recorded, Uncommitted, Deploying, Executing, Preparing, Done
  <1>14. Transacts(p)'
    BY <1>2, <1>3, <1>6, <1>8, <1>10
       DEF Onward, Advances, Transacts, Uncommitted, Present, Staging, Deploying
  <1>15. Runs(p)' /\ Equipped(p)'
    BY <1>2, <1>3, <1>8, <1>9 DEF Onward, Advances, Runs, Equipped, Executing, Done
  <1> QED
    BY <1>1, <1>8, <1>11, <1>12, <1>13, <1>14, <1>15, OthersAchieved
       DEF Achieved, Outcome, Onward, Advances

LEMMA ReleaseNginxVerdict ==
  ASSUME IInv, JInv, NEW p \in Proc, ReleaseNginx(p)
  PROVE  JInv'
  <1>1. op[p].pc = "release" /\ Working(p)
    BY DEF ReleaseNginx, At, Working
  <1>2. UNCHANGED <<ledger, app, nginx, env, retired, host>> /\ pending' = FALSE
    BY DEF ReleaseNginx, ledgerVars, hostVars
  <1>3. Onward(p, "retain")
    BY GoesOnward DEF ReleaseNginx, PC
  <1>4. /\ FindLatestDeployed(ledger) = op[p].rel /\ ~Uncommitted(op[p].rel)
        /\ env[op[p].rel] # "absent"
        /\ \A r \in Release \ {op[p].rel} : Uncommitted(r) => ~Present(r)
    BY <1>1 DEF JInv, Achieved, Recorded, Transacts, Equipped, Done, Staging
  <1>5. Marked'
    BY <1>2, <1>4 DEF JInv, Outcome, Marked, Uncommitted, Present
  <1>6. RecoveryMatchesContainers' /\ RunningKeepsSecrets'
    BY <1>2 DEF JInv, Outcome, RecoveryMatchesContainers, RunningKeepsSecrets
  <1>7. Achieved(p)'
    BY <1>2, <1>3, <1>4
       DEF Onward, Advances, Achieved, Recorded, Transacts, Runs, Equipped, Deploying, Staging,
           Done, Preparing, Executing
  <1> QED
    BY <1>1, <1>3, <1>5, <1>6, <1>7, OthersAchieved DEF Outcome, Onward, Advances

(* Retention spares the secrets of the release that is current. *)
LEMMA RetainVerdict ==
  ASSUME IInv, JInv, NEW p \in Proc, Retain(p)
  PROVE  JInv'
  <1>1. op[p].pc = "retain" /\ Working(p)
    BY DEF Retain, At, Working
  <1>2. UNCHANGED <<ledger, app, nginx, pending, retired, host>>
    BY DEF Retain, ledgerVars, hostVars, proxyVars
  <1>3. PICK c \in Release : c = op[p].rel
    BY <1>1 DEF IInv, Informed, Ending
  <1>4. FindLatestDeployed(ledger) = c /\ env[c] # "absent"
    BY <1>1, <1>3 DEF JInv, Achieved, Recorded, Equipped, Done
  <1>5. env'[c] = env[c]
    BY <1>3 DEF Retain, Superseded
  <1>6. Marked' /\ RecoveryMatchesContainers'
    BY <1>2 DEF JInv, Outcome, Marked, RecoveryMatchesContainers, Uncommitted, Present
  <1>7. RunningKeepsSecrets'
    BY <1>2, <1>4, <1>5 DEF RunningKeepsSecrets, RecoveryRelease
  <1>8. CASE Goto(p, "clear")
    <2>1. Onward(p, "clear")
      BY <1>8, GoesOnward DEF PC
    <2>2. Achieved(p)'
      BY <1>2, <1>3, <1>4, <1>5, <2>1
         DEF Onward, Advances, Achieved, Recorded, Transacts, Runs, Equipped, Deploying,
             Staging, Done, Preparing, Executing
    <2> QED
      BY <1>1, <1>6, <1>7, <2>1, <2>2, OthersAchieved DEF Outcome, Onward, Advances
  <1>9. CASE Leave(p)
    BY <1>1, <1>6, <1>7, <1>9, LeavesAchieved DEF Outcome
  <1> QED
    BY <1>8, <1>9 DEF Retain

LEMMA ClearMarkerVerdict ==
  ASSUME IInv, JInv, NEW p \in Proc, ClearMarker(p)
  PROVE  JInv'
  <1>1. op[p].pc = "clear" /\ Working(p) /\ Leave(p)
    BY DEF ClearMarker, At, Working
  <1>2. UNCHANGED <<ledger, app, nginx, pending, env, host>>
    BY DEF ClearMarker, ledgerVars, proxyVars
  <1>3. FindLatestDeployed(ledger) = op[p].rel /\ env[op[p].rel] # "absent"
    BY <1>1 DEF JInv, Achieved, Recorded, Equipped, Done
  <1>4. Marked' /\ RecoveryMatchesContainers'
    BY <1>2 DEF JInv, Outcome, Marked, RecoveryMatchesContainers, Uncommitted, Present
  <1>5. RunningKeepsSecrets'
    BY <1>2, <1>3 DEF RunningKeepsSecrets, RecoveryRelease
  <1> QED
    BY <1>1, <1>4, <1>5, LeavesAchieved DEF Outcome

-----------------------------------------------------------------------------
(* The failure path *)

(* The release a command replaces has a verdict. *)
LEMMA PreviousIsDeployed ==
  ASSUME IInv, NEW p \in Proc, op[p].pc \in Executing
  PROVE  /\ op[p].previous \in Release \cup {None}
         /\ op[p].previous # None => ledger[op[p].previous].status = "deployed"
         /\ op[p].previous = FindLatestDeployed(ledger)
  <1>1. op[p].previous = FindLatestDeployed(ledger)
    BY DEF IInv, Informed
  <1> QED
    BY <1>1, CurrentType, LatestDeployed DEF InStatus

LEMMA RestorePreviousVerdict ==
  ASSUME IInv, JInv, NEW p \in Proc, RestorePrevious(p)
  PROVE  JInv'
  <1>1. op[p].pc = "restore" /\ op[p].pc \in Deploying /\ op[p].pc \in Executing /\ Working(p)
    BY DEF RestorePrevious, At, Deploying, Executing, Working
  <1>2. UNCHANGED <<ledger, nginx, pending, env, retired, host>>
    BY DEF RestorePrevious, ledgerVars, hostVars, proxyVars
  <1>3. /\ ~op[p].staged => Unmoved(p)
        /\ \A r \in Release \ {op[p].rel} : Uncommitted(r) => ~Present(r)
    BY <1>1 DEF JInv, Achieved, Transacts, Staging
  <1>4. app'.rel \in {app.rel, op[p].previous, None}
    BY DEF RestorePrevious, Down
  <1>5. None \notin Release
    BY LedgerAssumption
  <1>6. ASSUME NEW r \in Release, app'.rel = r
        PROVE  app.rel = r \/ ledger[r].status = "deployed"
    BY <1>1, <1>4, <1>5, <1>6, PreviousIsDeployed
  <1>7. Marked'
    BY <1>2, <1>6 DEF JInv, Outcome, Marked, Uncommitted, Present
  <1>8. Outcome'
    BY <1>1, <1>2, <1>7, DeployingIsSafe DEF Outcome
  <1>9. \A r \in Release \ {op[p].rel} : Uncommitted(r)' => ~Present(r)'
    BY <1>2, <1>3, <1>6 DEF Uncommitted, Present
  <1>10. ASSUME Advances(p, "unstage"),
                op'[p].frag = op[p].frag, op'[p].owner = op[p].owner, op'[p].staged = op[p].staged,
                op'[p].clean => BackAgain(p)'
         PROVE  JInv'
    <2>1. Recorded(p)' /\ Equipped(p)'
      BY <1>1, <1>2, <1>10, StillDeploying DEF Deploying
    <2>2. Transacts(p)'
      BY <1>2, <1>3, <1>9, <1>10 DEF Advances, Transacts, Unmoved, Staging, Deploying
    <2>3. Runs(p)'
      BY <1>10 DEF Advances, Runs
    <2> QED
      BY <1>1, <1>8, <1>10, <2>1, <2>2, <2>3, OthersAchieved DEF Achieved, Advances
  <1>11. ASSUME Goto(p, "unstage"),
                \/ op[p].previous = None /\ app' = Down
                \/ /\ op[p].previous # None /\ env[op[p].previous] # "absent"
                   /\ app' = [rel |-> op[p].previous, ok |-> TRUE]
         PROVE  JInv'
    <2>1. Onward(p, "unstage")
      BY <1>11, GoesOnward DEF PC
    <2>2. BackAgain(p)'
      BY <1>2, <1>11, <2>1 DEF BackAgain, Onward, Advances
    <2> QED
      BY <1>10, <2>1, <2>2 DEF Onward
  <1>12. ASSUME op' = [op EXCEPT ![p].pc = "unstage", ![p].clean = FALSE]
         PROVE  JInv'
    <2>1. op[p] \in Operation /\ op \in [Proc -> Operation]
      BY DEF IInv, TypeOK
    <2>2. op'[p] = [op[p] EXCEPT !.pc = "unstage", !.clean = FALSE]
      BY <1>12, <2>1
    <2>3. op'[p] \in Operation
      BY <2>1, <2>2 DEF Operation, PC
    <2>4. /\ Advances(p, "unstage") /\ op'[p].frag = op[p].frag /\ op'[p].owner = op[p].owner
          /\ op'[p].staged = op[p].staged /\ ~op'[p].clean
      BY <1>12, <2>1, <2>2, <2>3 DEF Advances, Operation
    <2> QED
      BY <1>10, <2>4
  <1> QED
    BY <1>11, <1>12 DEF RestorePrevious

LEMMA RollbackNginxVerdict ==
  ASSUME IInv, JInv, NEW p \in Proc, RollbackNginx(p)
  PROVE  JInv'
  <1>1. op[p].pc = "unstage" /\ op[p].pc \in Deploying /\ Working(p)
    BY DEF RollbackNginx, At, Deploying, Working
  <1>2. UNCHANGED <<ledger, app, pending, env, retired, host>>
    BY DEF RollbackNginx, ledgerVars, hostVars
  <1>3. /\ ~op[p].staged => Unmoved(p)
        /\ \A r \in Release \ {op[p].rel} : Uncommitted(r) => ~Present(r)
    BY <1>1 DEF JInv, Achieved, Transacts, Staging
  <1>4. op[p].clean => BackAgain(p)
    BY <1>1 DEF JInv, Achieved, Runs
  <1>5. nginx \in NginxState /\ op[p] \in Operation /\ op \in [Proc -> Operation]
    BY DEF IInv, TypeOK
  <1> DEFINE files == [nginx EXCEPT !.frag = op[p].frag, !.owner = op[p].owner]
  <1>6. /\ files.frag = op[p].frag /\ files.owner = op[p].owner /\ files.routed = nginx.routed
        /\ \A r : /\ [files EXCEPT !.routed = r].frag = op[p].frag
                  /\ [files EXCEPT !.routed = r].owner = op[p].owner
                  /\ [files EXCEPT !.routed = r].routed = r
    BY <1>5 DEF NginxState
  <1> HIDE DEF files
  <1>7. \A r \in Rendered(app) : r \in {app.rel, None}
    BY DEF Rendered
  (* p goes on, clean only if the files are back. *)
  <1>8. ASSUME nginx'.routed \in {nginx.routed, app.rel, None}, Advances(p, "settle"),
               op'[p].clean => op[p].clean /\ Unmoved(p)'
        PROVE  JInv'
    <2>1. \A r \in Release : Present(r)' => Present(r)
      BY <1>2, <1>8, LedgerAssumption DEF Present
    <2>2. Marked'
      BY <1>2, <2>1 DEF JInv, Outcome, Marked, Uncommitted
    <2>3. Outcome'
      BY <1>1, <1>2, <2>2, DeployingIsSafe DEF Outcome
    <2>4. Recorded(p)' /\ Equipped(p)'
      BY <1>1, <1>2, <1>8, StillDeploying DEF Deploying
    <2>5. Transacts(p)'
      BY <1>2, <1>3, <1>8, <2>1 DEF Advances, Transacts, Uncommitted, Staging, Deploying
    <2>6. Runs(p)'
      BY <1>2, <1>4, <1>8 DEF Advances, Runs, BackAgain
    <2> QED
      BY <1>1, <1>8, <2>3, <2>4, <2>5, <2>6, OthersAchieved DEF Achieved, Advances
  <1>9. CASE ~op[p].staged /\ Goto(p, "settle") /\ UNCHANGED nginx
    <2>1. Onward(p, "settle")
      BY <1>9, GoesOnward DEF PC
    <2>2. Unmoved(p)'
      BY <1>3, <1>9, <2>1 DEF Unmoved, Onward
    <2> QED
      BY <1>8, <1>9, <2>1, <2>2 DEF Onward
  <1>10. ASSUME NEW r \in Rendered(app), nginx' = [files EXCEPT !.routed = r],
                op' = [op EXCEPT ![p].pc = "settle", ![p].restored = TRUE]
         PROVE  JInv'
    <2>1. op'[p] = [op[p] EXCEPT !.pc = "settle", !.restored = TRUE]
      BY <1>5, <1>10
    <2>2. op'[p] \in Operation
      BY <1>5, <2>1 DEF Operation, PC
    <2>3. /\ Advances(p, "settle") /\ op'[p].clean = op[p].clean
          /\ op'[p].frag = op[p].frag /\ op'[p].owner = op[p].owner
      BY <1>5, <1>10, <2>1, <2>2 DEF Advances, Operation
    <2>4. Unmoved(p)'
      BY <1>6, <1>10, <2>3 DEF Unmoved
    <2> QED
      BY <1>6, <1>7, <1>8, <1>10, <2>3, <2>4
  <1>11. ASSUME nginx' \in {nginx, files} \cup {[files EXCEPT !.routed = r] : r \in Rendered(app)},
                op' = [op EXCEPT ![p].pc = "settle", ![p].clean = FALSE]
         PROVE  JInv'
    <2>1. op'[p] = [op[p] EXCEPT !.pc = "settle", !.clean = FALSE]
      BY <1>5, <1>11
    <2>2. op'[p] \in Operation
      BY <1>5, <2>1 DEF Operation, PC
    <2>3. Advances(p, "settle") /\ ~op'[p].clean
      BY <1>5, <1>11, <2>1, <2>2 DEF Advances, Operation
    <2>4. nginx'.routed \in {nginx.routed, app.rel, None}
      BY <1>6, <1>7, <1>11
    <2> QED
      BY <1>8, <2>3, <2>4
  <1> QED
    BY <1>9, <1>10, <1>11 DEF RollbackNginx, files

LEMMA SettleVerdict ==
  ASSUME IInv, JInv, NEW p \in Proc, Settle(p)
  PROVE  JInv'
  <1>1. op[p].pc = "settle" /\ op[p].pc \in Executing /\ Working(p)
    BY DEF Settle, At, Executing, Working
  <1>2. UNCHANGED <<app, nginx, pending, env, retired, host>>
    BY DEF Settle, hostVars, proxyVars
  <1>3. PICK c \in Release : c = op[p].rel
    BY <1>1 DEF IInv, Informed
  <1>4. MigrationOf(p) \in Migration /\ "failed" \in Health /\ Verdict(p) \in {"failed", "rolled_back"}
    BY <1>1, CandidateFields DEF Health, Verdict
  <1>5. UpdateReleaseState(p, Verdict(p), MigrationOf(p), "failed")
    BY DEF Settle
  <1>6. /\ ledger'[c].status \in {"failed", "rolled_back"}
        /\ \A r \in Release \ {c} : ledger'[r] = ledger[r]
    BY <1>1, <1>3, <1>4, <1>5, UpdatedRecord
  <1>7. Marked'
    BY <1>1, <1>2, <1>4, <1>5, MarkedUpdate
  <1>8. RecoveryMatchesContainers' /\ RunningKeepsSecrets'
    <2>1. CASE Verdict(p) = "failed"
      BY <1>1, <1>4, <1>5, <2>1, FailureRefuses, Refused
    <2>2. CASE Verdict(p) # "failed"
      <3>1. op[p].previous # None /\ op[p].clean
        BY <2>2 DEF Verdict
      <3>2. app = [rel |-> op[p].previous, ok |-> TRUE] /\ env[op[p].previous] # "absent"
        BY <1>1, <3>1 DEF JInv, Achieved, Runs, BackAgain
      <3>3. FindLatestDeployed(ledger') = FindLatestDeployed(ledger)
        BY <1>1, <1>4, <1>5, ExecutingUpdate
      <3>4. FindLatestDeployed(ledger') = op[p].previous
        BY <1>1, <3>3, PreviousIsDeployed
      <3> QED
        BY <1>2, <3>2, <3>4 DEF RecoveryMatchesContainers, RunningKeepsSecrets, RecoveryRelease
    <2> QED
      BY <2>1, <2>2
  <1>9. Onward(p, "exit")
    BY GoesOnward DEF Settle, PC
  <1>10. \A r \in Release \ {c} : Uncommitted(r) => ~Present(r)
    BY <1>1, <1>3 DEF JInv, Achieved, Transacts, Staging
  <1>11. Recorded(p)' /\ Transacts(p)'
    BY <1>2, <1>3, <1>6, <1>9, <1>10
       DEF Onward, Advances, Recorded, Transacts, Uncommitted, Present, Deploying, Staging,
           Executing, Preparing, Done
  <1>12. Runs(p)' /\ Equipped(p)'
    BY <1>9 DEF Onward, Advances, Runs, Equipped, Executing, Done
  <1> QED
    BY <1>1, <1>7, <1>8, <1>9, <1>11, <1>12, OthersAchieved DEF Achieved, Outcome, Onward, Advances

LEMMA FailDeploymentVerdict ==
  ASSUME IInv, JInv, NEW p \in Proc, FailDeployment(p)
  PROVE  JInv'
  <1>1. op[p].pc = "exit" /\ Working(p) /\ Leave(p)
    BY DEF FailDeployment, At, Working
  <1>2. UNCHANGED <<ledger, app, nginx, env, retired, host>>
    BY DEF FailDeployment, ledgerVars, hostVars
  <1>3. \A r \in Release : Uncommitted(r) => ~Present(r)
    BY <1>1 DEF JInv, Achieved, Recorded, Transacts, Staging
  <1>4. Marked'
    BY <1>2, <1>3 DEF JInv, Outcome, Marked, Uncommitted, Present
  <1>5. RecoveryMatchesContainers' /\ RunningKeepsSecrets'
    BY <1>2 DEF JInv, Outcome, RecoveryMatchesContainers, RunningKeepsSecrets
  <1> QED
    BY <1>1, <1>4, <1>5, LeavesAchieved DEF Outcome

-----------------------------------------------------------------------------
(* retire and purge *)

(* Containers that go leave the outcome: nothing runs that could contradict the ledger. *)
LEMMA DownIsSafe ==
  ASSUME app' = Down
  PROVE  RecoveryMatchesContainers' /\ RunningKeepsSecrets'
  <1>1. app'.rel = None
    BY DEF Down
  <1> QED
    BY <1>1 DEF RecoveryMatchesContainers, RunningKeepsSecrets

LEMMA StopContainersVerdict ==
  ASSUME IInv, JInv, NEW p \in Proc, StopContainers(p)
  PROVE  JInv'
  <1>1. Working(p)
    BY DEF StopContainers, At, Working
  <1>2. UNCHANGED <<ledger, nginx, pending, env, retired, host>> /\ app' \in {app, Down}
    BY DEF StopContainers, ledgerVars, hostVars, proxyVars
  <1>3. Outcome'
    <2>1. CASE app' = app
      BY <1>2, <2>1, Calm
    <2>2. CASE app' = Down
      <3>1. app'.rel = None /\ None \notin Release
        BY <2>2, LedgerAssumption DEF Down
      <3>2. Marked'
        BY <1>2, <3>1 DEF JInv, Outcome, Marked, Uncommitted, Present
      <3> QED
        BY <1>2, <2>2, <3>1, <3>2 DEF Outcome, RecoveryMatchesContainers, RunningKeepsSecrets
    <2> QED
      BY <1>2, <2>1, <2>2
  <1>4. CASE Goto(p, "domains")
    <2>1. Onward(p, "domains")
      BY <1>4, GoesOnward DEF PC
    <2>2. Achieved(p)'
      BY <2>1, ClaimsNothing DEF Onward, Advances, NoClaim
    <2> QED
      BY <1>1, <1>3, <2>1, <2>2, OthersAchieved DEF Onward, Advances
  <1>5. CASE Leave(p)
    BY <1>1, <1>3, <1>5, LeavesAchieved
  <1> QED
    BY <1>4, <1>5 DEF StopContainers

(* The proxy gets a configuration of the containers that are there, or keeps its own. *)
LEMMA RoutedIsSafe ==
  ASSUME JInv, UNCHANGED <<ledger, app, env, retired, host>>,
         nginx'.routed \in {nginx.routed, app.rel, None}, pending => pending'
  PROVE  Outcome'
  <1>1. \A r \in Release : Present(r)' => Present(r)
    BY LedgerAssumption DEF Present
  <1>2. Marked'
    BY <1>1 DEF JInv, Outcome, Marked, Uncommitted
  <1>3. RecoveryMatchesContainers' /\ RunningKeepsSecrets'
    BY DEF JInv, Outcome, RecoveryMatchesContainers, RunningKeepsSecrets
  <1> QED
    BY <1>2, <1>3 DEF Outcome

LEMMA ReleaseDomainsVerdict ==
  ASSUME IInv, JInv, NEW p \in Proc, ReleaseDomains(p)
  PROVE  JInv'
  <1>1. Working(p)
    BY DEF ReleaseDomains, At, Working
  <1>2. Onward(p, "marker")
    BY GoesOnward DEF ReleaseDomains, PC
  <1>3. UNCHANGED <<ledger, app, env, retired, host, pending>> /\ nginx'.routed = app.rel
    BY DEF ReleaseDomains, ledgerVars, hostVars
  <1>4. Outcome'
    BY <1>3, RoutedIsSafe
  <1>5. Achieved(p)'
    BY <1>2, ClaimsNothing DEF Onward, Advances, NoClaim
  <1> QED
    BY <1>1, <1>2, <1>4, <1>5, OthersAchieved DEF Onward, Advances

LEMMA DomainsNotReleasedVerdict ==
  ASSUME IInv, JInv, NEW p \in Proc, DomainsNotReleased(p)
  PROVE  JInv'
  <1>1. Working(p) /\ Leave(p)
    BY DEF DomainsNotReleased, At, Working
  <1>2. UNCHANGED <<ledger, app, env, retired, host>> /\ pending' = TRUE
    BY DEF DomainsNotReleased, ledgerVars, hostVars
  <1>3. PICK f \in {nginx.frag, nginx.frag \ nginx.owner}, r \in {nginx.routed, app.rel} :
          nginx' = [nginx EXCEPT !.frag = f, !.routed = r]
    BY DEF DomainsNotReleased
  <1>4. nginx'.routed = r
    BY <1>3 DEF IInv, TypeOK, NginxState
  <1>5. Outcome'
    BY <1>2, <1>4, RoutedIsSafe
  <1> QED
    BY <1>1, <1>5, LeavesAchieved

LEMMA WriteMarkerVerdict ==
  ASSUME IInv, JInv, NEW p \in Proc, WriteMarker(p)
  PROVE  JInv'
  <1>1. Working(p) /\ Leave(p)
    BY DEF WriteMarker, At, Working
  <1>2. UNCHANGED <<ledger, app, nginx, pending, env>> /\ retired' = TRUE
    BY DEF WriteMarker, ledgerVars, proxyVars
  <1>3. Outcome'
    BY <1>2 DEF JInv, Outcome, Marked, RecoveryMatchesContainers, RunningKeepsSecrets,
                Uncommitted, Present
  <1> QED
    BY <1>1, <1>3, LeavesAchieved

LEMMA DestroyContainersVerdict ==
  ASSUME IInv, JInv, NEW p \in Proc, DestroyContainers(p)
  PROVE  JInv'
  <1>1. Working(p) /\ op[p].pc = "purge_down"
    BY DEF DestroyContainers, At, Working
  <1>2. UNCHANGED <<ledger, nginx, pending, env, retired, host>> /\ app' = Down
    BY DEF DestroyContainers, ledgerVars, proxyVars
  <1>3. app'.rel = None /\ None \notin Release
    BY <1>2, LedgerAssumption DEF Down
  <1>4. Outcome'
    BY <1>2, <1>3, DownIsSafe DEF JInv, Outcome, Marked, Uncommitted, Present
  <1>5. CASE Goto(p, "purge_trees")
    <2>1. Onward(p, "purge_trees")
      BY <1>5, GoesOnward DEF PC
    <2>2. Achieved(p)'
      BY <1>2, <2>1 DEF Onward, Advances, Achieved, Recorded, Transacts, Runs, Equipped,
                        Deploying, Staging, Done, Preparing, Executing
    <2> QED
      BY <1>1, <1>4, <2>1, <2>2, OthersAchieved DEF Onward, Advances
  <1>6. CASE Leave(p)
    BY <1>1, <1>4, <1>6, LeavesAchieved
  <1> QED
    BY <1>5, <1>6 DEF DestroyContainers

LEMMA RemoveTreesVerdict ==
  ASSUME IInv, JInv, NEW p \in Proc, RemoveTrees(p)
  PROVE  JInv'
  <1>1. Working(p) /\ op[p].pc = "purge_trees"
    BY DEF RemoveTrees, At, Working
  <1>2. app = Down
    BY <1>1 DEF JInv, Achieved, Runs
  <1>3. UNCHANGED <<ledger, app, pending, retired, host>> /\ nginx'.routed = nginx.routed
    BY DEF RemoveTrees, ledgerVars, hostVars, IInv, TypeOK, NginxState
  <1>4. Outcome'
    BY <1>2, <1>3, DownIsSafe DEF JInv, Outcome, Marked, Uncommitted, Present
  <1>5. Onward(p, "purge_ledger")
    BY GoesOnward DEF RemoveTrees, PC
  <1>6. Achieved(p)'
    BY <1>2, <1>3, <1>5 DEF Onward, Advances, Achieved, Recorded, Transacts, Runs, Equipped,
                        Deploying, Staging, Done, Preparing, Executing
  <1> QED
    BY <1>1, <1>4, <1>5, <1>6, OthersAchieved DEF Onward, Advances

LEMMA ForgettingIsSafe ==
  ASSUME JInv, app = Down, UNCHANGED <<app, nginx, pending>>,
         NEW gone \in SUBSET Records(ledger), ledger' = Without(ledger, gone)
  PROVE  Outcome'
  <1>1. \A r \in Release : ledger'[r] = IF r \in gone THEN PurgedRecord ELSE ledger[r]
    BY DEF Without
  <1>2. PurgedRecord.status = "purged"
    BY DEF PurgedRecord, NoRecord
  <1>3. \A r \in Release : /\ Uncommitted(r)' => Uncommitted(r)
                           /\ ledger'[r].status = "none" => ledger[r].status = "none"
    BY <1>1, <1>2 DEF Uncommitted
  <1>4. Marked'
    BY <1>3 DEF JInv, Outcome, Marked, Present
  <1> QED
    BY <1>4, DownIsSafe DEF Outcome

LEMMA RemoveLedgerVerdict ==
  ASSUME IInv, JInv, NEW p \in Proc, RemoveLedger(p)
  PROVE  JInv'
  <1>1. Working(p) /\ op[p].pc = "purge_ledger"
    BY DEF RemoveLedger, At, Working
  <1>2. app = Down
    BY <1>1 DEF JInv, Achieved, Runs
  <1>3. UNCHANGED <<app, nginx, pending>>
    BY DEF RemoveLedger, proxyVars
  <1>4. PICK gone \in SUBSET Records(ledger) : ledger' = Without(ledger, gone)
    BY DEF RemoveLedger
  <1>5. Outcome'
    BY <1>2, <1>3, <1>4, ForgettingIsSafe
  <1>6. Onward(p, "purge_rest")
    BY GoesOnward DEF RemoveLedger, PC
  <1>7. Achieved(p)'
    BY <1>2, <1>3, <1>6 DEF Onward, Advances, Achieved, Recorded, Transacts, Runs, Equipped,
                        Deploying, Staging, Done, Preparing, Executing
  <1> QED
    BY <1>1, <1>5, <1>6, <1>7, OthersAchieved DEF Onward, Advances

LEMMA FinishPurgeVerdict ==
  ASSUME IInv, JInv, NEW p \in Proc, FinishPurge(p)
  PROVE  JInv'
  <1>1. Working(p) /\ op[p].pc = "purge_rest" /\ Leave(p)
    BY DEF FinishPurge, At, Working
  <1>2. app = Down
    BY <1>1 DEF JInv, Achieved, Runs
  <1>3. UNCHANGED <<app, nginx, pending>> /\ ledger' = Without(ledger, Records(ledger))
    BY DEF FinishPurge, proxyVars
  <1>4. Outcome'
    BY <1>2, <1>3, ForgettingIsSafe
  <1> QED
    BY <1>1, <1>4, LeavesAchieved

-----------------------------------------------------------------------------
(* The environment *)

(* The reconciler may render at any time but during a transaction's pending activation. *)
LEMMA ReconcileVerdict ==
  ASSUME IInv, JInv, Reconcile
  PROVE  JInv'
  <1>1. UNCHANGED <<ledger, app, env, retired, host, pending, op>> /\ ~pending
    BY DEF Reconcile, ledgerVars, hostVars
  <1>2. PICK r \in {app.rel, None} : nginx' = [nginx EXCEPT !.routed = r]
    BY DEF Reconcile, Rendered
  <1>3. nginx'.frag = nginx.frag /\ nginx'.owner = nginx.owner /\ nginx'.routed = r
    BY <1>2 DEF IInv, TypeOK, NginxState
  <1>4. Outcome'
    BY <1>1, <1>3, RoutedIsSafe
  <1>5. \A q \in Release : Present(q)' => Present(q)
    BY <1>1, <1>3, LedgerAssumption DEF Present
  <1>6. ASSUME NEW q \in Proc PROVE Achieved(q)'
    <2>1. Achieved(q) /\ op[q].pc # "commit"
      BY <1>1 DEF JInv, Achieved, Transacts
    <2>2. Recorded(q)' /\ Equipped(q)'
      BY <1>1, <2>1 DEF Achieved, Recorded, Equipped, Uncommitted
    <2>3. Transacts(q)'
      BY <1>1, <1>3, <1>5, <2>1 DEF Achieved, Transacts, Uncommitted, Unmoved
    <2>4. Runs(q)'
      BY <1>1, <2>1 DEF Achieved, Runs, BackAgain
    <2> QED
      BY <2>2, <2>3, <2>4 DEF Achieved
  <1> QED
    BY <1>4, <1>6 DEF JInv

LEMMA RebootVerdict ==
  ASSUME IInv, JInv, Reboot
  PROVE  JInv'
  <1>1. UNCHANGED <<ledger, app, nginx, pending>> /\ host' = "booting"
    BY DEF Reboot, ledgerVars, proxyVars
  <1>2. Outcome'
    BY <1>1 DEF JInv, Outcome, Marked, RecoveryMatchesContainers, RunningKeepsSecrets,
                Uncommitted, Present
  <1>3. \A q \in Proc : op'[q].pc \in NoClaim
    BY DEF Reboot, Idle, NoClaim
  <1> QED
    BY <1>2, <1>3, ClaimsNothing DEF JInv

(* Boot recovery brings the secrets of the one release it has chosen. *)
LEMMA BootRecoveryVerdict ==
  ASSUME IInv, JInv, BootRecovery
  PROVE  JInv'
  <1>1. UNCHANGED <<ledger, app, nginx, pending, retired, op>>
    BY DEF BootRecovery, ledgerVars, proxyVars
  <1>2. \A r \in Release : env'[r] = IF ~retired /\ r = RecoveryRelease(ledger)
                                     THEN "full" ELSE env[r]
    BY DEF BootRecovery
  <1>3. RecoveryRelease(ledger) \in Release \cup {None}
    BY CurrentType DEF RecoveryRelease
  <1>4. RunningKeepsSecrets'
    BY <1>1, <1>2, <1>3 DEF RunningKeepsSecrets
  <1>5. Marked' /\ RecoveryMatchesContainers'
    BY <1>1 DEF JInv, Outcome, Marked, RecoveryMatchesContainers, Uncommitted, Present
  <1>6. \A r \in Release : /\ env[r] # "absent" => env'[r] # "absent"
                           /\ env[r] = "full" => env'[r] = "full"
    BY <1>2
  <1>7. ASSUME NEW q \in Proc PROVE Achieved(q)'
    <2>1. Achieved(q) /\ Informed(q)
      BY DEF JInv, IInv
    <2>2. Recorded(q)' /\ Transacts(q)'
      BY <1>1, <2>1 DEF Achieved, Recorded, Transacts, Uncommitted, Present, Unmoved
    <2>3. Equipped(q)'
      BY <1>1, <1>6, <2>1 DEF Achieved, Equipped, Informed, Preparing, Ending, Done
    <2>4. Runs(q)'
      <3>1. op[q].pc \in {"unstage", "settle"} =>
              op[q].previous = None \/ op[q].previous \in Release
        BY PreviousIsDeployed DEF Executing
      <3> QED
        BY <1>1, <1>6, <2>1, <3>1 DEF Achieved, Runs, BackAgain
    <2> QED
      BY <2>2, <2>3, <2>4 DEF Achieved
  <1> QED
    BY <1>4, <1>5, <1>7 DEF JInv, Outcome

-----------------------------------------------------------------------------
(* The theorems *)

LEMMA InitVerdict == Init => JInv
  <1> SUFFICES ASSUME Init PROVE JInv
    OBVIOUS
  <1>1. \A q \in Proc : op[q].pc = "idle"
    BY DEF Init, Idle
  <1>2. \A q \in Proc : Achieved(q)
    BY <1>1 DEF Achieved, Recorded, Transacts, Runs, Equipped, Deploying, Staging, Done,
                Preparing, Executing
  <1>3. app = Down /\ app.rel = None /\ nginx.routed = None /\ None \notin Release
    BY LedgerAssumption DEF Init, Down
  <1>4. Outcome
    BY <1>3 DEF Outcome, Marked, Present, RecoveryMatchesContainers, RunningKeepsSecrets
  <1> QED
    BY <1>2, <1>4 DEF JInv

LEMMA NextVerdict == IInv /\ IInv' /\ JInv /\ [Next]_vars => JInv'
  <1> SUFFICES ASSUME IInv, IInv', JInv, [Next]_vars PROVE JInv'
    OBVIOUS
  <1>1. ASSUME NEW p \in Proc, Step(p)
        PROVE  JInv'
    <2>1. CASE \E t \in Tag : BeginDeploy(p, t)
      BY <2>1, BeginDeployVerdict
    <2>2. CASE Materialise(p)
      BY <2>2, MaterialiseVerdict
    <2>3. CASE InjectDatabase(p)
      BY <2>3, InjectDatabaseVerdict
    <2>4. CASE PrepareFails(p) \/ NginxRefused(p) \/ RetireRefused(p) \/ Kill(p)
      BY <2>4, LeavingVerdict
    <2>5. CASE WriteReleaseRecord(p)
      BY <2>5, WriteReleaseRecordVerdict
    <2>6. CASE BeginRollback(p)
      BY <2>6, BeginRollbackVerdict
    <2>7. CASE MaterialiseCurrent(p)
      BY <2>7, MaterialiseCurrentVerdict
    <2>8. CASE InjectCurrent(p)
      BY <2>8, InjectCurrentVerdict
    <2>9. CASE ComposeRejected(p)
      BY <2>9, ComposeRejectedVerdict
    <2>10. CASE PrepareNginx(p)
      BY <2>10, PrepareNginxVerdict
    <2>11. CASE PreMigrationBackup(p) \/ RunMigration(p) \/ HealthcheckRunning(p)
      BY <2>11, MigrationVerdict
    <2>12. CASE StageActivation(p)
      BY <2>12, StageActivationVerdict
    <2>13. CASE StartRelease(p)
      BY <2>13, StartReleaseVerdict
    <2>14. CASE Activate(p)
      BY <2>14, ActivateVerdict
    <2>15. CASE Commit(p)
      BY <2>15, CommitVerdict
    <2>16. CASE ReleaseNginx(p)
      BY <2>16, ReleaseNginxVerdict
    <2>17. CASE Retain(p)
      BY <2>17, RetainVerdict
    <2>18. CASE ClearMarker(p)
      BY <2>18, ClearMarkerVerdict
    <2>19. CASE RestorePrevious(p)
      BY <2>19, RestorePreviousVerdict
    <2>20. CASE RollbackNginx(p)
      BY <2>20, RollbackNginxVerdict
    <2>21. CASE Settle(p)
      BY <2>21, SettleVerdict
    <2>22. CASE FailDeployment(p)
      BY <2>22, FailDeploymentVerdict
    <2>23. CASE BeginRetire(p) \/ ConfirmPurge(p) \/ LockPurge(p)
      BY <2>23, BeginStopVerdict
    <2>24. CASE StopContainers(p)
      BY <2>24, StopContainersVerdict
    <2>25. CASE ReleaseDomains(p)
      BY <2>25, ReleaseDomainsVerdict
    <2>26. CASE DomainsNotReleased(p)
      BY <2>26, DomainsNotReleasedVerdict
    <2>27. CASE WriteMarker(p)
      BY <2>27, WriteMarkerVerdict
    <2>28. CASE DestroyContainers(p)
      BY <2>28, DestroyContainersVerdict
    <2>29. CASE RemoveTrees(p)
      BY <2>29, RemoveTreesVerdict
    <2>30. CASE RemoveLedger(p)
      BY <2>30, RemoveLedgerVerdict
    <2>31. CASE FinishPurge(p)
      BY <2>31, FinishPurgeVerdict
    <2> QED
      BY <1>1, <2>1, <2>2, <2>3, <2>4, <2>5, <2>6, <2>7, <2>8, <2>9, <2>10, <2>11, <2>12, <2>13,
         <2>14, <2>15, <2>16, <2>17, <2>18, <2>19, <2>20, <2>21, <2>22, <2>23, <2>24, <2>25,
         <2>26, <2>27, <2>28, <2>29, <2>30, <2>31 DEF Step
  <1>2. CASE Reconcile
    BY <1>2, ReconcileVerdict
  <1>3. CASE Reboot
    BY <1>3, RebootVerdict
  <1>4. CASE BootRecovery
    BY <1>4, BootRecoveryVerdict
  <1>5. CASE UNCHANGED vars
    <2>1. UNCHANGED <<ledger, app, nginx, pending, env, retired, host, op>>
      BY <1>5 DEF vars
    <2> QED
      BY <2>1 DEF JInv, Outcome, Marked, RecoveryMatchesContainers, RunningKeepsSecrets,
                  Achieved, Recorded, Transacts, Runs, Equipped, Uncommitted, Present, Unmoved,
                  BackAgain
  <1> QED
    BY <1>1, <1>2, <1>3, <1>4, <1>5 DEF Next

(* Every step of every command keeps what each command has achieved, and the outcome.   *)
THEOREM VerdictInvariance == Spec => [](IInv /\ JInv)
  BY Invariance, InitVerdict, NextVerdict, PTL DEF Spec

(* select_recovery_release after a kill or reboot anywhere in a deploy, rollback, retire *)
(* or purge: the release it picks is the one whose containers are there, and healthy.   *)
THEOREM RecoveryIsRight == Spec => []RecoveryMatchesContainers
  <1>1. JInv => RecoveryMatchesContainers
    BY DEF JInv, Outcome
  <1> QED
    BY <1>1, VerdictInvariance, PTL

(* nginx_transaction.stage, and prepare() when it ends: no traffic goes to a release    *)
(* without a verdict unless the pending marker holds off every other activation.        *)
THEOREM TrafficIsCommitted == Spec => []NoUncommittedTraffic
  <1>1. JInv => NoUncommittedTraffic
    BY DEF JInv, Outcome, Marked, Uncommitted, Present, NoUncommittedTraffic
  <1> QED
    BY <1>1, VerdictInvariance, PTL

(* prune_runtime_secrets, the failure path, purge and boot recovery: a running release  *)
(* boot recovery would choose keeps its app.env.                                        *)
THEOREM SecretsAreKept == Spec => []RunningKeepsSecrets
  <1>1. JInv => RunningKeepsSecrets
    BY DEF JInv, Outcome
  <1> QED
    BY <1>1, VerdictInvariance, PTL

-----------------------------------------------------------------------------
(* The verdicts themselves *)

(* What VerdictIsEarned says of one release. *)
Earned(r) ==
  ledger'[r].status # ledger[r].status =>
    /\ ledger'[r].status = "deployed" =>
         /\ app = [rel |-> r, ok |-> TRUE]
         /\ nginx.routed = r
         /\ HostsOfRelease(r) = nginx.owner /\ nginx.owner \subseteq nginx.frag
         /\ env[r] = "full"
    /\ ledger'[r].status = "rolled_back" =>
         /\ app = [rel |-> ledger[r].previous, ok |-> TRUE]
         /\ \E p \in Proc :
              op[p].rel = r /\ nginx.frag = op[p].frag /\ nginx.owner = op[p].owner

LEMMA CommitEarned ==
  ASSUME IInv, JInv, NEW p \in Proc, Commit(p), NEW r \in Release
  PROVE  Earned(r)
  <1>1. op[p].pc = "commit" /\ op[p].pc \in Executing
    BY DEF Commit, At, Executing
  <1>2. MigrationOf(p) \in Migration /\ "succeeded" \in Health
    BY <1>1, CandidateFields DEF Health
  <1>3. UpdateReleaseState(p, "deployed", MigrationOf(p), "succeeded")
    BY DEF Commit
  <1>4. CASE r = op[p].rel
    <2>1. /\ app = [rel |-> r, ok |-> TRUE] /\ nginx.routed = r
          /\ nginx.owner = HostsOf[op[p].tag] /\ nginx.owner \subseteq nginx.frag
          /\ env[r] = "full" /\ ledger[r].tag = op[p].tag
      BY <1>1, <1>4 DEF JInv, Achieved, Runs, Recorded, Equipped
    <2>2. op[p].tag # None /\ r # None
      BY <1>1, LedgerAssumption DEF IInv, Informed
    <2>3. HostsOfRelease(r) = nginx.owner
      BY <2>1, <2>2 DEF HostsOfRelease
    <2>4. ledger'[r].status = "deployed"
      BY <1>1, <1>2, <1>3, <1>4, UpdatedRecord
    <2> QED
      BY <2>1, <2>3, <2>4 DEF Earned
  <1>5. CASE r # op[p].rel
    <2>1. ledger'[r] = ledger[r]
      BY <1>1, <1>2, <1>3, <1>5, UpdatedRecord
    <2> QED
      BY <2>1 DEF Earned
  <1> QED
    BY <1>4, <1>5

LEMMA SettleEarned ==
  ASSUME IInv, JInv, NEW p \in Proc, Settle(p), NEW r \in Release
  PROVE  Earned(r)
  <1>1. op[p].pc = "settle" /\ op[p].pc \in Executing
    BY DEF Settle, At, Executing
  <1>2. MigrationOf(p) \in Migration /\ "failed" \in Health /\ Verdict(p) \in {"failed", "rolled_back"}
    BY <1>1, CandidateFields DEF Health, Verdict
  <1>3. UpdateReleaseState(p, Verdict(p), MigrationOf(p), "failed")
    BY DEF Settle
  <1>4. CASE r = op[p].rel
    <2>1. ledger'[r].status = Verdict(p)
      BY <1>1, <1>2, <1>3, <1>4, UpdatedRecord
    <2>2. CASE Verdict(p) = "failed"
      BY <2>1, <2>2 DEF Earned
    <2>3. CASE Verdict(p) # "failed"
      <3>1. op[p].previous # None /\ op[p].clean
        BY <2>3 DEF Verdict
      <3>2. app = [rel |-> op[p].previous, ok |-> TRUE] /\ Unmoved(p)
        BY <1>1, <3>1 DEF JInv, Achieved, Runs, Transacts, BackAgain
      <3>3. ledger[r].previous = op[p].previous
        BY <1>1, <1>4 DEF IInv, Informed
      <3> QED
        BY <1>2, <1>4, <2>1, <2>3, <3>2, <3>3 DEF Earned, Unmoved
    <2> QED
      BY <2>2, <2>3
  <1>5. CASE r # op[p].rel
    <2>1. ledger'[r] = ledger[r]
      BY <1>1, <1>2, <1>3, <1>5, UpdatedRecord
    <2> QED
      BY <2>1 DEF Earned
  <1> QED
    BY <1>4, <1>5

(* Every other write of a record is no verdict of success or of a rollback. *)
LEMMA OtherWrites ==
  ASSUME IInv, NEW p \in Proc, Step(p), ~Commit(p), ~Settle(p), NEW r \in Release
  PROVE  ledger'[r].status # ledger[r].status =>
           ledger'[r].status \notin {"deployed", "rolled_back"}
  <1>1. CASE ComposeRejected(p) \/ PrepareNginx(p) \/ PreMigrationBackup(p) \/ RunMigration(p)
             \/ HealthcheckRunning(p)
    <2>1. op[p].pc \in Executing
      BY <1>1 DEF ComposeRejected, PrepareNginx, PreMigrationBackup, RunMigration,
                  HealthcheckRunning, At, Executing
    <2>2. /\ MigrationOf(p) \in Migration /\ HealthOf(p) \in Health
          /\ {"running", "succeeded", "failed"} \subseteq Migration
          /\ {"running", "failed"} \subseteq Health
      BY <2>1, CandidateFields DEF Migration, Health
    <2>3. PICK status \in {"deploying", "failed"}, m \in Migration, h \in Health :
            UpdateReleaseState(p, status, m, h)
      BY <1>1, <2>2 DEF ComposeRejected, PrepareNginx, PreMigrationBackup, RunMigration,
                        HealthcheckRunning
    <2> QED
      BY <2>1, <2>3, UpdatedRecord
  <1>2. CASE WriteReleaseRecord(p)
    <2>1. PICK c \in Release : c = op[p].rel
      BY <1>2, NewRecord
    <2>2. ledger'[c].status = "prepared" /\ \A q \in Release \ {c} : ledger'[q] = ledger[q]
      BY <1>2, <2>1, NewRecord DEF IInv, TypeOK, Ledger
    <2> QED
      BY <2>2
  <1>3. CASE RemoveLedger(p) \/ FinishPurge(p)
    <2>1. PICK gone \in SUBSET Records(ledger) : ledger' = Without(ledger, gone)
      BY <1>3 DEF RemoveLedger, FinishPurge
    <2>2. ledger'[r] = IF r \in gone THEN PurgedRecord ELSE ledger[r]
      BY <2>1 DEF Without
    <2> QED
      BY <2>2 DEF PurgedRecord, NoRecord
  <1>4. CASE UNCHANGED ledger
    BY <1>4
  <1>5. CASE Materialise(p) \/ InjectDatabase(p) \/ PrepareFails(p) \/ MaterialiseCurrent(p)
             \/ InjectCurrent(p) \/ NginxRefused(p) \/ StageActivation(p) \/ StartRelease(p)
    BY <1>4, <1>5 DEF Materialise, InjectDatabase, PrepareFails, MaterialiseCurrent,
                 InjectCurrent, NginxRefused, StageActivation, StartRelease, ledgerVars
  <1>8. CASE (\E t \in Tag : BeginDeploy(p, t)) \/ BeginRollback(p)
    <2>1. UNCHANGED ledger
      BY <1>8 DEF BeginDeploy, BeginRollback, ledgerVars
    <2> QED
      BY <1>4, <2>1
  <1>9. CASE Activate(p)
    <2>1. UNCHANGED ledger
      BY <1>9 DEF Activate, ledgerVars
    <2> QED
      BY <1>4, <2>1
  <1>6. CASE \/ ReleaseNginx(p) \/ Retain(p) \/ ClearMarker(p) \/ RestorePrevious(p)
             \/ RollbackNginx(p) \/ FailDeployment(p) \/ BeginRetire(p) \/ StopContainers(p)
    BY <1>4, <1>6 DEF ReleaseNginx, Retain, ClearMarker, RestorePrevious, RollbackNginx,
                 FailDeployment, BeginRetire, StopContainers, ledgerVars
  <1>7. CASE \/ ReleaseDomains(p) \/ DomainsNotReleased(p) \/ RetireRefused(p) \/ WriteMarker(p)
             \/ ConfirmPurge(p) \/ LockPurge(p) \/ DestroyContainers(p) \/ RemoveTrees(p)
             \/ Kill(p)
    BY <1>4, <1>7 DEF ReleaseDomains, DomainsNotReleased, RetireRefused, WriteMarker,
                 ConfirmPurge, LockPurge, DestroyContainers, RemoveTrees, Kill, ledgerVars
  <1> QED
    BY <1>1, <1>2, <1>3, <1>5, <1>6, <1>7, <1>8, <1>9 DEF Step

LEMMA NextEarned ==
  ASSUME IInv, JInv, [Next]_vars, NEW r \in Release
  PROVE  Earned(r)
  <1>1. ASSUME NEW p \in Proc, Step(p)
        PROVE  Earned(r)
    <2>1. CASE Commit(p)
      BY <2>1, CommitEarned
    <2>2. CASE Settle(p)
      BY <2>2, SettleEarned
    <2>3. CASE ~Commit(p) /\ ~Settle(p)
      BY <1>1, <2>3, OtherWrites DEF Earned
    <2> QED
      BY <2>1, <2>2, <2>3
  <1>2. CASE Reconcile \/ Reboot \/ BootRecovery
    BY <1>2 DEF Reconcile, Reboot, BootRecovery, ledgerVars, Earned
  <1>3. CASE UNCHANGED vars
    BY <1>3 DEF vars, Earned
  <1> QED
    BY <1>1, <1>2, <1>3 DEF Next

(* execute_prepared_release: deployed is written only over healthy containers that have *)
(* their traffic, domains and secrets; rolled_back only when containers and proxy are   *)
(* back where the command found them.                                                   *)
THEOREM VerdictsAreEarned == Spec => VerdictIsEarned
  <1>1. IInv /\ JInv /\ [Next]_vars =>
          [\A r \in Release :
             ledger'[r].status # ledger[r].status =>
               /\ ledger'[r].status = "deployed" =>
                    /\ app = [rel |-> r, ok |-> TRUE]
                    /\ nginx.routed = r
                    /\ HostsOfRelease(r) = nginx.owner /\ nginx.owner \subseteq nginx.frag
                    /\ env[r] = "full"
               /\ ledger'[r].status = "rolled_back" =>
                    /\ app = [rel |-> ledger[r].previous, ok |-> TRUE]
                    /\ \E p \in Proc :
                         op[p].rel = r /\ nginx.frag = op[p].frag /\ nginx.owner = op[p].owner
          ]_vars
    BY NextEarned DEF Earned
  <1> QED
    BY <1>1, VerdictInvariance, PTL DEF Spec, VerdictIsEarned

-----------------------------------------------------------------------------
(* Third part: what the console offers.  It works from tags and the order in which records were     *)
(* created, the host from records and the order in which they were last written; that   *)
(* the two orders agree on what is deployed is what the lock of the environment is      *)
(* needed for.  Again an invariant beside IInv:                                         *)

(* No two records were created at once; of two deployed releases the one created first  *)
(* was committed first; what is deployed was healthy.                                   *)
Ordered ==
  /\ \A r, q \in Records(ledger) : ledger[r].created = ledger[q].created => r = q
  /\ \A r, q \in InStatus(ledger, "deployed") :
       ledger[r].created < ledger[q].created => ledger[r].updated < ledger[q].updated
  /\ \A r \in InStatus(ledger, "deployed") : ledger[r].health = "succeeded"

(* Nobody has created a record since p created its own. *)
Newest(p) ==
  op[p].pc \in Executing =>
    \A q \in Records(ledger) : ledger[q].created <= ledger[op[p].rel].created

HInv == Ordered /\ \A p \in Proc : Newest(p)

-----------------------------------------------------------------------------
(* Which steps go on with an execution *)

Executes(p) ==
  /\ op'[p].pc \in Executing => op[p].pc \in Executing /\ op'[p].rel = op[p].rel
  /\ \A q \in Proc \ {p} : op'[q] = op[q]

LEMMA GotoExecutes ==
  ASSUME IInv, NEW p \in Proc, NEW pc \in PC, Goto(p, pc), pc \in Executing => op[p].pc \in Executing
  PROVE  Executes(p)
  BY GotoAdvances DEF IInv, Advances, Executes

LEMMA LeaveExecutes ==
  ASSUME IInv, NEW p \in Proc, Leave(p)
  PROVE  Executes(p)
  BY LeaveFacts DEF IInv, Executes, Idle, Executing

(* Only the step that writes the record begins one. *)
LEMMA StepExecutes ==
  ASSUME IInv, NEW p \in Proc, Step(p), ~WriteReleaseRecord(p)
  PROVE  Executes(p)
  <1>0. op \in [Proc -> Operation] /\ op[p] \in Operation
    BY DEF IInv, TypeOK
  <1>1. CASE (\E t \in Tag : BeginDeploy(p, t)) \/ BeginRollback(p) \/ BeginRetire(p)
             \/ ConfirmPurge(p)
    <2> DEFINE current == FindLatestDeployed(ledger)
    <2>1. CASE \E t \in Tag : BeginDeploy(p, t)
      <3>1. PICK kind, t, r :
              op' = [op EXCEPT ![p] = [Idle EXCEPT !.pc = "materialise", !.kind = kind, !.tag = t,
                                                   !.rel = r, !.previous = current]]
        BY <2>1 DEF BeginDeploy
      <3>2. op'[p].pc = "materialise" /\ \A q \in Proc \ {p} : op'[q] = op[q]
        BY <1>0, <3>1 DEF Idle
      <3> QED
        BY <3>2 DEF Executes, Executing
    <2>2. CASE BeginRollback(p)
      <3>1. PICK target, r :
              op' = [op EXCEPT ![p] = [Idle EXCEPT !.pc = "current_env", !.kind = "rollback",
                                                   !.tag = ledger[target].tag, !.rel = r,
                                                   !.previous = current, !.target = target]]
        BY <2>2 DEF BeginRollback
      <3>2. op'[p].pc = "current_env" /\ \A q \in Proc \ {p} : op'[q] = op[q]
        BY <1>0, <3>1 DEF Idle
      <3> QED
        BY <3>2 DEF Executes, Executing
    <2>3. CASE BeginRetire(p) \/ ConfirmPurge(p)
      <3>1. op'[p].pc \in {"app_down", "confirmed"} /\ \A q \in Proc \ {p} : op'[q] = op[q]
        BY <1>0, <2>3 DEF BeginRetire, ConfirmPurge, Idle
      <3> QED
        BY <3>1 DEF Executes, Executing
    <2> QED
      BY <1>1, <2>1, <2>2, <2>3
  <1>2. CASE Leave(p)
    BY <1>2, LeaveExecutes
  <1>3. ASSUME NEW pc \in PC, Goto(p, pc), pc \in Executing => op[p].pc \in Executing
        PROVE  Executes(p)
    BY <1>3, GotoExecutes
  <1>4. ASSUME op[p].pc \in Executing, NEW o, op' = [op EXCEPT ![p] = o], o.rel = op[p].rel
        PROVE  Executes(p)
    BY <1>0, <1>4 DEF Executes
  <1>5. CASE Materialise(p) \/ InjectDatabase(p) \/ MaterialiseCurrent(p) \/ InjectCurrent(p)
             \/ ReleaseNginx(p) \/ Retain(p) \/ StopContainers(p) \/ ReleaseDomains(p)
             \/ LockPurge(p) \/ DestroyContainers(p) \/ RemoveTrees(p) \/ RemoveLedger(p)
    <2>1. Leave(p) \/ \E pc \in PC \ Executing : Goto(p, pc)
      BY <1>5 DEF Materialise, InjectDatabase, MaterialiseCurrent, InjectCurrent, ReleaseNginx,
                  Retain, StopContainers, ReleaseDomains, LockPurge, DestroyContainers,
                  RemoveTrees, RemoveLedger, PC, Executing
    <2> QED
      BY <1>2, <1>3, <2>1
  <1>6. CASE PrepareFails(p) \/ ComposeRejected(p) \/ NginxRefused(p) \/ ClearMarker(p)
             \/ FailDeployment(p) \/ DomainsNotReleased(p) \/ RetireRefused(p)
             \/ WriteMarker(p) \/ FinishPurge(p) \/ Kill(p)
    <2>1. CASE PrepareFails(p) \/ ComposeRejected(p) \/ NginxRefused(p) \/ ClearMarker(p)
      BY <1>2, <2>1 DEF PrepareFails, ComposeRejected, NginxRefused, ClearMarker
    <2>2. CASE FailDeployment(p) \/ RetireRefused(p) \/ WriteMarker(p)
      BY <1>2, <2>2 DEF FailDeployment, RetireRefused, WriteMarker
    <2>3. CASE FinishPurge(p) \/ Kill(p)
      BY <1>2, <2>3 DEF FinishPurge, Kill
    <2>4. CASE DomainsNotReleased(p)
      <3>1. Leave(p)
        BY <2>4 DEF DomainsNotReleased
      <3> QED
        BY <1>2, <3>1
    <2> QED
      BY <1>6, <2>1, <2>2, <2>3, <2>4
  <1>7. CASE PreMigrationBackup(p) \/ RunMigration(p) \/ HealthcheckRunning(p)
             \/ StartRelease(p) \/ Activate(p) \/ Commit(p) \/ Settle(p)
    <2>1. op[p].pc \in Executing
      BY <1>7 DEF PreMigrationBackup, RunMigration, HealthcheckRunning, StartRelease, Activate,
                  Commit, Settle, At, Executing
    <2>2. Leave(p) \/ \E pc \in PC : Goto(p, pc)
      BY <1>7 DEF PreMigrationBackup, RunMigration, HealthcheckRunning, StartRelease, Activate,
                  Commit, Settle, PC
    <2> QED
      BY <1>2, <1>3, <2>1, <2>2
  <1>8. CASE PrepareNginx(p)
    <2>1. PICK pc : op' = [op EXCEPT ![p].pc = pc, ![p].frag = nginx.frag, ![p].owner = nginx.owner]
      BY <1>8 DEF PrepareNginx
    <2>2. op'[p].rel = op[p].rel /\ \A q \in Proc \ {p} : op'[q] = op[q]
      BY <1>0, <2>1 DEF Operation
    <2>3. op[p].pc \in Executing
      BY <1>8 DEF PrepareNginx, At, Executing
    <2> QED
      BY <2>2, <2>3 DEF Executes
  <1>9. CASE StageActivation(p) \/ RestorePrevious(p) \/ RollbackNginx(p)
    <2>1. op[p].pc \in Executing
      BY <1>9 DEF StageActivation, RestorePrevious, RollbackNginx, At, Executing
    <2>2. \/ \E pc \in PC : Goto(p, pc)
          \/ op' = [op EXCEPT ![p].pc = "start", ![p].staged = TRUE]
          \/ op' = [op EXCEPT ![p].pc = "unstage", ![p].clean = FALSE]
          \/ op' = [op EXCEPT ![p].pc = "settle", ![p].restored = TRUE]
          \/ op' = [op EXCEPT ![p].pc = "settle", ![p].clean = FALSE]
      BY <1>9 DEF StageActivation, RestorePrevious, RollbackNginx, PC
    <2>3. (\E pc \in PC : Goto(p, pc))
            \/ (op'[p].rel = op[p].rel /\ \A q \in Proc \ {p} : op'[q] = op[q])
      BY <1>0, <2>2 DEF Operation
    <2> QED
      BY <1>3, <2>1, <2>3 DEF Executes
  <1> QED
    BY <1>1, <1>5, <1>6, <1>7, <1>8, <1>9 DEF Step

-----------------------------------------------------------------------------
(* Preservation *)

(* The others do not execute while p works; p has executed before, or does not now. *)
LEMMA KeepsNewest ==
  ASSUME IInv, HInv, NEW p \in Proc, Executes(p), Ordered',
         Working(p) \/ ledger' = ledger,
         Records(ledger') \subseteq Records(ledger),
         \A r \in Release : ledger'[r].status \notin {"none", "purged"} =>
                              ledger'[r].created = ledger[r].created,
         op'[p].pc \in Executing => op[p].rel \in Records(ledger')
  PROVE  HInv'
  <1>1. ASSUME NEW q \in Proc \ {p} PROVE Newest(q)'
    <2>1. op'[q] = op[q] /\ Newest(q)
      BY DEF Executes, HInv
    <2>2. CASE Working(p)
      <3>1. op'[q].pc \notin Executing
        BY <2>1, <2>2 DEF IInv, Exclusive, Working, Executing
      <3> QED
        BY <3>1 DEF Newest
    <2>3. CASE ledger' = ledger
      BY <2>1, <2>3 DEF Newest
    <2> QED
      BY <2>2, <2>3
  <1>2. Newest(p)'
    <2> SUFFICES ASSUME op'[p].pc \in Executing, NEW q \in Records(ledger')
                 PROVE  ledger'[q].created <= ledger'[op'[p].rel].created
      BY DEF Newest
    <2>1. op[p].pc \in Executing /\ op'[p].rel = op[p].rel
      BY DEF Executes
    <2>2. ledger[q].created <= ledger[op[p].rel].created
      BY <2>1 DEF HInv, Newest
    <2>3. ledger'[q].created = ledger[q].created
      BY DEF Records
    <2>4. ledger'[op[p].rel].created = ledger[op[p].rel].created
      BY DEF Records
    <2> QED
      BY <2>1, <2>2, <2>3, <2>4
  <1> QED
    BY <1>1, <1>2 DEF HInv

LEMMA KeptLedger ==
  ASSUME IInv, HInv, NEW p \in Proc, Executes(p), ledger' = ledger
  PROVE  HInv'
  <1>1. Ordered'
    BY DEF HInv, Ordered
  <1>2. op[p].pc \in Executing => op[p].rel \in Records(ledger)
    BY DEF IInv, Informed, Executing, Records
  <1> QED
    BY <1>1, <1>2, KeepsNewest DEF Executes

(* What an update of its status leaves of p's record. *)
LEMMA UpdateKeeps ==
  ASSUME IInv, NEW p \in Proc, op[p].pc \in Executing,
         NEW status \in {"deploying", "deployed", "failed", "rolled_back"},
         NEW migration \in Migration, NEW health \in Health,
         UpdateReleaseState(p, status, migration, health),
         NEW c \in Release, c = op[p].rel
  PROVE  /\ ledger'[c].status = status /\ ledger'[c].created = ledger[c].created
         /\ ledger'[c].updated = clock /\ ledger'[c].health = health
         /\ ledger[c].status \in {"prepared", "deploying"}
         /\ \A r \in Release \ {c} : ledger'[r] = ledger[r]
         /\ Records(ledger') = Records(ledger) /\ c \in Records(ledger)
  <1>1. ledger \in [Release -> Record] /\ ledger[c] \in Record
    BY DEF IInv, TypeOK, Ledger
  <1>2. /\ ledger'[c].created = ledger[c].created
        /\ ledger'[c].updated = clock /\ ledger'[c].health = health
    BY <1>1 DEF UpdateReleaseState, Record
  <1>3. /\ ledger'[c].status = status /\ ledger[c].status \in {"prepared", "deploying"}
        /\ \A r \in Release \ {c} : ledger'[r] = ledger[r]
    BY ExecutingUpdate
  <1>4. Records(ledger') = Records(ledger) /\ c \in Records(ledger)
    BY <1>3 DEF Records
  <1> QED
    BY <1>2, <1>3, <1>4

LEMMA UpdateOrdered ==
  ASSUME IInv, HInv, NEW p \in Proc, Executes(p), op[p].pc \in Executing,
         NEW status \in {"deploying", "deployed", "failed", "rolled_back"},
         NEW migration \in Migration, NEW health \in Health,
         UpdateReleaseState(p, status, migration, health),
         status = "deployed" => health = "succeeded"
  PROVE  HInv'
  <1>1. PICK c \in Release : c = op[p].rel
    BY DEF IInv, Informed
  <1>2. /\ ledger'[c].status = status /\ ledger'[c].created = ledger[c].created
        /\ ledger'[c].updated = clock /\ ledger'[c].health = health
        /\ ledger[c].status \in {"prepared", "deploying"}
        /\ \A r \in Release \ {c} : ledger'[r] = ledger[r]
        /\ Records(ledger') = Records(ledger) /\ c \in Records(ledger)
    BY <1>1, UpdateKeeps
  <1>3. \A r \in Release : ledger'[r].created = ledger[r].created
    BY <1>2
  <1>4. \A q \in Records(ledger) : ledger[q].created <= ledger[c].created
    BY <1>1 DEF HInv, Newest
  <1>5. \A r \in Release : ledger[r].updated < clock /\ ledger[r].created \in Nat
                           /\ ledger[r].updated \in Nat /\ clock \in Nat
    BY DEF IInv, Stamped, TypeOK, Ledger, Record
  <1>6. \A r \in InStatus(ledger', "deployed") \ {c} :
          r \in InStatus(ledger, "deployed") /\ r \in Records(ledger) /\ ledger'[r] = ledger[r]
    BY <1>2 DEF InStatus, Records
  <1>7. Ordered'
    <2>1. \A r, q \in Records(ledger') : ledger'[r].created = ledger'[q].created => r = q
      BY <1>2, <1>3 DEF HInv, Ordered, Records
    <2>2. ASSUME NEW r \in InStatus(ledger', "deployed"), NEW q \in InStatus(ledger', "deployed"),
                 ledger'[r].created < ledger'[q].created
          PROVE  ledger'[r].updated < ledger'[q].updated
      <3>0. r \in Release /\ q \in Release
        BY DEF InStatus
      <3>1. CASE r = c
        <4>1. q # c
          BY <1>5, <2>2, <3>0, <3>1, <1>3
        <4>2. ledger[q].created <= ledger[c].created /\ ledger[c].created < ledger[q].created
          BY <1>3, <1>4, <1>6, <2>2, <3>0, <3>1, <4>1
        <4> QED
          BY <1>5, <3>0, <4>2
      <3>2. CASE r # c /\ q = c
        BY <1>2, <1>5, <1>6, <3>0, <3>2
      <3>3. CASE r # c /\ q # c
        BY <1>6, <2>2, <3>3 DEF HInv, Ordered
      <3> QED
        BY <3>1, <3>2, <3>3
    <2>3. \A r \in InStatus(ledger', "deployed") : ledger'[r].health = "succeeded"
      <3>1. c \in InStatus(ledger', "deployed") => status = "deployed"
        BY <1>2 DEF InStatus
      <3> QED
        BY <1>2, <1>6, <3>1 DEF HInv, Ordered
    <2> QED
      BY <2>1, <2>2, <2>3 DEF Ordered
  <1>8. Working(p)
    BY DEF Working, Executing
  <1> QED
    BY <1>1, <1>2, <1>3, <1>7, <1>8, KeepsNewest

LEMMA RecordOrdered ==
  ASSUME IInv, HInv, NEW p \in Proc, WriteReleaseRecord(p)
  PROVE  HInv'
  <1>1. PICK c \in Release : c = op[p].rel
    BY NewRecord
  <1>2. /\ ledger[c].status = "none" /\ ledger'[c].status = "prepared"
        /\ ledger'[c].created = clock
        /\ \A r \in Release \ {c} : ledger'[r] = ledger[r]
    BY <1>1, NewRecord DEF IInv, TypeOK, Ledger
  <1>3. Records(ledger') = Records(ledger) \cup {c}
    BY <1>2 DEF Records
  <1>4. \A r \in Release : ledger[r].created < clock /\ ledger[r].created \in Nat /\ clock \in Nat
    BY DEF IInv, Stamped, TypeOK, Ledger, Record
  <1>5. \A r \in Records(ledger) : r \in Release /\ r # c /\ ledger'[r] = ledger[r]
    BY <1>2 DEF Records
  <1>6. InStatus(ledger', "deployed") = InStatus(ledger, "deployed")
        /\ \A r \in InStatus(ledger, "deployed") : ledger'[r] = ledger[r]
    BY <1>2 DEF InStatus
  <1>7. Ordered'
    <2>1. ASSUME NEW r \in Records(ledger'), NEW q \in Records(ledger'),
                 ledger'[r].created = ledger'[q].created
          PROVE  r = q
      <3>1. CASE r = c /\ q # c
        BY <1>2, <1>3, <1>4, <1>5, <2>1, <3>1
      <3>2. CASE r # c /\ q = c
        BY <1>2, <1>3, <1>4, <1>5, <2>1, <3>2
      <3>3. CASE r # c /\ q # c
        BY <1>3, <1>5, <2>1, <3>3 DEF HInv, Ordered
      <3> QED
        BY <3>1, <3>2, <3>3
    <2> QED
      BY <1>6, <2>1 DEF HInv, Ordered
  <1>9. /\ op'[p].rel = c /\ op'[p].pc = "validate" /\ \A q \in Proc \ {p} : op'[q] = op[q]
    BY <1>1, GotoAdvances DEF WriteReleaseRecord, IInv, PC, Advances
  <1>10. Newest(p)'
    <2> SUFFICES ASSUME NEW q \in Records(ledger')
                 PROVE  ledger'[q].created <= ledger'[c].created
      BY <1>9 DEF Newest
    <2> QED
      BY <1>2, <1>3, <1>4, <1>5
  <1>11. \A q \in Proc \ {p} : op'[q].pc \notin Executing
    BY <1>9 DEF WriteReleaseRecord, At, IInv, Exclusive, Executing
  <1> QED
    BY <1>7, <1>10, <1>11 DEF HInv, Newest

LEMMA ForgetOrdered ==
  ASSUME IInv, HInv, NEW p \in Proc, Executes(p), op[p].pc \in {"purge_ledger", "purge_rest"},
         NEW gone \in SUBSET Records(ledger), ledger' = Without(ledger, gone)
  PROVE  HInv'
  <1>1. \A r \in Release : ledger'[r] = IF r \in gone THEN PurgedRecord ELSE ledger[r]
    BY DEF Without
  <1>2. PurgedRecord.status = "purged"
    BY DEF PurgedRecord, NoRecord
  <1>3. \A r \in Records(ledger') : r \in Records(ledger) /\ ledger'[r] = ledger[r]
    BY <1>1, <1>2 DEF Records
  <1>4. \A r \in InStatus(ledger', "deployed") :
          r \in InStatus(ledger, "deployed") /\ ledger'[r] = ledger[r]
    BY <1>1, <1>2 DEF InStatus
  <1>5. Ordered'
    BY <1>3, <1>4 DEF HInv, Ordered
  <1>6. Working(p) /\ op'[p].pc \notin Executing
    BY DEF Working, Executes, Executing
  <1> QED
    BY <1>1, <1>2, <1>3, <1>5, <1>6, KeepsNewest

LEMMA InitOrdered == Init => HInv
  <1> SUFFICES ASSUME Init PROVE HInv
    OBVIOUS
  <1>1. Records(ledger) = {} /\ InStatus(ledger, "deployed") = {}
    BY DEF Init, Records, InStatus, NoRecord
  <1>2. \A p \in Proc : op[p].pc \notin Executing
    BY DEF Init, Idle, Executing
  <1> QED
    BY <1>1, <1>2 DEF HInv, Ordered, Newest

LEMMA NextOrdered == IInv /\ HInv /\ [Next]_vars => HInv'
  <1> SUFFICES ASSUME IInv, HInv, [Next]_vars PROVE HInv'
    OBVIOUS
  <1>1. ASSUME NEW p \in Proc, Step(p)
        PROVE  HInv'
    <2>1. CASE WriteReleaseRecord(p)
      BY <2>1, RecordOrdered
    <2> SUFFICES ASSUME ~WriteReleaseRecord(p) PROVE HInv'
      BY <2>1
    <2>2. Executes(p)
      BY <1>1, StepExecutes
    <2>3. CASE ledger' = ledger
      BY <2>2, <2>3, KeptLedger
    <2>4. CASE RemoveLedger(p) \/ FinishPurge(p)
      <3>1. PICK gone \in SUBSET Records(ledger) : ledger' = Without(ledger, gone)
        BY <2>4 DEF RemoveLedger, FinishPurge
      <3>2. op[p].pc \in {"purge_ledger", "purge_rest"}
        BY <2>4 DEF RemoveLedger, FinishPurge, At
      <3> QED
        BY <2>2, <3>1, <3>2, ForgetOrdered
    <2>5. CASE ComposeRejected(p) \/ PrepareNginx(p) \/ PreMigrationBackup(p) \/ RunMigration(p)
               \/ HealthcheckRunning(p) \/ Commit(p) \/ Settle(p)
      <3>1. op[p].pc \in Executing
        BY <2>5 DEF ComposeRejected, PrepareNginx, PreMigrationBackup, RunMigration,
                    HealthcheckRunning, Commit, Settle, At, Executing
      <3>2. /\ MigrationOf(p) \in Migration /\ HealthOf(p) \in Health
            /\ {"running", "succeeded", "failed"} \subseteq Migration
            /\ {"running", "failed", "succeeded"} \subseteq Health
            /\ Verdict(p) \in {"failed", "rolled_back"}
        BY <3>1, CandidateFields DEF Migration, Health, Verdict
      <3>3. PICK status \in {"deploying", "deployed", "failed", "rolled_back"},
                 m \in Migration, h \in Health :
              /\ UpdateReleaseState(p, status, m, h)
              /\ status = "deployed" => h = "succeeded"
        BY <2>5, <3>2 DEF ComposeRejected, PrepareNginx, PreMigrationBackup, RunMigration,
                          HealthcheckRunning, Commit, Settle
      <3> QED
        BY <2>2, <3>1, <3>3, UpdateOrdered
    <2>6. CASE (\E t \in Tag : BeginDeploy(p, t)) \/ BeginRollback(p)
      BY <2>3, <2>6 DEF BeginDeploy, BeginRollback, ledgerVars
    <2>7. CASE Materialise(p) \/ InjectDatabase(p) \/ PrepareFails(p) \/ MaterialiseCurrent(p)
               \/ InjectCurrent(p) \/ NginxRefused(p) \/ StageActivation(p) \/ StartRelease(p)
      BY <2>3, <2>7 DEF Materialise, InjectDatabase, PrepareFails, MaterialiseCurrent,
                   InjectCurrent, NginxRefused, StageActivation, StartRelease, ledgerVars
    <2>8. CASE Activate(p) \/ RollbackNginx(p)
      <3>1. CASE Activate(p)
        BY <2>3, <3>1 DEF Activate, ledgerVars
      <3>2. CASE RollbackNginx(p)
        BY <2>3, <3>2 DEF RollbackNginx, ledgerVars
      <3> QED
        BY <2>8, <3>1, <3>2
    <2>9. CASE \/ ReleaseNginx(p) \/ Retain(p) \/ ClearMarker(p) \/ RestorePrevious(p)
               \/ FailDeployment(p) \/ BeginRetire(p) \/ StopContainers(p)
      BY <2>3, <2>9 DEF ReleaseNginx, Retain, ClearMarker, RestorePrevious, FailDeployment,
                   BeginRetire, StopContainers, ledgerVars
    <2>10. CASE \/ ReleaseDomains(p) \/ DomainsNotReleased(p) \/ RetireRefused(p) \/ WriteMarker(p)
                \/ ConfirmPurge(p) \/ LockPurge(p) \/ DestroyContainers(p) \/ RemoveTrees(p)
                \/ Kill(p)
      BY <2>3, <2>10 DEF ReleaseDomains, DomainsNotReleased, RetireRefused, WriteMarker,
                   ConfirmPurge, LockPurge, DestroyContainers, RemoveTrees, Kill, ledgerVars
    <2> QED
      BY <1>1, <2>1, <2>4, <2>5, <2>6, <2>7, <2>8, <2>9, <2>10 DEF Step
  <1>2. CASE Reconcile \/ BootRecovery
    BY <1>2 DEF Reconcile, BootRecovery, ledgerVars, HInv, Ordered, Newest
  <1>3. CASE Reboot
    BY <1>3 DEF Reboot, ledgerVars, HInv, Ordered, Newest, Idle, Executing
  <1>4. CASE UNCHANGED vars
    BY <1>4 DEF vars, HInv, Ordered, Newest
  <1> QED
    BY <1>1, <1>2, <1>3, <1>4 DEF Next

-----------------------------------------------------------------------------
(* The two selections *)

(* The current release is the one created last. *)
LEMMA CurrentIsNewest ==
  ASSUME IInv, HInv, NEW c, c = FindLatestDeployed(ledger), c # None
  PROVE  /\ c \in InStatus(ledger, "deployed")
         /\ \A q \in InStatus(ledger, "deployed") : ledger[q].created <= ledger[c].created
  <1>1. /\ c \in InStatus(ledger, "deployed")
        /\ \A q \in InStatus(ledger, "deployed") : ledger[q].updated <= ledger[c].updated
    BY LatestDeployed
  <1>2. ASSUME NEW q \in InStatus(ledger, "deployed")
        PROVE  ledger[q].created <= ledger[c].created
    <2>1. /\ ledger[q].created \in Nat /\ ledger[c].created \in Nat
          /\ ledger[q].updated \in Nat /\ ledger[c].updated \in Nat
      BY <1>1 DEF IInv, TypeOK, Ledger, Record, InStatus
    <2>2. ledger[c].created < ledger[q].created => ledger[c].updated < ledger[q].updated
      BY <1>1 DEF HInv, Ordered
    <2>3. ledger[q].updated <= ledger[c].updated
      BY <1>1
    <2> QED
      BY <2>1, <2>2, <2>3
  <1> QED
    BY <1>1, <1>2

(* The successes an application tag stands for. *)
Carrying(t) == {r \in Succeeded(ledger) : ledger[r].tag = t /\ ledger[r].target = None}

LEMMA NewestCarrying ==
  ASSUME IInv, NEW t, Carrying(t) # {}
  PROVE  /\ Last(CreatedAt(ledger, Carrying(t))) \in Carrying(t)
         /\ \A q \in Carrying(t) :
              ledger[q].created <= ledger[Last(CreatedAt(ledger, Carrying(t)))].created
  <1> DEFINE S == Carrying(t)
             stamp == CreatedAt(ledger, S)
  <1>1. S \in SUBSET Records(ledger)
    BY DEF Carrying, Succeeded, InStatus, Records
  <1>2. HasLatest(stamp)
    BY <1>1 DEF IInv, Stamped
  <1>3. DOMAIN stamp = S /\ \A q \in S : stamp[q] = ledger[q].created
    BY DEF CreatedAt
  <1> HIDE DEF S, stamp
  <1>4. Last(stamp) \in S /\ \A q \in S : stamp[q] <= stamp[Last(stamp)]
    BY <1>2, <1>3, LastIsMember DEF S
  <1>5. \A q \in S : ledger[q].created <= ledger[Last(stamp)].created
    BY <1>3, <1>4
  <1> QED
    BY <1>4, <1>5 DEF S, stamp

LEMMA SelectionsAgree ==
  ASSUME IInv, HInv, Tag \cap Release = {},
         NEW c, c = FindLatestDeployed(ledger), c # None
  PROVE  EligibleTargets(ledger) = RollbackTargets(ledger) \ {None, c}
  <1>1. /\ c \in InStatus(ledger, "deployed")
        /\ \A q \in InStatus(ledger, "deployed") : ledger[q].created <= ledger[c].created
    BY CurrentIsNewest
  <1>2. \A r \in Succeeded(ledger) :
          /\ r \in InStatus(ledger, "deployed") /\ r \in Records(ledger) /\ r \in Release
          /\ ledger[r].tag \in Tag /\ ledger[r].created \in Nat /\ r # None
    BY LedgerAssumption
       DEF Succeeded, InStatus, Records, IInv, Stamped, TypeOK, Ledger, Record
  <1>3. c \in Succeeded(ledger)
    BY <1>1 DEF HInv, Ordered, Succeeded
  <1>4. \A r, q \in Succeeded(ledger) : ledger[r].created = ledger[q].created => r = q
    BY <1>2 DEF HInv, Ordered
  <1>5. \A r, q \in Succeeded(ledger) :
          ReleaseTag(ledger, r) = ReleaseTag(ledger, q) <=>
            \/ r = q
            \/ /\ ledger[r].target = None /\ ledger[q].target = None
               /\ ledger[r].tag = ledger[q].tag
    BY <1>2 DEF ReleaseTag
  <1>6. \A r : r \in EligibleTargets(ledger) <=>
          /\ r \in Succeeded(ledger) /\ ReleaseTag(ledger, r) # ReleaseTag(ledger, c)
          /\ \A q \in Succeeded(ledger) :
               ReleaseTag(ledger, q) = ReleaseTag(ledger, r) => ledger[q].created <= ledger[r].created
    BY DEF EligibleTargets
  <1>7. \A r : r \in RollbackTargets(ledger) <=>
          \/ \E t \in Tag : r = Last(CreatedAt(ledger, Carrying(t)))
          \/ r \in Succeeded(ledger) /\ ledger[r].target # None
    BY DEF RollbackTargets, Carrying
  <1>8. ASSUME NEW r \in EligibleTargets(ledger)
        PROVE  r \in RollbackTargets(ledger) \ {None, c}
    <2>1. r \in Succeeded(ledger) /\ r # c /\ r # None
      BY <1>2, <1>6
    <2>2. CASE ledger[r].target # None
      BY <1>7, <2>1, <2>2
    <2>3. CASE ledger[r].target = None
      <3>1. PICK t \in Tag : t = ledger[r].tag
        BY <1>2, <2>1
      <3>2. r \in Carrying(t)
        BY <2>1, <2>3, <3>1 DEF Carrying
      <3>3. PICK n : n = Last(CreatedAt(ledger, Carrying(t)))
        OBVIOUS
      <3>4. n \in Carrying(t) /\ ledger[r].created <= ledger[n].created
        BY <3>2, <3>3, NewestCarrying
      <3>5. n \in Succeeded(ledger) /\ ReleaseTag(ledger, n) = ReleaseTag(ledger, r)
        BY <2>3, <3>1, <3>4 DEF Carrying, ReleaseTag
      <3>6. ledger[n].created <= ledger[r].created
        BY <1>6, <3>5
      <3>7. n = r
        BY <1>2, <1>4, <2>1, <3>4, <3>5, <3>6
      <3> QED
        BY <1>7, <2>1, <3>3, <3>7
    <2> QED
      BY <2>2, <2>3
  <1>9. ASSUME NEW r \in RollbackTargets(ledger) \ {None, c}
        PROVE  r \in EligibleTargets(ledger)
    <2>1. CASE r \in Succeeded(ledger) /\ ledger[r].target # None
      <3>1. \A q \in Succeeded(ledger) : ReleaseTag(ledger, q) = ReleaseTag(ledger, r) => q = r
        BY <1>5, <2>1
      <3>2. \A q \in Succeeded(ledger) :
              ReleaseTag(ledger, q) = ReleaseTag(ledger, r) => ledger[q].created <= ledger[r].created
        BY <1>2, <3>1
      <3> QED
        BY <1>3, <1>6, <2>1, <3>1, <3>2
    <2>2. ASSUME NEW t \in Tag, r = Last(CreatedAt(ledger, Carrying(t)))
          PROVE  r \in EligibleTargets(ledger)
      <3>1. Carrying(t) # {}
        <4>1. Carrying(t) = {} => DOMAIN CreatedAt(ledger, Carrying(t)) = {}
          BY DEF CreatedAt
        <4>2. DOMAIN CreatedAt(ledger, Carrying(t)) = {} =>
                Last(CreatedAt(ledger, Carrying(t))) = None
          BY DEF Last
        <4> QED
          BY <2>2, <4>1, <4>2
      <3>2. r \in Carrying(t) /\ \A q \in Carrying(t) : ledger[q].created <= ledger[r].created
        BY <2>2, <3>1, NewestCarrying
      <3>3. r \in Succeeded(ledger) /\ ledger[r].tag = t /\ ledger[r].target = None
        BY <3>2 DEF Carrying
      <3>4. \A q \in Succeeded(ledger) :
              ReleaseTag(ledger, q) = ReleaseTag(ledger, r) => q \in Carrying(t)
        BY <1>5, <3>3 DEF Carrying
      <3>5. ReleaseTag(ledger, r) # ReleaseTag(ledger, c)
        <4> SUFFICES ASSUME ReleaseTag(ledger, c) = ReleaseTag(ledger, r) PROVE FALSE
          OBVIOUS
        <4>1. ledger[c].created <= ledger[r].created
          BY <1>3, <3>2, <3>4
        <4>2. ledger[r].created <= ledger[c].created
          BY <1>1, <1>2, <3>3
        <4> QED
          BY <1>2, <1>3, <1>4, <3>3, <4>1, <4>2
      <3> QED
        BY <1>6, <3>2, <3>3, <3>4, <3>5
    <2> QED
      BY <1>7, <2>1, <2>2
  <1> QED
    BY <1>8, <1>9

-----------------------------------------------------------------------------
(* The theorems *)

(* Deployed releases are committed in the order in which their records were created. *)
THEOREM HistoryIsOrdered == Spec => []Ordered
  <1>1. Spec => [](IInv /\ HInv)
    BY Invariance, InitOrdered, NextOrdered, PTL DEF Spec
  <1>2. HInv => Ordered
    BY DEF HInv
  <1> QED
    BY <1>1, <1>2, PTL

(* operator/rollback.py and _select_rollback_target agree on every ledger the commands  *)
(* can make, if no application tag is the tag of a rollback: those are named after the  *)
(* random id of their own record.                                                       *)
THEOREM OffersAreAccepted ==
  ASSUME Tag \cap Release = {}
  PROVE  Spec => []OfferedIsAccepted
  <1>1. Spec => [](IInv /\ HInv)
    BY Invariance, InitOrdered, NextOrdered, PTL DEF Spec
  <1>2. IInv /\ HInv => OfferedIsAccepted
    <2> SUFFICES ASSUME IInv, HInv PROVE OfferedIsAccepted
      OBVIOUS
    <2>1. CASE FindLatestDeployed(ledger) = None
      <3>1. InStatus(ledger, "deployed") = {}
        <4> DEFINE D == InStatus(ledger, "deployed")
        <4>1. DOMAIN UpdatedAt(ledger, D) = D
          BY DEF UpdatedAt
        <4>2. HasLatest(UpdatedAt(ledger, D))
          BY DEF IInv, Stamped, InStatus, Records
        <4>3. D # {} => FindLatestDeployed(ledger) \in D
          BY <4>1, <4>2, LastIsMember DEF FindLatestDeployed
        <4>4. None \notin D
          BY LedgerAssumption DEF InStatus
        <4> QED
          BY <2>1, <4>3, <4>4
      <3>2. EligibleTargets(ledger) = {}
        BY <3>1 DEF EligibleTargets, Succeeded
      <3> QED
        BY <2>1, <3>2 DEF OfferedIsAccepted, Offered
    <2>2. CASE FindLatestDeployed(ledger) # None
      <3>1. EligibleTargets(ledger) = RollbackTargets(ledger) \ {None, FindLatestDeployed(ledger)}
        BY <2>2, SelectionsAgree
      <3> QED
        BY <2>2, <3>1 DEF OfferedIsAccepted, Offered
    <2> QED
      BY <2>1, <2>2
  <1> QED
    BY <1>1, <1>2, PTL

=============================================================================
