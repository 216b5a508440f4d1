--------------------------- MODULE ConsoleProofs ---------------------------
(***************************************************************************)
(* Theorems about what the operator's console does to a running host, for  *)
(* any number of operators: its restores (ConsoleRestore), and the logins  *)
(* to a database it opens and closes (DatabaseSessions).  The two have no  *)
(* state in common, and each theorem is about one of them.                 *)
(***************************************************************************)
EXTENDS ConsoleRestore, DatabaseSessions, FiniteSetTheorems, WellFoundedInduction, TLAPS

-----------------------------------------------------------------------------
(* Stamps *)

(* The least of a set of stamps is one of them. *)
LEMMA LeastStamp ==
  ASSUME NEW S \in SUBSET Nat, S # {}
  PROVE  Min(S) \in S
  <1>1. PICK x \in S : \A y \in S : ~(<<y, x>> \in OpToRel(<, Nat))
    BY NatLessThanWellFounded, WFMin
  <1>2. \A y \in Nat : y < x => <<y, x>> \in OpToRel(<, Nat)
    BY DEF OpToRel
  <1>3. \A y \in S : ~(y < x)
    BY <1>1, <1>2, Zenon
  <1>4. \A y \in S : x <= y
    BY <1>3
  <1> QED BY <1>4 DEF Min

LEMMA StampsAreFinite ==
  /\ Stamp \subseteq Nat
  /\ \A S \in SUBSET Stamp : IsFiniteSet(S) /\ Cardinality(S) \in Nat
  <1>1. Stamp \subseteq Nat
    BY ConsoleAssumption DEF Stamp
  <1>2. IsFiniteSet(Stamp)
    BY FS_Interval, ConsoleAssumption DEF Stamp
  <1>3. \A S \in SUBSET Stamp : IsFiniteSet(S)
    BY <1>2, FS_Subset
  <1> QED BY <1>1, <1>3, FS_CardinalityType

LEMMA NewStamp ==
  ASSUME Later # {}
  PROVE  Min(Later) \in Own /\ Min(Later) > now
  BY LeastStamp, StampsAreFinite DEF Later, Own

-----------------------------------------------------------------------------
(* The restores: the inductive invariant *)

HostTypeOK ==
  /\ now \in 0..MaxStamp
  /\ retain \in Depths
  /\ disk \in [Stamp -> Content]
  /\ bucket \in [Stamp -> Content]
  /\ proof \in Stamp \cup {Nothing}

(* The clock of the host is ahead of every dump it has, and no proof names what does not *)
(* restore.                                                                              *)
HostHolds ==
  /\ \A s \in Stamp : disk[s] # "absent" \/ bucket[s] # "absent" => s <= now
  /\ proof \notin Bad

(* What an operator has come to rely on, whenever the host answered. *)
Founded(x) ==
  /\ x.proven \notin Bad
  /\ x.pc \in {"safety", "confirm"} => x.chosen \in Stamp \ Bad
  /\ x.pc \in {"fetch", "prove"} => x.chosen \in Stamp
  /\ x.pc \in {"copy", "import"} => x.chosen \in Foreign

WayStands(x, d) == x.way # Nothing => \E s \in Own : s >= x.way /\ d[s] = "whole"

RestoreInv ==
  /\ ConsoleTypeOK /\ HostHolds
  /\ \A c \in Operator : Founded(desk[c]) /\ WayStands(desk[c], disk)

-----------------------------------------------------------------------------
(* Commands of the host: each keeps what is whole, or leaves a whole dump that is newer.  *)

HostGoesOn ==
  /\ HostTypeOK' /\ HostHolds'
  /\ \/ \A s \in Stamp : disk[s] = "whole" => disk'[s] = "whole"
     \/ now' \in Own /\ now' > now /\ disk'[now'] = "whole"

LEMMA HostTyped == ConsoleTypeOK <=> HostTypeOK /\ desk \in [Operator -> Dialogue]
  BY DEF ConsoleTypeOK, HostTypeOK

LEMMA Unmoved == ASSUME RestoreInv, UNCHANGED hostVars PROVE HostGoesOn
  BY HostTyped DEF RestoreInv, HostGoesOn, HostTypeOK, HostHolds, hostVars

(* A new stamp is above those of the dumps there are. *)
LEMMA NewIsAbove ==
  ASSUME RestoreInv, Later # {}
  PROVE  /\ Min(Later) \in Own /\ Min(Later) \in Stamp /\ Min(Later) \in Nat
         /\ Min(Later) > now /\ now \in Nat /\ Min(Later) \in 0..MaxStamp
         /\ disk[Min(Later)] = "absent"
         /\ \A s \in Stamp : s <= now => s <= Min(Later) /\ s # Min(Later)
  <1>1. /\ Min(Later) \in Own /\ Min(Later) > now
        /\ Min(Later) \in Stamp /\ now \in Nat /\ Stamp \subseteq Nat
    BY NewStamp, StampsAreFinite, ConsoleAssumption DEF Own, RestoreInv, ConsoleTypeOK
  <1> DEFINE new == Min(Later)
  <1>2. new \in Own /\ new > now /\ new \in Stamp /\ now \in Nat /\ Stamp \subseteq Nat
    BY <1>1
  <1> HIDE DEF new
  <1>3. \A s \in Stamp : s <= now => s <= new /\ s # new
    BY <1>2
  <1>4. disk[new] = "absent"
    BY <1>2, <1>3 DEF RestoreInv, HostHolds
  <1>5. new \in 0..MaxStamp
    BY <1>2, ConsoleAssumption DEF Stamp
  <1> QED BY <1>2, <1>3, <1>4, <1>5 DEF new

(* What an upload leaves in the bucket was there or is on the host. *)
LEMMA UploadSends ==
  ASSUME bucket \in [Stamp -> Content], disk' \in [Stamp -> Content], Upload
  PROVE  /\ bucket' \in [Stamp -> Content]
         /\ \A s \in Stamp : bucket'[s] # "absent" => bucket[s] # "absent" \/ disk'[s] # "absent"
  <1>1. PICK last \in 0..MaxStamp, half \in BOOLEAN :
          bucket' = [s \in Stamp |-> IF s > last THEN bucket[s]
                                   ELSE IF s = last /\ half THEN HalfSent(s) ELSE Sent(s)]
    BY DEF Upload
  <1>2. \A s \in Stamp : Sent(s) \in Content /\ HalfSent(s) \in Content
    BY DEF Sent, HalfSent, Content
  <1>3. \A s \in Stamp : \/ bucket[s] # "absent" \/ disk'[s] # "absent"
                         \/ Sent(s) = "absent" /\ HalfSent(s) = "absent"
    BY DEF Sent, HalfSent
  <1> QED BY <1>1, <1>2, <1>3

(* A backup leaves its own dump whole, whatever retention removes. *)
LEMMA BackupGoesOn ==
  ASSUME RestoreInv, Backup
  PROVE  HostGoesOn /\ now' \in Own /\ disk'[now'] = "whole"
  <1> DEFINE new == Min(Later)
             all == Dumps \cup {new}
  <1>1. /\ new \in Own /\ new \in Stamp /\ new \in Nat /\ new > now /\ now \in Nat /\ now' = new
        /\ new \in 0..MaxStamp /\ \A s \in Stamp : s <= now => s <= new
    BY NewIsAbove DEF Backup
  <1>2. PICK gone \in SUBSET (all \ Kept(all)) :
          disk' = [s \in Stamp |-> IF s = new THEN "whole"
                                 ELSE IF s \in gone THEN "absent" ELSE disk[s]]
    BY DEF Backup
  <1>3. HostTypeOK /\ HostHolds
    BY HostTyped DEF RestoreInv
  <1> HIDE DEF new, all
  <1>4. /\ disk' \in [Stamp -> Content] /\ disk'[new] = "whole"
        /\ \A s \in Stamp : s = new \/ disk'[s] \in {"absent", disk[s]}
    BY <1>1, <1>2, <1>3 DEF HostTypeOK, Content
  <1>5. /\ bucket' \in [Stamp -> Content]
        /\ \A s \in Stamp : bucket'[s] # "absent" => bucket[s] # "absent" \/ disk'[s] # "absent"
    BY <1>3, <1>4, UploadSends DEF HostTypeOK, Backup
  <1>6. \A s \in Stamp : disk'[s] # "absent" \/ bucket'[s] # "absent" => s <= now'
    BY <1>1, <1>3, <1>4, <1>5 DEF HostHolds
  <1>7. UNCHANGED <<retain, proof>>
    BY DEF Backup
  <1> QED BY <1>1, <1>3, <1>4, <1>5, <1>6, <1>7 DEF HostGoesOn, HostTypeOK, HostHolds

LEMMA CutShortGoesOn == ASSUME RestoreInv, BackupCutShort PROVE HostGoesOn
  <1> DEFINE new == Min(Later)
  <1>1. /\ new \in Stamp /\ new \in Nat /\ new > now /\ now \in Nat /\ now' = new
        /\ new \in 0..MaxStamp /\ disk[new] = "absent" /\ \A s \in Stamp : s <= now => s <= new
    BY NewIsAbove DEF BackupCutShort
  <1>2. disk' = [disk EXCEPT ![new] = "bare"] /\ UNCHANGED <<retain, bucket, proof>>
    BY DEF BackupCutShort
  <1>3. HostTypeOK /\ HostHolds
    BY HostTyped DEF RestoreInv
  <1> HIDE DEF new
  <1>4. /\ disk' \in [Stamp -> Content]
        /\ \A s \in Stamp : s # new => disk'[s] = disk[s]
    BY <1>1, <1>2, <1>3 DEF HostTypeOK, Content
  <1>5. \A s \in Stamp : disk'[s] # "absent" \/ bucket'[s] # "absent" => s <= now'
    BY <1>1, <1>2, <1>3, <1>4 DEF HostHolds
  <1> QED BY <1>1, <1>2, <1>3, <1>4, <1>5 DEF HostGoesOn, HostTypeOK, HostHolds

(* Another content under a stamp of the past, where there was no whole dump. *)
LEMMA FilledGoesOn ==
  ASSUME RestoreInv, NEW s \in Stamp, s <= now, NEW content \in Content,
         disk[s] = "whole" => content = "whole",
         disk' = [disk EXCEPT ![s] = content], UNCHANGED <<now, retain, bucket, proof>>
  PROVE  HostGoesOn
  <1>1. HostTypeOK /\ HostHolds
    BY HostTyped DEF RestoreInv
  <1>2. /\ disk' \in [Stamp -> Content] /\ disk'[s] = content
        /\ \A t \in Stamp : t # s => disk'[t] = disk[t]
    BY <1>1 DEF HostTypeOK
  <1> QED BY <1>1, <1>2 DEF HostGoesOn, HostTypeOK, HostHolds

LEMMA NothingIsNoStamp == Nothing \notin Stamp /\ Nothing \notin Bad
  BY StampsAreFinite, ConsoleAssumption

(* What verify-backup writes down is no stamp of a dump that does not restore. *)
LEMMA VerifyGoesOn ==
  ASSUME RestoreInv, NEW s \in Stamp, NEW ok \in BOOLEAN, Verify(s, ok),
         UNCHANGED <<now, retain, disk, bucket>>
  PROVE  HostGoesOn /\ (ok => s \notin Bad)
  <1>1. HostTypeOK /\ HostHolds
    BY HostTyped DEF RestoreInv
  <1>2. /\ proof' \in Stamp \cup {Nothing} /\ proof' \notin Bad
        /\ ok => s \notin Bad
    BY <1>1, NothingIsNoStamp DEF Verify, HostTypeOK, HostHolds
  <1> QED BY <1>1, <1>2 DEF HostGoesOn, HostTypeOK, HostHolds

-----------------------------------------------------------------------------
(* The dialogue *)

LEMMA AtRestIsFounded ==
  AtRest \in Dialogue /\ Founded(AtRest) /\ AtRest.way = Nothing
  BY NothingIsNoStamp DEF AtRest, Dialogue, Stage, Founded

(* A way back stays, or a newer one is there. *)
LEMMA WayKept ==
  ASSUME RestoreInv, HostGoesOn, NEW x \in Dialogue, WayStands(x, disk)
  PROVE  WayStands(x, disk')
  <1> SUFFICES ASSUME x.way # Nothing PROVE \E s \in Own : s >= x.way /\ disk'[s] = "whole"
    BY DEF WayStands
  <1>1. PICK s \in Own : s >= x.way /\ disk[s] = "whole"
    BY DEF WayStands
  <1>2. CASE disk'[s] = "whole"
    BY <1>1, <1>2
  <1>3. CASE disk'[s] # "whole"
    <2>1. now' \in Own /\ now' > now /\ disk'[now'] = "whole"
      BY <1>1, <1>3 DEF HostGoesOn, Own
    <2>2. s \in Stamp /\ s <= now
      BY <1>1 DEF Own, RestoreInv, HostHolds
    <2>3. x.way \in Stamp
      BY DEF Dialogue
    <2>4. Stamp \subseteq Nat /\ Own \subseteq Stamp
      BY StampsAreFinite DEF Own
    <2>5. now \in Nat
      BY ConsoleAssumption DEF RestoreInv, ConsoleTypeOK
    <2>6. s \in Nat /\ x.way \in Nat /\ now' \in Nat
      BY <2>1, <2>2, <2>3, <2>4
    <2>7. now' >= x.way
      BY <1>1, <2>1, <2>2, <2>5, <2>6
    <2> QED BY <2>1, <2>7
  <1> QED BY <1>2, <1>3

(* A step of c that leaves its own record typed and founded keeps the invariant. *)
LEMMA Advanced ==
  ASSUME RestoreInv, HostGoesOn, NEW c \in Operator, NEW x \in Dialogue,
         Founded(x), WayStands(x, disk'), desk' = [desk EXCEPT ![c] = x]
  PROVE  RestoreInv'
  <1>1. /\ desk \in [Operator -> Dialogue] /\ desk' \in [Operator -> Dialogue]
        /\ desk'[c] = x /\ \A d \in Operator \ {c} : desk'[d] = desk[d]
    BY DEF RestoreInv, ConsoleTypeOK
  <1>2. ConsoleTypeOK' /\ HostHolds'
    BY <1>1 DEF HostGoesOn, ConsoleTypeOK, HostTypeOK
  <1>3. ASSUME NEW d \in Operator PROVE Founded(desk'[d]) /\ WayStands(desk'[d], disk')
    <2>1. desk[d] \in Dialogue /\ Founded(desk[d]) /\ WayStands(desk[d], disk)
      BY <1>1 DEF RestoreInv
    <2>2. WayStands(desk[d], disk')
      BY <2>1, WayKept
    <2> QED BY <1>1, <2>1, <2>2
  <1> QED BY <1>2, <1>3 DEF RestoreInv

(* Where nothing happens at the consoles, and where one is done. *)
LEMMA HostAlone ==
  ASSUME RestoreInv, HostGoesOn, UNCHANGED desk
  PROVE  RestoreInv'
  <1>1. ConsoleTypeOK' /\ HostHolds' /\ desk \in [Operator -> Dialogue]
    BY DEF HostGoesOn, ConsoleTypeOK, HostTypeOK, RestoreInv
  <1>2. ASSUME NEW d \in Operator PROVE Founded(desk[d]) /\ WayStands(desk[d], disk')
    BY <1>1, WayKept DEF RestoreInv
  <1> QED BY <1>1, <1>2 DEF RestoreInv

LEMMA FinishKeeps ==
  ASSUME RestoreInv, HostGoesOn, NEW c \in Operator, Finish(c)
  PROVE  RestoreInv'
  BY AtRestIsFounded, Advanced DEF Finish, WayStands

(* Where the host did nothing. *)
LEMMA Answered ==
  ASSUME RestoreInv, NEW c \in Operator, NEW x \in Dialogue, Founded(x),
         x.way \in {desk[c].way, Nothing},
         desk' = [desk EXCEPT ![c] = x], UNCHANGED hostVars
  PROVE  RestoreInv'
  <1>1. WayStands(x, disk')
    BY DEF RestoreInv, WayStands, hostVars
  <1> QED BY <1>1, Unmoved, Advanced

LEMMA ListKeeps ==
  ASSUME RestoreInv, NEW c \in Operator, List(c)
  PROVE  RestoreInv'
  <1> DEFINE x == [AtRest EXCEPT !.pc = "choose", !.local = Dumps,
                                 !.offsite = Remote \ Dumps, !.proven = proof]
  <1>1. x.pc = "choose" /\ x.proven = proof /\ x.way = Nothing
    BY DEF AtRest
  <1>2. x \in Dialogue
    <2>1. /\ Dumps \in SUBSET Stamp /\ Remote \ Dumps \in SUBSET Stamp
          /\ proof \in Stamp \cup {Nothing}
      BY DEF Dumps, Remote, RestoreInv, ConsoleTypeOK
    <2> QED BY <2>1, AtRestIsFounded DEF Dialogue, Stage
  <1>3. Founded(x)
    BY <1>1 DEF Founded, RestoreInv, HostHolds
  <1> QED BY <1>1, <1>2, <1>3, Answered DEF List

LEMMA ChooseKeeps ==
  ASSUME RestoreInv, NEW c \in Operator, Choose(c)
  PROVE  RestoreInv'
  <1>0. desk[c] \in Dialogue /\ Founded(desk[c])
    BY DEF RestoreInv, ConsoleTypeOK
  <1>1. PICK s \in desk[c].local \cup desk[c].offsite :
          desk' = [desk EXCEPT ![c] = [AtRest EXCEPT !.pc = StepAfter(c, s), !.chosen = s,
                                                    !.local = desk[c].local]]
    BY DEF Choose
  <1> DEFINE x == [AtRest EXCEPT !.pc = StepAfter(c, s), !.chosen = s, !.local = desk[c].local]
  <1>2. x.pc = StepAfter(c, s) /\ x.proven = Nothing /\ x.chosen = s /\ x.way = Nothing
    BY DEF AtRest
  <1>3. s \in Stamp
    BY <1>0 DEF Dialogue
  <1>4. /\ StepAfter(c, s) \in {"fetch", "safety", "prove"}
        /\ StepAfter(c, s) = "safety" => s = desk[c].proven
    BY DEF StepAfter
  <1>5. x \in Dialogue
    BY <1>0, <1>3, <1>4, AtRestIsFounded DEF Dialogue, Stage
  <1>6. Founded(x)
    BY <1>0, <1>2, <1>3, <1>4, NothingIsNoStamp DEF Founded
  <1> QED BY <1>1, <1>2, <1>5, <1>6, Answered DEF Choose

(* A download fills what is not there; what it leaves behind is proven before it is used. *)
LEMMA FetchKeeps ==
  ASSUME RestoreInv, NEW c \in Operator, Fetch(c)
  PROVE  RestoreInv'
  <1> DEFINE s == desk[c].chosen
  <1>0. /\ desk[c] \in Dialogue /\ Founded(desk[c]) /\ WayStands(desk[c], disk)
        /\ HostTypeOK /\ s \in Stamp
    BY HostTyped DEF RestoreInv, Founded, Fetch, Stands
  <1>1. UNCHANGED <<now, retain, bucket, proof>>
    BY DEF Fetch
  <1>2. CASE /\ Fetched(s) \in {"torn", "whole"}
             /\ disk' = [disk EXCEPT ![s] = Fetched(s)] /\ MoveTo(c, "prove")
    <2> DEFINE x == [desk[c] EXCEPT !.pc = "prove"]
    <2>1. /\ x \in Dialogue /\ x.pc = "prove" /\ x.chosen = s
          /\ x.proven = desk[c].proven /\ x.way = desk[c].way
      BY <1>0 DEF Dialogue, Stage
    <2>2. Founded(x)
      BY <1>0, <2>1 DEF Founded
    <2>3. desk' = [desk EXCEPT ![c] = x]
      BY <1>2 DEF MoveTo
    <2> HIDE DEF x
    <2>4. /\ Fetched(s) \in Content /\ (disk[s] = "whole" => Fetched(s) = "whole")
          /\ disk[s] # "absent" \/ bucket[s] # "absent"
      BY <1>2 DEF Fetched, Content
    <2>5. s <= now
      BY <1>0, <2>4 DEF RestoreInv, HostHolds
    <2>6. HostGoesOn
      BY <1>0, <1>1, <1>2, <2>4, <2>5, FilledGoesOn
    <2>7. WayStands(x, disk')
      BY <1>0, <2>1, <2>6, WayKept DEF WayStands
    <2> QED BY <2>1, <2>2, <2>3, <2>6, <2>7, Advanced
  <1>3. CASE UNCHANGED disk /\ Finish(c)
    BY <1>1, <1>3, Unmoved, FinishKeeps DEF hostVars
  <1>4. CASE Finish(c) /\ \E part \in HalfFetched(s) : disk' = [disk EXCEPT ![s] = part]
    <2>1. PICK part \in HalfFetched(s) : disk' = [disk EXCEPT ![s] = part]
      BY <1>4
    <2>2. /\ part \in Content /\ disk[s] # "whole"
          /\ disk[s] # "absent" \/ bucket[s] # "absent"
      BY DEF HalfFetched, Content
    <2>3. s <= now
      BY <1>0, <2>2 DEF RestoreInv, HostHolds
    <2>4. HostGoesOn
      BY <1>0, <1>1, <2>1, <2>2, <2>3, FilledGoesOn
    <2> QED BY <1>4, <2>4, FinishKeeps
  <1> QED BY <1>2, <1>3, <1>4 DEF Fetch

LEMMA ProveKeeps ==
  ASSUME RestoreInv, NEW c \in Operator, Prove(c)
  PROVE  RestoreInv'
  <1> DEFINE s == desk[c].chosen
  <1>0. desk[c] \in Dialogue /\ Founded(desk[c]) /\ WayStands(desk[c], disk)
    BY DEF RestoreInv, ConsoleTypeOK
  <1>1. UNCHANGED <<now, retain, disk, bucket>>
    BY DEF Prove
  <1>2. CASE Finish(c) /\ UNCHANGED proof
    BY <1>1, <1>2, Unmoved, FinishKeeps DEF hostVars
  <1>3. ASSUME NEW ok \in BOOLEAN, Verify(s, ok), Proven(c, ok) PROVE RestoreInv'
    <2>1. s \in Stamp
      BY <1>0 DEF Founded, Prove, Stands
    <2>2. HostGoesOn /\ (ok => s \notin Bad)
      BY <1>1, <1>3, <2>1, VerifyGoesOn
    <2>3. CASE ok
      <3> DEFINE x == [desk[c] EXCEPT !.pc = "safety"]
      <3>1. /\ x \in Dialogue /\ x.pc = "safety" /\ x.chosen = s
            /\ x.proven = desk[c].proven /\ x.way = desk[c].way
        BY <1>0 DEF Dialogue, Stage
      <3>2. Founded(x) /\ WayStands(x, disk')
        BY <1>0, <1>1, <2>1, <2>2, <2>3, <3>1 DEF Founded, WayStands
      <3>3. desk' = [desk EXCEPT ![c] = x]
        BY <1>3, <2>3 DEF Proven, MoveTo
      <3> QED BY <2>2, <3>1, <3>2, <3>3, Advanced
    <2>4. CASE ~ok
      BY <1>3, <2>2, <2>4, FinishKeeps DEF Proven
    <2> QED BY <2>3, <2>4
  <1> QED BY <1>2, <1>3 DEF Prove

LEMMA EndSteps ==
  ASSUME RestoreInv, NEW c \in Operator, SafetyFails(c) \/ Restore(c) \/ GiveUp(c)
  PROVE  RestoreInv'
  <1>1. Finish(c) /\ (Backup \/ BackupCutShort \/ UNCHANGED hostVars)
    BY DEF SafetyFails, Restore, GiveUp
  <1> QED BY <1>1, BackupGoesOn, CutShortGoesOn, Unmoved, FinishKeeps

LEMMA SafetySteps ==
  ASSUME RestoreInv, NEW c \in Operator, SkipSafety(c) \/ SafetyDump(c)
  PROVE  RestoreInv'
  <1>0. desk[c] \in Dialogue /\ Founded(desk[c]) /\ desk[c].pc = "safety"
    BY DEF RestoreInv, ConsoleTypeOK, SkipSafety, SafetyDump, Stands
  <1>1. CASE SkipSafety(c)
    <2> DEFINE x == [desk[c] EXCEPT !.pc = "confirm", !.local = {}]
    <2>1. /\ x \in Dialogue /\ x.pc = "confirm" /\ x.chosen = desk[c].chosen
          /\ x.proven = desk[c].proven /\ x.way = desk[c].way
      BY <1>0 DEF Dialogue, Stage
    <2>2. Founded(x)
      BY <1>0, <2>1 DEF Founded
    <2>3. desk' = [desk EXCEPT ![c] = x]
      BY <1>1 DEF SkipSafety
    <2> QED BY <1>1, <2>1, <2>2, <2>3, Answered DEF SkipSafety
  <1>2. CASE SafetyDump(c)
    <2>1. HostGoesOn /\ now' \in Own /\ disk'[now'] = "whole"
      BY <1>2, BackupGoesOn DEF SafetyDump
    <2>2. now' \in Stamp /\ now' \in Nat
      BY <2>1, StampsAreFinite DEF Own
    <2>3. CASE Finish(c)
      BY <2>1, <2>3, FinishKeeps
    <2>4. CASE desk' = [desk EXCEPT ![c].pc = "confirm", ![c].local = {}, ![c].way = now']
      <3> DEFINE x == [desk[c] EXCEPT !.pc = "confirm", !.local = {}, !.way = now']
      <3>1. /\ x \in Dialogue /\ x.pc = "confirm" /\ x.chosen = desk[c].chosen
            /\ x.proven = desk[c].proven /\ x.way = now'
        BY <1>0, <2>2 DEF Dialogue, Stage
      <3>2. Founded(x)
        BY <1>0, <3>1 DEF Founded
      <3>3. WayStands(x, disk')
        <4>1. now' >= now'
          BY <2>2
        <4> QED BY <2>1, <3>1, <4>1 DEF WayStands
      <3>4. desk' = [desk EXCEPT ![c] = x]
        BY <2>4
      <3> QED BY <2>1, <3>1, <3>2, <3>3, <3>4, Advanced
    <2> QED BY <1>2, <2>3, <2>4 DEF SafetyDump
  <1> QED BY <1>1, <1>2

(* A dump that is moved here has a stamp of the source host, where this host has none. *)
LEMMA MoveSteps ==
  ASSUME RestoreInv, NEW c \in Operator, ListSource(c) \/ CopyAndRekey(c) \/ Import(c)
  PROVE  RestoreInv'
  <1>0. desk[c] \in Dialogue /\ Founded(desk[c])
    BY DEF RestoreInv, ConsoleTypeOK
  <1>1. CASE ListSource(c)
    <2>1. PICK s \in Foreign : desk' = [desk EXCEPT ![c].pc = "copy", ![c].chosen = s]
      BY <1>1 DEF ListSource
    <2> DEFINE x == [desk[c] EXCEPT !.pc = "copy", !.chosen = s]
    <2>2. s \in Stamp
      BY ConsoleAssumption
    <2>3. /\ x \in Dialogue /\ x.pc = "copy" /\ x.chosen = s
          /\ x.proven = desk[c].proven /\ x.way = desk[c].way
      BY <1>0, <2>2 DEF Dialogue, Stage
    <2>4. Founded(x)
      BY <1>0, <2>3 DEF Founded
    <2>5. desk' = [desk EXCEPT ![c] = x]
      BY <2>1
    <2> QED BY <1>1, <2>3, <2>4, <2>5, Answered DEF ListSource
  <1>2. CASE CopyAndRekey(c)
    <2> DEFINE x == [desk[c] EXCEPT !.pc = "import"]
    <2>1. /\ x \in Dialogue /\ x.pc = "import" /\ x.chosen = desk[c].chosen
          /\ x.proven = desk[c].proven /\ x.way = desk[c].way
      BY <1>0 DEF Dialogue, Stage
    <2>2. Founded(x)
      BY <1>0, <1>2, <2>1 DEF Founded, CopyAndRekey, Stands
    <2>3. desk' = [desk EXCEPT ![c] = x]
      BY <1>2 DEF CopyAndRekey, MoveTo
    <2> QED BY <1>2, <2>1, <2>2, <2>3, Answered DEF CopyAndRekey
  <1>3. CASE Import(c)
    <2> DEFINE s == desk[c].chosen
    <2>1. /\ s \in Stamp /\ s \notin Dumps /\ s <= now /\ Finish(c)
          /\ UNCHANGED <<now, retain, bucket, proof>>
      BY <1>0, <1>3, ConsoleAssumption DEF Import, Founded, Stands
    <2>2. PICK content \in {"torn", "whole"} : disk' = [disk EXCEPT ![s] = content]
      BY <1>3 DEF Import
    <2>3. disk[s] = "absent"
      BY <2>1 DEF Dumps
    <2>4. HostGoesOn
      BY <2>1, <2>2, <2>3, FilledGoesOn DEF Content
    <2> QED BY <2>1, <2>4, FinishKeeps
  <1> QED BY <1>1, <1>2, <1>3

LEMMA HostSteps ==
  ASSUME RestoreInv, Timer \/ VerifyBackup \/ Deploy
  PROVE  RestoreInv'
  <1>1. CASE Timer
    BY <1>1, BackupGoesOn, CutShortGoesOn, HostAlone DEF Timer
  <1>2. CASE VerifyBackup
    <2>1. PICK s \in Dumps, ok \in BOOLEAN : Verify(s, ok)
      BY <1>2 DEF VerifyBackup
    <2>2. s \in Stamp /\ UNCHANGED <<now, retain, disk, bucket, desk>>
      BY <1>2 DEF VerifyBackup, Dumps
    <2> QED BY <2>1, <2>2, VerifyGoesOn, HostAlone
  <1>3. CASE Deploy
    <2>1. HostGoesOn /\ UNCHANGED desk
      BY <1>3, HostTyped DEF Deploy, RestoreInv, HostGoesOn, HostTypeOK, HostHolds
    <2> QED BY <2>1, HostAlone
  <1> QED BY <1>1, <1>2, <1>3

LEMMA RestoreInvInitially == ConsoleInit => RestoreInv
  <1> SUFFICES ASSUME ConsoleInit PROVE RestoreInv
    OBVIOUS
  <1>1. ConsoleTypeOK
    BY AtRestIsFounded, ConsoleAssumption DEF ConsoleInit, ConsoleTypeOK, Content
  <1>2. HostHolds
    BY NothingIsNoStamp DEF ConsoleInit, HostHolds
  <1>3. \A c \in Operator : Founded(desk[c]) /\ WayStands(desk[c], disk)
    BY AtRestIsFounded DEF ConsoleInit, WayStands
  <1> QED BY <1>1, <1>2, <1>3 DEF RestoreInv

LEMMA RestoreInvPreserved == RestoreInv /\ [ConsoleNext]_consoleVars => RestoreInv'
  <1> SUFFICES ASSUME RestoreInv, [ConsoleNext]_consoleVars PROVE RestoreInv'
    OBVIOUS
  <1>1. ASSUME NEW c \in Operator, Step(c) PROVE RestoreInv'
    BY <1>1, ListKeeps, ChooseKeeps, FetchKeeps, ProveKeeps, EndSteps, SafetySteps, MoveSteps
       DEF Step
  <1>2. CASE Timer \/ VerifyBackup \/ Deploy
    BY <1>2, HostSteps
  <1>3. CASE UNCHANGED consoleVars
    BY <1>3, Unmoved, HostAlone DEF consoleVars, hostVars
  <1> QED BY <1>1, <1>2, <1>3 DEF ConsoleNext

LEMMA RestoreInvariance == ConsoleSpec => []RestoreInv
  <1> QED BY RestoreInvInitially, RestoreInvPreserved, PTL DEF ConsoleSpec

-----------------------------------------------------------------------------
(* The theorems on restores *)

(* The state of the restores is of its type. *)
THEOREM ConsoleTypeCorrect == ConsoleSpec => []ConsoleTypeOK
  <1>1. RestoreInv => ConsoleTypeOK
    BY DEF RestoreInv
  <1> QED BY <1>1, RestoreInvariance, PTL

(* The live database is never replaced from a dump that does not restore, however stale  *)
(* the list and the proof it was chosen by, and whatever a killed download, an import or  *)
(* a backup that was cut short left under its name (restore_action, download_backup).     *)
THEOREM OnlyProvenIsRestored == ConsoleSpec => RestoresProven
  <1>1. ASSUME RestoreInv, NEW c \in Operator, Restore(c) PROVE desk[c].chosen \notin Bad
    BY <1>1 DEF Restore, Stands, RestoreInv, Founded
  <1>2. RestoreInv /\ [ConsoleNext]_consoleVars =>
          [\A c \in Operator : Restore(c) => desk[c].chosen \notin Bad]_consoleVars
    BY <1>1
  <1> QED BY <1>2, RestoreInvariance, PTL DEF ConsoleSpec, RestoresProven

(* A restore that followed a safety dump has a way back: retention never removes the     *)
(* newest dump of the host, and a later backup leaves a whole one before it removes any.  *)
THEOREM ThereIsAWayBack == ConsoleSpec => WayBackExists
  <1>1. RestoreInv /\ [ConsoleNext]_consoleVars =>
          [\A c \in Operator :
             Restore(c) /\ desk[c].way # Nothing =>
               \E s \in Own : s >= desk[c].way /\ disk[s] = "whole"]_consoleVars
    BY DEF RestoreInv, WayStands
  <1> QED BY <1>1, RestoreInvariance, PTL DEF ConsoleSpec, WayBackExists

(* One more dump pushes out what had as many newer ones as are retained, less one. *)
LEMMA OneMoreIsKept ==
  ASSUME NEW S \in SUBSET Stamp, NEW new, NEW s \in S, NEW depth \in Nat,
         ~WouldPrune(S, s, depth), depth <= retain, retain \in Nat
  PROVE  s \in Kept(S \cup {new})
  <1> DEFINE N == Newer(S, s)
  <1>1. N \in SUBSET Stamp /\ IsFiniteSet(N) /\ Cardinality(N) \in Nat
    BY StampsAreFinite DEF Newer
  <1>2. Cardinality(N) < depth - 1
    BY <1>1, ConsoleAssumption DEF WouldPrune
  <1>3. Cardinality(N \cup {new}) \in Nat /\ Cardinality(N \cup {new}) <= Cardinality(N) + 1
    <2> HIDE DEF N
    <2>1. Cardinality(N \cup {new}) = IF new \in N THEN Cardinality(N) ELSE Cardinality(N) + 1
      BY <1>1, FS_AddElement
    <2> QED BY <1>1, <2>1
  <1>4. Newer(S \cup {new}, s) \subseteq N \cup {new} /\ IsFiniteSet(N \cup {new})
    BY <1>1, FS_AddElement DEF Newer
  <1>5. /\ Cardinality(Newer(S \cup {new}, s)) \in Nat
        /\ Cardinality(Newer(S \cup {new}, s)) <= Cardinality(N \cup {new})
    BY <1>4, FS_Subset, FS_CardinalityType
  <1>6. Cardinality(Newer(S \cup {new}, s)) < retain
    BY <1>1, <1>2, <1>3, <1>5
  <1> QED BY <1>6 DEF Kept

(* The console's forecast holds: what it would not call at risk survives the safety dump, *)
(* as long as the host holds what was listed and retains no less than the console thinks. *)
THEOREM SafetyDumpIsSafe == ConsoleSpec => SafetyDumpSpares
  <1>1. ASSUME RestoreInv, NEW c \in Operator, SafetyDump(c), Dumps = OnHost(c),
               LocalRetain[c] # Nothing, LocalRetain[c] <= retain
        PROVE  desk[c].chosen \notin Removed
    <2> DEFINE s == desk[c].chosen
               new == Min(Later)
               all == Dumps \cup {new}
    <2>1. s \in Dumps /\ Dumps \in SUBSET Stamp
      BY <1>1 DEF OnHost, Dumps
    <2>2. LocalRetain[c] \in Nat /\ retain \in Nat
      BY <1>1, ConsoleAssumption DEF RestoreInv, ConsoleTypeOK
    <2>3. ~WouldPrune(Dumps, s, LocalRetain[c])
      BY <1>1 DEF SafetyDump, AtRisk
    <2>4. s \in Kept(all)
      BY <1>1, <2>1, <2>2, <2>3, OneMoreIsKept
    <2>5. PICK gone \in SUBSET (all \ Kept(all)) :
            disk' = [t \in Stamp |-> IF t = new THEN "whole"
                                    ELSE IF t \in gone THEN "absent" ELSE disk[t]]
      BY <1>1 DEF SafetyDump, Backup
    <2>6. s \in Stamp /\ disk[s] # "absent" /\ disk'[s] \in {"whole", disk[s]}
      BY <2>1, <2>4, <2>5 DEF Dumps
    <2> QED BY <2>6 DEF Removed
  <1>2. RestoreInv /\ [ConsoleNext]_consoleVars =>
          [\A c \in Operator :
             /\ SafetyDump(c)
             /\ Dumps = OnHost(c)
             /\ LocalRetain[c] # Nothing /\ LocalRetain[c] <= retain
             => desk[c].chosen \notin Removed]_consoleVars
    BY <1>1
  <1> QED BY <1>2, RestoreInvariance, PTL DEF ConsoleSpec, SafetyDumpSpares

-----------------------------------------------------------------------------
(* The logins: the inductive invariant *)

BeforeCreate == {"terminate", "drop", "dropping", "create"}
AfterCreate  == {"forward", "open", "closeTerminate", "closeDrop"}
Closing      == {"closeTerminate", "closeDrop"}

(* A name belongs to the one command that has drawn it, until its CREATE ROLE. *)
Owned ==
  /\ \A w \in Console : op[w].pc \in BeforeCreate =>
       op[w].role \in Role /\ role[op[w].role] = "unused"
  /\ \A w \in Console : op[w].pc \in AfterCreate =>
       op[w].role \in Role /\ role[op[w].role] # "unused"
  /\ \A w \in Console : op[w].pc = "idle" => op[w].role = None
  /\ \A w, v \in Console : w # v /\ op[w].pc \in BeforeCreate => op[w].role # op[v].role

(* No tunnel leads to a role before there is one, nor to one whose close is alone. *)
Tunnelled ==
  /\ \A v \in Console : tunnel[v] # None => role[tunnel[v]] # "unused"
  /\ \A w \in Console : op[w].alone =>
       op[w].pc \in Closing /\ \A v \in Console : tunnel[v] # op[w].role

(* Between the two statements of such a close nobody connects as the role. *)
Terminated ==
  \A w \in Console :
    At(w, "closeDrop") /\ op[w].alone /\ Exists(op[w].role) => op[w].role \notin backends

(* What is due in a sweep does not come back; what had expired before it is due, or gone. *)
Swept ==
  \A w \in Console :
    /\ \A r \in op[w].due \cup op[w].expiredBefore : role[r] \in {"expired", "dropped"}
    /\ At(w, "dropping") => \A r \in op[w].expiredBefore : r \in op[w].due \/ ~Exists(r)
    /\ At(w, "create") => \A r \in op[w].expiredBefore : ~Exists(r)

IInv == TypeOK /\ Owned /\ Tunnelled /\ Terminated /\ Swept

-----------------------------------------------------------------------------
(* Lemmas about the helpers *)

(* What a step makes of the record of its command is well-formed. *)
LEMMA Typed ==
  ASSUME TypeOK, NEW w \in Console
  PROVE  /\ Idle \in Operation
         /\ op[w] \in Operation
         /\ \A pc \in PC, S \in SUBSET Role :
              /\ [op[w] EXCEPT !.pc = pc] \in Operation
              /\ [op[w] EXCEPT !.due = S] \in Operation
              /\ [op[w] EXCEPT !.pc = pc, !.due = S] \in Operation
         /\ \A r \in Operation : [op EXCEPT ![w] = r] \in [Console -> Operation]
  <1>1. Idle \in Operation
    BY DEF Idle, Operation, PC
  <1>2. op[w] \in Operation
    BY DEF TypeOK
  <1>3. ASSUME NEW pc \in PC, NEW S \in SUBSET Role
        PROVE  /\ [op[w] EXCEPT !.pc = pc] \in Operation
               /\ [op[w] EXCEPT !.due = S] \in Operation
               /\ [op[w] EXCEPT !.pc = pc, !.due = S] \in Operation
    BY <1>2 DEF Operation
  <1>4. ASSUME NEW r \in Operation PROVE [op EXCEPT ![w] = r] \in [Console -> Operation]
    BY DEF TypeOK
  <1> QED BY <1>1, <1>2, <1>3, <1>4

-----------------------------------------------------------------------------
(* The steps *)

LEMMA Initially == Init => IInv
  <1> SUFFICES ASSUME Init PROVE IInv
    OBVIOUS
  <1>1. TypeOK
    BY DEF Init, TypeOK, Idle, Operation, PC
  <1>2. Owned
    BY DEF Init, Owned, Idle, BeforeCreate, AfterCreate
  <1>3. Tunnelled /\ Terminated
    BY DEF Init, Tunnelled, Terminated, Idle, Closing, At
  <1>4. Swept
    BY DEF Init, Swept, Idle, At
  <1> QED BY <1>1, <1>2, <1>3, <1>4 DEF IInv

(* The steps that end or advance a command without touching a role. *)
LEMMA Resting ==
  ASSUME IInv, NEW w \in Console,
         SweepTerminate(w) \/ SweepSelect(w) \/ SweepFails(w) \/ SweepEnds(w) \/ Fails(w)
  PROVE  IInv'
  <1> USE DEF At, Goto, Leave
  <1>0. TypeOK /\ Owned /\ Tunnelled /\ Terminated /\ Swept
    BY DEF IInv
  <1>1. /\ UNCHANGED <<role, owning, tunnel>> /\ backends' \subseteq backends
        /\ \A v \in Console \ {w} : op'[v] = op[v]
    BY <1>0 DEF SweepTerminate, SweepSelect, SweepFails, SweepEnds, Fails, TypeOK
  <1>2. TypeOK'
    <2>1. \E r \in Operation : op' = [op EXCEPT ![w] = r]
      <3>1. CASE SweepTerminate(w) \/ SweepEnds(w)
        BY <1>0, <3>1, Typed DEF SweepTerminate, SweepEnds, PC
      <3>2. CASE SweepSelect(w)
        BY <1>0, <3>2, Typed DEF SweepSelect, PC, Expired
      <3>3. CASE SweepFails(w) \/ Fails(w)
        BY <1>0, <3>3, Typed DEF SweepFails, Fails
      <3> QED BY <3>1, <3>2, <3>3
    <2>2. op' \in [Console -> Operation]
      BY <1>0, <2>1, Typed
    <2> QED BY <1>0, <1>1, <2>2 DEF TypeOK
  <1>6. \/ op'[w] = Idle
        \/ /\ op[w].pc \in BeforeCreate /\ op'[w].pc \in BeforeCreate
           /\ op'[w].role = op[w].role /\ op'[w].alone = op[w].alone
    BY <1>0 DEF SweepTerminate, SweepSelect, SweepFails, SweepEnds, Fails, TypeOK, Operation,
                BeforeCreate
  <1>7. op'[w] = Idle => op'[w].pc = "idle" /\ op'[w].role = None /\ ~op'[w].alone
    BY DEF Idle
  <1>8. ~op'[w].alone
    BY <1>0, <1>6, <1>7 DEF Tunnelled, BeforeCreate, Closing
  <1>3. Owned'
    <2>1. \A v \in Console : op'[v].role \in {op[v].role, None}
      BY <1>1, <1>6, <1>7
    <2>3. \A v \in Console : op'[v].pc \in BeforeCreate =>
            op[v].pc \in BeforeCreate /\ op'[v].role = op[v].role
      BY <1>1, <1>6, <1>7 DEF BeforeCreate
    <2>2. \A v, u \in Console : v # u /\ op'[v].pc \in BeforeCreate => op'[v].role # op'[u].role
      BY <1>0, <2>1, <2>3, SessionAssumption DEF Owned
    <2>4. \A v \in Console : op'[v].pc \in AfterCreate => v # w
      BY <1>6, <1>7 DEF BeforeCreate, AfterCreate
    <2>5. \A v \in Console : op'[v].pc = "idle" => op'[v].role = None
      BY <1>0, <1>1, <1>6, <1>7 DEF Owned, BeforeCreate
    <2> QED BY <1>0, <1>1, <2>2, <2>3, <2>4, <2>5 DEF Owned
  <1>4. Tunnelled' /\ Terminated'
    BY <1>0, <1>1, <1>8 DEF Tunnelled, Terminated, Exists
  <1>5. Swept'
    BY <1>0, <1>1 DEF SweepTerminate, SweepSelect, SweepFails, SweepEnds, Fails, TypeOK,
                      Operation, Idle, Swept, Exists, Expired
  <1> QED BY <1>2, <1>3, <1>4, <1>5 DEF IInv

(* A new session: its role is drawn by nobody else, and unknown to the database. *)
LEMMA Opening ==
  ASSUME IInv, NEW w \in Console, BeginOpen(w)
  PROVE  IInv'
  <1>0. TypeOK /\ Owned /\ Tunnelled /\ Terminated /\ Swept
    BY DEF IInv
  <1>1. PICK r \in Role \ Drawn :
          /\ role[r] = "unused"
          /\ op' = [op EXCEPT ![w] = [Idle EXCEPT !.pc = "terminate", !.role = r,
                                          !.expiredBefore = {s \in Role : role[s] = "expired"}]]
    BY DEF BeginOpen
  <1>2. UNCHANGED <<role, owning, backends, tunnel>>
    BY DEF BeginOpen
  <1> DEFINE new == [Idle EXCEPT !.pc = "terminate", !.role = r,
                                 !.expiredBefore = {s \in Role : role[s] = "expired"}]
  <1>3. new \in Operation
    BY <1>1 DEF Idle, Operation, PC
  <1>4. /\ new.pc = "terminate" /\ new.role = r /\ new.due = {} /\ ~new.alone
        /\ new.expiredBefore = {s \in Role : role[s] = "expired"}
    BY DEF Idle
  <1>5. op'[w] = new /\ \A v \in Console \ {w} : op'[v] = op[v]
    BY <1>0, <1>1 DEF TypeOK
  <1>6. r # None /\ \A v \in Console : op[v].role # r
    BY SessionAssumption DEF Drawn
  <1> HIDE DEF new
  <1>7. TypeOK'
    <2>1. op' \in [Console -> Operation]
      BY <1>0, <1>1, <1>3, Typed DEF new
    <2> QED BY <1>0, <1>2, <2>1 DEF TypeOK
  <1>8. Owned'
    <2>1. \A v, u \in Console : v # u /\ op'[v].pc \in BeforeCreate => op'[v].role # op'[u].role
      <3> SUFFICES ASSUME NEW v \in Console, NEW u \in Console, v # u, op'[v].pc \in BeforeCreate
                   PROVE  op'[v].role # op'[u].role
        OBVIOUS
      <3>1. CASE v = w
        BY <1>4, <1>5, <1>6, <3>1
      <3>2. CASE u = w
        BY <1>4, <1>5, <1>6, <3>2
      <3>3. CASE v # w /\ u # w
        BY <1>0, <1>5, <3>3 DEF Owned
      <3> QED BY <3>1, <3>2, <3>3
    <2>2. \A v \in Console : op'[v].pc \in BeforeCreate =>
            op'[v].role \in Role /\ role[op'[v].role] = "unused"
      BY <1>0, <1>1, <1>4, <1>5 DEF Owned
    <2>3. \A v \in Console : op'[v].pc \in AfterCreate \cup {"idle"} => op'[v] = op[v]
      BY <1>4, <1>5 DEF AfterCreate
    <2> QED BY <1>0, <1>2, <2>1, <2>2, <2>3 DEF Owned, AfterCreate
  <1>9. Tunnelled' /\ Terminated'
    BY <1>0, <1>2, <1>4, <1>5 DEF Tunnelled, Terminated, Exists, At
  <1>10. Swept'
    BY <1>0, <1>2, <1>4, <1>5 DEF Swept, Exists, At
  <1> QED BY <1>7, <1>8, <1>9, <1>10 DEF IInv

(* What dropping and expiry have in common: roles only fade. *)
Fades ==
  /\ role' \in [Role -> {"unused", "valid", "expired", "dropped"}]
  /\ \A r \in Role :
       /\ role'[r] = "unused" <=> role[r] = "unused"
       /\ role'[r] \in {"valid", "expired"} => Exists(r)
       /\ role[r] \in {"expired", "dropped"} => role'[r] \in {"expired", "dropped"}

LEMMA DroppedFades ==
  ASSUME TypeOK, NEW r \in Role, Exists(r), Dropped(r)
  PROVE  Fades /\ role'[r] = "dropped" /\ \A q \in Role \ {r} : role'[q] = role[q]
  BY DEF TypeOK, Exists, Dropped, Fades

LEMMA Fading ==
  ASSUME IInv, Fades, UNCHANGED <<owning, backends, tunnel, op>>
  PROVE  IInv'
  <1>0. TypeOK /\ Owned /\ Tunnelled /\ Terminated /\ Swept
    BY DEF IInv
  <1>1. TypeOK'
    BY <1>0 DEF TypeOK, Fades
  <1>2. Owned'
    BY <1>0 DEF Owned, Fades
  <1>3. Tunnelled'
    BY <1>0 DEF Tunnelled, Fades, TypeOK
  <1>4. Terminated'
    <2>1. \A w \in Console : op[w].pc = "closeDrop" => op[w].role \in Role
      BY <1>0 DEF Owned, AfterCreate
    <2> QED BY <1>0, <2>1 DEF Terminated, Fades, Exists, At
  <1>5. Swept'
    <2>1. \A w \in Console : op[w].due \subseteq Role /\ op[w].expiredBefore \subseteq Role
      BY <1>0 DEF TypeOK, Operation
    <2> QED BY <1>0, <2>1 DEF Swept, Fades, Exists, At
  <1> QED BY <1>1, <1>2, <1>3, <1>4, <1>5 DEF IInv

(* One role of the sweep is dropped, and no longer due. *)
LEMMA Sweeping ==
  ASSUME IInv, NEW w \in Console, SweepDrop(w)
  PROVE  IInv'
  <1>0. TypeOK /\ Owned /\ Tunnelled /\ Terminated /\ Swept
    BY DEF IInv
  <1>1. PICK r \in op[w].due :
          Exists(r) /\ Dropped(r) /\ op' = [op EXCEPT ![w].due = @ \ {r}]
    BY DEF SweepDrop
  <1>2. r \in Role /\ op[w].due \subseteq Role /\ op[w].pc = "dropping"
    BY <1>0 DEF TypeOK, Operation, SweepDrop, At
  <1>3. Fades /\ role'[r] = "dropped" /\ \A q \in Role \ {r} : role'[q] = role[q]
    BY <1>0, <1>1, <1>2, DroppedFades
  <1>4. UNCHANGED <<owning, backends, tunnel>>
    BY DEF SweepDrop
  <1>5. /\ op'[w] = [op[w] EXCEPT !.due = op[w].due \ {r}]
        /\ \A v \in Console \ {w} : op'[v] = op[v]
    BY <1>0, <1>1 DEF TypeOK
  <1>6. /\ op'[w].pc = op[w].pc /\ op'[w].role = op[w].role /\ op'[w].alone = op[w].alone
        /\ op'[w].due = op[w].due \ {r} /\ op'[w].expiredBefore = op[w].expiredBefore
    BY <1>0, <1>5 DEF TypeOK, Operation
  <1>7. TypeOK'
    <2>1. [op[w] EXCEPT !.due = op[w].due \ {r}] \in Operation
      BY <1>0, <1>2 DEF TypeOK, Operation
    <2>2. op' \in [Console -> Operation]
      BY <1>0, <1>1, <2>1 DEF TypeOK
    <2> QED BY <1>0, <1>3, <1>4, <2>2 DEF TypeOK, Fades
  <1>8. \A v \in Console :
          op'[v].pc = op[v].pc /\ op'[v].role = op[v].role /\ op'[v].alone = op[v].alone
    BY <1>5, <1>6
  <1>9. Owned'
    BY <1>0, <1>3, <1>8 DEF Owned, Fades
  <1>10. Tunnelled' /\ Terminated'
    <2>1. \A v \in Console : op[v].pc = "closeDrop" => op[v].role \in Role
      BY <1>0 DEF Owned, AfterCreate
    <2>2. Tunnelled'
      BY <1>0, <1>3, <1>4, <1>8 DEF Tunnelled, Fades, TypeOK
    <2>3. Terminated'
      BY <1>0, <1>3, <1>4, <1>8, <2>1 DEF Terminated, Fades, Exists, At
    <2> QED BY <2>2, <2>3
  <1>11. Swept'
    <2>1. \A v \in Console : op[v].due \subseteq Role /\ op[v].expiredBefore \subseteq Role
      BY <1>0 DEF TypeOK, Operation
    <2>2. \A v \in Console : op'[v].due \subseteq op[v].due
                            /\ op'[v].expiredBefore = op[v].expiredBefore
      BY <1>5, <1>6
    <2>3. \A v \in Console : \A q \in op'[v].due \cup op'[v].expiredBefore :
            role'[q] \in {"expired", "dropped"}
      BY <1>0, <1>3, <2>1, <2>2 DEF Swept, Fades
    <2>4. ASSUME NEW v \in Console, op'[v].pc = "dropping", NEW q \in op'[v].expiredBefore
          PROVE  q \in op'[v].due \/ role'[q] \notin {"valid", "expired"}
      <3>1. q \in Role /\ (q \in op[v].due \/ ~Exists(q))
        BY <1>0, <1>8, <2>1, <2>2, <2>4 DEF Swept, At
      <3>2. CASE q = r
        BY <1>3, <3>2
      <3>3. CASE q # r
        BY <1>3, <1>5, <1>6, <3>1, <3>3 DEF Exists
      <3> QED BY <3>2, <3>3
    <2>5. ASSUME NEW v \in Console, op'[v].pc = "create", NEW q \in op'[v].expiredBefore
          PROVE  role'[q] \notin {"valid", "expired"}
      BY <1>0, <1>3, <1>8, <2>1, <2>2, <2>5 DEF Swept, Fades, Exists, At
    <2> QED BY <2>3, <2>4, <2>5 DEF Swept, Exists, At
  <1> QED BY <1>7, <1>9, <1>10, <1>11 DEF IInv

(* The new role exists; nobody has a tunnel to it yet. *)
LEMMA Creating ==
  ASSUME IInv, NEW w \in Console, CreateRole(w)
  PROVE  IInv'
  <1>0. TypeOK /\ Owned /\ Tunnelled /\ Terminated /\ Swept
    BY DEF IInv
  <1> DEFINE r == op[w].role
  <1>1. /\ op[w].pc = "create" /\ op' = [op EXCEPT ![w].pc = "forward"]
        /\ role' = [role EXCEPT ![r] = "valid"] /\ UNCHANGED <<owning, backends, tunnel>>
    BY DEF CreateRole, At, Goto
  <1>2. r \in Role /\ role[r] = "unused" /\ r # None
    BY <1>0, <1>1, SessionAssumption DEF Owned, BeforeCreate
  <1>3. role'[r] = "valid" /\ \A q \in Role \ {r} : role'[q] = role[q]
    BY <1>0, <1>1, <1>2 DEF TypeOK
  <1>4. /\ op'[w] = [op[w] EXCEPT !.pc = "forward"]
        /\ \A v \in Console \ {w} : op'[v] = op[v]
    BY <1>0, <1>1 DEF TypeOK
  <1>5. /\ op'[w].pc = "forward" /\ op'[w].role = r /\ op'[w].due = op[w].due
        /\ op'[w].expiredBefore = op[w].expiredBefore /\ ~op'[w].alone
    BY <1>0, <1>1, <1>4 DEF TypeOK, Operation, Tunnelled, Closing
  <1>6. \A v \in Console \ {w} : op[v].role # r
    BY <1>0, <1>1 DEF Owned, BeforeCreate
  <1>7. TypeOK'
    <2>1. op' \in [Console -> Operation]
      BY <1>0, <1>1, Typed DEF PC
    <2> QED BY <1>0, <1>1, <1>2, <2>1 DEF TypeOK
  <1> HIDE DEF r
  <1>8. Owned'
    <2>1. \A v \in Console : op'[v].role = op[v].role
      BY <1>4, <1>5 DEF r
    <2>2. \A v \in Console : op'[v].pc \in BeforeCreate =>
            op'[v].role \in Role /\ role'[op'[v].role] = "unused"
      <3> SUFFICES ASSUME NEW v \in Console, op'[v].pc \in BeforeCreate
                   PROVE  op'[v].role \in Role /\ role'[op'[v].role] = "unused"
        OBVIOUS
      <3>1. v # w
        BY <1>5 DEF BeforeCreate
      <3>2. op[v].role \in Role /\ role[op[v].role] = "unused" /\ op[v].role # r
        BY <1>0, <1>4, <1>6, <3>1 DEF Owned
      <3> QED BY <1>3, <1>4, <3>1, <3>2
    <2>3. \A v \in Console : op'[v].pc \in AfterCreate =>
            op'[v].role \in Role /\ role'[op'[v].role] # "unused"
      <3> SUFFICES ASSUME NEW v \in Console, op'[v].pc \in AfterCreate
                   PROVE  op'[v].role \in Role /\ role'[op'[v].role] # "unused"
        OBVIOUS
      <3>1. CASE v = w
        BY <1>2, <1>3, <1>5, <3>1
      <3>2. CASE v # w
        <4>1. op[v].role \in Role /\ role[op[v].role] # "unused" /\ op[v].role # r
          BY <1>0, <1>4, <1>6, <3>2 DEF Owned
        <4> QED BY <1>3, <1>4, <3>2, <4>1
      <3> QED BY <3>1, <3>2
    <2>4. \A v \in Console : op'[v].pc = "idle" => op'[v].role = None
      BY <1>0, <1>4, <1>5 DEF Owned
    <2>5. \A v \in Console : op'[v].pc \in BeforeCreate => v # w /\ op[v].pc \in BeforeCreate
      BY <1>4, <1>5 DEF BeforeCreate
    <2> QED BY <1>0, <2>1, <2>2, <2>3, <2>4, <2>5 DEF Owned
  <1>9. Tunnelled'
    <2>1. \A v \in Console : tunnel'[v] # None => role'[tunnel'[v]] # "unused"
      BY <1>0, <1>1, <1>3 DEF Tunnelled, TypeOK
    <2> QED BY <1>0, <1>1, <1>4, <1>5, <2>1 DEF Tunnelled
  <1>10. Terminated'
    <2>1. \A v \in Console : op[v].pc = "closeDrop" => op[v].role \in Role
      BY <1>0 DEF Owned, AfterCreate
    <2> QED BY <1>0, <1>1, <1>3, <1>4, <1>5, <1>6, <2>1 DEF Terminated, Exists, At
  <1>11. Swept'
    <2>1. \A v \in Console : op[v].due \subseteq Role /\ op[v].expiredBefore \subseteq Role
      BY <1>0 DEF TypeOK, Operation
    <2>2. \A v \in Console : r \notin op[v].due \cup op[v].expiredBefore
      BY <1>0, <1>2 DEF Swept
    <2>3. \A v \in Console : op'[v].due = op[v].due /\ op'[v].expiredBefore = op[v].expiredBefore
      BY <1>4, <1>5
    <2>4. \A v \in Console : \A q \in op[v].due \cup op[v].expiredBefore : role'[q] = role[q]
      BY <1>3, <2>1, <2>2
    <2>5. \A v \in Console : op'[v].pc \in {"dropping", "create"} => op'[v] = op[v]
      BY <1>4, <1>5
    <2> QED BY <1>0, <2>3, <2>4, <2>5 DEF Swept, Exists, At
  <1> QED BY <1>7, <1>8, <1>9, <1>10, <1>11 DEF IInv

(* From now on a tunnel leads to r: no close of r is alone any more. *)
LEMMA Forwarding ==
  ASSUME IInv, NEW w \in Console, NEW r \in Role, role[r] # "unused", NEW pc \in {"idle", "open"},
         op[w].pc = IF pc = "idle" THEN "idle" ELSE "forward",
         Forwards(w, r, pc), UNCHANGED <<role, owning, backends>>
  PROVE  IInv'
  <1>0. TypeOK /\ Owned /\ Tunnelled /\ Terminated /\ Swept
    BY DEF IInv
  <1>1. /\ tunnel'[w] = r /\ \A v \in Console \ {w} : tunnel'[v] = tunnel[v]
        /\ tunnel' \in [Console -> Role \cup {None}]
    BY <1>0 DEF Forwards, TypeOK
  <1>2. /\ op' = [v \in Console |-> IF v = w THEN [op[v] EXCEPT !.pc = pc]
                                   ELSE [op[v] EXCEPT !.alone = @ /\ op[v].role # r]]
        /\ op'[w] = [op[w] EXCEPT !.pc = pc]
        /\ \A v \in Console \ {w} : op'[v] = [op[v] EXCEPT !.alone = @ /\ op[v].role # r]
    BY DEF Forwards
  <1>3. /\ op'[w] \in Operation /\ op'[w].pc = pc /\ op'[w].role = op[w].role
        /\ op'[w].due = op[w].due /\ op'[w].expiredBefore = op[w].expiredBefore
        /\ op'[w].alone = op[w].alone
    BY <1>0, <1>2 DEF TypeOK, Operation, PC
  <1>4. ~op'[w].alone
    BY <1>0, <1>3 DEF Tunnelled, Closing
  <1>5. ASSUME NEW v \in Console \ {w}
        PROVE  /\ op'[v] \in Operation /\ op'[v].pc = op[v].pc /\ op'[v].role = op[v].role
               /\ op'[v].due = op[v].due /\ op'[v].expiredBefore = op[v].expiredBefore
               /\ op'[v].alone => op[v].alone /\ op[v].role # r
    <2>1. (op[v].alone /\ op[v].role # r) \in BOOLEAN
      OBVIOUS
    <2>2. op[v] \in Operation
      BY <1>0 DEF TypeOK
    <2> QED BY <1>2, <2>1, <2>2 DEF Operation
  <1>6. TypeOK'
    BY <1>0, <1>1, <1>2, <1>3, <1>5 DEF TypeOK
  <1>7. Owned'
    <2>1. \A v \in Console : op'[v].role = op[v].role
      BY <1>3, <1>5
    <2>2. \A v \in Console : op'[v].pc \in BeforeCreate => op[v].pc \in BeforeCreate
      BY <1>3, <1>5 DEF BeforeCreate
    <2>3. \A v \in Console : op'[v].pc \in AfterCreate => op[v].pc \in AfterCreate
      BY <1>3, <1>5 DEF AfterCreate
    <2>4. \A v \in Console : op'[v].pc = "idle" => op[v].pc = "idle"
      BY <1>3, <1>5
    <2> QED BY <1>0, <2>1, <2>2, <2>3, <2>4 DEF Owned
  <1>8. Tunnelled'
    <2>1. \A v \in Console : tunnel'[v] # None => role'[tunnel'[v]] # "unused"
      BY <1>0, <1>1 DEF Tunnelled
    <2>2. ASSUME NEW x \in Console, op'[x].alone
          PROVE  op'[x].pc \in Closing /\ \A v \in Console : tunnel'[v] # op'[x].role
      <3>1. x # w /\ op[x].alone /\ op[x].role # r
        BY <1>4, <1>5, <2>2
      <3>2. op[x].pc \in Closing /\ \A v \in Console : tunnel[v] # op[x].role
        BY <1>0, <3>1 DEF Tunnelled
      <3> QED BY <1>1, <1>5, <3>1, <3>2
    <2> QED BY <2>1, <2>2 DEF Tunnelled
  <1>9. Terminated'
    <2>1. ASSUME NEW x \in Console, op'[x].pc = "closeDrop", op'[x].alone,
                 role'[op'[x].role] \in {"valid", "expired"}
          PROVE  op'[x].role \notin backends'
      <3>1. x # w /\ op[x].alone /\ op[x].pc = "closeDrop" /\ op'[x].role = op[x].role
        BY <1>4, <1>5, <2>1
      <3> QED BY <1>0, <2>1, <3>1 DEF Terminated, Exists, At
    <2> QED BY <2>1 DEF Terminated, At, Exists
  <1>10. Swept'
    <2>1. \A v \in Console : op'[v].due = op[v].due /\ op'[v].expiredBefore = op[v].expiredBefore
      BY <1>3, <1>5
    <2>2. \A v \in Console : op'[v].pc \in {"dropping", "create"} => op[v].pc = op'[v].pc
      BY <1>3, <1>5
    <2> QED BY <1>0, <2>1, <2>2 DEF Swept, Exists, At
  <1> QED BY <1>6, <1>7, <1>8, <1>9, <1>10 DEF IInv

LEMMA Tunnelling ==
  ASSUME IInv, NEW w \in Console, OpenTunnel(w) \/ ForwardByHand(w)
  PROVE  IInv'
  <1>1. CASE OpenTunnel(w)
    <2>1. op[w].pc = "forward" /\ op[w].role \in Role /\ role[op[w].role] # "unused"
      BY <1>1 DEF OpenTunnel, At, IInv, Owned, AfterCreate
    <2> QED BY <1>1, <2>1, Forwarding DEF OpenTunnel
  <1>2. CASE ForwardByHand(w)
    BY <1>2, Forwarding DEF ForwardByHand, At
  <1> QED BY <1>1, <1>2

(* A close by hand takes up any role that is, or was. *)
LEMMA ByHand ==
  ASSUME IInv, NEW w \in Console, CloseByHand(w)
  PROVE  IInv'
  <1>0. TypeOK /\ Owned /\ Tunnelled /\ Terminated /\ Swept
    BY DEF IInv
  <1>1. PICK r \in Role :
          /\ role[r] # "unused"
          /\ op' = [op EXCEPT ![w] = [Idle EXCEPT !.pc = "closeTerminate", !.role = r,
                                          !.alone = (Leading(r) = {})]]
    BY DEF CloseByHand
  <1>2. UNCHANGED <<role, owning, backends, tunnel>>
    BY DEF CloseByHand
  <1> DEFINE new == [Idle EXCEPT !.pc = "closeTerminate", !.role = r, !.alone = (Leading(r) = {})]
  <1>3. (Leading(r) = {}) \in BOOLEAN
    OBVIOUS
  <1>4. /\ new \in Operation /\ new.pc = "closeTerminate" /\ new.role = r /\ new.due = {}
        /\ new.expiredBefore = {} /\ (new.alone => Leading(r) = {})
    BY <1>1, <1>3 DEF Idle, Operation, PC
  <1>5. op'[w] = new /\ \A v \in Console \ {w} : op'[v] = op[v]
    BY <1>0, <1>1 DEF TypeOK
  <1>6. TypeOK'
    <2>1. op' \in [Console -> Operation]
      BY <1>0, <1>1, <1>4, Typed
    <2> QED BY <1>0, <1>2, <2>1 DEF TypeOK
  <1> HIDE DEF new
  <1>7. Owned'
    <2>1. \A v \in Console : op'[v].pc \in BeforeCreate => v # w
      BY <1>4, <1>5 DEF BeforeCreate
    <2>2. \A v \in Console : op'[v].pc \in BeforeCreate => op'[v].role # r
      BY <1>0, <1>1, <1>5, <2>1 DEF Owned
    <2>3. \A v, u \in Console : v # u /\ op'[v].pc \in BeforeCreate => op'[v].role # op'[u].role
      BY <1>0, <1>4, <1>5, <2>1, <2>2 DEF Owned
    <2> QED BY <1>0, <1>1, <1>2, <1>4, <1>5, <2>3 DEF Owned, BeforeCreate
  <1>8. Tunnelled' /\ Terminated'
    BY <1>0, <1>2, <1>4, <1>5 DEF Tunnelled, Terminated, Leading, Closing, Exists, At
  <1>9. Swept'
    BY <1>0, <1>2, <1>4, <1>5 DEF Swept, Exists, At
  <1> QED BY <1>6, <1>7, <1>8, <1>9 DEF IInv

(* The steps after OpenTunnel that change no role: the console closes or is killed, or a   *)
(* close comes to its first statement.                                                    *)
LEMMA Standing ==
  ASSUME IInv, NEW w \in Console, CloseTunnel(w) \/ CloseTerminate(w) \/ KillConsole(w)
  PROVE  IInv'
  <1>0. TypeOK /\ Owned /\ Tunnelled /\ Terminated /\ Swept
    BY DEF IInv
  <1>1. /\ op[w].pc \in {"open", "closeTerminate"}
        /\ UNCHANGED <<role, owning>> /\ backends' \subseteq backends
        /\ tunnel' \in {tunnel, [tunnel EXCEPT ![w] = None]}
    BY DEF CloseTunnel, CloseTerminate, KillConsole, At
  <1>2. op[w].role \in Role /\ role[op[w].role] # "unused" /\ op[w].role # None
    BY <1>0, <1>1, SessionAssumption DEF Owned, AfterCreate
  <1>3. /\ tunnel' \in [Console -> Role \cup {None}]
        /\ \A v \in Console : tunnel'[v] \in {tunnel[v], None}
    BY <1>0, <1>1 DEF TypeOK
  <1>4. \A v \in Console \ {w} : op'[v] = op[v]
    BY <1>0 DEF TypeOK, CloseTunnel, CloseTerminate, KillConsole, BeginsClose, Goto, Leave
  <1>5. /\ op'[w] \in Operation
        /\ \/ op'[w] = Idle
           \/ /\ op'[w].pc \in Closing /\ op'[w].role = op[w].role
              /\ op'[w].due = op[w].due /\ op'[w].expiredBefore = op[w].expiredBefore
    <2>1. op[w] \in Operation
      BY <1>0 DEF TypeOK
    <2>2. CASE CloseTunnel(w)
      <3>1. (Leading(op[w].role) \subseteq {w}) \in BOOLEAN
        OBVIOUS
      <3>2. op'[w] = [op[w] EXCEPT !.pc = "closeTerminate",
                                   !.alone = (Leading(op[w].role) \subseteq {w})]
        BY <1>0, <2>2 DEF CloseTunnel, BeginsClose, TypeOK
      <3> QED BY <2>1, <3>1, <3>2 DEF Operation, PC, Closing
    <2>3. CASE CloseTerminate(w)
      <3>1. op'[w] = [op[w] EXCEPT !.pc = "closeDrop"]
        BY <1>0, <2>3 DEF CloseTerminate, Goto, TypeOK
      <3> QED BY <2>1, <3>1 DEF Operation, PC, Closing
    <2>4. CASE KillConsole(w)
      BY <1>0, <2>4, Typed DEF KillConsole, Leave, TypeOK
    <2> QED BY <2>2, <2>3, <2>4
  <1>6. op'[w] = Idle => /\ op'[w].pc = "idle" /\ op'[w].role = None /\ op'[w].due = {}
                         /\ op'[w].expiredBefore = {} /\ ~op'[w].alone
    BY DEF Idle
  <1>7. TypeOK'
    <2>1. op' \in [Console -> Operation]
      BY <1>0, <1>4, <1>5 DEF TypeOK, CloseTunnel, CloseTerminate, KillConsole, BeginsClose,
                             Goto, Leave
    <2> QED BY <1>0, <1>1, <1>3, <2>1 DEF TypeOK
  <1>8. Owned'
    <2>1. \A v \in Console : op'[v].pc \in BeforeCreate => v # w
      BY <1>5, <1>6 DEF BeforeCreate, Closing
    <2>2. \A v \in Console : op'[v].role \in {op[v].role, None}
      BY <1>4, <1>5, <1>6
    <2>3. \A v, u \in Console : v # u /\ op'[v].pc \in BeforeCreate => op'[v].role # op'[u].role
      BY <1>0, <1>4, <2>1, <2>2, SessionAssumption DEF Owned
    <2>4. \A v \in Console : op'[v].pc \in AfterCreate =>
            op'[v].role \in Role /\ role[op'[v].role] # "unused"
      BY <1>0, <1>2, <1>4, <1>5, <1>6 DEF Owned, AfterCreate
    <2>5. \A v \in Console : op'[v].pc = "idle" => op'[v].role = None
      BY <1>0, <1>4, <1>5, <1>6 DEF Owned, Closing
    <2> QED BY <1>0, <1>1, <1>4, <2>1, <2>3, <2>4, <2>5 DEF Owned
  <1>9. Swept'
    BY <1>0, <1>1, <1>4, <1>5, <1>6 DEF Swept, Exists, At, Closing
  <1>10. op'[w].alone => \A v \in Console : tunnel'[v] # op'[w].role
    <2>1. CASE CloseTunnel(w)
      <3>1. /\ tunnel'[w] = None /\ op'[w].role = op[w].role
            /\ op'[w].alone = (Leading(op[w].role) \subseteq {w})
        BY <1>0, <2>1 DEF CloseTunnel, BeginsClose, TypeOK, Operation
      <3> QED BY <1>2, <1>3, <3>1 DEF Leading
    <2>2. CASE CloseTerminate(w)
      <3>1. UNCHANGED tunnel /\ op'[w].role = op[w].role /\ op'[w].alone = op[w].alone
        BY <1>0, <2>2 DEF CloseTerminate, Goto, TypeOK, Operation
      <3> QED BY <1>0, <3>1 DEF Tunnelled
    <2>3. CASE KillConsole(w)
      BY <1>0, <1>6, <2>3 DEF KillConsole, Leave, TypeOK
    <2> QED BY <2>1, <2>2, <2>3
  <1>11. Tunnelled'
    <2>1. \A v \in Console : op[v].alone => op[v].role # None
      BY <1>0, SessionAssumption DEF Tunnelled, Owned, AfterCreate, Closing
    <2>2. ASSUME NEW x \in Console, op'[x].alone
          PROVE  op'[x].pc \in Closing /\ \A v \in Console : tunnel'[v] # op'[x].role
      <3>1. CASE x = w
        BY <1>5, <1>6, <1>10, <2>2, <3>1
      <3>2. CASE x # w
        BY <1>0, <1>3, <1>4, <2>1, <2>2, <3>2 DEF Tunnelled
      <3> QED BY <3>1, <3>2
    <2> QED BY <1>0, <1>1, <1>3, <2>2 DEF Tunnelled
  <1>12. Terminated'
    <2>1. op'[w].pc = "closeDrop" /\ Exists(op'[w].role) => op'[w].role \notin backends'
      <3>1. CASE CloseTerminate(w)
        BY <1>0, <3>1 DEF CloseTerminate, At, Goto, TypeOK, Operation
      <3>2. CASE ~CloseTerminate(w)
        BY <1>0, <3>2 DEF CloseTunnel, KillConsole, BeginsClose, Leave, Idle, TypeOK, Operation
      <3> QED BY <3>1, <3>2
    <2> QED BY <1>0, <1>1, <1>4, <2>1 DEF Terminated, Exists, At
  <1> QED BY <1>7, <1>8, <1>9, <1>11, <1>12 DEF IInv

(* The command is done; its role is gone, or was before. *)
LEMMA Finishing ==
  ASSUME IInv, NEW w \in Console, CloseDrop(w)
  PROVE  IInv'
  <1>0. TypeOK /\ Owned /\ Tunnelled /\ Terminated /\ Swept
    BY DEF IInv
  <1>1. /\ op[w].pc = "closeDrop" /\ op' = [op EXCEPT ![w] = Idle]
        /\ UNCHANGED <<owning, backends, tunnel>>
    BY DEF CloseDrop, At, Leave
  <1>2. op[w].role \in Role
    BY <1>0, <1>1 DEF Owned, AfterCreate
  <1>3. Fades
    <2>1. CASE Exists(op[w].role)
      BY <1>0, <1>2, <2>1, DroppedFades DEF CloseDrop
    <2>2. CASE ~Exists(op[w].role)
      BY <1>0, <2>2 DEF CloseDrop, Fades, TypeOK, Exists
    <2> QED BY <2>1, <2>2
  <1>4. /\ op'[w].pc = "idle" /\ op'[w].role = None /\ op'[w].due = {}
        /\ op'[w].expiredBefore = {} /\ ~op'[w].alone
        /\ \A v \in Console \ {w} : op'[v] = op[v]
    BY <1>0, <1>1 DEF TypeOK, Idle
  <1>5. TypeOK'
    <2>1. op' \in [Console -> Operation]
      BY <1>0, <1>1, Typed
    <2> QED BY <1>0, <1>1, <1>3, <2>1 DEF TypeOK, Fades
  <1>6. Owned'
    <2>1. \A v, u \in Console : v # u /\ op'[v].pc \in BeforeCreate => op'[v].role # op'[u].role
      BY <1>0, <1>4, SessionAssumption DEF Owned, BeforeCreate
    <2> QED BY <1>0, <1>3, <1>4, <2>1 DEF Owned, Fades, BeforeCreate, AfterCreate
  <1>7. Tunnelled'
    BY <1>0, <1>1, <1>3, <1>4 DEF Tunnelled, Fades, TypeOK
  <1>8. Terminated'
    <2>1. \A v \in Console : op[v].pc = "closeDrop" => op[v].role \in Role
      BY <1>0 DEF Owned, AfterCreate
    <2> QED BY <1>0, <1>1, <1>3, <1>4, <2>1 DEF Terminated, Fades, Exists, At
  <1>9. Swept'
    <2>1. \A v \in Console : op[v].due \subseteq Role /\ op[v].expiredBefore \subseteq Role
      BY <1>0 DEF TypeOK, Operation
    <2> QED BY <1>0, <1>3, <1>4, <2>1 DEF Swept, Fades, Exists, At
  <1> QED BY <1>5, <1>6, <1>7, <1>8, <1>9 DEF IInv

(* The client, the database and time. *)
LEMMA Connecting ==
  ASSUME IInv, NEW w \in Console, Connect(w) \/ TunnelEnds(w)
  PROVE  IInv'
  <1>0. TypeOK /\ Owned /\ Tunnelled /\ Terminated /\ Swept
    BY DEF IInv
  <1>1. UNCHANGED <<role, owning, op>>
    BY DEF Connect, TunnelEnds
  <1>2. Owned' /\ Swept'
    BY <1>0, <1>1 DEF Owned, Swept, Exists, At
  <1>3. CASE Connect(w)
    <2>1. backends' = backends \cup {tunnel[w]} /\ UNCHANGED tunnel /\ tunnel[w] # None
      BY <1>3 DEF Connect
    <2>2. TypeOK'
      BY <1>0, <1>1, <2>1 DEF TypeOK
    <2>3. Tunnelled' /\ Terminated'
      BY <1>0, <1>1, <2>1 DEF Tunnelled, Terminated, Closing, Exists, At
    <2> QED BY <1>2, <2>2, <2>3 DEF IInv
  <1>4. CASE TunnelEnds(w)
    <2>1. tunnel' = [tunnel EXCEPT ![w] = None] /\ UNCHANGED backends
      BY <1>4 DEF TunnelEnds
    <2>2. TypeOK'
      BY <1>0, <1>1, <2>1 DEF TypeOK
    <2>3. \A u \in Console : op[u].pc \in Closing => op[u].role # None
      BY <1>0, SessionAssumption DEF Owned, AfterCreate, Closing
    <2>4. Tunnelled' /\ Terminated'
      BY <1>0, <1>1, <2>1, <2>3 DEF Tunnelled, Terminated, Exists, At, TypeOK
    <2> QED BY <1>2, <2>2, <2>4 DEF IInv
  <1> QED BY <1>3, <1>4

LEMMA Passing ==
  ASSUME IInv, (\E r \in Role : CreateObject(r) \/ GiveAway(r)) \/ RestartDatabase
  PROVE  IInv'
  <1>0. TypeOK /\ Owned /\ Tunnelled /\ Terminated /\ Swept
    BY DEF IInv
  <1>1. /\ UNCHANGED <<role, tunnel, op>> /\ backends' \subseteq backends
        /\ owning' \subseteq Role
    BY <1>0 DEF CreateObject, GiveAway, RestartDatabase, TypeOK
  <1>2. TypeOK'
    BY <1>0, <1>1 DEF TypeOK
  <1> QED BY <1>0, <1>1, <1>2 DEF IInv, Owned, Tunnelled, Terminated, Swept, Exists, At

LEMMA Expiring == ASSUME IInv, NEW r \in Role, Expire(r) PROVE IInv'
  <1>1. Fades /\ UNCHANGED <<owning, backends, tunnel, op>>
    BY DEF Expire, Fades, Exists, IInv, TypeOK
  <1> QED BY <1>1, Fading

LEMMA Stuttering == ASSUME IInv, UNCHANGED vars PROVE IInv'
  BY DEF vars, IInv, TypeOK, Owned, Tunnelled, Terminated, Swept, Exists, At

LEMMA Inductive == Spec => []IInv
  <1>1. IInv /\ [Next]_vars => IInv'
    <2> SUFFICES ASSUME IInv, [Next]_vars PROVE IInv'
      OBVIOUS
    <2>1. ASSUME NEW w \in Console, Command(w) PROVE IInv'
      BY <2>1, Opening, Resting, Sweeping, Creating, Tunnelling, ByHand, Standing, Finishing
      DEF Command
    <2> QED BY <2>1, Connecting, Passing, Expiring, Stuttering DEF Next
  <1> QED BY Initially, <1>1, PTL DEF Spec

(* A step spares the role r: it is not dropped, and nobody loses a connection as r.        *)
Spares(r) ==
  /\ role[r] = "valid" => role'[r] # "dropped"
  /\ r \notin backends \ backends'

LEMMA SweepSpares ==
  ASSUME IInv, NEW w \in Console, NEW r \in Role, role[r] = "valid",
         SweepTerminate(w) \/ SweepDrop(w)
  PROVE  Spares(r)
  <1>1. CASE SweepTerminate(w)
    BY <1>1 DEF SweepTerminate, Expired, Spares
  <1>2. CASE SweepDrop(w)
    <2>1. PICK q \in op[w].due : Dropped(q) /\ UNCHANGED backends
      BY <1>2 DEF SweepDrop
    <2>2. q # r /\ q \in Role
      BY <2>1 DEF IInv, Swept, TypeOK, Operation
    <2> QED BY <2>1, <2>2 DEF Dropped, Spares, IInv, TypeOK
  <1> QED BY <1>1, <1>2

(* Only the close of its own session takes a valid role, or its connections, away.         *)
LEMMA ValidStays ==
  ASSUME IInv, [Next]_vars, NEW r \in Role, role[r] = "valid"
  PROVE  /\ role'[r] = "dropped" => \E w \in Console : CloseDrop(w) /\ op[w].role = r
         /\ r \in backends \ backends' =>
              \/ \E w \in Console : (CloseTunnel(w) \/ CloseTerminate(w)) /\ op[w].role = r
              \/ RestartDatabase
  <1>0. TypeOK
    BY DEF IInv
  <1>1. ASSUME NEW w \in Console, SweepTerminate(w) \/ SweepDrop(w) PROVE Spares(r)
    BY <1>1, SweepSpares
  <1>2. ASSUME NEW w \in Console,
               \/ BeginOpen(w) \/ SweepSelect(w) \/ SweepFails(w) \/ SweepEnds(w) \/ OpenTunnel(w)
               \/ Fails(w) \/ KillConsole(w) \/ TunnelEnds(w) \/ Connect(w)
               \/ ForwardByHand(w) \/ CloseByHand(w)
        PROVE  Spares(r)
    BY <1>2 DEF BeginOpen, SweepSelect, SweepFails, SweepEnds, OpenTunnel, Fails, KillConsole,
                TunnelEnds, Connect, ForwardByHand, CloseByHand, Spares
  <1>3. ASSUME NEW w \in Console, CreateRole(w) PROVE Spares(r)
    BY <1>0, <1>3 DEF CreateRole, Spares, TypeOK
  <1>4. ASSUME NEW w \in Console, CloseTunnel(w) \/ CloseTerminate(w)
        PROVE  /\ UNCHANGED role
               /\ r \in backends \ backends' => op[w].role = r
    BY <1>4 DEF CloseTunnel, CloseTerminate
  <1>5. ASSUME NEW w \in Console, CloseDrop(w)
        PROVE  UNCHANGED backends /\ (role'[r] = "dropped" => op[w].role = r)
    BY <1>0, <1>5 DEF CloseDrop, Dropped, TypeOK
  <1>6. ASSUME NEW q \in Role, CreateObject(q) \/ GiveAway(q) \/ Expire(q) PROVE Spares(r)
    BY <1>0, <1>6 DEF CreateObject, GiveAway, Expire, Spares, TypeOK
  <1>7. RestartDatabase => UNCHANGED role
    BY DEF RestartDatabase
  <1>8. UNCHANGED vars => Spares(r)
    BY DEF vars, Spares
  <1>9. CASE \E w \in Console : Command(w) \/ Connect(w) \/ TunnelEnds(w)
    <2>1. PICK w \in Console : Command(w) \/ Connect(w) \/ TunnelEnds(w)
      BY <1>9
    <2>2. \/ Spares(r)
          \/ CloseTunnel(w) \/ CloseTerminate(w)
          \/ CloseDrop(w)
      BY <1>1, <1>2, <1>3, <2>1 DEF Command
    <2> QED BY <1>4, <1>5, <2>2 DEF Spares
  <1> QED BY <1>6, <1>7, <1>8, <1>9 DEF Next, Spares

-----------------------------------------------------------------------------
(* Theorems *)

(* The variables keep their types, however opens, closes, clients and time interleave.     *)
THEOREM TypeCorrect == Spec => []TypeOK
  BY Inductive, PTL DEF IInv

(* close_session in database_session.py: a close that drops its role leaves nobody         *)
(* connected as it, for as many consoles as there are and whatever their clients do, when  *)
(* the only tunnel to the role was the one that the closing console has ended.             *)
THEOREM CloseEvicts == Spec => ClosedIsClosed
  <1>1. IInv =>
          [\A w \in Console :
             CloseDrop(w) /\ Exists(op[w].role) /\ op[w].alone => op[w].role \notin backends']_vars
    BY DEF IInv, Terminated, CloseDrop
  <1> QED BY <1>1, Inductive, PTL DEF ClosedIsClosed

(* open_session in database_session.py: whoever gets a session has swept every role that   *)
(* had expired when it was asked for, whatever other sweeps ran beside it.                 *)
THEOREM SweptOnOpen == Spec => OpenSweeps
  <1>1. IInv => [\A w \in Console :
                   CreateRole(w) => \A r \in op[w].expiredBefore : ~Exists(r)]_vars
    BY DEF IInv, Swept, CreateRole
  <1> QED BY <1>1, Inductive, PTL DEF OpenSweeps

(* The sweep of open_session: a session that is still valid loses its role by its own      *)
(* close alone, and its connections by that or by a restart of the database.               *)
THEOREM ValidUntilClosed == Spec => ValidSessionsStay
  <1>1. IInv /\ [Next]_vars =>
          [\A r \in Role : role[r] = "valid" =>
             /\ role'[r] = "dropped" => \E w \in Console : CloseDrop(w) /\ op[w].role = r
             /\ r \in backends \ backends' =>
                  \/ \E w \in Console : (CloseTunnel(w) \/ CloseTerminate(w)) /\ op[w].role = r
                  \/ RestartDatabase]_vars
    BY ValidStays
  <1> QED BY <1>1, Inductive, PTL DEF Spec, ValidSessionsStay

=============================================================================
