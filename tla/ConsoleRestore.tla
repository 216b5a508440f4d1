-------------------------- MODULE ConsoleRestore --------------------------
(***************************************************************************)
(* The operator's console over the backups of one project/environment: a   *)
(* restore that is proven first and leaves a way back, and the move of a   *)
(* dump from another host.  The console asks the host one command at a     *)
(* time and decides on what an earlier answer said, while timers, deploys  *)
(* and other consoles go on; nothing is locked between two commands.       *)
(*                                                                         *)
(* A command of the host is one step here, but for verify-backup           *)
(* --from-offsite, which downloads and then proves; BackupRestore follows  *)
(* them statement by statement.  Stamps sort by time.                      *)
(*                                                                         *)
(* What the host, or the bucket, holds under a stamp is nothing, a dump    *)
(* with its card ("whole"), one whose card never came ("bare"), or one     *)
(* where either is torn.  Of a dump that is still being fetched its        *)
(* readers see what they would see of one whose download was killed.       *)
(***************************************************************************)
EXTENDS Integers, FiniteSetsExt

CONSTANTS
  Operator,    \* operators, each at a console
  MaxStamp,    \* bound: stamps are 1..MaxStamp, in the order of time
  Foreign,     \* the stamps of dumps that were taken on the source host
  Bad,         \* the stamps of dumps that do not restore
  Depths,      \* values of database.backup.retain that are deployed over time
  LocalRetain, \* LocalRetain[c]: the one in the manifest the console of c was started beside
  Nothing      \* no stamp, or no manifest that can be read

Stamp == 1..MaxStamp
Own   == Stamp \ Foreign

ASSUME ConsoleAssumption ==
  /\ MaxStamp \in Nat
  /\ Foreign \subseteq Stamp /\ Bad \subseteq Stamp
  /\ Depths \subseteq Nat \ {0} /\ Depths # {}
  /\ LocalRetain \in [Operator -> Nat \cup {Nothing}]
  /\ Nothing \notin Nat

VARIABLES
  now,     \* the stamp of the last dump taken on the host
  retain,  \* database.backup.retain of the deployed release
  disk,    \* disk[s]: the dump s on the host
  bucket,  \* bucket[s]: the dump s in object storage
  proof,   \* the stamp of the last verification, if that one succeeded
  desk     \* desk[c]: what the operator at console c is doing

consoleVars == <<now, retain, disk, bucket, proof, desk>>

-----------------------------------------------------------------------------
Content == {"absent", "torn", "bare", "whole"}

Stage == {"idle", "choose", "fetch", "prove", "safety", "confirm",   \* restore
          "copy", "import"}                                           \* move

(* local, offsite and proven are the console's copy of the host's list.  way is the      *)
(* safety dump, once there is one.                                                       *)
AtRest == [pc |-> "idle", local |-> {}, offsite |-> {}, proven |-> Nothing,
           chosen |-> Nothing, way |-> Nothing]

Dialogue == [pc : Stage, local : SUBSET Stamp, offsite : SUBSET Stamp,
             proven : Stamp \cup {Nothing}, chosen : Stamp \cup {Nothing},
             way : Stamp \cup {Nothing}]

ConsoleTypeOK ==
  /\ now \in 0..MaxStamp
  /\ retain \in Depths
  /\ disk \in [Stamp -> Content]
  /\ bucket \in [Stamp -> Content]
  /\ proof \in Stamp \cup {Nothing}
  /\ desk \in [Operator -> Dialogue]

Stands(c, pc) == desk[c].pc = pc
MoveTo(c, pc) == desk' = [desk EXCEPT ![c].pc = pc]
Finish(c)     == desk' = [desk EXCEPT ![c] = AtRest]

hostVars == <<now, retain, disk, bucket, proof>>

ConsoleInit ==
  /\ now = 0
  /\ retain \in Depths
  /\ disk = [s \in Stamp |-> "absent"]
  /\ bucket = [s \in Stamp |-> "absent"]
  /\ proof = Nothing
  /\ desk = [c \in Operator |-> AtRest]

Dumps  == {s \in Stamp : disk[s] # "absent"}
Remote == {s \in Stamp : bucket[s] # "absent"}
Newer(S, s) == {t \in S : t > s}

-----------------------------------------------------------------------------
(* Commands of the host *)

Later == {s \in Own : s > now}

Kept(S) == {s \in S : Cardinality(Newer(S, s)) < retain}

(* What the bucket holds of s once dump and card are sent, and once the upload of the     *)
(* card failed.                                                                           *)
Sent(s) ==
  IF \/ disk'[s] # "absent" /\ bucket[s] = "absent"
     \/ disk'[s] = "whole" /\ bucket[s] = "bare"
  THEN disk'[s] ELSE bucket[s]

HalfSent(s) ==
  IF disk'[s] = "whole" /\ bucket[s] = "absent" THEN "bare" ELSE Sent(s)

(* upload_backups: the oldest first, up to the one that fails. *)
Upload ==
  \E last \in 0..MaxStamp, half \in BOOLEAN :
    bucket' = [s \in Stamp |-> IF s > last THEN bucket[s]
                              ELSE IF s = last /\ half THEN HalfSent(s) ELSE Sent(s)]

(* run_backup: the dump, then retention over all there is, where what cannot be removed   *)
(* stays, then the upload.                                                                *)
Backup ==
  LET new == Min(Later)
      all == Dumps \cup {new}
  IN  /\ Later # {}
      /\ now' = new
      /\ \E gone \in SUBSET (all \ Kept(all)) :
           disk' = [s \in Stamp |-> IF s = new THEN "whole"
                                   ELSE IF s \in gone THEN "absent" ELSE disk[s]]
      /\ Upload
      /\ UNCHANGED <<retain, proof>>

(* Killed between the dump and its card. *)
BackupCutShort ==
  /\ Later # {}
  /\ now' = Min(Later)
  /\ disk' = [disk EXCEPT ![Min(Later)] = "bare"]
  /\ UNCHANGED <<retain, bucket, proof>>

Timer == (Backup \/ BackupCutShort) /\ UNCHANGED desk

Deploy ==
  /\ retain' \in Depths \ {retain}
  /\ UNCHANGED <<now, disk, bucket, proof, desk>>

Removed == {s \in Stamp : disk[s] # "absent" /\ disk'[s] = "absent"}

(* verify-backup reads the card first, and writes how it ended after whatever was written *)
(* before; a torn dump does not decrypt, whether or not it has a card.                    *)
Verify(s, ok) ==
  /\ disk[s] \in {"torn", "whole"}
  /\ ok => disk[s] = "whole" /\ s \notin Bad
  /\ proof' \in IF ok THEN {s} ELSE {proof, Nothing}

(* By its own timer, or by hand. *)
VerifyBackup ==
  /\ \E s \in Dumps, ok \in BOOLEAN : Verify(s, ok)
  /\ UNCHANGED <<now, retain, disk, bucket, desk>>

-----------------------------------------------------------------------------
(* restore_action *)

(* platform backups, then platform status. *)
List(c) ==
  /\ Stands(c, "idle")
  /\ Dumps \cup Remote # {}
  /\ desk' = [desk EXCEPT ![c] = [AtRest EXCEPT !.pc = "choose", !.local = Dumps,
                                             !.offsite = Remote \ Dumps, !.proven = proof]]
  /\ UNCHANGED hostVars

StepAfter(c, s) ==
  IF s \in desk[c].offsite THEN "fetch" ELSE IF s = desk[c].proven THEN "safety" ELSE "prove"

Choose(c) ==
  /\ Stands(c, "choose")
  /\ \E s \in desk[c].local \cup desk[c].offsite :
       desk' = [desk EXCEPT ![c] = [AtRest EXCEPT !.pc = StepAfter(c, s), !.chosen = s,
                                              !.local = desk[c].local]]
  /\ UNCHANGED hostVars

Proven(c, ok) == IF ok THEN MoveTo(c, "safety") ELSE Finish(c)

(* What the host holds of s after a download: of dump and card only what is not there.    *)
Fetched(s) ==
  IF disk[s] = "absent" \/ (disk[s] = "bare" /\ bucket[s] = "whole") THEN bucket[s] ELSE disk[s]

(* What a download that does not end leaves of s: a torn dump, a dump without its card, or *)
(* a torn card.                                                                           *)
HalfFetched(s) ==
  {part \in {"torn", "bare"} :
     \/ disk[s] = "absent" /\ bucket[s] # "absent" /\ (part = "bare" => bucket[s] # "torn")
     \/ disk[s] = "bare" /\ bucket[s] = "whole" /\ part = "torn"}

(* Mutant of Fetch: what comes from the bucket was checked when it was sent there. *)
FetchOnly(c) ==
  LET s == desk[c].chosen
  IN  /\ Stands(c, "fetch")
      /\ Fetched(s) \in {"torn", "whole"}
      /\ disk' = [disk EXCEPT ![s] = Fetched(s)]
      /\ MoveTo(c, "safety")
      /\ UNCHANGED <<now, retain, bucket, proof>>

(* verify-backup --from-offsite, with the operator's key on stdin: download_backup writes *)
(* dump and card under their own names, so when it is killed or the disk is full, what     *)
(* there is of them stays, and is listed as a dump of the host.                           *)
Fetch(c) ==
  LET s == desk[c].chosen
  IN  /\ Stands(c, "fetch")
      /\ \/ /\ Fetched(s) \in {"torn", "whole"}
            /\ disk' = [disk EXCEPT ![s] = Fetched(s)]
            /\ MoveTo(c, "prove")
         \/ (\E part \in HalfFetched(s) : disk' = [disk EXCEPT ![s] = part]) /\ Finish(c)
         \/ UNCHANGED disk /\ Finish(c)
      /\ UNCHANGED <<now, retain, bucket, proof>>

Prove(c) ==
  /\ Stands(c, "prove")
  /\ \/ \E ok \in BOOLEAN : Verify(desk[c].chosen, ok) /\ Proven(c, ok)
     \/ Finish(c) /\ UNCHANGED proof
  /\ UNCHANGED <<now, retain, disk, bucket>>

(* Mutant of WouldPrune: the new dump is not counted. *)
WouldPruneLate(S, s, depth) ==
  \/ \A t \in S : s <= t
  \/ depth # Nothing /\ Cardinality(Newer(S, s)) >= depth

(* safety_dump_would_prune *)
WouldPrune(S, s, depth) ==
  \/ \A t \in S : s <= t
  \/ depth # Nothing /\ Cardinality(Newer(S, s)) >= depth - 1

(* Retention acts on what is on the host: the local dumps, and the one just fetched. *)
OnHost(c) == desk[c].local \cup {desk[c].chosen}

AtRisk(c) == WouldPrune(OnHost(c), desk[c].chosen, LocalRetain[c])

(* No dump is taken of a state when that could cost the dump to restore, nor if the       *)
(* operator wants none.                                                                   *)
SkipSafety(c) ==
  /\ Stands(c, "safety")
  /\ desk' = [desk EXCEPT ![c].pc = "confirm", ![c].local = {}]
  /\ UNCHANGED hostVars

(* Mutant of SafetyDump: the console goes on as if the backup had succeeded. *)
SafetyAnyway(c) ==
  /\ Stands(c, "safety") /\ ~AtRisk(c)
  /\ Later # {}
  /\ desk' = [desk EXCEPT ![c].pc = "confirm", ![c].local = {}, ![c].way = Min(Later)]
  /\ Backup \/ UNCHANGED hostVars

(* The console stops if retention took what it was to restore. *)
SafetyDump(c) ==
  /\ Stands(c, "safety") /\ ~AtRisk(c)
  /\ Backup
  /\ IF desk[c].chosen \in Removed
     THEN Finish(c)
     ELSE desk' = [desk EXCEPT ![c].pc = "confirm", ![c].local = {}, ![c].way = now']

(* The command fails, if only at the upload, or the connection to it breaks. *)
SafetyFails(c) ==
  /\ Stands(c, "safety") /\ ~AtRisk(c)
  /\ Finish(c)
  /\ Backup \/ BackupCutShort \/ UNCHANGED hostVars

(* platform restore replaces the live database, whether or not it succeeds, when the dump *)
(* has its card and decrypts to the end.                                                  *)
Restore(c) ==
  /\ Stands(c, "confirm")
  /\ disk[desk[c].chosen] = "whole"
  /\ Finish(c)
  /\ UNCHANGED hostVars

(* Not confirmed, or refused by the host because the dump is gone, torn or without its    *)
(* card; a killed console too.                                                            *)
GiveUp(c) ==
  /\ ~Stands(c, "idle")
  /\ Finish(c)
  /\ UNCHANGED hostVars

-----------------------------------------------------------------------------
(* transfer_action *)

ListSource(c) ==
  /\ Stands(c, "idle")
  /\ \E s \in Foreign : desk' = [desk EXCEPT ![c].pc = "copy", ![c].chosen = s]
  /\ UNCHANGED hostVars

(* sudo cat on the source host, where retention goes on, then age -d | age -r here: what   *)
(* fails is GiveUp.                                                                        *)
CopyAndRekey(c) ==
  /\ Stands(c, "copy")
  /\ MoveTo(c, "import")
  /\ UNCHANGED hostVars

(* backup-import refuses a stamp that is there, and opens the head of the stream before   *)
(* it keeps the dump: a connection that breaks afterwards leaves a torn one.              *)
Import(c) ==
  LET s == desk[c].chosen
  IN  /\ Stands(c, "import")
      /\ s \notin Dumps /\ s <= now
      /\ \E content \in {"torn", "whole"} : disk' = [disk EXCEPT ![s] = content]
      /\ Finish(c)
      /\ UNCHANGED <<now, retain, bucket, proof>>

Step(c) ==
  \/ List(c) \/ Choose(c) \/ Fetch(c) \/ Prove(c)
  \/ SkipSafety(c) \/ SafetyDump(c) \/ SafetyFails(c) \/ Restore(c) \/ GiveUp(c)
  \/ ListSource(c) \/ CopyAndRekey(c) \/ Import(c)

ConsoleNext == (\E c \in Operator : Step(c)) \/ Timer \/ VerifyBackup \/ Deploy

ConsoleSpec == ConsoleInit /\ [][ConsoleNext]_consoleVars

-----------------------------------------------------------------------------
(* Properties *)

(* "The handbook's order, enforced rather than recommended": the live database is never *)
(* replaced from a dump that does not restore, however stale the list it was chosen from. *)
(* A dump may be proven by name only, as the proof is kept by stamp and its file may have *)
(* been pruned since, then fetched or imported in part; the host refuses that one.        *)
RestoresProven ==
  [][\A c \in Operator : Restore(c) => desk[c].chosen \notin Bad]_consoleVars

(* "It is the only way back": when a restore begins after a safety dump, a dump of this   *)
(* host that is not older is on disk, whatever timers and retention did while the         *)
(* operator was asked to confirm.                                                         *)
WayBackExists ==
  [][\A c \in Operator :
       Restore(c) /\ desk[c].way # Nothing =>
         \E s \in Own : s >= desk[c].way /\ disk[s] = "whole"]_consoleVars

(* Taking the safety dump never costs the dump that is to be restored, if the host still  *)
(* holds what the list said and retains no less than the operator's manifest says.        *)
SafetyDumpSpares ==
  [][\A c \in Operator :
       /\ SafetyDump(c)
       /\ Dumps = OnHost(c)
       /\ LocalRetain[c] # Nothing /\ LocalRetain[c] <= retain
       => desk[c].chosen \notin Removed]_consoleVars

=============================================================================
