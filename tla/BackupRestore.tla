--------------------------- MODULE BackupRestore ---------------------------
(***************************************************************************)
(* The dumps of one project/environment: taken, pruned, imported, uploaded *)
(* to object storage, fetched back, restored and verified.  Taking (with   *)
(* the prune), importing and restoring hold the environment's lock;        *)
(* uploading, fetching and verifying do not.                               *)
(*                                                                         *)
(* A dump is named by the second it was taken at and the reason; stamps of *)
(* one host are taken to be distinct and in order, and one stamp to mean   *)
(* one dump.  Files that are written aside and renamed are never listed    *)
(* before the rename.  A failure that changes nothing more, and any        *)
(* exception, is Kill.                                                     *)
(***************************************************************************)
EXTENDS Integers, FiniteSetsExt

CONSTANTS
  Proc,      \* concurrent invocations of the platform CLI
  MaxStamp,  \* bound: stamps are 1..MaxStamp, in the order of time
  Foreign,   \* the stamps of dumps that were taken on other hosts
  Retain,    \* database.backup.retain of the manifest
  None

ASSUME BackupAssumption ==
  /\ MaxStamp \in Nat \ {0}
  /\ Foreign \subseteq 1..MaxStamp
  /\ Retain \in Nat \ {0}
  /\ None \notin Proc

VARIABLES
  now,      \* the stamp of the last dump taken on this host
  known,    \* the ledger has a deployed release
  live,     \* "sound", or "mixed": a restore replaced it in part
  disk,     \* disk[n]: the file of that name in the backup directory
  bucket,   \* bucket[n]: the object of that name
  proof,    \* the last entry of verifications.json
  lock,     \* holder of the project/environment lock
  op        \* op[p]: what process p is doing

vars == <<now, known, live, disk, bucket, proof, lock, op>>

-----------------------------------------------------------------------------
(* State spaces *)

Stamp  == 1..MaxStamp
Suffix == {"dump", "card"}
Name   == Stamp \X Suffix

Dump(s) == <<s, "dump">>
Card(s) == <<s, "card">>

(* "torn": the file ends early.  A card is one small write and never torn here. *)
Content == {"absent", "torn", "whole"}

PC == {"idle", "dump", "card", "prune", "prune_card",   \* backup
       "list", "compare", "send",                       \* its upload
       "import", "fetch_dump", "write_dump", "fetch_card",
       "decrypt", "replacing",                          \* restore
       "throwaway", "prove", "record"}                  \* verify, which decrypts as well

Kind == {"none", "backup", "pre_migration", "import", "fetch", "restore", "verify"}

Operation ==
  [pc    : PC,
   kind  : Kind,
   stamp : Stamp \cup {None},
   todo  : SUBSET Name,        \* what is still to be pruned or sent
   local : SUBSET Stamp,       \* the dumps the upload listed, and did not find gone since
   body  : Content]            \* what was read, or decrypted into a scratch directory

Idle ==
  [pc |-> "idle", kind |-> "none", stamp |-> None, todo |-> {}, local |-> {}, body |-> "absent"]

Proof == [stamp : Stamp, outcome : {"succeeded", "failed"}]

TypeOK ==
  /\ now \in 0..MaxStamp
  /\ known \in BOOLEAN
  /\ live \in {"sound", "mixed"}
  /\ disk \in [Name -> Content]
  /\ bucket \in [Name -> Content]
  /\ proof \in Proof \cup {None}
  /\ lock \in Proc \cup {None}
  /\ op \in [Proc -> Operation]

Init ==
  /\ now = 0
  /\ known = TRUE
  /\ live = "sound"
  /\ disk = [n \in Name |-> "absent"]
  /\ bucket = [n \in Name |-> "absent"]
  /\ proof = None
  /\ lock = None
  /\ op = [p \in Proc |-> Idle]

-----------------------------------------------------------------------------
(* Helpers *)

At(p, pc) == op[p].pc = pc

Goto(p, pc) == op' = [op EXCEPT ![p].pc = pc]

Leave(p) ==
  /\ op' = [op EXCEPT ![p] = Idle]
  /\ lock' = IF lock = p THEN None ELSE lock

(* Mutant of LockScope: the command goes on when the lock is busy. *)
LockScopeIgnoringBusy(p) == lock' = p

(* project_environment_lock: taken at once, or the command fails. *)
LockScope(p) == lock = None /\ lock' = p

(* list_backups: a stamp is listed by its dump; the card is not looked at. *)
Listed == {s \in Stamp : disk[Dump(s)] # "absent"}

(* Mutant of Superseded: the list is sorted the other way. *)
NewestBeyondDepth(S) == {s \in S : Cardinality({t \in S : t < s}) >= Retain}

(* stamps[: max(len(stamps) - retain, 0)] *)
Superseded(S) == {s \in S : Cardinality({t \in S : t > s}) >= Retain}

(* Oldest stamp first, and the dump before its card. *)
Before(n, m) == n[1] < m[1] \/ (n[1] = m[1] /\ n[2] = "dump")

First(n, N) == n \in N /\ \A m \in N \ {n} : Before(n, m)

-----------------------------------------------------------------------------
(* run_backup and the dump before a migration *)

BeginBackup(p, kind) ==
  LET later == {s \in Stamp \ Foreign : s > now}
  IN  /\ At(p, "idle")
      /\ LockScope(p)
      /\ kind = "backup" => known
      /\ \E s \in later :
           /\ \A t \in later : s <= t
           /\ now' = s
           /\ op' = [op EXCEPT ![p] = [Idle EXCEPT !.pc = "dump", !.kind = kind, !.stamp = s]]
      /\ UNCHANGED <<known, live, disk, bucket, proof>>

(* prune_backups lists the directory once. *)
Plan == {Dump(s) : s \in Superseded(Listed')}

(* Mutant of DumpDatabase: the card is left for later, retention comes first. *)
DumpThenPrune(p) ==
  /\ At(p, "dump")
  /\ disk' = [disk EXCEPT ![Dump(op[p].stamp)] = "whole"]
  /\ op' = [op EXCEPT ![p].pc = "prune", ![p].todo = Plan]
  /\ UNCHANGED <<now, known, live, bucket, proof, lock>>

(* stream_encrypted_dump: renamed into place when both processes succeeded, before its  *)
(* card is written.                                                                     *)
DumpDatabase(p) ==
  /\ At(p, "dump")
  /\ disk' = [disk EXCEPT ![Dump(op[p].stamp)] = "whole"]
  /\ Goto(p, "card")
  /\ UNCHANGED <<now, known, live, bucket, proof, lock>>

WriteCard(p) ==
  /\ At(p, "card")
  /\ disk' = [disk EXCEPT ![Card(op[p].stamp)] = "whole"]
  /\ op' = [op EXCEPT ![p].pc = "prune", ![p].todo = Plan]
  /\ UNCHANGED <<now, known, live, bucket, proof, lock>>

(* A dump that cannot be removed is a warning, and keeps its card. *)
PruneDump(p) ==
  /\ At(p, "prune")
  /\ \E n \in op[p].todo :
       /\ First(n, op[p].todo)
       /\ \/ disk' = [disk EXCEPT ![n] = "absent"] /\ Goto(p, "prune_card")
          \/ op' = [op EXCEPT ![p].todo = @ \ {n}] /\ UNCHANGED disk
  /\ UNCHANGED <<now, known, live, bucket, proof, lock>>

PruneCard(p) ==
  /\ At(p, "prune_card")
  /\ \E n \in op[p].todo :
       /\ First(n, op[p].todo)
       /\ disk' \in {disk, [disk EXCEPT ![Card(n[1])] = "absent"]}
       /\ op' = [op EXCEPT ![p].pc = "prune", ![p].todo = @ \ {n}]
  /\ UNCHANGED <<now, known, live, bucket, proof, lock>>

(* The lock is given up before the upload.  A deploy goes on with its migration. *)
EndPrune(p) ==
  /\ At(p, "prune")
  /\ op[p].todo = {}
  /\ IF op[p].kind = "pre_migration"
     THEN Leave(p)
     ELSE /\ op' = [op EXCEPT ![p].pc = "list"]
          /\ lock' = None
  /\ UNCHANGED <<now, known, live, disk, bucket, proof>>

-----------------------------------------------------------------------------
(* upload_backups *)

ListLocal(p) ==
  /\ At(p, "list")
  /\ op' = [op EXCEPT ![p].pc = "compare", ![p].local = Listed]
  /\ UNCHANGED <<now, known, live, disk, bucket, proof, lock>>

(* Mutant of CompareRemote: only the dump just taken is sent. *)
SendNewest(p) ==
  /\ At(p, "compare")
  /\ op' = [op EXCEPT ![p].pc = "send",
                      ![p].todo = {n \in {op[p].stamp} \X Suffix : bucket[n] = "absent"}]
  /\ UNCHANGED <<now, known, live, disk, bucket, proof, lock>>

(* pending_uploads: what was listed and the bucket does not have by name. *)
CompareRemote(p) ==
  /\ At(p, "compare")
  /\ op' = [op EXCEPT ![p].pc = "send",
                      ![p].todo = {n \in op[p].local \X Suffix : bucket[n] = "absent"}]
  /\ UNCHANGED <<now, known, live, disk, bucket, proof, lock>>

(* What is gone meanwhile is skipped; what is there is sent, whatever the bucket got    *)
(* since.  A failure ends the command.                                                  *)
Send(p) ==
  /\ At(p, "send")
  /\ \E n \in op[p].todo :
       /\ First(n, op[p].todo)
       /\ bucket' = IF disk[n] = "absent" THEN bucket ELSE [bucket EXCEPT ![n] = disk[n]]
       /\ op' = [op EXCEPT ![p].todo = @ \ {n},
                           ![p].local = IF disk[Dump(n[1])] = "absent" THEN @ \ {n[1]} ELSE @]
  /\ UNCHANGED <<now, known, live, disk, proof, lock>>

EndUpload(p) ==
  /\ At(p, "send")
  /\ op[p].todo = {}
  /\ Leave(p)
  /\ UNCHANGED <<now, known, live, disk, bucket, proof>>

-----------------------------------------------------------------------------
(* run_backup_import *)

(* The dump of another host comes with the stamp it has there.  Once its envelope was   *)
(* opened, the card is written first.                                                   *)
BeginImport(p, s) ==
  /\ At(p, "idle")
  /\ LockScope(p)
  /\ s \in Foreign /\ s <= now
  /\ disk[Dump(s)] = "absent" /\ disk[Card(s)] = "absent"
  /\ disk' = [disk EXCEPT ![Card(s)] = "whole"]
  /\ op' = [op EXCEPT ![p] = [Idle EXCEPT !.pc = "import", !.kind = "import", !.stamp = s]]
  /\ UNCHANGED <<now, known, live, bucket, proof>>

(* Only the head of the stream was opened: one that ended early is torn. *)
PlaceImport(p) ==
  /\ At(p, "import")
  /\ \E c \in {"torn", "whole"} : disk' = [disk EXCEPT ![Dump(op[p].stamp)] = c]
  /\ Leave(p)
  /\ UNCHANGED <<now, known, live, bucket, proof>>

(* A refused dump takes the card of its stamp away, whoever wrote it. *)
ImportFails(p) ==
  /\ At(p, "import")
  /\ disk' = [disk EXCEPT ![Card(op[p].stamp)] = "absent"]
  /\ Leave(p)
  /\ UNCHANGED <<now, known, live, bucket, proof>>

-----------------------------------------------------------------------------
(* download_backup, before the command takes any lock *)

(* restore and verify-backup with --from-offsite do this first and then go on as without. *)
BeginFetch(p, s) ==
  /\ At(p, "idle")
  /\ op' = [op EXCEPT ![p] = [Idle EXCEPT !.pc = "fetch_dump", !.kind = "fetch", !.stamp = s]]
  /\ UNCHANGED <<now, known, live, disk, bucket, proof, lock>>

(* A file that exists is not fetched.  The object is read into memory, then written to  *)
(* the file in place: until that is done the dump is listed and torn.                   *)
FetchDump(p) ==
  LET n == Dump(op[p].stamp)
  IN  /\ At(p, "fetch_dump")
      /\ \/ /\ disk[n] # "absent"
            /\ Goto(p, "fetch_card")
            /\ UNCHANGED disk
         \/ /\ disk[n] = "absent" /\ bucket[n] # "absent"
            /\ disk' = [disk EXCEPT ![n] = "torn"]
            /\ op' = [op EXCEPT ![p].pc = "write_dump", ![p].body = bucket[n]]
      /\ UNCHANGED <<now, known, live, bucket, proof, lock>>

(* The file may have been pruned since it was created. *)
WriteFetchedDump(p) ==
  LET n == Dump(op[p].stamp)
  IN  /\ At(p, "write_dump")
      /\ disk' = IF disk[n] = "torn" THEN [disk EXCEPT ![n] = op[p].body] ELSE disk
      /\ op' = [op EXCEPT ![p].pc = "fetch_card", ![p].body = "absent"]
      /\ UNCHANGED <<now, known, live, bucket, proof, lock>>

FetchCard(p) ==
  LET n == Card(op[p].stamp)
  IN  /\ At(p, "fetch_card")
      /\ "whole" \in {disk[n], bucket[n]}
      /\ disk' = [disk EXCEPT ![n] = "whole"]
      /\ Leave(p)
      /\ UNCHANGED <<now, known, live, bucket, proof>>

-----------------------------------------------------------------------------
(* run_restore and run_verify_backup *)

(* select_backup: without --from (None) the newest dump is taken. *)
Selected(from) == IF from = None THEN Max(Listed) ELSE from

(* What both commands begin with: the ledger knows the application, the dump is listed, *)
(* and read_metadata_card finds its card.                                               *)
Select(p, kind, from) ==
  /\ At(p, "idle")
  /\ known
  /\ Listed # {}
  /\ Selected(from) \in Listed
  /\ disk[Card(Selected(from))] = "whole"
  /\ op' = [op EXCEPT ![p] = [Idle EXCEPT !.pc = "decrypt", !.kind = kind,
                                          !.stamp = Selected(from)]]
  /\ UNCHANGED <<now, known, live, disk, bucket, proof>>

SelectToRestore(p, from) == LockScope(p) /\ Select(p, "restore", from)

SelectToVerify(p, from) == Select(p, "verify", from) /\ UNCHANGED lock

(* verify-backup --all, as far as this environment is concerned: the newest, if there   *)
(* is one.                                                                              *)
VerifyNewest(p) == SelectToVerify(p, None)

(* decrypt_dump: age refuses a file that ends early, after it wrote what it could read. *)
Decrypts(p) == disk[Dump(op[p].stamp)] = "whole"

(* Mutant of DecryptToRestore: the exit code of age is not looked at. *)
DecryptAnyway(p) ==
  /\ At(p, "decrypt")
  /\ op[p].kind = "restore"
  /\ live' = "mixed"
  /\ op' = [op EXCEPT ![p].pc = "replacing", ![p].body = disk[Dump(op[p].stamp)]]
  /\ UNCHANGED <<now, known, disk, bucket, proof, lock>>

(* restore_backup: from the decrypted copy alone.  pg_restore --clean is not one         *)
(* transaction: until it ends the database is mixed.                                    *)
DecryptToRestore(p) ==
  /\ At(p, "decrypt")
  /\ op[p].kind = "restore"
  /\ Decrypts(p)
  /\ live' = "mixed"
  /\ op' = [op EXCEPT ![p].pc = "replacing", ![p].body = disk[Dump(op[p].stamp)]]
  /\ UNCHANGED <<now, known, disk, bucket, proof, lock>>

RestoreSucceeds(p) ==
  /\ At(p, "replacing")
  /\ live' = IF op[p].body = "whole" THEN "sound" ELSE live
  /\ Leave(p)
  /\ UNCHANGED <<now, known, disk, bucket, proof>>

(* What goes wrong is the outcome, and recorded. *)
Disproved(p) == op' = [op EXCEPT ![p].pc = "record", ![p].body = "torn"]

(* verify_backup: a failure before the dump is proven is one of these steps failing. *)
DecryptToVerify(p) ==
  /\ At(p, "decrypt")
  /\ op[p].kind = "verify"
  /\ \/ Decrypts(p) /\ op' = [op EXCEPT ![p].pc = "throwaway", ![p].body = "whole"]
     \/ Disproved(p)
  /\ UNCHANGED <<now, known, live, disk, bucket, proof, lock>>

(* start_verification_container and wait_until_ready: a server of its own, with neither *)
(* network nor volume.                                                                  *)
StartThrowaway(p) ==
  /\ At(p, "throwaway")
  /\ Goto(p, "prove") \/ Disproved(p)
  /\ UNCHANGED <<now, known, live, disk, bucket, proof, lock>>

(* run_pg_restore there, run_validation_query, and remove_container either way. *)
Prove(p) ==
  /\ At(p, "prove")
  /\ Goto(p, "record") \/ Disproved(p)
  /\ UNCHANGED <<now, known, live, disk, bucket, proof, lock>>

(* record_verification, of which only the last entry is read by anybody. *)
RecordVerification(p) ==
  /\ At(p, "record")
  /\ proof' = [stamp   |-> op[p].stamp,
               outcome |-> IF op[p].body = "whole" THEN "succeeded" ELSE "failed"]
  /\ Leave(p)
  /\ UNCHANGED <<now, known, live, disk, bucket>>

-----------------------------------------------------------------------------
(* The environment *)

(* A purge of a retired application, in one step. *)
Purge(p) ==
  /\ At(p, "idle")
  /\ lock = None
  /\ known' = FALSE
  /\ live' = "sound"
  /\ disk' = [n \in Name |-> "absent"]
  /\ proof' = None
  /\ UNCHANGED <<now, bucket, lock, op>>

Deploy(p) ==
  /\ At(p, "idle")
  /\ lock = None
  /\ ~known
  /\ known' = TRUE
  /\ UNCHANGED <<now, live, disk, bucket, proof, lock, op>>

Kill(p) ==
  /\ ~At(p, "idle")
  /\ Leave(p)
  /\ UNCHANGED <<now, known, live, disk, bucket, proof>>

Step(p) ==
  \/ \E kind \in {"backup", "pre_migration"} : BeginBackup(p, kind)
  \/ DumpDatabase(p) \/ WriteCard(p) \/ PruneDump(p) \/ PruneCard(p) \/ EndPrune(p)
  \/ ListLocal(p) \/ CompareRemote(p) \/ Send(p) \/ EndUpload(p)
  \/ \E s \in Stamp : BeginImport(p, s) \/ BeginFetch(p, s)
  \/ PlaceImport(p) \/ ImportFails(p)
  \/ FetchDump(p) \/ WriteFetchedDump(p) \/ FetchCard(p)
  \/ \E from \in Stamp \cup {None} : SelectToRestore(p, from) \/ SelectToVerify(p, from)
  \/ VerifyNewest(p)
  \/ DecryptToRestore(p) \/ RestoreSucceeds(p)
  \/ DecryptToVerify(p) \/ StartThrowaway(p) \/ Prove(p) \/ RecordVerification(p)
  \/ Purge(p) \/ Deploy(p) \/ Kill(p)

Next == \E p \in Proc : Step(p)

Spec == Init /\ [][Next]_vars

-----------------------------------------------------------------------------
(* Properties *)

(* A backup that gives the lock up has its own dump and card on disk and it is the      *)
(* newest there, whatever the retained count and whatever was imported or fetched while *)
(* it ran.                                                                              *)
BackupKept ==
  [][\A p \in Proc : EndPrune(p) =>
       /\ disk[Dump(op[p].stamp)] = "whole"
       /\ disk[Card(op[p].stamp)] = "whole"
       /\ \A s \in Listed : s <= op[p].stamp]_vars

(* The dumps that were taken here and that restore would accept. *)
Restorable ==
  {s \in Stamp \ Foreign : disk[Dump(s)] = "whole" /\ disk[Card(s)] = "whole"}

Store == INSTANCE BackupStore WITH listed <- Listed, restorable <- Restorable

(* Retention "drops the oldest dumps, never the newest": short of a purge, a dump or a  *)
(* card goes only while a newer dump of this host stays that restore would accept, with *)
(* its card, whatever is killed, imported or fetched meanwhile.  Torn dumps and those   *)
(* of other hosts count for the retained number, but never instead of that one.         *)
StoreImplemented == Store!Spec

(* A restore that succeeds has replaced the database by the dump it was asked for, all  *)
(* of it, and that dump is still there: nobody prunes, imports or fetches over it in    *)
(* the meantime.                                                                        *)
RestoreHoldsItsSource ==
  [][\A p \in Proc : RestoreSucceeds(p) =>
       op[p].body = "whole" /\ disk[Dump(op[p].stamp)] = op[p].body]_vars

(* No dump is taken of a database that a running restore is replacing. *)
NoDumpDuringRestore ==
  [][\A p, q \in Proc : DumpDatabase(p) => ~At(q, "replacing")]_vars

(* "The upload reconciles rather than pushes": an upload that ends well leaves every    *)
(* dump that it found on the host and that is still there in the bucket, also those an  *)
(* earlier run failed to send.                                                          *)
UploadReconciles ==
  [][\A p \in Proc : EndUpload(p) =>
       \A s \in op[p].local \cap Listed : bucket[Dump(s)] # "absent"]_vars

=============================================================================
