------------------------ MODULE BackupRestoreProofs ------------------------
(***************************************************************************)
(* Theorems about BackupRestore, for any number of stamps and processes    *)
(* and any retained count: that it implements BackupStore, so what         *)
(* retention leaves; what a restore and an upload that end well have done. *)
(***************************************************************************)
EXTENDS BackupRestore, FiniteSetTheorems, TLAPS

-----------------------------------------------------------------------------
(* The inductive invariant *)

(* The commands that work under the lock hold it. *)
Working == {"dump", "card", "prune", "prune_card", "import", "replacing"}

HoldsLock(p) == op[p].pc \in Working \/ (op[p].pc = "decrypt" /\ op[p].kind = "restore")

Exclusive == \A p \in Proc : HoldsLock(p) => lock = p

(* No dump has a stamp that is still to come, on the host or in the bucket. *)
NoFuture ==
  \A s \in Stamp : disk[Dump(s)] # "absent" \/ bucket[Dump(s)] # "absent" => s <= now

(* A command is about a stamp, and what a download has in hand is something. *)
Stamped(p) == op[p].pc # "idle" => op[p].stamp \in Stamp
Fetched(p) == op[p].pc = "write_dump" => op[p].body # "absent"

(* A dump that is imported was taken before, on another host. *)
Importing(p) == op[p].pc = "import" => op[p].stamp <= now /\ op[p].stamp \in Foreign

(* The dump of a backup under way is this host's and the newest there is; once it and its *)
(* card are written they stay, as only older dumps are to be pruned.                      *)
Taken(p) ==
  /\ op[p].pc \in {"dump", "card", "prune", "prune_card"} =>
       op[p].stamp = now /\ op[p].stamp \notin Foreign
  /\ op[p].pc \in {"card", "prune", "prune_card"} => disk[Dump(op[p].stamp)] = "whole"
  /\ op[p].pc \in {"prune", "prune_card"} =>
       /\ disk[Card(op[p].stamp)] = "whole"
       /\ \A n \in op[p].todo : n[1] < op[p].stamp /\ n = Dump(n[1])

(* What a restore replaces the database by is the dump on disk, and all of it. *)
Held(p) ==
  op[p].pc = "replacing" => op[p].body = "whole" /\ disk[Dump(op[p].stamp)] = "whole"

(* What an upload found and is not in the bucket is still to be sent. *)
Reconciling(p) ==
  op[p].pc = "send" =>
    \A s \in op[p].local : bucket[Dump(s)] # "absent" \/ Dump(s) \in op[p].todo

Own(p) == Stamped(p) /\ Fetched(p) /\ Importing(p) /\ Taken(p) /\ Held(p) /\ Reconciling(p)

IInv == TypeOK /\ Exclusive /\ NoFuture /\ (\A p \in Proc : Own(p))

-----------------------------------------------------------------------------
(* Lemmas about the helpers *)

(* A name is that of the dump or of the card of its stamp. *)
LEMMA Names ==
  /\ \A s, t \in Stamp : /\ Dump(s) \in Name /\ Card(s) \in Name /\ Dump(s) # Card(t)
                         /\ Dump(s) = Dump(t) => s = t
                         /\ Card(s) = Card(t) => s = t
                         /\ Dump(s)[1] = s
  /\ \A n \in Name : n[1] \in Stamp /\ (n = Dump(n[1]) \/ n = Card(n[1]))
  BY DEF Dump, Card, Name, Suffix

(* The newest stamp is never among those retention supersedes. *)
LEMMA NewestStays ==
  ASSUME NEW S \in SUBSET Stamp, NEW s \in Superseded(S)
  PROVE  \E t \in S : t > s
  <1>1. Cardinality({t \in S : t > s}) >= Retain
    BY DEF Superseded
  <1>2. {t \in S : t > s} # {}
    BY <1>1, FS_EmptySet, BackupAssumption
  <1> QED BY <1>2

(* What a step makes of the record of its command is well-formed. *)
LEMMA Typed ==
  ASSUME TypeOK, NEW p \in Proc
  PROVE  /\ op[p] \in Operation /\ Idle \in Operation
         /\ \A pc \in PC : [op[p] EXCEPT !.pc = pc] \in Operation
         /\ \A r \in Operation : /\ [op EXCEPT ![p] = r] \in [Proc -> Operation]
                                 /\ [op EXCEPT ![p] = r][p] = r
                                 /\ \A q \in Proc \ {p} : [op EXCEPT ![p] = r][q] = op[q]
  <1>1. op[p] \in Operation
    BY DEF TypeOK
  <1>2. Idle \in Operation
    BY DEF Idle, Operation, PC, Kind, Content
  <1>3. \A pc \in PC : [op[p] EXCEPT !.pc = pc] \in Operation
    BY <1>1 DEF Operation
  <1>4. \A r \in Operation : /\ [op EXCEPT ![p] = r] \in [Proc -> Operation]
                             /\ [op EXCEPT ![p] = r][p] = r
                             /\ \A q \in Proc \ {p} : [op EXCEPT ![p] = r][q] = op[q]
    BY DEF TypeOK
  <1> QED BY <1>1, <1>2, <1>3, <1>4

LEMMA Initially == Init => IInv
  <1> SUFFICES ASSUME Init PROVE IInv
    OBVIOUS
  <1>1. TypeOK
    <2>1. Idle \in Operation
      BY DEF Idle, Operation, PC, Kind, Content
    <2> QED BY <2>1, BackupAssumption DEF Init, TypeOK, Content
  <1>2. Exclusive /\ \A p \in Proc : Own(p)
    BY DEF Init, Exclusive, HoldsLock, Working, Own, Stamped, Fetched, Importing, Taken, Held,
           Reconciling, Idle
  <1>3. NoFuture
    BY Names DEF Init, NoFuture
  <1> QED BY <1>1, <1>2, <1>3 DEF IInv
-----------------------------------------------------------------------------
(* What every step keeps *)

(* What a step of p leaves to the others: nobody who works under the lock loses it, or    *)
(* finds a file gone or the clock ahead; nothing leaves the bucket.                       *)
Frame(p) ==
  /\ \A q \in Proc \ {p} : op'[q] = op[q]
  /\ HoldsLock(p)' => lock' = p
  /\ lock \notin {None, p} => /\ lock' = lock
                              /\ now' = now
                              /\ \A n \in Name : disk[n] = "whole" => disk'[n] = "whole"
  /\ now <= now'
  /\ \A s \in Stamp : bucket[Dump(s)] # "absent" => bucket'[Dump(s)] # "absent"
  /\ NoFuture'

LEMMA Kept ==
  ASSUME IInv, NEW p \in Proc, TypeOK', Frame(p), Own(p)'
  PROVE  IInv'
  <1>1. Exclusive'
    <2> SUFFICES ASSUME NEW q \in Proc, HoldsLock(q)' PROVE lock' = q
      BY DEF Exclusive
    <2>1. CASE q = p
      BY <2>1 DEF Frame
    <2>2. CASE q # p
      <3>1. HoldsLock(q)
        BY <2>2 DEF Frame, HoldsLock
      <3>2. lock = q
        BY <3>1 DEF IInv, Exclusive
      <3> QED BY <2>2, <3>2, BackupAssumption DEF Frame
    <2> QED BY <2>1, <2>2
  <1>2. ASSUME NEW q \in Proc PROVE Own(q)'
    <2>1. CASE q = p
      BY <2>1
    <2>2. CASE q # p
      <3>1. Own(q) /\ op'[q] = op[q]
        BY <2>2 DEF IInv, Frame
      <3>2. ASSUME HoldsLock(q)
            PROVE  now' = now /\ \A n \in Name : disk[n] = "whole" => disk'[n] = "whole"
        BY <2>2, <3>2, BackupAssumption DEF Frame, IInv, Exclusive
      <3>3. Stamped(q)' /\ Fetched(q)'
        BY <3>1 DEF Own, Stamped, Fetched
      <3>4. Importing(q)'
        <4>1. op[q].pc = "import" => op[q].stamp \in Stamp
          BY <3>1 DEF Own, Stamped
        <4>2. now \in Int /\ now' \in Int
          BY BackupAssumption DEF IInv, TypeOK
        <4> QED BY <3>1, <4>1, <4>2 DEF Own, Importing, Frame, Stamp
      <3>5. Taken(q)'
        <4>1. op[q].pc \in {"dump", "card", "prune", "prune_card"} =>
                HoldsLock(q) /\ Dump(op[q].stamp) \in Name /\ Card(op[q].stamp) \in Name
          BY <3>1, Names DEF HoldsLock, Working, Own, Stamped
        <4> QED BY <3>1, <3>2, <4>1 DEF Own, Taken
      <3>6. Held(q)'
        <4>1. op[q].pc = "replacing" => HoldsLock(q) /\ Dump(op[q].stamp) \in Name
          BY <3>1, Names DEF HoldsLock, Working, Own, Stamped
        <4> QED BY <3>1, <3>2, <4>1 DEF Own, Held
      <3>7. Reconciling(q)'
        <4>1. op[q].local \subseteq Stamp
          BY DEF IInv, TypeOK, Operation
        <4> QED BY <3>1, <4>1 DEF Own, Reconciling, Frame
      <3> QED BY <3>3, <3>4, <3>5, <3>6, <3>7 DEF Own
    <2> QED BY <2>1, <2>2
  <1> QED BY <1>1, <1>2 DEF IInv, Frame

(* A command that goes on, changing nothing of its record but the counter. *)
LEMMA Goes ==
  ASSUME TypeOK, NEW p \in Proc, NEW pc \in PC, Goto(p, pc)
  PROVE  /\ op' \in [Proc -> Operation]
         /\ \A q \in Proc \ {p} : op'[q] = op[q]
         /\ op'[p].pc = pc
         /\ op'[p].kind = op[p].kind /\ op'[p].stamp = op[p].stamp /\ op'[p].todo = op[p].todo
         /\ op'[p].local = op[p].local /\ op'[p].body = op[p].body
  <1> DEFINE r == [op[p] EXCEPT !.pc = pc]
  <1>1. r \in Operation /\ op[p] \in Operation
    BY Typed
  <1>2. op' = [op EXCEPT ![p] = r]
    BY DEF Goto
  <1>3. op' \in [Proc -> Operation] /\ op'[p] = r /\ \A q \in Proc \ {p} : op'[q] = op[q]
    BY <1>1, <1>2, Typed
  <1>4. r.pc = pc /\ r.kind = op[p].kind /\ r.stamp = op[p].stamp /\ r.todo = op[p].todo
        /\ r.local = op[p].local /\ r.body = op[p].body
    BY <1>1 DEF Operation
  <1> QED BY <1>3, <1>4

(* A command that is over holds nothing. *)
LEMMA Leaves ==
  ASSUME TypeOK, NEW p \in Proc, Leave(p)
  PROVE  /\ op' \in [Proc -> Operation] /\ lock' \in Proc \cup {None}
         /\ \A q \in Proc \ {p} : op'[q] = op[q]
         /\ lock # p => lock' = lock
         /\ ~HoldsLock(p)' /\ Own(p)'
  <1>1. op' = [op EXCEPT ![p] = Idle] /\ lock' = IF lock = p THEN None ELSE lock
    BY DEF Leave
  <1>2. op' \in [Proc -> Operation] /\ op'[p] = Idle /\ \A q \in Proc \ {p} : op'[q] = op[q]
    BY <1>1, Typed
  <1>3. op'[p].pc = "idle"
    BY <1>2 DEF Idle
  <1>4. ~HoldsLock(p)' /\ Own(p)'
    BY <1>3 DEF HoldsLock, Working, Own, Stamped, Fetched, Importing, Taken, Held, Reconciling
  <1> QED BY <1>1, <1>2, <1>4 DEF TypeOK

(* A step that touches no file. *)
LEMMA Quiet ==
  ASSUME IInv, NEW p \in Proc, UNCHANGED <<now, disk, bucket>>,
         \A q \in Proc \ {p} : op'[q] = op[q],
         HoldsLock(p)' => lock' = p, lock \notin {None, p} => lock' = lock
  PROVE  Frame(p)
  <1>1. now <= now'
    BY BackupAssumption DEF IInv, TypeOK
  <1>2. NoFuture'
    BY DEF IInv, NoFuture
  <1> QED BY <1>1, <1>2 DEF Frame

(* A command that begins, under a lock it finds free or without one. *)
Begun(p, pc, kind, s) ==
  op' = [op EXCEPT ![p] = [Idle EXCEPT !.pc = pc, !.kind = kind, !.stamp = s]]

LEMMA Begins ==
  ASSUME TypeOK, NEW p \in Proc, NEW pc \in PC, NEW kind \in Kind, NEW s \in Stamp,
         Begun(p, pc, kind, s)
  PROVE  /\ op' \in [Proc -> Operation]
         /\ \A q \in Proc \ {p} : op'[q] = op[q]
         /\ op'[p].pc = pc /\ op'[p].kind = kind /\ op'[p].stamp = s
         /\ op'[p].todo = {} /\ op'[p].local = {} /\ op'[p].body = "absent"
  <1> DEFINE r == [Idle EXCEPT !.pc = pc, !.kind = kind, !.stamp = s]
  <1>1. r \in Operation
    BY DEF Idle, Operation, Content
  <1>2. op' \in [Proc -> Operation] /\ op'[p] = r /\ \A q \in Proc \ {p} : op'[q] = op[q]
    BY <1>1, Typed DEF Begun
  <1>3. r.pc = pc /\ r.kind = kind /\ r.stamp = s /\ r.todo = {} /\ r.local = {}
        /\ r.body = "absent"
    BY DEF Idle
  <1> QED BY <1>2, <1>3

-----------------------------------------------------------------------------
(* The commands that touch no file *)

LEMMA BeginFetchKeeps ==
  ASSUME IInv, NEW p \in Proc, NEW s \in Stamp, BeginFetch(p, s)
  PROVE  IInv'
  <1>1. /\ Begun(p, "fetch_dump", "fetch", s)
        /\ UNCHANGED <<now, known, live, disk, bucket, proof, lock>>
    BY DEF BeginFetch, Begun
  <1>2. /\ op' \in [Proc -> Operation] /\ \A q \in Proc \ {p} : op'[q] = op[q]
        /\ op'[p].pc = "fetch_dump" /\ op'[p].kind = "fetch" /\ op'[p].stamp = s
    BY <1>1, Begins DEF IInv, PC, Kind
  <1>3. TypeOK'
    BY <1>1, <1>2 DEF IInv, TypeOK
  <1>4. Frame(p)
    BY <1>1, <1>2, Quiet DEF HoldsLock, Working
  <1>5. Own(p)'
    BY <1>2 DEF Own, Stamped, Fetched, Importing, Taken, Held, Reconciling
  <1> QED BY <1>3, <1>4, <1>5, Kept

LEMMA SelectKeeps ==
  ASSUME IInv, NEW p \in Proc, NEW from \in Stamp \cup {None},
         SelectToRestore(p, from) \/ SelectToVerify(p, from)
  PROVE  IInv'
  <1>1. PICK kind \in {"restore", "verify"} :
          IF kind = "restore" THEN LockScope(p) /\ Select(p, kind, from)
          ELSE Select(p, kind, from) /\ UNCHANGED lock
    BY DEF SelectToRestore, SelectToVerify
  <1>2. /\ lock' \in {lock, p} /\ (lock' # lock => lock = None)
        /\ kind = "restore" => lock' = p
        /\ UNCHANGED <<now, known, live, disk, bucket, proof>>
    BY <1>1 DEF LockScope, Select
  <1>3. PICK s \in Stamp : Begun(p, "decrypt", kind, s)
    BY <1>1 DEF Select, Listed, Begun
  <1>4. /\ op' \in [Proc -> Operation] /\ \A q \in Proc \ {p} : op'[q] = op[q]
        /\ op'[p].pc = "decrypt" /\ op'[p].kind = kind /\ op'[p].stamp = s
    BY <1>3, Begins DEF IInv, PC, Kind
  <1>5. TypeOK'
    BY <1>2, <1>4 DEF IInv, TypeOK
  <1>6. Frame(p)
    BY <1>1, <1>2, <1>4, Quiet DEF HoldsLock, Working
  <1>7. Own(p)'
    BY <1>1, <1>4 DEF Own, Stamped, Fetched, Importing, Taken, Held, Reconciling
  <1> QED BY <1>5, <1>6, <1>7, Kept

(* A failed step of a verification only changes what will be recorded. *)
LEMMA DisprovedKeeps ==
  ASSUME IInv, NEW p \in Proc, op[p].pc # "idle", Disproved(p),
         UNCHANGED <<now, known, live, disk, bucket, proof, lock>>
  PROVE  IInv'
  <1> DEFINE r == [op[p] EXCEPT !.pc = "record", !.body = "torn"]
  <1>1. r \in Operation /\ r.pc = "record" /\ r.stamp = op[p].stamp
    <2>1. op[p] \in Operation
      BY Typed DEF IInv
    <2> QED BY <2>1 DEF Operation, PC, Content
  <1>2. op' = [op EXCEPT ![p] = r]
    BY DEF Disproved
  <1>3. op' \in [Proc -> Operation] /\ op'[p] = r /\ \A q \in Proc \ {p} : op'[q] = op[q]
    BY <1>1, <1>2, Typed DEF IInv
  <1>4. op'[p].pc = "record" /\ op'[p].stamp \in Stamp
    BY <1>1, <1>3 DEF IInv, Own, Stamped
  <1>5. TypeOK'
    BY <1>3 DEF IInv, TypeOK
  <1>6. Frame(p)
    BY <1>3, <1>4, Quiet DEF HoldsLock, Working
  <1>7. Own(p)'
    BY <1>4 DEF Own, Stamped, Fetched, Importing, Taken, Held, Reconciling
  <1> QED BY <1>5, <1>6, <1>7, Kept

LEMMA VerifyKeeps ==
  ASSUME IInv, NEW p \in Proc, DecryptToVerify(p) \/ StartThrowaway(p) \/ Prove(p)
  PROVE  IInv'
  <1>1. op[p].pc # "idle" /\ UNCHANGED <<now, known, live, disk, bucket, proof, lock>>
    BY DEF DecryptToVerify, StartThrowaway, Prove, At
  <1>2. CASE Disproved(p)
    BY <1>1, <1>2, DisprovedKeeps
  <1>3. CASE ~Disproved(p)
    <2> DEFINE pc == IF DecryptToVerify(p) THEN "throwaway"
                     ELSE IF StartThrowaway(p) THEN "prove" ELSE "record"
               r == IF DecryptToVerify(p) THEN [op[p] EXCEPT !.pc = "throwaway", !.body = "whole"]
                    ELSE [op[p] EXCEPT !.pc = pc]
    <2>1. op' = [op EXCEPT ![p] = r]
      BY <1>3 DEF DecryptToVerify, StartThrowaway, Prove, Goto
    <2>2. r \in Operation /\ r.pc = pc /\ r.stamp = op[p].stamp
      <3>1. op[p] \in Operation
        BY Typed DEF IInv
      <3> QED BY <3>1 DEF Operation, PC, Content
    <2>3. pc \in {"throwaway", "prove", "record"}
      OBVIOUS
    <2> HIDE DEF r, pc
    <2>4. op' \in [Proc -> Operation] /\ op'[p] = r /\ \A q \in Proc \ {p} : op'[q] = op[q]
      BY <2>1, <2>2, Typed DEF IInv
    <2>5. op'[p].pc \in {"throwaway", "prove", "record"} /\ op'[p].stamp \in Stamp
      BY <1>1, <2>2, <2>3, <2>4 DEF IInv, Own, Stamped
    <2>6. TypeOK'
      BY <1>1, <2>4 DEF IInv, TypeOK
    <2>7. Frame(p)
      BY <1>1, <2>4, <2>5, Quiet DEF HoldsLock, Working
    <2>8. Own(p)'
      BY <2>5 DEF Own, Stamped, Fetched, Importing, Taken, Held, Reconciling
    <2> QED BY <2>6, <2>7, <2>8, Kept
  <1> QED BY <1>2, <1>3

LEMMA RestoreKeeps ==
  ASSUME IInv, NEW p \in Proc, DecryptToRestore(p)
  PROVE  IInv'
  <1> DEFINE r == [op[p] EXCEPT !.pc = "replacing", !.body = disk[Dump(op[p].stamp)]]
  <1>1. /\ op[p].pc = "decrypt" /\ op[p].kind = "restore"
        /\ disk[Dump(op[p].stamp)] = "whole" /\ live' = "mixed"
        /\ op' = [op EXCEPT ![p] = r]
        /\ UNCHANGED <<now, known, disk, bucket, proof, lock>>
    BY DEF DecryptToRestore, Decrypts, At
  <1>2. op[p].stamp \in Stamp /\ lock = p
    BY <1>1 DEF IInv, Own, Stamped, Exclusive, HoldsLock
  <1>3. /\ r \in Operation /\ r.pc = "replacing" /\ r.stamp = op[p].stamp
        /\ r.body = "whole"
    <2>1. op[p] \in Operation
      BY Typed DEF IInv
    <2> QED BY <1>1, <2>1 DEF Operation, PC, Content
  <1> HIDE DEF r
  <1>4. op' \in [Proc -> Operation] /\ op'[p] = r /\ \A q \in Proc \ {p} : op'[q] = op[q]
    BY <1>1, <1>3, Typed DEF IInv
  <1>5. op'[p].pc = "replacing" /\ op'[p].stamp = op[p].stamp /\ op'[p].body = "whole"
    BY <1>3, <1>4
  <1>6. TypeOK'
    BY <1>1, <1>4 DEF IInv, TypeOK
  <1>7. Frame(p)
    BY <1>1, <1>2, <1>4, Quiet
  <1>8. Own(p)'
    BY <1>1, <1>2, <1>5 DEF Own, Stamped, Fetched, Importing, Taken, Held, Reconciling
  <1> QED BY <1>6, <1>7, <1>8, Kept

(* The steps a command ends with, and the death of one. *)
LEMMA EndKeeps ==
  ASSUME IInv, NEW p \in Proc, Leave(p), UNCHANGED <<now, disk, bucket>>,
         known' \in BOOLEAN, live' \in {"sound", "mixed"}, proof' \in Proof \cup {None}
  PROVE  IInv'
  <1>1. /\ op' \in [Proc -> Operation] /\ lock' \in Proc \cup {None}
        /\ \A q \in Proc \ {p} : op'[q] = op[q]
        /\ lock # p => lock' = lock
        /\ ~HoldsLock(p)' /\ Own(p)'
    BY Leaves DEF IInv
  <1>2. TypeOK'
    BY <1>1 DEF IInv, TypeOK
  <1>3. Frame(p)
    BY <1>1, Quiet
  <1> QED BY <1>1, <1>2, <1>3, Kept

LEMMA EndingsKeep ==
  ASSUME IInv, NEW p \in Proc,
         RestoreSucceeds(p) \/ RecordVerification(p) \/ EndUpload(p) \/ Kill(p)
  PROVE  IInv'
  <1>1. Leave(p) /\ UNCHANGED <<now, disk, bucket>>
    BY DEF RestoreSucceeds, RecordVerification, EndUpload, Kill
  <1>2. known' \in BOOLEAN /\ live' \in {"sound", "mixed"}
    BY DEF RestoreSucceeds, RecordVerification, EndUpload, Kill, IInv, TypeOK
  <1>3. proof' \in Proof \cup {None}
    <2>1. CASE RecordVerification(p)
      <3>1. op[p].stamp \in Stamp
        BY <2>1 DEF RecordVerification, At, IInv, Own, Stamped
      <3> QED BY <2>1, <3>1 DEF RecordVerification, Proof
    <2>2. CASE proof' = proof
      BY <2>2 DEF IInv, TypeOK
    <2> QED BY <2>1, <2>2 DEF RestoreSucceeds, EndUpload, Kill
  <1> QED BY <1>1, <1>2, <1>3, EndKeeps

LEMMA DeployKeeps ==
  ASSUME IInv, NEW p \in Proc, Deploy(p)
  PROVE  IInv'
  <1>1. UNCHANGED <<now, live, disk, bucket, proof, lock, op>> /\ known' = TRUE
    BY DEF Deploy
  <1>2. TypeOK' /\ Exclusive' /\ NoFuture'
    BY <1>1 DEF IInv, TypeOK, Exclusive, HoldsLock, NoFuture
  <1>3. \A q \in Proc : Own(q)'
    BY <1>1 DEF IInv, Own, Stamped, Fetched, Importing, Taken, Held, Reconciling
  <1> QED BY <1>2, <1>3 DEF IInv

-----------------------------------------------------------------------------
(* The steps of an upload *)

(* A command that goes on and changes its lists. *)
Planned(p, pc, todo, local) ==
  op' = [op EXCEPT ![p] = [op[p] EXCEPT !.pc = pc, !.todo = todo, !.local = local]]

LEMMA Plans ==
  ASSUME TypeOK, NEW p \in Proc, NEW pc \in PC, NEW todo \in SUBSET Name,
         NEW local \in SUBSET Stamp, Planned(p, pc, todo, local)
  PROVE  /\ op' \in [Proc -> Operation]
         /\ \A q \in Proc \ {p} : op'[q] = op[q]
         /\ op'[p].pc = pc /\ op'[p].todo = todo /\ op'[p].local = local
         /\ op'[p].kind = op[p].kind /\ op'[p].stamp = op[p].stamp /\ op'[p].body = op[p].body
  <1> DEFINE r == [op[p] EXCEPT !.pc = pc, !.todo = todo, !.local = local]
  <1>1. op[p] \in Operation
    BY Typed
  <1>2. r \in Operation
    BY <1>1 DEF Operation
  <1>3. /\ r.pc = pc /\ r.todo = todo /\ r.local = local
        /\ r.kind = op[p].kind /\ r.stamp = op[p].stamp /\ r.body = op[p].body
    BY <1>1 DEF Operation
  <1> HIDE DEF r
  <1>4. op' \in [Proc -> Operation] /\ op'[p] = r /\ \A q \in Proc \ {p} : op'[q] = op[q]
    BY <1>2, Typed DEF r, Planned
  <1> QED BY <1>3, <1>4

LEMMA EndPruneKeeps ==
  ASSUME IInv, NEW p \in Proc, EndPrune(p)
  PROVE  IInv'
  <1>1. op[p].pc = "prune" /\ UNCHANGED <<now, known, live, disk, bucket, proof>>
    BY DEF EndPrune, At
  <1>2. CASE Leave(p)
    BY <1>1, <1>2, EndKeeps DEF IInv, TypeOK
  <1>3. CASE Goto(p, "list") /\ lock' = None
    <2>1. /\ op' \in [Proc -> Operation] /\ \A q \in Proc \ {p} : op'[q] = op[q]
          /\ op'[p].pc = "list" /\ op'[p].stamp = op[p].stamp
      BY <1>3, Goes DEF IInv, PC
    <2>2. lock = p /\ op[p].stamp \in Stamp
      BY <1>1 DEF IInv, Exclusive, HoldsLock, Working, Own, Stamped
    <2>3. TypeOK'
      BY <1>1, <1>3, <2>1 DEF IInv, TypeOK
    <2>4. Frame(p)
      BY <1>1, <2>1, <2>2, Quiet DEF HoldsLock, Working
    <2>5. Own(p)'
      BY <2>1, <2>2 DEF Own, Stamped, Fetched, Importing, Taken, Held, Reconciling
    <2> QED BY <2>3, <2>4, <2>5, Kept
  <1> QED BY <1>2, <1>3 DEF EndPrune, Goto

LEMMA ListKeeps ==
  ASSUME IInv, NEW p \in Proc, ListLocal(p) \/ CompareRemote(p)
  PROVE  IInv'
  <1>1. op[p] \in Operation
    BY Typed DEF IInv
  <1>2. UNCHANGED <<now, known, live, disk, bucket, proof, lock>> /\ op[p].stamp \in Stamp
    BY DEF ListLocal, CompareRemote, At, IInv, Own, Stamped
  <1>3. CASE ListLocal(p)
    <2>1. Planned(p, "compare", op[p].todo, Listed)
      BY <1>1, <1>3 DEF ListLocal, Operation, Planned
    <2>2. Listed \in SUBSET Stamp /\ op[p].todo \in SUBSET Name
      BY <1>1 DEF Listed, Operation
    <2>3. /\ op' \in [Proc -> Operation] /\ \A q \in Proc \ {p} : op'[q] = op[q]
          /\ op'[p].pc = "compare" /\ op'[p].stamp = op[p].stamp
      BY <2>1, <2>2, Plans DEF IInv, PC
    <2>4. TypeOK'
      BY <1>2, <2>3 DEF IInv, TypeOK
    <2>5. Frame(p)
      BY <1>2, <2>3, Quiet DEF HoldsLock, Working
    <2>6. Own(p)'
      BY <1>2, <2>3 DEF Own, Stamped, Fetched, Importing, Taken, Held, Reconciling
    <2> QED BY <2>4, <2>5, <2>6, Kept
  <1>4. CASE CompareRemote(p)
    <2> DEFINE todo == {n \in op[p].local \X Suffix : bucket[n] = "absent"}
    <2>1. Planned(p, "send", todo, op[p].local)
      BY <1>1, <1>4 DEF CompareRemote, Operation, Planned
    <2>2. todo \in SUBSET Name /\ op[p].local \in SUBSET Stamp
      BY <1>1 DEF Operation, Name
    <2>3. \A s \in op[p].local : bucket[Dump(s)] # "absent" \/ Dump(s) \in todo
      BY DEF Dump, Suffix
    <2> HIDE DEF todo
    <2>4. /\ op' \in [Proc -> Operation] /\ \A q \in Proc \ {p} : op'[q] = op[q]
          /\ op'[p].pc = "send" /\ op'[p].stamp = op[p].stamp /\ op'[p].todo = todo
          /\ op'[p].local = op[p].local
      BY <2>1, <2>2, Plans DEF IInv, PC
    <2>5. TypeOK'
      BY <1>2, <2>4 DEF IInv, TypeOK
    <2>6. Frame(p)
      BY <1>2, <2>4, Quiet DEF HoldsLock, Working
    <2>7. Own(p)'
      BY <1>2, <2>3, <2>4 DEF Own, Stamped, Fetched, Importing, Taken, Held, Reconciling
    <2> QED BY <2>5, <2>6, <2>7, Kept
  <1> QED BY <1>3, <1>4

LEMMA SendKeeps ==
  ASSUME IInv, NEW p \in Proc, Send(p)
  PROVE  IInv'
  <1>1. /\ op[p] \in Operation /\ op[p].pc = "send" /\ op[p].stamp \in Stamp
        /\ UNCHANGED <<now, known, live, disk, proof, lock>>
    BY Typed DEF Send, At, IInv, Own, Stamped
  <1>2. PICK n \in op[p].todo :
          /\ bucket' = IF disk[n] = "absent" THEN bucket ELSE [bucket EXCEPT ![n] = disk[n]]
          /\ op' = [op EXCEPT ![p].todo = @ \ {n},
                              ![p].local = IF disk[Dump(n[1])] = "absent" THEN @ \ {n[1]} ELSE @]
    BY DEF Send
  <1> DEFINE todo == op[p].todo \ {n}
             local == IF disk[Dump(n[1])] = "absent" THEN op[p].local \ {n[1]} ELSE op[p].local
  <1>3. Planned(p, "send", todo, local)
    BY <1>1, <1>2 DEF Operation, IInv, TypeOK, Planned
  <1>4. n \in Name /\ todo \in SUBSET Name /\ local \in SUBSET Stamp
    BY <1>1 DEF Operation
  <1>5. /\ op' \in [Proc -> Operation] /\ \A q \in Proc \ {p} : op'[q] = op[q]
        /\ op'[p].pc = "send" /\ op'[p].stamp = op[p].stamp /\ op'[p].todo = todo
        /\ op'[p].local = local
    <2> HIDE DEF todo, local
    <2> QED BY <1>3, <1>4, Plans DEF IInv, PC
  <1>6. /\ bucket' \in [Name -> Content]
        /\ \A m \in Name : bucket[m] # "absent" => bucket'[m] # "absent"
        /\ disk[n] # "absent" => bucket'[n] # "absent"
        /\ \A m \in Name : bucket'[m] # "absent" => bucket[m] # "absent" \/ disk[m] # "absent"
    BY <1>2, <1>4 DEF IInv, TypeOK
  <1>7. TypeOK'
    BY <1>1, <1>5, <1>6 DEF IInv, TypeOK
  <1>8. Frame(p)
    <2>1. now <= now'
      BY <1>1, BackupAssumption DEF IInv, TypeOK
    <2>2. NoFuture'
      BY <1>1, <1>6, Names DEF IInv, NoFuture
    <2> QED BY <1>1, <1>5, <1>6, <2>1, <2>2, Names DEF Frame, HoldsLock, Working
  <1>9. Own(p)'
    <2>1. Reconciling(p)'
      <3> SUFFICES ASSUME NEW s \in local
                   PROVE  bucket'[Dump(s)] # "absent" \/ Dump(s) \in todo
        BY <1>5 DEF Reconciling
      <3>1. s \in Stamp /\ s \in op[p].local /\ Dump(s) \in Name /\ Dump(s)[1] = s
        BY <1>4, Names
      <3>2. bucket[Dump(s)] # "absent" \/ Dump(s) \in op[p].todo
        BY <1>1, <3>1 DEF IInv, Own, Reconciling
      <3>3. CASE Dump(s) = n
        BY <1>6, <3>1, <3>3
      <3> QED BY <1>6, <3>1, <3>2, <3>3
    <2> HIDE DEF todo, local
    <2> QED BY <1>1, <1>5, <2>1 DEF Own, Stamped, Fetched, Importing, Taken, Held
  <1> QED BY <1>7, <1>8, <1>9, Kept

-----------------------------------------------------------------------------
(* The steps that write or remove one file *)

(* A step that writes one file, for all the clock says; under another's lock it never     *)
(* takes one that is whole.                                                               *)
LEMMA Writes ==
  ASSUME IInv, NEW p \in Proc, NEW n \in Name, NEW c \in Content,
         disk' = [disk EXCEPT ![n] = c], UNCHANGED <<now, bucket>>,
         \A q \in Proc \ {p} : op'[q] = op[q],
         HoldsLock(p)' => lock' = p,
         lock \notin {None, p} => lock' = lock /\ (disk[n] = "whole" => c = "whole"),
         \A s \in Stamp : n = Dump(s) /\ c # "absent" => s <= now
  PROVE  Frame(p) /\ disk' \in [Name -> Content]
  <1>1. disk' \in [Name -> Content] /\ \A m \in Name : disk'[m] = IF m = n THEN c ELSE disk[m]
    BY DEF IInv, TypeOK
  <1>2. now <= now'
    BY BackupAssumption DEF IInv, TypeOK
  <1>3. NoFuture'
    <2> SUFFICES ASSUME NEW s \in Stamp, disk'[Dump(s)] # "absent" \/ bucket[Dump(s)] # "absent"
                 PROVE  s <= now
      BY DEF NoFuture
    <2>1. Dump(s) \in Name
      BY Names
    <2>2. disk[Dump(s)] # "absent" \/ bucket[Dump(s)] # "absent" => s <= now
      BY DEF IInv, NoFuture
    <2> QED BY <1>1, <2>1, <2>2
  <1>4. lock \notin {None, p} => \A m \in Name : disk[m] = "whole" => disk'[m] = "whole"
    BY <1>1
  <1> QED BY <1>1, <1>2, <1>3, <1>4 DEF Frame

(* A backup begins with a stamp nothing has yet. *)
LEMMA BeginBackupKeeps ==
  ASSUME IInv, NEW p \in Proc, NEW kind \in {"backup", "pre_migration"}, BeginBackup(p, kind)
  PROVE  IInv'
  <1>1. PICK s \in Stamp \ Foreign : s > now /\ now' = s /\ Begun(p, "dump", kind, s)
    BY DEF BeginBackup, Begun
  <1>2. lock = None /\ lock' = p /\ UNCHANGED <<known, live, disk, bucket, proof>>
    BY DEF BeginBackup, LockScope
  <1>3. /\ op' \in [Proc -> Operation] /\ \A q \in Proc \ {p} : op'[q] = op[q]
        /\ op'[p].pc = "dump" /\ op'[p].stamp = s
    BY <1>1, Begins DEF IInv, PC, Kind
  <1>4. now \in Int /\ now' \in 0..MaxStamp /\ s \in Int
    BY <1>1, BackupAssumption DEF Stamp, IInv, TypeOK
  <1>5. TypeOK'
    BY <1>2, <1>3, <1>4 DEF IInv, TypeOK
  <1>6. Frame(p)
    <2>1. NoFuture'
      <3> SUFFICES ASSUME NEW t \in Stamp, disk[Dump(t)] # "absent" \/ bucket[Dump(t)] # "absent"
                   PROVE  t <= now'
        BY <1>2 DEF NoFuture
      <3>1. t <= now /\ t \in Int
        BY BackupAssumption DEF IInv, NoFuture, Stamp
      <3> QED BY <1>1, <1>4, <3>1
    <2> QED BY <1>1, <1>2, <1>3, <1>4, <2>1 DEF Frame, HoldsLock
  <1>7. Own(p)'
    BY <1>1, <1>3 DEF Own, Stamped, Fetched, Importing, Taken, Held, Reconciling
  <1> QED BY <1>5, <1>6, <1>7, Kept

LEMMA DumpKeeps ==
  ASSUME IInv, NEW p \in Proc, DumpDatabase(p)
  PROVE  IInv'
  <1>1. /\ op[p].pc = "dump" /\ disk' = [disk EXCEPT ![Dump(op[p].stamp)] = "whole"]
        /\ Goto(p, "card") /\ UNCHANGED <<now, known, live, bucket, proof, lock>>
    BY DEF DumpDatabase, At
  <1>2. lock = p /\ op[p].stamp \in Stamp /\ op[p].stamp = now /\ op[p].stamp \notin Foreign
    BY <1>1 DEF IInv, Exclusive, HoldsLock, Working, Own, Stamped, Taken
  <1>3. /\ op' \in [Proc -> Operation] /\ \A q \in Proc \ {p} : op'[q] = op[q]
        /\ op'[p].pc = "card" /\ op'[p].stamp = op[p].stamp
    BY <1>1, Goes DEF IInv, PC
  <1>4. Dump(op[p].stamp) \in Name /\ \A s \in Stamp : Dump(op[p].stamp) = Dump(s) => s <= now
    BY <1>2, Names, BackupAssumption DEF IInv, TypeOK
  <1>5. Frame(p) /\ disk' \in [Name -> Content]
    BY <1>1, <1>2, <1>3, <1>4, Writes DEF Content
  <1>6. TypeOK'
    BY <1>1, <1>3, <1>5 DEF IInv, TypeOK
  <1>7. disk'[Dump(op[p].stamp)] = "whole"
    BY <1>1, <1>4 DEF IInv, TypeOK
  <1>8. Own(p)'
    BY <1>1, <1>2, <1>3, <1>7 DEF Own, Stamped, Fetched, Importing, Taken, Held, Reconciling
  <1> QED BY <1>5, <1>6, <1>8, Kept

(* Only stamps older than the newest are planned for: those of the dumps on disk, of      *)
(* which the one just taken is the newest.                                                *)
LEMMA PlanIsOlder ==
  ASSUME NEW s \in Stamp, \A t \in Listed' : t <= s, NEW n \in Plan
  PROVE  n \in Name /\ n[1] < s /\ n = Dump(n[1])
  <1>1. PICK t \in Superseded(Listed') : n = Dump(t)
    BY DEF Plan
  <1>2. Listed' \in SUBSET Stamp /\ t \in Stamp
    BY <1>1 DEF Listed, Superseded
  <1>3. PICK u \in Listed' : u > t
    BY <1>1, <1>2, NewestStays
  <1> QED BY <1>1, <1>2, <1>3, Names, BackupAssumption DEF Stamp

LEMMA CardKeeps ==
  ASSUME IInv, NEW p \in Proc, WriteCard(p)
  PROVE  IInv'
  <1>1. /\ op[p].pc = "card" /\ disk' = [disk EXCEPT ![Card(op[p].stamp)] = "whole"]
        /\ op' = [op EXCEPT ![p].pc = "prune", ![p].todo = Plan]
        /\ UNCHANGED <<now, known, live, bucket, proof, lock>>
    BY DEF WriteCard, At
  <1>2. /\ lock = p /\ op[p].stamp \in Stamp \ Foreign /\ op[p].stamp = now
        /\ disk[Dump(op[p].stamp)] = "whole"
    BY <1>1 DEF IInv, Exclusive, HoldsLock, Working, Own, Stamped, Taken
  <1>3. Card(op[p].stamp) \in Name /\ \A s \in Stamp : Card(op[p].stamp) # Dump(s)
    BY <1>2, Names
  <1>4. disk'[Card(op[p].stamp)] = "whole" /\ \A s \in Stamp : disk'[Dump(s)] = disk[Dump(s)]
    BY <1>1, <1>3, Names DEF IInv, TypeOK
  <1>5. \A n \in Plan : n \in Name /\ n[1] < op[p].stamp /\ n = Dump(n[1])
    <2>1. \A t \in Listed' : t <= op[p].stamp
      BY <1>2, <1>4 DEF Listed, IInv, NoFuture
    <2> QED BY <1>2, <2>1, PlanIsOlder
  <1>6. op[p] \in Operation /\ op[p].local \in SUBSET Stamp
    BY Typed DEF IInv, Operation
  <1>7. Planned(p, "prune", Plan, op[p].local)
    <2>1. op \in [Proc -> Operation]
      BY DEF IInv, TypeOK
    <2> HIDE DEF Plan
    <2> QED BY <1>1, <1>6, <2>1 DEF Planned, Operation
  <1>8. /\ op' \in [Proc -> Operation] /\ \A q \in Proc \ {p} : op'[q] = op[q]
        /\ op'[p].pc = "prune" /\ op'[p].stamp = op[p].stamp /\ op'[p].todo = Plan
    <2>1. PICK todo \in SUBSET Name : todo = Plan
      BY <1>5
    <2> QED BY <1>6, <1>7, <2>1, Plans DEF IInv, PC
  <1>9. Frame(p) /\ disk' \in [Name -> Content]
    BY <1>1, <1>2, <1>3, <1>8, Writes DEF Content
  <1>10. TypeOK'
    BY <1>1, <1>8, <1>9 DEF IInv, TypeOK
  <1>11. Taken(p)'
    BY <1>1, <1>2, <1>4, <1>5, <1>8 DEF Taken
  <1>12. Own(p)'
    BY <1>2, <1>8, <1>11 DEF Own, Stamped, Fetched, Importing, Held, Reconciling
  <1> QED BY <1>9, <1>10, <1>12, Kept

LEMMA PruneDumpKeeps ==
  ASSUME IInv, NEW p \in Proc, PruneDump(p)
  PROVE  IInv'
  <1>1. PICK n \in op[p].todo :
          \/ disk' = [disk EXCEPT ![n] = "absent"] /\ Goto(p, "prune_card")
          \/ op' = [op EXCEPT ![p].todo = @ \ {n}] /\ UNCHANGED disk
    BY DEF PruneDump
  <1>2. /\ op[p].pc = "prune" /\ op[p] \in Operation /\ n \in Name
        /\ UNCHANGED <<now, known, live, bucket, proof, lock>>
    BY Typed DEF PruneDump, At, IInv, Operation
  <1>3. lock = p /\ op[p].stamp \in Stamp /\ Taken(p)
    BY <1>2 DEF IInv, Exclusive, HoldsLock, Working, Own, Stamped
  <1>4. n[1] \in Stamp /\ n[1] < op[p].stamp /\ n = Dump(n[1])
    BY <1>2, <1>3, Names DEF Taken
  <1>5. n # Dump(op[p].stamp) /\ n # Card(op[p].stamp)
    BY <1>3, <1>4, Names DEF Stamp
  <1>6. CASE disk' = [disk EXCEPT ![n] = "absent"] /\ Goto(p, "prune_card")
    <2>1. /\ op' \in [Proc -> Operation] /\ \A q \in Proc \ {p} : op'[q] = op[q]
          /\ op'[p].pc = "prune_card" /\ op'[p].stamp = op[p].stamp /\ op'[p].todo = op[p].todo
      BY <1>6, Goes DEF IInv, PC
    <2>2. Frame(p) /\ disk' \in [Name -> Content]
      BY <1>2, <1>3, <1>6, <2>1, Writes DEF Content
    <2>3. TypeOK'
      BY <1>2, <2>1, <2>2 DEF IInv, TypeOK
    <2>4. /\ disk'[Dump(op[p].stamp)] = disk[Dump(op[p].stamp)]
          /\ disk'[Card(op[p].stamp)] = disk[Card(op[p].stamp)]
      BY <1>3, <1>5, <1>6, Names DEF IInv, TypeOK
    <2>5. Taken(p)'
      BY <1>2, <1>3, <2>1, <2>4 DEF Taken
    <2>6. Own(p)'
      BY <1>3, <2>1, <2>5 DEF Own, Stamped, Fetched, Importing, Held, Reconciling
    <2> QED BY <2>2, <2>3, <2>6, Kept
  <1>7. CASE op' = [op EXCEPT ![p].todo = @ \ {n}] /\ UNCHANGED disk
    <2> DEFINE todo == op[p].todo \ {n}
    <2>1. Planned(p, "prune", todo, op[p].local)
      BY <1>2, <1>7 DEF Planned, Operation, IInv, TypeOK
    <2>2. todo \in SUBSET Name /\ op[p].local \in SUBSET Stamp /\ todo \subseteq op[p].todo
      BY <1>2 DEF Operation
    <2> HIDE DEF todo
    <2>3. /\ op' \in [Proc -> Operation] /\ \A q \in Proc \ {p} : op'[q] = op[q]
          /\ op'[p].pc = "prune" /\ op'[p].stamp = op[p].stamp /\ op'[p].todo = todo
      BY <2>1, <2>2, Plans DEF IInv, PC
    <2>4. TypeOK'
      BY <1>2, <1>7, <2>3 DEF IInv, TypeOK
    <2>5. Frame(p)
      BY <1>2, <1>3, <1>7, <2>3, Quiet
    <2>6. Taken(p)'
      BY <1>2, <1>3, <1>7, <2>2, <2>3 DEF Taken
    <2>7. Own(p)'
      BY <1>3, <2>3, <2>6 DEF Own, Stamped, Fetched, Importing, Held, Reconciling
    <2> QED BY <2>4, <2>5, <2>7, Kept
  <1> QED BY <1>1, <1>6, <1>7

LEMMA PruneCardKeeps ==
  ASSUME IInv, NEW p \in Proc, PruneCard(p)
  PROVE  IInv'
  <1>1. PICK n \in op[p].todo :
          /\ disk' \in {disk, [disk EXCEPT ![Card(n[1])] = "absent"]}
          /\ op' = [op EXCEPT ![p].pc = "prune", ![p].todo = @ \ {n}]
    BY DEF PruneCard
  <1>2. /\ op[p].pc = "prune_card" /\ op[p] \in Operation /\ n \in Name
        /\ UNCHANGED <<now, known, live, bucket, proof, lock>>
    BY Typed DEF PruneCard, At, IInv, Operation
  <1>3. lock = p /\ op[p].stamp \in Stamp /\ Taken(p)
    BY <1>2 DEF IInv, Exclusive, HoldsLock, Working, Own, Stamped
  <1>4. n[1] \in Stamp /\ n[1] < op[p].stamp /\ Card(n[1]) \in Name
    BY <1>2, <1>3, Names DEF Taken
  <1>5. Card(n[1]) # Dump(op[p].stamp) /\ Card(n[1]) # Card(op[p].stamp)
    BY <1>3, <1>4, Names DEF Stamp
  <1> DEFINE todo == op[p].todo \ {n}
  <1>6. Planned(p, "prune", todo, op[p].local)
    BY <1>1, <1>2 DEF Planned, Operation, IInv, TypeOK
  <1>7. todo \in SUBSET Name /\ op[p].local \in SUBSET Stamp /\ todo \subseteq op[p].todo
    BY <1>2 DEF Operation
  <1> HIDE DEF todo
  <1>8. /\ op' \in [Proc -> Operation] /\ \A q \in Proc \ {p} : op'[q] = op[q]
        /\ op'[p].pc = "prune" /\ op'[p].stamp = op[p].stamp /\ op'[p].todo = todo
    BY <1>6, <1>7, Plans DEF IInv, PC
  <1>9. Frame(p) /\ disk' \in [Name -> Content]
    <2>1. CASE disk' = disk
      BY <1>2, <1>3, <1>8, <2>1, Quiet DEF IInv, TypeOK
    <2>2. CASE disk' = [disk EXCEPT ![Card(n[1])] = "absent"]
      BY <1>2, <1>3, <1>4, <1>8, <2>2, Writes DEF Content
    <2> QED BY <1>1, <2>1, <2>2
  <1>10. TypeOK'
    BY <1>2, <1>8, <1>9 DEF IInv, TypeOK
  <1>11. /\ disk'[Dump(op[p].stamp)] = disk[Dump(op[p].stamp)]
         /\ disk'[Card(op[p].stamp)] = disk[Card(op[p].stamp)]
    BY <1>1, <1>3, <1>5, Names DEF IInv, TypeOK
  <1>12. Taken(p)'
    BY <1>2, <1>3, <1>7, <1>8, <1>11 DEF Taken
  <1>13. Own(p)'
    BY <1>3, <1>8, <1>12 DEF Own, Stamped, Fetched, Importing, Held, Reconciling
  <1> QED BY <1>9, <1>10, <1>13, Kept

LEMMA BeginImportKeeps ==
  ASSUME IInv, NEW p \in Proc, NEW s \in Stamp, BeginImport(p, s)
  PROVE  IInv'
  <1>1. /\ lock = None /\ lock' = p /\ s <= now /\ s \in Foreign
        /\ disk' = [disk EXCEPT ![Card(s)] = "whole"] /\ Begun(p, "import", "import", s)
        /\ UNCHANGED <<now, known, live, bucket, proof>>
    BY DEF BeginImport, LockScope, Begun
  <1>2. /\ op' \in [Proc -> Operation] /\ \A q \in Proc \ {p} : op'[q] = op[q]
        /\ op'[p].pc = "import" /\ op'[p].stamp = s
    BY <1>1, Begins DEF IInv, PC, Kind
  <1>3. Frame(p) /\ disk' \in [Name -> Content]
    <2>1. Card(s) \in Name /\ \A t \in Stamp : Card(s) # Dump(t)
      BY Names
    <2> QED BY <1>1, <1>2, <2>1, Writes DEF Content
  <1>4. TypeOK'
    BY <1>1, <1>2, <1>3 DEF IInv, TypeOK
  <1>5. Own(p)'
    BY <1>1, <1>2 DEF Own, Stamped, Fetched, Importing, Taken, Held, Reconciling
  <1> QED BY <1>3, <1>4, <1>5, Kept

(* What an import and a download end with: one file more, or one card less. *)
LEMMA LastWriteKeeps ==
  ASSUME IInv, NEW p \in Proc, PlaceImport(p) \/ ImportFails(p) \/ FetchCard(p)
  PROVE  IInv'
  <1>1. Leave(p) /\ UNCHANGED <<now, known, live, bucket, proof>> /\ op[p].stamp \in Stamp
    BY DEF PlaceImport, ImportFails, FetchCard, At, IInv, Own, Stamped
  <1>2. PICK n \in Name, c \in Content :
          /\ disk' = [disk EXCEPT ![n] = c]
          /\ lock \notin {None, p} => c = "whole"
          /\ \A s \in Stamp : n = Dump(s) => s <= now
    <2>1. CASE PlaceImport(p)
      <3>1. op[p].stamp <= now /\ lock = p
        BY <2>1 DEF PlaceImport, At, IInv, Own, Importing, Exclusive, HoldsLock, Working
      <3>2. PICK c \in {"torn", "whole"} : disk' = [disk EXCEPT ![Dump(op[p].stamp)] = c]
        BY <2>1 DEF PlaceImport
      <3>3. Dump(op[p].stamp) \in Name /\ \A s \in Stamp : Dump(op[p].stamp) = Dump(s) => s <= now
        BY <1>1, <3>1, Names
      <3> QED BY <3>1, <3>2, <3>3 DEF Content
    <2>2. CASE ImportFails(p)
      <3>1. lock = p
        BY <2>2 DEF ImportFails, At, IInv, Exclusive, HoldsLock, Working
      <3>2. Card(op[p].stamp) \in Name /\ \A s \in Stamp : Card(op[p].stamp) # Dump(s)
        BY <1>1, Names
      <3> QED BY <2>2, <3>1, <3>2 DEF ImportFails, Content
    <2>3. CASE FetchCard(p)
      <3>1. Card(op[p].stamp) \in Name /\ \A s \in Stamp : Card(op[p].stamp) # Dump(s)
        BY <1>1, Names
      <3> QED BY <2>3, <3>1 DEF FetchCard, Content
    <2> QED BY <2>1, <2>2, <2>3
  <1>3. /\ op' \in [Proc -> Operation] /\ lock' \in Proc \cup {None}
        /\ \A q \in Proc \ {p} : op'[q] = op[q]
        /\ lock # p => lock' = lock
        /\ ~HoldsLock(p)' /\ Own(p)'
    BY <1>1, Leaves DEF IInv
  <1>4. Frame(p) /\ disk' \in [Name -> Content]
    BY <1>1, <1>2, <1>3, Writes
  <1>5. TypeOK'
    BY <1>1, <1>3, <1>4 DEF IInv, TypeOK
  <1> QED BY <1>3, <1>4, <1>5, Kept

LEMMA FetchDumpKeeps ==
  ASSUME IInv, NEW p \in Proc, FetchDump(p)
  PROVE  IInv'
  <1> DEFINE n == Dump(op[p].stamp)
  <1>1. /\ op[p].pc = "fetch_dump" /\ op[p] \in Operation
        /\ UNCHANGED <<now, known, live, bucket, proof, lock>>
    BY Typed DEF FetchDump, At, IInv
  <1>2. op[p].stamp \in Stamp /\ n \in Name /\ \A s \in Stamp : n = Dump(s) => s = op[p].stamp
    BY <1>1, Names DEF IInv, Own, Stamped
  <1>3. CASE Goto(p, "fetch_card") /\ UNCHANGED disk
    <2>1. /\ op' \in [Proc -> Operation] /\ \A q \in Proc \ {p} : op'[q] = op[q]
          /\ op'[p].pc = "fetch_card" /\ op'[p].stamp = op[p].stamp
      BY <1>3, Goes DEF IInv, PC
    <2>2. TypeOK'
      BY <1>1, <1>3, <2>1 DEF IInv, TypeOK
    <2>3. Frame(p)
      BY <1>1, <1>3, <2>1, Quiet DEF HoldsLock, Working
    <2>4. Own(p)'
      BY <1>2, <2>1 DEF Own, Stamped, Fetched, Importing, Taken, Held, Reconciling
    <2> QED BY <2>2, <2>3, <2>4, Kept
  <1>4. CASE /\ disk[n] = "absent" /\ bucket[n] # "absent"
             /\ disk' = [disk EXCEPT ![n] = "torn"]
             /\ op' = [op EXCEPT ![p].pc = "write_dump", ![p].body = bucket[n]]
    <2> DEFINE r == [op[p] EXCEPT !.pc = "write_dump", !.body = bucket[n]]
    <2>1. bucket[n] \in Content /\ op \in [Proc -> Operation]
      BY <1>2 DEF IInv, TypeOK
    <2>2. /\ r \in Operation /\ r.pc = "write_dump" /\ r.stamp = op[p].stamp
          /\ r.body = bucket[n]
      BY <1>1, <2>1 DEF Operation, PC
    <2>3. op' = [op EXCEPT ![p] = r]
      BY <1>4
    <2> HIDE DEF r
    <2>4. op' \in [Proc -> Operation] /\ op'[p] = r /\ \A q \in Proc \ {p} : op'[q] = op[q]
      BY <2>2, <2>3, Typed DEF IInv
    <2>5. \A s \in Stamp : n = Dump(s) => s <= now
      BY <1>4 DEF IInv, NoFuture
    <2>6. "torn" \in Content /\ ~HoldsLock(p)' /\ disk[n] # "whole"
      BY <1>4, <2>2, <2>4 DEF HoldsLock, Working, Content
    <2>7. Frame(p) /\ disk' \in [Name -> Content]
      <3> HIDE DEF n
      <3> QED BY <1>1, <1>2, <1>4, <2>4, <2>5, <2>6, Writes
    <2>8. TypeOK'
      BY <1>1, <2>4, <2>7 DEF IInv, TypeOK
    <2>9. Own(p)'
      BY <1>2, <1>4, <2>2, <2>4
         DEF Own, Stamped, Fetched, Importing, Taken, Held, Reconciling
    <2> QED BY <2>7, <2>8, <2>9, Kept
  <1> QED BY <1>3, <1>4 DEF FetchDump

LEMMA WriteFetchedKeeps ==
  ASSUME IInv, NEW p \in Proc, WriteFetchedDump(p)
  PROVE  IInv'
  <1> DEFINE n == Dump(op[p].stamp)
             r == [op[p] EXCEPT !.pc = "fetch_card", !.body = "absent"]
  <1>1. /\ op[p].pc = "write_dump" /\ op[p] \in Operation
        /\ disk' = IF disk[n] = "torn" THEN [disk EXCEPT ![n] = op[p].body] ELSE disk
        /\ op' = [op EXCEPT ![p] = r]
        /\ UNCHANGED <<now, known, live, bucket, proof, lock>>
    BY Typed DEF WriteFetchedDump, At, IInv
  <1>2. op[p].stamp \in Stamp /\ n \in Name /\ op[p].body \in Content
    BY <1>1, Names DEF IInv, Own, Stamped, Operation
  <1>3. r \in Operation /\ r.pc = "fetch_card" /\ r.stamp = op[p].stamp
    BY <1>1 DEF Operation, PC, Content
  <1> HIDE DEF r
  <1>4. op' \in [Proc -> Operation] /\ op'[p] = r /\ \A q \in Proc \ {p} : op'[q] = op[q]
    BY <1>1, <1>3, Typed DEF IInv
  <1>5. ~HoldsLock(p)'
    BY <1>3, <1>4 DEF HoldsLock, Working
  <1>6. Frame(p) /\ disk' \in [Name -> Content]
    <2>1. CASE disk[n] = "torn"
      <3>1. \A s \in Stamp : n = Dump(s) => s <= now
        BY <2>1 DEF IInv, NoFuture
      <3> HIDE DEF n
      <3> QED BY <1>1, <1>2, <1>4, <1>5, <2>1, <3>1, Writes
    <2>2. CASE disk' = disk
      BY <1>1, <1>4, <1>5, <2>2, Quiet DEF IInv, TypeOK
    <2> QED BY <1>1, <2>1, <2>2
  <1>7. TypeOK'
    BY <1>1, <1>4, <1>6 DEF IInv, TypeOK
  <1>8. Own(p)'
    BY <1>2, <1>3, <1>4 DEF Own, Stamped, Fetched, Importing, Taken, Held, Reconciling
  <1> QED BY <1>6, <1>7, <1>8, Kept

LEMMA PurgeKeeps ==
  ASSUME IInv, NEW p \in Proc, Purge(p)
  PROVE  IInv'
  <1>1. /\ lock = None /\ op[p].pc = "idle" /\ disk' = [n \in Name |-> "absent"]
        /\ known' = FALSE /\ live' = "sound" /\ proof' = None
        /\ UNCHANGED <<now, bucket, lock, op>>
    BY DEF Purge, At
  <1>2. TypeOK'
    BY <1>1 DEF IInv, TypeOK, Content
  <1>3. now <= now'
    BY <1>1, BackupAssumption DEF IInv, TypeOK
  <1>4. NoFuture'
    BY <1>1, Names DEF IInv, NoFuture
  <1>5. Frame(p)
    BY <1>1, <1>3, <1>4 DEF Frame, HoldsLock, Working
  <1>6. Own(p)'
    BY <1>1 DEF Own, Stamped, Fetched, Importing, Taken, Held, Reconciling
  <1> QED BY <1>2, <1>5, <1>6, Kept

-----------------------------------------------------------------------------
(* The inductive invariant holds *)

LEMMA StepKeeps ==
  ASSUME IInv, NEW p \in Proc, Step(p)
  PROVE  IInv'
  <1>1. CASE \E kind \in {"backup", "pre_migration"} : BeginBackup(p, kind)
    BY <1>1, BeginBackupKeeps
  <1>2. CASE DumpDatabase(p) \/ WriteCard(p)
    BY <1>2, DumpKeeps, CardKeeps
  <1>3. CASE PruneDump(p) \/ PruneCard(p) \/ EndPrune(p)
    BY <1>3, PruneDumpKeeps, PruneCardKeeps, EndPruneKeeps
  <1>4. CASE ListLocal(p) \/ CompareRemote(p) \/ Send(p)
    BY <1>4, ListKeeps, SendKeeps
  <1>5. CASE \E s \in Stamp : BeginImport(p, s) \/ BeginFetch(p, s)
    BY <1>5, BeginImportKeeps, BeginFetchKeeps
  <1>6. CASE PlaceImport(p) \/ ImportFails(p) \/ FetchCard(p)
    BY <1>6, LastWriteKeeps
  <1>7. CASE FetchDump(p) \/ WriteFetchedDump(p)
    BY <1>7, FetchDumpKeeps, WriteFetchedKeeps
  <1>8. CASE \E from \in Stamp \cup {None} : SelectToRestore(p, from) \/ SelectToVerify(p, from)
    BY <1>8, SelectKeeps
  <1>9. CASE VerifyNewest(p)
    BY <1>9, SelectKeeps DEF VerifyNewest
  <1>10. CASE DecryptToRestore(p) \/ DecryptToVerify(p) \/ StartThrowaway(p) \/ Prove(p)
    BY <1>10, RestoreKeeps, VerifyKeeps
  <1>11. CASE RestoreSucceeds(p) \/ RecordVerification(p) \/ EndUpload(p) \/ Kill(p)
    BY <1>11, EndingsKeep
  <1>12. CASE Purge(p) \/ Deploy(p)
    BY <1>12, PurgeKeeps, DeployKeeps
  <1> QED
    BY <1>1, <1>2, <1>3, <1>4, <1>5, <1>6, <1>7, <1>8, <1>9, <1>10, <1>11, <1>12 DEF Step

LEMMA StutterKeeps ==
  ASSUME IInv, UNCHANGED vars
  PROVE  IInv'
  <1>1. TypeOK' /\ Exclusive' /\ NoFuture'
    BY DEF vars, IInv, TypeOK, Exclusive, HoldsLock, NoFuture
  <1>2. \A q \in Proc : Own(q)'
    BY DEF vars, IInv, Own, Stamped, Fetched, Importing, Taken, Held, Reconciling
  <1> QED BY <1>1, <1>2 DEF IInv

LEMMA Inductive == Spec => []IInv
  <1>1. IInv /\ [Next]_vars => IInv'
    BY StepKeeps, StutterKeeps DEF Next
  <1> QED BY Initially, <1>1, PTL DEF Spec

-----------------------------------------------------------------------------
(* The theorems *)

(* The state is well-formed whatever the commands do and wherever they die. *)
THEOREM TypeCorrect == Spec => []TypeOK
  BY Inductive, PTL DEF IInv

(* A backup that gives its lock up has its own dump and card on disk, and no dump there   *)
(* is newer, for every retained count and whatever the unlocked downloads wrote.          *)
THEOREM BackupStays == Spec => BackupKept
  <1>1. ASSUME IInv, NEW p \in Proc, EndPrune(p)
        PROVE  /\ disk[Dump(op[p].stamp)] = "whole"
               /\ disk[Card(op[p].stamp)] = "whole"
               /\ \A s \in Listed : s <= op[p].stamp
    <2>1. op[p].pc = "prune" /\ Taken(p)
      BY <1>1 DEF EndPrune, At, IInv, Own
    <2> QED BY <1>1, <2>1 DEF Taken, Listed, IInv, NoFuture
  <1>2. IInv => [\A p \in Proc : EndPrune(p) =>
                   /\ disk[Dump(op[p].stamp)] = "whole"
                   /\ disk[Card(op[p].stamp)] = "whole"
                   /\ \A s \in Listed : s <= op[p].stamp]_vars
    BY <1>1
  <1> QED BY <1>2, Inductive, PTL DEF BackupKept

-----------------------------------------------------------------------------
(* The backups implement BackupStore *)

(* Where the files and the ledger stay as they are, the store does. *)
LEMMA StoreStutter ==
  ASSUME UNCHANGED <<disk, known>>
  PROVE  UNCHANGED Store!storeVars
  BY DEF Store!storeVars, Listed, Restorable

(* What writing one dump does to the list and to what can be restored. *)
LEMMA DumpWritten ==
  ASSUME TypeOK, NEW s \in Stamp, NEW c \in Content, c # "absent",
         disk' = [disk EXCEPT ![Dump(s)] = c], s \in Restorable => c = "whole", known' = known
  PROVE  Store!Add(s)
  <1>1. /\ disk'[Dump(s)] = c /\ disk'[Card(s)] = disk[Card(s)]
        /\ \A t \in Stamp \ {s} : disk'[Dump(t)] = disk[Dump(t)] /\ disk'[Card(t)] = disk[Card(t)]
    BY Names DEF TypeOK
  <1>2. Listed' = Listed \cup {s}
    BY <1>1 DEF Listed
  <1>3. Restorable' \in {Restorable, Restorable \cup {s}}
    <2>1. \A t \in Stamp \ {s} : t \in Restorable' <=> t \in Restorable
      BY <1>1 DEF Restorable
    <2>2. s \in Restorable => s \in Restorable'
      BY <1>1 DEF Restorable
    <2>3. Restorable \subseteq Stamp /\ Restorable' \subseteq Stamp
      BY DEF Restorable
    <2>4. CASE s \in Restorable'
      BY <2>1, <2>3, <2>4
    <2>5. CASE s \notin Restorable'
      BY <2>1, <2>2, <2>3, <2>5
    <2> QED BY <2>4, <2>5
  <1> QED BY <1>2, <1>3 DEF Store!Add

(* A card is written: its dump may be restored from now on, if it is there. *)
LEMMA CardWritten ==
  ASSUME TypeOK, NEW s \in Stamp, disk' = [disk EXCEPT ![Card(s)] = "whole"], known' = known
  PROVE  Store!Add(s) \/ UNCHANGED Store!storeVars
  <1>1. /\ disk'[Dump(s)] = disk[Dump(s)] /\ disk'[Card(s)] = "whole"
        /\ \A t \in Stamp \ {s} : disk'[Dump(t)] = disk[Dump(t)] /\ disk'[Card(t)] = disk[Card(t)]
    BY Names DEF TypeOK
  <1>2. Listed' = Listed
    BY <1>1 DEF Listed
  <1>3. \A t \in Stamp \ {s} : t \in Restorable' <=> t \in Restorable
    BY <1>1 DEF Restorable
  <1>4. Restorable \subseteq Stamp /\ Restorable' \subseteq Stamp
    BY DEF Restorable
  <1>5. s \in Restorable => s \in Restorable'
    BY <1>1 DEF Restorable
  <1>6. CASE s \in Restorable'
    <2>1. s \in Listed
      BY <1>1, <1>6 DEF Restorable, Listed
    <2>2. Restorable' = Restorable \cup {s}
      BY <1>3, <1>4, <1>6
    <2> QED BY <1>2, <2>1, <2>2 DEF Store!Add
  <1>7. CASE s \notin Restorable'
    <2>1. Restorable' = Restorable
      BY <1>3, <1>4, <1>5, <1>7
    <2> QED BY <1>2, <2>1 DEF Store!storeVars
  <1> QED BY <1>6, <1>7

(* A dump or a card goes while a newer dump can be restored. *)
LEMMA FileGone ==
  ASSUME TypeOK, NEW s \in Stamp, NEW n \in {Dump(s), Card(s)},
         disk' = [disk EXCEPT ![n] = "absent"], NEW t \in Restorable, t > s, known' = known
  PROVE  Store!Drop(s)
  <1>1. /\ n \in Name /\ disk'[n] = "absent"
        /\ \A m \in Name \ {n} : disk'[m] = disk[m]
    BY Names DEF TypeOK
  <1>2. \A u \in Stamp \ {s} : disk'[Dump(u)] = disk[Dump(u)] /\ disk'[Card(u)] = disk[Card(u)]
    BY <1>1, Names
  <1>3. Listed' \in {Listed, Listed \ {s}}
    <2>1. CASE n = Dump(s)
      BY <1>1, <1>2, <2>1 DEF Listed
    <2>2. CASE n = Card(s)
      BY <1>1, <1>2, <2>2, Names DEF Listed
    <2> QED BY <2>1, <2>2
  <1>4. Restorable' = Restorable \ {s}
    <2>1. s \notin Restorable'
      BY <1>1 DEF Restorable
    <2>2. \A u \in Stamp \ {s} : u \in Restorable' <=> u \in Restorable
      BY <1>2 DEF Restorable
    <2> QED BY <2>1, <2>2 DEF Restorable
  <1> QED BY <1>3, <1>4 DEF Store!Drop

(* A refused import takes the card of another host's dump away. *)
LEMMA ForeignCardGone ==
  ASSUME TypeOK, NEW s \in Stamp \cap Foreign, disk' = [disk EXCEPT ![Card(s)] = "absent"],
         known' = known
  PROVE  UNCHANGED Store!storeVars
  <1>1. /\ \A t \in Stamp : disk'[Dump(t)] = disk[Dump(t)]
        /\ \A t \in Stamp \ {s} : disk'[Card(t)] = disk[Card(t)]
    BY Names DEF TypeOK
  <1> QED BY <1>1 DEF Store!storeVars, Listed, Restorable

(* What a backup prunes is older than its own dump, which is whole with its card. *)
LEMMA PruneDrops ==
  ASSUME IInv, NEW p \in Proc, PruneDump(p) \/ PruneCard(p)
  PROVE  (\E s \in Stamp : Store!Drop(s)) \/ UNCHANGED Store!storeVars
  <1>1. /\ op[p] \in Operation /\ op[p].pc \in {"prune", "prune_card"}
        /\ op[p].stamp \in Stamp /\ Taken(p) /\ TypeOK
    BY Typed DEF IInv, Own, Stamped, PruneDump, PruneCard, At
  <1>2. op[p].stamp \in Restorable
    BY <1>1 DEF Taken, Restorable
  <1>3. CASE UNCHANGED <<disk, known>>
    BY <1>3, StoreStutter
  <1>4. CASE ~UNCHANGED <<disk, known>>
    <2>1. PICK n \in op[p].todo :
            known' = known /\ \E m \in {n, Card(n[1])} : disk' = [disk EXCEPT ![m] = "absent"]
      BY <1>4 DEF PruneDump, PruneCard
    <2>2. n \in Name /\ n[1] \in Stamp /\ n[1] < op[p].stamp /\ n = Dump(n[1])
      BY <1>1, Names DEF Taken, Operation
    <2>3. op[p].stamp > n[1]
      BY <1>1, <2>2 DEF Stamp
    <2>4. PICK m \in {Dump(n[1]), Card(n[1])} : disk' = [disk EXCEPT ![m] = "absent"]
      BY <2>1, <2>2
    <2>5. Store!Drop(n[1])
      BY <1>1, <1>2, <2>1, <2>2, <2>3, <2>4, FileGone
    <2> QED BY <2>2, <2>5
  <1> QED BY <1>3, <1>4

LEMMA StoreInit == Init => Store!Init
  BY Names DEF Init, Store!Init, Listed, Restorable

LEMMA StoreStep == IInv /\ [Next]_vars => [Store!Next]_(Store!storeVars)
  <1> SUFFICES ASSUME IInv, [Next]_vars PROVE Store!Next \/ UNCHANGED Store!storeVars
    OBVIOUS
  <1>1. CASE UNCHANGED vars
    BY <1>1, StoreStutter DEF vars
  <1>2. ASSUME NEW p \in Proc, Step(p) PROVE Store!Next \/ UNCHANGED Store!storeVars
    <2>1. TypeOK /\ Own(p) /\ (op[p].pc # "idle" => op[p].stamp \in Stamp)
      BY DEF IInv, Own, Stamped
    <2>2. CASE UNCHANGED <<disk, known>>
      BY <2>2, StoreStutter
    <2>3. CASE DumpDatabase(p)
      <3>1. op[p].stamp \in Stamp /\ known' = known /\ disk' = [disk EXCEPT ![Dump(op[p].stamp)] = "whole"]
        BY <2>1, <2>3 DEF DumpDatabase, At
      <3>2. Store!Add(op[p].stamp)
        BY <2>1, <3>1, DumpWritten DEF Content
      <3> QED BY <3>1, <3>2 DEF Store!Next
    <2>4. CASE WriteCard(p) \/ FetchCard(p)
      <3>1. op[p].stamp \in Stamp /\ known' = known /\ disk' = [disk EXCEPT ![Card(op[p].stamp)] = "whole"]
        BY <2>1, <2>4 DEF WriteCard, FetchCard, At
      <3> QED BY <2>1, <3>1, CardWritten DEF Store!Next
    <2>5. CASE PruneDump(p) \/ PruneCard(p)
      BY <2>5, PruneDrops DEF Store!Next
    <2>6. ASSUME NEW s \in Stamp, BeginImport(p, s)
          PROVE  Store!Next \/ UNCHANGED Store!storeVars
      BY <2>1, <2>6, CardWritten DEF Store!Next, BeginImport
    <2>7. CASE PlaceImport(p)
      <3>1. op[p].stamp \in Stamp /\ op[p].stamp \notin Restorable
        BY <2>1, <2>7 DEF PlaceImport, At, Own, Importing, Restorable
      <3>2. PICK c \in {"torn", "whole"} :
              known' = known /\ disk' = [disk EXCEPT ![Dump(op[p].stamp)] = c]
        BY <2>7 DEF PlaceImport
      <3>3. Store!Add(op[p].stamp)
        BY <2>1, <3>1, <3>2, DumpWritten DEF Content
      <3> QED BY <3>1, <3>3 DEF Store!Next
    <2>8. CASE ImportFails(p)
      BY <2>1, <2>8, ForeignCardGone DEF ImportFails, At, Own, Importing
    <2>9. CASE FetchDump(p) /\ disk' # disk
      <3>1. /\ op[p].stamp \in Stamp /\ op[p].stamp \notin Restorable /\ known' = known
            /\ disk' = [disk EXCEPT ![Dump(op[p].stamp)] = "torn"]
        BY <2>1, <2>9 DEF FetchDump, At, Restorable
      <3>2. Store!Add(op[p].stamp)
        BY <2>1, <3>1, DumpWritten DEF Content
      <3> QED BY <3>1, <3>2 DEF Store!Next
    <2>10. CASE WriteFetchedDump(p) /\ disk' # disk
      <3>1. /\ op[p].stamp \in Stamp /\ op[p].stamp \notin Restorable /\ known' = known
            /\ op[p].body # "absent" /\ disk' = [disk EXCEPT ![Dump(op[p].stamp)] = op[p].body]
        BY <2>1, <2>10 DEF WriteFetchedDump, At, Restorable, Own, Fetched
      <3>2. op[p].body \in Content
        BY <2>1, Typed DEF Operation
      <3>3. Store!Add(op[p].stamp)
        BY <2>1, <3>1, <3>2, DumpWritten
      <3> QED BY <3>1, <3>3 DEF Store!Next
    <2>11. CASE Purge(p)
      <3>1. Listed' = {} /\ Restorable' = {}
        BY <2>11, Names DEF Purge, Listed, Restorable
      <3> QED BY <2>11, <3>1 DEF Purge, Store!Purge, Store!Next
    <2>12. CASE Deploy(p)
      <3>1. Listed' = Listed /\ Restorable' = Restorable
        BY <2>12 DEF Deploy, Listed, Restorable
      <3> QED BY <2>12, <3>1 DEF Deploy, Store!Deploy, Store!Next
    <2>13. \/ UNCHANGED <<disk, known>>
           \/ DumpDatabase(p) \/ WriteCard(p) \/ FetchCard(p) \/ PruneDump(p) \/ PruneCard(p)
           \/ \E s \in Stamp : BeginImport(p, s)
           \/ PlaceImport(p) \/ ImportFails(p) \/ FetchDump(p) \/ WriteFetchedDump(p)
           \/ Purge(p) \/ Deploy(p)
      BY <1>2 DEF Step, BeginBackup, EndPrune, ListLocal, CompareRemote, Send, EndUpload,
                  BeginFetch, SelectToRestore, SelectToVerify, VerifyNewest, Select,
                  DecryptToRestore, RestoreSucceeds, DecryptToVerify, StartThrowaway, Prove,
                  RecordVerification, Kill
    <2>14. FetchDump(p) \/ WriteFetchedDump(p) => known' = known
      BY DEF FetchDump, WriteFetchedDump
    <2> QED
      BY <2>2, <2>3, <2>4, <2>5, <2>6, <2>7, <2>8, <2>9, <2>10, <2>11, <2>12, <2>13, <2>14
  <1> QED BY <1>1, <1>2 DEF Next

(* Short of a purge, a dump or a card goes only while a newer dump of this host stays     *)
(* that restore would accept, whatever is killed, imported or fetched meanwhile.          *)
THEOREM BackupsImplementStore == Spec => StoreImplemented
  <1> QED BY StoreInit, StoreStep, Inductive, PTL DEF Spec, StoreImplemented, Store!Spec

-----------------------------------------------------------------------------
(* What a restore and an upload have done *)

(* The dump a restore replaces the database by is whole, and still on disk at the end: no *)
(* command that runs beside it changes that file.                                         *)
THEOREM RestoreIsWhole == Spec => RestoreHoldsItsSource
  <1>1. IInv => [\A p \in Proc : RestoreSucceeds(p) =>
                   op[p].body = "whole" /\ disk[Dump(op[p].stamp)] = op[p].body]_vars
    BY DEF IInv, Own, Held, RestoreSucceeds, At
  <1> QED BY <1>1, Inductive, PTL DEF RestoreHoldsItsSource

(* The lock keeps dumps and restores of one database apart. *)
THEOREM NoMixedDump == Spec => NoDumpDuringRestore
  <1>1. ASSUME IInv, NEW p \in Proc, NEW q \in Proc, DumpDatabase(p), At(q, "replacing")
        PROVE  FALSE
    <2>1. op[p].pc = "dump" /\ op[q].pc = "replacing"
      BY <1>1 DEF DumpDatabase, At
    <2>2. HoldsLock(p) /\ HoldsLock(q)
      BY <2>1 DEF HoldsLock, Working
    <2>3. p = q
      BY <1>1, <2>2 DEF IInv, Exclusive
    <2> QED BY <2>1, <2>3
  <1>2. IInv => [\A p, q \in Proc : DumpDatabase(p) => ~At(q, "replacing")]_vars
    BY <1>1
  <1> QED BY <1>2, Inductive, PTL DEF NoDumpDuringRestore

(* An upload that ends well has everything it found, and that was not pruned meanwhile,   *)
(* in the bucket: nothing is ever taken out of it.                                        *)
THEOREM UploadIsComplete == Spec => UploadReconciles
  <1>1. ASSUME IInv, NEW p \in Proc, EndUpload(p), NEW s \in op[p].local \cap Listed
        PROVE  bucket[Dump(s)] # "absent"
    BY <1>1 DEF EndUpload, At, IInv, Own, Reconciling
  <1>2. IInv => [\A p \in Proc : EndUpload(p) =>
                   \A s \in op[p].local \cap Listed : bucket[Dump(s)] # "absent"]_vars
    BY <1>1
  <1> QED BY <1>2, Inductive, PTL DEF UploadReconciles

=============================================================================
