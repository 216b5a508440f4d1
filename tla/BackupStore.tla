---------------------------- MODULE BackupStore ----------------------------
(***************************************************************************)
(* What the backups of an environment promise: once a dump that was taken  *)
(* here can be restored, there is one that can be, until the application   *)
(* is purged.  Dumps come and go, but one goes only while a newer one that *)
(* can be restored stays.  BackupRestore implements it.                    *)
(***************************************************************************)
EXTENDS Integers

CONSTANT Stamp

VARIABLES
  known,     \* the application has not been purged, or was deployed again
  listed,    \* the stamps an operator is offered, whatever lies behind them
  restorable \* those whose dump was taken here and is whole, with its card

storeVars == <<known, listed, restorable>>

Init ==
  /\ known = TRUE
  /\ listed = {}
  /\ restorable = {}

(* A dump is taken, imported or fetched, or its card is. *)
Add(s) ==
  /\ listed' = listed \cup {s}
  /\ restorable' \in {restorable, restorable \cup {s}}
  /\ UNCHANGED known

(* A dump goes, or its card does. *)
Drop(s) ==
  /\ \E t \in restorable : t > s
  /\ listed' \in {listed, listed \ {s}}
  /\ restorable' = restorable \ {s}
  /\ UNCHANGED known

Purge ==
  /\ known' = FALSE
  /\ listed' = {}
  /\ restorable' = {}

Deploy ==
  /\ known' = TRUE
  /\ UNCHANGED <<listed, restorable>>

Next ==
  \/ \E s \in Stamp : Add(s) \/ Drop(s)
  \/ Purge \/ Deploy

Spec == Init /\ [][Next]_storeVars

=============================================================================
