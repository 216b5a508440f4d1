---------------------------- MODULE OnePassword ----------------------------
(***************************************************************************)
(* What the platform promises of the password of a database: the volume    *)
(* accepts the one that is stored, from its first start to its last.  Only *)
(* a rotation changes it, in two steps: PostgreSQL first, and then what is *)
(* stored becomes what PostgreSQL accepts, never anything else.  While     *)
(* there is a volume, its password is not lost.  DatabaseCredential        *)
(* implements it.                                                          *)
(***************************************************************************)
CONSTANTS Password, None

VARIABLES
  accepted, \* the password PostgreSQL accepts, None without a volume
  stored,   \* the password in the credential file, None without one
  rotating  \* a rotation is under way

passwordVars == <<accepted, stored, rotating>>

Init ==
  /\ accepted = None
  /\ stored = None
  /\ rotating = FALSE

Draw ==
  /\ accepted = None /\ stored = None
  /\ stored' \in Password
  /\ UNCHANGED accepted

(* A volume is created with the stored password, also with one an earlier volume had. *)
Initialise ==
  /\ accepted = None /\ stored # None
  /\ accepted' = stored
  /\ UNCHANGED stored

Alter ==
  /\ rotating
  /\ accepted # None /\ stored # None
  /\ accepted' \in Password \ {stored}
  /\ UNCHANGED stored

Adopt ==
  /\ rotating
  /\ accepted # None
  /\ stored' = accepted
  /\ UNCHANGED accepted

(* A purge: the volume first. *)
Destroy ==
  /\ accepted' = None
  /\ UNCHANGED stored

Forget ==
  /\ accepted = None
  /\ stored' = None
  /\ UNCHANGED accepted

(* Rotations begin, end and are cut short at any time. *)
Turn == UNCHANGED <<accepted, stored>>

Next ==
  /\ Draw \/ Initialise \/ Alter \/ Adopt \/ Destroy \/ Forget \/ Turn
  /\ rotating' \in BOOLEAN

Spec == Init /\ [][Next]_passwordVars

=============================================================================
