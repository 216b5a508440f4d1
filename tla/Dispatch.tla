----------------------------- MODULE Dispatch -----------------------------
(***************************************************************************)
(* Deploying from the console: it asks what to deploy and under which      *)
(* name, dispatches the application's Deploy workflow, looks for the run   *)
(* that appears, and watches it.  Several operators, and whoever presses   *)
(* the button on GitHub, do so for one application on one branch; GitHub   *)
(* registers a run some time after it accepted the dispatch, and gh may    *)
(* fail at any call.  A rollback through CI is such a dispatch.            *)
(***************************************************************************)
EXTENDS Integers, FiniteSets, Sequences

CONSTANTS
  Console,     \* operators at their workstations
  Version,     \* version tags, numbered from 1 in the order they were released
  Branch,      \* a ref that is no version
  Stamp,       \* minutes, not 0, at which a release may be deployed again
  ListLimit,   \* gh run list --limit
  MaxRuns,     \* bound: dispatches
  None

VARIABLES
  latest,   \* GitHub's latest release
  runs,     \* runs[i]: the i-th dispatch GitHub accepted
  serving,  \* the ledger's name of the release that answers
  history,  \* names of the releases that were deployed
  op        \* op[w]: what the console of w is doing

vars == <<latest, runs, serving, history, op>>

-----------------------------------------------------------------------------
Ref == Version \cup {Branch}

(* <environment>-<tag> has stamp 0; ...-again-<stamp> another. *)
Name == [ref : Ref, stamp : Stamp \cup {0}]

PC == {"idle", "label", "confirm", "dispatch", "find", "watch", "told"}

(* effective is the ref the console believes None to mean; own is the run it dispatched. *)
Operation == [pc : PC, ref : Ref \cup {None}, effective : Ref \cup {None},
              label : Name \cup {None}, known : SUBSET (1..MaxRuns),
              own : 0..MaxRuns, watched : 0..MaxRuns]

Idle == [pc |-> "idle", ref |-> None, effective |-> None, label |-> None, known |-> {},
         own |-> 0, watched |-> 0]

(* "accepted" but not listed yet, listed and "running", or ended. *)
Run == [ref : Ref \cup {None}, label : Name \cup {None},
        status : {"accepted", "running", "success", "failure"}]

TypeOK ==
  /\ latest \in Version
  /\ \A i \in DOMAIN runs : i \in 1..MaxRuns /\ runs[i] \in Run
  /\ serving \in Name \cup {None} /\ history \subseteq Name
  /\ op \in [Console -> Operation]

Init ==
  /\ latest = 1 /\ runs = <<>> /\ serving = None /\ history = {}
  /\ op = [w \in Console |-> Idle]

At(w, pc) == op[w].pc = pc
Leave(w)  == op' = [op EXCEPT ![w] = Idle]

-----------------------------------------------------------------------------
(* What to deploy *)

(* default_label: what the workflow will name it, of a version only. *)
DefaultLabel(ref) == IF ref \in Version THEN [ref |-> ref, stamp |-> 0] ELSE None

(* redeploy_label *)
Again(ref, stamp) == [ref |-> ref, stamp |-> stamp]

(* A ref left empty is looked up at GitHub, which may fail. *)
Choose(w) ==
  /\ At(w, "idle")
  /\ \E ref \in Ref \cup {None} :
       \E effective \in IF ref = None THEN {latest, None} ELSE {ref} :
         op' = [op EXCEPT ![w] = [Idle EXCEPT !.pc = "label", !.ref = ref,
                                              !.effective = effective]]
  /\ UNCHANGED <<latest, runs, serving, history>>

(* rollback_action, the route through CI: the version at the end of the target's name. *)
ChooseTarget(w) ==
  /\ At(w, "idle")
  /\ \E target \in history \ {serving} :
       \E ref \in IF target.stamp = 0 /\ target.ref \in Version THEN {target.ref} ELSE Ref :
         op' = [op EXCEPT ![w] = [Idle EXCEPT !.pc = "label", !.ref = ref, !.effective = ref]]
  /\ UNCHANGED <<latest, runs, serving, history>>

(* A plain dispatch of the release that serves would change nothing: it gets a new name,  *)
(* and the ref that name speaks of.  Without an answer of the host the operator decides.  *)
ChooseLabel(w) ==
  LET effective == op[w].effective
      expected  == DefaultLabel(effective)
  IN  /\ At(w, "label")
      /\ \/ /\ expected = None \/ serving # expected
            /\ op' = [op EXCEPT ![w].pc = "confirm"]
         \/ /\ expected # None /\ serving = expected
            /\ \E stamp \in Stamp :
                 op' = [op EXCEPT ![w].pc = "confirm", ![w].ref = effective,
                                  ![w].label = Again(effective, stamp)]
         \/ /\ expected # None
            /\ \E label \in Name \cup {None} :
                 op' = [op EXCEPT ![w].pc = "confirm", ![w].label = label]
      /\ UNCHANGED <<latest, runs, serving, history>>

Cancel(w) ==
  /\ op[w].pc \in {"label", "confirm"}
  /\ Leave(w)
  /\ UNCHANGED <<latest, runs, serving, history>>

-----------------------------------------------------------------------------
(* Dispatch and watch *)

Registered == {i \in DOMAIN runs : runs[i].status # "accepted"}

(* The newest runs, as gh run list shows them. *)
Listed == {i \in Registered : Cardinality({j \in Registered : j > i}) < ListLimit}

(* list_run_ids: a gh that fails has listed nothing. *)
ListRuns(w) ==
  /\ At(w, "confirm")
  /\ \E known \in {Listed, {}} : op' = [op EXCEPT ![w].pc = "dispatch", ![w].known = known]
  /\ UNCHANGED <<latest, runs, serving, history>>

Accepted(ref, label) ==
  /\ Cardinality(DOMAIN runs) < MaxRuns
  /\ runs' = Append(runs, [ref |-> ref, label |-> label, status |-> "accepted"])

SendDispatch(w) ==
  /\ At(w, "dispatch")
  /\ Accepted(op[w].ref, op[w].label)
  /\ op' = [op EXCEPT ![w].pc = "find", ![w].own = Len(runs')]
  /\ UNCHANGED <<latest, serving, history>>

(* find_run: the first of the list, newest first, that was not known. *)
FindRun(w) ==
  LET new == Listed \ op[w].known
  IN  /\ At(w, "find")
      /\ \E i \in new :
           /\ \A j \in new : j <= i
           /\ op' = [op EXCEPT ![w].pc = "watch", ![w].watched = i]
      /\ UNCHANGED <<latest, runs, serving, history>>

(* gh fails or times out, ten looks found nothing new, or the operator leaves. *)
EndsHere(w) ==
  /\ op[w].pc \in {"dispatch", "find", "watch", "told"}
  /\ Leave(w)
  /\ UNCHANGED <<latest, runs, serving, history>>

Ended(i) == runs[i].status \in {"success", "failure"}

(* gh run watch --exit-status: how the run ended is what the console tells. *)
Watch(w) ==
  /\ At(w, "watch")
  /\ Ended(op[w].watched)
  /\ op' = [op EXCEPT ![w].pc = "told"]
  /\ UNCHANGED <<latest, runs, serving, history>>

-----------------------------------------------------------------------------
(* GitHub and the host *)

Publish ==
  /\ latest + 1 \in Version
  /\ latest' = latest + 1
  /\ UNCHANGED <<runs, serving, history, op>>

(* The button on GitHub. *)
PressButton ==
  /\ \E ref \in Ref \cup {None} : Accepted(ref, None)
  /\ UNCHANGED <<latest, serving, history, op>>

Register(i) ==
  /\ runs[i].status = "accepted"
  /\ runs' = [runs EXCEPT ![i].status = "running"]
  /\ UNCHANGED <<latest, serving, history, op>>

(* The workflow resolves an empty ref itself, and names what carries no label. *)
NameOf(i) ==
  LET ref == IF runs[i].ref = None THEN latest ELSE runs[i].ref
  IN  IF runs[i].label = None THEN [ref |-> ref, stamp |-> 0] ELSE runs[i].label

(* The host answers the name that serves with a no-op. *)
Succeed(i) ==
  /\ runs[i].status = "running"
  /\ serving' = NameOf(i)
  /\ history' = history \cup {NameOf(i)}
  /\ runs' = [runs EXCEPT ![i].status = "success"]
  /\ UNCHANGED <<latest, op>>

Fail(i) ==
  /\ runs[i].status = "running"
  /\ runs' = [runs EXCEPT ![i].status = "failure"]
  /\ UNCHANGED <<latest, serving, history, op>>

Next ==
  \/ \E w \in Console :
       \/ Choose(w) \/ ChooseTarget(w) \/ ChooseLabel(w) \/ Cancel(w)
       \/ ListRuns(w) \/ SendDispatch(w) \/ FindRun(w) \/ Watch(w) \/ EndsHere(w)
  \/ \E i \in DOMAIN runs : Register(i) \/ Succeed(i) \/ Fail(i)
  \/ Publish \/ PressButton

Spec == Init /\ [][Next]_vars

-----------------------------------------------------------------------------
(* Properties *)

(* "Dispatch the application's Deploy workflow and watch the run it started": when the    *)
(* console says that the deployment succeeded, the run it dispatched did.                 *)
SuccessIsItsOwn ==
  \A w \in Console :
    At(w, "told") /\ runs[op[w].watched].status = "success" => runs[op[w].own].status = "success"

=============================================================================
