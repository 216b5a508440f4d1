--------------------------- MODULE MCHostTimers ---------------------------
(* The small instance TLC explores of HostTimers. *)
EXTENDS HostTimers, TLC

CONSTANTS m1, m2, m3, hourly, bad, cron

Shop    == [project |-> <<"shop">>, environment |-> "lab"]
ShopLab == [project |-> <<"shop", "lab">>, environment |-> "staging"]

(* Every unit of ShopLab has a name that begins with the name of Shop. *)
MCScope    == {Shop, ShopLab}
MCJob      == {"stock", "sales"}
MCInterval == m1 :> hourly @@ m2 :> None @@ m3 :> None
MCJobs     == m1 :> [n \in MCJob |-> IF n = "stock" THEN hourly ELSE None]
           @@ m2 :> [n \in MCJob |-> IF n = "stock" THEN bad ELSE hourly]
           @@ m3 :> [n \in MCJob |-> IF n = "stock" THEN hourly ELSE None]
MCOffered  == Shop :> {m1, m2} @@ ShopLab :> {m3}

(* While an export runs, at most one scope has a command at work: an export is alone with *)
(* its own application, and what another one does to it takes one command at a time.      *)
Apart ==
  (\E r \in Runner : run[r] # None) =>
    \A s, t \in Scope : op[s].pc # "idle" /\ op[t].pc # "idle" => s = t

(* No step reads a card. *)
View == <<dropIn, enabled, current, retired, run, op>>

=============================================================================
