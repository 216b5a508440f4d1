------------------------- MODULE MCConsoleRestore -------------------------
(* The small instance TLC explores of ConsoleRestore. *)
EXTENDS ConsoleRestore, TLC

CONSTANTS c1, c2

(* The manifest beside c2 cannot be read. *)
MCLocalRetain == c1 :> 2 @@ c2 :> Nothing

(* One restore at a time, beside moves by the other console, timers and deploys. *)
OneRestores ==
  \A c, d \in Operator :
    {desk[c].pc, desk[d].pc} \cap {"idle", "copy", "import"} = {} => c = d

=============================================================================
