------------------------------ MODULE MCParsing ------------------------------
(***************************************************************************)
(* Two jobs of one printer and a queue for one beep.  Either the second    *)
(* job was parsed long ago and the parser is upgraded while the first one  *)
(* goes through, with two troubles; or both are new and nothing fails.     *)
(***************************************************************************)
EXTENDS Parsing

MCOld ==
    /\ spoolDir = [j \in BeepJobs |-> IF j = 2 THEN "published" ELSE "absent"]
    /\ status = [j \in BeepJobs |-> IF j = 2 THEN "PARSED" ELSE "absent"]
    /\ versions = [j \in BeepJobs |-> IF j = 2 THEN <<1>> ELSE <<>>]
    /\ build = 1 /\ troubles = 0

MCNew ==
    /\ spoolDir = [j \in BeepJobs |-> "absent"]
    /\ status = [j \in BeepJobs |-> "absent"]
    /\ versions = [j \in BeepJobs |-> <<>>]
    /\ build = 2 /\ troubles = MaxTroubles

MCInit ==
    /\ MCOld \/ MCNew
    /\ bell = <<>> /\ recent = <<>> /\ observed = [j \in BeepJobs |-> 0] /\ notified = {}
    /\ queued = [j \in BeepJobs |-> 0] /\ full = {}
    /\ empties = [j \in BeepJobs |-> {}]
    /\ failures = [j \in BeepJobs |-> [b \in Builds |-> 0]]
    /\ outcome \in [BeepJobs -> [Builds -> {"documents", "empty", "error"}]]
    /\ outcome[2] = [b \in Builds |-> "documents"]
    /\ build = 2 => outcome[1][1] = "error"
    /\ cooling = {}
    /\ proc = [p \in Procs |-> IF p = "service" THEN Up ELSE Down]

MCSpec ==
    /\ MCInit /\ [][ParsingNext]_allVars
    /\ ParsingFairness
=============================================================================
