------------------------ MODULE MCProspectiveLedger ------------------------
(* Small instances of ProspectiveLedger.                                   *)
EXTENDS ProspectiveLedger, TLC

CONSTANTS p1, p2

MCPreds == {p1, p2}

(* Both signals are of day 0, or the second one is of day 1. *)
SameDay == p1 :> 0 @@ p2 :> 0
NextDays == p1 :> 0 @@ p2 :> 1
=============================================================================
