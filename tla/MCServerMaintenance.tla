------------------------ MODULE MCServerMaintenance ------------------------
(***************************************************************************)
(* Small instances of ServerMaintenance for TLC: maintenances m1, m2 and   *)
(* m3, created in that order, with the data each run asks for.             *)
(***************************************************************************)
EXTENDS ServerMaintenance

CONSTANTS m1, m2, m3

SamePriority == [m \in Maintenances |-> 0]
FirstFirst == [m \in Maintenances |-> IF m = m1 THEN 10 ELSE 0]
SecondFirst == [m \in Maintenances |-> IF m = m1 THEN 0 ELSE 10]

AllEnforced == [m \in Maintenances |-> "Enforced"]
AllApproval == [m \in Maintenances |-> "OwnerApproval"]
FirstApproval == [m \in Maintenances |->
                    IF m = m1 THEN "OwnerApproval" ELSE "Enforced"]

InOrder == [m \in Maintenances |-> CASE m = m1 -> 1 [] m = m2 -> 2 [] m = m3 -> 3]
=============================================================================
