-------------------------- MODULE MaintenanceOrder --------------------------
(***************************************************************************)
(* The order in which the pending ServerMaintenances of one Server are     *)
(* taken: shouldRunBefore of the ServerMaintenance controller.  A          *)
(* maintenance is given by its immutable data: priority, policy, creation  *)
(* time (seconds, so two of them may be equal) and the rank of its         *)
(* namespace/name key in the lexicographic order of keys.                  *)
(***************************************************************************)
EXTENDS Integers

CONSTANTS
    Maintenances,   \* the ServerMaintenances of the Server
    Priority,       \* spec.priority, an int32
    Policy,         \* spec.policy
    CreatedAt,      \* metadata.creationTimestamp
    KeyRank         \* position of "namespace/name" among all keys

Policies == {"OwnerApproval", "Enforced"}

ASSUME DataAssumption ==
    /\ Priority \in [Maintenances -> Int]
    /\ Policy \in [Maintenances -> Policies]
    /\ CreatedAt \in [Maintenances -> Nat]
    /\ KeyRank \in [Maintenances -> Nat]

\* Two objects never share their namespace and name.
ASSUME KeyAssumption ==
    \A a, b \in Maintenances : KeyRank[a] = KeyRank[b] => a = b

RunsBefore(a, b) ==
    \/ Priority[a] > Priority[b]
    \/ /\ Priority[a] = Priority[b]
       /\ \/ Policy[a] = "Enforced" /\ Policy[b] # "Enforced"
          \/ /\ Policy[a] = Policy[b]
             /\ \/ CreatedAt[a] < CreatedAt[b]
                \/ CreatedAt[a] = CreatedAt[b] /\ KeyRank[a] < KeyRank[b]

(***************************************************************************)
(* No two maintenances defer to each other, no cycle of them defers all    *)
(* the way round, and of two different ones one always goes first, so the  *)
(* pending maintenances of a Server cannot all wait for one another.       *)
(***************************************************************************)
StrictTotalOrder ==
    /\ \A a \in Maintenances : ~ RunsBefore(a, a)
    /\ \A a, b, c \in Maintenances :
          RunsBefore(a, b) /\ RunsBefore(b, c) => RunsBefore(a, c)
    /\ \A a, b \in Maintenances : a # b => RunsBefore(a, b) \/ RunsBefore(b, a)
=============================================================================
