--------------------------- MODULE ServerResource ---------------------------
(***************************************************************************)
(* What surrounds a resource that works on one Server under a maintenance  *)
(* of its own: the maintenance, the BMC's reset request, the machine, the  *)
(* conditions of the Server, and the API calls and BMC commands by which   *)
(* the controller changes them.                                            *)
(*                                                                         *)
(* A reconcile reads its inputs, decides on a sequence of effects and      *)
(* performs the first, in one step; then one step per further effect.      *)
(* Between any two other processes run, a call may fail and the operator   *)
(* may crash: both lose the rest of the reconcile, and the request is      *)
(* queued again.  job.do is what is left to perform and job.copy the       *)
(* object in the reconcile's memory: a patch sends the fields that differ  *)
(* from it, and overwrites it with the answer.                             *)
(*                                                                         *)
(* objects, maintenances and resets are watch streams, as in               *)
(* ServerMaintenance: the last element is stored, the first one cached.    *)
(* The Server's own events arrive at once.                                 *)
(***************************************************************************)
EXTENDS PowerCycle, Naturals

CONSTANTS
    None,
    Idle,           \* the controller between two reconciles
    Versions,       \* firmware versions
    LazyRestart,    \* may a restarting Server be reported On before it goes down
    AtOnce,         \* may firmware be installed at once, and its task deleted
    MaxLag,         \* bound: versions of a kind the cache may trail by
    MaxFaults,      \* bound: failed calls, crashes, failed upgrades
    MaxUpgrades     \* bound: upgrade tasks the BMC ever runs

ASSUME ResourceAssumption ==
    /\ {LazyRestart, AtOnce} \subseteq BOOLEAN
    /\ MaxLag \in Nat \ {0}
    /\ MaxFaults \in Nat
    /\ MaxUpgrades \in Nat \ {0}
    /\ None \notin Versions

VARIABLES
    objects,        \* watch stream of the resource
    maintenances,   \* watch stream of its ServerMaintenance, None when absent
    parked,         \* is the Server parked for that maintenance
    resets,         \* watch stream of the BMC's reset request
    machine,        \* the Server's hardware
    completion,     \* the completion condition on the Server
    gate,           \* do the Server's conditions satisfy the readiness gates
    queued,         \* is a request waiting for the controller's worker
    job,            \* the reconcile in progress
    faults          \* failures so far

vars == <<objects, maintenances, parked, resets, machine, completion, gate,
          queued, job, faults>>

MaintenanceState == {"", "Pending", "InMaintenance"}
Maintenance == [state : MaintenanceState, deleting : BOOLEAN] \cup {None}

ASSUME AbsenceAssumption ==
    None \notin [state : MaintenanceState, deleting : BOOLEAN]

Power == {"On", "Off", "PoweringOff", "ForcingOff", "PoweringOn", "Rebooting", "Restarting"}
TaskState == {"running", "completed", "failed", "gone"}
Task == [version : Versions, state : TaskState]
Machine == [power : Power, firmware : Versions, staged : Versions \cup {None},
            tasks : Seq(Task)]

CompletionStatus == {"absent", "False", "Unknown", "True"}

Stored(stream) == stream[Len(stream)]
Cached(stream) == stream[1]
Write(stream, new) ==
    IF new = Stored(stream) THEN stream ELSE Append(stream, new)
Writable(stream, new) == new = Stored(stream) \/ Len(stream) =< MaxLag

EnvironmentOK ==
    /\ maintenances \in Seq(Maintenance) /\ Len(maintenances) > 0
    /\ parked \in BOOLEAN
    /\ resets \in Seq(BOOLEAN) /\ Len(resets) > 0
    /\ machine \in Machine
    /\ completion \in CompletionStatus
    /\ gate \in BOOLEAN
    /\ queued \in BOOLEAN
    /\ faults \in Nat

\* A freshly deployed Server: powered on, on some firmware, unparked.
EnvironmentInit(firmware) ==
    /\ maintenances = <<None>>
    /\ parked = FALSE
    /\ resets = <<FALSE>>
    /\ machine = [power |-> "On", firmware |-> firmware, staged |-> None, tasks |-> <<>>]
    /\ completion = "absent"
    /\ gate \in BOOLEAN
    /\ queued = TRUE
    /\ job = Idle
    /\ faults = 0

\* The power state the BMC reports: until the restart it was asked for
\* begins, the Server is still On.
PowerState == IF machine.power = "Rebooting" THEN "On" ELSE machine.power

\* IsAnyServerMaintenanceActive, on the cached maintenance.
IsMaintenanceActive ==
    /\ Cached(maintenances) # None
    /\ ~Cached(maintenances).deleting
    /\ Cached(maintenances).state = "InMaintenance"

-----------------------------------------------------------------------------
(* The ServerMaintenance controller, as ServerMaintenance shows it: it     *)
(* parks the Server before it grants, and unparks it before a deleted      *)
(* maintenance goes.  The grant may take the owner's approval and the turn *)
(* of every other maintenance; it comes in the end.  Parking and unparking *)
(* are events of the Server: whom they wake is left to the resource.       *)

WriteMaintenance(new) ==
    /\ Writable(maintenances, new)
    /\ maintenances' = Write(maintenances, new)

MaintenancePending ==
    /\ Stored(maintenances) # None
    /\ Stored(maintenances).state = ""
    /\ ~Stored(maintenances).deleting
    /\ WriteMaintenance([Stored(maintenances) EXCEPT !.state = "Pending"])
    /\ UNCHANGED <<objects, parked, resets, machine, completion, gate, queued, job, faults>>

MaintenanceGranted ==
    /\ Stored(maintenances) # None
    /\ Stored(maintenances).state = "Pending"
    /\ ~Stored(maintenances).deleting
    /\ parked' = TRUE
    /\ WriteMaintenance([Stored(maintenances) EXCEPT !.state = "InMaintenance"])
    /\ UNCHANGED <<objects, resets, machine, completion, gate, job, faults>>

Unpark ==
    /\ Stored(maintenances) # None
    /\ Stored(maintenances).deleting
    /\ parked
    /\ parked' = FALSE
    /\ UNCHANGED <<objects, maintenances, resets, machine, completion, gate, job, faults>>

MaintenanceGone ==
    /\ Stored(maintenances) # None
    /\ Stored(maintenances).deleting
    /\ ~parked
    /\ WriteMaintenance(None)
    /\ UNCHANGED <<objects, parked, resets, machine, completion, gate, queued, job, faults>>

\* The garbage collector deletes the maintenance of an owner that is gone.
GarbageCollect ==
    /\ Stored(objects).phase = "gone"
    /\ Stored(maintenances) # None
    /\ ~Stored(maintenances).deleting
    /\ WriteMaintenance([Stored(maintenances) EXCEPT !.deleting = TRUE])
    /\ UNCHANGED <<objects, parked, resets, machine, completion, gate, queued, job, faults>>

-----------------------------------------------------------------------------
(* metal-operator resets the BMC it is asked to reset, and the machine      *)
(* carries out commands and tasks in its own time.                          *)

BMCReset ==
    /\ Stored(resets)
    /\ Writable(resets, FALSE)
    /\ resets' = Write(resets, FALSE)
    /\ UNCHANGED <<objects, maintenances, parked, machine, completion, gate, queued, job, faults>>

\* A start installs the firmware that was staged.
Started(m) ==
    [m EXCEPT !.power = "On", !.staged = None,
              !.firmware = IF m.staged = None THEN @ ELSE m.staged]

PowerChange ==
    /\ machine.power \notin {"On", "Off"}
    /\ machine' = CASE machine.power \in {"PoweringOff", "ForcingOff"} ->
                         [machine EXCEPT !.power = "Off"]
                    [] machine.power = "Rebooting" -> [machine EXCEPT !.power = "Restarting"]
                    [] OTHER -> Started(machine)
    /\ UNCHANGED <<objects, maintenances, parked, resets, completion, gate, queued, job, faults>>

\* Vendors differ: the firmware waits for a start and the task stays, or it
\* is installed at once and the task is deleted with its success.
TaskCompletes(t) ==
    /\ machine.tasks[t].state = "running"
    /\ \/ machine' = [machine EXCEPT !.tasks[t].state = "completed",
                                     !.staged = machine.tasks[t].version]
       \/ /\ AtOnce
          /\ machine' = [machine EXCEPT !.tasks[t].state = "gone",
                                        !.firmware = machine.tasks[t].version]
    /\ UNCHANGED <<objects, maintenances, parked, resets, completion, gate, queued, job, faults>>

TaskFails(t) ==
    /\ faults < MaxFaults
    /\ faults' = faults + 1
    /\ machine.tasks[t].state = "running"
    /\ machine' = [machine EXCEPT !.tasks[t].state = "failed"]
    /\ UNCHANGED <<objects, maintenances, parked, resets, completion, gate, queued, job>>

\* What a command does at once; the rest is PowerChange.
Commanded(m, command) ==
    CASE command = "PowerOff" /\ m.power \notin {"Off", "ForcingOff"} ->
           [m EXCEPT !.power = "PoweringOff"]
      [] command = "ForcePowerOff" /\ m.power # "Off" -> [m EXCEPT !.power = "ForcingOff"]
      [] command = "PowerOn" /\ m.power = "Off" -> [m EXCEPT !.power = "PoweringOn"]
      [] command = "Reset" /\ m.power = "On" ->
           [m EXCEPT !.power = IF LazyRestart THEN "Rebooting" ELSE "Restarting"]
      [] OTHER -> m

\* The machine after it accepted an upgrade.
Upgrading(m, version) ==
    [m EXCEPT !.tasks = Append(@, [version |-> version, state |-> "running"])]

Running == {t \in 1..Len(machine.tasks) : machine.tasks[t].state = "running"}

\* CheckBMCPendingComponentUpgrade: an upgrade under way or waiting for a start.
UpgradePending == Running # {} \/ machine.staged # None
=============================================================================
