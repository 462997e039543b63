---------------------------- MODULE BIOSVersion ----------------------------
(***************************************************************************)
(* The BIOSVersion controller: one BIOSVersion brings the BIOS of its      *)
(* Server to spec.version, under a ServerMaintenance it requests.          *)
(*                                                                         *)
(* The reconcile of each state is an operator Plan...: the set of things   *)
(* it may decide on the cached object, the environment and the hardware.   *)
(* A plan is an outcome of PowerCycle with `again`, whether the request    *)
(* comes back by itself (RequeueAfter, or an error).                       *)
(*                                                                         *)
(* Left out: the ignore annotation and the Server's own deletion; two      *)
(* BIOSVersions of one Server, which the webhook refuses.                  *)
(***************************************************************************)
EXTENDS ServerResource, FiniteSets

CONSTANTS
    Installed,      \* the firmware at first
    Wanted,         \* spec.version at first
    Gated,          \* does the spec have readiness gates
    Cooldown,       \* may a BMC reset be skipped for a recent one
    ChecksPending,  \* does the vendor report pending component upgrades
    FatalStarts,    \* may an upgrade refused with a fatal error run all the same
    User,           \* what users do: retry, change (the version), changeRetried
                    \* (also after a manual retry), changeEarly (also before the
                    \* maintenance of the last upgrade is gone), delete
    StaleObject,    \* may a reconcile start from an outdated BIOSVersion
    MaxAttempts,    \* spec.retryPolicy.maxAttempts
    MaxRequests     \* bound: what users and gates do in all

ASSUME BIOSVersionAssumption ==
    /\ {Installed, Wanted} \subseteq Versions
    /\ {Gated, Cooldown, ChecksPending, FatalStarts, StaleObject} \subseteq BOOLEAN
    /\ User \subseteq {"retry", "change", "changeRetried", "changeEarly", "delete"}
    /\ MaxAttempts \in Nat
    /\ MaxRequests \in Nat

VARIABLE requests   \* what users and gates did so far

allVars == <<objects, maintenances, parked, resets, machine, completion, gate,
             queued, job, faults, requests>>

State == {"", "Pending", "InProgress", "Completed", "Failed"}
ConditionType == StageType \cup
    {"ReadinessGatesSatisfied", "ServerMaintenanceCreated", "ServerMaintenanceWaiting",
     "ResetIssued", "RetryResetIssued", "RetryOfFailedResourceIssued",
     "UpgradeServerPowerOnIssued", "VersionUpgradeIssued", "VersionUpgradeCompleted",
     "UpgradeRebootIssued", "UpgradeRebootObservedOff", "UpgradePowerOn",
     "UpgradeRebootTimedOut", "VersionUpgradeVerification"}
ConditionValue == StageValue \cup {"false", "approved", "failed"}
NoConditions == [type \in ConditionType |-> "unset"]

\* An update of the status without a condition is told from one with.
ASSUME ConditionAssumption == None \notin ConditionType

\* status.failedAttempts: counted up to the maximum, or given up.
Exhausted == MaxAttempts + 1

\* `current` is whether status.observedGeneration is the generation.
BIOSVersionObject ==
    [phase : {"live", "deleting", "gone"}, finalizer : BOOLEAN, retry : BOOLEAN,
     version : Versions, ref : BOOLEAN, state : State, task : 0..MaxUpgrades,
     attempts : 0..Exhausted, current : BOOLEAN,
     conds : [ConditionType -> ConditionValue]]

TypeOK ==
    /\ EnvironmentOK
    /\ objects \in Seq(BIOSVersionObject) /\ Len(objects) > 0
    /\ job = Idle \/ job.copy \in BIOSVersionObject
    /\ requests \in Nat

-----------------------------------------------------------------------------
(* Effects of a reconcile *)

\* updateStatus with a condition: state, task and one condition, together.
UpdateStatus(state, task, type, value) ==
    [op |-> "status", state |-> state, task |-> task, type |-> type, value |-> value]

\* updateStatus without one, and without a task: the conditions go.
ClearStatus(state) == UpdateStatus(state, "clear", None, None)

Patch(fields) == [op |-> "patch", fields |-> fields]
PatchCompletion(status) == [op |-> "completion", status |-> status]
Ref == Patch([ref |-> TRUE])
Unref == Patch([ref |-> FALSE])

Plan(outcome, again) ==
    [do |-> outcome.do, again |-> again]
Rest == Plan(Wait, FALSE)
Poll == Plan(Wait, TRUE)

\* The in-memory object after the fields of an effect were set.
After(effect, o) ==
    CASE effect.op = "patch" ->
           [f \in DOMAIN o |-> IF f \in DOMAIN effect.fields THEN effect.fields[f] ELSE o[f]]
      [] effect.op = "status" ->
           [o EXCEPT !.current = TRUE,
                     !.state = IF effect.state = "same" THEN @ ELSE effect.state,
                     !.task = CASE effect.task = "keep" -> @
                                [] effect.task = "clear" -> 0
                                [] effect.task = "new" -> Len(machine.tasks),
                     !.conds = IF effect.type = None THEN NoConditions
                               ELSE [@ EXCEPT ![effect.type] = effect.value]]
      [] OTHER -> o

\* A merge patch from base to new, applied to what is stored.  A change of
\* the spec raises the generation; an observed generation is the one of the
\* spec in memory.
Merged(base, new, stored) ==
    LET changed == [f \in DOMAIN stored |-> IF new[f] = base[f] THEN stored[f] ELSE new[f]]
        specOf(o) == <<o.version, o.ref>>
    IN  [changed EXCEPT
           !.current = CASE specOf(changed) # specOf(stored) -> FALSE
                         [] new.current # base.current -> specOf(stored) = specOf(base)
                         [] OTHER -> @,
           !.phase = IF stored.phase = "deleting" /\ ~changed.finalizer THEN "gone" ELSE @]

-----------------------------------------------------------------------------
(* Pieces of the reconcile *)

GatesSatisfied == gate \/ ~Gated

ReadinessGatesNotSatisfied(state) ==
    UpdateStatus(state, "keep", "ReadinessGatesSatisfied", "false")

MarkReadinessGatesSatisfied(o) ==
    IF o.conds["ReadinessGatesSatisfied"] = "true"
         \/ (~Gated /\ o.conds["ReadinessGatesSatisfied"] = "unset")
    THEN <<>>
    ELSE <<UpdateStatus("same", "keep", "ReadinessGatesSatisfied", "true")>>

CleanupServerMaintenanceReferences(o) ==
    CASE ~o.ref -> <<>>
      [] o.ref /\ Cached(maintenances) # None /\ ~Cached(maintenances).deleting ->
           <<[op |-> "deleteMaintenance"], Unref>>
      [] OTHER -> <<Unref>>

\* requestServerMaintenance: <<>> when the maintenance is there and recorded.
RequestServerMaintenance(o) ==
    CASE ~o.ref -> <<[op |-> "createMaintenance"], Ref>>
      [] o.ref /\ Cached(maintenances) = None -> <<Unref>>
      [] o.ref /\ Cached(maintenances) # None ->
           IF o.conds["ServerMaintenanceCreated"] = "true" THEN <<>>
           ELSE <<UpdateStatus("same", "keep", "ServerMaintenanceCreated", "true")>>

\* cleanup: is the firmware what the spec wants, and what to do about it.
Cleanup(o) ==
    IF machine.firmware = o.version
    THEN <<PatchCompletion("True")>> \o CleanupServerMaintenanceReferences(o)
         \o (IF o.state = "Completed" THEN <<>> ELSE <<ClearStatus("Completed")>>)
    ELSE (IF o.state = "Completed" THEN <<PatchCompletion("False")>> ELSE <<>>)
         \o LET next == IF o.state = "Completed" THEN "Pending" ELSE "InProgress"
            IN  IF o.conds["RetryOfFailedResourceIssued"] = "true"
                THEN <<UpdateStatus(next, "clear", "RetryOfFailedResourceIssued", "true")>>
                ELSE <<ClearStatus(next)>>

-----------------------------------------------------------------------------
(* InProgress: the upgrade *)

\* The upgrade is issued to a Server that is on and has none pending.
Upgrade(o) ==
    CASE PowerState # "On" ->
           IF o.conds["UpgradeServerPowerOnIssued"] = "true" THEN {Poll}
           ELSE {Plan(Do(<<Command("PowerOn"),
                           UpdateStatus("same", "keep", "UpgradeServerPowerOnIssued", "true")>>),
                      FALSE)}
      [] PowerState = "On" /\ ChecksPending /\ UpgradePending -> {Poll}
      [] OTHER ->
           {Plan(Do(<<[op |-> "upgrade", version |-> o.version],
                      UpdateStatus("same", "new", "VersionUpgradeIssued", "true")>>), FALSE)}

\* checkUpdateBiosUpgradeStatus, and its caller's way out when the task
\* cannot be fetched.
CheckUpgradeStatus(o) ==
    LET state == IF o.task = 0 THEN "gone" ELSE machine.tasks[o.task].state
        completed(value) == UpdateStatus("same", "keep", "VersionUpgradeCompleted", value)
    IN  CASE state = "running" -> {Plan(Do(<<completed("false")>>), TRUE)}
          [] state = "completed" -> {Plan(Do(<<completed("true")>>), FALSE)}
          [] state = "failed" ->
               {Plan(Do(<<UpdateStatus("Failed", "keep", "VersionUpgradeCompleted", "failed")>>),
                     FALSE)}
          [] state = "gone" ->
               IF machine.firmware = o.version
               THEN {Plan(Do(<<completed("true")>>), FALSE)} ELSE {Poll}

RebootServer(o) ==
    LET set(type) == UpdateStatus("same", "keep", type, "true")
    IN  IF o.conds["UpgradeRebootIssued"] # "true"
        THEN CASE PowerState = "On" ->
                    {Plan(Do(<<Command("Reset"), set("UpgradeRebootIssued")>>), TRUE)}
               [] PowerState = "Off" ->
                    {Plan(Do(<<Command("PowerOn"), set("UpgradeRebootIssued")>>), TRUE)}
               [] OTHER -> {Poll}
        ELSE {Plan(Do(<<UpdateStatus("Failed", "keep", "UpgradeRebootTimedOut", "true")>>), TRUE)}
             \cup (CASE PowerState = "On" -> {Plan(Do(<<set("UpgradePowerOn")>>), TRUE)}
                     [] PowerState # "On" /\ o.conds["UpgradeRebootObservedOff"] # "true" ->
                          {Plan(Do(<<set("UpgradeRebootObservedOff")>>), TRUE)}
                     [] OTHER -> {Poll})

Verify(o) ==
    IF machine.firmware # o.version THEN {Poll}
    ELSE {Plan(Do(<<UpdateStatus("Completed", "keep", "VersionUpgradeVerification", "true")>>),
               FALSE)}

\* Mutant: the reboot does not wait for the upgrade task.
ProcessInProgressStateHasty(o) ==
    CASE o.conds["VersionUpgradeIssued"] # "true" -> Upgrade(o)
      [] o.conds["VersionUpgradeIssued"] = "true" /\ o.conds["UpgradePowerOn"] # "true" ->
           RebootServer(o)
      [] OTHER -> Verify(o)

ProcessInProgressState(o) ==
    CASE o.conds["VersionUpgradeIssued"] # "true" -> Upgrade(o)
      [] /\ o.conds["VersionUpgradeIssued"] = "true"
         /\ o.conds["VersionUpgradeCompleted"] \notin {"true", "failed"} -> CheckUpgradeStatus(o)
      [] /\ o.conds["VersionUpgradeIssued"] = "true"
         /\ o.conds["VersionUpgradeCompleted"] \in {"true", "failed"}
         /\ o.conds["UpgradePowerOn"] # "true" -> RebootServer(o)
      [] OTHER ->
           IF o.conds["VersionUpgradeVerification"] # "true" THEN Verify(o) ELSE {Rest}

\* handleServerMaintenance while the maintenance is not granted.
AwaitMaintenance(o) ==
    CASE ~GatesSatisfied ->
           CleanupServerMaintenanceReferences(o) \o <<ReadinessGatesNotSatisfied("Pending")>>
      [] GatesSatisfied /\ o.conds["ServerMaintenanceWaiting"] # "true" ->
           <<UpdateStatus("same", "keep", "ServerMaintenanceWaiting", "true")>>
      [] OTHER -> <<>>

\* The BMC reset, and what follows it in the same reconcile.
UnderMaintenance(o) ==
    LET start == IF completion = "Unknown" THEN <<>> ELSE <<PatchCompletion("Unknown")>>
        before(plan, effects) == [plan EXCEPT !.do = effects \o @]
    IN  UNION {IF ~r.ready THEN {Plan(Do(start \o r.do), FALSE)}
               ELSE {before(p, start \o r.do) : p \in ProcessInProgressState(o)}
               : r \in HandleBMCReset(o.conds["ResetIssued"], "ResetIssued", FALSE,
                                      Cooldown, Cached(resets))}

\* Mutant: the grant is not waited for.
PlanInProgressUnasked(o) ==
    LET request == RequestServerMaintenance(o)
    IN  IF request # <<>> THEN {Plan(Do(request), FALSE)} ELSE UnderMaintenance(o)

PlanInProgress(o) ==
    LET request == RequestServerMaintenance(o)
    IN  CASE request # <<>> -> {Plan(Do(request), FALSE)}
          [] request = <<>> /\ Cached(maintenances).state # "InMaintenance" ->
               {Plan(Do(AwaitMaintenance(o)), FALSE)}
          [] OTHER ->
               IF o.conds["ServerMaintenanceWaiting"] # "approved"
               THEN {Plan(Do(<<UpdateStatus("same", "keep", "ServerMaintenanceWaiting", "approved")>>),
                          FALSE)}
               ELSE UnderMaintenance(o)

-----------------------------------------------------------------------------
(* Failed: retry, or stay *)

\* What giving up the power cycle means to a BIOSVersion: the manual request
\* is dropped, the automatic ones are used up.
GiveUp(o) ==
    (IF o.retry THEN <<Patch([retry |-> FALSE])>> ELSE <<>>)
    \o (IF o.attempts # Exhausted THEN <<Patch([attempts |-> Exhausted])>> ELSE <<>>)

EnsureResetBeforeRetry(o) ==
    LET active == o.ref /\ IsMaintenanceActive
        mark == IF active THEN <<>> ELSE MarkReadinessGatesSatisfied(o)
        request == RequestServerMaintenance(o)
    IN  CASE ~active /\ ~GatesSatisfied -> {Do(<<ReadinessGatesNotSatisfied("same")>>)}
          [] active /\ request = <<>> ->
               UNION {IF r.ready
                      THEN HandleServerPowerCycle(o.conds, PowerState, GiveUp(o))
                      ELSE {r}
                      : r \in HandleBMCReset(o.conds["RetryResetIssued"], "RetryResetIssued",
                                             TRUE, FALSE, Cached(resets))}
          [] OTHER -> {Do(mark \o request)}

\* A failure is retried from Pending with no conditions but the manual retry's.
RetryPatch(attempts, retried) ==
    Patch([state |-> "Pending", attempts |-> attempts, current |-> TRUE,
           conds |-> [NoConditions EXCEPT ![ "RetryOfFailedResourceIssued"] = retried]])

ResetAttempts == <<Patch([attempts |-> 0, current |-> TRUE])>>

\* Mutant: the retry does not wait for the Server.
PlanFailedAtOnce(o) ==
    IF o.retry \/ o.attempts < MaxAttempts
    THEN {Plan(Do(<<RetryPatch(o.attempts + 1, "unset")>>), TRUE)} ELSE {Rest}

PlanFailed(o) ==
    LET restart == MaxAttempts > 0 /\ ~o.current
        attempts == IF restart THEN 0 ELSE o.attempts
        first == IF restart THEN ResetAttempts ELSE <<>>
    IN  CASE o.retry ->
               {Plan(IF r.ready THEN Do(<<RetryPatch(0, "true")>>) ELSE r, TRUE)
                : r \in EnsureResetBeforeRetry(o)}
          [] ~o.retry /\ attempts < MaxAttempts ->
               {Plan([r EXCEPT !.do = first \o
                        IF r.ready
                        THEN <<RetryPatch(attempts + 1, o.conds["RetryOfFailedResourceIssued"])>>
                        ELSE @], TRUE)
                : r \in EnsureResetBeforeRetry([o EXCEPT !.attempts = attempts])}
          [] OTHER ->
               {Plan(Do(IF MaxAttempts = 0 /\ o.attempts # 0 THEN ResetAttempts ELSE first),
                     FALSE)}

-----------------------------------------------------------------------------
(* The other states, and deletion *)

PlanPending(o) ==
    LET first == IF completion = "absent" THEN <<PatchCompletion("False")>> ELSE <<>>
    IN  CASE o.retry -> {Plan(Do(<<Patch([retry |-> FALSE])>>), FALSE)}
          [] ~o.retry /\ ~GatesSatisfied ->
               {Plan(Do(first \o <<ReadinessGatesNotSatisfied("Pending")>>), FALSE)}
          [] OTHER ->
               {Plan(Do(first \o MarkReadinessGatesSatisfied(o) \o Cleanup(o)), FALSE)}

PlanCompleted(o) ==
    IF GatesSatisfied
    THEN {Plan(Do(MarkReadinessGatesSatisfied(o) \o Cleanup(o)), FALSE)}
    ELSE {Plan(Do(CleanupServerMaintenanceReferences(o)
                  \o <<ReadinessGatesNotSatisfied("Completed")>>), FALSE)}

\* shouldDelete's isProgressing: an upgrade under an active maintenance.
Progressing(o) == o.state = "InProgress" /\ o.ref /\ IsMaintenanceActive

PlanDelete(o) ==
    {Plan(Do(IF o.finalizer
             THEN <<PatchCompletion("absent"), Patch([finalizer |-> FALSE])>>
             ELSE <<>>), FALSE)}

Plans(o) ==
    CASE o.phase = "gone" -> {Rest}
      [] o.phase = "deleting" /\ ~(o.finalizer /\ Progressing(o)) -> PlanDelete(o)
      [] o.phase = "live" /\ ~o.finalizer -> {Plan(Do(<<Patch([finalizer |-> TRUE])>>), FALSE)}
      [] OTHER ->
           CASE o.state \in {"", "Pending"} -> PlanPending(o)
             [] o.state = "InProgress" -> PlanInProgress(o)
             [] o.state = "Completed" -> PlanCompleted(o)
             [] o.state = "Failed" -> PlanFailed(o)

-----------------------------------------------------------------------------
(* Wakeups *)

\* enqueueBiosVersionByServerRefs
WokenByServer(o) ==
    /\ o.phase # "gone"
    /\ o.state # "Failed"
    /\ IF o.state = "InProgress" THEN o.ref ELSE Gated \/ o.ref

\* Mutant: a reset that was asked for in InProgress wakes nobody.
WokenByBMCFailedOnly(o) ==
    o.phase # "gone" /\ o.state = "Failed" /\ o.conds["RetryResetIssued"] = "issued"

\* enqueueBiosSettingsByBMC
WokenByBMC(o) ==
    /\ o.phase # "gone"
    /\ \/ o.state = "InProgress" /\ o.conds["ResetIssued"] = "issued"
       \/ o.state = "Failed" /\ o.conds["RetryResetIssued"] = "issued"

ServerEvent == queued' = (queued \/ WokenByServer(Cached(objects)))

DeliverObject ==
    /\ Len(objects) > 1
    /\ objects' = Tail(objects)
    /\ queued' = TRUE
    /\ UNCHANGED <<maintenances, parked, resets, machine, completion, gate, job, faults, requests>>

DeliverMaintenance ==
    /\ Len(maintenances) > 1
    /\ maintenances' = Tail(maintenances)
    /\ queued' = TRUE
    /\ UNCHANGED <<objects, parked, resets, machine, completion, gate, job, faults, requests>>

DeliverReset ==
    /\ Len(resets) > 1
    /\ resets' = Tail(resets)
    /\ queued' = (queued \/ WokenByBMC(Cached(objects)))
    /\ UNCHANGED <<objects, maintenances, parked, machine, completion, gate, job, faults, requests>>

-----------------------------------------------------------------------------
(* Reconcile *)

\* A reconcile has done the first of the effects `do`: copy is the object in
\* its memory, and `again` whether it ends with a request of its own.
Proceed(do, again, copy) ==
    job' = IF Len(do) = 1 THEN Idle
           ELSE [do |-> Tail(do), again |-> again, copy |-> copy]

\* Starting a reconcile takes the request from the queue.
Requests(do, again) == (job # Idle /\ queued) \/ (Len(do) = 1 /\ again)

\* The webhook reads what is stored: no change of the spec and no deletion
\* during an upgrade under an active maintenance.
UnderActiveMaintenance(o) ==
    /\ o.state = "InProgress" /\ o.ref
    /\ Stored(maintenances) = [state |-> "InMaintenance", deleting |-> FALSE]

PatchObject(do, again, copy) ==
    /\ Head(do).op \in {"status", "patch"}
    /\ Stored(objects).phase # "gone"
    /\ LET result == Merged(copy, After(Head(do), copy), Stored(objects))
       IN  /\ result.ref # Stored(objects).ref => ~UnderActiveMaintenance(Stored(objects))
           /\ Writable(objects, result)
           /\ objects' = Write(objects, result)
           /\ Proceed(do, again, result)
    /\ queued' = Requests(do, again)
    /\ UNCHANGED <<maintenances, resets, machine, completion>>

\* PatchServerCondition and RemoveServerCondition.
PatchServer(do, again, copy) ==
    /\ Head(do).op = "completion"
    /\ completion' = Head(do).status
    /\ queued' = \/ Requests(do, again)
                 \/ (completion' # completion /\ WokenByServer(Cached(objects)))
    /\ Proceed(do, again, copy)
    /\ UNCHANGED <<objects, maintenances, resets, machine>>

\* IssueBMCReset: a request the cached BMC carries is not repeated.
RequestReset(do, again, copy) ==
    /\ Head(do).op = "resetBMC"
    /\ LET result == IF Cached(resets) THEN Stored(resets) ELSE TRUE
       IN  Writable(resets, result) /\ resets' = Write(resets, result)
    /\ queued' = Requests(do, again)
    /\ Proceed(do, again, copy)
    /\ UNCHANGED <<objects, maintenances, machine, completion>>

DeleteMaintenance(do, again, copy) ==
    /\ Head(do).op = "deleteMaintenance"
    /\ Stored(maintenances) # None
    /\ WriteMaintenance([Stored(maintenances) EXCEPT !.deleting = TRUE])
    /\ queued' = Requests(do, again)
    /\ Proceed(do, again, copy)
    /\ UNCHANGED <<objects, resets, machine, completion>>

\* CreateOrPatch: a maintenance the cache holds is kept, and set back to its
\* first state if it is pending there.
CreateMaintenance(do, again, copy) ==
    /\ Head(do).op = "createMaintenance"
    /\ (Cached(maintenances) = None) = (Stored(maintenances) = None)
    /\ WriteMaintenance(
         IF Cached(maintenances) = None THEN [state |-> "", deleting |-> FALSE]
         ELSE IF Cached(maintenances).state = "Pending"
         THEN [Stored(maintenances) EXCEPT !.state = ""] ELSE Stored(maintenances))
    /\ queued' = Requests(do, again)
    /\ Proceed(do, again, copy)
    /\ UNCHANGED <<objects, resets, machine, completion>>

SendCommand(do, again, copy) ==
    /\ Head(do).op = "command"
    /\ machine' = Commanded(machine, Head(do).command)
    /\ queued' = Requests(do, again)
    /\ Proceed(do, again, copy)
    /\ UNCHANGED <<objects, maintenances, resets, completion>>

\* upgradeBIOSVersion's call.
IssueUpgrade(do, again, copy) ==
    /\ Head(do).op = "upgrade"
    /\ Len(machine.tasks) < MaxUpgrades
    /\ machine' = Upgrading(machine, Head(do).version)
    /\ queued' = Requests(do, again)
    /\ Proceed(do, again, copy)
    /\ UNCHANGED <<objects, maintenances, resets, completion>>

\* A fatal error fails the upgrade, though it "might still go through on the
\* server".
FailUpgrade(do, copy) ==
    /\ Head(do).op = "upgrade"
    /\ faults < MaxFaults
    /\ faults' = faults + 1
    /\ machine' \in {machine} \cup
         (IF FatalStarts /\ Len(machine.tasks) < MaxUpgrades THEN {Upgrading(machine, Head(do).version)} ELSE {})
    /\ job' = [do |-> <<UpdateStatus("Failed", "clear", "VersionUpgradeIssued", "failed")>>,
               again |-> FALSE, copy |-> copy]
    /\ queued' = Requests(do, FALSE)
    /\ UNCHANGED <<objects, maintenances, resets, completion>>

\* A call the API server refuses: an object that is gone or already there,
\* a change the webhook rejects.  The error queues the request again.
Refused(do, again, copy) ==
    /\ LET e == Head(do)
       IN  CASE e.op \in {"status", "patch"} ->
                  \/ Stored(objects).phase = "gone"
                  \/ /\ After(e, copy).ref # copy.ref
                     /\ After(e, copy).ref # Stored(objects).ref
                     /\ UnderActiveMaintenance(Stored(objects))
             [] e.op = "deleteMaintenance" -> Stored(maintenances) = None
             [] e.op = "createMaintenance" ->
                  (Cached(maintenances) = None) # (Stored(maintenances) = None)
             [] OTHER -> FALSE
    /\ job' = Idle
    /\ queued' = TRUE
    /\ UNCHANGED <<objects, maintenances, resets, machine, completion>>

Perform(do, again, copy) ==
    /\ \/ /\ \/ PatchObject(do, again, copy) \/ PatchServer(do, again, copy)
             \/ RequestReset(do, again, copy) \/ DeleteMaintenance(do, again, copy)
             \/ CreateMaintenance(do, again, copy) \/ Refused(do, again, copy)
             \/ SendCommand(do, again, copy) \/ IssueUpgrade(do, again, copy)
          /\ UNCHANGED faults
       \/ FailUpgrade(do, copy)
    /\ UNCHANGED <<parked, gate, requests>>

\* A reconcile up to and including its first effect.
Reconcile ==
    /\ job = Idle
    /\ queued
    /\ StaleObject \/ Len(objects) = 1
    /\ \E plan \in Plans(Cached(objects)) :
         /\ IF plan.do = <<>>
            THEN /\ queued' = plan.again
                 /\ UNCHANGED <<objects, maintenances, parked, resets, machine,
                                completion, gate, job, faults, requests>>
            ELSE Perform(plan.do, plan.again, Cached(objects))

Continue ==
    /\ job # Idle
    /\ Perform(job.do, job.again, job.copy)

\* A later call fails, or the operator crashes and starts again.
Fail ==
    /\ job # Idle
    /\ faults < MaxFaults
    /\ faults' = faults + 1
    /\ job' = Idle
    /\ queued' = TRUE
    /\ UNCHANGED <<objects, maintenances, parked, resets, machine, completion, gate, requests>>

Controller == Reconcile \/ Continue

-----------------------------------------------------------------------------
(* Users, gates, and the specification *)

Asked ==
    /\ requests < MaxRequests
    /\ requests' = requests + 1
    /\ UNCHANGED <<maintenances, parked, resets, machine, completion, job, faults>>

WriteObject(new) ==
    /\ Writable(objects, new)
    /\ objects' = Write(objects, new)

RetryManually ==
    /\ "retry" \in User
    /\ Stored(objects).phase = "live"
    /\ Stored(objects).state = "Failed"
    /\ ~Stored(objects).retry
    /\ WriteObject([Stored(objects) EXCEPT !.retry = TRUE])
    /\ Asked
    /\ UNCHANGED <<gate, queued>>

ChangeVersion(version) ==
    LET o == Stored(objects)
    IN  /\ "change" \in User
        /\ o.phase = "live"
        /\ version # o.version
        /\ ~UnderActiveMaintenance(o)
        /\ o.conds["RetryOfFailedResourceIssued"] = "true" => "changeRetried" \in User
        /\ maintenances # <<None>> /\ o.state \in {"Pending", "Completed"}
             => "changeEarly" \in User
        /\ WriteObject([o EXCEPT !.version = version, !.current = FALSE])
        /\ Asked
        /\ UNCHANGED <<gate, queued>>

Delete ==
    LET o == Stored(objects)
    IN  /\ "delete" \in User
        /\ o.phase = "live"
        /\ ~UnderActiveMaintenance(o)
        /\ WriteObject([o EXCEPT !.phase = IF o.finalizer THEN "deleting" ELSE "gone"])
        /\ Asked
        /\ UNCHANGED <<gate, queued>>

GateChanges ==
    /\ Gated
    /\ gate' = ~gate
    /\ ServerEvent
    /\ Asked
    /\ UNCHANGED objects

Init ==
    /\ EnvironmentInit(Installed)
    /\ objects = <<[phase |-> "live", finalizer |-> FALSE, retry |-> FALSE,
                    version |-> Wanted, ref |-> FALSE, state |-> "", task |-> 0,
                    attempts |-> 0, current |-> FALSE, conds |-> NoConditions]>>
    /\ requests = 0

Delivery == DeliverObject \/ DeliverMaintenance \/ DeliverReset
Server == (MaintenanceGranted \/ Unpark) /\ ServerEvent /\ UNCHANGED requests
Others ==
    /\ \/ MaintenancePending \/ MaintenanceGone \/ GarbageCollect \/ BMCReset \/ PowerChange
       \/ \E t \in 1..Len(machine.tasks) : TaskCompletes(t)
    /\ UNCHANGED requests

Next ==
    \/ Controller \/ Delivery \/ Server \/ Others
    \/ Fail
    \/ \E t \in 1..Len(machine.tasks) : TaskFails(t) /\ UNCHANGED requests
    \/ RetryManually \/ Delete \/ GateChanges
    \/ \E version \in Versions : ChangeVersion(version)

Spec == Init /\ [][Next]_allVars

\* Something is done as long as the worker has a request to take, a watch an
\* event to deliver, or metal-operator or the hardware what it was asked for.
Fairness == WF_allVars(Delivery \/ Server \/ Others \/ Controller)

FairSpec == Spec /\ Fairness

-----------------------------------------------------------------------------
(* Properties *)

\* The step sends the machine an upgrade, or a power command, forced or not.
UpgradeSent == Len(machine'.tasks) > Len(machine.tasks)
PowerSent ==
    /\ machine'.power # machine.power
    /\ \/ machine'.power \in {"PoweringOff", "ForcingOff", "PoweringOn", "Rebooting"}
       \/ machine'.power = "Restarting" /\ machine.power = "On"

\* The BMC is told to upgrade or to switch power only while the Server is
\* parked for this resource: what the controller learns from a cached
\* maintenance must still be true of the Server when the command goes out.
CommandsUnderMaintenance == [][UpgradeSent \/ PowerSent => parked]_allVars

\* No upgrade is sent to a machine that runs one or waits to install one,
\* whatever copy of its own status the reconcile started from; and while an
\* upgrade runs no power command reaches the machine and its BIOSVersion stays.
UpgradeUndisturbed ==
    [][/\ UpgradeSent => ~UpgradePending
       /\ PowerSent => Running = {}
       /\ Stored(objects).phase # "gone" /\ Stored(objects)'.phase = "gone"
            => Running = {}]_allVars

\* A Server that leaves maintenance because its upgrade completed is on,
\* with no task running and no firmware waiting for a start.
ReturnedReady ==
    [][(parked /\ ~parked' /\ Stored(objects).state = "Completed")
         => (machine.power = "On" /\ ~UpgradePending)]_allVars

\* The state is well formed, and who gates on the completion condition never
\* sees it True during an upgrade.
VersionInv == TypeOK /\ (completion = "True" => ~UpgradePending)

\* An upgrade put off because the machine reports another one.
Deferred(o) ==
    /\ o.state = "InProgress"
    /\ o.conds["VersionUpgradeIssued"] # "true"
    /\ ChecksPending /\ UpgradePending

\* What a BIOSVersion may be at in the end: applied, out of attempts, behind
\* its gates, behind another upgrade, or gone.
Settled(o) ==
    \/ o.phase = "gone"
    \/ o.state = "Completed" /\ machine.firmware = o.version
    \/ o.state = "Failed" /\ o.attempts >= MaxAttempts
    \/ ~GatesSatisfied
    \/ Deferred(o)

\* Every upgrade comes to an end, through lost calls, late answers and
\* retries, and no wakeup it waits for is missed.  In the end a completed
\* upgrade holds no maintenance and the Server is returned, and no BIOSVersion
\* is left being deleted, unless its upgrade is deferred.
UpgradeEnds ==
    <>[](LET o == Stored(objects)
         IN  /\ Settled(o)
             /\ o.state = "Completed" => (Stored(maintenances) = None /\ ~parked)
             /\ o.phase = "deleting" => Deferred(o))
=============================================================================
