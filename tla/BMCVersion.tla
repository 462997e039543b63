----------------------------- MODULE BMCVersion -----------------------------
(***************************************************************************)
(* The BMCVersion controller: one BMCVersion brings the firmware of its    *)
(* BMC to spec.version, while every Server of the BMC is under a           *)
(* ServerMaintenance it requests.                                          *)
(*                                                                         *)
(* The reconcile of each state is an operator Plan...: what it may decide  *)
(* on the cached object, the environment and the BMC.                      *)
(*                                                                         *)
(* Left out: the ignore and force annotations, the deletion of the BMC or  *)
(* of a Server, a BMC that is off or does not answer (the reconcile ends   *)
(* or polls), and two BMCVersions of one BMC, which the webhook refuses.   *)
(***************************************************************************)
EXTENDS MaintainedResource

CONSTANTS
    Versions,       \* firmware versions
    Installed,      \* the firmware at first
    Wanted,         \* spec.version at first
    AtOnce,         \* may firmware be installed at once, and its task deleted
    Cooldown,       \* may a BMC reset be skipped for a recent one
    MaxUpgrades     \* bound: upgrade tasks the BMC ever runs

BMCVersionAssumption ==
    /\ {Installed, Wanted} \subseteq Versions
    /\ None \notin Versions
    /\ {AtOnce, Cooldown} \subseteq BOOLEAN
    /\ MaxUpgrades \in Nat \ {0}

State == {"", "Pending", "InProgress", "Completed", "Failed"}
ConditionType ==
    {"ReadinessGatesSatisfied", "ServerMaintenanceCreated", "ServerMaintenanceWaiting",
     "ResetIssued", "RetryResetIssued", "RetryOfFailedResourceIssued",
     "VersionUpgradeIssued", "VersionUpgradeCompleted", "VersionUpgradeReboot",
     "VersionUpgradeVerification"}
ConditionValue == StageValue \cup {"false", "approved", "failed"}
NoConditions == [type \in ConditionType |-> "unset"]

\* spec is spec.version; task numbers the BMC's tasks, 0 for none.
BMCVersionObject ==
    [phase : {"live", "deleting", "gone"}, finalizer : BOOLEAN, retry : BOOLEAN,
     spec : Versions, refs : SUBSET Servers, state : State, task : 0..MaxUpgrades,
     attempts : 0..MaxAttempts, current : SUBSET {"status"},
     conds : [ConditionType -> ConditionValue]]

TaskState == {"running", "completed", "failed", "gone"}
Device == [firmware : Versions, staged : Versions \cup {None},
           tasks : Seq([version : Versions, state : TaskState])]

TypeOK ==
    /\ EnvironmentOK
    /\ device \in Device
    /\ objects \in Seq(BMCVersionObject) /\ Len(objects) > 0
    /\ job = Idle \/ job.copy \in BMCVersionObject

-----------------------------------------------------------------------------
(* The BMC *)

Running == {t \in DOMAIN device.tasks : device.tasks[t].state = "running"}
UpgradePending == Running # {} \/ device.staged # None

\* Vendors differ: the firmware waits for a reset and the task stays, or it
\* is installed at once and the task is deleted with its success.
TaskCompletes(t) ==
    /\ device.tasks[t].state = "running"
    /\ \/ device' = [device EXCEPT !.tasks[t].state = "completed",
                                   !.staged = device.tasks[t].version]
       \/ /\ AtOnce
          /\ device' = [device EXCEPT !.tasks[t].state = "gone",
                                      !.firmware = device.tasks[t].version]
    /\ UNCHANGED <<AllButDevice, resets, faults>>

TaskFails(t) ==
    /\ faults < MaxFaults
    /\ faults' = faults + 1
    /\ device.tasks[t].state = "running"
    /\ device' = [device EXCEPT !.tasks[t].state = "failed"]
    /\ UNCHANGED <<AllButDevice, resets>>

\* A reset installs the firmware that was staged.
Restarted == IF device.staged = None THEN device
             ELSE [device EXCEPT !.firmware = device.staged, !.staged = None]

-----------------------------------------------------------------------------
(* Effects *)

\* patchBMCVersionStatusAndCondition: state, task and one condition; without
\* a condition they all go.
UpdateStatus(state, task, type, value) ==
    [op |-> "status", state |-> state, task |-> task, type |-> type, value |-> value]
SetCondition(type, value) == UpdateStatus("same", "keep", type, value)

\* The object in memory after the fields of an effect were set.
After(effect, o) ==
    CASE effect.op = "patch" ->
           [f \in DOMAIN o |-> IF f \in DOMAIN effect.fields THEN effect.fields[f] ELSE o[f]]
      [] effect.op = "status" ->
           [o EXCEPT !.current = {"status"},
                     !.state = IF effect.state = "same" THEN @ ELSE effect.state,
                     !.task = CASE effect.task = "keep" -> @
                                [] effect.task = "clear" -> 0
                                [] effect.task = "new" -> Len(device.tasks),
                     !.conds = IF effect.type = None THEN NoConditions
                               ELSE [@ EXCEPT ![effect.type] = effect.value]]
      [] OTHER -> o

-----------------------------------------------------------------------------
(* Pieces of the reconcile *)

ReadinessGatesNotSatisfied(state) ==
    UpdateStatus(state, "keep", "ReadinessGatesSatisfied", "false")

MarkReadinessGatesSatisfied(o) ==
    IF o.conds["ReadinessGatesSatisfied"] = "true"
         \/ (~Gated /\ o.conds["ReadinessGatesSatisfied"] = "unset")
    THEN <<>> ELSE <<SetCondition("ReadinessGatesSatisfied", "true")>>

EnsureCompletionConditionInitialized ==
    CompleteAll({s \in Servers : completion[s] = "absent"}, "False")

EnsureCompletionConditionInProgress ==
    CompleteAll({s \in Servers : completion[s] # "Unknown"}, "Unknown")

\* Every maintenance the object owns, whether its spec refers to it or not.
RemoveServerMaintenances(o) ==
    ForServers({s \in Servers : Deletable(s)}, LAMBDA s : OnServer("deleteMaintenance", s))
    \o (IF o.refs = {} THEN <<>> ELSE <<Refs({})>>)

\* requestMaintenanceOnServers: what it does, and whether the reconcile ends
\* with it (and comes back).
RequestMaintenanceOnServers(o) ==
    LET missing == {s \in Servers : ~Present(s)}
        requests_(do, ends) == [do |-> do, ends |-> ends, again |-> ends]
    IN  CASE o.refs = Servers /\ missing # {} -> requests_(<<Refs(o.refs \ missing)>>, TRUE)
          [] o.refs = Servers /\ missing = {} ->
               requests_(IF o.conds["ServerMaintenanceCreated"] = "true" THEN <<>>
                         ELSE <<SetCondition("ServerMaintenanceCreated", "true")>>, FALSE)
          [] o.refs # Servers /\ o.refs \cap missing # {} -> requests_(<<>>, TRUE)
          [] OTHER ->
               requests_(ForServers(missing, LAMBDA s : OnServer("createMaintenance", s))
                         \o <<Refs(Servers)>>, TRUE)

\* checkIfMaintenanceGranted, once maintenance was requested.
CheckIfMaintenanceGranted(o) == o.refs = Servers /\ \A s \in Servers : InMaintenance(s)

\* removeServerMaintenanceRefAndResetConditions: is the firmware what the
\* spec wants, and what to do about it.
ResetConditions(o) ==
    LET reached == device.firmware = o.spec
        state == CASE reached -> "Completed"
                   [] ~reached /\ o.state = "Completed" -> "Pending"
                   [] OTHER -> "InProgress"
        task == IF reached THEN "keep" ELSE "clear"
    IN  (CASE reached -> CompleteAll(Servers, "True") \o RemoveServerMaintenances(o)
           [] ~reached /\ o.state = "Completed" -> CompleteAll(Servers, "False")
           [] OTHER -> <<>>)
        \o (CASE o.conds["RetryOfFailedResourceIssued"] = "true" ->
                   <<UpdateStatus(state, task, "RetryOfFailedResourceIssued", "true")>>
              [] o.conds["RetryOfFailedResourceIssued"] # "true" /\ state # o.state ->
                   <<UpdateStatus(state, task, None, None)>>
              [] OTHER -> <<>>)

-----------------------------------------------------------------------------
(* InProgress: the upgrade *)

\* The call that starts the upgrade; its outcome is IssueUpgrade's.
IssueBMCUpgrade(o) ==
    <<[op |-> "upgrade", version |-> o.spec],
      UpdateStatus("same", "new", "VersionUpgradeIssued", "true")>>

\* checkBMCUpgradeStatus, and its caller's way out when the task cannot be
\* fetched.  A task that runs is polled, or its progress patched, which wakes.
CheckBMCUpgradeStatus(o) ==
    LET state == IF o.task = 0 THEN "gone" ELSE device.tasks[o.task].state
        completed(value) == Plan(<<SetCondition("VersionUpgradeCompleted", value)>>, FALSE)
    IN  CASE state = "running" ->
               IF o.conds["VersionUpgradeCompleted"] = "false" THEN Poll ELSE completed("false")
          [] state = "completed" -> completed("true")
          [] state = "failed" ->
               Plan(<<UpdateStatus("Failed", "keep", "VersionUpgradeCompleted", "failed")>>, FALSE)
          [] state = "gone" -> IF device.firmware = o.spec THEN completed("true") ELSE Poll

\* A reset may be recent, but not with one still requested.
RecentlyReset == Cooldown /\ ~Stored(resets)

\* The BMC reset of a condition, and the plans that follow it once it is done.
ResetBMC(o, type, mandatory, plans) ==
    UNION {IF r.ready THEN {Before(r.do, p) : p \in plans} ELSE {Plan(r.do, FALSE)}
           : r \in HandleBMCReset(o.conds[type], type, mandatory, RecentlyReset, Cached(resets))}

Verify(o) ==
    CASE o.conds["VersionUpgradeVerification"] = "true" -> Rest
      [] o.conds["VersionUpgradeVerification"] # "true" /\ device.firmware = o.spec ->
           Plan(<<UpdateStatus("Completed", "keep", "VersionUpgradeVerification", "true")>>, FALSE)
      [] OTHER -> Poll

\* Mutant: the BMC is reset while its task may still run.
HandleUpgradeInProgressStateHasty(o) ==
    CASE o.conds["VersionUpgradeIssued"] # "true" ->
           {IF UpgradePending THEN Poll ELSE Plan(IssueBMCUpgrade(o), FALSE)}
      [] OTHER -> ResetBMC(o, "VersionUpgradeReboot", TRUE, {Verify(o)})

\* Mutant: what the BMC already runs is not looked at.
HandleUpgradeInProgressStateEager(o) ==
    CASE o.conds["VersionUpgradeIssued"] # "true" -> {Plan(IssueBMCUpgrade(o), FALSE)}
      [] /\ o.conds["VersionUpgradeIssued"] = "true"
         /\ o.conds["VersionUpgradeCompleted"] \notin {"true", "failed"} ->
           {CheckBMCUpgradeStatus(o)}
      [] OTHER -> ResetBMC(o, "VersionUpgradeReboot", TRUE, {Verify(o)})

HandleUpgradeInProgressState(o) ==
    CASE o.conds["VersionUpgradeIssued"] # "true" ->
           {IF UpgradePending THEN Poll ELSE Plan(IssueBMCUpgrade(o), FALSE)}
      [] /\ o.conds["VersionUpgradeIssued"] = "true"
         /\ o.conds["VersionUpgradeCompleted"] \notin {"true", "failed"} ->
           {CheckBMCUpgradeStatus(o)}
      [] OTHER -> ResetBMC(o, "VersionUpgradeReboot", TRUE, {Verify(o)})

\* InProgress, while the maintenances are not all granted.
AwaitMaintenance(o) ==
    CASE ~GatesSatisfied ->
           RemoveServerMaintenances(o) \o <<ReadinessGatesNotSatisfied("Pending")>>
      [] GatesSatisfied /\ o.conds["ServerMaintenanceWaiting"] # "true" ->
           <<SetCondition("ServerMaintenanceWaiting", "true")>>
      [] OTHER -> <<>>

PlanInProgress(o) ==
    LET request == RequestMaintenanceOnServers(o)
        rest == CASE ~CheckIfMaintenanceGranted(o) -> {Plan(AwaitMaintenance(o), FALSE)}
                  [] /\ CheckIfMaintenanceGranted(o)
                     /\ o.conds["ServerMaintenanceWaiting"] # "approved" ->
                       {Plan(<<SetCondition("ServerMaintenanceWaiting", "approved")>>, FALSE)}
                  [] OTHER ->
                       {Before(EnsureCompletionConditionInProgress, p) :
                          p \in ResetBMC(o, "ResetIssued", FALSE, HandleUpgradeInProgressState(o))}
    IN  IF request.ends THEN {Plan(request.do, request.again)}
        ELSE {Before(request.do, p) : p \in rest}

-----------------------------------------------------------------------------
(* Failed: retry, or stay *)

\* ensureResetBeforeRetry, and the plan of a retry that may go on.
EnsureResetBeforeRetry(o, retry) ==
    LET active == o.refs # {} /\ CheckIfMaintenanceGranted(o)
        request == RequestMaintenanceOnServers(o)
        first == (IF active THEN <<>> ELSE MarkReadinessGatesSatisfied(o)) \o request.do
    IN  CASE ~active /\ ~GatesSatisfied -> {Plan(<<ReadinessGatesNotSatisfied("same")>>, TRUE)}
          [] active /\ ~request.ends ->
               {Before(first, [p EXCEPT !.again = TRUE]) :
                  p \in ResetBMC(o, "RetryResetIssued", TRUE, {retry})}
          [] OTHER -> {Plan(first, TRUE)}

\* A failure is retried from Pending with no conditions but the manual retry's.
RetryPatch(attempts, retried) ==
    Plan(<<Patch([state |-> "Pending", attempts |-> attempts, current |-> {"status"},
                  conds |-> [NoConditions EXCEPT !["RetryOfFailedResourceIssued"] = retried]])>>,
         FALSE)

HandleFailedState(o) ==
    LET fresh == MaxAttempts > 0 /\ o.current = {}
        reset == IF fresh THEN <<Patch([attempts |-> 0, current |-> {"status"}])>> ELSE <<>>
        attempts == IF fresh THEN 0 ELSE o.attempts
    IN  CASE o.retry -> EnsureResetBeforeRetry(o, RetryPatch(0, "true"))
          [] ~o.retry /\ attempts < MaxAttempts ->
               {Before(reset, p) : p \in EnsureResetBeforeRetry(o,
                  RetryPatch(attempts + 1, o.conds["RetryOfFailedResourceIssued"]))}
          [] OTHER -> {Plan(reset, FALSE)}

-----------------------------------------------------------------------------
(* The reconcile by state *)

PlanPending(o) ==
    CASE o.retry -> {Plan(<<Patch([retry |-> FALSE])>>, FALSE)}
      [] ~o.retry /\ ~GatesSatisfied ->
           {Plan(EnsureCompletionConditionInitialized
                 \o <<ReadinessGatesNotSatisfied("Pending")>>, FALSE)}
      [] OTHER ->
           {Plan(EnsureCompletionConditionInitialized \o MarkReadinessGatesSatisfied(o)
                 \o ResetConditions(o), FALSE)}

HandleBMCVersionCompletedState(o) ==
    IF GatesSatisfied
    THEN {Plan(MarkReadinessGatesSatisfied(o) \o ResetConditions(o), FALSE)}
    ELSE {Plan(RemoveServerMaintenances(o) \o <<ReadinessGatesNotSatisfied("Completed")>>, FALSE)}

PlanDelete == {Plan(CompleteAll(Servers, "absent") \o <<Patch([finalizer |-> FALSE])>>, FALSE)}

\* Deletion waits for every maintenance to end, whatever the state.
Plans(o) ==
    CASE o.phase = "gone" -> {Rest}
      [] o.phase = "deleting" /\ ~IsAnyMaintenanceActive(o.refs) ->
           IF o.finalizer THEN PlanDelete ELSE {Rest}
      [] o.phase = "live" /\ ~o.finalizer -> {Plan(<<Patch([finalizer |-> TRUE])>>, FALSE)}
      [] OTHER ->
           CASE o.state \in {"", "Pending"} -> PlanPending(o)
             [] o.state = "InProgress" -> PlanInProgress(o)
             [] o.state = "Completed" -> HandleBMCVersionCompletedState(o)
             [] o.state = "Failed" -> HandleFailedState(o)

-----------------------------------------------------------------------------
(* Wakeups *)

\* enqueueBMCVersionByServerRefs
WokenByServer(o) ==
    /\ o.phase # "gone"
    /\ o.state # "Failed"
    /\ o.state = "Completed" => Gated

\* enqueueBMCVersionByBMCRefs
WokenByBMC(o) ==
    /\ o.phase # "gone"
    /\ o.state = "Failed" => o.conds["RetryResetIssued"] = "issued"
    /\ o.state = "Completed" => Gated

Woken == WokenByServer(Cached(objects))

-----------------------------------------------------------------------------
(* Reconcile *)

\* UpgradeBMCVersion: the BMC runs a task for it, or refuses it with a fatal
\* error, which fails the upgrade.
IssueUpgrade(do, again, copy) ==
    /\ Head(do).op = "upgrade"
    /\ \/ /\ Len(device.tasks) < MaxUpgrades
          /\ device' = [device EXCEPT !.tasks =
                          Append(@, [version |-> Head(do).version, state |-> "running"])]
          /\ Proceed(do, again, copy)
          /\ UNCHANGED faults
       \/ /\ faults < MaxFaults
          /\ faults' = faults + 1
          /\ job' = [do |-> <<UpdateStatus("Failed", "clear", "VersionUpgradeIssued", "failed")>>,
                     again |-> FALSE, copy |-> copy]
          /\ UNCHANGED device
    /\ queued' = (job # Idle /\ queued)
    /\ UNCHANGED <<objects, maintenances, parked, resets, completion, gate, requests>>

Perform(do, again, copy) ==
    \/ PerformCall(do, again, copy, After(Head(do), copy), Woken)
    \/ IssueUpgrade(do, again, copy)

\* A reconcile up to and including its first effect.
Reconcile ==
    /\ CanStart
    /\ \E plan \in Plans(Cached(objects)) :
         IF plan.do = <<>>
         THEN /\ queued' = plan.again
              /\ UNCHANGED <<objects, maintenances, parked, resets, completion, gate,
                             device, job, faults, requests>>
         ELSE Perform(plan.do, plan.again, Cached(objects))

Continue == job # Idle /\ Perform(job.do, job.again, job.copy)

-----------------------------------------------------------------------------
(* Specification *)

Init ==
    /\ EnvironmentInit
    /\ device = [firmware |-> Installed, staged |-> None, tasks |-> <<>>]
    /\ objects = <<[phase |-> "live", finalizer |-> FALSE, retry |-> FALSE,
                    spec |-> Wanted, refs |-> {}, state |-> "", task |-> 0,
                    attempts |-> 0, current |-> {}, conds |-> NoConditions]>>

Controller == Reconcile \/ Continue
Delivery == DeliverObject \/ DeliverMaintenance \/ DeliverReset(WokenByBMC(Cached(objects)))
Others ==
    \/ MaintenanceSteps(Woken)
    \/ BMCReset(Restarted)
    \/ \E t \in DOMAIN device.tasks : TaskCompletes(t)

Next ==
    \/ Controller \/ Delivery \/ Others \/ Fail
    \/ \E t \in DOMAIN device.tasks : TaskFails(t)
    \/ RetryManually \/ Delete \/ GateChanges(Woken)
    \/ \E version \in Versions : ChangeSpec(version)

Spec == Init /\ [][Next]_vars

-----------------------------------------------------------------------------
(* Properties *)

\* The BMC is told to upgrade, and its reset is asked for, only while all its
\* Servers are parked: a grant the cache shows must still hold for each.
UpgradeSent == Len(device'.tasks) > Len(device.tasks)
ResetRequested == ~Stored(resets) /\ Stored(resets)'
DisturbedParked == UpgradeSent \/ ResetRequested => AllParked

\* No reset is carried out, and no further upgrade started, while the BMC
\* runs an upgrade, whichever attempt or version the upgrade belongs to.
ResetDone == Stored(resets) /\ ~Stored(resets)'
UpgradeLeftAlone == UpgradeSent \/ ResetDone => Running = {}

\* Who gates on the completion condition of any Server never sees it True
\* while the BMC runs an upgrade or waits to install one.
CompletionHonest == (\E s \in Servers : completion[s] = "True") => ~UpgradePending

\* An upgrade put off for one whose issue was not recorded: its firmware
\* waits for a reset nobody asks for.
Deferred(o) ==
    /\ o.state = "InProgress"
    /\ o.conds["VersionUpgradeIssued"] # "true"
    /\ device.staged # None

\* What a BMCVersion may be at in the end: applied, with every Server given
\* back and told so; out of attempts; behind its gates or an upgrade it lost
\* track of; or gone for good.
Settled(o) ==
    \/ o.phase = "gone" /\ NoMaintenance /\ NoneParked
    \/ /\ o.state = "Completed" /\ o.phase = "live" /\ device.firmware = o.spec
       /\ NoMaintenance /\ NoneParked
       /\ \A s \in Servers : completion[s] = "True"
    \/ o.state = "Failed" /\ o.attempts = MaxAttempts /\ ~o.retry
    \/ ~GatesSatisfied
    \/ Deferred(o)

\* docs/concepts/bmcversion.md: on deletion the controller cleans up the
\* maintenances and removes its finalizer "once the upgrade is no longer in
\* progress".
DeletedOnceIdle ==
    <>[](Stored(objects).phase = "deleting" => Stored(objects).state = "InProgress")
=============================================================================
