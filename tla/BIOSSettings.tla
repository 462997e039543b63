---------------------------- MODULE BIOSSettings ----------------------------
(***************************************************************************)
(* The BIOSSettings controller: one BIOSSettings brings groups of BIOS     *)
(* settings of its Server to their values, one group after the other, and  *)
(* reboots the Server where a group needs it, under a ServerMaintenance.   *)
(*                                                                         *)
(* A group is its place in the order of priorities, its settings are one   *)
(* value: two groups share no setting (the reconcile fails a spec that has *)
(* them share one).  The reconcile of each state is an operator Plan...    *)
(*                                                                         *)
(* Left out: the ignore and force annotations, the deletion of the Server, *)
(* a BMC that does not answer (the reconcile ends with an error), a        *)
(* maintenance of someone else that the spec is made to refer to, and two  *)
(* BIOSSettings of one Server, which the webhook refuses.                  *)
(***************************************************************************)
EXTENDS MaintainedResource, FiniteSetsExt

CONSTANTS
    Groups,         \* the number of groups a flow may have
    Values,         \* values of a group's settings
    Flows,          \* spec.settingsFlow: the values of some of the groups
    Installed,      \* the settings at first
    Wanted,         \* spec.settingsFlow at first
    Invalid,        \* values the vendor refuses
    NoReboot,       \* groups whose settings need no reboot
    LazyRestart,    \* may a Server be reported On until the restart begins
    Cooldown        \* may a BMC reset be skipped for a recent one

Group == 1..Groups

BIOSSettingsAssumption ==
    /\ Groups \in Nat /\ Cardinality(Servers) = 1
    /\ Flows \subseteq UNION {[names -> Values] : names \in SUBSET Group}
    /\ Wanted \in Flows /\ Installed \in [Group -> Values]
    /\ None \notin Values /\ Invalid \subseteq Values
    /\ NoReboot \subseteq Group /\ {LazyRestart, Cooldown} \subseteq BOOLEAN

State == {"", "Pending", "InProgress", "Applied", "Failed"}
ConditionType == StageType \cup
    {"ReadinessGatesSatisfied", "ServerMaintenanceCreated", "ServerMaintenanceWaiting",
     "ServerMaintenanceDeleted", "ResetIssued", "RetryResetIssued",
     "RetryOfFailedResourceIssued", "PendingSettingsCheck", "VersionUpdatePending",
     "SettingsVerify"}
NoConditions == [type \in ConditionType |-> "unset"]

\* Failure stands for the conditions that only name why a group failed.
FlowConditionType ==
    {"UpdateStartTime", "ServerPowerOnIssued", "ServerPowerOn", "RebootPostUpdate",
     "UpdateIssued", "RebootIssued", "RebootObservedOff", "RebootPowerOn", "Verify", "Failure"}
NoFlowConditions == [type \in FlowConditionType |-> "unset"]
FlowStatus ==
    [state : {"Pending", "InProgress", "Applied", "Failed"},
     conds : [FlowConditionType -> {"unset", "false", "true"}]]

\* status.failedAttempts: counted up to the maximum, or given up.
Exhausted == MaxAttempts + 1

\* spec is spec.settingsFlow, flow is status.flowState by group.
BIOSSettingsObject ==
    [phase : {"live", "deleting", "gone"}, finalizer : BOOLEAN, retry : BOOLEAN,
     spec : Flows, refs : SUBSET Servers, state : State,
     attempts : 0..Exhausted, current : SUBSET {"status"},
     conds : [ConditionType -> StageValue \cup {"false", "approved"}],
     flow : [Group -> FlowStatus \cup {None}]]

Device ==
    [power : {"On", "Off", "PoweringOff", "ForcingOff", "PoweringOn", "Rebooting", "Restarting"},
     values : [Group -> Values], pending : [Group -> Values \cup {None}],
     versionReached : BOOLEAN]

TypeOK ==
    /\ EnvironmentOK
    /\ device \in Device
    /\ objects \in Seq(BIOSSettingsObject) /\ Len(objects) > 0
    /\ job = Idle \/ job.copy \in BIOSSettingsObject

Server == CHOOSE s \in Servers : TRUE

-----------------------------------------------------------------------------
(* The hardware *)

NonePending == [g \in Group |-> None]

\* Until the restart it was asked for begins, the Server is reported On.
PowerState == IF device.power = "Rebooting" THEN "On" ELSE device.power

Commanded(command) ==
    [device EXCEPT !.power =
       CASE command = "PowerOff" /\ @ \notin {"Off", "ForcingOff"} -> "PoweringOff"
         [] command = "ForcePowerOff" /\ @ # "Off" -> "ForcingOff"
         [] command = "PowerOn" /\ @ = "Off" -> "PoweringOn"
         [] command = "Reset" /\ @ = "On" -> IF LazyRestart THEN "Rebooting" ELSE "Restarting"
         [] OTHER -> @]

\* A start takes the pending settings over.
Started ==
    [device EXCEPT !.power = "On", !.pending = NonePending,
       !.values = [g \in Group |-> IF device.pending[g] = None THEN @[g] ELSE device.pending[g]]]

PowerChange ==
    /\ device.power \notin {"On", "Off"}
    /\ device' = CASE device.power \in {"PoweringOff", "ForcingOff"} -> [device EXCEPT !.power = "Off"]
                   [] device.power = "Rebooting" -> [device EXCEPT !.power = "Restarting"]
                   [] OTHER -> Started
    /\ UNCHANGED <<AllButDevice, resets, faults>>

\* A start that loses them.
PendingLost ==
    /\ faults < MaxFaults
    /\ faults' = faults + 1
    /\ device.power \in {"PoweringOn", "Restarting"}
    /\ device' = [device EXCEPT !.power = "On", !.pending = NonePending]
    /\ UNCHANGED <<AllButDevice, resets>>

\* Somebody sets a group back on the Server; a resync of the cache tells.
Drift(g) ==
    /\ "drift" \in User
    /\ device.values[g] # Installed[g]
    /\ \/ Stored(objects).state # "Applied"
       \/ maintenances = <<[s \in Servers |-> None]>>
       \/ "earlyChange" \in Races
    /\ device' = [device EXCEPT !.values[g] = Installed[g]]
    /\ queued' = TRUE
    /\ requests < MaxRequests
    /\ requests' = requests + 1
    /\ UNCHANGED <<objects, maintenances, parked, resets, completion, gate, job, faults>>

-----------------------------------------------------------------------------
(* Effects *)

\* updateStatus: without a condition those there stay, unless all starts over.
UpdateStatus(state, type, value) ==
    [op |-> "status", state |-> state, type |-> type, value |-> value]
SetCondition(type, value) == UpdateStatus("same", type, value)
SetState(state) == UpdateStatus(state, None, None)

\* updateFlowStatus: the state of a group and one condition, or none.
UpdateFlowStatus(g, state, type, value) ==
    [op |-> "flow", group |-> g, state |-> state, type |-> type, value |-> value]
SetFlow(g, type, value) == UpdateFlowStatus(g, "same", type, value)
Start(g) == UpdateFlowStatus(g, "InProgress", None, None)

\* One group at a time is InProgress.
FlowAfter(e, flow) ==
    LET status == flow[e.group]
        state == IF e.state = "same" THEN status.state ELSE e.state
        updated == IF status = None THEN [state |-> state, conds |-> NoFlowConditions]
                   ELSE [state |-> state,
                         conds |-> IF e.type = None THEN NoFlowConditions
                                   ELSE [status.conds EXCEPT ![e.type] = e.value]]
        displaced(g) == state = "InProgress" /\ flow[g] # None /\ flow[g].state = "InProgress"
    IN  [g \in Group |-> CASE g = e.group -> updated
                           [] g # e.group /\ displaced(g) -> [flow[g] EXCEPT !.state = "Pending"]
                           [] OTHER -> flow[g]]

\* The object in memory after the fields of an effect were set.
After(e, o) ==
    CASE e.op = "patch" ->
           [f \in DOMAIN o |-> IF f \in DOMAIN e.fields THEN e.fields[f] ELSE o[f]]
      [] e.op = "flow" -> [o EXCEPT !.flow = FlowAfter(e, @)]
      [] e.op = "status" ->
           [o EXCEPT !.current = {"status"},
                     !.state = IF e.state = "same" THEN @ ELSE e.state,
                     !.conds = CASE e.type # None -> [@ EXCEPT ![e.type] = e.value]
                                 [] e.type = None /\ e.state = "Pending" -> NoConditions
                                 [] OTHER -> @,
                     !.flow = IF e.type = None /\ e.state = "Pending"
                              THEN [g \in Group |-> None] ELSE @]
      [] OTHER -> o

-----------------------------------------------------------------------------
(* Pieces of the reconcile *)

\* getSettingsDiff: is the group as the spec wants it.
AsWanted(o, g) == device.values[g] = o.spec[g]
Different(o) == \E g \in DOMAIN o.spec : ~AsWanted(o, g)

ReadinessGatesNotSatisfied(state) ==
    UpdateStatus(state, "ReadinessGatesSatisfied", "false")

MarkReadinessGatesSatisfied(o) ==
    IF o.conds["ReadinessGatesSatisfied"] = "true"
         \/ (~Gated /\ o.conds["ReadinessGatesSatisfied"] = "unset")
    THEN <<>> ELSE <<SetCondition("ReadinessGatesSatisfied", "true")>>

EnsureCompletionConditionInitialized ==
    IF completion[Server] = "absent" THEN CompleteAll(Servers, "False") ELSE <<>>

EnsureCompletionConditionInProgress ==
    IF completion[Server] # "Unknown" THEN CompleteAll(Servers, "Unknown") ELSE <<>>

\* The condition is patched only with the deletion it tells of.
RemoveServerMaintenance(o) ==
    CASE o.refs = {} -> <<>>
      [] o.refs # {} /\ Deletable(Server) ->
           <<OnServer("deleteMaintenance", Server), Refs({}),
             SetCondition("ServerMaintenanceDeleted", "true")>>
      [] OTHER -> <<Refs({})>>

\* requestMaintenanceForServer: <<>> when it is there and recorded; any effect
\* ends the reconcile.  A maintenance that is there is taken over.
RequestMaintenanceForServer(o) ==
    CASE o.refs = {} ->
           (IF Present(Server) THEN <<>> ELSE <<OnServer("createMaintenance", Server)>>)
           \o <<Refs(Servers)>>
      [] o.refs # {} /\ ~Present(Server) -> <<Refs({})>>
      [] o.refs # {} /\ Present(Server) /\ o.conds["ServerMaintenanceCreated"] # "true" ->
           <<SetCondition("ServerMaintenanceCreated", "true")>>
      [] OTHER -> <<>>

IsServerInMaintenance(o) == o.refs # {} /\ InMaintenance(Server)

\* A reset may be recent, but not with one still requested.
RecentlyReset == Cooldown /\ ~Stored(resets)
ResetBMC(o, type, mandatory) ==
    HandleBMCReset(o.conds[type], type, mandatory, RecentlyReset, Cached(resets))

-----------------------------------------------------------------------------
(* InProgress: one group after the other *)

Fail_(g) == <<UpdateFlowStatus(g, "Failed", "Failure", "true"), SetState("Failed")>>

VerifySettingsUpdateComplete(o, g) ==
    CASE o.flow[g].conds["Verify"] = "true" -> Rest
      [] o.flow[g].conds["Verify"] # "true" /\ AsWanted(o, g) ->
           Plan(<<UpdateFlowStatus(g, "Applied", "Verify", "true")>>, FALSE)
      [] o.flow[g].conds["Verify"] = "unset" /\ ~AsWanted(o, g) ->
           Plan(<<SetFlow(g, "Verify", "false")>>, FALSE)
      [] OTHER -> Poll

\* applyBIOSSettings: the outcome of the call is IssueSettings's.
ApplyBIOSSettings(o, g) ==
    CASE AsWanted(o, g) -> <<SetFlow(g, "UpdateIssued", "true")>>
      [] ~AsWanted(o, g) /\ device.pending # NonePending -> <<>>
      [] OTHER -> <<[op |-> "write", group |-> g, value |-> o.spec[g]],
                    SetFlow(g, "UpdateIssued", "true")>>

\* Mutant: a reboot counts as done once it is issued.
RebootServerBlind(o, g) ==
    IF o.flow[g].conds["RebootIssued"] # "true"
    THEN {<<Command("Reset"), SetFlow(g, "RebootIssued", "true")>>}
    ELSE {<<SetFlow(g, "RebootPowerOn", "true")>>}

\* The timer of a reboot may have expired, at any call after it was issued.
RebootServer(o, g) ==
    LET conds == o.flow[g].conds
    IN  CASE conds["RebootIssued"] # "true" /\ PowerState \in {"On", "Off"} ->
               {<<Command(IF PowerState = "On" THEN "Reset" ELSE "PowerOn"),
                  SetFlow(g, "RebootIssued", "true")>>}
          [] conds["RebootIssued"] # "true" /\ PowerState \notin {"On", "Off"} -> {<<>>}
          [] OTHER ->
               {Fail_(g),
                CASE PowerState = "On" -> <<SetFlow(g, "RebootPowerOn", "true")>>
                  [] PowerState # "On" /\ conds["RebootObservedOff"] # "true" ->
                       <<SetFlow(g, "RebootObservedOff", "true")>>
                  [] OTHER -> <<>>}

\* applySettingUpdate: a stage for each condition, and the timer over all,
\* which expires only while the group waits for the hardware.
ApplySettingUpdate(o, g) ==
    LET conds == o.flow[g].conds
        stage ==
          CASE conds["ServerPowerOn"] # "true" /\ PowerState = "On" ->
                 {<<SetFlow(g, "ServerPowerOn", "true")>>}
            [] conds["ServerPowerOn"] # "true" /\ PowerState # "On" ->
                 {IF conds["ServerPowerOnIssued"] = "true" THEN <<>>
                  ELSE <<Command("PowerOn"), SetFlow(g, "ServerPowerOnIssued", "true")>>}
            [] conds["ServerPowerOn"] = "true" /\ conds["RebootPostUpdate"] = "unset" ->
                 {CASE AsWanted(o, g) -> <<SetFlow(g, "RebootPostUpdate", "true")>>
                    [] ~AsWanted(o, g) /\ o.spec[g] \in Invalid -> Fail_(g)
                    [] OTHER -> <<SetFlow(g, "RebootPostUpdate",
                                          IF g \in NoReboot THEN "true" ELSE "false")>>}
            [] OTHER ->
                 IF conds["UpdateIssued"] # "true" THEN {ApplyBIOSSettings(o, g)}
                 ELSE RebootServer(o, g)
        done == /\ conds["ServerPowerOn"] = "true" /\ conds["UpdateIssued"] = "true"
                /\ conds["RebootPostUpdate"] = "true" \/ conds["RebootPowerOn"] = "true"
    IN  IF conds["UpdateStartTime"] # "true"
        THEN {Plan(<<SetFlow(g, "UpdateStartTime", "true")>>, TRUE)}
        ELSE UNION {IF p = Poll THEN {Poll, Plan(Fail_(g), TRUE)} ELSE {p} :
                    p \in IF done THEN {VerifySettingsUpdateComplete(o, g)}
                          ELSE {Plan(do, TRUE) : do \in stage}}

\* Mutant: the groups are taken in the opposite order.
NextGroupLast(groups) == Max(groups)

\* The group that comes first in the order of priorities.
NextGroup(groups) == Min(groups)

ApplySettingsFlow(o) ==
    LET done(g) == o.flow[g] # None /\ o.flow[g].state = "Applied" /\ AsWanted(o, g)
        groups == {g \in DOMAIN o.spec : ~done(g)}
        next == NextGroup(groups)
    IN  CASE groups = {} -> {Plan(<<SetState("Applied")>>, FALSE)}
          [] groups # {} /\ o.flow[next] = None -> {Plan(<<Start(next)>>, FALSE)}
          [] OTHER ->
               CASE o.flow[next].state # "InProgress" /\ AsWanted(o, next) ->
                      {Plan(<<UpdateFlowStatus(next, "Applied", "Verify", "true")>>, FALSE)}
                 [] o.flow[next].state = "Applied" /\ ~AsWanted(o, next) ->
                      {Plan(<<Start(next)>>, FALSE)}
                 [] OTHER -> ApplySettingUpdate(o, next)

HandleSettingInProgressState(o) ==
    LET request == RequestMaintenanceForServer(o)
    IN  CASE request # <<>> -> {Plan(request, FALSE)}
          [] request = <<>> /\ ~IsServerInMaintenance(o) ->
               {Plan(IF o.conds["ServerMaintenanceWaiting"] = "true" THEN <<>>
                     ELSE <<SetCondition("ServerMaintenanceWaiting", "true")>>, FALSE)}
          [] OTHER ->
               IF o.conds["ServerMaintenanceWaiting"] # "approved"
               THEN {Plan(<<SetCondition("ServerMaintenanceWaiting", "approved")>>, FALSE)}
               ELSE UNION {{Before(EnsureCompletionConditionInProgress \o r.do, p) :
                              p \in IF r.ready THEN ApplySettingsFlow(o) ELSE {Rest}}
                           : r \in ResetBMC(o, "ResetIssued", FALSE)}

-----------------------------------------------------------------------------
(* Pending, Applied *)

HandleSettingPendingState(o) ==
    LET first == EnsureCompletionConditionInitialized \o MarkReadinessGatesSatisfied(o)
        conds == IF MarkReadinessGatesSatisfied(o) = <<>> THEN o.conds
                 ELSE [o.conds EXCEPT !["ReadinessGatesSatisfied"] = "true"]
        rest ==
          CASE o.spec = <<>> -> <<SetState("Applied")>>
            [] o.spec # <<>> /\ o.retry -> <<Patch([retry |-> FALSE])>>
            [] o.spec # <<>> /\ ~o.retry /\ device.pending # NonePending ->
                 <<UpdateStatus("Failed", "PendingSettingsCheck", "true")>>
            [] OTHER ->
                 CASE ~Different(o) /\ conds = NoConditions ->
                        <<UpdateStatus("Applied", "SettingsVerify", "true")>>
                   [] Different(o) \/ conds # NoConditions ->
                        IF device.versionReached THEN <<SetState("InProgress")>>
                        ELSE IF conds["VersionUpdatePending"] = "true" THEN <<>>
                        ELSE <<UpdateStatus("Pending", "VersionUpdatePending", "true")>>
    IN  {Plan(IF GatesSatisfied THEN first \o rest
              ELSE EnsureCompletionConditionInitialized
                   \o <<ReadinessGatesNotSatisfied("Pending")>>, FALSE)}

\* ensureNoStrandedStatus: no status of a group the spec has no more.
Stranded(o) == {g \in Group \ DOMAIN o.spec : o.flow[g] # None}
DropStranded(o) ==
    Patch([flow |-> [g \in Group |-> IF g \in Stranded(o) THEN None ELSE o.flow[g]]])

HandleAppliedState(o) ==
    LET mark == MarkReadinessGatesSatisfied(o)
    IN  CASE ~GatesSatisfied ->
               {Plan(RemoveServerMaintenance(o) \o <<ReadinessGatesNotSatisfied("Applied")>>, FALSE)}
          [] GatesSatisfied /\ Stranded(o) # {} -> {Plan(mark \o <<DropStranded(o)>>, FALSE)}
          [] OTHER ->
               {Plan(mark \o (IF Different(o)
                              THEN CompleteAll(Servers, "False") \o <<SetState("Pending")>>
                              ELSE CompleteAll(Servers, "True") \o RemoveServerMaintenance(o)),
                     FALSE)}

-----------------------------------------------------------------------------
(* Failed: retry, or stay *)

\* What giving up the power cycle means: the manual request is dropped, the
\* automatic ones are used up.
GiveUp(o) ==
    (IF o.retry THEN <<Patch([retry |-> FALSE])>> ELSE <<>>)
    \o (IF o.attempts # Exhausted THEN <<Patch([attempts |-> Exhausted])>> ELSE <<>>)

\* ensureResetBeforeRetry, and the patch of a retry that may go on.
EnsureResetBeforeRetry(o, retry) ==
    LET active == IsServerInMaintenance(o)
        mark == IF active THEN <<>> ELSE MarkReadinessGatesSatisfied(o)
        request == RequestMaintenanceForServer(o)
        cycle(before) ==
          {IF r.ready THEN Plan(before \o r.do \o retry, FALSE) ELSE Plan(before \o r.do, TRUE)
             : r \in HandleServerPowerCycle(o.conds, PowerState, GiveUp(o))}
    IN  CASE ~active /\ ~GatesSatisfied -> {Plan(<<ReadinessGatesNotSatisfied("same")>>, TRUE)}
          [] active /\ request = <<>> ->
               UNION {IF r.ready THEN cycle(r.do) ELSE {Plan(r.do, TRUE)}
                      : r \in ResetBMC(o, "RetryResetIssued", TRUE)}
          [] OTHER -> {Plan(mark \o request, TRUE)}

\* A failure is retried from Pending with no conditions but the manual retry's.
RetryPatch(attempts, retried) ==
    <<Patch([state |-> "Pending", attempts |-> attempts, current |-> {"status"},
             conds |-> [NoConditions EXCEPT !["RetryOfFailedResourceIssued"] = retried],
             flow |-> [g \in Group |-> None]])>>

ResetAttempts == <<Patch([attempts |-> 0, current |-> {"status"}])>>

HandleFailedState(o) ==
    LET fresh == MaxAttempts > 0 /\ o.current = {}
        attempts == IF fresh THEN 0 ELSE o.attempts
        reset == IF fresh \/ (MaxAttempts = 0 /\ o.attempts # 0) THEN ResetAttempts ELSE <<>>
    IN  CASE o.retry -> EnsureResetBeforeRetry(o, RetryPatch(0, "true"))
          [] ~o.retry /\ attempts < MaxAttempts ->
               {Before(reset, p) : p \in EnsureResetBeforeRetry([o EXCEPT !.attempts = attempts],
                  RetryPatch(attempts + 1, o.conds["RetryOfFailedResourceIssued"]))}
          [] OTHER ->
               {Plan(reset \o (IF o.conds["PendingSettingsCheck"] = "true"
                               THEN RequestMaintenanceForServer(o) ELSE <<>>), FALSE)}

-----------------------------------------------------------------------------
(* The reconcile by state *)

Deleting == Plan(CompleteAll(Servers, "absent") \o <<Patch([finalizer |-> FALSE])>>, FALSE)

\* Deletion waits while the settings are applied under maintenance.
Plans(o) ==
    CASE o.phase = "gone" -> {Rest}
      [] o.phase = "deleting" /\ ~(o.state = "InProgress" /\ IsAnyMaintenanceActive(o.refs)) ->
           {IF o.finalizer THEN Deleting ELSE Rest}
      [] o.phase = "live" /\ ~o.finalizer -> {Plan(<<Patch([finalizer |-> TRUE])>>, FALSE)}
      [] OTHER ->
           CASE o.state \in {"", "Pending"} -> HandleSettingPendingState(o)
             [] o.state = "InProgress" -> HandleSettingInProgressState(o)
             [] o.state = "Applied" -> HandleAppliedState(o)
             [] o.state = "Failed" -> HandleFailedState(o)

-----------------------------------------------------------------------------
(* Wakeups *)

\* enqueueBiosSettingsByServerRefs
Woken ==
    LET o == Cached(objects)
    IN  /\ o.phase # "gone"
        /\ o.state # "Failed"
        /\ o.refs # {} \/ (o.state # "InProgress" /\ Gated)

\* enqueueBiosSettingsByBMC
WokenByBMC ==
    LET o == Cached(objects)
    IN  /\ o.phase # "gone"
        /\ \/ o.state = "InProgress" /\ o.conds["ResetIssued"] = "issued"
           \/ o.state = "Failed" /\ o.conds["RetryResetIssued"] = "issued"

\* The Server's BIOSVersion completes: enqueueBiosSettingsByBiosVersionResource.
VersionReached ==
    /\ ~device.versionReached
    /\ device' = [device EXCEPT !.versionReached = TRUE]
    /\ queued' = (queued \/ (Cached(objects).phase # "gone"
                             /\ Cached(objects).state \notin {"Applied", "Failed"}))
    /\ UNCHANGED <<objects, maintenances, parked, resets, completion, gate, job, faults, requests>>

-----------------------------------------------------------------------------
(* Reconcile *)

\* A PowerOn, PowerOff or Reset of the Server.
IssueCommand(do, again, copy) ==
    /\ Head(do).op = "command"
    /\ device' = Commanded(Head(do).command)
    /\ Proceed(do, again, copy)
    /\ queued' = Requests(do, again)
    /\ UNCHANGED <<objects, maintenances, parked, resets, completion, gate, faults, requests>>

\* SetBiosAttributesOnReset and the look at what is pending then: taken over,
\* at once or on the next start; not accepted, which ends the reconcile with
\* an error if a reboot is needed; or another value, which fails the group.
IssueSettings(do, again, copy) ==
    LET e == Head(do)
        lost == [do |-> Fail_(e.group), again |-> TRUE, copy |-> copy]
    IN  /\ e.op = "write"
        /\ \/ /\ device' = IF e.group \in NoReboot
                           THEN [device EXCEPT !.values[e.group] = e.value]
                           ELSE [device EXCEPT !.pending[e.group] = e.value]
              /\ Proceed(do, again, copy)
              /\ queued' = Requests(do, again)
              /\ UNCHANGED faults
           \/ /\ faults < MaxFaults
              /\ faults' = faults + 1
              /\ \/ /\ IF e.group \in NoReboot
                       THEN Proceed(do, again, copy) /\ queued' = Requests(do, again)
                       ELSE job' = Idle /\ queued' = TRUE
                    /\ UNCHANGED device
                 \/ /\ \E value \in Values \ {e.value} :
                          device' = [device EXCEPT !.pending[e.group] = value]
                    /\ job' = lost /\ queued' = (job # Idle /\ queued)
        /\ UNCHANGED <<objects, maintenances, parked, resets, completion, gate, requests>>

Perform(do, again, copy) ==
    \/ PerformCall(do, again, copy, After(Head(do), copy), Woken)
    \/ IssueCommand(do, again, copy)
    \/ IssueSettings(do, again, copy)

\* A reconcile up to and including its first effect.
Reconcile ==
    /\ CanStart
    /\ \E plan \in Plans(Cached(objects)) :
         IF plan.do = <<>>
         THEN /\ queued' = plan.again
              /\ UNCHANGED <<objects, maintenances, parked, resets, completion, gate,
                             device, job, faults, requests>>
         ELSE Perform(plan.do, plan.again, Cached(objects))

Continue == job # Idle /\ Perform(job.do, job.again, job.copy)

-----------------------------------------------------------------------------
(* Specification *)

\* Another's settings may wait for a start from before.
Init ==
    /\ EnvironmentInit
    /\ \E pending \in {NonePending, [NonePending EXCEPT ![1] = Installed[1]]},
          versionReached \in BOOLEAN :
         device = [power |-> "On", values |-> Installed, pending |-> pending,
                   versionReached |-> versionReached]
    /\ objects = <<[phase |-> "live", finalizer |-> FALSE, retry |-> FALSE,
                    spec |-> Wanted, refs |-> {}, state |-> "", attempts |-> 0,
                    current |-> {}, conds |-> NoConditions,
                    flow |-> [g \in Group |-> None]]>>

Controller == Reconcile \/ Continue
Delivery == DeliverObject \/ DeliverMaintenance \/ DeliverReset(WokenByBMC)
Others == MaintenanceSteps(Woken) \/ BMCReset(device) \/ PowerChange

Next ==
    \/ Controller \/ Delivery \/ Others \/ Fail \/ PendingLost \/ VersionReached
    \/ RetryManually \/ Delete \/ GateChanges(Woken)
    \/ \E g \in Group : Drift(g)
    \/ \E flow \in Flows : ChangeSpec(flow)

Spec == Init /\ [][Next]_vars

-----------------------------------------------------------------------------
(* Properties *)

\* The step writes the settings of the group, for the next start or at once:
\* a start takes pending ones over, and a person's drift, by no step of a job.
Written(g) ==
    \/ device'.pending[g] # device.pending[g] /\ device'.pending[g] # None
    \/ device'.values[g] # device.values[g] /\ job' # job
\* The step sends the Server a power command, forced or not.
Powered ==
    /\ device'.power # device.power
    /\ \/ device'.power \in {"PoweringOff", "ForcingOff", "PoweringOn", "Rebooting"}
       \/ device'.power = "Restarting" /\ device.power = "On"
ResetRequested == ~Stored(resets) /\ Stored(resets)'

\* Settings are written, and the Server and its BMC told to restart, only
\* while the Server is parked.
DisturbedParked ==
    (\E g \in Group : Written(g)) \/ Powered \/ ResetRequested => AllParked

\* docs/concepts/biossettings.md: a group is verified against the live BIOS
\* before the next.  When settings are written, every group before them has
\* its values on the Server, and nothing else waits for a start.
WrittenInOrder ==
    \A g \in Group : Written(g) =>
         /\ device.pending = NonePending
         /\ \A h \in DOMAIN Stored(objects).spec : h < g => AsWanted(Stored(objects), h)

\* A Server that goes back to service with its settings applied, or given up
\* on by a person's change, runs, and nothing waits for its next start.
GivenBackReady ==
    AllParked /\ ~AllParked' /\ Stored(objects).phase # "gone" =>
        device.power = "On" /\ device.pending = NonePending

\* What a BIOSSettings may be at in the end: applied, with the Server given
\* back and told so; out of attempts; behind its gates or a BIOS version; or
\* gone for good.
Settled(o) ==
    \/ o.phase = "gone" /\ NoMaintenance /\ NoneParked
    \/ /\ o.phase = "live" /\ o.state = "Applied" /\ ~Different(o)
       /\ NoMaintenance /\ NoneParked
       /\ GatesSatisfied => completion[Server] = "True"
    \/ o.phase = "live" /\ o.state = "Failed" /\ o.attempts >= MaxAttempts /\ ~o.retry
    \/ o.phase = "live" /\ o.state \in {"Pending", "Failed"} /\ ~GatesSatisfied
    \/ o.phase = "live" /\ o.state = "Pending" /\ ~device.versionReached

\* docs/concepts/biossettings.md: on deletion the controller "removes its
\* finalizer once no maintenance for this object is still in progress".
DeletionWaits ==
    [][Stored(objects).phase = "deleting" /\ Stored(objects)'.phase = "gone"
         => ~InMaintenance(Server)]_vars
=============================================================================
