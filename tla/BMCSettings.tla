---------------------------- MODULE BMCSettings ----------------------------
(***************************************************************************)
(* The BMCSettings controller: one BMCSettings brings groups of settings   *)
(* of its BMC to their values, one group after the other, while every      *)
(* Server of the BMC is under a ServerMaintenance it requests.             *)
(*                                                                         *)
(* A group is its place in the order of priorities, its settings are one   *)
(* value, and groups share no setting.  What is applied is kept with the   *)
(* ETag of the resource it was applied to, so that a setting is read back  *)
(* only when that has changed.  An ETag is what the resource holds.        *)
(*                                                                         *)
(* Left out: the ignore and force annotations, the deletion of the BMC or  *)
(* of a Server, a BMC that does not answer (the reconcile ends or polls),  *)
(* two BMCSettings of one BMC, which the webhook refuses, settings nobody  *)
(* can read back, and variables, resolved as in utils.ResolveVariables.    *)
(***************************************************************************)
EXTENDS MaintainedResource, FiniteSetsExt

CONSTANTS
    Groups,         \* the number of groups a flow may have
    Values,         \* values of a group's settings
    Flows,          \* spec.settingsFlow: the values of some of the groups
    Installed,      \* the settings at first
    Wanted,         \* spec.settingsFlow at first
    Invalid,        \* values the BMC refuses
    NoReset,        \* groups whose settings need no reset of the BMC
    Tagged,         \* groups whose resource the BMC gives ETags for
    SharedURI,      \* are the groups' settings on one resource of the BMC
    Cooldown        \* may a BMC reset be skipped for a recent one

Group == 1..Groups

BMCSettingsAssumption ==
    /\ Groups \in Nat
    /\ Flows \subseteq UNION {[names -> Values] : names \in SUBSET Group}
    /\ Wanted \in Flows /\ Installed \in [Group -> Values]
    /\ None \notin Values /\ Invalid \subseteq Values
    /\ NoReset \cup Tagged \subseteq Group /\ {SharedURI, Cooldown} \subseteq BOOLEAN

State == {"", "Pending", "InProgress", "Applied", "Failed"}
ConditionType ==
    {"ReadinessGatesSatisfied", "ServerMaintenanceCreated", "ServerMaintenanceWaiting",
     "ResetIssued", "RetryResetIssued", "RetryOfFailedResourceIssued",
     "VersionUpdatePending", "BMCPoweredOff", "ValidationFailed",
     "ChangesIssued", "ChangesVerified", "ResetPostSettingApply"}
NoConditions == [type \in ConditionType |-> "unset"]
FlowState == {"Pending", "InProgress", "Applied", "Failed", None}

\* The ETag of the resource of the BMC a group's settings are on: what they
\* are, and what they will be after a reset.
ETag(bmc, g) ==
    LET shown(h) == <<bmc.values[h], bmc.pending[h]>>
    IN  CASE g \notin Tagged -> {}
          [] g \in Tagged -> {<<h, shown(h)>> : h \in IF SharedURI THEN Group ELSE {g}}

\* spec is spec.settingsFlow, flow is status.flowState, etags is
\* status.appliedETags by group, observed is status.observedGeneration # 0;
\* current may hold "issued", the observed generation of ChangesIssued.
BMCSettingsObject ==
    [phase : {"live", "deleting", "gone"}, finalizer : BOOLEAN, retry : BOOLEAN,
     spec : Flows, refs : SUBSET Servers, state : State, attempts : 0..MaxAttempts,
     current : SUBSET {"status", "issued"}, observed : BOOLEAN,
     conds : [ConditionType ->
                StageValue \cup {"false", "approved", "pending", "required", "notRequired"}],
     flow : [Group -> FlowState],
     etags : [Group -> [etag : SUBSET (Group \X (Values \X (Values \cup {None}))),
                        value : Values] \cup {None}]]

Device == [values : [Group -> Values], pending : [Group -> Values \cup {None}],
           poweredOn : BOOLEAN, versionReached : BOOLEAN]

TypeOK ==
    /\ EnvironmentOK
    /\ device \in Device
    /\ objects \in Seq(BMCSettingsObject) /\ Len(objects) > 0
    /\ job = Idle \/ job.copy \in BMCSettingsObject

-----------------------------------------------------------------------------
(* The BMC *)

NonePending == [g \in Group |-> None]

\* A reset takes the pending settings over.
Restarted ==
    [device EXCEPT !.pending = NonePending,
       !.values = [g \in Group |-> IF device.pending[g] = None THEN @[g] ELSE device.pending[g]]]

\* Somebody sets a group back on the BMC once all is applied; a resync of the
\* cache tells.
Drift(g) ==
    /\ "drift" \in User
    /\ device.values[g] # Installed[g]
    /\ Stored(objects).state = "Applied"
    /\ maintenances = <<[s \in Servers |-> None]>> \/ "earlyChange" \in Races
    /\ device' = [device EXCEPT !.values[g] = Installed[g]]
    /\ queued' = TRUE
    /\ requests < MaxRequests
    /\ requests' = requests + 1
    /\ UNCHANGED <<objects, maintenances, parked, resets, completion, gate, job, faults>>

-----------------------------------------------------------------------------
(* Effects *)

\* updateBMCSettingsStatus: without a condition those there stay, unless all
\* starts over.
UpdateStatus(state, type, value) ==
    [op |-> "status", state |-> state, type |-> type, value |-> value]
SetCondition(type, value) == UpdateStatus("same", type, value)
SetState(state) == UpdateStatus(state, None, None)

\* The object in memory after the fields of an effect were set.
After(e, o) ==
    CASE e.op = "patch" ->
           [f \in DOMAIN o |-> IF f \in DOMAIN e.fields THEN e.fields[f] ELSE o[f]]
      [] e.op = "flow" -> [o EXCEPT !.flow = e.flow, !.conds["ChangesIssued"] = "pending"]
      [] e.op = "status" ->
           [o EXCEPT !.state = IF e.state = "same" THEN @ ELSE e.state,
                     !.conds = CASE e.type # None -> [@ EXCEPT ![e.type] = e.value]
                                 [] e.type = None /\ e.state = "" -> NoConditions
                                 [] OTHER -> @]
      [] OTHER -> o

-----------------------------------------------------------------------------
(* What differs, as the stored ETags tell it *)

\* etagAwareDiff and buildFallbackDiff: a group is read back if nothing is
\* stored of it, there is no ETag, or its resource has changed since.
Differs(o, g) ==
    LET stored == o.etags[g]
    IN  IF stored = None \/ g \notin Tagged \/ stored.etag # ETag(device, g)
        THEN device.values[g] # o.spec[g]
        ELSE stored.value # o.spec[g]
Diff(o, groups) == {g \in groups : Differs(o, g)}

\* refreshedETags: of the resources looked at, every group stored that is not
\* part of this diff gets the present ETag.
RefreshedETags(o, groups) ==
    LET stored == {g \in Tagged : o.etags[g] # None}
        looked(g) == \E h \in groups \cap stored : h = g \/ SharedURI
    IN  [g \in Group |-> IF g \in stored /\ looked(g) /\ g \notin Diff(o, groups)
                         THEN [o.etags[g] EXCEPT !.etag = ETag(device, g)]
                         ELSE o.etags[g]]

\* getBMCSettingsDifferenceForDesiredSettings: the object in memory
\* afterwards, and the patch that stores it.
Refreshed(o, groups) == [o EXCEPT !.etags = RefreshedETags(o, groups)]
PersistETagRefreshes(o, groups) ==
    IF Refreshed(o, groups) = o THEN <<>> ELSE <<Patch([etags |-> RefreshedETags(o, groups)])>>

Managed(o) == DOMAIN o.spec

-----------------------------------------------------------------------------
(* Pieces of the reconcile *)

ReadinessGatesNotSatisfied(state) ==
    UpdateStatus(state, "ReadinessGatesSatisfied", "false")

MarkReadinessGatesSatisfied(o) ==
    IF o.conds["ReadinessGatesSatisfied"] = "true"
         \/ (~Gated /\ o.conds["ReadinessGatesSatisfied"] = "unset")
    THEN <<>> ELSE <<SetCondition("ReadinessGatesSatisfied", "true")>>

EnsureCompletionConditionInitialized ==
    CompleteAll({s \in Servers : completion[s] = "absent"}, "False")

EnsureCompletionConditionInProgress ==
    CompleteAll({s \in Servers : completion[s] # "Unknown"}, "Unknown")

\* The maintenances the spec refers to.
CleanupServerMaintenanceReferences(o) ==
    IF o.refs = {} THEN <<>>
    ELSE ForServers({s \in o.refs : Deletable(s)}, LAMBDA s : OnServer("deleteMaintenance", s))
         \o <<Refs({})>>

\* requestMaintenanceOnServers: what it does, and whether the reconcile ends
\* with it.  What it stores brings the request back, an error does as well.
RequestMaintenanceOnServers(o) ==
    LET missing == {s \in Servers : ~Present(s)}
        requests_(do, ends, again) == [do |-> do, ends |-> ends, again |-> again]
    IN  CASE o.refs = Servers /\ missing # {} ->
               requests_(<<Refs(o.refs \ missing)>>, TRUE, FALSE)
          [] o.refs = Servers /\ missing = {} ->
               IF o.conds["ServerMaintenanceCreated"] = "true" THEN requests_(<<>>, FALSE, FALSE)
               ELSE requests_(<<SetCondition("ServerMaintenanceCreated", "true")>>, TRUE, FALSE)
          [] o.refs # Servers /\ o.refs \cap missing # {} -> requests_(<<>>, TRUE, TRUE)
          [] OTHER ->
               requests_(ForServers(missing, LAMBDA s : OnServer("createMaintenance", s))
                         \o <<Refs(Servers)>>, TRUE, FALSE)

\* Mutant: maintenances that were asked for will do.
CheckIfMaintenanceGrantedAsked(o) == o.refs = Servers /\ \A s \in Servers : Present(s)

CheckIfMaintenanceGranted(o) == o.refs = Servers /\ \A s \in Servers : InMaintenance(s)

\* A reset may be recent, but not with one still requested.
RecentlyReset == Cooldown /\ ~Stored(resets)

\* handleBMCReset, and the plans that follow it once it is done.
ResetBMC(o, type, mandatory, plans) ==
    IF o.conds[type] = "notRequired" THEN plans
    ELSE UNION {IF r.ready THEN {Before(r.do, p) : p \in plans} ELSE {Plan(r.do, FALSE)}
                : r \in HandleBMCReset(o.conds[type], type, mandatory, RecentlyReset, Cached(resets))}

-----------------------------------------------------------------------------
(* InProgress: one group after the other *)

\* clearFlowStateOnGenerationChange: the spec is not the one the flow is of.
\* The last case is of an object that had no groups when it was Applied.
Outdated(o) ==
    \/ o.conds["ChangesIssued"] # "unset" /\ "issued" \notin o.current
    \/ o.observed /\ "status" \notin o.current
    \/ /\ o.conds["ChangesIssued"] = "unset" /\ ~o.observed
       /\ o.state = "Applied" /\ o.spec # <<>>
NoFlow == [g \in Group |-> None]
ClearFlowState(o) == IF Outdated(o) THEN [o EXCEPT !.flow = NoFlow] ELSE o
AllApplied(o) == [g \in Group |-> IF g \in Managed(o) THEN "Applied" ELSE o.flow[g]]

\* The n-th group in the order of priorities.
Priority(n) == n

\* flowGroupDiff: the groups are looked at in turn, each with the ETags the
\* one before it left, up to the first that differs.  Once all are Applied, it
\* is the merged settings that count.
FlowGroupDiff(o, merged, verifyOnly) ==
    LET Look(walk, g) ==
          LET seen == [walk EXCEPT !.do = @ \o PersistETagRefreshes(walk.object, {g}),
                                   !.object = Refreshed(walk.object, {g})]
              flow == walk.object.flow
          IN  CASE walk.groups # {} \/ g \notin Managed(o) \/ flow[g] = "Applied" -> walk
                [] ~Differs(walk.object, g) /\ walk.groups = {} /\ g \in Managed(o)
                     /\ flow[g] # "Applied" ->
                     [seen EXCEPT !.object.flow[g] = "Applied", !.changed = TRUE]
                [] OTHER ->
                     [seen EXCEPT !.groups = {g},
                        !.object.flow[g] = CASE ~verifyOnly -> "InProgress"
                                             [] verifyOnly /\ @ = None -> "Pending"
                                             [] OTHER -> @]
        walk[n \in 0..Groups] ==
          IF n = 0 THEN [object |-> o, do |-> <<>>, groups |-> {}, changed |-> FALSE]
          ELSE Look(walk[n - 1], Priority(n))
    IN  IF walk[Groups].groups # {} \/ merged = {} THEN walk[Groups]
        ELSE [walk[Groups] EXCEPT !.groups = merged, !.changed = TRUE,
                                  !.object.flow = IF verifyOnly THEN @ ELSE AllApplied(o)]

\* Phase 1 of updateSettingsAndVerify, on the merged difference.
IssueChanges(o, merged) ==
    LET f == FlowGroupDiff(ClearFlowState(o), merged, FALSE)
    IN  CASE ~device.poweredOn ->
               Plan(<<UpdateStatus("Failed", "BMCPoweredOff", "true")>>, FALSE)
          [] device.poweredOn /\ o.conds["BMCPoweredOff"] = "true" ->
               Plan(<<SetCondition("BMCPoweredOff", "false")>>, FALSE)
          [] OTHER ->
               CASE device.pending # NonePending -> Poll
                 [] /\ device.pending = NonePending
                    /\ \E g \in f.groups : o.spec[g] \in Invalid ->
                      Plan(f.do \o <<UpdateStatus("Failed", "ValidationFailed", "true")>>, FALSE)
                 [] OTHER ->
                      Plan(f.do \o <<[op |-> "write", flow |-> f.object.flow,
                                      values |-> [g \in f.groups |-> o.spec[g]]]>>, FALSE)

\* Mutant: nobody comes back to settings that are not yet as wanted.
VerifyChangesOnce(o) ==
    LET merged == Diff(o, Managed(o))
        f == FlowGroupDiff(Refreshed(o, Managed(o)), merged, TRUE)
        do == PersistETagRefreshes(o, Managed(o)) \o f.do
    IN  IF f.groups = {}
        THEN Plan(do \o <<UpdateStatus("Applied", "ChangesVerified", "true")>>, FALSE)
        ELSE Plan(do, FALSE)

\* Phase 3.
VerifyChanges(o) ==
    LET merged == Diff(o, Managed(o))
        f == FlowGroupDiff(Refreshed(o, Managed(o)), merged, TRUE)
        do == PersistETagRefreshes(o, Managed(o)) \o f.do
    IN  CASE f.changed -> Plan(do \o <<[op |-> "flow", flow |-> f.object.flow]>>, FALSE)
          [] ~f.changed /\ f.groups = {} ->
               Plan(do \o <<UpdateStatus("Applied", "ChangesVerified", "true")>>, FALSE)
          [] OTHER -> Plan(do, TRUE)

UpdateSettingsAndVerify(o, merged) ==
    IF o.conds["ChangesIssued"] # "true" \/ "issued" \notin o.current
    THEN {IssueChanges(o, merged)}
    ELSE ResetBMC(o, "ResetPostSettingApply", TRUE, {VerifyChanges(o)})

\* checkSettingsFlowBeforeMaintenance: nothing to do, and no maintenance.
NothingToDo(o) ==
    IF o.spec = <<>> THEN SetState("Applied")
    ELSE Patch([flow |-> AllApplied(o), state |-> "Applied",
                current |-> o.current \cup {"status"}, observed |-> TRUE])

HandleSettingInProgressState(o) ==
    LET merged == Diff(o, Managed(o))
        read == Refreshed(o, Managed(o))
        request == RequestMaintenanceOnServers(o)
        rest == CASE ~CheckIfMaintenanceGranted(o) ->
                       {Plan(IF o.conds["ServerMaintenanceWaiting"] = "true" THEN <<>>
                             ELSE <<SetCondition("ServerMaintenanceWaiting", "true")>>, FALSE)}
                  [] /\ CheckIfMaintenanceGranted(o)
                     /\ o.conds["ServerMaintenanceWaiting"] # "approved" ->
                       {Plan(<<SetCondition("ServerMaintenanceWaiting", "approved")>>, FALSE)}
                  [] OTHER ->
                       {Before(EnsureCompletionConditionInProgress, p) :
                          p \in ResetBMC(o, "ResetIssued", FALSE,
                                         UpdateSettingsAndVerify(read, merged))}
    IN  {Before(PersistETagRefreshes(o, Managed(o)), p) :
           p \in CASE merged = {} -> {Plan(<<NothingToDo(o)>>, FALSE)}
                   [] merged # {} /\ request.ends -> {Plan(request.do, request.again)}
                   [] OTHER -> {Before(request.do, p) : p \in rest}}

-----------------------------------------------------------------------------
(* Pending, Applied *)

PlanPending(o) ==
    LET state ==
          CASE ~device.versionReached -> UpdateStatus("Pending", "VersionUpdatePending", "true")
            [] device.versionReached /\ o.conds["VersionUpdatePending"] = "true" ->
                 UpdateStatus("InProgress", "VersionUpdatePending", "false")
            [] OTHER -> SetState("InProgress")
    IN  CASE o.retry -> {Plan(<<Patch([retry |-> FALSE])>>, FALSE)}
          [] ~o.retry /\ ~GatesSatisfied ->
               {Plan(EnsureCompletionConditionInitialized
                     \o <<ReadinessGatesNotSatisfied("Pending")>>, FALSE)}
          [] OTHER ->
               {Plan(EnsureCompletionConditionInitialized \o MarkReadinessGatesSatisfied(o)
                     \o <<state>>, FALSE)}

\* A new spec starts over, with the conditions that are not of the flow.
StartOver(o) ==
    Patch([flow |-> NoFlow, state |-> "", current |-> o.current \cup {"status"}, observed |-> TRUE,
           conds |-> [type \in ConditionType |->
             CASE type \in {"ChangesIssued", "ChangesVerified", "ResetPostSettingApply",
                            "ValidationFailed", "ResetIssued",
                            "RetryOfFailedResourceIssued"} -> "unset"
               [] type = "ReadinessGatesSatisfied" /\ Gated -> "true"
               [] OTHER -> o.conds[type]]])

HandleSettingAppliedState(o) ==
    LET mark == MarkReadinessGatesSatisfied(o)
        read == PersistETagRefreshes(o, Managed(o))
        cleanup == CleanupServerMaintenanceReferences(o)
    IN  CASE ~GatesSatisfied ->
               {Plan(cleanup \o <<ReadinessGatesNotSatisfied("Applied")>>, FALSE)}
          [] GatesSatisfied /\ o.spec # <<>> /\ Outdated(o) ->
               {Plan(mark \o <<StartOver(o)>>, FALSE)}
          [] OTHER ->
               CASE \E g \in Managed(o) : o.flow[g] # "Applied" -> {Plan(mark, FALSE)}
                 [] /\ \A g \in Managed(o) : o.flow[g] = "Applied"
                    /\ Diff(o, Managed(o)) # {} ->
                      {Plan(mark \o read \o CompleteAll(Servers, "False") \o cleanup
                            \o <<SetState("")>>, FALSE)}
                 [] OTHER ->
                      {Plan(mark \o read \o CompleteAll(Servers, "True") \o cleanup, FALSE)}

-----------------------------------------------------------------------------
(* Failed: retry, or stay *)

\* ensureResetBeforeRetry, and the plan of a retry that may go on.
EnsureResetBeforeRetry(o, retry) ==
    LET active == CheckIfMaintenanceGranted(o)
        request == RequestMaintenanceOnServers(o)
        first == (IF active THEN <<>> ELSE MarkReadinessGatesSatisfied(o)) \o request.do
    IN  CASE ~active /\ ~GatesSatisfied -> {Plan(<<ReadinessGatesNotSatisfied("same")>>, TRUE)}
          [] active /\ ~request.ends ->
               {Before(first, [p EXCEPT !.again = TRUE]) :
                  p \in ResetBMC(o, "RetryResetIssued", TRUE, {retry})}
          [] OTHER -> {Plan(first, TRUE)}

\* A failure is retried from Pending with no conditions but the manual retry's.
RetryPatch(o, attempts, retried) ==
    Plan(<<Patch([state |-> "Pending", attempts |-> attempts, flow |-> NoFlow,
                  current |-> o.current \cup {"status"}, observed |-> TRUE,
                  conds |-> [NoConditions EXCEPT !["RetryOfFailedResourceIssued"] = retried]])>>,
         FALSE)

HandleFailedState(o) ==
    LET fresh == MaxAttempts > 0 /\ "status" \notin o.current
        current == o.current \cup {"status"}
        attempts == IF fresh THEN 0 ELSE o.attempts
        reset == IF fresh \/ (MaxAttempts = 0 /\ o.attempts # 0)
                 THEN <<Patch([attempts |-> 0, current |-> current, observed |-> TRUE])>> ELSE <<>>
        started == {g \in Group : o.flow[g] = "InProgress"}
        failed == IF started = {} THEN <<>>
                  ELSE <<Patch([flow |-> [o.flow EXCEPT ![Min(started)] = "Failed"]])>>
    IN  CASE o.retry -> EnsureResetBeforeRetry(o, RetryPatch(o, 0, "true"))
          [] ~o.retry /\ attempts < MaxAttempts ->
               {Before(reset, p) : p \in EnsureResetBeforeRetry(o,
                  RetryPatch(o, attempts + 1, o.conds["RetryOfFailedResourceIssued"]))}
          [] OTHER -> {Plan(reset \o failed, FALSE)}

-----------------------------------------------------------------------------
(* The reconcile by state *)

Deleting(o) ==
    Plan(CompleteAll(Servers, "absent") \o CleanupServerMaintenanceReferences(o)
         \o <<Patch([finalizer |-> FALSE])>>, FALSE)

\* Deletion waits while the settings are applied under maintenance.
Plans(o) ==
    CASE o.phase = "gone" -> {Rest}
      [] o.phase = "deleting" /\ ~(o.state = "InProgress" /\ IsAnyMaintenanceActive(o.refs)) ->
           {IF o.finalizer THEN Deleting(o) ELSE Rest}
      [] o.phase = "live" /\ ~o.finalizer -> {Plan(<<Patch([finalizer |-> TRUE])>>, FALSE)}
      [] OTHER ->
           CASE o.state \in {"", "Pending"} -> PlanPending(o)
             [] o.state = "InProgress" -> HandleSettingInProgressState(o)
             [] o.state = "Applied" -> HandleSettingAppliedState(o)
             [] o.state = "Failed" -> HandleFailedState(o)

-----------------------------------------------------------------------------
(* Wakeups *)

\* enqueueBMCSettingsByServerRefs
Woken ==
    LET o == Cached(objects)
    IN  /\ o.phase # "gone"
        /\ o.state # "Failed"
        /\ o.state = "InProgress" \/ Gated

\* enqueueBMCSettingsByBMCRefs
WokenByBMC ==
    LET o == Cached(objects)
    IN  /\ o.phase # "gone"
        /\ o.state # "Applied"
        /\ o.state = "Failed" => o.conds["RetryResetIssued"] = "issued"

\* The BMC reaches spec.version: enqueueBMCSettingsByBMCVersion.
VersionReached ==
    /\ ~device.versionReached
    /\ device' = [device EXCEPT !.versionReached = TRUE]
    /\ queued' = (queued \/ (Cached(objects).phase # "gone"
                             /\ Cached(objects).state \notin {"Applied", "Failed"}))
    /\ UNCHANGED <<objects, maintenances, parked, resets, completion, gate, job, faults, requests>>

\* The BMC is off for a while.
PowerLost ==
    /\ device.poweredOn
    /\ faults < MaxFaults
    /\ faults' = faults + 1
    /\ device' = [device EXCEPT !.poweredOn = FALSE]
    /\ queued' = (queued \/ WokenByBMC)
    /\ UNCHANGED <<objects, maintenances, parked, resets, completion, gate, job, requests>>

PowerBack ==
    /\ ~device.poweredOn
    /\ device' = [device EXCEPT !.poweredOn = TRUE]
    /\ queued' = (queued \/ WokenByBMC)
    /\ UNCHANGED <<objects, maintenances, parked, resets, completion, gate, job, faults, requests>>

-----------------------------------------------------------------------------
(* Reconcile *)

\* SetBMCAttributesImmediately, and what persistApplyCycleConditions stores
\* next: that the changes are issued, whether they need a reset, and the ETags
\* the BMC answered with.
IssueSettings(do, copy) ==
    LET e == Head(do)
        written == DOMAIN e.values
        now(g) == g \in written \cap NoReset
    IN  /\ e.op = "write"
        /\ device' = [device EXCEPT
             !.values = [g \in Group |-> IF now(g) THEN e.values[g] ELSE @[g]],
             !.pending = [g \in Group |-> IF g \in written \ NoReset THEN e.values[g] ELSE @[g]]]
        /\ job' = [do |-> <<Patch(
              [conds |-> [copy.conds EXCEPT !["ChangesIssued"] = "true",
                            !["ChangesVerified"] = "pending",
                            !["ResetPostSettingApply"] =
                              IF written \subseteq NoReset THEN "notRequired" ELSE "required"],
               current |-> copy.current \cup {"issued"}, flow |-> e.flow,
               etags |-> [g \in Group |->
                  IF g \in written
                  THEN [etag |-> ETag(device', g), value |-> e.values[g]]
                  ELSE copy.etags[g]]])>>, again |-> FALSE, copy |-> copy]
        /\ queued' = (job # Idle /\ queued)
        /\ UNCHANGED <<objects, maintenances, parked, resets, completion, gate, faults, requests>>

Perform(do, again, copy) ==
    \/ PerformCall(do, again, copy, After(Head(do), copy), Woken)
    \/ IssueSettings(do, copy)

\* A reconcile up to and including its first effect.
Reconcile ==
    /\ CanStart
    /\ \E plan \in Plans(Cached(objects)) :
         IF plan.do = <<>>
         THEN /\ queued' = plan.again
              /\ UNCHANGED <<objects, maintenances, parked, resets, completion, gate,
                             device, job, faults, requests>>
         ELSE Perform(plan.do, plan.again, Cached(objects))

Continue == job # Idle /\ Perform(job.do, job.again, job.copy)

-----------------------------------------------------------------------------
(* Specification *)

Init ==
    /\ EnvironmentInit
    /\ \E versionReached \in BOOLEAN :
         device = [values |-> Installed, pending |-> NonePending, poweredOn |-> TRUE,
                   versionReached |-> versionReached]
    /\ objects = <<[phase |-> "live", finalizer |-> FALSE, retry |-> FALSE,
                    spec |-> Wanted, refs |-> {}, state |-> "", attempts |-> 0,
                    current |-> {}, observed |-> FALSE, conds |-> NoConditions,
                    flow |-> NoFlow, etags |-> [g \in Group |-> None]]>>

Controller == Reconcile \/ Continue
Delivery == DeliverObject \/ DeliverMaintenance \/ DeliverReset(WokenByBMC)
Others == MaintenanceSteps(Woken) \/ BMCReset(Restarted) \/ PowerBack

Next ==
    \/ Controller \/ Delivery \/ Others \/ Fail \/ PowerLost \/ VersionReached
    \/ RetryManually \/ Delete \/ GateChanges(Woken)
    \/ \E g \in Group : Drift(g)
    \/ \E flow \in Flows : ChangeSpec(flow)

Spec == Init /\ [][Next]_vars

-----------------------------------------------------------------------------
(* Properties *)

Written(g) ==
    \/ device'.pending[g] # device.pending[g] /\ device'.pending[g] # None
    \/ device'.values[g] # device.values[g] /\ job' # job
ResetRequested == ~Stored(resets) /\ Stored(resets)'

\* Settings are written, and a reset of the BMC is asked for, only while all
\* its Servers are parked: a grant the cache shows must still hold for each.
DisturbedParked == (\E g \in Group : Written(g)) \/ ResetRequested => AllParked

\* docs/concepts/bmcsettings.md: groups are applied in ascending order.  When
\* settings are written, every group before them is as wanted on the BMC or
\* written with them, and nothing waits for a reset from before.
WrittenInOrder ==
    \A g \in Group : Written(g) =>
         /\ device.pending = NonePending
         /\ \A h \in Managed(Stored(objects)) : h < g =>
              device.values[h] = Stored(objects).spec[h] \/ Written(h)

\* A Server goes back to service with nothing that waits for a reset of its
\* BMC: not settings, not a reset that was asked for.
GivenBackReady ==
    NoneParked' /\ ~NoneParked /\ Stored(objects).phase = "live" =>
        device.pending = NonePending /\ ~Stored(resets)

AsWanted(o) == \A g \in Managed(o) : device.values[g] = o.spec[g]

\* Settings whose issue was not recorded wait for a reset nobody asks for.
Stuck(o) ==
    /\ o.state = "InProgress"
    /\ o.conds["ChangesIssued"] # "true"
    /\ device.pending # NonePending

\* What a BMCSettings may be at in the end: applied, with every Server given
\* back and told so; out of attempts; behind its gates or a BMC version; at a
\* loss; or gone for good.
Settled(o) ==
    \/ o.phase = "gone" /\ NoMaintenance /\ NoneParked
    \/ /\ o.phase = "live" /\ o.state = "Applied" /\ AsWanted(o)
       /\ NoMaintenance /\ NoneParked
       /\ GatesSatisfied => \A s \in Servers : completion[s] = "True"
    \/ o.phase = "live" /\ o.state = "Failed" /\ o.attempts = MaxAttempts /\ ~o.retry
    \/ o.phase = "live" /\ o.state \in {"Pending", "Applied", "Failed"} /\ ~GatesSatisfied
    \/ o.phase = "live" /\ o.state = "Pending" /\ ~device.versionReached
    \/ Stuck(o)
=============================================================================
