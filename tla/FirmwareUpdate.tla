--------------------------- MODULE FirmwareUpdate ---------------------------
(***************************************************************************)
(* The FirmwareUpdate controller and its Dell handler: a dry-run job of    *)
(* the BMC compares the Server's firmware with a catalog; what is pending  *)
(* is installed by an apply job, and by the component jobs it spawns,      *)
(* while the Server is under a ServerMaintenance, in as many passes as it  *)
(* takes, each followed by another check.                                  *)
(*                                                                         *)
(* An update that is Completed is checked again and again, so the          *)
(* controller never rests.  Its status, not its spec, refers to its        *)
(* maintenance, and its webhook refuses every change of the rest while     *)
(* that is active.  As elsewhere Plan... is what a reconcile may decide.   *)
(*                                                                         *)
(* Left out: the ignore and force annotations, the deletion of the Server, *)
(* a BMC that is off or does not answer, conditions nobody reads, and what *)
(* buildRepositoryParameters refuses (an error on every reconcile).        *)
(***************************************************************************)
EXTENDS MaintainedResource

CONSTANTS
    Catalogs,       \* what a repository may hold
    Installed,      \* the catalog the firmware is at first
    Wanted,         \* spec.dellRepository at first
    Vendors,        \* the Server's manufacturer, "" until it is discovered
    Home,           \* is the update in the operator's own namespace
    TTL,            \* does the spec set ttlSecondsAfterFinished
    Deadline,       \* does it set progressDeadlineSeconds
    Cooldown,       \* may a BMC reset be skipped for a recent one
    MaxPasses,      \* MaxRepositoryPasses
    MaxJobs         \* bound: jobs the BMC ever runs

ASSUME FirmwareUpdateAssumption ==
    /\ \A s, t \in Servers : s = t
    /\ Reference = "status"
    /\ {Installed, Wanted} \subseteq Catalogs
    /\ Vendors \subseteq {"", "Dell", "HPE", "other"}
    /\ {Home, TTL, Deadline, Cooldown} \subseteq BOOLEAN
    /\ {MaxPasses, MaxJobs} \subseteq Nat \ {0}
    /\ None \notin Nat

State == {"", "Pending", "InProgress", "Completed", "Failed"}
ConditionType ==
    StageType \cup
    {"ServerMaintenanceCreated", "ServerMaintenanceWaiting", "ResetIssued", "RetryResetIssued",
     "RetryOfFailedResourceIssued", "RepositoryCheckIssued", "RepositoryCheckCompleted",
     "RepositoryUpdatePowerOnIssued", "RepositoryUpdateIssued", "RepositoryUpdateCompleted",
     "ComponentJobsCompleted", "ScheduledJobStuckPowerOnIssued"}
ConditionValue == StageValue \cup {"false", "approved", "failed"}
NoConditions == [type \in ConditionType |-> "unset"]

Exhausted == MaxAttempts + 1    \* math.MaxInt32
JobId == 1..MaxJobs

\* spec is the catalog; update and baseline are dellStatus.updateJob and
\* .baselineJobIDs, which names every job up to some number; scheduled is
\* the component jobs dellStatus shows as Scheduled.
FirmwareUpdateObject ==
    [phase : {"live", "deleting", "gone"}, finalizer : BOOLEAN, retry : BOOLEAN,
     spec : Catalogs, refs : SUBSET Servers, state : State, attempts : 0..Exhausted,
     current : SUBSET {"status"}, passes : 0..(MaxPasses + 1), update : 0..MaxJobs,
     baseline : 0..MaxJobs \cup {None}, scheduled : SUBSET JobId,
     conds : [ConditionType -> ConditionValue]]

\* Idle is no reconcile that has yet to record the job it started.
ASSUME IdleAssumption ==
    LET records == [op : {"status"}, fields : [baseline : Nat, update : Nat],
                    conds : [{"RepositoryUpdateIssued"} -> {"true"}]]
    IN  Idle \notin [do : Seq(records), again : BOOLEAN, copy : FirmwareUpdateObject]

Job == [kind : {"apply", "component"}, catalog : Catalogs,
        state : {"scheduled", "running", "completed", "failed"}]

\* check is the last dry-run job: running, failed, or what it found.
Device == [vendor : Vendors, power : {"On", "Off", "PoweringOn", "PoweringOff", "ForcingOff"},
           firmware : Catalogs, checked : Catalogs,
           check : {"none", "running", "failed", "clean", "pending"}, jobs : Seq(Job)]

TypeOK ==
    /\ EnvironmentOK
    /\ device \in Device
    /\ objects \in Seq(FirmwareUpdateObject) /\ Len(objects) > 0
    /\ job = Idle \/ job.copy \in FirmwareUpdateObject

Server == CHOOSE s \in Servers : TRUE

-----------------------------------------------------------------------------
(* The Server's BMC and its jobs *)

Job_(j) == device.jobs[j]
Unfinished == {j \in DOMAIN device.jobs : device.jobs[j].state \in {"scheduled", "running"}}
Running == {j \in Unfinished : device.jobs[j].state = "running"}

CheckEnds ==
    /\ device.check = "running"
    /\ device' = [device EXCEPT !.check =
                    IF device.firmware = device.checked THEN "clean" ELSE "pending"]

\* An apply job that completes has spawned the component job, which waits
\* for the Server to restart with it.
JobStarts(j) ==
    /\ device.jobs[j].state = "scheduled"
    /\ device.power = "On"
    /\ device' = [device EXCEPT !.jobs[j].state = "running"]

\* A pass may leave something for the next.
JobCompletes(j) ==
    LET finished == [device EXCEPT !.jobs[j].state = "completed"]
        spawned == [kind |-> "component", catalog |-> Job_(j).catalog, state |-> "scheduled"]
    IN  /\ Job_(j).state = "running"
        /\ \/ /\ Job_(j).kind = "apply"
              /\ Len(device.jobs) < MaxJobs
              /\ device' = [finished EXCEPT !.jobs = Append(@, spawned)]
           \/ /\ Job_(j).kind = "component"
              /\ device' \in {finished, [finished EXCEPT !.firmware = Job_(j).catalog]}

PowerChange ==
    /\ device.power \notin {"On", "Off"}
    /\ device' = [device EXCEPT !.power = IF @ = "PoweringOn" THEN "On" ELSE "Off"]

Discovered ==
    /\ device.vendor = ""
    /\ \E vendor \in Vendors \ {""} : device' = [device EXCEPT !.vendor = vendor]

JobStep == \E j \in DOMAIN device.jobs : JobStarts(j) \/ JobCompletes(j)

Hardware(step) == step /\ UNCHANGED <<AllButDevice, resets, faults>>

\* A job fails; the Server goes off under a job that waits for it.
HardwareFails ==
    /\ faults < MaxFaults
    /\ faults' = faults + 1
    /\ \/ device.check = "running" /\ device' = [device EXCEPT !.check = "failed"]
       \/ \E j \in Running : device' = [device EXCEPT !.jobs[j].state = "failed"]
       \/ /\ Unfinished # {} /\ device.power = "On"
          /\ device' = [device EXCEPT !.power = "Off"]
    /\ UNCHANGED <<AllButDevice, resets>>

\* Somebody installs other firmware once the update is done.
Drift ==
    /\ "drift" \in User
    /\ Stored(objects).state = "Completed"
    /\ \/ maintenances = <<[s \in Servers |-> None]>>
       \/ "earlyChange" \in Races
    /\ device.firmware # Installed
    /\ device' = [device EXCEPT !.firmware = Installed]
    /\ requests < MaxRequests
    /\ requests' = requests + 1
    /\ UNCHANGED <<objects, maintenances, parked, resets, completion, gate, queued, job, faults>>

Commanded(command) ==
    [device EXCEPT !.power =
       CASE command = "PowerOff" /\ @ \notin {"Off", "ForcingOff"} -> "PoweringOff"
         [] command = "ForcePowerOff" /\ @ # "Off" -> "ForcingOff"
         [] command = "PowerOn" /\ @ = "Off" -> "PoweringOn"
         [] OTHER -> @]

-----------------------------------------------------------------------------
(* Effects *)

\* patchProgress: fields of the status and some conditions.
PatchProgress(fields, conditions) ==
    [op |-> "status", fields |-> fields, conds |-> conditions]
SetCondition(type, value) == PatchProgress(<<>>, [t \in {type} |-> value])
SetState(state, type, value) == PatchProgress([state |-> state], [t \in {type} |-> value])

\* What goes with dellStatus.
NoJobs == [baseline |-> None, update |-> 0, scheduled |-> {}]
Merge(f, g) == [x \in DOMAIN f \cup DOMAIN g |-> IF x \in DOMAIN g THEN g[x] ELSE f[x]]
Only(type, value) == [NoConditions EXCEPT ![type] = value]

\* The object in memory after the fields of an effect were set; a status
\* effect of PowerCycle sets one condition.
After(effect, o) ==
    CASE effect.op = "patch" -> Merge(o, effect.fields)
      [] effect.op = "status" /\ "type" \in DOMAIN effect ->
           [o EXCEPT !.current = {"status"}, !.conds[effect.type] = effect.value]
      [] effect.op = "status" /\ "fields" \in DOMAIN effect ->
           [Merge(o, effect.fields) EXCEPT !.current = {"status"},
                                           !.conds = Merge(@, effect.conds)]
      [] OTHER -> o

-----------------------------------------------------------------------------
(* The maintenance *)

\* cleanupServerMaintenanceReferences looks for it in the operator's namespace.
CleanupServerMaintenanceReferences(o) ==
    IF o.refs = {} THEN <<>>
    ELSE (IF Home /\ Deletable(Server) THEN <<OnServer("deleteMaintenance", Server)>> ELSE <<>>)
         \o <<Refs({})>>

\* requestServerMaintenance: what ends the reconcile, nothing once the update
\* has its maintenance.  One that is there already is taken over.
RequestServerMaintenance(o) ==
    CASE o.refs # {} /\ ~Present(Server) -> <<Refs({})>>
      [] o.refs # {} /\ Present(Server) ->
           IF o.conds["ServerMaintenanceCreated"] = "true" THEN <<>>
           ELSE <<SetCondition("ServerMaintenanceCreated", "true")>>
      [] OTHER -> (IF Present(Server) THEN <<>> ELSE <<OnServer("createMaintenance", Server)>>)
                  \o <<Refs(Servers)>>

\* A reset may be recent, but not with one still requested.
RecentlyReset == Cooldown /\ ~Stored(resets)

\* The BMC reset of a condition, and the plans that follow it once it is done.
HandleReset(o, type, mandatory, again, plans) ==
    UNION {IF r.ready THEN {Before(r.do, p) : p \in plans} ELSE {Plan(r.do, again)}
           : r \in HandleBMCReset(o.conds[type], type, mandatory, RecentlyReset, Cached(resets))}

\* handleServerMaintenance, and the plans of an update that may go on.
\* Waiting for the maintenance is left to its events.
HandleServerMaintenance(o, plans) ==
    LET request == RequestServerMaintenance(o)
        active == IsAnyMaintenanceActive(o.refs)
        waiting == o.conds["ServerMaintenanceWaiting"]
        settle(value) == {Plan(IF waiting = value THEN <<>>
                               ELSE <<SetCondition("ServerMaintenanceWaiting", value)>>, FALSE)}
    IN  CASE request # <<>> -> {Plan(request, FALSE)}
          [] request = <<>> /\ ~active -> settle("true")
          [] request = <<>> /\ active /\ waiting # "approved" -> settle("approved")
          [] OTHER -> HandleReset(o, "ResetIssued", FALSE, FALSE, plans)

-----------------------------------------------------------------------------
(* The dry-run check: Pending, and Completed *)

Concluded == Merge(NoJobs, [state |-> "Completed", passes |-> 0])

\* pollRepositoryCheck, when nothing is pending: first the maintenance goes.
ConcludeCheck(o) ==
    CleanupServerMaintenanceReferences(o) \o
    <<IF o.state = "Completed"
      THEN PatchProgress(Concluded, [t \in {"RepositoryCheckIssued", "RepositoryCheckCompleted"} |->
                                       IF t = "RepositoryCheckIssued" THEN "false" ELSE "true"])
      ELSE PatchProgress(Merge(Concluded, [conds |-> Only("RepositoryCheckCompleted", "true")]),
                         <<>>)>>

\* Mutant: the passes are compared before this one is counted.
EnterPassOnceMore(o) ==
    IF o.passes > MaxPasses
    THEN <<PatchProgress([state |-> "Failed", passes |-> o.passes + 1,
                          conds |-> Only("RepositoryCheckCompleted", "failed")], <<>>)>>
    ELSE <<PatchProgress([state |-> "InProgress", passes |-> o.passes + 1,
                          conds |-> NoConditions], <<>>)>>

\* What is pending takes a pass, unless it has taken too many.
EnterPass(o) ==
    IF o.passes + 1 > MaxPasses
    THEN <<PatchProgress([state |-> "Failed", passes |-> o.passes + 1,
                          conds |-> Only("RepositoryCheckCompleted", "failed")], <<>>)>>
    ELSE <<PatchProgress([state |-> "InProgress", passes |-> o.passes + 1,
                          conds |-> NoConditions], <<>>)>>

\* Mutant: what an earlier check found is taken for this one's.
ProcessRepositoryCheckHasty(o) ==
    CASE o.conds["RepositoryCheckIssued"] # "true" ->
           Plan(<<[op |-> "check", catalog |-> o.spec]>>, FALSE)
      [] OTHER -> Plan(IF device.check = "pending" THEN EnterPass(o) ELSE ConcludeCheck(o), FALSE)

ProcessRepositoryCheck(o) ==
    CASE o.conds["RepositoryCheckIssued"] # "true" ->
           Plan(<<[op |-> "check", catalog |-> o.spec]>>, FALSE)
      [] OTHER ->
           CASE device.check = "failed" ->
                  Plan(<<SetState("Failed", "RepositoryCheckCompleted", "failed")>>, FALSE)
             [] device.check = "clean" -> Plan(ConcludeCheck(o), FALSE)
             [] device.check = "pending" -> Plan(EnterPass(o), FALSE)
             [] OTHER -> Poll

-----------------------------------------------------------------------------
(* The update: InProgress *)

\* ensureServerPoweredOn and issueRepositoryUpdate: the baseline is the jobs
\* the BMC has just before the call, unless a call that failed left one.
IssueRepositoryUpdate(o) ==
    CASE device.power = "On" ->
           Plan(<<[op |-> "apply", catalog |-> o.spec,
                   baseline |-> IF o.baseline = None THEN Len(device.jobs) ELSE o.baseline]>>,
                FALSE)
      [] device.power # "On" /\ o.conds["RepositoryUpdatePowerOnIssued"] # "true" ->
           Plan(<<Command("PowerOn"), SetCondition("RepositoryUpdatePowerOnIssued", "true")>>,
                FALSE)
      [] OTHER -> Poll

\* Mutant: an apply job that runs asks for no further look.
PollRepositoryUpdateOnce(o) ==
    Plan(IF Job_(o.update).state = "running" THEN <<>>
         ELSE <<SetCondition("RepositoryUpdateCompleted", "true")>>, FALSE)

PollRepositoryUpdate(o) ==
    CASE Job_(o.update).state = "failed" ->
           Plan(<<SetState("Failed", "RepositoryUpdateCompleted", "failed")>>, FALSE)
      [] Job_(o.update).state = "completed" ->
           Plan(<<SetCondition("RepositoryUpdateCompleted", "true")>>, FALSE)
      [] OTHER -> Poll

ComponentJobs(o) == {j \in DOMAIN device.jobs : j > o.baseline /\ j # o.update}

\* handleStuckScheduledJob: a job known to wait for a Server that is off.
HandleStuckScheduledJob(o, scheduled) ==
    LET issued == o.conds["ScheduledJobStuckPowerOnIssued"] = "true"
        record(conditions) == PatchProgress([scheduled |-> scheduled], conditions)
        set(value) == record([t \in {"ScheduledJobStuckPowerOnIssued"} |-> value])
        unchanged == {IF scheduled = o.scheduled THEN <<>> ELSE <<record(<<>>)>>}
    IN  CASE scheduled = {} \/ device.power = "On" -> IF issued THEN {<<set("false")>>} ELSE unchanged
          [] /\ scheduled # {} /\ device.power = "Off" /\ ~issued
             /\ scheduled \subseteq o.scheduled ->
               unchanged \cup {<<Command("PowerOn"), set("true")>>}
          [] OTHER -> unchanged

\* Mutant: the first component job that ends ends the pass.
TrackComponentJobsFirst(o) == {Plan(<<SetCondition("ComponentJobsCompleted", "true")>>, FALSE)}

TrackComponentJobs(o) ==
    LET jobs == ComponentJobs(o)
        scheduled == {j \in jobs : Job_(j).state = "scheduled"}
    IN  CASE jobs \cap Unfinished # {} ->
               {Plan(do, TRUE) : do \in HandleStuckScheduledJob(o, scheduled)}
          [] jobs \cap Unfinished = {} /\ \E j \in jobs : Job_(j).state = "failed" ->
               {Plan(<<SetState("Failed", "ComponentJobsCompleted", "failed")>>, FALSE)}
          [] OTHER -> {Plan(<<SetCondition("ComponentJobsCompleted", "true")>>, FALSE)}

\* The pass is over, and counted, until a check finds nothing pending.
HandBack == PatchProgress(Merge(NoJobs, [state |-> "Completed", conds |-> NoConditions]), <<>>)

ProcessInProgress(o) ==
    CASE o.conds["RepositoryUpdateIssued"] # "true" -> {IssueRepositoryUpdate(o)}
      [] /\ o.conds["RepositoryUpdateIssued"] = "true"
         /\ o.conds["RepositoryUpdateCompleted"] # "true" -> {PollRepositoryUpdate(o)}
      [] /\ o.conds["RepositoryUpdateCompleted"] = "true"
         /\ o.conds["ComponentJobsCompleted"] # "true" -> TrackComponentJobs(o)
      [] OTHER -> {Plan(<<HandBack>>, FALSE)}

\* checkProgressDeadline
DeadlineExceeded == Deadline /\ (Unfinished = {} \/ "slowJobs" \in Races)

PlanInProgress(o) ==
    (IF device.vendor = "Dell" THEN HandleServerMaintenance(o, ProcessInProgress(o)) ELSE {Poll})
    \cup (IF DeadlineExceeded
          THEN {Plan(<<PatchProgress([state |-> "Failed"], <<>>)>>, FALSE)} ELSE {})

-----------------------------------------------------------------------------
(* Failed: retry, or stay *)

\* Giving up the power cycle drops the manual request and uses up the others.
GiveUp(o) ==
    (IF o.retry THEN <<Patch([retry |-> FALSE])>> ELSE <<>>)
    \o (IF o.attempts # Exhausted THEN <<Patch([attempts |-> Exhausted])>> ELSE <<>>)

\* Mutant: a retry does not wait for the maintenance it asked for.
EnsureResetBeforeRetryEarly(o, retry) ==
    IF o.refs = {} THEN {Plan(RequestServerMaintenance(o), TRUE)}
    ELSE HandleReset(o, "RetryResetIssued", TRUE, TRUE,
           {Plan(IF r.ready THEN r.do \o retry ELSE r.do, TRUE) :
              r \in HandleServerPowerCycle(o.conds, device.power, GiveUp(o))})

\* ensureResetBeforeRetry, and the patch of a retry that may go on.
EnsureResetBeforeRetry(o, retry) ==
    LET request == RequestServerMaintenance(o)
    IN  CASE request # <<>> -> {Plan(request, TRUE)}
          [] request = <<>> /\ ~IsAnyMaintenanceActive(o.refs) -> {Poll}
          [] OTHER -> HandleReset(o, "RetryResetIssued", TRUE, TRUE,
                        {Plan(IF r.ready THEN r.do \o retry ELSE r.do, TRUE) :
                           r \in HandleServerPowerCycle(o.conds, device.power, GiveUp(o))})

\* A failure is retried from Pending, as if new but for its maintenance.
RetryPatch(attempts, retried) ==
    <<Patch(Merge(NoJobs, [state |-> "Pending", attempts |-> attempts, passes |-> 0,
                           current |-> {"status"},
                           conds |-> Only("RetryOfFailedResourceIssued", retried)]))>>

ProcessFailedState(o) ==
    LET fresh == MaxAttempts > 0 /\ o.current = {}
        reset == <<Patch([attempts |-> 0, current |-> {"status"}])>>
        attempts == IF fresh THEN 0 ELSE o.attempts
        retried == o.conds["RetryOfFailedResourceIssued"]
    IN  CASE o.retry -> EnsureResetBeforeRetry(o, RetryPatch(0, "true"))
          [] ~o.retry /\ attempts < MaxAttempts ->
               {Before(IF fresh THEN reset ELSE <<>>, p) :
                  p \in EnsureResetBeforeRetry(o, RetryPatch(attempts + 1, retried))}
          [] OTHER -> {Plan(IF fresh \/ (MaxAttempts = 0 /\ o.attempts # 0)
                            THEN reset ELSE <<>>, FALSE)}

-----------------------------------------------------------------------------
(* The reconcile by state *)

\* transitionState.  The handler of HPE is a stub that returns an error.
TransitionState(o) ==
    CASE device.vendor = "" -> {Poll}
      [] device.vendor = "other" -> {Plan(<<PatchProgress([state |-> "Failed"], <<>>)>>, FALSE)}
      [] device.vendor \in {"Dell", "HPE"} /\ o.state \in {"", "Pending"} /\ o.retry ->
           {Plan(<<Patch([retry |-> FALSE])>>, FALSE)}
      [] device.vendor = "HPE" /\ o.state \in {"", "Pending"} /\ ~o.retry -> {Poll}
      [] device.vendor = "Dell" /\ o.state \in {"", "Pending", "Completed"} /\ ~o.retry ->
           {ProcessRepositoryCheck(o)}
      [] device.vendor = "Dell" /\ o.state = "Completed" /\ o.retry -> {ProcessRepositoryCheck(o)}
      [] device.vendor = "HPE" /\ o.state = "Completed" -> {Rest}
      [] device.vendor \in {"Dell", "HPE"} /\ o.state = "InProgress" -> PlanInProgress(o)
      [] device.vendor \in {"Dell", "HPE"} /\ o.state = "Failed" -> ProcessFailedState(o)

\* handleTTL comes first: until the TTL is over nothing else is done.
PlanTTL == {Poll, Plan(<<[op |-> "delete"]>>, FALSE)}

Plans(o) ==
    CASE o.phase = "gone" -> {Rest}
      [] o.phase = "deleting" /\ ~(o.state = "InProgress" /\ IsAnyMaintenanceActive(o.refs)) ->
           {Plan(<<Patch([finalizer |-> FALSE])>>, FALSE)}
      [] o.phase = "live" /\ ~o.finalizer -> {Plan(<<Patch([finalizer |-> TRUE])>>, FALSE)}
      [] OTHER -> IF TTL /\ o.state = "Completed" THEN PlanTTL ELSE TransitionState(o)

-----------------------------------------------------------------------------
(* Wakeups *)

\* enqueueFirmwareUpdateByServerRefs
Woken ==
    LET o == Cached(objects)
    IN  o.phase # "gone" /\ o.state # "Completed" /\ \E s \in o.refs : InMaintenance(s)

\* enqueueFirmwareUpdateByBMC
WokenByBMC ==
    LET o == Cached(objects)
    IN  /\ o.phase # "gone"
        /\ \/ o.state = "InProgress" /\ o.conds["ResetIssued"] = "issued"
           \/ o.state = "Failed" /\ o.conds["RetryResetIssued"] = "issued"

-----------------------------------------------------------------------------
(* Reconcile *)

NotDevice == <<maintenances, parked, resets, completion, gate, requests>>

IssueCommand(do, again, copy) ==
    /\ Head(do).op = "command"
    /\ device' = Commanded(Head(do).command)
    /\ Proceed(do, again, copy)
    /\ queued' = Requests(do, again)
    /\ UNCHANGED <<NotDevice, objects, faults>>

\* InstallFirmwareFromRepository, without ApplyUpdate: the BMC runs the
\* check, or refuses it for good.
IssueCheck(do, copy) ==
    LET issued == PatchProgress(<<>>, [t \in {"RepositoryCheckIssued", "RepositoryCheckCompleted"} |->
                                         IF t = "RepositoryCheckIssued" THEN "true" ELSE "false"])
        follow(effect) == job' = [do |-> <<effect>>, again |-> FALSE, copy |-> copy]
    IN  /\ Head(do).op = "check"
        /\ \/ /\ device' = [device EXCEPT !.check = "running", !.checked = Head(do).catalog]
              /\ follow(issued)
              /\ UNCHANGED faults
           \/ /\ faults < MaxFaults
              /\ faults' = faults + 1
              /\ follow(SetState("Failed", "RepositoryCheckIssued", "failed"))
              /\ UNCHANGED device
        /\ queued' = (job # Idle /\ queued)
        /\ UNCHANGED <<NotDevice, objects>>

\* InstallFirmwareFromRepository, with it: the BMC runs the job, or refuses
\* it, for good or for now.
IssueUpdate(do, copy) ==
    LET e == Head(do)
        issued == PatchProgress([baseline |-> e.baseline, update |-> Len(device.jobs) + 1],
                                [t \in {"RepositoryUpdateIssued"} |-> "true"])
        follow(effect, again) == job' = [do |-> <<effect>>, again |-> again, copy |-> copy]
    IN  /\ e.op = "apply"
        /\ \/ /\ Len(device.jobs) < MaxJobs
              /\ device' = [device EXCEPT !.jobs =
                    Append(@, [kind |-> "apply", catalog |-> e.catalog, state |-> "running"])]
              /\ follow(issued, FALSE)
              /\ UNCHANGED faults
           \/ /\ faults < MaxFaults
              /\ faults' = faults + 1
              /\ \/ follow(SetState("Failed", "RepositoryUpdateIssued", "failed"), FALSE)
                 \/ follow(PatchProgress([baseline |-> e.baseline], <<>>), TRUE)
              /\ UNCHANGED device
        /\ queued' = (job # Idle /\ queued)
        /\ UNCHANGED <<NotDevice, objects>>

\* The update deletes itself once its TTL is over, if the webhook lets it.
DeleteItself(do) ==
    LET o == Stored(objects)
    IN  /\ Head(do).op = "delete"
        /\ IF UnderActiveMaintenance(o) THEN queued' = TRUE /\ UNCHANGED objects
           ELSE WriteObject([o EXCEPT !.phase = "deleting"]) /\ queued' = (job # Idle /\ queued)
        /\ job' = Idle
        /\ UNCHANGED <<NotDevice, device, faults>>

Perform(do, again, copy) ==
    \/ PerformCall(do, again, copy, After(Head(do), copy), Woken)
    \/ IssueCommand(do, again, copy)
    \/ IssueCheck(do, copy)
    \/ IssueUpdate(do, copy)
    \/ DeleteItself(do)

SeesDeletions ==
    \A s \in Servers : Deletable(s) => Stored(maintenances)[s] # None
                                         /\ ~Stored(maintenances)[s].deleting

\* A reconcile up to and including its first effect; lateMaintenance stands
\* here for a deletion the cache does not show yet, too.
Reconcile ==
    /\ CanStart
    /\ SeesDeletions \/ "lateMaintenance" \in Races
    /\ \E plan \in Plans(Cached(objects)) :
         IF plan.do = <<>>
         THEN /\ queued' = plan.again
              /\ UNCHANGED <<NotDevice, objects, device, job, faults>>
         ELSE Perform(plan.do, plan.again, Cached(objects))

Continue == job # Idle /\ Perform(job.do, job.again, job.copy)

\* An apply job nobody knows of is what a crash, or a failed patch, may leave.
RecordsUpdate ==
    /\ job # Idle
    /\ "fields" \in DOMAIN Head(job.do)
    /\ "update" \in DOMAIN Head(job.do).fields
    /\ Head(job.do).fields.update # 0

Interrupted == Fail /\ (RecordsUpdate => "lostRecord" \in Races)

-----------------------------------------------------------------------------
(* Specification *)

Init ==
    /\ EnvironmentInit
    /\ gate = FALSE
    /\ \E vendor \in Vendors, power \in {"On", "Off"} :
         device = [vendor |-> vendor, power |-> power, firmware |-> Installed,
                   checked |-> Installed, check |-> "none", jobs |-> <<>>]
    /\ objects = <<Merge(NoJobs,
                    [phase |-> "live", finalizer |-> FALSE, retry |-> FALSE, spec |-> Wanted,
                     refs |-> {}, state |-> "", attempts |-> 0, current |-> {}, passes |-> 0,
                     conds |-> NoConditions])>>

Controller == Reconcile \/ Continue
Reset == BMCReset(device)
DeliverResets == DeliverReset(WokenByBMC)
Maintenances == MaintenanceSteps(Woken)

Next ==
    \/ Controller \/ Interrupted \/ HardwareFails
    \/ DeliverObject \/ DeliverMaintenance \/ DeliverResets
    \/ Maintenances \/ Reset \/ Hardware(CheckEnds) \/ Hardware(JobStep)
    \/ Hardware(PowerChange) \/ Hardware(Discovered)
    \/ RetryManually \/ Delete \/ Drift
    \/ \E catalog \in Catalogs : ChangeSpec(catalog)

Spec == Init /\ [][Next]_vars

\* The two timers that something waits for: the TTL, and the one over a job
\* that waits for a Server that is off.
TimerExpires == Reconcile /\ (device'.power # device.power \/ Stored(objects').phase = "deleting")

\* The worker takes what is queued, each watch delivers, timers expire, and
\* the ServerMaintenance controller, metal-operator and the hardware do what
\* they were asked to.  Since the checks go on forever, each has its own.
FairSpec ==
    /\ Spec
    /\ WF_vars(Controller) /\ WF_vars(TimerExpires)
    /\ WF_vars(DeliverObject) /\ WF_vars(DeliverMaintenance) /\ WF_vars(DeliverResets)
    /\ WF_vars(Maintenances) /\ WF_vars(Reset)
    /\ WF_vars(Hardware(CheckEnds)) /\ WF_vars(Hardware(JobStep))
    /\ WF_vars(Hardware(PowerChange)) /\ WF_vars(Hardware(Discovered))

-----------------------------------------------------------------------------
(* Properties *)

Applied == Len(device'.jobs) > Len(device.jobs)
           /\ device'.jobs[Len(device'.jobs)].kind = "apply"
Commanding == device'.power # device.power
              /\ device'.power \in {"PoweringOn", "PoweringOff", "ForcingOff"}
ResetRequested == ~Stored(resets) /\ Stored(resets)'

\* Firmware is installed, and the Server and its BMC told to restart, only
\* while the Server is parked.
DisturbedOnlyParked == [][Applied \/ Commanding \/ ResetRequested => AllParked]_vars

\* No pass starts over one whose jobs are not over, and nothing restarts the
\* BMC or the Server under a job that runs.
UpdateUndisturbed ==
    [][/\ Applied => Unfinished = {}
       /\ Commanding \/ ResetRequested => Running = {}]_vars

\* The Server is asked back for its owner only once a check ran after the
\* last job and found it on the catalog the spec names.
GivenBack == \E s \in Servers : /\ Stored(maintenances)[s] # None
                                /\ ~Stored(maintenances)[s].deleting
                                /\ Stored(maintenances')[s].deleting
ReturnedDone ==
    [][GivenBack /\ Stored(objects).phase # "gone" =>
         Unfinished = {} /\ device.firmware = Stored(objects).spec]_vars

\* What the webhook refuses for as long as the maintenance lasts, which only
\* this change would let end: see the README.
Rejected(o) ==
    /\ UnderActiveMaintenance(o)
    /\ \/ o.state = "Pending" /\ o.retry
       \/ o.phase = "deleting" /\ o.state # "InProgress"

\* What a FirmwareUpdate may be at in the end: done, with the Server given
\* back; out of attempts; of a vendor it cannot update; rejected; or gone for
\* good.
Settled(o) ==
    \/ o.phase = "gone" /\ NoMaintenance /\ NoneParked
    \/ /\ o.phase = "live" /\ o.state = "Completed" /\ device.firmware = o.spec
       /\ NoMaintenance /\ NoneParked
    \/ o.phase = "live" /\ o.state = "Failed" /\ o.attempts >= MaxAttempts /\ ~o.retry
    \/ o.phase = "live" /\ device.vendor \in {"HPE", "other"}
    \/ Rejected(o)

\* Every update comes to an end, through jobs and calls that fail, passes
\* that leave something for the next, a Server that goes off and retries.
UpdateEnds == <>[]Settled(Stored(objects))

\* docs/concepts/firmwareupdate.md: "On deletion, the controller removes its
\* finalizer once the update is no longer InProgress".
DeletionEnds ==
    Stored(objects).phase = "deleting" /\ Stored(objects).state # "InProgress"
      ~> Stored(objects).phase = "gone" \/ Stored(objects).state = "InProgress"

\* A manual retry goes on, or is dropped with the power cycle.
RetryGoesOn == Stored(objects).retry ~> ~Stored(objects).retry

\* docs/concepts/firmwareupdate.md: ttlSecondsAfterFinished "deletes the
\* FirmwareUpdate that many seconds after it reaches Completed".
TTLDeletes == Stored(objects).state = "Completed" ~> Stored(objects).state # "Completed"
                                                     \/ Stored(objects).phase = "gone"
=============================================================================
