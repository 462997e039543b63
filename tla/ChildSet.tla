------------------------------ MODULE ChildSet ------------------------------
(***************************************************************************)
(* The controllers that keep one child for each Server, or each BMC, that  *)
(* a selector selects: BIOSVersionSet, BIOSSettingsSet, BMCVersionSet,     *)
(* BMCSettingsSet and FirmwareUpdateSet.  The first four spell out what    *)
(* childset.go does for the last; kind says in what they differ.           *)
(*                                                                         *)
(* A reconcile goes through the phases of Advance.  A phase calls the API  *)
(* for one child after the other, each call a step that decides on what is *)
(* cached then; the errors are collected and end the reconcile after the   *)
(* phase.  sets, children, windows and labels are watch streams: the last  *)
(* element is stored, the first one cached.                                *)
(*                                                                         *)
(* A child is what BIOSVersion, BIOSSettings, BMCVersion, BMCSettings and  *)
(* FirmwareUpdate show of theirs: its controller reads the same cache.     *)
(***************************************************************************)
EXTENDS Naturals, Sequences, FiniteSets

CONSTANTS
    None, Idle,
    Targets,        \* what may be selected
    Relabelled,     \* those whose labels may change
    Templates,      \* what a child may be asked for
    First,          \* the template the set starts with
    Kinds,          \* the kinds of set
    TTL,            \* is ttlSecondsAfterFinished set
    User,           \* what users do
    Annotations,    \* the operations a set may start with
    Races,          \* may a FirmwareUpdate fail, which keeps its maintenance
                    \* (failedUpdate)
    MaxLag,         \* bound: versions the cache may trail by, of all kinds together
    MaxFaults,      \* bound: failed calls and children, further passes, crashes
    MaxRequests     \* bound: what users do in all

SetKinds == {"BIOSVersionSet", "BIOSSettingsSet", "BMCVersionSet", "BMCSettingsSet",
             "FirmwareUpdateSet"}

Operations == {"", "ignore-child", "ignore-all", "retry-child"}

ASSUME ChildSetAssumption ==
    /\ IsFiniteSet(Targets) /\ Relabelled \subseteq Targets
    /\ First \in Templates
    /\ Kinds \subseteq SetKinds /\ Kinds # {}
    /\ TTL \in BOOLEAN
    /\ User \subseteq {"label", "template", "annotate", "delete"}
    /\ Annotations \subseteq Operations
    /\ Races \subseteq {"failedUpdate"}
    /\ MaxLag \in Nat \ {0} /\ {MaxFaults, MaxRequests} \subseteq Nat

VARIABLES
    kind,           \* what the set is a set of
    sets,           \* watch stream of the set
    children,       \* watch stream of the children, by target
    windows,        \* watch stream: the targets with an active maintenance
    labels,         \* watch stream: the targets the selector selects
    queued,         \* is a request waiting for the controller's worker, or one due
                    \* after the resync interval or the TTL
    job,            \* the reconcile in progress
    faults,         \* failures so far
    requests        \* what users did so far

vars == <<kind, sets, children, windows, labels, queued, job, faults, requests>>

ChildStates == {"Pending", "InProgress", "Completed", "Failed"}

\* did: the spec it is Completed for.  refs: does it refer to a maintenance.  task:
\* has its work on the machine begun (UpgradeTask of a BMCVersion).  checked: the
\* repository check has found nothing more to install.  retried: the condition
\* RetryOfFailedResourceIssued, due to the propagated annotation.
Child == [spec : Templates, did : Templates \cup {None}, state : ChildStates,
          op : {"", "ignore", "retry"}, retried : BOOLEAN, refs : BOOLEAN,
          task : BOOLEAN, checked : BOOLEAN, deleting : BOOLEAN]

ASSUME NoneAssumption == None \notin Child

Status == [labeled : Nat, available : Nat, running : Nat, completed : Nat, failed : Nat]

Set == [template : Templates, op : Operations, finalizer : BOOLEAN, deleting : BOOLEAN,
        status : Status]

Phases == {"ignore", "create", "orphans", "template", "retry"}

Job == [phase : Phases, set : Set, left : SUBSET Targets, labeled : SUBSET Targets,
        owned : [Targets -> Child \cup {None}], failed : BOOLEAN, pending : BOOLEAN] \cup {Idle}

TypeOK ==
    /\ kind \in SetKinds
    /\ sets \in Seq(Set \cup {None}) /\ Len(sets) \in 1..(MaxLag + 1)
    /\ children \in Seq([Targets -> Child \cup {None}]) /\ Len(children) \in 1..(MaxLag + 1)
    /\ windows \in Seq(SUBSET Targets) /\ Len(windows) \in 1..(MaxLag + 1)
    /\ labels \in Seq(SUBSET Targets) /\ Len(labels) \in 1..(MaxLag + 1)
    /\ queued \in BOOLEAN
    /\ job \in Job
    /\ faults \in 0..MaxFaults /\ requests \in 0..MaxRequests

Stored(stream) == stream[Len(stream)]
Cached(stream) == stream[1]
Write(stream, new) == IF new = Stored(stream) THEN stream ELSE Append(stream, new)
Trailing == Len(sets) + Len(children) + Len(windows) + Len(labels) - 4
Writable(stream, new) == new = Stored(stream) \/ Trailing < MaxLag

WriteChild(t, new) ==
    LET result == [Stored(children) EXCEPT ![t] = new]
    IN  Writable(children, result) /\ children' = Write(children, result)
WriteSet(new) == Writable(sets, new) /\ sets' = Write(sets, new)
WriteWindows(new) == Writable(windows, new) /\ windows' = Write(windows, new)

NewSet == [template |-> First, op |-> "", finalizer |-> FALSE, deleting |-> FALSE,
           status |-> [labeled |-> 0, available |-> 0, running |-> 0, completed |-> 0,
                       failed |-> 0]]

Init ==
    /\ kind \in Kinds
    /\ \E op \in Annotations : sets = <<[NewSet EXCEPT !.op = op]>>
    /\ children = <<[t \in Targets |-> None]>>
    /\ windows = <<{}>>
    /\ labels = <<Targets>>
    /\ queued = TRUE
    /\ job = Idle
    /\ faults = 0
    /\ requests = 0

-----------------------------------------------------------------------------
(* What the set's controller reads *)

OwnedIn(snapshot) == {t \in Targets : snapshot[t] # None}
SeenChildren == OwnedIn(Cached(children))
In(snapshot, state) == {t \in OwnedIn(snapshot) : snapshot[t].state = state}

IsMaintenanceActive(snapshot, t) == snapshot[t].refs /\ t \in Cached(windows)

ShouldIgnore(set) == set.op = "ignore-all"
AsksIgnore(set) == set.op \in {"ignore-child", "ignore-all"}
AsksRetry(set) == set.op = "retry-child"

\* The webhook of the child, which reads the API server.  A FirmwareUpdate refuses
\* any change of its spec or metadata under an active maintenance, the others a
\* change of the spec InProgress.
Refused(t, old, new) ==
    /\ old.refs /\ t \in Stored(windows)
    /\ IF kind = "FirmwareUpdateSet" THEN <<new.spec, new.op>> # <<old.spec, old.op>>
       ELSE old.state = "InProgress" /\ new.spec # old.spec
DeletionRefused(t, old) ==
    /\ old.refs /\ t \in Stored(windows)
    /\ kind = "FirmwareUpdateSet" \/ old.state = "InProgress"

\* getOwned...SetStatus
Aggregate(snapshot, labeled) ==
    [labeled |-> labeled,
     available |-> Cardinality(OwnedIn(snapshot)),
     running |-> Cardinality(In(snapshot, "InProgress")),
     completed |-> Cardinality(In(snapshot, "Completed")),
     failed |-> Cardinality(In(snapshot, "Failed"))]

-----------------------------------------------------------------------------
(* The calls for one child.  Wants says what the child is to become by     *)
(* what is cached; it is the child itself if no call is made.              *)

\* HandleIgnoreAnnotationPropagation
IgnoreWanted(j, seen) ==
    IF seen.deleting THEN seen
    ELSE IF AsksIgnore(j.set) /\ seen.op = "" THEN [seen EXCEPT !.op = "ignore"]
    ELSE IF ~AsksIgnore(j.set) /\ seen.op = "ignore" THEN [seen EXCEPT !.op = ""]
    ELSE seen

\* Mutants of RetryWanted: the parent's annotation is copied as it is; a child is
\* asked again although it has retried.
RetryWantedCopied(j, seen) ==
    IF AsksRetry(j.set) /\ seen.op = "" /\ ~seen.retried THEN [seen EXCEPT !.op = j.set.op]
    ELSE seen
RetryWantedAgain(j, seen) ==
    IF AsksRetry(j.set) /\ ~seen.deleting /\ seen.op = "" THEN [seen EXCEPT !.op = "retry"]
    ELSE seen

\* HandleRetryAnnotationPropagation
RetryWanted(j, seen) ==
    IF seen.deleting THEN seen
    ELSE IF ~AsksRetry(j.set) /\ seen.op = "retry" THEN [seen EXCEPT !.op = ""]
    ELSE IF AsksRetry(j.set) /\ seen.op = "" /\ ~seen.retried THEN [seen EXCEPT !.op = "retry"]
    ELSE seen

\* Is the child left as it is, while it works on what it was asked for
IsInProgress(child) ==
    child.state = "InProgress" /\ (kind = "BMCVersionSet" => child.task)

Wants(j, t) ==
    LET seen == Cached(children)[t]
    IN  CASE j.phase = "ignore" -> IgnoreWanted(j, seen)
          [] j.phase = "retry" -> RetryWanted(j, seen)
          [] OTHER -> [seen EXCEPT !.spec = j.set.template]

\* A child that works under an active maintenance is not deleted.
Keeps(j, t) == j.owned[t].state = "InProgress" /\ IsMaintenanceActive(j.owned, t)

Skips(j, t) ==
    \/ j.phase = "ignore" /\ j.owned[t].deleting
    \/ j.phase = "orphans" /\ Keeps(j, t)
    \/ j.phase = "template" /\ IsInProgress(j.owned[t])

\* CreateOrPatch fails for a child that was listed and is no longer cached.
Needed(j, t) ==
    /\ ~Skips(j, t)
    /\ j.phase = "orphans" \/ t \notin SeenChildren \/ (t \in SeenChildren /\ Wants(j, t) # Cached(children)[t])

NewChild == [spec |-> job.set.template, did |-> None, state |-> "Pending", op |-> "",
             retried |-> FALSE, refs |-> FALSE, task |-> FALSE, checked |-> FALSE, deleting |-> FALSE]

Failing(t) == job' = [job EXCEPT !.left = @ \ {t}, !.failed = TRUE]

\* ChildManager goes on with what the calls left of the children it listed, the
\* other kinds with what they listed.
Passing(t, child) ==
    job' = [job EXCEPT !.left = @ \ {t},
                       !.owned = IF kind = "FirmwareUpdateSet" /\ job.phase \in {"orphans", "template"}
                                 THEN [@ EXCEPT ![t] = child] ELSE @]

\* A merge patch changes the fields that differ from what was read.
PatchChild(t) ==
    LET seen == Cached(children)[t]
        old == Stored(children)[t]
        new == [old EXCEPT !.spec = IF Wants(job, t).spec = seen.spec THEN @ ELSE Wants(job, t).spec,
                           !.op = IF Wants(job, t).op = seen.op THEN @ ELSE Wants(job, t).op]
    IN  /\ job.phase # "orphans" /\ seen # None
        /\ IF old = None \/ Refused(t, old, new) THEN Failing(t) /\ UNCHANGED children
           ELSE WriteChild(t, new)
                /\ Passing(t, new)

CreateChild(t) ==
    /\ job.phase # "orphans" /\ Cached(children)[t] = None
    /\ IF job.phase = "create" /\ Stored(children)[t] = None
       THEN WriteChild(t, NewChild) /\ Passing(t, NewChild)
       ELSE Failing(t) /\ UNCHANGED children

DeleteChild(t) ==
    LET old == Stored(children)[t]
    IN  /\ job.phase = "orphans"
        /\ IF old = None \/ DeletionRefused(t, old) THEN Failing(t) /\ UNCHANGED children
           ELSE WriteChild(t, [old EXCEPT !.deleting = TRUE]) /\ Passing(t, None)

CallForChild(t) ==
    /\ job # Idle /\ t \in job.left /\ Needed(job, t)
    /\ PatchChild(t) \/ CreateChild(t) \/ DeleteChild(t)
    /\ UNCHANGED <<kind, sets, windows, labels, queued, faults, requests>>

CallFails(t) ==
    /\ job # Idle /\ t \in job.left /\ Needed(job, t) /\ faults < MaxFaults
    /\ Failing(t)
    /\ faults' = faults + 1
    /\ UNCHANGED <<kind, sets, children, windows, labels, queued, requests>>

-----------------------------------------------------------------------------
(* The reconcile: what lies between two calls of the API is one step       *)

End == job' = Idle
Requeue == job' = Idle /\ queued' = TRUE

\* A phase with no call to make is passed over.
HasWork(j) == \E t \in j.left : Needed(j, t)
Enter(j) == job' = j /\ UNCHANGED sets

PatchSet(new) == IF Stored(sets) = None THEN UNCHANGED sets ELSE WriteSet(new)
SetFinalizer(on) == PatchSet([Stored(sets) EXCEPT !.finalizer = on])

\* patchStatus, updateStatus: the deletion's status leaves the labels out.
PatchStatus(j) ==
    IF Stored(sets) = None THEN UNCHANGED sets /\ End
    ELSE /\ WriteSet([Stored(sets) EXCEPT !.status = Aggregate(j.owned, Cardinality(j.labeled))])
         /\ job' = [j EXCEPT !.phase = "retry", !.left = SeenChildren]

\* Mutant of DeletableIn: a failed version is waited for.
DeletableCompleted(snapshot) ==
    IF kind \in {"BIOSVersionSet", "BMCVersionSet"} THEN In(snapshot, "Completed")
    ELSE {t \in OwnedIn(snapshot) : ~IsMaintenanceActive(snapshot, t)}

\* DeletableCount for a FirmwareUpdate, and what the others count: a version is
\* waited for until it is Completed or Failed.
DeletableIn(snapshot) ==
    IF kind \in {"BIOSVersionSet", "BMCVersionSet"}
    THEN In(snapshot, "Completed") \cup In(snapshot, "Failed")
    ELSE {t \in OwnedIn(snapshot) :
            ~(/\ IsMaintenanceActive(snapshot, t)
              /\ kind = "FirmwareUpdateSet" => snapshot[t].state = "InProgress")}

DeleteSet(j) ==
    IF /\ DeletableIn(j.owned) = OwnedIn(j.owned)
       /\ Cardinality(OwnedIn(j.owned)) = j.set.status.available
    THEN SetFinalizer(FALSE) /\ End
    ELSE PatchStatus(j)

\* A phase is entered with what it reads (\E binds the one value of j it gets,
\* evaluated once); a phase that finds nothing to do goes on to the next.
PatchTemplates(j) ==
    \E patching \in {[j EXCEPT !.phase = "template", !.left = OwnedIn(j.owned),
                         !.pending = \E t \in OwnedIn(j.owned) : IsInProgress(j.owned[t])]} :
        IF HasWork(patching) THEN Enter(patching) ELSE PatchStatus(patching)

DeleteOrphans(j) ==
    \E deleting \in {[j EXCEPT !.phase = "orphans", !.left = OwnedIn(j.owned) \ j.labeled]} :
        IF HasWork(deleting) THEN Enter(deleting) ELSE PatchTemplates(deleting)

EnsureForTargets(j) ==
    \E creating \in {[j EXCEPT !.phase = "create", !.left = j.labeled \ OwnedIn(j.owned)]} :
        IF HasWork(creating) THEN Enter(creating) ELSE DeleteOrphans(creating)

Reconcile(j) ==
    \E listed \in {[j EXCEPT !.owned = Cached(children), !.labeled = Cached(labels)]} :
        CASE j.set.deleting -> DeleteSet(listed)
          [] ~j.set.deleting /\ ShouldIgnore(j.set) -> End /\ UNCHANGED sets
          [] ~j.set.deleting /\ ~ShouldIgnore(j.set) /\ ~j.set.finalizer ->
                SetFinalizer(TRUE) /\ End
          [] OTHER -> EnsureForTargets(listed)

\* Mutant of TTLMayBeOver: Completed is taken for done.
TTLMayBeOverUnchecked ==
    /\ TTL /\ kind = "FirmwareUpdateSet"
    /\ job.labeled # {} /\ In(job.owned, "Completed") = job.labeled

\* handleTTL: the Dell children must have found nothing more to install.
TTLMayBeOver ==
    /\ TTL /\ kind = "FirmwareUpdateSet"
    /\ job.labeled # {} /\ In(job.owned, "Completed") = job.labeled
    /\ \A t \in OwnedIn(job.owned) : job.owned[t].checked

\* Does the reconcile end with a request for a later one
Unsettled == Cardinality(job.labeled) # Cardinality(OwnedIn(job.owned)) \/ job.pending

Finish ==
    CASE job.set.deleting -> End /\ UNCHANGED <<sets, queued>>
      [] ~job.set.deleting /\ Unsettled -> Requeue /\ UNCHANGED sets
      [] ~job.set.deleting /\ ~Unsettled /\ TTLMayBeOver ->
            \/ PatchSet([Stored(sets) EXCEPT !.deleting = TRUE]) /\ End /\ UNCHANGED queued
            \/ Requeue /\ UNCHANGED sets
      [] OTHER -> End /\ UNCHANGED <<sets, queued>>

Begin ==
    LET set == Cached(sets)
    IN \E new \in {[phase |-> "ignore", set |-> set, labeled |-> {}, owned |-> Cached(children),
                left |-> IF kind = "BMCSettingsSet" THEN {} ELSE SeenChildren,
                failed |-> FALSE, pending |-> FALSE]} :
        /\ job = Idle /\ queued
        /\ queued' = FALSE
        /\ IF set = None \/ (set.deleting /\ ~set.finalizer) THEN UNCHANGED <<job, sets>>
           ELSE IF HasWork(new) THEN Enter(new) ELSE Reconcile(new)
        /\ UNCHANGED <<kind, children, windows, labels, faults, requests>>

Advance ==
    /\ job # Idle /\ ~HasWork(job)
    /\ IF job.failed THEN Requeue /\ UNCHANGED sets
       ELSE CASE job.phase = "ignore" -> Reconcile(job) /\ UNCHANGED queued
              [] job.phase = "create" -> DeleteOrphans(job) /\ UNCHANGED queued
              [] job.phase = "orphans" -> PatchTemplates(job) /\ UNCHANGED queued
              [] job.phase = "template" -> PatchStatus(job) /\ UNCHANGED queued
              [] job.phase = "retry" -> Finish
    /\ UNCHANGED <<kind, children, windows, labels, faults, requests>>

\* A restart forgets the reconcile and reconciles everything.
Crash ==
    /\ faults < MaxFaults /\ job # Idle
    /\ job' = Idle /\ queued' = TRUE
    /\ faults' = faults + 1
    /\ UNCHANGED <<kind, sets, children, windows, labels, requests>>

-----------------------------------------------------------------------------
(* What wakes it *)

DeliverSet ==
    /\ Len(sets) > 1
    /\ sets' = Tail(sets) /\ queued' = TRUE
    /\ UNCHANGED <<kind, children, windows, labels, job, faults, requests>>

\* EnqueueFromChildObjUpdatesExceptAnnotation lets every update through: the two
\* objects it compares also differ in their resourceVersion.
DeliverChildren ==
    /\ Len(children) > 1
    /\ children' = Tail(children)
    /\ queued' = (queued \/ children[1] # children[2])
    /\ UNCHANGED <<kind, sets, windows, labels, job, faults, requests>>

DeliverWindows ==
    /\ Len(windows) > 1
    /\ windows' = Tail(windows)
    /\ UNCHANGED <<kind, sets, children, labels, queued, job, faults, requests>>

\* Mutant of DeliverLabels: only what is selected wakes the set.
DeliverLabelsSelected ==
    /\ Len(labels) > 1
    /\ labels' = Tail(labels)
    /\ queued' = (queued \/ labels[2] \ labels[1] # {})
    /\ UNCHANGED <<kind, sets, children, windows, job, faults, requests>>

\* enqueueByServer, enqueueByBMC
DeliverLabels ==
    LET changed == (labels[1] \ labels[2]) \cup (labels[2] \ labels[1])
    IN  /\ Len(labels) > 1
        /\ labels' = Tail(labels)
        /\ queued' = (queued \/ \E t \in changed : t \in labels[2] \cup SeenChildren)
        /\ UNCHANGED <<kind, sets, children, windows, job, faults, requests>>

-----------------------------------------------------------------------------
(* The children's controllers, their maintenances, and the garbage         *)
(* collector                                                               *)

Rest == <<kind, sets, labels, queued, job, requests>>

\* A child moves on what is cached of it, unless it is ignored.
Works(t, state) ==
    LET child == Stored(children)[t]
    IN  child # None /\ Cached(children)[t] = child /\ child.op # "ignore" /\ child.state = state
Becomes(t, new) == WriteChild(t, new) /\ UNCHANGED <<windows, faults>>
Under(t) == t \in Stored(windows)

ChildStarts(t) ==
    /\ Works(t, "Pending") /\ Stored(children)[t].op = ""
    /\ Becomes(t, [Stored(children)[t] EXCEPT !.state = "InProgress"])

\* InProgress it creates its maintenance and then writes the reference.  Nothing
\* here sees the maintenance before it is active, which it may be before the
\* child refers to it: its creation is part of what comes first.
MaintenanceGranted(t) ==
    /\ Works(t, "InProgress") /\ ~Under(t)
    /\ WriteWindows(Stored(windows) \cup {t})
    /\ UNCHANGED <<children, faults>>

ReferenceWritten(t) ==
    /\ Works(t, "InProgress") /\ ~Stored(children)[t].refs
    /\ Becomes(t, [Stored(children)[t] EXCEPT !.refs = TRUE])

\* Mutant of UpgradeIssued: a child begins before it refers to its maintenance.
UpgradeIssuedUnreferenced(t) ==
    /\ Works(t, "InProgress") /\ Under(t) /\ ~Stored(children)[t].task
    /\ Becomes(t, [Stored(children)[t] EXCEPT !.task = TRUE])

\* The first command to the machine, which the modules of the children show to
\* go out under the maintenance only.
UpgradeIssued(t) ==
    /\ Works(t, "InProgress") /\ Under(t)
    /\ Stored(children)[t].refs /\ ~Stored(children)[t].task
    /\ Becomes(t, [Stored(children)[t] EXCEPT !.task = TRUE])

ChildCompletes(t) ==
    LET child == Stored(children)[t]
    IN  /\ Works(t, "InProgress") /\ Under(t) /\ child.refs
        /\ kind = "BMCVersionSet" => child.task
        /\ Becomes(t, [child EXCEPT !.state = "Completed", !.did = child.spec, !.task = FALSE,
                                    !.checked = FALSE, !.retried = FALSE])

\* A failed child keeps its maintenance.
ChildFails(t) ==
    LET child == Stored(children)[t]
    IN  /\ Works(t, "InProgress") /\ Under(t) /\ child.refs
        /\ kind = "FirmwareUpdateSet" => "failedUpdate" \in Races
        /\ Becomes(t, [child EXCEPT !.state = "Failed", !.task = FALSE])

\* A FirmwareUpdate keeps its maintenance until nothing more is to be installed.
CheckConcludes(t) ==
    /\ kind = "FirmwareUpdateSet" /\ Works(t, "Completed") /\ ~Stored(children)[t].checked
    /\ Becomes(t, [Stored(children)[t] EXCEPT !.checked = TRUE])

MaintenanceEnds(t) ==
    /\ Works(t, "Completed") /\ Under(t)
    /\ kind = "FirmwareUpdateSet" => Stored(children)[t].checked
    /\ WriteWindows(Stored(windows) \ {t})
    /\ UNCHANGED <<children, faults>>

\* The reference goes once the maintenance is seen to be gone.
ReferenceGoes(t) ==
    /\ Works(t, "Completed") /\ Stored(children)[t].refs
    /\ t \notin Stored(windows) \cup Cached(windows)
    /\ Becomes(t, [Stored(children)[t] EXCEPT !.refs = FALSE])

FurtherPass(t) ==
    /\ kind = "FirmwareUpdateSet" /\ Works(t, "Completed") /\ ~Stored(children)[t].checked
    /\ faults < MaxFaults
    /\ WriteChild(t, [Stored(children)[t] EXCEPT !.state = "InProgress"])
    /\ faults' = faults + 1
    /\ UNCHANGED windows

ChildNotices(t) ==
    LET child == Stored(children)[t]
    IN  /\ Works(t, "Completed") /\ child.did # child.spec /\ ~child.refs
        /\ Becomes(t, [child EXCEPT !.state = "Pending", !.checked = FALSE])

ChildRetries(t) ==
    LET child == Stored(children)[t]
    IN  /\ Works(t, "Failed") /\ child.op = "retry"
        /\ Becomes(t, [child EXCEPT !.state = "Pending", !.retried = TRUE])

DropsAnnotation(t) ==
    LET child == Stored(children)[t]
        new == [child EXCEPT !.op = ""]
    IN  /\ Works(t, "Pending") /\ child.op = "retry"
        /\ ~Refused(t, child, new)
        /\ Becomes(t, new)

ChildGoes(t) ==
    LET child == Stored(children)[t]
    IN  /\ Works(t, child.state) /\ child.deleting
        /\ ~DeletionRefused(t, child)
        /\ WriteChild(t, None) /\ WriteWindows(Stored(windows) \ {t})
        /\ UNCHANGED faults

GarbageCollect(t) ==
    LET child == Stored(children)[t]
    IN  /\ Stored(sets) = None /\ child # None /\ ~child.deleting
        /\ ~DeletionRefused(t, child)
        /\ Becomes(t, [child EXCEPT !.deleting = TRUE])

ChildStep(t) ==
    /\ \/ ChildStarts(t) \/ MaintenanceGranted(t) \/ ReferenceWritten(t)
       \/ UpgradeIssued(t) \/ ChildCompletes(t) \/ ChildFails(t) \/ CheckConcludes(t) \/ MaintenanceEnds(t)
       \/ ReferenceGoes(t) \/ FurtherPass(t) \/ ChildNotices(t)
       \/ ChildRetries(t) \/ DropsAnnotation(t) \/ ChildGoes(t) \/ GarbageCollect(t)
    /\ UNCHANGED Rest

\* The API server removes a deleted set without finalizer.
SetGoes ==
    /\ Stored(sets) # None /\ Stored(sets).deleting /\ ~Stored(sets).finalizer
    /\ WriteSet(None)
    /\ UNCHANGED <<kind, children, windows, labels, queued, job, faults, requests>>

-----------------------------------------------------------------------------
(* The users *)

Asks(request) == request \in User /\ requests < MaxRequests /\ requests' = requests + 1

EditSet(request, new) ==
    /\ Asks(request) /\ Stored(sets) # None
    /\ WriteSet(new)
    /\ UNCHANGED <<kind, children, windows, labels, queued, job, faults>>

ChangeTemplate ==
    \E template \in Templates : EditSet("template", [Stored(sets) EXCEPT !.template = template])
Annotate ==
    \E op \in Operations : EditSet("annotate", [Stored(sets) EXCEPT !.op = op])
Delete == EditSet("delete", [Stored(sets) EXCEPT !.deleting = TRUE])

Relabel ==
    /\ Asks("label")
    /\ \E t \in Relabelled :
         LET new == IF t \in Stored(labels) THEN Stored(labels) \ {t} ELSE Stored(labels) \cup {t}
         IN  Writable(labels, new) /\ labels' = Write(labels, new)
    /\ UNCHANGED <<kind, sets, children, windows, queued, job, faults>>

Work == Advance \/ \E t \in Targets : CallForChild(t)

Next ==
    \/ Begin \/ Work \/ Crash
    \/ \E t \in Targets : CallFails(t) \/ ChildStep(t)
    \/ DeliverSet \/ DeliverChildren \/ DeliverWindows \/ DeliverLabels
    \/ SetGoes \/ ChangeTemplate \/ Annotate \/ Delete \/ Relabel

Spec == Init /\ [][Next]_vars

FairSpec ==
    /\ Spec
    /\ WF_vars(Begin) /\ WF_vars(Work)
    /\ WF_vars(DeliverSet) /\ WF_vars(DeliverChildren)
    /\ WF_vars(DeliverWindows) /\ WF_vars(DeliverLabels)
    /\ WF_vars(SetGoes)
    /\ \A t \in Targets : WF_vars(ChildStep(t)) /\ SF_vars(ChildStarts(t) /\ UNCHANGED Rest)

-----------------------------------------------------------------------------
(* Properties *)

\* From the first command to the machine until it is done, a child is neither
\* asked for something else nor deleted by the set, whatever the cache showed of
\* it when the controller decided: the set's checks, the child's webhook, which
\* sees an active maintenance only by the reference, and the order in which the
\* child asks for its maintenance, refers to it and begins, together.
ChildrenUndisturbed ==
    [][\A t \in Targets :
         LET old == Stored(children)[t]
             new == Stored(children')[t]
         IN  job # Idle /\ job' # job /\ old # None /\ old.task =>
               new # None /\ new.spec = old.spec /\ new.deleting = old.deleting]_vars

DoneAsAsked ==
    \A t \in OwnedIn(Stored(children)) :
      LET child == Stored(children)[t]
      IN  child.state = "Completed" /\ child.checked /\ child.did = job.set.template
TTLDeletes ==
    /\ Stored(sets) # None /\ Stored(sets') # None /\ job # Idle /\ job' # job
    /\ Stored(sets').deleting /\ ~Stored(sets).deleting

\* While the template has not changed, the TTL deletes the set, and with it the
\* children, only when none of them has anything more to install: it does not
\* come between two passes of an update.
DeletedWhenDone == [][TTLDeletes /\ job.set.template = First => DoneAsAsked]_vars

\* The same once it has changed: the TTL counts from what the children did before.
DeletedAsAsked == [][TTLDeletes => DoneAsAsked]_vars

\* One request of the set's user makes a child retry once: no child retries a
\* retry that failed.
RetriedOnce ==
    [][\A t \in Targets :
         LET old == Stored(children)[t]
             new == Stored(children')[t]
         IN  old # None /\ new # None /\ old.state = "Failed" /\ new.state = "Pending" =>
               ~old.retried]_vars

\* What the set's user asked for is what the children were asked for, and what
\* the set says of them is so.
RolledOut ==
    LET set == Stored(sets)
        now == Stored(children)
    IN  /\ OwnedIn(now) = Stored(labels)
        /\ \A t \in OwnedIn(now) :
             /\ now[t].spec = set.template /\ ~now[t].deleting
             /\ AsksRetry(set) /\ now[t].state = "Failed" => now[t].retried \/ now[t].op = "retry"
        /\ set.status = Aggregate(now, Cardinality(Stored(labels)))

\* Children that keep a set that is being deleted, or outlive it: told to ignore, or failed
\* with a maintenance that the settings controllers do not give back.
HeldBack ==
    \E t \in OwnedIn(Stored(children)) :
        LET child == Stored(children)[t]
        IN  \/ child.op = "ignore"
            \/ child.state = "Failed" /\ kind \in {"BIOSSettingsSet", "BMCSettingsSet"}

\* In the end every set is rolled out, or is gone with all its children, unless
\* it is told to ignore or has to wait for a child: no label, template, retry or
\* deletion is lost between the watches, the webhooks and failed calls.
Converges ==
    <>[](LET set == Stored(sets)
         IN  \/ set = None /\ (OwnedIn(Stored(children)) = {} \/ HeldBack)
             \/ set # None /\ AsksIgnore(set)
             \/ set # None /\ set.deleting /\ HeldBack
             \/ set # None /\ ~set.deleting /\ RolledOut)
=============================================================================
