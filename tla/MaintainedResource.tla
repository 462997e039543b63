------------------------- MODULE MaintainedResource -------------------------
(***************************************************************************)
(* What surrounds a resource that works on a BMC, or on a Server, under    *)
(* one maintenance for each Server it may disturb: the maintenances, the   *)
(* BMC's reset request, the conditions of the Servers, and the API calls   *)
(* by which its controller changes them.  It is to several Servers what    *)
(* ServerResource is to one; the hardware is left to the resource.         *)
(*                                                                         *)
(* A reconcile reads its inputs, decides on a sequence of effects and      *)
(* performs the first, in one step; then one step per further effect.      *)
(* job.do is what is left to perform, job.copy the object in memory.       *)
(*                                                                         *)
(* objects, maintenances and resets are watch streams: the last element is *)
(* stored, the first one cached.  A watch is ordered, so one stream holds  *)
(* the maintenances of all Servers.                                        *)
(*                                                                         *)
(* An object has the fields phase, finalizer, retry (the annotation), refs *)
(* (the Servers whose maintenance it refers to), state, attempts,          *)
(* current (what has observed the present generation: "status", or what    *)
(* else its resource knows), conds, spec (what a person wants), and those  *)
(* its resource adds.                                                      *)
(***************************************************************************)
EXTENDS PowerCycle, Naturals, FiniteSets

CONSTANTS
    None,
    Idle,           \* the controller between two reconciles
    Servers,        \* the Servers of the BMC
    Reference,      \* what refers to the maintenances: the "spec" or the "status"
    Gated,          \* does the spec have readiness gates
    User,           \* what users do
    Races,          \* may a reconcile start from an outdated object (staleObject)
                    \* or BMC (staleBMC), or before the cache holds a maintenance the
                    \* spec refers to (lateMaintenance); may a gate be lost before the
                    \* maintenances are granted (lostGate), the spec change before
                    \* those of the work done are gone (earlyChange), and the resource
                    \* be deleted before they are all granted (earlyDelete); and those of
                    \* FirmwareUpdate, lostRecord and slowJobs
    MaxLag,         \* bound: versions of a kind the cache may trail by
    MaxFaults,      \* bound: failed calls, crashes, failures of the hardware
    MaxAttempts,    \* spec.retryPolicy.maxAttempts
    MaxRequests     \* bound: what users and gates do in all

ASSUME MaintainedResourceAssumption ==
    /\ IsFiniteSet(Servers) /\ Servers # {}
    /\ Gated \in BOOLEAN
    /\ Reference \in {"spec", "status"}
    /\ Races \subseteq
         {"staleObject", "staleBMC", "lateMaintenance", "lostGate", "earlyChange", "earlyDelete",
          "lostRecord", "slowJobs"}
    /\ User \subseteq {"retry", "change", "delete", "drift"}
    /\ MaxLag \in Nat \ {0}
    /\ {MaxFaults, MaxAttempts, MaxRequests} \subseteq Nat

VARIABLES
    objects,        \* watch stream of the resource
    maintenances,   \* watch stream of its maintenances, by Server
    parked,         \* is the Server parked for its maintenance
    resets,         \* watch stream of the BMC's reset request
    completion,     \* the completion condition on each Server
    gate,           \* do the Servers' conditions satisfy the readiness gates
    device,         \* the hardware
    queued,         \* is a request waiting for the controller's worker
    job,            \* the reconcile in progress
    faults,         \* failures so far
    requests        \* what users and gates did so far

vars == <<objects, maintenances, parked, resets, completion, gate, device,
          queued, job, faults, requests>>

\* A maintenance that is new or Pending is waiting: either way it is granted
\* in the end, and a controller that finds one has nothing to do with it.
Maintenance == [state : {"waiting", "InMaintenance"}, deleting : BOOLEAN] \cup {None}
CompletionStatus == {"absent", "False", "Unknown", "True"}

ASSUME AbsenceAssumption ==
    None \notin [state : {"waiting", "InMaintenance"}, deleting : BOOLEAN]

Stored(stream) == stream[Len(stream)]
Cached(stream) == stream[1]
Write(stream, new) ==
    IF new = Stored(stream) THEN stream ELSE Append(stream, new)
Writable(stream, new) == new = Stored(stream) \/ Len(stream) =< MaxLag

EnvironmentOK ==
    /\ maintenances \in Seq([Servers -> Maintenance]) /\ Len(maintenances) > 0
    /\ parked \in [Servers -> BOOLEAN]
    /\ resets \in Seq(BOOLEAN) /\ Len(resets) > 0
    /\ completion \in [Servers -> CompletionStatus]
    /\ {gate, queued} \subseteq BOOLEAN
    /\ {faults, requests} \subseteq Nat

EnvironmentInit ==
    /\ maintenances = <<[s \in Servers |-> None]>>
    /\ parked = [s \in Servers |-> FALSE]
    /\ resets = <<FALSE>>
    /\ completion = [s \in Servers |-> "absent"]
    /\ gate \in BOOLEAN
    /\ queued = TRUE
    /\ job = Idle
    /\ faults = 0
    /\ requests = 0

\* What a BMC reset, and what the hardware does by itself, leave alone.
AllButDevice == <<objects, maintenances, parked, completion, gate, queued, job, requests>>

AllParked == \A s \in Servers : parked[s]
NoneParked == \A s \in Servers : ~parked[s]
NoMaintenance == \A s \in Servers : Stored(maintenances)[s] = None

-----------------------------------------------------------------------------
(* What a controller asks of the cache *)

Present(s) == Cached(maintenances)[s] # None
InMaintenance(s) == Present(s) /\ Cached(maintenances)[s].state = "InMaintenance"
Deletable(s) == Present(s) /\ ~Cached(maintenances)[s].deleting

\* IsAnyServerMaintenanceActive, on the maintenances an object refers to.
IsAnyMaintenanceActive(refs) == \E s \in refs : InMaintenance(s) /\ Deletable(s)

\* The webhooks read what is stored.  No deletion and no change of the spec
\* while the resource is InProgress under an active maintenance; if its status
\* refers to the maintenances, no change of the metadata either, whatever its
\* state.
UnderActiveMaintenance(o) ==
    /\ Reference = "spec" => o.state = "InProgress"
    /\ \E s \in o.refs : Stored(maintenances)[s] = [state |-> "InMaintenance", deleting |-> FALSE]

Guarded(o) == IF Reference = "spec" THEN <<o.spec, o.refs>> ELSE <<o.spec, o.retry, o.finalizer>>
Admitted(old, new) == Guarded(new) # Guarded(old) => ~UnderActiveMaintenance(old)

GatesSatisfied == gate \/ ~Gated

-----------------------------------------------------------------------------
(* The ServerMaintenance controller, as ServerMaintenance shows it: it     *)
(* parks a Server before it grants, and unparks it before a deleted        *)
(* maintenance goes.  The grant may take the owner's approval and the turn *)
(* of every other maintenance; it comes in the end.                        *)

WriteMaintenance(s, new) ==
    LET result == [Stored(maintenances) EXCEPT ![s] = new]
    IN  /\ Writable(maintenances, result)
        /\ maintenances' = Write(maintenances, result)

MaintenanceGranted(s) ==
    /\ Stored(maintenances)[s] = [state |-> "waiting", deleting |-> FALSE]
    /\ parked' = [parked EXCEPT ![s] = TRUE]
    /\ WriteMaintenance(s, [state |-> "InMaintenance", deleting |-> FALSE])
    /\ UNCHANGED <<objects, resets, completion, gate, device, job, faults, requests>>

Unpark(s) ==
    /\ Stored(maintenances)[s] # None
    /\ Stored(maintenances)[s].deleting
    /\ parked[s]
    /\ parked' = [parked EXCEPT ![s] = FALSE]
    /\ UNCHANGED <<objects, maintenances, resets, completion, gate, device, job, faults, requests>>

MaintenanceGone(s) ==
    /\ Stored(maintenances)[s] # None
    /\ Stored(maintenances)[s].deleting
    /\ ~parked[s]
    /\ WriteMaintenance(s, None)
    /\ UNCHANGED <<objects, parked, resets, completion, gate, device, queued, job, faults, requests>>

\* The garbage collector deletes the maintenances of an owner that is gone.
GarbageCollect(s) ==
    /\ Stored(objects).phase = "gone"
    /\ Stored(maintenances)[s] # None
    /\ ~Stored(maintenances)[s].deleting
    /\ WriteMaintenance(s, [Stored(maintenances)[s] EXCEPT !.deleting = TRUE])
    /\ UNCHANGED <<objects, parked, resets, completion, gate, device, queued, job, faults, requests>>

\* metal-operator resets the BMC it is asked to reset, with this effect.
BMCReset(effect) ==
    /\ Stored(resets)
    /\ Writable(resets, FALSE)
    /\ resets' = Write(resets, FALSE)
    /\ device' = effect
    /\ UNCHANGED <<AllButDevice, faults>>

-----------------------------------------------------------------------------
(* Effects of a reconcile *)

ObjectCalls == {"status", "flow", "patch"}
Patch(fields) == [op |-> "patch", fields |-> fields]
Refs(servers) == Patch([refs |-> servers])
OnServer(op, s) == [op |-> op, server |-> s]
PatchCompletion(s, status) == [op |-> "completion", server |-> s, status |-> status]

\* The Servers in the order the BMC lists them in, and one effect on each.
ServerOrder == CHOOSE order \in [1..Cardinality(Servers) -> Servers] :
                   \A i, j \in DOMAIN order : i # j => order[i] # order[j]
ForServers(servers, Effect(_)) ==
    LET listed == SelectSeq(ServerOrder, LAMBDA s : s \in servers)
    IN  [i \in DOMAIN listed |-> Effect(listed[i])]

CompleteAll(servers, status) ==
    ForServers(servers, LAMBDA s : PatchCompletion(s, status))

\* A plan is the effects of a reconcile, and whether the request comes back
\* by itself (RequeueAfter, or an error).
Plan(do, again) == [do |-> do, again |-> again]
Rest == Plan(<<>>, FALSE)
Poll == Plan(<<>>, TRUE)
Before(do, plan) == [plan EXCEPT !.do = do \o @]

\* A merge patch from base to new, applied to what is stored.  A change of
\* the spec raises the generation; an observed generation is the one of the
\* spec in memory.
Merged(base, new, stored) ==
    LET changed == [f \in DOMAIN stored |-> IF new[f] = base[f] THEN stored[f] ELSE new[f]]
        specOf(o) == IF Reference = "spec" THEN <<o.spec, o.refs>> ELSE <<o.spec>>
    IN  [changed EXCEPT
           !.current = IF \/ specOf(changed) # specOf(stored)
                          \/ new.current # base.current /\ specOf(stored) # specOf(base)
                       THEN {} ELSE @,
           !.phase = IF stored.phase = "deleting" /\ ~changed.finalizer THEN "gone" ELSE @]

\* A reconcile has done the first of the effects `do`; copy is the object in
\* its memory, and `again` whether it ends with a request of its own.
Proceed(do, again, copy) ==
    job' = IF Len(do) = 1 THEN Idle
           ELSE [do |-> Tail(do), again |-> again, copy |-> copy]

\* The worker takes a request.
CanStart ==
    /\ job = Idle
    /\ queued
    /\ Len(objects) = 1 \/ "staleObject" \in Races
    /\ Len(resets) = 1 \/ "staleBMC" \in Races
    /\ \/ \A s \in Cached(objects).refs : Stored(maintenances)[s] # None => Present(s)
       \/ "lateMaintenance" \in Races

\* Starting a reconcile takes the request from the queue.
Requests(do, again) == (job # Idle /\ queued) \/ (Len(do) = 1 /\ again)

\* The patch that turns the copy into `new`.
PatchObject(do, again, copy, new) ==
    /\ Stored(objects).phase # "gone"
    /\ LET result == Merged(copy, new, Stored(objects))
       IN  /\ Admitted(Stored(objects), result)
           /\ Writable(objects, result)
           /\ objects' = Write(objects, result)
           /\ Proceed(do, again, result)
    /\ queued' = Requests(do, again)
    /\ UNCHANGED <<maintenances, parked, resets, completion, gate, device, faults, requests>>

\* PatchServerCondition and RemoveServerCondition; `wakes` is whether the
\* event of the Server wakes the controller.
PatchServer(do, again, copy, wakes) ==
    LET e == Head(do)
    IN  /\ e.op = "completion"
        /\ completion' = [completion EXCEPT ![e.server] = e.status]
        /\ queued' = (Requests(do, again) \/ (completion' # completion /\ wakes))
        /\ Proceed(do, again, copy)
        /\ UNCHANGED <<objects, maintenances, parked, resets, gate, device, faults, requests>>

\* IssueBMCReset: a request the cached BMC carries is not repeated.
RequestReset(do, again, copy) ==
    /\ Head(do).op = "resetBMC"
    /\ LET result == Cached(resets) => Stored(resets)
       IN  Writable(resets, result) /\ resets' = Write(resets, result)
    /\ queued' = Requests(do, again)
    /\ Proceed(do, again, copy)
    /\ UNCHANGED <<objects, maintenances, parked, completion, gate, device, faults, requests>>

\* Create and delete; one that is gone already is no error.
ChangeMaintenance(do, again, copy) ==
    LET e == Head(do)
        stored == Stored(maintenances)[e.server]
    IN  /\ \/ /\ e.op = "createMaintenance"
              /\ stored = None
              /\ WriteMaintenance(e.server, [state |-> "waiting", deleting |-> FALSE])
           \/ /\ e.op = "deleteMaintenance"
              /\ WriteMaintenance(e.server,
                   IF stored = None THEN None ELSE [stored EXCEPT !.deleting = TRUE])
        /\ queued' = Requests(do, again)
        /\ Proceed(do, again, copy)
        /\ UNCHANGED <<objects, parked, resets, completion, gate, device, faults, requests>>

\* The calls of one kind that come next; they follow one another.
Following(do, op) ==
    {SubSeq(do, 1, n) : n \in {m \in 0..Len(do) :
                                 /\ \A i \in 1..m : do[i].op = op
                                 /\ m < Len(do) => do[m + 1].op # op}}

\* A call the API server refuses: an object that is gone, a maintenance that
\* is there already, a change the webhook rejects.  Creations go on after an
\* error, without what follows them; any other error ends the reconcile.
Refused(do, copy, new) ==
    LET e == Head(do)
    IN  /\ CASE e.op \in ObjectCalls ->
                  \/ Stored(objects).phase = "gone"
                  \/ ~Admitted(Stored(objects), Merged(copy, new, Stored(objects)))
             [] e.op = "createMaintenance" -> Stored(maintenances)[e.server] # None
             [] OTHER -> FALSE
        /\ \E creations \in Following(Tail(do), "createMaintenance") :
              IF e.op = "createMaintenance" /\ creations # <<>>
              THEN /\ job' = [do |-> creations, again |-> TRUE, copy |-> copy]
                   /\ queued' = Requests(creations, TRUE)
              ELSE job' = Idle /\ queued' = TRUE
        /\ UNCHANGED <<objects, maintenances, parked, resets, completion, gate, device,
                       faults, requests>>

\* What every resource of this kind does; wakes as in PatchServer.
PerformCall(do, again, copy, new, wakes) ==
    \/ Head(do).op \in ObjectCalls /\ PatchObject(do, again, copy, new)
    \/ PatchServer(do, again, copy, wakes)
    \/ RequestReset(do, again, copy)
    \/ ChangeMaintenance(do, again, copy)
    \/ Refused(do, copy, new)

\* A later call fails, or the operator crashes and starts again.  Deletions
\* go on after a failed one, without what follows them.
Fail ==
    /\ job # Idle
    /\ faults < MaxFaults
    /\ faults' = faults + 1
    /\ \/ job' = Idle /\ queued' = TRUE
       \/ /\ Head(job.do).op = "deleteMaintenance"
          /\ \E rest \in Following(Tail(job.do), "deleteMaintenance") :
                rest # <<>> /\ job' = [job EXCEPT !.do = rest, !.again = TRUE]
          /\ UNCHANGED queued
    /\ UNCHANGED <<objects, maintenances, parked, resets, completion, gate, device, requests>>

-----------------------------------------------------------------------------
(* Deliveries and users *)

DeliverObject ==
    /\ Len(objects) > 1
    /\ objects' = Tail(objects)
    /\ queued' = TRUE
    /\ UNCHANGED <<maintenances, parked, resets, completion, gate, device, job, faults, requests>>

DeliverMaintenance ==
    /\ Len(maintenances) > 1
    /\ maintenances' = Tail(maintenances)
    /\ queued' = TRUE
    /\ UNCHANGED <<objects, parked, resets, completion, gate, device, job, faults, requests>>

DeliverReset(wakes) ==
    /\ Len(resets) > 1
    /\ resets' = Tail(resets)
    /\ queued' = (queued \/ wakes)
    /\ UNCHANGED <<objects, maintenances, parked, completion, gate, device, job, faults, requests>>

Asked ==
    /\ requests < MaxRequests
    /\ requests' = requests + 1
    /\ UNCHANGED <<maintenances, parked, resets, completion, device, job, faults>>

WriteObject(new) ==
    /\ Writable(objects, new)
    /\ objects' = Write(objects, new)

RetryManually ==
    /\ "retry" \in User
    /\ Stored(objects).phase = "live"
    /\ Stored(objects).state = "Failed"
    /\ ~Stored(objects).retry
    /\ LET new == [Stored(objects) EXCEPT !.retry = TRUE]
       IN  Admitted(Stored(objects), new) /\ WriteObject(new)
    /\ Asked
    /\ UNCHANGED <<gate, queued>>

Returning == \E i \in DOMAIN maintenances, s \in Servers :
                 maintenances[i][s] # None /\ maintenances[i][s].deleting

ChangeSpec(spec) ==
    LET o == Stored(objects)
    IN  /\ "change" \in User
        /\ o.phase = "live"
        /\ spec # o.spec
        /\ ~UnderActiveMaintenance(o)
        /\ \/ o.state \in {"", "InProgress", "Failed"} /\ ~Returning
           \/ maintenances = <<[s \in Servers |-> None]>>
           \/ "earlyChange" \in Races
        /\ WriteObject([o EXCEPT !.spec = spec, !.current = {}])
        /\ Asked
        /\ UNCHANGED <<gate, queued>>

AwaitsMaintenance(o) ==
    /\ o.state = "InProgress"
    /\ \/ job # Idle
       \/ Len(maintenances) > 1
       \/ \E s \in Servers : Present(s) /\ Cached(maintenances)[s].state = "waiting"

Delete ==
    LET o == Stored(objects)
    IN  /\ "delete" \in User
        /\ o.phase = "live"
        /\ ~UnderActiveMaintenance(o)
        /\ AwaitsMaintenance(o) => "earlyDelete" \in Races
        /\ WriteObject([o EXCEPT !.phase = IF o.finalizer THEN "deleting" ELSE "gone"])
        /\ Asked
        /\ UNCHANGED <<gate, queued>>

\* An object that is InProgress, or about to be, may await its maintenances.
Advancing(o) == o.phase # "gone" /\ o.state \in {"", "Pending", "InProgress"}

GateChanges(wakes) ==
    /\ Gated
    /\ gate /\ Advancing(Stored(objects)) => "lostGate" \in Races
    /\ gate' = ~gate
    /\ queued' = (queued \/ wakes)
    /\ Asked
    /\ UNCHANGED objects

\* The steps of the environment; wakes is whether an event of a Server does.
MaintenanceSteps(wakes) ==
    \E s \in Servers :
       \/ (MaintenanceGranted(s) \/ Unpark(s)) /\ queued' = (queued \/ wakes)
       \/ MaintenanceGone(s) \/ GarbageCollect(s)
=============================================================================
