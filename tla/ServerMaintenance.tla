------------------------- MODULE ServerMaintenance -------------------------
(***************************************************************************)
(* The ServerMaintenance controller and one Server.                        *)
(*                                                                         *)
(* The maintenances of a Server compete for it through two annotations of  *)
(* the Server: the owner, written by this controller, and the operation    *)
(* (park or unpark), written by this controller and consumed by            *)
(* metal-operator, which alone moves the Server into and out of Parked.    *)
(*                                                                         *)
(* The API server holds the objects; the controller reads a cache that     *)
(* trails it.  Each of the three kinds has a watch stream of its own: a    *)
(* sequence whose last element is the stored object and whose first one is *)
(* the copy in the controller's cache.  A write appends, a delivery drops  *)
(* the head and enqueues the maintenances the controller's watches map the *)
(* event to.  A write that changes nothing makes no version and no event.  *)
(*                                                                         *)
(* The controller has one worker.  A reconcile is cut at its API writes:   *)
(* the part up to the first write, then one step per further write, and    *)
(* between them other processes run, the call may fail (the request is     *)
(* queued again) and the operator may crash.                               *)
(***************************************************************************)
EXTENDS MaintenanceOrder, Sequences, FiniteSets

CONSTANTS
    None,           \* no owner annotation
    Idle,           \* a controller between two reconciles
    NoClaim,        \* the ServerClaim does not exist
    MaxLag,         \* bound: versions of a kind the cache may trail by
    MaxFaults,      \* bound: failed API calls and crashes of the operator
    MaxClaims,      \* bound: ServerClaims created for the Server
    EarlyDelete,    \* may a maintenance be deleted before it was started?
    StaleDelete     \* may one be deleted before the cache shows that it owns the Server?

ASSUME BoundsAssumption ==
    /\ MaxLag \in Nat \ {0}
    /\ MaxFaults \in Nat
    /\ MaxClaims \in Nat
    /\ {EarlyDelete, StaleDelete} \subseteq BOOLEAN

VARIABLES
    servers,        \* watch stream of the Server
    maintenances,   \* watch stream of the ServerMaintenances
    claims,         \* watch stream of the ServerClaim
    queue,          \* requests waiting for the controller's worker
    job,            \* the reconcile in progress: a request and its next write
    metal,          \* metal-operator's next write for the Server
    faults,         \* failures so far
    claimsMade      \* ServerClaims created so far

vars == <<servers, maintenances, claims, queue, job, metal, faults, claimsMade>>

ServerState == {"Initial", "Available", "Reserved", "Parked"}
Operation == {"none", "park", "unpark"}
Server == [owner : Maintenances \cup {None}, op : Operation,
           state : ServerState, claimed : BOOLEAN, boot : BOOLEAN]

Phase == {"unborn", "live", "deleting", "gone"}
MaintenanceState == {"", "Pending", "InMaintenance"}
Maintenance == [phase : Phase, finalizer : BOOLEAN, state : MaintenanceState]

Claim == [needed : BOOLEAN, approved : BOOLEAN] \cup {NoClaim}

Steps == {"park", "repark", "enter", "demote", "boot", "strip", "finish"}
MetalSteps == {"toParked", "toAvailable", "toReserved", "consume"}

ASSUME ValuesAssumption ==
    /\ None \notin Maintenances
    /\ Idle \notin [m : Maintenances, pc : Steps] \cup MetalSteps

Stored(stream) == stream[Len(stream)]
Cached(stream) == stream[1]

TypeOK ==
    /\ servers \in Seq(Server) /\ Len(servers) > 0
    /\ maintenances \in Seq([Maintenances -> Maintenance]) /\ Len(maintenances) > 0
    /\ claims \in Seq(Claim) /\ Len(claims) > 0
    /\ queue \subseteq Maintenances
    /\ job \in [m : Maintenances, pc : Steps] \cup {Idle}
    /\ metal \in MetalSteps \cup {Idle}
    /\ faults \in Nat
    /\ claimsMade \in Nat

-----------------------------------------------------------------------------
(* Writes *)

\* The API server stores `new` and sends it to the watchers.
Write(stream, new) ==
    IF new = Stored(stream) THEN stream ELSE Append(stream, new)

\* Bound: a stream with MaxLag undelivered versions takes no new version.
Writable(stream, new) == new = Stored(stream) \/ Len(stream) =< MaxLag

WriteServer(new) ==
    /\ Writable(servers, new)
    /\ servers' = Write(servers, new)

WriteMaintenances(new) ==
    /\ Writable(maintenances, new)
    /\ maintenances' = Write(maintenances, new)

WriteMaintenance(m, new) ==
    WriteMaintenances([Stored(maintenances) EXCEPT ![m] = new])

WriteClaim(new) ==
    /\ Writable(claims, new)
    /\ claims' = Write(claims, new)

\* Mutant: the claim of a Server is a patch instead of an Update.
UpdateNeverConflicts == TRUE

\* client.Update carries the resourceVersion of the cached Server: it is
\* refused when the cache trails the API server.
UpdateAccepted == Len(servers) = 1

Exists(maintenance) == maintenance.phase \in {"live", "deleting"}

-----------------------------------------------------------------------------
(* Events and the requests they enqueue *)

Listed == {m \in Maintenances : Exists(Cached(maintenances)[m])}

\* Mutant: the mapping forgets every maintenance but the owner.
WokenByServerOwnerOnly(server) ==
    IF server.state = "Initial" THEN {} ELSE {server.owner} \ {None}

WokenByServer(server) ==
    IF server.state = "Initial" THEN {}
    ELSE ({server.owner} \ {None}) \cup Listed

WokenByClaim(claim) ==
    IF claim # NoClaim /\ claim.needed THEN Listed ELSE {}

DeliverServer ==
    /\ Len(servers) > 1
    /\ servers' = Tail(servers)
    /\ queue' = queue \cup WokenByServer(servers[1]) \cup WokenByServer(servers[2])
    /\ UNCHANGED <<maintenances, claims, job, metal, faults, claimsMade>>

DeliverMaintenance ==
    /\ Len(maintenances) > 1
    /\ maintenances' = Tail(maintenances)
    /\ queue' = queue \cup
         {m \in Maintenances : maintenances[1][m] # maintenances[2][m]}
    /\ UNCHANGED <<servers, claims, job, metal, faults, claimsMade>>

DeliverClaim ==
    /\ Len(claims) > 1
    /\ claims' = Tail(claims)
    /\ queue' = queue \cup WokenByClaim(claims[1]) \cup WokenByClaim(claims[2])
    /\ UNCHANGED <<servers, maintenances, job, metal, faults, claimsMade>>

-----------------------------------------------------------------------------
(* Reconcile up to the first write.  `c` is the cached maintenance, `s` the *)
(* cached Server.                                                           *)

Dequeue(m) ==
    /\ job = Idle
    /\ m \in queue

\* client.Get answers NotFound for an object the cache does not hold.
ReconcileGone(m) ==
    /\ Dequeue(m)
    /\ ~ Exists(Cached(maintenances)[m])
    /\ queue' = queue \ {m}
    /\ UNCHANGED <<servers, maintenances, claims, job, metal, faults, claimsMade>>

\* A status patch of an object that is gone is an error: the request is
\* queued again; `requests` are the ones that wait when it succeeds.
patchMaintenanceState(m, state, requests) ==
    LET stored == Stored(maintenances)[m] IN
    IF Exists(stored)
    THEN /\ WriteMaintenance(m, [stored EXCEPT !.state = state])
         /\ queue' = requests
    ELSE /\ queue' = requests \cup {m}
         /\ UNCHANGED maintenances

Foreign(m, s) == s.owner \notin {None, m}

Alive(m) == Cached(maintenances)[m].phase = "live"

\* Another maintenance holds the Server: fall back to Pending.
ReconcileForeignOwner(m) ==
    /\ Dequeue(m)
    /\ Alive(m)
    /\ Foreign(m, Cached(servers))
    /\ IF Cached(maintenances)[m].state # "Pending"
       THEN patchMaintenanceState(m, "Pending", queue \ {m})
       ELSE queue' = queue \ {m} /\ UNCHANGED maintenances
    /\ UNCHANGED <<servers, claims, job, metal, faults, claimsMade>>

EnsureFinalizer(m) ==
    /\ Dequeue(m)
    /\ Alive(m)
    /\ ~ Foreign(m, Cached(servers))
    /\ ~ Cached(maintenances)[m].finalizer
    /\ LET stored == Stored(maintenances)[m] IN
       IF Exists(stored)
       THEN /\ WriteMaintenance(m, [stored EXCEPT !.finalizer = TRUE])
            /\ queue' = queue \ {m}
       ELSE UNCHANGED <<maintenances, queue>>
    /\ UNCHANGED <<servers, claims, job, metal, faults, claimsMade>>

\* The cached maintenance is live, in `state`, and may go on.
InState(m, state) ==
    /\ Dequeue(m)
    /\ Alive(m)
    /\ ~ Foreign(m, Cached(servers))
    /\ Cached(maintenances)[m].finalizer
    /\ Cached(maintenances)[m].state = state

InitialState(m) ==
    /\ InState(m, "")
    /\ patchMaintenanceState(m, "Pending", queue \ {m})
    /\ UNCHANGED <<servers, claims, job, metal, faults, claimsMade>>

shouldDeferToHigherPriorityMaintenance(m) ==
    \E n \in Maintenances \ {m} :
        /\ Alive(n)
        /\ Cached(maintenances)[n].state \in {"", "Pending"}
        /\ RunsBefore(n, m)

\* Nothing requeues m here: it waits for an event.
PendingDeferred(m) ==
    /\ InState(m, "Pending")
    /\ \/ shouldDeferToHigherPriorityMaintenance(m)
       \/ Cached(servers).claimed /\ Cached(claims) = NoClaim
    /\ queue' = queue \ {m}
    /\ UNCHANGED <<servers, maintenances, claims, job, metal, faults, claimsMade>>

PendingUnclaimed(m) ==
    /\ InState(m, "Pending")
    /\ ~ shouldDeferToHigherPriorityMaintenance(m)
    /\ ~ Cached(servers).claimed
    /\ queue' = queue \ {m}
    /\ job' = [m |-> m, pc |-> "park"]
    /\ UNCHANGED <<servers, maintenances, claims, metal, faults, claimsMade>>

Approved(m, claim) == Policy[m] = "OwnerApproval" => claim.approved

\* The label patch is computed from the cached claim (it is empty when the
\* cache shows the label) and answers with the stored claim, whose labels
\* decide about the approval.
PendingClaimed(m) ==
    /\ InState(m, "Pending")
    /\ ~ shouldDeferToHigherPriorityMaintenance(m)
    /\ Cached(servers).claimed
    /\ Cached(claims) # NoClaim
    /\ LET stored == Stored(claims)
           patched == [stored EXCEPT !.needed = @ \/ ~ Cached(claims).needed]
       IN IF stored = NoClaim
          THEN UNCHANGED <<claims, queue, job>>
          ELSE /\ WriteClaim(patched)
               /\ queue' = queue \ {m}
               /\ job' = IF Approved(m, patched)
                         THEN [m |-> m, pc |-> "park"] ELSE Idle
    /\ UNCHANGED <<servers, maintenances, metal, faults, claimsMade>>

IsServerParkedForOwner(server, m) == server.state = "Parked" /\ server.owner = m

\* Mutant: a Server that drifted out of Parked is left as it is.
NeedsReparkIfForeign(m) == Foreign(m, Cached(servers))

NeedsRepark(m) == ~ IsServerParkedForOwner(Cached(servers), m)

HandleInMaintenance(m) ==
    /\ InState(m, "InMaintenance")
    /\ queue' = queue \ {m}
    /\ job' = IF NeedsRepark(m) THEN [m |-> m, pc |-> "repark"] ELSE Idle
    /\ UNCHANGED <<servers, maintenances, claims, metal, faults, claimsMade>>

-----------------------------------------------------------------------------
(* requestServerPark and the writes that follow it *)

At(m, pc) == job = [m |-> m, pc |-> pc]

Parking(m) == At(m, "park") \/ At(m, "repark")

\* The request is with metal-operator, or done.
ParkRequested(server) == server.state = "Parked" \/ server.op = "park"

\* A Pending maintenance enters once the Server is Parked; otherwise the
\* reconcile ends with RequeueAfter.
Granted(m) ==
    IF At(m, "park") /\ Cached(servers).state = "Parked"
    THEN job' = [m |-> m, pc |-> "enter"] /\ UNCHANGED queue
    ELSE job' = Idle /\ queue' = queue \cup {m}

\* Mutant: the caller ignores that the Server was not acquired.
RefusedEnters(m) ==
    /\ job' = [m |-> m, pc |-> "enter"]
    /\ UNCHANGED queue

Refused(m) ==
    /\ job' = IF At(m, "repark") THEN [m |-> m, pc |-> "demote"] ELSE Idle
    /\ UNCHANGED queue

RequestParkOwned(m) ==
    /\ Parking(m)
    /\ Cached(servers).owner = m
    /\ ParkRequested(Cached(servers))
    /\ Granted(m)
    /\ UNCHANGED <<servers, maintenances, claims, metal, faults, claimsMade>>

RequestParkAgain(m) ==
    /\ Parking(m)
    /\ Cached(servers).owner = m
    /\ ~ ParkRequested(Cached(servers))
    /\ UpdateAccepted
    /\ WriteServer([Stored(servers) EXCEPT !.op = "park"])
    /\ Granted(m)
    /\ UNCHANGED <<maintenances, claims, metal, faults, claimsMade>>

ClaimServer(m) ==
    /\ Parking(m)
    /\ Cached(servers).owner = None
    /\ UpdateAccepted
    /\ WriteServer([Stored(servers) EXCEPT !.owner = m, !.op = "park"])
    /\ Granted(m)
    /\ UNCHANGED <<maintenances, claims, metal, faults, claimsMade>>

RequestParkRefused(m) ==
    /\ Parking(m)
    /\ \/ Foreign(m, Cached(servers))
       \/ /\ ~ UpdateAccepted
          /\ ~ (Cached(servers).owner = m /\ ParkRequested(Cached(servers)))
    /\ Refused(m)
    /\ UNCHANGED <<servers, maintenances, claims, metal, faults, claimsMade>>

EnterMaintenance(m) ==
    /\ At(m, "enter")
    /\ patchMaintenanceState(m, "InMaintenance", queue)
    /\ job' = Idle
    /\ UNCHANGED <<servers, claims, metal, faults, claimsMade>>

ReturnToPending(m) ==
    /\ At(m, "demote")
    /\ patchMaintenanceState(m, "Pending", queue)
    /\ job' = Idle
    /\ UNCHANGED <<servers, claims, metal, faults, claimsMade>>

-----------------------------------------------------------------------------
(* Deletion: unpark, boot configuration, labels, finalizer *)

\* What cleanup does next, by the Server it holds.
AfterUnpark(server) ==
    IF server.boot THEN "boot" ELSE IF server.claimed THEN "strip" ELSE "finish"

\* Mutant: the owner annotation is emptied instead of deleted.
UnparkedEmptyOwner(server) == [server EXCEPT !.owner = "", !.op = "unpark"]

\* A merge patch: it removes whatever owner is stored, and carries the
\* operation only when the cached Server does not show it already.
Unparked(server) ==
    [server EXCEPT !.owner = None,
                   !.op = IF Cached(servers).op = "unpark" THEN @ ELSE "unpark"]

\* Mutant: any deleted maintenance unparks the Server.
HoldsAny(m) == Cached(servers).owner # None

Holds(m) == Cached(servers).owner = m

DeleteHolder(m) ==
    /\ Dequeue(m)
    /\ Cached(maintenances)[m].phase = "deleting"
    /\ Holds(m)
    /\ WriteServer(Unparked(Stored(servers)))
    /\ queue' = queue \ {m}
    /\ job' = [m |-> m, pc |-> AfterUnpark(Stored(servers))]
    /\ UNCHANGED <<maintenances, claims, metal, faults, claimsMade>>

DeleteOther(m) ==
    /\ Dequeue(m)
    /\ Cached(maintenances)[m].phase = "deleting"
    /\ ~ Holds(m)
    /\ queue' = queue \ {m}
    /\ job' = [m |-> m, pc |-> AfterUnpark(Cached(servers))]
    /\ UNCHANGED <<servers, maintenances, claims, metal, faults, claimsMade>>

RemoveBootConfigRef(m) ==
    /\ At(m, "boot")
    /\ WriteServer([Stored(servers) EXCEPT !.boot = FALSE])
    /\ job' = [m |-> m, pc |-> IF Stored(servers).claimed THEN "strip" ELSE "finish"]
    /\ UNCHANGED <<maintenances, claims, queue, metal, faults, claimsMade>>

OthersActive(m) == \E n \in Maintenances \ {m} : Alive(n)

\* Mutant: a claim that is gone is an error, and cleanup is tried again.
KeepLabelsRetries(m) ==
    /\ At(m, "strip")
    /\ OthersActive(m) \/ Cached(claims) = NoClaim
    /\ job' = Idle
    /\ queue' = queue \cup {m}
    /\ UNCHANGED <<servers, maintenances, claims, metal, faults, claimsMade>>

\* The labels stay while another maintenance is in the queue.
KeepLabels(m) ==
    /\ At(m, "strip")
    /\ OthersActive(m) \/ Cached(claims) = NoClaim
    /\ job' = [m |-> m, pc |-> "finish"]
    /\ UNCHANGED <<servers, maintenances, claims, queue, metal, faults, claimsMade>>

\* The patch removes the labels the cached claim shows, no others.
StripLabels(m) ==
    /\ At(m, "strip")
    /\ ~ OthersActive(m)
    /\ Cached(claims) # NoClaim
    /\ IF Stored(claims) = NoClaim
       THEN job' = Idle /\ queue' = queue \cup {m} /\ UNCHANGED claims
       ELSE /\ WriteClaim([needed |-> Stored(claims).needed /\ ~ Cached(claims).needed,
                           approved |-> Stored(claims).approved /\ ~ Cached(claims).approved])
            /\ job' = [m |-> m, pc |-> "finish"]
            /\ UNCHANGED queue
    /\ UNCHANGED <<servers, maintenances, metal, faults, claimsMade>>

Gone == [phase |-> "gone", finalizer |-> FALSE, state |-> ""]

\* The finalizer goes and the API server removes the object.
RemoveFinalizer(m) ==
    /\ At(m, "finish")
    /\ IF Exists(Stored(maintenances)[m])
       THEN WriteMaintenance(m, Gone) /\ UNCHANGED queue
       ELSE queue' = queue \cup {m} /\ UNCHANGED maintenances
    /\ job' = Idle
    /\ UNCHANGED <<servers, claims, metal, faults, claimsMade>>

\* Every way a reconcile of m may begin, and every way it may go on.
Reconcile(m) ==
    \/ ReconcileGone(m) \/ ReconcileForeignOwner(m)
    \/ EnsureFinalizer(m) \/ InitialState(m)
    \/ PendingDeferred(m) \/ PendingUnclaimed(m) \/ PendingClaimed(m)
    \/ HandleInMaintenance(m)
    \/ DeleteHolder(m) \/ DeleteOther(m)

Continue(m) ==
    \/ RequestParkOwned(m) \/ RequestParkAgain(m)
    \/ ClaimServer(m) \/ RequestParkRefused(m)
    \/ EnterMaintenance(m) \/ ReturnToPending(m)
    \/ RemoveBootConfigRef(m) \/ KeepLabels(m) \/ StripLabels(m)
    \/ RemoveFinalizer(m)

-----------------------------------------------------------------------------
(* Failures of the operator *)

\* The next API call fails: the request is queued again.
CallFails ==
    /\ job # Idle
    /\ faults < MaxFaults
    /\ faults' = faults + 1
    /\ queue' = queue \cup {job.m}
    /\ job' = Idle
    /\ UNCHANGED <<servers, maintenances, claims, metal, claimsMade>>

\* The operator restarts: it lists every kind and reconciles every object.
Restart ==
    /\ faults < MaxFaults
    /\ faults' = faults + 1
    /\ servers' = <<Stored(servers)>>
    /\ maintenances' = <<Stored(maintenances)>>
    /\ claims' = <<Stored(claims)>>
    /\ queue' = {m \in Maintenances : Exists(Stored(maintenances)[m])}
    /\ job' = Idle
    /\ UNCHANGED <<metal, claimsMade>>

-----------------------------------------------------------------------------
(* metal-operator.  It reads the Server once per reconcile, patches the    *)
(* state and then removes the operation annotation, whichever it then is.  *)

ReadOperation ==
    /\ metal = Idle
    /\ LET s == Stored(servers) IN
       \/ /\ s.op = "unpark"
          /\ metal' = IF s.state # "Parked" THEN "consume"
                      ELSE IF s.claimed THEN "toReserved" ELSE "toAvailable"
       \/ /\ s.op = "park"
          /\ s.state # "Initial"
          /\ metal' = IF s.state = "Parked" THEN "consume" ELSE "toParked"
    /\ UNCHANGED <<servers, maintenances, claims, queue, job, faults, claimsMade>>

PatchServerState(step, state) ==
    /\ metal = step
    /\ WriteServer([Stored(servers) EXCEPT !.state = state])
    /\ metal' = "consume"
    /\ UNCHANGED <<maintenances, claims, queue, job, faults, claimsMade>>

ConsumeOperation ==
    /\ metal = "consume"
    /\ WriteServer([Stored(servers) EXCEPT !.op = "none"])
    /\ metal' = Idle
    /\ UNCHANGED <<maintenances, claims, queue, job, faults, claimsMade>>

\* The Server's state and claim reference follow its ServerClaim while it is
\* not Parked; an Initial Server becomes Available when it is discovered.
SyncClaimState ==
    /\ metal = Idle
    /\ LET s == Stored(servers) IN
       \/ /\ s.state = "Initial"
          /\ WriteServer([s EXCEPT !.state = "Available"])
       \/ /\ s.state = "Reserved" /\ s.claimed /\ Stored(claims) = NoClaim
          /\ WriteServer([s EXCEPT !.claimed = FALSE, !.boot = FALSE])
       \/ /\ s.state = "Reserved" /\ ~ s.claimed
          /\ WriteServer([s EXCEPT !.state = "Available"])
       \/ /\ s.state = "Available" /\ s.claimed
          /\ WriteServer([s EXCEPT !.state = "Reserved"])
    /\ UNCHANGED <<maintenances, claims, queue, job, metal, faults, claimsMade>>

\* metal-operator binds the claim to the Server and boots it.
BindClaim ==
    /\ Stored(claims) # NoClaim
    /\ ~ Stored(servers).claimed
    /\ WriteServer([Stored(servers) EXCEPT !.claimed = TRUE, !.boot = TRUE])
    /\ UNCHANGED <<maintenances, claims, queue, job, metal, faults, claimsMade>>

MetalOperator ==
    \/ ReadOperation
    \/ PatchServerState("toParked", "Parked")
    \/ PatchServerState("toAvailable", "Available")
    \/ PatchServerState("toReserved", "Reserved")
    \/ ConsumeOperation
    \/ SyncClaimState
    \/ BindClaim

-----------------------------------------------------------------------------
(* Users: the owner of the maintenances and the owner of the claim *)

\* Objects are created in the order of their creation times.
CreateMaintenance(m) ==
    /\ Stored(maintenances)[m].phase = "unborn"
    /\ \A n \in Maintenances :
          CreatedAt[n] < CreatedAt[m] => Stored(maintenances)[n].phase # "unborn"
    /\ WriteMaintenance(m, [phase |-> "live", finalizer |-> FALSE, state |-> ""])
    /\ UNCHANGED <<servers, claims, queue, job, metal, faults, claimsMade>>

DeleteMaintenance(m) ==
    LET stored == Stored(maintenances)[m] IN
    /\ stored.phase = "live"
    /\ EarlyDelete \/ stored.state = "InMaintenance"
    /\ StaleDelete \/ Stored(servers).owner # m \/ Cached(servers).owner = m
    /\ WriteMaintenance(m, IF stored.finalizer
                           THEN [stored EXCEPT !.phase = "deleting"] ELSE Gone)
    /\ UNCHANGED <<servers, claims, queue, job, metal, faults, claimsMade>>

CreateClaim ==
    /\ Stored(claims) = NoClaim
    /\ claimsMade < MaxClaims
    /\ claimsMade' = claimsMade + 1
    /\ WriteClaim([needed |-> FALSE, approved |-> FALSE])
    /\ UNCHANGED <<servers, maintenances, queue, job, metal, faults>>

ApproveMaintenance ==
    /\ Stored(claims) # NoClaim
    /\ ~ Stored(claims).approved
    /\ WriteClaim([Stored(claims) EXCEPT !.approved = TRUE])
    /\ UNCHANGED <<servers, maintenances, queue, job, metal, faults, claimsMade>>

DeleteClaim ==
    /\ Stored(claims) # NoClaim
    /\ WriteClaim(NoClaim)
    /\ UNCHANGED <<servers, maintenances, queue, job, metal, faults, claimsMade>>

Users ==
    \/ \E m \in Maintenances : CreateMaintenance(m) \/ DeleteMaintenance(m)
    \/ CreateClaim \/ ApproveMaintenance \/ DeleteClaim

-----------------------------------------------------------------------------
Init ==
    /\ servers = <<[owner |-> None, op |-> "none", state |-> "Initial",
                    claimed |-> FALSE, boot |-> FALSE]>>
    /\ maintenances = <<[m \in Maintenances |->
                          [phase |-> "unborn", finalizer |-> FALSE, state |-> ""]]>>
    /\ claims = <<NoClaim>>
    /\ queue = {}
    /\ job = Idle
    /\ metal = Idle
    /\ faults = 0
    /\ claimsMade = 0

Deliver == DeliverServer \/ DeliverMaintenance \/ DeliverClaim

Next ==
    \/ Deliver
    \/ \E m \in Maintenances : Reconcile(m) \/ Continue(m)
    \/ CallFails \/ Restart
    \/ MetalOperator
    \/ Users

Spec == Init /\ [][Next]_vars

(***************************************************************************)
(* Watches deliver, a reconcile in progress goes on, metal-operator runs.  *)
(* The work queue is first in, first out, so a request that is waiting     *)
(* whenever the worker is free is taken: strong fairness.                  *)
(***************************************************************************)
Fairness ==
    /\ WF_vars(DeliverServer)
    /\ WF_vars(DeliverMaintenance)
    /\ WF_vars(DeliverClaim)
    /\ \A m \in Maintenances : SF_vars(Reconcile(m))
    /\ SF_vars(\E m \in Maintenances : Continue(m))
    /\ SF_vars(MetalOperator)

FairSpec == Spec /\ Fairness
-----------------------------------------------------------------------------
(* Properties *)

Live(m) == Stored(maintenances)[m].phase = "live"
State(m) == Stored(maintenances)[m].state

(***************************************************************************)
(* Only the maintenance that holds a Server gives it up, and only when it  *)
(* is being deleted: the claim is an Update that a stale cache makes fail, *)
(* and the unpark patch, which checks nothing, never hits a later owner.   *)
(***************************************************************************)
OwnerNeverStolen ==
    [][\A m \in Maintenances :
          Stored(servers).owner = m /\ Stored(servers').owner # m
             => Stored(servers').owner = None /\ ~ Live(m)]_servers

(***************************************************************************)
(* A maintenance that reports InMaintenance and is not being deleted is    *)
(* the owner of the Server, however stale the caches were on which it      *)
(* decided to enter: so at most one maintenance of a Server is active.     *)
(***************************************************************************)
ActiveOwnsServer ==
    \A m \in Maintenances :
       Live(m) /\ State(m) = "InMaintenance" => Stored(servers).owner = m

Deleted(maintenance) == maintenance.phase \in {"deleting", "gone"}

\* A cached owner is the stored one or has released the Server since: no
\* other maintenance claims it before the cache shows the release.
NeverReclaimed ==
    \A i, j \in 1..Len(servers) :
       i < j /\ servers[i].owner # None
          => servers[j].owner \in {servers[i].owner, None}

DeletionIsFinal ==
    \A i, j \in 1..Len(maintenances) : \A m \in Maintenances :
       i < j /\ Deleted(maintenances[i][m]) => Deleted(maintenances[j][m])

\* An owner in the cache that is not the stored one has released the Server,
\* which it did on seeing its own deletion.
ReleasedIsDeleted ==
    \A m \in Maintenances : \A i \in 1..Len(servers) :
       servers[i].owner = m /\ Stored(servers).owner # m
          => Deleted(Cached(maintenances)[m])

\* While m asks for the Server or enters, m has not released it.
ParkingKeepsOwner ==
    \A m \in Maintenances : \A i \in 1..Len(servers) :
       /\ At(m, "park") \/ At(m, "repark") \/ At(m, "enter")
       /\ servers[i].owner = m
       => Stored(servers).owner = m

EntersAsOwner ==
    \A m \in Maintenances : At(m, "enter") => Stored(servers).owner = m

(***************************************************************************)
(* Why a maintenance may trust a stale cache: what the watch streams still *)
(* hold in flight never lets it take a Server that is held, nor enter or   *)
(* stay in maintenance on a Server it does not own.                        *)
(***************************************************************************)
OwnershipInv ==
    /\ NeverReclaimed
    /\ DeletionIsFinal
    /\ ReleasedIsDeleted
    /\ ParkingKeepsOwner
    /\ EntersAsOwner
    /\ ActiveOwnsServer

\* Every event is delivered, every request handled and every operation done
\* on a Server that metal-operator has discovered.
AtRest ==
    /\ Len(servers) = 1 /\ Len(maintenances) = 1 /\ Len(claims) = 1
    /\ queue = {} /\ job = Idle
    /\ metal = Idle /\ Stored(servers).op = "none"
    /\ Stored(servers).state # "Initial"

(***************************************************************************)
(* When the system comes to rest, the Server of an active maintenance is   *)
(* Parked for it, although metal-operator may have resumed the Server      *)
(* while the next maintenance was taking over, or consumed its request.    *)
(***************************************************************************)
RestingActiveIsParked ==
    AtRest => \A m \in Maintenances :
       Live(m) /\ State(m) = "InMaintenance"
          => IsServerParkedForOwner(Stored(servers), m)

(***************************************************************************)
(* When the system comes to rest, an Enforced maintenance that has not     *)
(* started has a reason: another one owns the Server or goes before it,    *)
(* or the Server's claim is gone.  No event it waits for was missed.       *)
(***************************************************************************)
RestingPendingHasReason ==
    AtRest => \A m \in Maintenances :
       Live(m) /\ State(m) # "InMaintenance" /\ Policy[m] = "Enforced"
          => \/ \E n \in Maintenances \ {m} :
                   \/ Stored(servers).owner = n
                   \/ Live(n) /\ State(n) = "Pending" /\ RunsBefore(n, m)
             \/ Stored(servers).claimed /\ Stored(claims) = NoClaim

Pending == {m \in Listed : /\ Alive(m)
                           /\ Cached(maintenances)[m].state \in {"", "Pending"}}

(***************************************************************************)
(* The pending maintenances never all defer to one another: whatever the   *)
(* cache shows, one of them goes first.                                    *)
(***************************************************************************)
SomeoneGoesFirst ==
    Pending # {} =>
       \E m \in Pending : ~ shouldDeferToHigherPriorityMaintenance(m)

(***************************************************************************)
(* A deleted maintenance goes away: no step of cleanup blocks for ever,    *)
(* whatever call fails and whenever the operator restarts.                 *)
(***************************************************************************)
DeletionCompletes ==
    \A m \in Maintenances :
       Stored(maintenances)[m].phase = "deleting"
          ~> Stored(maintenances)[m].phase = "gone"

(***************************************************************************)
(* An Enforced maintenance that is the only one left of a Server starts,   *)
(* unless it is deleted, although it deferred to the others before.        *)
(***************************************************************************)
EnforcedStarts ==
    \A m \in Maintenances :
       (Policy[m] = "Enforced" /\ (\A n \in Maintenances \ {m} : ~ Live(n)) /\ Live(m))
          ~> (State(m) = "InMaintenance" \/ ~ Live(m))

ActiveMaintenances ==
    {m \in Maintenances : Live(m) /\ State(m) = "InMaintenance"}

Lock == INSTANCE ParkLock WITH
    owner <- Stored(servers).owner,
    active <- ActiveMaintenances

(***************************************************************************)
(* The owner annotation is a lock with a single claimant: a maintenance    *)
(* becomes active only while it holds it, and lets go of it only after it  *)
(* has been deleted, over every interleaving, failure and restart.         *)
(***************************************************************************)
ImplementsParkLock == Lock!LockSpec

-----------------------------------------------------------------------------
(* What the documentation, a comment or a test says, and TLC refutes under *)
(* the constants that the README names.                                    *)

(***************************************************************************)
(* docs/concepts/servermaintenance.md: deleting a maintenance releases the *)
(* Server.  At rest no Server is owned by a maintenance that is gone.      *)
(***************************************************************************)
RestingOwnerExists ==
    AtRest => \/ Stored(servers).owner = None
              \/ Exists(Stored(maintenances)[Stored(servers).owner])

(***************************************************************************)
(* docs/concepts/servermaintenance.md: deleting a maintenance cleans up    *)
(* the labels of the ServerClaim.  At rest a claim does not ask for        *)
(* approval when no maintenance is left.                                   *)
(***************************************************************************)
RestingLabelsClean ==
    AtRest /\ (\A m \in Maintenances : ~ Exists(Stored(maintenances)[m]))
       => Stored(claims) = NoClaim \/ ~ Stored(claims).needed

(***************************************************************************)
(* docs/concepts/servermaintenance.md: with policy OwnerApproval and no    *)
(* approved label on the claim, the Server remains unchanged.              *)
(***************************************************************************)
ParkNeedsApproval ==
    [][\A m \in Maintenances :
          /\ Stored(servers).owner # m /\ Stored(servers').owner = m
          /\ Policy[m] = "OwnerApproval"
          /\ Stored(servers).claimed /\ Stored(claims) # NoClaim
          => Stored(claims).approved]_servers

(***************************************************************************)
(* The test "should keep server in Maintenance throughout all queued       *)
(* Enforced maintenances without state bounce": a Parked Server is not     *)
(* resumed while an Enforced maintenance is waiting for it.                *)
(***************************************************************************)
NoStateBounce ==
    [][Stored(servers).state = "Parked" /\ Stored(servers').state # "Parked"
          => ~ \E m \in Maintenances :
                  /\ Live(m) /\ State(m) = "Pending"
                  /\ Policy[m] = "Enforced"]_servers

(***************************************************************************)
(* docs/concepts/servermaintenance.md: of two pending maintenances with    *)
(* equal priority the older one wins: a maintenance that is older than     *)
(* every other one of its priority does not defer.                         *)
(***************************************************************************)
OlderWinsOnEqualPriority ==
    \A m \in Pending :
       (\A n \in Listed \ {m} : /\ Priority[n] = Priority[m]
                               /\ CreatedAt[m] < CreatedAt[n])
          => ~ shouldDeferToHigherPriorityMaintenance(m)
=============================================================================
