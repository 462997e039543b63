-------------------------- MODULE ServerConditions --------------------------
(***************************************************************************)
(* One Server's status.conditions and the processes that write them: the   *)
(* ServerSanitization controller, the ServerWiring controller and the      *)
(* publisher of completion conditions, PatchServerCondition.               *)
(*                                                                         *)
(* Sanitization follows a Server through a release: the Released Server is *)
(* marked Sanitized=False and let go; once it is Available a claim of its  *)
(* own boots the sanitizer on it, whose report labels the claim; the label *)
(* turns the condition True and the claim is deleted.                      *)
(*                                                                         *)
(* A condition is patched as a member of the whole list: a merge patch     *)
(* computed from the cached Server replaces the list it does not agree     *)
(* with.  Watch streams are those of ServerMaintenance: the last element   *)
(* is stored, the first is cached, a delivery drops the head.              *)
(*                                                                         *)
(* metal-operator and the tenants are external.                            *)
(***************************************************************************)
EXTENDS Integers, Sequences, FiniteSets, SequencesExt

CONSTANTS
    Ids,            \* names a sanitization claim and its secret may get
    None,           \* no claim is referenced
    Tenant,         \* the claim of a tenant
    Idle,           \* a process that is doing nothing
    MaxLag,         \* bound: versions of a kind the cache may trail by
    MaxFaults,      \* bound: failed API calls, lost reports and crashes
    MaxTenants,     \* bound: tenancies of the Server
    StaysAvailable, \* does a sanitization claim leave the Server Available?
    ReportsAreLost, \* may the sanitizer's one report get lost?
    WipeMayFail,    \* may the sanitizer fail to wipe a disk?
    SameSecond,     \* may two claims carry the same creation timestamp?
    WithWiring,     \* is there a ServerWiring for the Server?
    WithPublisher   \* does a firmware resource publish its completion?

ASSUME BoundsAssumption ==
    /\ MaxLag \in Nat \ {0}
    /\ MaxFaults \in Nat
    /\ MaxTenants \in Nat \ {0}

VARIABLES
    servers,        \* watch stream of the Server
    claims,         \* watch stream of its sanitization claims, oldest first
    secrets,        \* ignition secrets: whether they exist and have an owner
    queued,         \* is the Server in the sanitization controller's queue?
    job,            \* the next write of the sanitization reconcile, or Idle
    cleanups,       \* claims that goroutines are about to clean up
    sanitizer,      \* the sanitizer booted on the Server, or Idle
    tenants,        \* tenancies so far
    tenantWaits,    \* does a tenant's claim exist?
    dirty,          \* do the disks hold data of an earlier tenant? (ghost)
    wiring,         \* the ServerWiring: its phase and whether it is queued
    published,      \* what the publisher wrote last (ghost)
    faults          \* failures so far

sanitizing == <<secrets, queued, job, cleanups>>
vars == <<servers, claims, secrets, queued, job, cleanups, sanitizer, tenants,
          tenantWaits, dirty, wiring, published, faults>>

Status == {"absent", "False", "True"}
Server == [state : {"Available", "Reserved", "Released"},
           ref : Ids \cup {None, Tenant},
           sanitized : Status, network : Status, done : Status,
           nics : {"True", "False"}]   \* do the NICs match the ServerWiring?
Claim == [id : Ids, label : BOOLEAN]
Job == [pc : {"claim", "own", "delete"}, id : Ids]
Sanitizer == [id : Ids, phase : {"wiping", "reporting", "parked"}]

ASSUME ValuesAssumption ==
    /\ None \notin Ids /\ Tenant \notin Ids /\ None # Tenant
    /\ Idle \notin Job \cup Sanitizer

Stored(stream) == stream[Len(stream)]
Cached(stream) == stream[1]

TypeOK ==
    /\ servers \in Seq(Server) /\ Len(servers) \in 1 .. MaxLag + 1
    /\ claims \in Seq(Seq(Claim)) /\ Len(claims) \in 1 .. MaxLag + 1
    /\ secrets \in [Ids -> {"none", "loose", "owned"}]
    /\ queued \in BOOLEAN
    /\ job \in Job \cup {Idle}
    /\ cleanups \subseteq Ids
    /\ sanitizer \in Sanitizer \cup {Idle}
    /\ tenants \in 0 .. MaxTenants /\ tenantWaits \in BOOLEAN
    /\ dirty \in BOOLEAN
    /\ wiring \in [phase : {"none", "live", "deleting", "gone"}, queued : BOOLEAN]
    /\ published \in Status
    /\ faults \in 0 .. MaxFaults

-----------------------------------------------------------------------------
(* Writes and deliveries *)

\* A write that changes nothing makes no version; MaxLag bounds the stream.
Write(stream, new) ==
    IF new = Stored(stream) THEN stream ELSE Append(stream, new)

Writable(stream, new) == new = Stored(stream) \/ Len(stream) =< MaxLag

WriteServer(new) ==
    /\ Writable(servers, new)
    /\ servers' = Write(servers, new)

WriteClaims(new) ==
    /\ Writable(claims, new)
    /\ claims' = Write(claims, new)

\* The stored Server after a merge patch from `base`, the patcher's copy, to
\* `new`: the list of conditions is one value, replaced whole if it differs.
Patched(base, new) ==
    IF /\ new.sanitized = base.sanitized
       /\ new.network = base.network
       /\ new.done = base.done
    THEN Stored(servers)
    ELSE [Stored(servers) EXCEPT !.sanitized = new.sanitized,
                                 !.network = new.network, !.done = new.done]

PatchConditions(new) == WriteServer(Patched(Cached(servers), new))

\* Mutant: the predicate lets Released Servers pass only.
serverPredicateReleased(server) ==
    server.state = "Released" /\ server.sanitized # "True"

serverPredicate(server) ==
    /\ server.state \in {"Available", "Released"}
    /\ server.sanitized # "True"

\* Mutant: ServerWiring does not watch Servers.
NobodyFromServer == wiring

enqueueFromServer ==
    [wiring EXCEPT !.queued = wiring.phase \in {"live", "deleting"}]

DeliverServer ==
    /\ Len(servers) > 1
    /\ servers' = Tail(servers)
    /\ queued' = (queued \/ serverPredicate(servers[2]))
    /\ wiring' = enqueueFromServer
    /\ UNCHANGED <<claims, secrets, job, cleanups, sanitizer, tenants,
                   tenantWaits, dirty, published, faults>>

\* Every sanitization claim carries the label serverClaimPredicate asks for.
DeliverClaims ==
    /\ Len(claims) > 1
    /\ claims' = Tail(claims)
    /\ queued' = TRUE
    /\ UNCHANGED <<servers, secrets, job, cleanups, sanitizer, tenants,
                   tenantWaits, dirty, wiring, published, faults>>

-----------------------------------------------------------------------------
(* ServerSanitization: Reconcile *)

outside == <<sanitizer, tenants, tenantWaits, dirty, wiring, published, faults>>

Existing(id) == \E i \in DOMAIN Stored(claims) : Stored(claims)[i].id = id

\* No two claims have the same name.
Without(list, id) ==
    IF \E i \in DOMAIN list : list[i].id = id
    THEN RemoveAt(list, CHOOSE i \in DOMAIN list : list[i].id = id)
    ELSE list

\* uuid.NewString(): a name nothing in the system still carries.
Fresh == {id \in Ids :
    /\ secrets[id] = "none" /\ id \notin cleanups
    /\ job # Idle => job.id # id
    /\ sanitizer # Idle => sanitizer.id # id
    /\ \A v \in DOMAIN servers : servers[v].ref # id
    /\ \A v \in DOMAIN claims : \A i \in DOMAIN claims[v] : claims[v][i].id # id}

\* Mutant: the reference is released before the condition is set.
ReleaseFirst ==
    LET server == Cached(servers) IN
    /\ server.state = "Released"
    /\ IF server.ref # None
       THEN WriteServer([Stored(servers) EXCEPT !.ref = None])
       ELSE PatchConditions([server EXCEPT !.sanitized = "False"])
    /\ queued' = FALSE
    /\ UNCHANGED <<claims, secrets, job, cleanups>>

\* Mutant: the condition is written with the status Unknown.
MarkUnknown ==
    /\ Cached(servers).state = "Released"
    /\ PatchConditions([Cached(servers) EXCEPT !.sanitized = "Unknown"])
    /\ queued' = FALSE
    /\ UNCHANGED <<claims, secrets, job, cleanups>>

reconcileReleased ==
    LET server == Cached(servers) IN
    /\ server.state = "Released"
    /\ IF server.sanitized # "False"
       THEN PatchConditions([server EXCEPT !.sanitized = "False"])
       ELSE WriteServer(IF server.ref = None THEN Stored(servers)
                        ELSE [Stored(servers) EXCEPT !.ref = None])
    /\ queued' = FALSE
    /\ UNCHANGED <<claims, secrets, job, cleanups>>

\* Neither Available nor Released, or never asked to be sanitized.
ReconcileSkips ==
    LET server == Cached(servers) IN
    /\ \/ server.state = "Reserved"
       \/ server.state = "Available" /\ server.sanitized = "absent"
    /\ queued' = FALSE
    /\ UNCHANGED <<servers, claims, secrets, job, cleanups>>

\* Sanitized: both DeleteAllOf calls are made, whether or not one fails.
CleanUpLeftovers ==
    /\ Cached(servers).state = "Available" /\ Cached(servers).sanitized = "True"
    /\ WriteClaims(<<>>)
    /\ secrets' = [id \in Ids |-> "none"]
    /\ queued' = FALSE
    /\ UNCHANGED <<servers, job, cleanups>>

\* Positions in the cached list that the sort by CreationTimestamp may put
\* first.  Timestamps have a resolution of one second, and the cache lists
\* claims of the same second in any order.
Oldest == IF SameSecond THEN DOMAIN Cached(claims) ELSE {1}

\* The goroutine is told the claim that won.
Outdated(winner) == {winner}

UseClaim ==
    LET server == Cached(servers) IN
    /\ server.state = "Available" /\ server.sanitized = "False"
    /\ Cached(claims) # <<>>
    /\ \E i \in Oldest :
        LET claim == Cached(claims)[i] IN
        /\ cleanups' = IF Len(Cached(claims)) > 1
                       THEN cleanups \cup Outdated(claim.id) ELSE cleanups
        /\ IF claim.label
           THEN /\ PatchConditions([server EXCEPT !.sanitized = "True"])
                /\ job' = [pc |-> "delete", id |-> claim.id]
           ELSE UNCHANGED <<servers, job>>
    /\ queued' = FALSE
    /\ UNCHANGED <<claims, secrets>>

CreateSecret ==
    /\ Cached(servers).state = "Available" /\ Cached(servers).sanitized = "False"
    /\ Cached(claims) = <<>>
    /\ \E id \in Fresh :
        /\ secrets' = [secrets EXCEPT ![id] = "loose"]
        /\ job' = [pc |-> "claim", id |-> id]
    /\ queued' = FALSE
    /\ UNCHANGED <<servers, claims, cleanups>>

Reconcile ==
    /\ job = Idle /\ queued
    /\ \/ reconcileReleased
       \/ ReconcileSkips
       \/ CleanUpLeftovers
       \/ UseClaim
       \/ CreateSecret
    /\ UNCHANGED outside

CreateClaim ==
    /\ job # Idle /\ job.pc = "claim"
    /\ WriteClaims(Append(Stored(claims), [id |-> job.id, label |-> FALSE]))
    /\ job' = [job EXCEPT !.pc = "own"]
    /\ UNCHANGED <<servers, secrets, queued, cleanups>>

\* The patch of a deleted secret is a NotFound error: the request is retried.
OwnSecret ==
    /\ job # Idle /\ job.pc = "own"
    /\ IF secrets[job.id] = "none"
       THEN queued' = TRUE /\ UNCHANGED secrets
       ELSE secrets' = [secrets EXCEPT ![job.id] = "owned"] /\ UNCHANGED queued
    /\ job' = Idle
    /\ UNCHANGED <<servers, claims, cleanups>>

\* Mutant: the claim is not deleted once it has done its work.
KeepClaim ==
    /\ job # Idle /\ job.pc = "delete"
    /\ job' = Idle
    /\ UNCHANGED <<servers, claims, secrets, queued, cleanups>>

DeleteClaim ==
    /\ job # Idle /\ job.pc = "delete"
    /\ WriteClaims(Without(Stored(claims), job.id))
    /\ job' = Idle
    /\ UNCHANGED <<servers, secrets, queued, cleanups>>

Continue == (CreateClaim \/ OwnSecret \/ DeleteClaim) /\ UNCHANGED outside

\* A goroutine of getOrCreateSanitizationClaim: nobody waits for it, its
\* errors are logged.
cleanupOutdatedSanitizationResources ==
    \E id \in cleanups :
        /\ cleanups' = cleanups \ {id}
        /\ WriteClaims(Without(Stored(claims), id))
        /\ secrets' = [secrets EXCEPT ![id] = "none"]
        /\ UNCHANGED <<servers, queued, job>>
        /\ UNCHANGED outside

-----------------------------------------------------------------------------
(* The sanitizer on the Server and its report *)

others == <<servers, secrets, queued, job, cleanups, tenants, tenantWaits,
            wiring, published>>

\* Assumption: a boot and a wipe outlast the delay of a watch event, so the
\* handler's cache knows the claim by then, if it is still there.
Wipe ==
    /\ sanitizer # Idle /\ sanitizer.phase = "wiping"
    /\ Existing(sanitizer.id) =>
          \E i \in DOMAIN Cached(claims) : Cached(claims)[i].id = sanitizer.id
    /\ sanitizer' = [sanitizer EXCEPT !.phase = "reporting"]
    /\ dirty' \in {FALSE} \cup (IF WipeMayFail THEN {dirty} ELSE {})
    /\ UNCHANGED others /\ UNCHANGED <<claims, faults>>

Marked(list, id) ==
    [i \in DOMAIN list |-> IF list[i].id = id
                           THEN [list[i] EXCEPT !.label = TRUE] ELSE list[i]]

\* ReportResult posts once, whatever the result; the handler reads the claim
\* from the cache and labels it.  The sanitizer parks whatever the answer.
Report ==
    /\ sanitizer # Idle /\ sanitizer.phase = "reporting"
    /\ sanitizer' = [sanitizer EXCEPT !.phase = "parked"]
    /\ \/ /\ \E i \in DOMAIN Cached(claims) : Cached(claims)[i].id = sanitizer.id
          /\ WriteClaims(Marked(Stored(claims), sanitizer.id))
          /\ UNCHANGED faults
       \/ /\ \A i \in DOMAIN Cached(claims) : Cached(claims)[i].id # sanitizer.id
          /\ UNCHANGED <<claims, faults>>
       \/ /\ ReportsAreLost
          /\ faults < MaxFaults /\ faults' = faults + 1
          /\ UNCHANGED claims
    /\ UNCHANGED others /\ UNCHANGED dirty

-----------------------------------------------------------------------------
(* ServerWiring and the publisher *)

elsewhere == <<claims, secrets, queued, job, cleanups, sanitizer, tenants,
               tenantWaits, dirty>>

\* validateServer and setNetworkReadyCondition; status.ready is not modelled.
ReconcileWiring ==
    /\ wiring.phase = "live" /\ wiring.queued
    /\ PatchConditions([Cached(servers) EXCEPT !.network = Cached(servers).nics])
    /\ wiring' = [wiring EXCEPT !.queued = FALSE]
    /\ UNCHANGED elsewhere /\ UNCHANGED <<published, faults>>

\* The condition is removed, then the finalizer; that second write may fail.
ReconcileWiringDelete ==
    /\ wiring.phase = "deleting" /\ wiring.queued
    /\ PatchConditions([Cached(servers) EXCEPT !.network = "absent"])
    /\ \/ wiring' = [phase |-> "gone", queued |-> FALSE] /\ UNCHANGED faults
       \/ faults < MaxFaults /\ faults' = faults + 1 /\ UNCHANGED wiring
    /\ UNCHANGED elsewhere /\ UNCHANGED published

\* An administrator creates the ServerWiring, or deletes it.
UserWiring ==
    /\ WithWiring
    /\ \/ wiring.phase = "none" /\ wiring' = [phase |-> "live", queued |-> TRUE]
       \/ wiring.phase = "live" /\ wiring' = [phase |-> "deleting", queued |-> TRUE]
    /\ UNCHANGED servers /\ UNCHANGED elsewhere /\ UNCHANGED <<published, faults>>

\* The probe of the discovery finds the NICs as expected, or not.
NicsChange ==
    /\ WithWiring
    /\ \E n \in {"True", "False"} :
        WriteServer([Stored(servers) EXCEPT !.nics = n])
    /\ UNCHANGED elsewhere /\ UNCHANGED <<wiring, published, faults>>

\* The resourceVersion in the patch: a stale copy is refused and read again.
PatchAccepted == Len(servers) = 1

PatchServerCondition ==
    /\ WithPublisher
    /\ PatchAccepted
    /\ \E s \in {"False", "True"} :
        /\ PatchConditions([Cached(servers) EXCEPT !.done = s])
        /\ published' = s
    /\ UNCHANGED elsewhere /\ UNCHANGED <<wiring, faults>>

-----------------------------------------------------------------------------
(* metal-operator and the tenants *)

controllers == <<claims, secrets, queued, job, cleanups, wiring, published, faults>>

\* Assumption: the taint that --sanitization-tolerations tolerates keeps a
\* tenant's claim off a Server whose condition is Sanitized=False.
BindClaim ==
    LET server == Stored(servers) IN
    /\ server.state = "Available" /\ server.ref = None
    /\ \/ \E i \in DOMAIN Stored(claims) :
            /\ WriteServer([server EXCEPT !.ref = Stored(claims)[i].id])
            /\ UNCHANGED <<tenants, tenantWaits>>
       \/ /\ tenants < MaxTenants /\ server.sanitized # "False"
          /\ WriteServer([server EXCEPT !.ref = Tenant])
          /\ tenants' = tenants + 1 /\ tenantWaits' = TRUE
    /\ UNCHANGED controllers /\ UNCHANGED <<sanitizer, dirty>>

\* handleAvailableState; the tenant then writes to the disks.
Reserve ==
    LET server == Stored(servers) IN
    /\ server.state = "Available"
    /\ server.ref = Tenant \/ (server.ref \in Ids /\ ~StaysAvailable)
    /\ WriteServer([server EXCEPT !.state = "Reserved"])
    /\ dirty' = (dirty \/ server.ref = Tenant)
    /\ UNCHANGED controllers /\ UNCHANGED <<sanitizer, tenants, tenantWaits>>

Boot ==
    LET server == Stored(servers) IN
    /\ server.ref \in Ids /\ sanitizer = Idle
    /\ server.state = (IF StaysAvailable THEN "Available" ELSE "Reserved")
    /\ sanitizer' = [id |-> server.ref, phase |-> "wiping"]
    /\ UNCHANGED controllers /\ UNCHANGED <<servers, tenants, tenantWaits, dirty>>

\* Assumption: no watch event of a claim is delayed by a whole tenancy.
TenantLeaves ==
    /\ Stored(servers).state = "Reserved" /\ Stored(servers).ref = Tenant
    /\ tenantWaits /\ Len(claims) = 1
    /\ tenantWaits' = FALSE
    /\ UNCHANGED controllers /\ UNCHANGED <<servers, sanitizer, tenants, dirty>>

\* The claim behind the reference is gone.  The reclaim policy is Retain.
Reclaim ==
    LET server == Stored(servers) IN
    /\ \/ server.ref = Tenant /\ ~tenantWaits
       \/ server.ref \in Ids /\ ~Existing(server.ref)
    /\ \/ /\ server.state = "Available"
          /\ WriteServer([server EXCEPT !.ref = None])
       \/ /\ server.state = "Reserved"
          /\ WriteServer([server EXCEPT !.state = "Released"])
    /\ sanitizer' = Idle
    /\ UNCHANGED controllers /\ UNCHANGED <<tenants, tenantWaits, dirty>>

Recycle ==
    /\ Stored(servers).state = "Released" /\ Stored(servers).ref = None
    /\ WriteServer([Stored(servers) EXCEPT !.state = "Available"])
    /\ UNCHANGED controllers /\ UNCHANGED <<sanitizer, tenants, tenantWaits, dirty>>

Metal == BindClaim \/ Reserve \/ Boot \/ Reclaim \/ Recycle

\* The garbage collector removes a secret whose owner is gone.
CollectGarbage ==
    /\ \E id \in Ids :
        /\ secrets[id] = "owned" /\ ~Existing(id)
        /\ secrets' = [secrets EXCEPT ![id] = "none"]
    /\ UNCHANGED <<servers, claims, queued, job, cleanups>> /\ UNCHANGED outside

-----------------------------------------------------------------------------
(* Failures *)

\* A call fails: the reconcile returns the error and its request is retried.
CallFails ==
    /\ job # Idle /\ faults < MaxFaults
    /\ job' = Idle /\ queued' = TRUE /\ faults' = faults + 1
    /\ UNCHANGED <<servers, claims, secrets, cleanups, sanitizer, tenants,
                   tenantWaits, dirty, wiring, published>>

\* The operator restarts: its informers list what is stored, and each object
\* listed is an event its watches filter as any other.
Crash ==
    /\ faults < MaxFaults /\ faults' = faults + 1
    /\ servers' = <<Stored(servers)>> /\ claims' = <<Stored(claims)>>
    /\ queued' = (serverPredicate(Stored(servers)) \/ Stored(claims) # <<>>)
    /\ job' = Idle /\ cleanups' = {}
    /\ wiring' = enqueueFromServer
    /\ UNCHANGED <<secrets, sanitizer, tenants, tenantWaits, dirty, published>>

-----------------------------------------------------------------------------
(* Specification *)

\* A Server the controller has not met: in a tenant's hands.
Init ==
    /\ servers = <<[state |-> "Reserved", ref |-> Tenant, sanitized |-> "absent",
                    network |-> "absent", done |-> "absent", nics |-> "True"]>>
    /\ claims = <<<<>>>>
    /\ secrets = [id \in Ids |-> "none"]
    /\ queued = FALSE /\ job = Idle /\ cleanups = {}
    /\ sanitizer = Idle
    /\ tenants = 1 /\ tenantWaits = TRUE /\ dirty = TRUE
    /\ wiring = [phase |-> "none", queued |-> FALSE]
    /\ published = "absent"
    /\ faults = 0

Deliver == DeliverServer \/ DeliverClaims
Wirings == ReconcileWiring \/ ReconcileWiringDelete

Next ==
    \/ DeliverServer \/ DeliverClaims
    \/ Reconcile \/ Continue \/ cleanupOutdatedSanitizationResources
    \/ Wipe \/ Report
    \/ ReconcileWiring \/ ReconcileWiringDelete \/ UserWiring \/ NicsChange
    \/ PatchServerCondition
    \/ BindClaim \/ Reserve \/ Boot \/ TenantLeaves \/ Reclaim \/ Recycle
    \/ CollectGarbage \/ CallFails \/ Crash

Spec == Init /\ [][Next]_vars

\* Watches deliver, workers and goroutines run, metal-operator and the booted
\* sanitizer make progress.  Tenants, administrators and failures owe nothing.
Fairness ==
    /\ WF_vars(DeliverServer) /\ WF_vars(DeliverClaims)
    /\ WF_vars(Reconcile) /\ WF_vars(Continue)
    /\ WF_vars(cleanupOutdatedSanitizationResources)
    /\ WF_vars(Wipe) /\ WF_vars(Report)
    /\ WF_vars(Metal) /\ WF_vars(Wirings) /\ WF_vars(CollectGarbage)

LiveSpec == Spec /\ Fairness

-----------------------------------------------------------------------------
(* Properties *)

\* A tenant is given the Server only after its predecessor's data is gone,
\* however the release, the claims, the report and the cache interleave.
TenantFindsCleanDisks ==
    Stored(servers).state = "Available" /\ Stored(servers).ref = Tenant => ~dirty

\* A released Server whose condition does not say True from an earlier
\* sanitization comes to say so, and not before its disks are wiped.
ReleasedIsSanitized ==
    (Stored(servers).state = "Released" /\ Stored(servers).sanitized # "True")
        ~> (Stored(servers).sanitized = "True" /\ ~dirty)

\* No sanitization claim holds on to the Server for good, the duplicates
\* that a stale cache makes included: all are gone, or a tenant came first.
ClaimsGo ==
    (Stored(claims) # <<>>) ~>
        (Stored(claims) = <<>> \/ Stored(servers).ref = Tenant)

\* The state is well formed, and while a request is at rest the NetworkReady
\* condition says what the Server's NICs say, whoever else has replaced the
\* list meanwhile.
NetworkReadyIsCurrent ==
    /\ TypeOK
    /\ wiring.phase = "live" /\ ~wiring.queued /\ Len(servers) = 1
         => Stored(servers).network = Stored(servers).nics

-----------------------------------------------------------------------------
(* What the documentation, a comment or a test says, and TLC refutes under *)
(* the constants that the README names.                                    *)

\* A Server released with a tenant's data on its disks is wiped in the end.
ReleasedIsWiped == (Stored(servers).state = "Released" /\ dirty) ~> ~dirty

Resting ==
    /\ Len(servers) = 1 /\ Len(claims) = 1
    /\ job = Idle /\ ~queued /\ cleanups = {} /\ sanitizer = Idle

\* When all is quiet around a sanitized, free Server no ignition secret is
\* left that has no owner: DeleteAllOf has cleaned up what failures left.
NoSecretLeaks ==
    /\ Resting
    /\ Stored(servers).state = "Available" /\ Stored(servers).ref = None
    /\ Stored(servers).sanitized = "True"
    => \A id \in Ids : secrets[id] # "loose"

\* What the publisher wrote last is what the Server shows.
PublishedStays == Stored(servers).done = published

\* Of several sanitization claims the oldest is the one that stays: while
\* the Server waits to be sanitized no goroutine deletes the oldest of them.
OldestClaimWins ==
    [][cleanupOutdatedSanitizationResources /\ Len(Stored(claims)) > 1
        => \/ Stored(servers).sanitized # "False"
           \/ Stored(claims)[1] \in ToSet(Stored(claims)')]_vars
=============================================================================
