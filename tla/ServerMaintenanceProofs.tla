---------------------- MODULE ServerMaintenanceProofs ----------------------
(***************************************************************************)
(* Proofs about ServerMaintenance for every set of maintenances and every  *)
(* bound: types, the ownership of the Server, the single active            *)
(* maintenance, and that it implements ParkLock.                           *)
(***************************************************************************)
EXTENDS ServerMaintenance, TLAPS

-----------------------------------------------------------------------------
(* The order of the pending maintenances *)

(***************************************************************************)
(* shouldRunBefore is a strict total order for every choice of priorities, *)
(* policies, creation times and keys.                                      *)
(***************************************************************************)
THEOREM RunsBeforeIsStrictTotalOrder == StrictTotalOrder
<1>1. ASSUME NEW a \in Maintenances
      PROVE  ~ RunsBefore(a, a)
  BY <1>1, DataAssumption DEF RunsBefore
<1>2. ASSUME NEW a \in Maintenances, NEW b \in Maintenances,
             NEW c \in Maintenances, RunsBefore(a, b), RunsBefore(b, c)
      PROVE  RunsBefore(a, c)
  BY <1>2, DataAssumption, SMT DEF RunsBefore, Policies
<1>3. ASSUME NEW a \in Maintenances, NEW b \in Maintenances, a # b
      PROVE  RunsBefore(a, b) \/ RunsBefore(b, a)
  BY <1>3, DataAssumption, KeyAssumption, SMT DEF RunsBefore, Policies
<1>4. QED
  BY <1>1, <1>2, <1>3 DEF StrictTotalOrder

-----------------------------------------------------------------------------
(* Watch streams *)

\* A write appends its value, or changes nothing when it is stored already.
LEMMA WriteFacts ==
    ASSUME NEW S, NEW s \in Seq(S), Len(s) > 0, NEW x \in S
    PROVE  /\ Write(s, x) \in Seq(S) /\ Len(Write(s, x)) > 0
           /\ Stored(Write(s, x)) = x
           /\ Cached(Write(s, x)) = Cached(s)
           /\ Len(s) =< Len(Write(s, x))
           /\ \A i \in 1..Len(s) : Write(s, x)[i] = s[i]
           /\ \A i \in 1..Len(Write(s, x)) :
                 i \in 1..Len(s) \/ (Write(s, x)[i] = x /\ i = Len(s) + 1)
<1>1. CASE x = Stored(s)
  BY <1>1 DEF Write, Stored, Cached
<1>2. CASE x # Stored(s)
  <2>1. Write(s, x) = Append(s, x)
    BY <1>2 DEF Write
  <2> QED
    BY <2>1 DEF Stored, Cached
<1> QED
  BY <1>1, <1>2

\* A delivery drops the head and leaves the stored object.
LEMMA TailFacts ==
    ASSUME NEW S, NEW s \in Seq(S), Len(s) > 1
    PROVE  /\ Tail(s) \in Seq(S) /\ Len(Tail(s)) > 0
           /\ Stored(Tail(s)) = Stored(s)
           /\ Cached(Tail(s)) = s[2]
           /\ Len(Tail(s)) = Len(s) - 1
           /\ \A i \in 1..Len(Tail(s)) :
                 i + 1 \in 1..Len(s) /\ Tail(s)[i] = s[i + 1]
<1>1. /\ Len(s) \in Nat
      /\ Tail(s) \in Seq(S)
      /\ Len(Tail(s)) = Len(s) - 1
  OBVIOUS
<1>2. \A i \in 1..Len(Tail(s)) : Tail(s)[i] = s[i + 1]
  OBVIOUS
<1>3. \A i \in 1..Len(Tail(s)) : i + 1 \in 1..Len(s)
  BY <1>1
<1>4. Len(Tail(s)) > 0
  BY <1>1
<1>5. Tail(s)[Len(s) - 1] = s[Len(s)] /\ Tail(s)[1] = s[2]
  <2>1. Len(s) - 1 \in 1..Len(Tail(s)) /\ 1 \in 1..Len(Tail(s))
    BY <1>1
  <2>2. Len(s) - 1 + 1 = Len(s) /\ 1 + 1 = 2
    BY <1>1
  <2> QED
    BY <1>2, <2>1, <2>2
<1>6. Stored(Tail(s)) = Stored(s) /\ Cached(Tail(s)) = s[2]
  BY <1>1, <1>5 DEF Stored, Cached
<1> QED
  BY <1>1, <1>2, <1>3, <1>4, <1>6

\* The cached and the stored object are elements of their stream.
LEMMA EndFacts ==
    ASSUME NEW S, NEW s \in Seq(S), Len(s) > 0
    PROVE  /\ Cached(s) \in S /\ Stored(s) \in S
           /\ Len(s) \in Nat /\ Len(s) >= 1
           /\ 1 \in 1..Len(s) /\ Len(s) \in 1..Len(s)
           /\ Cached(s) = s[1] /\ Stored(s) = s[Len(s)]
  BY DEF Stored, Cached

\* The stream of an operator that has just listed a kind.
LEMMA FreshFacts ==
    ASSUME NEW S, NEW s \in Seq(S), Len(s) > 0
    PROVE  /\ <<Stored(s)>> \in Seq(S) /\ Len(<<Stored(s)>>) > 0
           /\ Stored(<<Stored(s)>>) = Stored(s)
           /\ Cached(<<Stored(s)>>) = Stored(s)
           /\ Len(<<Stored(s)>>) = 1
  BY DEF Stored, Cached

\* A stream holds one version, or the cache trails.
LEMMA OneOrMore ==
    ASSUME NEW n \in Nat, n > 0
    PROVE  /\ n = 1 \/ 1 < n
           /\ n = 1 => \A i, j \in 1..n : ~ (i < j)
  OBVIOUS

\* A stream of one version.
LEMMA SingletonFacts ==
    ASSUME NEW S, NEW x \in S
    PROVE  <<x>> \in Seq(S) /\ Len(<<x>>) > 0
  OBVIOUS

-----------------------------------------------------------------------------
(* Type correctness *)

\* Writing a value of the right type keeps the type of the stream.
LEMMA WriteTypes ==
    ASSUME TypeOK
    PROVE  /\ \A new \in Server :
                 WriteServer(new) => servers' \in Seq(Server) /\ Len(servers') > 0
           /\ \A new \in [Maintenances -> Maintenance] :
                 WriteMaintenances(new) =>
                    /\ maintenances' \in Seq([Maintenances -> Maintenance])
                    /\ Len(maintenances') > 0
           /\ \A new \in Claim :
                 WriteClaim(new) => claims' \in Seq(Claim) /\ Len(claims') > 0
<1>1. ASSUME NEW new \in Server, WriteServer(new)
      PROVE  servers' \in Seq(Server) /\ Len(servers') > 0
  BY <1>1, WriteFacts DEF TypeOK, WriteServer
<1>2. ASSUME NEW new \in [Maintenances -> Maintenance], WriteMaintenances(new)
      PROVE  /\ maintenances' \in Seq([Maintenances -> Maintenance])
             /\ Len(maintenances') > 0
  <2> DEFINE S == [Maintenances -> Maintenance]
  <2>1. maintenances \in Seq(S) /\ Len(maintenances) > 0 /\ new \in S
    BY <1>2 DEF TypeOK
  <2>2. maintenances' = Write(maintenances, new)
    BY <1>2 DEF WriteMaintenances
  <2> HIDE DEF S
  <2>3. maintenances' \in Seq(S) /\ Len(maintenances') > 0
    BY <2>1, <2>2, WriteFacts
  <2> QED
    BY <2>3 DEF S
<1>3. ASSUME NEW new \in Claim, WriteClaim(new)
      PROVE  claims' \in Seq(Claim) /\ Len(claims') > 0
  BY <1>3, WriteFacts DEF TypeOK, WriteClaim
<1> QED
  BY <1>1, <1>2, <1>3

\* The ends of the streams have the types of their objects.
LEMMA EndTypes ==
    ASSUME TypeOK
    PROVE  /\ Cached(servers) \in Server /\ Stored(servers) \in Server
           /\ Cached(maintenances) \in [Maintenances -> Maintenance]
           /\ Stored(maintenances) \in [Maintenances -> Maintenance]
           /\ Cached(claims) \in Claim /\ Stored(claims) \in Claim
<1> DEFINE S == [Maintenances -> Maintenance]
<1>1. maintenances \in Seq(S) /\ Len(maintenances) > 0
  BY DEF TypeOK
<1>2. Cached(maintenances) \in S /\ Stored(maintenances) \in S
  <2> HIDE DEF S
  <2> QED BY <1>1, EndFacts
<1>3. Cached(servers) \in Server /\ Stored(servers) \in Server
  BY EndFacts DEF TypeOK
<1>4. Cached(claims) \in Claim /\ Stored(claims) \in Claim
  BY EndFacts DEF TypeOK
<1> QED
  BY <1>2, <1>3, <1>4

\* Writing one maintenance of the right type keeps the type of the stream.
LEMMA WriteMaintenanceType ==
    ASSUME TypeOK, NEW m \in Maintenances, NEW new \in Maintenance,
           WriteMaintenance(m, new)
    PROVE  /\ maintenances' \in Seq([Maintenances -> Maintenance])
           /\ Len(maintenances') > 0
<1>1. [Stored(maintenances) EXCEPT ![m] = new] \in [Maintenances -> Maintenance]
  BY EndTypes
<1> QED
  BY <1>1, WriteTypes DEF WriteMaintenance

\* A status patch keeps the types of the stream and of the queue.
LEMMA PatchStateType ==
    ASSUME TypeOK, NEW m \in Maintenances, NEW state \in MaintenanceState,
           NEW requests \in SUBSET Maintenances,
           patchMaintenanceState(m, state, requests)
    PROVE  /\ maintenances' \in Seq([Maintenances -> Maintenance])
           /\ Len(maintenances') > 0
           /\ queue' \subseteq Maintenances
<1>1. [Stored(maintenances)[m] EXCEPT !.state = state] \in Maintenance
  BY EndTypes DEF Maintenance
<1>2. CASE Exists(Stored(maintenances)[m])
  BY <1>1, <1>2, WriteMaintenanceType DEF patchMaintenanceState
<1>3. CASE ~ Exists(Stored(maintenances)[m])
  BY <1>3 DEF patchMaintenanceState, TypeOK
<1> QED
  BY <1>2, <1>3

LEMMA InitType == Init => TypeOK
<1> DEFINE s == [owner |-> None, op |-> "none", state |-> "Initial",
                 claimed |-> FALSE, boot |-> FALSE]
           u == [phase |-> "unborn", finalizer |-> FALSE, state |-> ""]
           f == [m \in Maintenances |-> u]
           F == [Maintenances -> Maintenance]
<1> SUFFICES ASSUME Init PROVE TypeOK
  OBVIOUS
<1>1. /\ s \in Server
      /\ f \in F
      /\ NoClaim \in Claim
  BY DEF Server, ServerState, Operation, Maintenance, Phase, MaintenanceState,
         Claim
<1>2. servers = <<s>> /\ maintenances = <<f>> /\ claims = <<NoClaim>>
  BY DEF Init
<1>3. /\ servers \in Seq(Server) /\ Len(servers) > 0
      /\ maintenances \in Seq(F) /\ Len(maintenances) > 0
      /\ claims \in Seq(Claim) /\ Len(claims) > 0
  <2> HIDE DEF s, f, F
  <2> QED BY <1>1, <1>2, SingletonFacts
<1> QED
  BY <1>3 DEF Init, TypeOK

\* The watches deliver objects of the right type and wake maintenances only.
LEMMA DeliverType ==
    ASSUME TypeOK, Deliver
    PROVE  TypeOK'
<1> DEFINE F == [Maintenances -> Maintenance]
<1>1. CASE DeliverServer
  <2>1. servers' \in Seq(Server) /\ Len(servers') > 0
    BY <1>1, TailFacts DEF DeliverServer, TypeOK
  <2>2. servers[1] \in Server /\ servers[2] \in Server
    BY <1>1 DEF DeliverServer, TypeOK
  <2>3. queue' \subseteq Maintenances
    BY <1>1, <2>2 DEF DeliverServer, TypeOK, WokenByServer, Listed, Server
  <2> QED
    BY <1>1, <2>1, <2>3 DEF DeliverServer, TypeOK
<1>2. CASE DeliverMaintenance
  <2>1. maintenances \in Seq(F) /\ Len(maintenances) > 1
        /\ maintenances' = Tail(maintenances)
    BY <1>2 DEF DeliverMaintenance, TypeOK
  <2>2. maintenances' \in Seq(F) /\ Len(maintenances') > 0
    <3> HIDE DEF F
    <3> QED BY <2>1, TailFacts
  <2>3. queue' \subseteq Maintenances
    BY <1>2 DEF DeliverMaintenance, TypeOK
  <2> QED
    BY <1>2, <2>2, <2>3 DEF DeliverMaintenance, TypeOK
<1>3. CASE DeliverClaim
  <2>1. claims' \in Seq(Claim) /\ Len(claims') > 0
    BY <1>3, TailFacts DEF DeliverClaim, TypeOK
  <2>2. queue' \subseteq Maintenances
    BY <1>3 DEF DeliverClaim, TypeOK, WokenByClaim, Listed
  <2> QED
    BY <1>3, <2>1, <2>2 DEF DeliverClaim, TypeOK
<1> QED
  BY <1>1, <1>2, <1>3 DEF Deliver

LEMMA ReconcileType ==
    ASSUME TypeOK, NEW m \in Maintenances, Reconcile(m)
    PROVE  TypeOK'
<1>1. /\ "Pending" \in MaintenanceState
      /\ queue \ {m} \subseteq Maintenances
  BY DEF MaintenanceState, TypeOK
<1>2. CASE ReconcileGone(m)
  BY <1>2 DEF ReconcileGone, TypeOK
<1>3. CASE ReconcileForeignOwner(m)
  <2>1. CASE patchMaintenanceState(m, "Pending", queue \ {m})
    BY <1>1, <1>3, <2>1, PatchStateType DEF ReconcileForeignOwner, TypeOK
  <2>2. CASE queue' = queue \ {m} /\ UNCHANGED maintenances
    BY <1>1, <1>3, <2>2 DEF ReconcileForeignOwner, TypeOK
  <2> QED
    BY <1>3, <2>1, <2>2 DEF ReconcileForeignOwner
<1>4. CASE EnsureFinalizer(m)
  <2>1. [Stored(maintenances)[m] EXCEPT !.finalizer = TRUE] \in Maintenance
    BY EndTypes DEF Maintenance
  <2>2. CASE WriteMaintenance(m, [Stored(maintenances)[m] EXCEPT !.finalizer = TRUE])
             /\ queue' = queue \ {m}
    BY <1>1, <1>4, <2>1, <2>2, WriteMaintenanceType DEF EnsureFinalizer, TypeOK
  <2>3. CASE UNCHANGED <<maintenances, queue>>
    BY <1>4, <2>3 DEF EnsureFinalizer, TypeOK
  <2> QED
    BY <1>4, <2>2, <2>3 DEF EnsureFinalizer
<1>5. CASE InitialState(m)
  BY <1>1, <1>5, PatchStateType DEF InitialState, TypeOK
<1>6. CASE PendingDeferred(m)
  BY <1>6 DEF PendingDeferred, TypeOK
<1>7. CASE PendingUnclaimed(m)
  BY <1>7 DEF PendingUnclaimed, TypeOK, Steps
<1>8. CASE PendingClaimed(m)
  <2> DEFINE stored == Stored(claims)
             patched == [stored EXCEPT !.needed = @ \/ ~ Cached(claims).needed]
  <2>1. CASE stored = NoClaim
    BY <1>8, <2>1 DEF PendingClaimed, TypeOK
  <2>2. CASE stored # NoClaim
    <3>1. stored \in Claim
      BY EndTypes
    <3>2. patched \in Claim
      BY <2>2, <3>1, Zenon DEF Claim
    <3>3. WriteClaim(patched)
      BY <1>8, <2>2 DEF PendingClaimed
    <3>4. claims' \in Seq(Claim) /\ Len(claims') > 0
      BY <3>2, <3>3, WriteTypes
    <3>5. job' \in [m : Maintenances, pc : Steps] \cup {Idle}
      BY <1>8, <2>2 DEF PendingClaimed, Steps
    <3> QED
      BY <1>1, <1>8, <2>2, <3>4, <3>5 DEF PendingClaimed, TypeOK
  <2> QED
    BY <2>1, <2>2
<1>9. CASE HandleInMaintenance(m)
  BY <1>9 DEF HandleInMaintenance, TypeOK, Steps
<1>10. CASE DeleteHolder(m)
  <2>1. Unparked(Stored(servers)) \in Server
    BY EndTypes DEF Unparked, Server, Operation
  <2>2. servers' \in Seq(Server) /\ Len(servers') > 0
    BY <1>10, <2>1, WriteTypes DEF DeleteHolder
  <2>3. AfterUnpark(Stored(servers)) \in Steps
    BY DEF AfterUnpark, Steps
  <2> QED
    BY <1>1, <1>10, <2>2, <2>3 DEF DeleteHolder, TypeOK
<1>11. CASE DeleteOther(m)
  <2>1. AfterUnpark(Cached(servers)) \in Steps
    BY DEF AfterUnpark, Steps
  <2> QED
    BY <1>1, <1>11, <2>1 DEF DeleteOther, TypeOK
<1> QED
  BY <1>2, <1>3, <1>4, <1>5, <1>6, <1>7, <1>8, <1>9, <1>10, <1>11 DEF Reconcile

\* Both ways a park request can end.
LEMMA GrantedRefusedType ==
    ASSUME TypeOK, NEW m \in Maintenances, Granted(m) \/ Refused(m)
    PROVE  /\ job' \in [m : Maintenances, pc : Steps] \cup {Idle}
           /\ queue' \subseteq Maintenances
  BY DEF Granted, Refused, TypeOK, Steps

LEMMA ContinueType ==
    ASSUME TypeOK, NEW m \in Maintenances, Continue(m)
    PROVE  TypeOK'
<1>1. CASE RequestParkOwned(m)
  BY <1>1, GrantedRefusedType DEF RequestParkOwned, TypeOK
<1>2. CASE RequestParkAgain(m)
  <2>1. [Stored(servers) EXCEPT !.op = "park"] \in Server
    BY EndTypes DEF Server, Operation
  <2> QED
    BY <1>2, <2>1, GrantedRefusedType, WriteTypes DEF RequestParkAgain, TypeOK
<1>3. CASE ClaimServer(m)
  <2>1. [Stored(servers) EXCEPT !.owner = m, !.op = "park"] \in Server
    BY EndTypes DEF Server, Operation
  <2> QED
    BY <1>3, <2>1, GrantedRefusedType, WriteTypes DEF ClaimServer, TypeOK
<1>4. CASE RequestParkRefused(m)
  BY <1>4, GrantedRefusedType DEF RequestParkRefused, TypeOK
<1>5. CASE EnterMaintenance(m)
  <2>1. "InMaintenance" \in MaintenanceState /\ queue \subseteq Maintenances
    BY DEF MaintenanceState, TypeOK
  <2> QED
    BY <1>5, <2>1, PatchStateType DEF EnterMaintenance, TypeOK
<1>6. CASE ReturnToPending(m)
  <2>1. "Pending" \in MaintenanceState /\ queue \subseteq Maintenances
    BY DEF MaintenanceState, TypeOK
  <2> QED
    BY <1>6, <2>1, PatchStateType DEF ReturnToPending, TypeOK
<1>7. CASE RemoveBootConfigRef(m)
  <2>1. [Stored(servers) EXCEPT !.boot = FALSE] \in Server
    BY EndTypes DEF Server
  <2> QED
    BY <1>7, <2>1, WriteTypes DEF RemoveBootConfigRef, TypeOK, Steps
<1>8. CASE KeepLabels(m)
  BY <1>8 DEF KeepLabels, TypeOK, Steps
<1>9. CASE StripLabels(m)
  <2> DEFINE new == [needed |-> Stored(claims).needed /\ ~ Cached(claims).needed,
                     approved |-> Stored(claims).approved /\ ~ Cached(claims).approved]
  <2>1. CASE Stored(claims) = NoClaim
    BY <1>9, <2>1 DEF StripLabels, TypeOK
  <2>2. CASE Stored(claims) # NoClaim
    <3>1. new \in Claim
      BY DEF Claim
    <3>2. WriteClaim(new) /\ job' = [m |-> m, pc |-> "finish"] /\ UNCHANGED queue
      BY <1>9, <2>2 DEF StripLabels
    <3>3. claims' \in Seq(Claim) /\ Len(claims') > 0
      BY <3>1, <3>2, WriteTypes
    <3>4. UNCHANGED <<servers, maintenances, metal, faults, claimsMade>>
      BY <1>9 DEF StripLabels
    <3> QED
      BY <3>2, <3>3, <3>4 DEF TypeOK, Steps
  <2> QED
    BY <2>1, <2>2
<1>10. CASE RemoveFinalizer(m)
  <2>1. Gone \in Maintenance
    BY DEF Gone, Maintenance, Phase, MaintenanceState
  <2>2. CASE WriteMaintenance(m, Gone) /\ UNCHANGED queue
    BY <1>10, <2>1, <2>2, WriteMaintenanceType DEF RemoveFinalizer, TypeOK
  <2>3. CASE queue' = queue \cup {m} /\ UNCHANGED maintenances
    BY <1>10, <2>3 DEF RemoveFinalizer, TypeOK
  <2> QED
    BY <1>10, <2>2, <2>3 DEF RemoveFinalizer
<1> QED
  BY <1>1, <1>2, <1>3, <1>4, <1>5, <1>6, <1>7, <1>8, <1>9, <1>10 DEF Continue

LEMMA FailureType ==
    ASSUME TypeOK, CallFails \/ Restart
    PROVE  TypeOK'
<1> DEFINE F == [Maintenances -> Maintenance]
<1>1. CASE CallFails
  BY <1>1 DEF CallFails, TypeOK
<1>2. CASE Restart
  <2>1. /\ Stored(servers) \in Server
        /\ Stored(maintenances) \in F
        /\ Stored(claims) \in Claim
    BY EndTypes
  <2>2. /\ servers' \in Seq(Server) /\ Len(servers') > 0
        /\ maintenances' \in Seq(F) /\ Len(maintenances') > 0
        /\ claims' \in Seq(Claim) /\ Len(claims') > 0
    <3> HIDE DEF F
    <3> QED BY <1>2, <2>1, SingletonFacts DEF Restart
  <2> QED
    BY <1>2, <2>2 DEF Restart, TypeOK
<1> QED
  BY <1>1, <1>2

LEMMA MetalOperatorType ==
    ASSUME TypeOK, MetalOperator
    PROVE  TypeOK'
<1>1. Stored(servers) \in Server
  BY EndTypes
<1>2. CASE ReadOperation
  BY <1>2 DEF ReadOperation, TypeOK, MetalSteps
<1>3. ASSUME NEW step, NEW state \in ServerState,
             PatchServerState(step, state)
      PROVE  TypeOK'
  <2>1. [Stored(servers) EXCEPT !.state = state] \in Server
    BY <1>1, <1>3 DEF Server
  <2> QED
    BY <1>3, <2>1, WriteTypes DEF PatchServerState, TypeOK, MetalSteps
<1>4. CASE ConsumeOperation
  <2>1. [Stored(servers) EXCEPT !.op = "none"] \in Server
    BY <1>1 DEF Server, Operation
  <2> QED
    BY <1>4, <2>1, WriteTypes DEF ConsumeOperation, TypeOK
<1>5. CASE SyncClaimState
  <2> DEFINE s == Stored(servers)
  <2>1. /\ [s EXCEPT !.state = "Available"] \in Server
        /\ [s EXCEPT !.claimed = FALSE, !.boot = FALSE] \in Server
        /\ [s EXCEPT !.state = "Reserved"] \in Server
    BY <1>1 DEF Server, ServerState
  <2>2. \/ WriteServer([s EXCEPT !.state = "Available"])
        \/ WriteServer([s EXCEPT !.claimed = FALSE, !.boot = FALSE])
        \/ WriteServer([s EXCEPT !.state = "Reserved"])
    BY <1>5 DEF SyncClaimState
  <2>3. servers' \in Seq(Server) /\ Len(servers') > 0
    BY <2>1, <2>2, WriteTypes
  <2> QED
    BY <1>5, <2>3 DEF SyncClaimState, TypeOK
<1>6. CASE BindClaim
  <2>1. [Stored(servers) EXCEPT !.claimed = TRUE, !.boot = TRUE] \in Server
    BY <1>1 DEF Server
  <2> QED
    BY <1>6, <2>1, WriteTypes DEF BindClaim, TypeOK
<1>7. \/ PatchServerState("toParked", "Parked")
      \/ PatchServerState("toAvailable", "Available")
      \/ PatchServerState("toReserved", "Reserved")
      => TypeOK'
  <2>1. {"Parked", "Available", "Reserved"} \subseteq ServerState
    BY DEF ServerState
  <2> QED
    BY <1>3, <2>1
<1> QED
  BY <1>2, <1>4, <1>5, <1>6, <1>7 DEF MetalOperator

LEMMA UsersType ==
    ASSUME TypeOK, Users
    PROVE  TypeOK'
<1>1. ASSUME NEW m \in Maintenances, CreateMaintenance(m)
      PROVE  TypeOK'
  <2>1. [phase |-> "live", finalizer |-> FALSE, state |-> ""] \in Maintenance
    BY DEF Maintenance, Phase, MaintenanceState
  <2> QED
    BY <1>1, <2>1, WriteMaintenanceType DEF CreateMaintenance, TypeOK
<1>2. ASSUME NEW m \in Maintenances, DeleteMaintenance(m)
      PROVE  TypeOK'
  <2>1. /\ [Stored(maintenances)[m] EXCEPT !.phase = "deleting"] \in Maintenance
        /\ Gone \in Maintenance
    BY EndTypes DEF Maintenance, Phase, MaintenanceState, Gone
  <2>2. /\ maintenances' \in Seq([Maintenances -> Maintenance])
        /\ Len(maintenances') > 0
    BY <1>2, <2>1, WriteMaintenanceType DEF DeleteMaintenance
  <2> QED
    BY <1>2, <2>2 DEF DeleteMaintenance, TypeOK
<1>3. CASE CreateClaim
  <2>1. [needed |-> FALSE, approved |-> FALSE] \in Claim
    BY DEF Claim
  <2> QED
    BY <1>3, <2>1, WriteTypes DEF CreateClaim, TypeOK
<1>4. CASE ApproveMaintenance
  <2>1. [Stored(claims) EXCEPT !.approved = TRUE] \in Claim
    BY <1>4, EndTypes DEF ApproveMaintenance, Claim
  <2> QED
    BY <1>4, <2>1, WriteTypes DEF ApproveMaintenance, TypeOK
<1>5. CASE DeleteClaim
  <2>1. NoClaim \in Claim
    BY DEF Claim
  <2> QED
    BY <1>5, <2>1, WriteTypes DEF DeleteClaim, TypeOK
<1> QED
  BY <1>1, <1>2, <1>3, <1>4, <1>5 DEF Users

LEMMA TypeStep == TypeOK /\ [Next]_vars => TypeOK'
<1> SUFFICES ASSUME TypeOK, [Next]_vars PROVE TypeOK'
  OBVIOUS
<1>1. CASE UNCHANGED vars
  BY <1>1 DEF vars, TypeOK
<1>2. CASE Next
  BY <1>2, DeliverType, ReconcileType, ContinueType, FailureType,
     MetalOperatorType, UsersType DEF Next
<1> QED
  BY <1>1, <1>2

(***************************************************************************)
(* Every variable keeps its type, for every set of maintenances, every lag *)
(* of the caches and every number of failures.                             *)
(***************************************************************************)
THEOREM TypeCorrect == Spec => []TypeOK
  BY InitType, TypeStep, PTL DEF Spec

-----------------------------------------------------------------------------
(* Ownership.  Every step does one of a few things to the two streams and  *)
(* to the reconcile in progress.                                           *)

Asking(j, m) == \E pc \in {"park", "repark", "enter"} : j = [m |-> m, pc |-> pc]

\* The reconcile in progress stays, or becomes one that asks for nothing.
JobSettles == job' = job \/ \A m \in Maintenances : ~ Asking(job', m)

KeepsOwner ==
    /\ UNCHANGED maintenances
    /\ JobSettles
    /\ \E new \in Server : /\ new.owner = Stored(servers).owner
                           /\ servers' = Write(servers, new)

StartsAsking(m) ==
    /\ UNCHANGED <<servers, maintenances>>
    /\ Alive(m)
    /\ job' \in {[m |-> m, pc |-> "park"], [m |-> m, pc |-> "repark"]}

FindsItself(m) ==
    /\ UNCHANGED maintenances
    /\ Parking(m)
    /\ Cached(servers).owner = m
    /\ \E new \in Server : /\ new.owner = Stored(servers).owner
                           /\ servers' = Write(servers, new)
    /\ job' \in {Idle, [m |-> m, pc |-> "enter"]}

Takes(m) ==
    /\ UNCHANGED maintenances
    /\ Len(servers) = 1
    /\ Stored(servers).owner = None
    /\ \E new \in Server : new.owner = m /\ servers' = Write(servers, new)
    /\ job' \in {Idle, [m |-> m, pc |-> "enter"]}

GivesUp(m) ==
    /\ UNCHANGED maintenances
    /\ Deleted(Cached(maintenances)[m])
    /\ Cached(servers).owner = m
    /\ \E new \in Server : new.owner = None /\ servers' = Write(servers, new)
    /\ \A n \in Maintenances : ~ Asking(job', n)

\* The status, finalizer or deletion of m; it becomes active only from "enter".
ChangesMaintenance(m) ==
    /\ UNCHANGED servers
    /\ JobSettles
    /\ \E new \in Maintenance :
          /\ Deleted(Stored(maintenances)[m]) => Deleted(new)
          /\ new.phase = "live" /\ new.state = "InMaintenance" =>
                \/ Stored(maintenances)[m].phase = "live"
                   /\ Stored(maintenances)[m].state = "InMaintenance"
                \/ At(m, "enter")
          /\ maintenances' =
                Write(maintenances, [Stored(maintenances) EXCEPT ![m] = new])

ServerArrives ==
    /\ Len(servers) > 1 /\ servers' = Tail(servers)
    /\ UNCHANGED <<maintenances, job>>

MaintenanceArrives ==
    /\ Len(maintenances) > 1 /\ maintenances' = Tail(maintenances)
    /\ UNCHANGED <<servers, job>>

Rest ==
    /\ UNCHANGED <<servers, maintenances>>
    /\ JobSettles

Effect ==
    \/ Rest \/ KeepsOwner \/ ServerArrives \/ MaintenanceArrives \/ Restart
    \/ \E m \in Maintenances :
          \/ StartsAsking(m) \/ FindsItself(m) \/ Takes(m) \/ GivesUp(m)
          \/ ChangesMaintenance(m)

\* A reconcile that is over, or at one of the other writes, asks for nothing.
LEMMA NotAsking ==
    /\ \A n \in Maintenances : ~ Asking(Idle, n)
    /\ \A m, n \in Maintenances :
          \A pc \in {"demote", "boot", "strip", "finish"} :
             ~ Asking([m |-> m, pc |-> pc], n)
<1>1. ASSUME NEW n \in Maintenances, NEW pc \in {"park", "repark", "enter"}
      PROVE  Idle # [m |-> n, pc |-> pc]
  <2>1. [m |-> n, pc |-> pc] \in [m : Maintenances, pc : Steps]
    BY DEF Steps
  <2> QED
    BY <2>1, ValuesAssumption
<1>2. ASSUME NEW m, NEW n, NEW p, NEW q, p # q
      PROVE  [m |-> m, pc |-> p] # [m |-> n, pc |-> q]
  <2>1. [m |-> m, pc |-> p].pc = p /\ [m |-> n, pc |-> q].pc = q
    OBVIOUS
  <2> QED
    BY <1>2, <2>1, Zenon
<1>3. \A n \in Maintenances : ~ Asking(Idle, n)
  BY <1>1, Zenon DEF Asking
<1>4. ASSUME NEW m \in Maintenances, NEW n \in Maintenances,
             NEW pc \in {"demote", "boot", "strip", "finish"}
      PROVE  ~ Asking([m |-> m, pc |-> pc], n)
  <2>1. pc \notin {"park", "repark", "enter"}
    OBVIOUS
  <2> QED
    BY <1>2, <2>1, Zenon DEF Asking
<1> QED
  BY <1>3, <1>4, Zenon

LEMMA DeliverEffect ==
    ASSUME Deliver
    PROVE  Effect
<1>1. CASE DeliverServer
  BY <1>1 DEF DeliverServer, Effect, ServerArrives
<1>2. CASE DeliverMaintenance
  BY <1>2 DEF DeliverMaintenance, Effect, MaintenanceArrives
<1>3. CASE DeliverClaim
  BY <1>3 DEF DeliverClaim, Effect, Rest, JobSettles
<1> QED
  BY <1>1, <1>2, <1>3 DEF Deliver

\* A status patch that does not enter maintenance.
LEMMA PatchEffect ==
    ASSUME TypeOK, NEW m \in Maintenances, NEW state \in MaintenanceState,
           NEW requests, patchMaintenanceState(m, state, requests),
           UNCHANGED servers, JobSettles,
           state = "InMaintenance" => At(m, "enter")
    PROVE  Effect
<1>1. CASE Exists(Stored(maintenances)[m])
  <2> DEFINE new == [Stored(maintenances)[m] EXCEPT !.state = state]
  <2>1. /\ new \in Maintenance
        /\ new.phase = Stored(maintenances)[m].phase
        /\ new.state = state
    BY EndTypes DEF Maintenance
  <2>2. maintenances' =
           Write(maintenances, [Stored(maintenances) EXCEPT ![m] = new])
    BY <1>1 DEF patchMaintenanceState, WriteMaintenance, WriteMaintenances
  <2>3. ChangesMaintenance(m)
    BY <2>1, <2>2 DEF ChangesMaintenance, Deleted
  <2> QED
    BY <2>3 DEF Effect
<1>2. CASE ~ Exists(Stored(maintenances)[m])
  BY <1>2 DEF patchMaintenanceState, Effect, Rest
<1> QED
  BY <1>1, <1>2

LEMMA ReconcileEffect ==
    ASSUME TypeOK, NEW m \in Maintenances, Reconcile(m)
    PROVE  Effect
<1>1. "Pending" \in MaintenanceState
  BY DEF MaintenanceState
<1>2. CASE ReconcileGone(m)
  BY <1>2 DEF ReconcileGone, Effect, Rest, JobSettles
<1>3. CASE ReconcileForeignOwner(m)
  <2>1. UNCHANGED <<servers, job>>
    BY <1>3 DEF ReconcileForeignOwner
  <2>2. CASE patchMaintenanceState(m, "Pending", queue \ {m})
    BY <1>1, <2>1, <2>2, PatchEffect DEF JobSettles
  <2>3. CASE UNCHANGED maintenances
    BY <2>1, <2>3 DEF Effect, Rest, JobSettles
  <2> QED
    BY <1>3, <2>2, <2>3 DEF ReconcileForeignOwner
<1>4. CASE EnsureFinalizer(m)
  <2> DEFINE new == [Stored(maintenances)[m] EXCEPT !.finalizer = TRUE]
  <2>1. /\ new \in Maintenance
        /\ new.phase = Stored(maintenances)[m].phase
        /\ new.state = Stored(maintenances)[m].state
    BY EndTypes DEF Maintenance
  <2>2. UNCHANGED <<servers, job>>
    BY <1>4 DEF EnsureFinalizer
  <2>3. CASE WriteMaintenance(m, new)
    <3>1. ChangesMaintenance(m)
      BY <2>1, <2>2, <2>3 DEF ChangesMaintenance, WriteMaintenance,
         WriteMaintenances, Deleted, JobSettles
    <3> QED
      BY <3>1 DEF Effect
  <2>4. CASE UNCHANGED maintenances
    BY <2>2, <2>4 DEF Effect, Rest, JobSettles
  <2> QED
    BY <1>4, <2>3, <2>4 DEF EnsureFinalizer
<1>5. CASE InitialState(m)
  BY <1>1, <1>5, PatchEffect DEF InitialState, JobSettles
<1>6. CASE PendingDeferred(m)
  BY <1>6 DEF PendingDeferred, Effect, Rest, JobSettles
<1>7. CASE PendingUnclaimed(m)
  <2>1. StartsAsking(m)
    BY <1>7 DEF PendingUnclaimed, StartsAsking, InState
  <2> QED
    BY <2>1 DEF Effect
<1>8. CASE PendingClaimed(m)
  <2>1. UNCHANGED <<servers, maintenances>> /\ Alive(m)
    BY <1>8 DEF PendingClaimed, InState
  <2>2. \/ job' = job \/ job' = Idle \/ job' = [m |-> m, pc |-> "park"]
    BY <1>8 DEF PendingClaimed
  <2>3. CASE job' = [m |-> m, pc |-> "park"]
    BY <2>1, <2>3 DEF StartsAsking, Effect
  <2>4. CASE job' = job \/ job' = Idle
    BY <2>1, <2>4, NotAsking DEF Effect, Rest, JobSettles
  <2> QED
    BY <2>2, <2>3, <2>4
<1>9. CASE HandleInMaintenance(m)
  <2>1. UNCHANGED <<servers, maintenances>> /\ Alive(m)
    BY <1>9 DEF HandleInMaintenance, InState
  <2>2. \/ job' = Idle \/ job' = [m |-> m, pc |-> "repark"]
    BY <1>9 DEF HandleInMaintenance
  <2>3. CASE job' = [m |-> m, pc |-> "repark"]
    BY <2>1, <2>3 DEF StartsAsking, Effect
  <2>4. CASE job' = Idle
    BY <2>1, <2>4, NotAsking DEF Effect, Rest, JobSettles
  <2> QED
    BY <2>2, <2>3, <2>4
<1>10. CASE DeleteHolder(m)
  <2> DEFINE new == Unparked(Stored(servers))
  <2>1. new \in Server /\ new.owner = None
    BY EndTypes DEF Unparked, Server, Operation
  <2>2. AfterUnpark(Stored(servers)) \in {"boot", "strip", "finish"}
    BY DEF AfterUnpark
  <2>3. /\ UNCHANGED maintenances
        /\ Cached(maintenances)[m].phase = "deleting"
        /\ Cached(servers).owner = m
        /\ servers' = Write(servers, new)
        /\ job' = [m |-> m, pc |-> AfterUnpark(Stored(servers))]
    BY <1>10 DEF DeleteHolder, Holds, WriteServer
  <2>4. \A n \in Maintenances : ~ Asking(job', n)
    BY <2>2, <2>3, NotAsking
  <2>5. GivesUp(m)
    BY <2>1, <2>3, <2>4 DEF GivesUp, Deleted
  <2> QED
    BY <2>5 DEF Effect
<1>11. CASE DeleteOther(m)
  <2>1. AfterUnpark(Cached(servers)) \in {"boot", "strip", "finish"}
    BY DEF AfterUnpark
  <2> QED
    BY <1>11, <2>1, NotAsking DEF DeleteOther, Effect, Rest, JobSettles
<1> QED
  BY <1>2, <1>3, <1>4, <1>5, <1>6, <1>7, <1>8, <1>9, <1>10, <1>11 DEF Reconcile

\* How a park request that was granted or refused ends.
LEMMA GrantedRefusedEffect ==
    ASSUME NEW m \in Maintenances
    PROVE  /\ Granted(m) => job' \in {Idle, [m |-> m, pc |-> "enter"]}
           /\ Refused(m) => JobSettles
<1>1. Granted(m) => job' \in {Idle, [m |-> m, pc |-> "enter"]}
  BY DEF Granted
<1>2. ASSUME Refused(m) PROVE JobSettles
  <2>1. job' = Idle \/ job' = [m |-> m, pc |-> "demote"]
    BY <1>2 DEF Refused
  <2> QED
    BY <2>1, NotAsking DEF JobSettles
<1> QED
  BY <1>1, <1>2

LEMMA ContinueEffect ==
    ASSUME TypeOK, NEW m \in Maintenances, Continue(m)
    PROVE  Effect
<1> DEFINE S == Stored(servers)
<1>1. S \in Server
  BY EndTypes
<1>2. servers' = servers => servers' = Write(servers, S)
  BY DEF Write
<1>3. CASE RequestParkOwned(m)
  <2>1. FindsItself(m)
    BY <1>1, <1>2, <1>3, GrantedRefusedEffect DEF RequestParkOwned, FindsItself
  <2> QED
    BY <2>1 DEF Effect
<1>4. CASE RequestParkAgain(m)
  <2> DEFINE new == [S EXCEPT !.op = "park"]
  <2>1. new \in Server /\ new.owner = S.owner
    BY <1>1 DEF Server, Operation
  <2>2. servers' = Write(servers, new)
    BY <1>4 DEF RequestParkAgain, WriteServer
  <2>3. FindsItself(m)
    BY <1>4, <2>1, <2>2, GrantedRefusedEffect DEF RequestParkAgain, FindsItself
  <2> QED
    BY <2>3 DEF Effect
<1>5. CASE ClaimServer(m)
  <2> DEFINE new == [S EXCEPT !.owner = m, !.op = "park"]
  <2>1. new \in Server /\ new.owner = m
    BY <1>1 DEF Server, Operation
  <2>2. servers' = Write(servers, new)
    BY <1>5 DEF ClaimServer, WriteServer
  <2>3. Len(servers) = 1 /\ S.owner = None
    BY <1>5 DEF ClaimServer, UpdateAccepted, Stored, Cached
  <2>4. Takes(m)
    BY <1>5, <2>1, <2>2, <2>3, GrantedRefusedEffect DEF ClaimServer, Takes
  <2> QED
    BY <2>4 DEF Effect
<1>6. CASE RequestParkRefused(m)
  BY <1>6, GrantedRefusedEffect DEF RequestParkRefused, Effect, Rest
<1>7. CASE EnterMaintenance(m)
  <2>1. "InMaintenance" \in MaintenanceState
    BY DEF MaintenanceState
  <2>2. JobSettles
    BY <1>7, NotAsking DEF EnterMaintenance, JobSettles
  <2> QED
    BY <1>7, <2>1, <2>2, PatchEffect DEF EnterMaintenance
<1>8. CASE ReturnToPending(m)
  <2>1. "Pending" \in MaintenanceState
    BY DEF MaintenanceState
  <2>2. JobSettles
    BY <1>8, NotAsking DEF ReturnToPending, JobSettles
  <2> QED
    BY <1>8, <2>1, <2>2, PatchEffect DEF ReturnToPending
<1>9. CASE RemoveBootConfigRef(m)
  <2> DEFINE new == [S EXCEPT !.boot = FALSE]
  <2>1. new \in Server /\ new.owner = S.owner
    BY <1>1 DEF Server
  <2>2. servers' = Write(servers, new) /\ UNCHANGED maintenances
    BY <1>9 DEF RemoveBootConfigRef, WriteServer
  <2>3. JobSettles
    BY <1>9, NotAsking DEF RemoveBootConfigRef, JobSettles
  <2> QED
    BY <2>1, <2>2, <2>3 DEF Effect, KeepsOwner
<1>10. CASE KeepLabels(m)
  BY <1>10, NotAsking DEF KeepLabels, Effect, Rest, JobSettles
<1>11. CASE StripLabels(m)
  BY <1>11, NotAsking DEF StripLabels, Effect, Rest, JobSettles
<1>12. CASE RemoveFinalizer(m)
  <2>1. UNCHANGED servers /\ JobSettles
    BY <1>12, NotAsking DEF RemoveFinalizer, JobSettles
  <2>2. CASE WriteMaintenance(m, Gone)
    <3>1. Gone \in Maintenance /\ Gone.phase = "gone"
      BY DEF Gone, Maintenance, Phase, MaintenanceState
    <3>2. maintenances' =
             Write(maintenances, [Stored(maintenances) EXCEPT ![m] = Gone])
      BY <2>2 DEF WriteMaintenance, WriteMaintenances
    <3>3. ChangesMaintenance(m)
      BY <2>1, <3>1, <3>2 DEF ChangesMaintenance, Deleted
    <3> QED
      BY <3>3 DEF Effect
  <2>3. CASE UNCHANGED maintenances
    BY <2>1, <2>3 DEF Effect, Rest
  <2> QED
    BY <1>12, <2>2, <2>3 DEF RemoveFinalizer
<1> QED
  BY <1>3, <1>4, <1>5, <1>6, <1>7, <1>8, <1>9, <1>10, <1>11, <1>12 DEF Continue

LEMMA CallFailsEffect ==
    ASSUME CallFails
    PROVE  Effect
  BY NotAsking DEF CallFails, Effect, Rest, JobSettles

\* metal-operator never writes the owner.
LEMMA MetalOperatorEffect ==
    ASSUME TypeOK, MetalOperator
    PROVE  Effect
<1> DEFINE S == Stored(servers)
<1>1. S \in Server
  BY EndTypes
<1>2. UNCHANGED <<maintenances, job>>
  BY DEF MetalOperator, ReadOperation, PatchServerState, ConsumeOperation,
     SyncClaimState, BindClaim
<1>3. ASSUME NEW new \in Server, new.owner = S.owner, WriteServer(new)
      PROVE  Effect
  BY <1>2, <1>3 DEF Effect, KeepsOwner, JobSettles, WriteServer
<1>4. CASE ReadOperation
  BY <1>2, <1>4 DEF ReadOperation, Effect, Rest, JobSettles
<1>5. ASSUME NEW state \in ServerState
      PROVE  /\ [S EXCEPT !.state = state] \in Server
             /\ [S EXCEPT !.state = state].owner = S.owner
  BY <1>1 DEF Server
<1>6. ASSUME NEW state \in ServerState, NEW step, PatchServerState(step, state)
      PROVE  Effect
  BY <1>3, <1>5, <1>6 DEF PatchServerState
<1>7. CASE ConsumeOperation
  <2>1. /\ [S EXCEPT !.op = "none"] \in Server
        /\ [S EXCEPT !.op = "none"].owner = S.owner
    BY <1>1 DEF Server, Operation
  <2> QED
    BY <1>3, <1>7, <2>1 DEF ConsumeOperation
<1>8. CASE SyncClaimState
  <2>1. /\ [S EXCEPT !.claimed = FALSE, !.boot = FALSE] \in Server
        /\ [S EXCEPT !.claimed = FALSE, !.boot = FALSE].owner = S.owner
    BY <1>1 DEF Server
  <2>2. "Available" \in ServerState /\ "Reserved" \in ServerState
    BY DEF ServerState
  <2>3. \/ WriteServer([S EXCEPT !.state = "Available"])
        \/ WriteServer([S EXCEPT !.claimed = FALSE, !.boot = FALSE])
        \/ WriteServer([S EXCEPT !.state = "Reserved"])
    BY <1>8 DEF SyncClaimState
  <2> QED
    BY <1>3, <1>5, <2>1, <2>2, <2>3
<1>9. CASE BindClaim
  <2>1. /\ [S EXCEPT !.claimed = TRUE, !.boot = TRUE] \in Server
        /\ [S EXCEPT !.claimed = TRUE, !.boot = TRUE].owner = S.owner
    BY <1>1 DEF Server
  <2> QED
    BY <1>3, <1>9, <2>1 DEF BindClaim
<1>10. /\ "Parked" \in ServerState /\ "Available" \in ServerState
       /\ "Reserved" \in ServerState
  BY DEF ServerState
<1> QED
  BY <1>4, <1>6, <1>7, <1>8, <1>9, <1>10 DEF MetalOperator

LEMMA UsersEffect ==
    ASSUME TypeOK, Users
    PROVE  Effect
<1>1. UNCHANGED <<servers, job>>
  BY DEF Users, CreateMaintenance, DeleteMaintenance, CreateClaim,
     ApproveMaintenance, DeleteClaim
<1>2. ASSUME NEW m \in Maintenances, CreateMaintenance(m)
      PROVE  Effect
  <2> DEFINE new == [phase |-> "live", finalizer |-> FALSE, state |-> ""]
  <2>1. /\ new \in Maintenance /\ new.state = ""
        /\ Stored(maintenances)[m].phase = "unborn"
    BY <1>2 DEF CreateMaintenance, Maintenance, Phase, MaintenanceState
  <2>2. maintenances' =
           Write(maintenances, [Stored(maintenances) EXCEPT ![m] = new])
    BY <1>2 DEF CreateMaintenance, WriteMaintenance, WriteMaintenances
  <2>3. ChangesMaintenance(m)
    BY <1>1, <2>1, <2>2 DEF ChangesMaintenance, Deleted, JobSettles
  <2> QED
    BY <2>3 DEF Effect
<1>3. ASSUME NEW m \in Maintenances, DeleteMaintenance(m)
      PROVE  Effect
  <2> DEFINE new == IF Stored(maintenances)[m].finalizer
                    THEN [Stored(maintenances)[m] EXCEPT !.phase = "deleting"]
                    ELSE Gone
  <2>1. new \in Maintenance /\ new.phase \in {"deleting", "gone"}
    BY EndTypes DEF Gone, Maintenance, Phase, MaintenanceState
  <2>2. maintenances' =
           Write(maintenances, [Stored(maintenances) EXCEPT ![m] = new])
    BY <1>3 DEF DeleteMaintenance, WriteMaintenance, WriteMaintenances
  <2>3. ChangesMaintenance(m)
    BY <1>1, <2>1, <2>2 DEF ChangesMaintenance, Deleted, JobSettles
  <2> QED
    BY <2>3 DEF Effect
<1>4. CASE CreateClaim \/ ApproveMaintenance \/ DeleteClaim
  BY <1>1, <1>4 DEF CreateClaim, ApproveMaintenance, DeleteClaim, Effect, Rest,
     JobSettles
<1> QED
  BY <1>2, <1>3, <1>4 DEF Users

LEMMA StepEffect ==
    ASSUME TypeOK, [Next]_vars
    PROVE  Effect
<1>1. CASE UNCHANGED vars
  BY <1>1 DEF vars, Effect, Rest, JobSettles
<1>2. CASE Next
  BY <1>2, DeliverEffect, ReconcileEffect, ContinueEffect, CallFailsEffect,
     MetalOperatorEffect, UsersEffect DEF Next, Effect
<1> QED
  BY <1>1, <1>2

-----------------------------------------------------------------------------
(* OwnershipInv is inductive *)

LEMMA InitOwnership == Init => OwnershipInv
<1> SUFFICES ASSUME Init PROVE OwnershipInv
  OBVIOUS
<1> DEFINE u == [m \in Maintenances |->
                  [phase |-> "unborn", finalizer |-> FALSE, state |-> ""]]
<1>1. /\ Len(servers) = 1 /\ servers[1].owner = None
      /\ Stored(servers) = servers[1]
  BY DEF Init, Stored
<1>2. Len(maintenances) = 1 /\ Stored(maintenances) = u
  BY DEF Init, Stored
<1>3. \A m \in Maintenances : ~ Asking(job, m)
  BY NotAsking DEF Init
<1>4. /\ \A i, j \in 1..Len(servers) : ~ (i < j)
      /\ \A i, j \in 1..Len(maintenances) : ~ (i < j)
  <2>1. 1 \in Nat /\ 1 > 0 /\ 1 = 1
    OBVIOUS
  <2>2. \A i, j \in 1..1 : ~ (i < j)
    BY <2>1, OneOrMore
  <2> QED
    BY <1>1, <1>2, <2>2, Zenon
<1>8. NeverReclaimed /\ DeletionIsFinal
  BY <1>4 DEF NeverReclaimed, DeletionIsFinal
<1>5. ReleasedIsDeleted
  BY <1>1, ValuesAssumption DEF ReleasedIsDeleted
<1>6. ParkingKeepsOwner /\ EntersAsOwner
  BY <1>3, Zenon DEF ParkingKeepsOwner, EntersAsOwner, At, Asking
<1>7. ActiveOwnsServer
  <2>1. \A m \in Maintenances : u[m].phase = "unborn"
    OBVIOUS
  <2>2. \A m \in Maintenances : Stored(maintenances)[m].phase = "unborn"
    <3> HIDE DEF u
    <3> QED BY <1>2, <2>1, Zenon
  <2> QED
    BY <2>2 DEF ActiveOwnsServer, Live
<1> QED
  BY <1>8, <1>5, <1>6, <1>7 DEF OwnershipInv

\* What a write that keeps the owner does to the owners in the stream.
LEMMA KeptOwners ==
    ASSUME TypeOK, NEW new \in Server, new.owner = Stored(servers).owner,
           servers' = Write(servers, new)
    PROVE  /\ Stored(servers').owner = Stored(servers).owner
           /\ Cached(servers') = Cached(servers)
           /\ \A i \in 1..Len(servers') :
                 \/ i \in 1..Len(servers) /\ servers'[i] = servers[i]
                 \/ servers'[i].owner = Stored(servers).owner /\ i = Len(servers) + 1
           /\ NeverReclaimed => NeverReclaimed'
<1>1. servers \in Seq(Server) /\ Len(servers) > 0
  BY DEF TypeOK
<1>2. /\ Stored(servers') = new
      /\ Cached(servers') = Cached(servers)
      /\ Len(servers') \in Nat /\ Len(servers) \in Nat
      /\ \A i \in 1..Len(servers) : servers'[i] = servers[i]
      /\ \A i \in 1..Len(servers') :
            i \in 1..Len(servers) \/ (servers'[i] = new /\ i = Len(servers) + 1)
  <2>1. /\ servers' \in Seq(Server)
        /\ Stored(servers') = new
        /\ Cached(servers') = Cached(servers)
        /\ \A i \in 1..Len(servers) : servers'[i] = servers[i]
        /\ \A i \in 1..Len(servers') :
              i \in 1..Len(servers) \/ (servers'[i] = new /\ i = Len(servers) + 1)
    <3> DEFINE w == Write(servers, new)
    <3>1. /\ w \in Seq(Server)
          /\ Stored(w) = new
          /\ Cached(w) = Cached(servers)
          /\ \A i \in 1..Len(servers) : w[i] = servers[i]
          /\ \A i \in 1..Len(w) :
                i \in 1..Len(servers) \/ (w[i] = new /\ i = Len(servers) + 1)
      <4>1. w \in Seq(Server) /\ Stored(w) = new /\ Cached(w) = Cached(servers)
        BY <1>1, WriteFacts
      <4>2. \A i \in 1..Len(servers) : w[i] = servers[i]
        BY <1>1, WriteFacts
      <4>3. ASSUME NEW i \in 1..Len(w)
            PROVE  i \in 1..Len(servers) \/ (w[i] = new /\ i = Len(servers) + 1)
        BY <1>1, <4>3, WriteFacts
      <4> QED BY <4>1, <4>2, <4>3, Zenon
    <3> QED BY <3>1, Zenon
  <2>2. Len(servers') \in Nat /\ Len(servers) \in Nat
    BY <1>1, <2>1
  <2> QED
    BY <2>1, <2>2, Zenon
<1>3. ASSUME NeverReclaimed PROVE NeverReclaimed'
  <2> SUFFICES ASSUME NEW i \in 1..Len(servers'), NEW j \in 1..Len(servers'),
                      i < j, servers'[i].owner # None
               PROVE  servers'[j].owner \in {servers'[i].owner, None}
    BY DEF NeverReclaimed
  <2>1. i \in 1..Len(servers) /\ servers'[i] = servers[i]
    BY <1>2
  <2>2. CASE j \in 1..Len(servers)
    BY <1>2, <1>3, <2>1, <2>2 DEF NeverReclaimed
  <2>3. CASE servers'[j] = new /\ j = Len(servers) + 1
    <3>1. CASE i = Len(servers)
      BY <2>1, <2>3, <3>1 DEF Stored
    <3>2. CASE i < Len(servers)
      BY <1>1, <1>2, <1>3, <2>1, <2>3, <3>2 DEF NeverReclaimed, Stored
    <3> QED
      BY <1>2, <2>1, <3>1, <3>2
  <2> QED
    BY <1>2, <2>2, <2>3
<1> QED
  BY <1>2, <1>3

\* While the cache shows an owner, no other maintenance is the stored one.
LEMMA OneHolder ==
    ASSUME TypeOK, NeverReclaimed, NEW m \in Maintenances, NEW n \in Maintenances,
           Cached(servers).owner = m, Stored(servers).owner = n
    PROVE  m = n
<1>1. Len(servers) = 1 \/ 1 < Len(servers)
  <2>1. Len(servers) \in Nat /\ Len(servers) > 0
    BY DEF TypeOK
  <2> QED BY <2>1, OneOrMore
<1>2. CASE Len(servers) = 1
  BY <1>2 DEF Cached, Stored
<1>3. CASE 1 < Len(servers)
  BY <1>3, ValuesAssumption DEF TypeOK, NeverReclaimed, Cached, Stored
<1> QED
  BY <1>1, <1>2, <1>3

\* A maintenance deleted in the cache is deleted in the API server.
LEMMA DeletedForGood ==
    ASSUME TypeOK, DeletionIsFinal, NEW m \in Maintenances,
           Deleted(Cached(maintenances)[m])
    PROVE  Deleted(Stored(maintenances)[m])
<1> DEFINE F == [Maintenances -> Maintenance]
<1>1. maintenances \in Seq(F) /\ Len(maintenances) > 0
  BY DEF TypeOK
<1>2. Len(maintenances) = 1 \/ 1 < Len(maintenances)
  <2>1. Len(maintenances) \in Nat /\ Len(maintenances) > 0
    <3> HIDE DEF F
    <3> QED BY <1>1, EndFacts
  <2> QED BY <2>1, OneOrMore
<1>3. CASE Len(maintenances) = 1
  BY <1>3 DEF Cached, Stored
<1>4. CASE 1 < Len(maintenances)
  <2>1. Len(maintenances) \in Nat
    <3> HIDE DEF F
    <3> QED BY <1>1, EndFacts
  <2> QED
    BY <1>4, <2>1 DEF DeletionIsFinal, Cached, Stored
<1> QED
  BY <1>2, <1>3, <1>4

\* Neither the streams nor the maintenance that asks for the Server changed.
LEMMA RestKeeps ==
    ASSUME OwnershipInv, Rest
    PROVE  OwnershipInv'
<1>1. /\ NeverReclaimed' /\ DeletionIsFinal' /\ ReleasedIsDeleted'
      /\ ActiveOwnsServer'
  BY DEF OwnershipInv, Rest, NeverReclaimed, DeletionIsFinal, ReleasedIsDeleted,
     ActiveOwnsServer, Live, State
<1>2. ParkingKeepsOwner' /\ EntersAsOwner'
  BY DEF OwnershipInv, Rest, JobSettles, ParkingKeepsOwner, EntersAsOwner, At, Asking
<1> QED
  BY <1>1, <1>2 DEF OwnershipInv

LEMMA KeepsOwnerKeeps ==
    ASSUME TypeOK, OwnershipInv, KeepsOwner
    PROVE  OwnershipInv'
<1>1. PICK new \in Server : /\ new.owner = Stored(servers).owner
                            /\ servers' = Write(servers, new)
  BY DEF KeepsOwner
<1>2. UNCHANGED maintenances /\ JobSettles
  BY DEF KeepsOwner
<1>3. /\ Stored(servers').owner = Stored(servers).owner
      /\ NeverReclaimed'
      /\ \A i \in 1..Len(servers') :
            \/ i \in 1..Len(servers) /\ servers'[i] = servers[i]
            \/ servers'[i].owner = Stored(servers).owner
  BY <1>1, KeptOwners DEF OwnershipInv
<1>4. DeletionIsFinal' /\ ReleasedIsDeleted' /\ ActiveOwnsServer'
  BY <1>2, <1>3 DEF OwnershipInv, DeletionIsFinal, ReleasedIsDeleted,
     ActiveOwnsServer, Live, State
<1>5. ParkingKeepsOwner' /\ EntersAsOwner'
  BY <1>2, <1>3 DEF OwnershipInv, JobSettles, ParkingKeepsOwner, EntersAsOwner,
     At, Asking
<1> QED
  BY <1>3, <1>4, <1>5 DEF OwnershipInv

\* Two requests at the same write are the same request.
LEMMA SameRequest ==
    ASSUME NEW m, NEW n, NEW p, NEW q, [m |-> m, pc |-> p] = [m |-> n, pc |-> q]
    PROVE  m = n /\ p = q
<1>1. /\ [m |-> m, pc |-> p].m = m /\ [m |-> m, pc |-> p].pc = p
      /\ [m |-> n, pc |-> q].m = n /\ [m |-> n, pc |-> q].pc = q
  OBVIOUS
<1> QED
  BY <1>1, Zenon

\* A live maintenance that finds itself in the cache is still the owner.
LEMMA StartsAskingKeeps ==
    ASSUME TypeOK, OwnershipInv, NEW m \in Maintenances, StartsAsking(m)
    PROVE  OwnershipInv'
<1>1. UNCHANGED <<servers, maintenances>> /\ Alive(m)
  BY DEF StartsAsking
<1>2. /\ NeverReclaimed' /\ DeletionIsFinal' /\ ReleasedIsDeleted'
      /\ ActiveOwnsServer'
  BY <1>1 DEF OwnershipInv, NeverReclaimed, DeletionIsFinal, ReleasedIsDeleted,
     ActiveOwnsServer, Live, State
<1>3. ASSUME NEW n \in Maintenances, NEW pc \in {"park", "repark", "enter"},
             job' = [m |-> n, pc |-> pc]
      PROVE  n = m /\ pc # "enter"
  <2>1. PICK q \in {"park", "repark"} : job' = [m |-> m, pc |-> q]
    BY DEF StartsAsking
  <2>2. n = m /\ pc = q
    BY <1>3, <2>1, SameRequest, Zenon
  <2> QED
    BY <2>2
<1>4. \A i \in 1..Len(servers) : servers[i].owner = m => Stored(servers).owner = m
  BY <1>1 DEF OwnershipInv, ReleasedIsDeleted, Alive, Deleted
<1>5. ParkingKeepsOwner'
  <2> SUFFICES ASSUME NEW n \in Maintenances, NEW i \in 1..Len(servers'),
                      (At(n, "park") \/ At(n, "repark") \/ At(n, "enter"))',
                      servers'[i].owner = n
               PROVE  Stored(servers').owner = n
    BY DEF ParkingKeepsOwner
  <2>1. n = m
    BY <1>3 DEF At
  <2> QED
    BY <1>1, <1>4, <2>1
<1>6. EntersAsOwner'
  BY <1>3 DEF EntersAsOwner, At
<1> QED
  BY <1>2, <1>5, <1>6 DEF OwnershipInv

\* A request that ends in "enter" is one of m's.
LEMMA EntersOnly ==
    ASSUME NEW m \in Maintenances, job' \in {Idle, [m |-> m, pc |-> "enter"]},
           NEW n \in Maintenances,
           (At(n, "park") \/ At(n, "repark") \/ At(n, "enter"))'
    PROVE  n = m
<1>1. PICK pc \in {"park", "repark", "enter"} : job' = [m |-> n, pc |-> pc]
  BY DEF At
<1>2. job' # Idle
  BY <1>1, NotAsking DEF Asking
<1> QED
  BY <1>1, <1>2, SameRequest, Zenon

\* The cached owner is the stored one when its maintenance asks for the Server.
LEMMA FindsItselfKeeps ==
    ASSUME TypeOK, OwnershipInv, NEW m \in Maintenances, FindsItself(m)
    PROVE  OwnershipInv'
<1>1. PICK new \in Server : /\ new.owner = Stored(servers).owner
                            /\ servers' = Write(servers, new)
  BY DEF FindsItself
<1>2. UNCHANGED maintenances
  BY DEF FindsItself
<1>3. /\ Stored(servers').owner = Stored(servers).owner
      /\ NeverReclaimed'
      /\ \A i \in 1..Len(servers') :
            \/ i \in 1..Len(servers) /\ servers'[i] = servers[i]
            \/ servers'[i].owner = Stored(servers).owner
  BY <1>1, KeptOwners DEF OwnershipInv
<1>4. DeletionIsFinal' /\ ReleasedIsDeleted' /\ ActiveOwnsServer'
  BY <1>2, <1>3 DEF OwnershipInv, DeletionIsFinal, ReleasedIsDeleted,
     ActiveOwnsServer, Live, State
<1>5. Stored(servers).owner = m
  <2>1. 1 \in 1..Len(servers) /\ servers[1].owner = m
    BY EndFacts DEF TypeOK, FindsItself
  <2>2. At(m, "park") \/ At(m, "repark")
    BY DEF FindsItself, Parking
  <2> QED
    BY <2>1, <2>2 DEF OwnershipInv, ParkingKeepsOwner
<1>6. ASSUME NEW n \in Maintenances,
             (At(n, "park") \/ At(n, "repark") \/ At(n, "enter"))'
      PROVE  Stored(servers').owner = n
  BY <1>3, <1>5, <1>6, EntersOnly DEF FindsItself
<1>7. ParkingKeepsOwner' /\ EntersAsOwner'
  BY <1>6 DEF ParkingKeepsOwner, EntersAsOwner, At
<1> QED
  BY <1>3, <1>4, <1>7 DEF OwnershipInv

\* A cache that does not trail shows a free Server: nobody is active.
LEMMA TakesKeeps ==
    ASSUME TypeOK, OwnershipInv, NEW m \in Maintenances, Takes(m)
    PROVE  OwnershipInv'
<1>1. PICK new \in Server : new.owner = m /\ servers' = Write(servers, new)
  BY DEF Takes
<1>2. /\ UNCHANGED maintenances
      /\ Len(servers) = 1
      /\ Stored(servers).owner = None
      /\ servers \in Seq(Server) /\ Len(servers) > 0
      /\ servers[1] = Stored(servers)
  BY DEF Takes, Stored, TypeOK
<1>3. /\ Stored(servers').owner = m
      /\ \A i \in 1..Len(servers') :
            servers'[i].owner = m \/ (i = 1 /\ servers'[i].owner = None)
  <2>0. servers \in Seq(Server) /\ Len(servers) > 0
    BY <1>2
  <2>1. Stored(servers') = new
    BY <1>1, <2>0, WriteFacts
  <2>2. \A i \in 1..Len(servers) : servers'[i] = servers[i]
    BY <1>1, <2>0, WriteFacts
  <2>3. \A i \in 1..Len(servers') :
           i \in 1..Len(servers) \/ (servers'[i] = new /\ i = Len(servers) + 1)
    BY <1>1, <2>0, WriteFacts
  <2>4. \A i \in 1..1 : i = 1
    OBVIOUS
  <2> QED
    BY <1>1, <1>2, <2>1, <2>2, <2>3, <2>4
<1>4. NeverReclaimed'
  <2> SUFFICES ASSUME NEW i \in 1..Len(servers'), NEW j \in 1..Len(servers'),
                      i < j, servers'[i].owner # None
               PROVE  servers'[j].owner \in {servers'[i].owner, None}
    BY DEF NeverReclaimed
  <2> QED
    BY <1>3
<1>5. DeletionIsFinal'
  BY <1>2 DEF OwnershipInv, DeletionIsFinal
<1>6. ReleasedIsDeleted'
  BY <1>3, ValuesAssumption DEF ReleasedIsDeleted
<1>7. ASSUME NEW n \in Maintenances,
             (At(n, "park") \/ At(n, "repark") \/ At(n, "enter"))'
      PROVE  Stored(servers').owner = n
  BY <1>3, <1>7, EntersOnly DEF Takes
<1>8. ParkingKeepsOwner' /\ EntersAsOwner'
  BY <1>7 DEF ParkingKeepsOwner, EntersAsOwner, At
<1>9. ActiveOwnsServer'
  BY <1>2, ValuesAssumption DEF OwnershipInv, ActiveOwnsServer, Live, State
<1> QED
  BY <1>4, <1>5, <1>6, <1>8, <1>9 DEF OwnershipInv

\* The owner in the cache of a deleted maintenance is the stored one, or
\* nobody is.
LEMMA GivesUpKeeps ==
    ASSUME TypeOK, OwnershipInv, NEW m \in Maintenances, GivesUp(m)
    PROVE  OwnershipInv'
<1>1. PICK new \in Server : new.owner = None /\ servers' = Write(servers, new)
  BY DEF GivesUp
<1>2. /\ UNCHANGED maintenances
      /\ Deleted(Cached(maintenances)[m])
      /\ Cached(servers).owner = m
      /\ \A n \in Maintenances : ~ Asking(job', n)
      /\ servers \in Seq(Server) /\ Len(servers) > 0
  BY DEF GivesUp, TypeOK
<1>3. /\ Stored(servers').owner = None
      /\ \A i \in 1..Len(servers') :
            \/ i \in 1..Len(servers) /\ servers'[i] = servers[i]
            \/ servers'[i].owner = None /\ i = Len(servers) + 1
  <2>1. Stored(servers') = new
    BY <1>1, <1>2, WriteFacts
  <2>2. \A i \in 1..Len(servers) : servers'[i] = servers[i]
    BY <1>1, <1>2, WriteFacts
  <2>3. \A i \in 1..Len(servers') :
           i \in 1..Len(servers) \/ (servers'[i] = new /\ i = Len(servers) + 1)
    BY <1>1, <1>2, WriteFacts
  <2> QED
    BY <1>1, <2>1, <2>2, <2>3
<1>4. NeverReclaimed'
  <2> SUFFICES ASSUME NEW i \in 1..Len(servers'), NEW j \in 1..Len(servers'),
                      i < j, servers'[i].owner # None
               PROVE  servers'[j].owner \in {servers'[i].owner, None}
    BY DEF NeverReclaimed
  <2>1. i \in 1..Len(servers) /\ servers'[i] = servers[i]
    BY <1>3
  <2>2. CASE j \in 1..Len(servers) /\ servers'[j] = servers[j]
    BY <2>1, <2>2 DEF OwnershipInv, NeverReclaimed
  <2> QED
    BY <1>3, <2>2
<1>5. DeletionIsFinal'
  BY <1>2 DEF OwnershipInv, DeletionIsFinal
<1>6. ASSUME NEW n \in Maintenances, Stored(servers).owner = n
      PROVE  n = m
  BY <1>2, <1>6, OneHolder DEF OwnershipInv
<1>7. ReleasedIsDeleted'
  <2> SUFFICES ASSUME NEW n \in Maintenances, NEW i \in 1..Len(servers'),
                      servers'[i].owner = n
               PROVE  Deleted(Cached(maintenances)[n])
    BY <1>2 DEF ReleasedIsDeleted
  <2>1. i \in 1..Len(servers) /\ servers[i].owner = n
    BY <1>3, ValuesAssumption
  <2>2. CASE Stored(servers).owner = n
    BY <1>2, <1>6, <2>2
  <2>3. CASE Stored(servers).owner # n
    BY <2>1, <2>3 DEF OwnershipInv, ReleasedIsDeleted
  <2> QED
    BY <2>2, <2>3
<1>8. ParkingKeepsOwner' /\ EntersAsOwner'
  BY <1>2 DEF ParkingKeepsOwner, EntersAsOwner, At, Asking
<1>9. ActiveOwnsServer'
  <2>1. ~ Live(m)
    BY <1>2, DeletedForGood DEF OwnershipInv, Live, Deleted
  <2> QED
    BY <1>2, <1>6, <2>1 DEF OwnershipInv, ActiveOwnsServer, Live, State
<1> QED
  BY <1>4, <1>5, <1>7, <1>8, <1>9 DEF OwnershipInv

\* Only a maintenance that was active, or that enters, is active.
LEMMA ChangesMaintenanceKeeps ==
    ASSUME TypeOK, OwnershipInv, NEW m \in Maintenances, ChangesMaintenance(m)
    PROVE  OwnershipInv'
<1> DEFINE F == [Maintenances -> Maintenance]
           M == Stored(maintenances)
<1>1. PICK new \in Maintenance :
         /\ Deleted(M[m]) => Deleted(new)
         /\ new.phase = "live" /\ new.state = "InMaintenance" =>
               \/ M[m].phase = "live" /\ M[m].state = "InMaintenance"
               \/ At(m, "enter")
         /\ maintenances' = Write(maintenances, [M EXCEPT ![m] = new])
  BY DEF ChangesMaintenance
<1> DEFINE x == [M EXCEPT ![m] = new]
<1>2. UNCHANGED servers /\ JobSettles
  BY DEF ChangesMaintenance
<1>3. M \in F /\ x \in F
  BY EndTypes
<1>4. /\ maintenances \in Seq(F) /\ Len(maintenances) > 0
      /\ M = maintenances[Len(maintenances)]
      /\ Len(maintenances) \in 1..Len(maintenances) /\ Len(maintenances) \in Nat
  <2>1. maintenances \in Seq(F) /\ Len(maintenances) > 0
    BY DEF TypeOK
  <2> HIDE DEF F
  <2> QED BY <2>1, EndFacts
<1>5. /\ Stored(maintenances') = x
      /\ Cached(maintenances') = Cached(maintenances)
      /\ \A i \in 1..Len(maintenances) : maintenances'[i] = maintenances[i]
      /\ \A i \in 1..Len(maintenances') :
            \/ i \in 1..Len(maintenances)
            \/ maintenances'[i] = x /\ i = Len(maintenances) + 1
  <2>0. maintenances' = Write(maintenances, x)
    BY <1>1
  <2> HIDE DEF F, x
  <2>1. Stored(maintenances') = x /\ Cached(maintenances') = Cached(maintenances)
    BY <1>3, <1>4, <2>0, WriteFacts
  <2>2. ASSUME NEW i \in 1..Len(maintenances)
        PROVE  maintenances'[i] = maintenances[i]
    <3>1. Write(maintenances, x)[i] = maintenances[i]
      BY <1>3, <1>4, <2>2, WriteFacts
    <3> QED BY <2>0, <3>1
  <2>3. \A i \in 1..Len(maintenances') :
            \/ i \in 1..Len(maintenances)
            \/ maintenances'[i] = x /\ i = Len(maintenances) + 1
    BY <1>3, <1>4, <2>0, WriteFacts
  <2> QED BY <2>1, <2>2, <2>3
<1>6. \A n \in Maintenances : Deleted(M[n]) => Deleted(x[n])
  BY <1>1, <1>3
<1>7. \A n \in Maintenances :
         x[n].phase = "live" /\ x[n].state = "InMaintenance"
            => \/ M[n].phase = "live" /\ M[n].state = "InMaintenance"
               \/ At(n, "enter")
  BY <1>1, <1>3
<1>8. DeletionIsFinal'
  <2> HIDE DEF F, x
  <2> SUFFICES ASSUME NEW i \in 1..Len(maintenances'),
                      NEW j \in 1..Len(maintenances'),
                      NEW n \in Maintenances,
                      i < j, Deleted(maintenances'[i][n])
               PROVE  Deleted(maintenances'[j][n])
    BY DEF DeletionIsFinal
  <2>1. i \in 1..Len(maintenances)
    BY <1>4, <1>5
  <2>2. Deleted(maintenances[i][n])
    BY <1>5, <2>1
  <2>3. CASE j \in 1..Len(maintenances)
    BY <1>5, <2>1, <2>2, <2>3 DEF OwnershipInv, DeletionIsFinal
  <2>4. CASE maintenances'[j] = x
    <3>1. CASE i = Len(maintenances)
      BY <1>4, <1>6, <2>2, <2>4, <3>1
    <3>2. CASE i < Len(maintenances)
      BY <1>4, <1>6, <2>1, <2>2, <2>4, <3>2 DEF OwnershipInv, DeletionIsFinal
    <3>3. i = Len(maintenances) \/ i < Len(maintenances)
      BY <1>4, <2>1
    <3> QED BY <3>1, <3>2, <3>3
  <2> QED
    BY <1>5, <2>3, <2>4
<1>9. NeverReclaimed' /\ ReleasedIsDeleted'
  BY <1>2, <1>5 DEF OwnershipInv, NeverReclaimed, ReleasedIsDeleted
<1>10. ParkingKeepsOwner' /\ EntersAsOwner'
  BY <1>2 DEF OwnershipInv, JobSettles, ParkingKeepsOwner, EntersAsOwner,
     At, Asking
<1>11. ActiveOwnsServer'
  <2> HIDE DEF x
  <2> SUFFICES ASSUME NEW n \in Maintenances,
                      x[n].phase = "live", x[n].state = "InMaintenance"
               PROVE  Stored(servers).owner = n
    BY <1>2, <1>5 DEF ActiveOwnsServer, Live, State
  <2>1. CASE M[n].phase = "live" /\ M[n].state = "InMaintenance"
    BY <2>1 DEF OwnershipInv, ActiveOwnsServer, Live, State
  <2>2. CASE At(n, "enter")
    BY <2>2 DEF OwnershipInv, EntersAsOwner
  <2> QED
    BY <1>7, <2>1, <2>2
<1> QED
  BY <1>8, <1>9, <1>10, <1>11 DEF OwnershipInv

LEMMA ServerArrivesKeeps ==
    ASSUME TypeOK, OwnershipInv, ServerArrives
    PROVE  OwnershipInv'
<1>1. /\ UNCHANGED <<maintenances, job>>
      /\ servers' = Tail(servers)
      /\ servers \in Seq(Server) /\ Len(servers) > 1
  BY DEF ServerArrives, TypeOK
<1>2. /\ Stored(servers') = Stored(servers)
      /\ \A i \in 1..Len(servers') :
            i + 1 \in 1..Len(servers) /\ servers'[i] = servers[i + 1]
  BY <1>1, TailFacts
<1>3. NeverReclaimed'
  <2> SUFFICES ASSUME NEW i \in 1..Len(servers'), NEW j \in 1..Len(servers'),
                      i < j, servers'[i].owner # None
               PROVE  servers'[j].owner \in {servers'[i].owner, None}
    BY DEF NeverReclaimed
  <2>1. i + 1 < j + 1
    OBVIOUS
  <2> QED
    BY <1>2, <2>1 DEF OwnershipInv, NeverReclaimed
<1>4. DeletionIsFinal' /\ ReleasedIsDeleted' /\ ActiveOwnsServer'
  BY <1>1, <1>2 DEF OwnershipInv, DeletionIsFinal, ReleasedIsDeleted,
     ActiveOwnsServer, Live, State
<1>5. ParkingKeepsOwner' /\ EntersAsOwner'
  BY <1>1, <1>2 DEF OwnershipInv, ParkingKeepsOwner, EntersAsOwner, At
<1> QED
  BY <1>3, <1>4, <1>5 DEF OwnershipInv

LEMMA MaintenanceArrivesKeeps ==
    ASSUME TypeOK, OwnershipInv, MaintenanceArrives
    PROVE  OwnershipInv'
<1> DEFINE F == [Maintenances -> Maintenance]
<1>1. /\ UNCHANGED <<servers, job>>
      /\ maintenances' = Tail(maintenances)
      /\ maintenances \in Seq(F) /\ Len(maintenances) > 1
      /\ 1 \in 1..Len(maintenances) /\ 2 \in 1..Len(maintenances)
  <2>1. /\ UNCHANGED <<servers, job>>
        /\ maintenances' = Tail(maintenances)
        /\ maintenances \in Seq(F) /\ Len(maintenances) > 1
    BY DEF MaintenanceArrives, TypeOK
  <2> HIDE DEF F
  <2> QED BY <2>1
<1>2. /\ Stored(maintenances') = Stored(maintenances)
      /\ Cached(maintenances') = maintenances[2]
      /\ \A i \in 1..Len(maintenances') :
            /\ i + 1 \in 1..Len(maintenances)
            /\ maintenances'[i] = maintenances[i + 1]
  <2> HIDE DEF F
  <2> QED BY <1>1, TailFacts
<1>3. DeletionIsFinal'
  <2> HIDE DEF F
  <2> SUFFICES ASSUME NEW i \in 1..Len(maintenances'),
                      NEW j \in 1..Len(maintenances'),
                      NEW n \in Maintenances,
                      i < j, Deleted(maintenances'[i][n])
               PROVE  Deleted(maintenances'[j][n])
    BY DEF DeletionIsFinal
  <2>1. i + 1 < j + 1
    OBVIOUS
  <2> QED
    BY <1>2, <2>1 DEF OwnershipInv, DeletionIsFinal
<1>4. \A n \in Maintenances :
         Deleted(Cached(maintenances)[n]) => Deleted(Cached(maintenances')[n])
  <2> HIDE DEF F
  <2>1. Cached(maintenances) = maintenances[1] /\ 1 < 2
    BY DEF Cached
  <2> QED
    BY <1>1, <1>2, <2>1 DEF OwnershipInv, DeletionIsFinal
<1>5. NeverReclaimed' /\ ReleasedIsDeleted' /\ ActiveOwnsServer'
  BY <1>1, <1>2, <1>4 DEF OwnershipInv, NeverReclaimed, ReleasedIsDeleted,
     ActiveOwnsServer, Live, State
<1>6. ParkingKeepsOwner' /\ EntersAsOwner'
  BY <1>1 DEF OwnershipInv, ParkingKeepsOwner, EntersAsOwner, At
<1> QED
  BY <1>3, <1>5, <1>6 DEF OwnershipInv

LEMMA RestartKeeps ==
    ASSUME TypeOK, OwnershipInv, Restart
    PROVE  OwnershipInv'
<1> DEFINE F == [Maintenances -> Maintenance]
<1>1. /\ servers' = <<Stored(servers)>>
      /\ maintenances' = <<Stored(maintenances)>>
      /\ job' = Idle
      /\ maintenances \in Seq(F) /\ Len(maintenances) > 0
      /\ servers \in Seq(Server) /\ Len(servers) > 0
  BY DEF Restart, TypeOK
<1>2. /\ Len(servers') = 1 /\ Stored(servers') = Stored(servers)
      /\ servers'[1] = Stored(servers)
  BY <1>1 DEF Stored
<1>3. Len(maintenances') = 1 /\ Stored(maintenances') = Stored(maintenances)
  BY <1>1 DEF Stored
<1>4. \A n \in Maintenances : ~ Asking(job', n)
  BY <1>1, NotAsking
<1>5. \A i, j \in 1..1 : ~ (i < j)
  OBVIOUS
<1>6. NeverReclaimed' /\ DeletionIsFinal'
  BY <1>2, <1>3, <1>5, Zenon DEF NeverReclaimed, DeletionIsFinal
<1>7. ReleasedIsDeleted' /\ ActiveOwnsServer'
  BY <1>2, <1>3 DEF OwnershipInv, ReleasedIsDeleted, ActiveOwnsServer, Live, State
<1>8. ParkingKeepsOwner' /\ EntersAsOwner'
  BY <1>4 DEF ParkingKeepsOwner, EntersAsOwner, At, Asking
<1> QED
  BY <1>6, <1>7, <1>8 DEF OwnershipInv

LEMMA OwnershipStep == TypeOK /\ OwnershipInv /\ [Next]_vars => OwnershipInv'
<1> SUFFICES ASSUME TypeOK, OwnershipInv, [Next]_vars PROVE OwnershipInv'
  OBVIOUS
<1>1. Effect
  BY StepEffect
<1> QED
  BY <1>1, RestKeeps, KeepsOwnerKeeps, ServerArrivesKeeps, MaintenanceArrivesKeeps,
     RestartKeeps, StartsAskingKeeps, FindsItselfKeeps, TakesKeeps, GivesUpKeeps,
     ChangesMaintenanceKeeps DEF Effect

(***************************************************************************)
(* What the streams hold in flight never lets a maintenance take, enter or *)
(* stay on a Server it does not own, for any lag, failures and restarts.   *)
(***************************************************************************)
THEOREM OwnershipCorrect == Spec => []OwnershipInv
<1>1. TypeOK /\ OwnershipInv /\ [Next]_vars => (TypeOK /\ OwnershipInv)'
  BY TypeStep, OwnershipStep
<1> QED
  BY InitType, InitOwnership, <1>1, PTL DEF Spec

(***************************************************************************)
(* At most one maintenance of a Server is active: the owner.               *)
(***************************************************************************)
THEOREM ActiveOwner == Spec => []ActiveOwnsServer
<1>1. OwnershipInv => ActiveOwnsServer
  BY DEF OwnershipInv
<1> QED
  BY OwnershipCorrect, <1>1, PTL

-----------------------------------------------------------------------------
(* What a step may do to the owner, and to the active maintenances *)

\* Steps that leave the stored owner alone.
LEMMA OwnerStays ==
    ASSUME TypeOK, OwnershipInv,
           \/ Rest \/ KeepsOwner \/ ServerArrives \/ MaintenanceArrives \/ Restart
           \/ \E m \in Maintenances :
                 StartsAsking(m) \/ FindsItself(m) \/ ChangesMaintenance(m)
    PROVE  Stored(servers').owner = Stored(servers).owner
<1>1. servers \in Seq(Server) /\ Len(servers) > 0
  BY DEF TypeOK
<1>2. CASE Rest \/ MaintenanceArrives
  BY <1>2 DEF Rest, MaintenanceArrives
<1>3. CASE ServerArrives
  BY <1>1, <1>3, TailFacts DEF ServerArrives
<1>4. CASE Restart
  BY <1>4 DEF Restart, Stored
<1>5. CASE KeepsOwner
  BY <1>5, KeptOwners DEF KeepsOwner
<1>6. ASSUME NEW m \in Maintenances,
             StartsAsking(m) \/ FindsItself(m) \/ ChangesMaintenance(m)
      PROVE  Stored(servers').owner = Stored(servers).owner
  <2>1. CASE StartsAsking(m) \/ ChangesMaintenance(m)
    BY <2>1 DEF StartsAsking, ChangesMaintenance
  <2>2. CASE FindsItself(m)
    BY <2>2, KeptOwners DEF FindsItself
  <2> QED
    BY <1>6, <2>1, <2>2
<1> QED
  BY <1>2, <1>3, <1>4, <1>5, <1>6

\* Steps that leave the stored maintenances alone.
LEMMA MaintenancesStay ==
    ASSUME TypeOK, UNCHANGED maintenances \/ MaintenanceArrives \/ Restart
    PROVE  Stored(maintenances') = Stored(maintenances)
<1> DEFINE F == [Maintenances -> Maintenance]
<1>1. CASE UNCHANGED maintenances
  BY <1>1
<1>2. CASE Restart
  BY <1>2 DEF Restart, Stored
<1>3. CASE MaintenanceArrives
  <2>1. /\ maintenances \in Seq(F) /\ Len(maintenances) > 1
        /\ maintenances' = Tail(maintenances)
    BY <1>3 DEF MaintenanceArrives, TypeOK
  <2> HIDE DEF F
  <2> QED
    BY <2>1, TailFacts
<1> QED
  BY <1>1, <1>2, <1>3

\* A release frees the Server of a maintenance that is being deleted.
LEMMA ReleaseFacts ==
    ASSUME TypeOK, OwnershipInv, NEW m \in Maintenances, GivesUp(m)
    PROVE  /\ Stored(servers').owner = None
           /\ Stored(servers).owner \in {m, None}
           /\ ~ Live(m)
<1>1. PICK new \in Server : new.owner = None /\ servers' = Write(servers, new)
  BY DEF GivesUp
<1>2. servers \in Seq(Server) /\ Len(servers) > 0
  BY DEF TypeOK
<1>3. Stored(servers') = new
  BY <1>1, <1>2, WriteFacts
<1>4. Stored(servers).owner \in Maintenances \cup {None}
  BY EndTypes DEF Server
<1>5. ASSUME NEW n \in Maintenances, Stored(servers).owner = n
      PROVE  n = m
  BY <1>5, OneHolder DEF GivesUp, OwnershipInv
<1>6. ~ Live(m)
  BY DeletedForGood DEF GivesUp, OwnershipInv, Live, Deleted
<1> QED
  BY <1>1, <1>3, <1>4, <1>5, <1>6

\* A claim takes a Server that is free.
LEMMA ClaimFacts ==
    ASSUME TypeOK, NEW m \in Maintenances, Takes(m)
    PROVE  Stored(servers').owner = m /\ Stored(servers).owner = None
<1>1. PICK new \in Server : new.owner = m /\ servers' = Write(servers, new)
  BY DEF Takes
<1>2. servers \in Seq(Server) /\ Len(servers) > 0
  BY DEF TypeOK
<1>3. Stored(servers') = new
  BY <1>1, <1>2, WriteFacts
<1> QED
  BY <1>1, <1>3 DEF Takes

LEMMA OwnerStep ==
    ASSUME TypeOK, OwnershipInv, [Next]_vars,
           NEW m \in Maintenances, Stored(servers).owner = m,
           Stored(servers').owner # m
    PROVE  Stored(servers').owner = None /\ ~ Live(m)
<1>1. Effect
  BY StepEffect
<1>2. PICK n \in Maintenances : Takes(n) \/ GivesUp(n)
  BY <1>1, OwnerStays DEF Effect
<1>3. ~ Takes(n)
  BY ClaimFacts, ValuesAssumption
<1> QED
  BY <1>2, <1>3, ReleaseFacts, ValuesAssumption

(***************************************************************************)
(* Nobody takes a Server from the maintenance that owns it, and a live     *)
(* maintenance does not lose it.                                           *)
(***************************************************************************)
THEOREM OwnerKept == Spec => OwnerNeverStolen
<1> DEFINE Kept == \A m \in Maintenances :
              Stored(servers).owner = m /\ Stored(servers').owner # m
                 => Stored(servers').owner = None /\ ~ Live(m)
<1>1. TypeOK /\ OwnershipInv /\ [Next]_vars => [Kept]_servers
  BY OwnerStep
<1> QED
  BY TypeCorrect, OwnershipCorrect, <1>1, PTL DEF Spec, OwnerNeverStolen

LEMMA LockInitially == Init => Lock!LockInit
<1> SUFFICES ASSUME Init PROVE Lock!LockInit
  OBVIOUS
<1> DEFINE u == [m \in Maintenances |->
                  [phase |-> "unborn", finalizer |-> FALSE, state |-> ""]]
<1>1. Stored(servers).owner = None /\ Stored(maintenances) = u
  BY DEF Init, Stored
<1>2. \A m \in Maintenances : u[m].phase = "unborn"
  OBVIOUS
<1>3. ActiveMaintenances = {}
  <2> HIDE DEF u
  <2> QED
    BY <1>1, <1>2 DEF ActiveMaintenances, Live
<1> QED
  BY <1>1, <1>3 DEF Lock!LockInit

\* A status write activates its maintenance, deactivates it, or is no step.
LEMMA ChangeIsLockStep ==
    ASSUME TypeOK, OwnershipInv, NEW m \in Maintenances, ChangesMaintenance(m)
    PROVE  [Lock!LockNext]_(Lock!lockVars)
<1> DEFINE F == [Maintenances -> Maintenance]
           M == Stored(maintenances)
<1>1. PICK new \in Maintenance :
         /\ new.phase = "live" /\ new.state = "InMaintenance" =>
               \/ M[m].phase = "live" /\ M[m].state = "InMaintenance"
               \/ At(m, "enter")
         /\ maintenances' = Write(maintenances, [M EXCEPT ![m] = new])
  BY DEF ChangesMaintenance
<1> DEFINE x == [M EXCEPT ![m] = new]
<1>2. M \in F /\ x \in F
  BY EndTypes
<1>3. Stored(maintenances') = x
  <2>1. maintenances \in Seq(F) /\ Len(maintenances) > 0
    BY DEF TypeOK
  <2>2. maintenances' = Write(maintenances, x)
    BY <1>1
  <2> HIDE DEF F, x
  <2> QED
    BY <1>2, <2>1, <2>2, WriteFacts
<1>4. Stored(servers').owner = Stored(servers).owner
  BY OwnerStays
<1>5. \A n \in Maintenances : n # m => x[n] = M[n]
  BY <1>2
<1>6. x[m] = new
  BY <1>2
<1> HIDE DEF x
<1>7. ActiveMaintenances' = {n \in Maintenances : /\ x[n].phase = "live"
                                                 /\ x[n].state = "InMaintenance"}
  BY <1>3 DEF ActiveMaintenances, Live, State
<1>8. ActiveMaintenances = {n \in Maintenances : /\ M[n].phase = "live"
                                                /\ M[n].state = "InMaintenance"}
  BY DEF ActiveMaintenances, Live, State
<1>9. CASE m \in ActiveMaintenances'
  <2>1. ActiveMaintenances' = ActiveMaintenances \cup {m}
    BY <1>5, <1>7, <1>8, <1>9
  <2>2. Stored(servers).owner = m
    BY <1>1, <1>6, <1>7, <1>9 DEF OwnershipInv, ActiveOwnsServer, EntersAsOwner,
       Live, State
  <2>3. Lock!Activate(m)
    BY <1>4, <2>1, <2>2 DEF Lock!Activate
  <2> QED
    BY <2>3 DEF Lock!LockNext
<1>10. CASE m \notin ActiveMaintenances'
  <2>1. ActiveMaintenances' = ActiveMaintenances \ {m}
    BY <1>5, <1>7, <1>8, <1>10
  <2>2. Lock!Deactivate(m)
    BY <1>4, <2>1 DEF Lock!Deactivate
  <2> QED
    BY <2>2 DEF Lock!LockNext
<1> QED
  BY <1>9, <1>10

LEMMA LockStep ==
    ASSUME TypeOK, OwnershipInv, [Next]_vars
    PROVE  [Lock!LockNext]_(Lock!lockVars)
<1>1. Effect
  BY StepEffect
<1>2. ASSUME Stored(maintenances') = Stored(maintenances)
      PROVE  ActiveMaintenances' = ActiveMaintenances
  BY <1>2 DEF ActiveMaintenances, Live, State
<1>3. ASSUME UNCHANGED maintenances \/ MaintenanceArrives \/ Restart
      PROVE  ActiveMaintenances' = ActiveMaintenances
  BY <1>2, <1>3, MaintenancesStay
<1>4. ASSUME \/ Rest \/ KeepsOwner \/ ServerArrives \/ MaintenanceArrives \/ Restart
             \/ \E m \in Maintenances : StartsAsking(m) \/ FindsItself(m)
      PROVE  UNCHANGED Lock!lockVars
  <2>1. UNCHANGED maintenances \/ MaintenanceArrives \/ Restart
    BY <1>4 DEF Rest, KeepsOwner, ServerArrives, StartsAsking, FindsItself
  <2>2. Stored(servers').owner = Stored(servers).owner
    BY <1>4, OwnerStays
  <2> QED
    BY <1>3, <2>1, <2>2 DEF Lock!lockVars
<1>5. ASSUME NEW m \in Maintenances, Takes(m)
      PROVE  Lock!LockNext
  <2>1. Lock!Acquire(m)
    BY <1>3, <1>5, ClaimFacts DEF Takes, Lock!Acquire
  <2> QED
    BY <2>1 DEF Lock!LockNext
<1>6. ASSUME NEW m \in Maintenances, GivesUp(m)
      PROVE  [Lock!LockNext]_(Lock!lockVars)
  <2>1. /\ Stored(servers').owner = None
        /\ Stored(servers).owner \in {m, None}
        /\ m \notin ActiveMaintenances
        /\ ActiveMaintenances' = ActiveMaintenances
    BY <1>3, <1>6, ReleaseFacts DEF GivesUp, ActiveMaintenances
  <2>2. CASE Stored(servers).owner = m
    <3>1. Lock!Release(m)
      BY <2>1, <2>2 DEF Lock!Release
    <3> QED
      BY <3>1 DEF Lock!LockNext
  <2>3. CASE Stored(servers).owner = None
    BY <2>1, <2>3 DEF Lock!lockVars
  <2> QED
    BY <2>1, <2>2, <2>3
<1> QED
  BY <1>1, <1>4, <1>5, <1>6, ChangeIsLockStep DEF Effect

(***************************************************************************)
(* The controller implements the lock: every step of the operator, of      *)
(* metal-operator and of the users is a step of ParkLock or leaves the     *)
(* owner and the active maintenances alone.                                *)
(***************************************************************************)
THEOREM LockImplemented == Spec => ImplementsParkLock
  BY LockInitially, LockStep, TypeCorrect, OwnershipCorrect, PTL
     DEF Spec, ImplementsParkLock, Lock!LockSpec
=============================================================================
