--------------------------- MODULE RestingProofs ---------------------------
(***************************************************************************)
(* Proofs about ServerMaintenance at rest: that no event a maintenance     *)
(* waits for is missed.  As long as the work is not done, the request is   *)
(* queued, or a version is on its way that will queue it.                  *)
(***************************************************************************)
EXTENDS ServerMaintenanceProofs

\* Some version in flight shows another m than the stored one.
Differs(m) ==
    \E i \in 1..Len(maintenances) : maintenances[i][m] # Stored(maintenances)[m]

\* The request for m is queued, or an event is on its way that queues it.
Unsettled(m) == m \in queue \/ Len(servers) > 1 \/ Differs(m)

\* An active maintenance whose Server is not Parked is not forgotten.
ActiveIsAwake ==
    \A m \in Maintenances :
        /\ Live(m) /\ State(m) = "InMaintenance"
        /\ Stored(servers).state \notin {"Initial", "Parked"}
        => Unsettled(m) \/ At(m, "repark") \/ At(m, "demote")

-----------------------------------------------------------------------------
(* What a step may write *)

\* What a step may make of the maintenance k.
Rewritten(k, new) ==
    LET old == Stored(maintenances)[k] IN
    \/ Exists(old) /\ new = [old EXCEPT !.state = "Pending"]
    \/ Exists(old) /\ At(k, "enter") /\ new = [old EXCEPT !.state = "InMaintenance"]
    \/ Exists(old) /\ new = [old EXCEPT !.finalizer = TRUE]
    \/ Exists(old) /\ At(k, "finish") /\ new = Gone
    \/ old.phase = "unborn" /\ new = [phase |-> "live", finalizer |-> FALSE, state |-> ""]
    \/ /\ old.phase = "live" /\ (EarlyDelete \/ old.state = "InMaintenance")
       /\ new \in {[old EXCEPT !.phase = "deleting"], Gone}

\* A step writes at most one maintenance, or drops versions.
MaintenanceStep ==
    \/ UNCHANGED maintenances
    \/ DeliverMaintenance
    \/ Restart
    \/ \E k \in Maintenances, new \in Maintenance :
          /\ Rewritten(k, new)
          /\ maintenances' = Write(maintenances, [Stored(maintenances) EXCEPT ![k] = new])

\* A step writes the Server, or drops versions; only a claim that exists is
\* bound to the Server.
ServerStep ==
    \/ UNCHANGED servers
    \/ DeliverServer
    \/ Restart
    \/ \E new \in Server :
          /\ new.claimed = Stored(servers).claimed \/ new.claimed = FALSE
             \/ Stored(claims) # NoClaim
          /\ servers' = Write(servers, new)

\* A status patch is such a write.
LEMMA PatchRewrites ==
    ASSUME TypeOK, NEW k \in Maintenances, NEW state, NEW requests,
           patchMaintenanceState(k, state, requests),
           state = "Pending" \/ (state = "InMaintenance" /\ At(k, "enter"))
    PROVE  MaintenanceStep
<1> DEFINE old == Stored(maintenances)[k]
           new == [old EXCEPT !.state = state]
<1>1. CASE Exists(old)
  <2>1. old \in Maintenance /\ new \in Maintenance
    BY EndTypes DEF Maintenance, MaintenanceState
  <2>2. Rewritten(k, new)
    BY <1>1 DEF Rewritten
  <2>3. maintenances' = Write(maintenances, [Stored(maintenances) EXCEPT ![k] = new])
    BY <1>1 DEF patchMaintenanceState, WriteMaintenance, WriteMaintenances
  <2> HIDE DEF new
  <2> QED
    BY <2>1, <2>2, <2>3 DEF MaintenanceStep
<1>2. CASE ~ Exists(old)
  BY <1>2 DEF patchMaintenanceState, MaintenanceStep
<1> QED
  BY <1>1, <1>2

\* The write of a value that a step may make of k.
LEMMA WriteRewrites ==
    ASSUME NEW k \in Maintenances, NEW new \in Maintenance, Rewritten(k, new),
           WriteMaintenance(k, new)
    PROVE  MaintenanceStep
  BY DEF MaintenanceStep, WriteMaintenance, WriteMaintenances

\* Every step is one of these as far as the maintenances go.
LEMMA MaintenancesStep ==
    ASSUME TypeOK, [Next]_vars
    PROVE  MaintenanceStep
<1>1. CASE UNCHANGED maintenances
  BY <1>1 DEF MaintenanceStep
<1>2. CASE DeliverMaintenance \/ Restart
  BY <1>2 DEF MaintenanceStep
<1>3. ASSUME NEW m \in Maintenances, Reconcile(m)
      PROVE  MaintenanceStep
  <2>1. CASE ReconcileForeignOwner(m)
    BY <1>1, <2>1, PatchRewrites DEF ReconcileForeignOwner
  <2>2. CASE EnsureFinalizer(m)
    <3> DEFINE old == Stored(maintenances)[m]
               new == [old EXCEPT !.finalizer = TRUE]
    <3>1. CASE Exists(old)
      <4>1. new \in Maintenance /\ Rewritten(m, new)
        BY <3>1, EndTypes DEF Maintenance, Rewritten
      <4>2. WriteMaintenance(m, new)
        BY <2>2, <3>1 DEF EnsureFinalizer
      <4> HIDE DEF new
      <4> QED
        BY <4>1, <4>2, WriteRewrites
    <3>2. CASE ~ Exists(old)
      BY <1>1, <2>2, <3>2 DEF EnsureFinalizer
    <3> QED
      BY <3>1, <3>2
  <2>3. CASE InitialState(m)
    BY <2>3, PatchRewrites DEF InitialState
  <2>4. CASE \/ ReconcileGone(m) \/ PendingDeferred(m) \/ PendingUnclaimed(m)
             \/ PendingClaimed(m) \/ HandleInMaintenance(m) \/ DeleteHolder(m) \/ DeleteOther(m)
    BY <1>1, <2>4 DEF ReconcileGone, PendingDeferred, PendingUnclaimed, PendingClaimed,
                      HandleInMaintenance, DeleteHolder, DeleteOther
  <2> QED
    BY <1>3, <2>1, <2>2, <2>3, <2>4 DEF Reconcile
<1>4. ASSUME NEW m \in Maintenances, Continue(m)
      PROVE  MaintenanceStep
  <2>1. CASE EnterMaintenance(m)
    BY <2>1, PatchRewrites DEF EnterMaintenance
  <2>2. CASE ReturnToPending(m)
    BY <2>2, PatchRewrites DEF ReturnToPending
  <2>3. CASE RemoveFinalizer(m)
    <3>1. CASE Exists(Stored(maintenances)[m])
      <4>1. Gone \in Maintenance /\ Rewritten(m, Gone)
        BY <2>3, <3>1 DEF Gone, Maintenance, Phase, MaintenanceState, Rewritten, RemoveFinalizer
      <4> QED
        BY <2>3, <3>1, <4>1, WriteRewrites DEF RemoveFinalizer
    <3>2. CASE ~ Exists(Stored(maintenances)[m])
      BY <1>1, <2>3, <3>2 DEF RemoveFinalizer
    <3> QED
      BY <3>1, <3>2
  <2>4. CASE \/ RequestParkOwned(m) \/ RequestParkAgain(m) \/ ClaimServer(m)
             \/ RequestParkRefused(m) \/ RemoveBootConfigRef(m) \/ KeepLabels(m)
             \/ StripLabels(m)
    BY <1>1, <2>4 DEF RequestParkOwned, RequestParkAgain, ClaimServer, RequestParkRefused,
                      RemoveBootConfigRef, KeepLabels, StripLabels
  <2> QED
    BY <1>4, <2>1, <2>2, <2>3, <2>4 DEF Continue
<1>5. ASSUME NEW m \in Maintenances, CreateMaintenance(m)
      PROVE  MaintenanceStep
  <2> DEFINE new == [phase |-> "live", finalizer |-> FALSE, state |-> ""]
  <2>1. new \in Maintenance /\ Rewritten(m, new) /\ WriteMaintenance(m, new)
    BY <1>5 DEF CreateMaintenance, Maintenance, Phase, MaintenanceState, Rewritten
  <2> HIDE DEF new
  <2> QED
    BY <2>1, WriteRewrites
<1>6. ASSUME NEW m \in Maintenances, DeleteMaintenance(m)
      PROVE  MaintenanceStep
  <2> DEFINE old == Stored(maintenances)[m]
             new == IF old.finalizer THEN [old EXCEPT !.phase = "deleting"] ELSE Gone
  <2>1. new \in Maintenance /\ Rewritten(m, new)
    BY <1>6, EndTypes DEF DeleteMaintenance, Maintenance, Phase, MaintenanceState,
                          Rewritten, Gone
  <2>2. WriteMaintenance(m, new)
    BY <1>6 DEF DeleteMaintenance
  <2> HIDE DEF new
  <2> QED
    BY <2>1, <2>2, WriteRewrites
<1>7. CASE \/ DeliverServer \/ DeliverClaim \/ CallFails \/ MetalOperator
           \/ CreateClaim \/ ApproveMaintenance \/ DeleteClaim \/ UNCHANGED vars
  BY <1>1, <1>7 DEF DeliverServer, DeliverClaim, CallFails, MetalOperator, ReadOperation,
     PatchServerState, ConsumeOperation, SyncClaimState, BindClaim, CreateClaim,
     ApproveMaintenance, DeleteClaim, vars
<1> QED
  BY <1>2, <1>3, <1>4, <1>5, <1>6, <1>7 DEF Next, Deliver, Users

\* Every step is one of these as far as the Server goes.
LEMMA ServersStep ==
    ASSUME TypeOK, [Next]_vars
    PROVE  ServerStep
<1> DEFINE S == Stored(servers)
<1>1. CASE UNCHANGED servers
  BY <1>1 DEF ServerStep
<1>2. S \in Server
  BY EndTypes
<1>3. ASSUME NEW new \in Server, WriteServer(new),
             new.claimed = S.claimed \/ new.claimed = FALSE \/ Stored(claims) # NoClaim
      PROVE  ServerStep
  BY <1>3 DEF ServerStep, WriteServer
<1>4. ASSUME NEW m \in Maintenances, Reconcile(m)
      PROVE  ServerStep
  <2>1. CASE DeleteHolder(m)
    <3>1. Unparked(S) \in Server /\ Unparked(S).claimed = S.claimed
      BY <1>2 DEF Unparked, Server, Operation
    <3> QED
      BY <1>3, <2>1, <3>1 DEF DeleteHolder
  <2>2. CASE ~ DeleteHolder(m)
    BY <1>1, <1>4, <2>2 DEF Reconcile, ReconcileGone, ReconcileForeignOwner, EnsureFinalizer,
       InitialState, PendingDeferred, PendingUnclaimed, PendingClaimed, HandleInMaintenance,
       DeleteOther
  <2> QED
    BY <2>1, <2>2
<1>5. ASSUME NEW m \in Maintenances, Continue(m)
      PROVE  ServerStep
  <2>1. /\ [S EXCEPT !.op = "park"] \in Server
        /\ [S EXCEPT !.owner = m, !.op = "park"] \in Server
        /\ [S EXCEPT !.boot = FALSE] \in Server
        /\ [S EXCEPT !.op = "park"].claimed = S.claimed
        /\ [S EXCEPT !.owner = m, !.op = "park"].claimed = S.claimed
        /\ [S EXCEPT !.boot = FALSE].claimed = S.claimed
    BY <1>2 DEF Server, Operation
  <2>2. CASE RequestParkAgain(m) \/ ClaimServer(m) \/ RemoveBootConfigRef(m)
    BY <1>3, <2>1, <2>2 DEF RequestParkAgain, ClaimServer, RemoveBootConfigRef
  <2>3. CASE ~ (RequestParkAgain(m) \/ ClaimServer(m) \/ RemoveBootConfigRef(m))
    BY <1>1, <1>5, <2>3 DEF Continue, RequestParkOwned, RequestParkRefused, EnterMaintenance,
       ReturnToPending, KeepLabels, StripLabels, RemoveFinalizer
  <2> QED
    BY <2>2, <2>3
<1>6. CASE MetalOperator
  <2>1. /\ \A state \in ServerState : [S EXCEPT !.state = state] \in Server
        /\ [S EXCEPT !.op = "none"] \in Server
        /\ [S EXCEPT !.claimed = FALSE, !.boot = FALSE] \in Server
        /\ [S EXCEPT !.claimed = TRUE, !.boot = TRUE] \in Server
        /\ \A state \in ServerState : [S EXCEPT !.state = state].claimed = S.claimed
        /\ [S EXCEPT !.op = "none"].claimed = S.claimed
        /\ [S EXCEPT !.claimed = FALSE, !.boot = FALSE].claimed = FALSE
    BY <1>2 DEF Server, Operation
  <2>2. {"Available", "Reserved", "Parked"} \subseteq ServerState
    BY DEF ServerState
  <2>3. CASE ReadOperation
    BY <1>1, <2>3 DEF ReadOperation
  <2>4. CASE \/ PatchServerState("toParked", "Parked")
             \/ PatchServerState("toAvailable", "Available")
             \/ PatchServerState("toReserved", "Reserved")
    BY <1>3, <2>1, <2>2, <2>4 DEF PatchServerState
  <2>5. CASE ConsumeOperation
    BY <1>3, <2>1, <2>5 DEF ConsumeOperation
  <2>6. CASE SyncClaimState
    <3>1. \/ WriteServer([S EXCEPT !.state = "Available"])
          \/ WriteServer([S EXCEPT !.claimed = FALSE, !.boot = FALSE])
          \/ WriteServer([S EXCEPT !.state = "Reserved"])
      BY <2>6 DEF SyncClaimState
    <3> QED
      BY <1>3, <2>1, <2>2, <3>1
  <2>7. CASE BindClaim
    BY <1>3, <2>1, <2>7 DEF BindClaim
  <2> QED
    BY <1>6, <2>3, <2>4, <2>5, <2>6, <2>7 DEF MetalOperator
<1>7. CASE DeliverServer \/ Restart
  BY <1>7 DEF ServerStep
<1>8. CASE DeliverMaintenance \/ DeliverClaim \/ CallFails \/ Users \/ UNCHANGED vars
  BY <1>1, <1>8 DEF DeliverMaintenance, DeliverClaim, CallFails, Users, CreateMaintenance,
     DeleteMaintenance, CreateClaim, ApproveMaintenance, DeleteClaim, vars
<1> QED
  BY <1>4, <1>5, <1>6, <1>7, <1>8 DEF Next, Deliver

-----------------------------------------------------------------------------
(* Versions on their way *)

\* A write leaves whatever differs from the stored object, or adds it.
LEMMA WriteDiffers ==
    ASSUME TypeOK, NEW new \in [Maintenances -> Maintenance],
           maintenances' = Write(maintenances, new), NEW m \in Maintenances
    PROVE  /\ Stored(maintenances') = new
           /\ Cached(maintenances') = Cached(maintenances)
           /\ Differs(m) \/ new[m] # Stored(maintenances)[m] => Differs(m)'
<1> DEFINE F == [Maintenances -> Maintenance]
<1>1. maintenances \in Seq(F) /\ Len(maintenances) > 0 /\ new \in F
  BY DEF TypeOK
<1>2. /\ Stored(maintenances') = new
      /\ Cached(maintenances') = Cached(maintenances)
      /\ \A i \in 1..Len(maintenances) :
            i \in 1..Len(maintenances') /\ maintenances'[i] = maintenances[i]
  <2> HIDE DEF F
  <2>0. maintenances' = Write(maintenances, new)
    OBVIOUS
  <2>1. /\ Stored(maintenances') = new /\ Cached(maintenances') = Cached(maintenances)
        /\ Len(maintenances) =< Len(maintenances') /\ maintenances' \in Seq(F)
    BY <1>1, <2>0, WriteFacts
  <2>3. ASSUME NEW i \in 1..Len(maintenances)
        PROVE  maintenances'[i] = maintenances[i]
    <3>1. Write(maintenances, new)[i] = maintenances[i]
      BY <1>1, <2>3, WriteFacts
    <3> QED
      BY <2>0, <3>1
  <2>2. Len(maintenances) \in Nat /\ Len(maintenances') \in Nat
    BY <1>1, <2>1
  <2> QED
    BY <2>1, <2>2, <2>3
<1>3. CASE new[m] # Stored(maintenances)[m]
  <2>1. Len(maintenances) \in 1..Len(maintenances)
    BY <1>1
  <2>2. maintenances'[Len(maintenances)] = Stored(maintenances)
    BY <1>2, <2>1 DEF Stored
  <2> QED
    BY <1>2, <1>3, <2>1, <2>2 DEF Differs
<1>4. CASE new[m] = Stored(maintenances)[m]
  BY <1>2, <1>4 DEF Differs
<1> QED
  BY <1>2, <1>3, <1>4

\* A write of one maintenance stores it.
LEMMA WriteStores ==
    ASSUME TypeOK, NEW m \in Maintenances, NEW new \in Maintenance,
           WriteMaintenance(m, new)
    PROVE  Stored(maintenances')[m] = new
<1> DEFINE x == [Stored(maintenances) EXCEPT ![m] = new]
<1>1. /\ x \in [Maintenances -> Maintenance] /\ x[m] = new
      /\ maintenances' = Write(maintenances, x)
  BY EndTypes DEF WriteMaintenance, WriteMaintenances
<1> HIDE DEF x
<1> QED
  BY <1>1, WriteDiffers

\* A status patch stores the state.
LEMMA PatchStores ==
    ASSUME TypeOK, NEW m \in Maintenances, NEW state \in MaintenanceState, NEW requests,
           patchMaintenanceState(m, state, requests), Exists(Stored(maintenances)[m])
    PROVE  Stored(maintenances')[m].state = state
<1> DEFINE old == Stored(maintenances)[m]
           new == [old EXCEPT !.state = state]
<1>1. old \in Maintenance
  BY EndTypes
<1>2. new \in Maintenance /\ new.state = state
  BY <1>1 DEF Maintenance
<1>3. WriteMaintenance(m, new)
  BY DEF patchMaintenanceState
<1> HIDE DEF new
<1> QED
  BY <1>2, <1>3, WriteStores

\* The finalizer is stored.
LEMMA FinalizerStored ==
    ASSUME TypeOK, NEW m \in Maintenances, EnsureFinalizer(m),
           Exists(Stored(maintenances)[m])
    PROVE  Stored(maintenances')[m].finalizer = TRUE
<1> DEFINE old == Stored(maintenances)[m]
           new == [old EXCEPT !.finalizer = TRUE]
<1>1. old \in Maintenance
  BY EndTypes
<1>2. new \in Maintenance /\ new.finalizer = TRUE
  BY <1>1 DEF Maintenance
<1>3. WriteMaintenance(m, new)
  BY DEF EnsureFinalizer
<1> HIDE DEF new
<1> QED
  BY <1>2, <1>3, WriteStores

\* A delivered version wakes its maintenances, or more versions follow.
LEMMA DeliveryWakes ==
    ASSUME TypeOK, DeliverMaintenance, NEW m \in Maintenances
    PROVE  /\ Stored(maintenances') = Stored(maintenances)
           /\ Differs(m) => Differs(m)' \/ m \in queue'
<1> DEFINE F == [Maintenances -> Maintenance]
<1>1. /\ maintenances \in Seq(F) /\ Len(maintenances) > 1
      /\ maintenances' = Tail(maintenances)
      /\ maintenances[1][m] # maintenances[2][m] => m \in queue'
  BY DEF DeliverMaintenance, TypeOK
<1>2. /\ Stored(maintenances') = Stored(maintenances)
      /\ \A i \in 1..Len(maintenances) :
            i # 1 => /\ i - 1 \in 1..Len(maintenances')
                     /\ maintenances'[i - 1] = maintenances[i]
      /\ 2 \in 1..Len(maintenances)
  <2> HIDE DEF F
  <2>1. /\ Stored(maintenances') = Stored(maintenances)
        /\ Len(maintenances') = Len(maintenances) - 1
        /\ Len(maintenances) \in Nat
        /\ \A i \in 1..Len(maintenances') : maintenances'[i] = maintenances[i + 1]
    BY <1>1, TailFacts
  <2>2. \A i \in 1..Len(maintenances) : i # 1 =>
           /\ i - 1 \in 1..Len(maintenances')
           /\ (i - 1) + 1 = i
    BY <2>1
  <2>3. 2 \in 1..Len(maintenances)
    BY <1>1, <2>1
  <2> QED
    BY <2>1, <2>2, <2>3
<1>3. ASSUME Differs(m), m \notin queue'
      PROVE  Differs(m)'
  <2>1. PICK i \in 1..Len(maintenances) :
              maintenances[i][m] # Stored(maintenances)[m]
    BY <1>3 DEF Differs
  <2>2. CASE i # 1
    BY <1>2, <2>1, <2>2 DEF Differs
  <2>3. CASE i = 1
    <3>1. maintenances[2][m] # Stored(maintenances)[m]
      BY <1>1, <1>3, <2>1, <2>3
    <3>2. 2 # 1
      OBVIOUS
    <3> QED
      BY <1>2, <3>1, <3>2 DEF Differs
  <2> QED
    BY <2>2, <2>3
<1> QED
  BY <1>2, <1>3

\* A cached maintenance that is not the stored one differs.
LEMMA CachedDiffers ==
    ASSUME TypeOK, NEW m \in Maintenances,
           Cached(maintenances)[m] # Stored(maintenances)[m]
    PROVE  Differs(m)
<1> DEFINE F == [Maintenances -> Maintenance]
<1>1. maintenances \in Seq(F) /\ Len(maintenances) > 0
  BY DEF TypeOK
<1>2. 1 \in 1..Len(maintenances) /\ Cached(maintenances) = maintenances[1]
  <2> HIDE DEF F
  <2> QED BY <1>1, EndFacts
<1> QED
  BY <1>2 DEF Differs

\* What a step that does not deliver leaves or adds.
LEMMA DifferenceStays ==
    ASSUME TypeOK, [Next]_vars, ~ Restart, NEW m \in Maintenances
    PROVE  /\ Differs(m) => Differs(m)' \/ m \in queue'
           /\ Stored(maintenances')[m] # Stored(maintenances)[m] => Differs(m)'
<1>1. MaintenanceStep
  BY MaintenancesStep
<1>2. CASE UNCHANGED maintenances
  BY <1>2 DEF Differs
<1>3. CASE DeliverMaintenance
  BY <1>3, DeliveryWakes
<1>4. ASSUME NEW k \in Maintenances, NEW new \in Maintenance,
             maintenances' = Write(maintenances, [Stored(maintenances) EXCEPT ![k] = new])
      PROVE  /\ Differs(m) => Differs(m)'
             /\ Stored(maintenances')[m] # Stored(maintenances)[m] => Differs(m)'
  <2> DEFINE x == [Stored(maintenances) EXCEPT ![k] = new]
  <2>1. x \in [Maintenances -> Maintenance] /\ maintenances' = Write(maintenances, x)
    BY <1>4, EndTypes
  <2> HIDE DEF x
  <2> QED
    BY <2>1, WriteDiffers
<1> QED
  BY <1>1, <1>2, <1>3, <1>4 DEF MaintenanceStep

\* A Server that was written is on its way.
LEMMA ServerOnItsWay ==
    ASSUME TypeOK, [Next]_vars
    PROVE  /\ Stored(servers') # Stored(servers) => Len(servers') > 1
           /\ Len(servers) > 1 => Len(servers') > 1 \/ DeliverServer \/ Restart
           /\ ~ DeliverServer /\ ~ Restart => Cached(servers') = Cached(servers)
<1>1. ServerStep
  BY ServersStep
<1>2. servers \in Seq(Server) /\ Len(servers) > 0 /\ Len(servers) \in Nat
  BY DEF TypeOK
<1>3. CASE DeliverServer
  BY <1>2, <1>3, TailFacts DEF DeliverServer
<1>4. CASE Restart
  BY <1>2, <1>4, FreshFacts DEF Restart
<1>5. ASSUME NEW new \in Server, servers' = Write(servers, new)
      PROVE  /\ Stored(servers') # Stored(servers) => Len(servers') > 1
             /\ Len(servers) > 1 => Len(servers') > 1
             /\ Cached(servers') = Cached(servers)
  <2>1. /\ Stored(servers') = new /\ Cached(servers') = Cached(servers)
        /\ Len(servers) =< Len(servers') /\ Len(servers') \in Nat
    BY <1>2, <1>5, WriteFacts
  <2>2. new # Stored(servers) => Len(servers') = Len(servers) + 1
    BY <1>2, <1>5 DEF Write
  <2> QED
    BY <1>2, <2>1, <2>2
<1> QED
  BY <1>1, <1>3, <1>4, <1>5 DEF ServerStep

-----------------------------------------------------------------------------
(* Requests and the reconcile in progress *)

\* A request leaves the queue when it is taken.
LEMMA QueueStep ==
    ASSUME TypeOK, [Next]_vars, NEW m \in queue
    PROVE  m \in queue' \/ Reconcile(m) \/ Restart
<1>1. ASSUME NEW k \in Maintenances, Reconcile(k), k # m
      PROVE  m \in queue'
  <2>1. ASSUME NEW state, patchMaintenanceState(k, state, queue \ {k})
        PROVE  m \in queue'
    BY <1>1, <2>1 DEF patchMaintenanceState
  <2>2. CASE ReconcileForeignOwner(k) \/ InitialState(k)
    BY <1>1, <2>1, <2>2 DEF ReconcileForeignOwner, InitialState
  <2>3. CASE EnsureFinalizer(k) \/ PendingClaimed(k)
    BY <1>1, <2>3 DEF EnsureFinalizer, PendingClaimed
  <2>4. CASE \/ ReconcileGone(k) \/ PendingDeferred(k) \/ PendingUnclaimed(k)
             \/ HandleInMaintenance(k) \/ DeleteHolder(k) \/ DeleteOther(k)
    BY <1>1, <2>4 DEF ReconcileGone, PendingDeferred, PendingUnclaimed,
                      HandleInMaintenance, DeleteHolder, DeleteOther
  <2> QED
    BY <1>1, <2>2, <2>3, <2>4 DEF Reconcile
<1>2. ASSUME NEW k \in Maintenances, Continue(k)
      PROVE  m \in queue'
  <2>1. ASSUME NEW state, patchMaintenanceState(k, state, queue)
        PROVE  m \in queue'
    BY <2>1 DEF patchMaintenanceState
  <2>2. CASE EnterMaintenance(k) \/ ReturnToPending(k)
    BY <2>1, <2>2 DEF EnterMaintenance, ReturnToPending
  <2>3. Granted(k) \/ Refused(k) => m \in queue'
    BY DEF Granted, Refused
  <2>4. CASE \/ RequestParkOwned(k) \/ RequestParkAgain(k) \/ ClaimServer(k)
             \/ RequestParkRefused(k)
    BY <2>3, <2>4 DEF RequestParkOwned, RequestParkAgain, ClaimServer, RequestParkRefused
  <2>5. CASE \/ RemoveBootConfigRef(k) \/ KeepLabels(k) \/ StripLabels(k)
             \/ RemoveFinalizer(k)
    BY <2>5 DEF RemoveBootConfigRef, KeepLabels, StripLabels, RemoveFinalizer
  <2> QED
    BY <1>2, <2>2, <2>4, <2>5 DEF Continue
<1>3. CASE \/ Deliver \/ CallFails \/ MetalOperator \/ Users \/ UNCHANGED vars
  BY <1>3 DEF Deliver, DeliverServer, DeliverMaintenance, DeliverClaim, CallFails,
     MetalOperator, ReadOperation, PatchServerState, ConsumeOperation, SyncClaimState,
     BindClaim, Users, CreateMaintenance, DeleteMaintenance, CreateClaim,
     ApproveMaintenance, DeleteClaim, vars
<1> QED
  BY <1>1, <1>2, <1>3 DEF Next

\* The next write of a reconcile belongs to its request.
LEMMA ContinueAt ==
    ASSUME NEW k \in Maintenances, Continue(k)
    PROVE  \E pc \in Steps : At(k, pc)
  BY DEF Continue, RequestParkOwned, RequestParkAgain, ClaimServer, RequestParkRefused,
     Parking, EnterMaintenance, ReturnToPending, RemoveBootConfigRef, KeepLabels,
     StripLabels, RemoveFinalizer, Steps

\* A reconcile in progress goes on, or its request is queued again.
LEMMA JobStep ==
    ASSUME TypeOK, [Next]_vars, NEW m \in Maintenances, NEW pc \in Steps, At(m, pc)
    PROVE  At(m, pc)' \/ Continue(m) \/ m \in queue' \/ Restart
<1>1. job # Idle /\ job.m = m /\ job.pc = pc
  BY ValuesAssumption DEF At
<1>2. \A k \in Maintenances : ~ Reconcile(k)
  BY <1>1 DEF Reconcile, ReconcileGone, ReconcileForeignOwner, EnsureFinalizer,
     InitialState, InState, PendingDeferred, PendingUnclaimed, PendingClaimed,
     HandleInMaintenance, DeleteHolder, DeleteOther, Dequeue
<1>3. ASSUME NEW k \in Maintenances, Continue(k)
      PROVE  k = m
  <2>1. PICK q \in Steps : At(k, q)
    BY <1>3, ContinueAt
  <2> QED
    BY <1>1, <2>1 DEF At
<1>4. CASE CallFails
  BY <1>1, <1>4 DEF CallFails
<1>5. CASE \/ Deliver \/ MetalOperator \/ Users \/ UNCHANGED vars
  <2>1. job' = job
    BY <1>5 DEF Deliver, DeliverServer, DeliverMaintenance, DeliverClaim,
     MetalOperator, ReadOperation, PatchServerState, ConsumeOperation, SyncClaimState,
     BindClaim, Users, CreateMaintenance, DeleteMaintenance, CreateClaim,
     ApproveMaintenance, DeleteClaim, vars
  <2> QED
    BY <2>1 DEF At
<1> QED
  BY <1>2, <1>3, <1>4, <1>5 DEF Next

\* What is unsettled stays so until the request of m is taken.
LEMMA UnsettledStays ==
    ASSUME TypeOK, [Next]_vars, NEW m \in Maintenances,
           Live(m), Stored(servers).state # "Initial", Unsettled(m)
    PROVE  Unsettled(m)' \/ Reconcile(m)
<1>1. CASE Restart
  <2>1. m \in queue'
    BY <1>1 DEF Restart, Live, Exists
  <2> QED
    BY <2>1 DEF Unsettled
<1>2. CASE m \in queue /\ ~ Restart
  BY <1>2, QueueStep DEF Unsettled
<1>3. CASE Differs(m) /\ ~ Restart
  BY <1>3, DifferenceStays DEF Unsettled
<1>4. CASE Len(servers) > 1 /\ ~ Restart /\ ~ Differs(m)
  <2>1. CASE Len(servers') > 1
    BY <2>1 DEF Unsettled
  <2>2. CASE DeliverServer /\ ~ (Len(servers') > 1)
    <3>1. servers \in Seq(Server) /\ Len(servers) \in Nat /\ servers' = Tail(servers)
      BY <2>2 DEF TypeOK, DeliverServer
    <3>2. Len(servers') = Len(servers) - 1
      BY <1>4, <3>1, TailFacts
    <3>3. Len(servers) = 2
      <4>1. ASSUME NEW n \in Nat, n > 1, ~ (n - 1 > 1)
            PROVE  n = 2
        BY <4>1
      <4>2. Len(servers) > 1 /\ ~ (Len(servers) - 1 > 1)
        BY <1>4, <2>2, <3>2
      <4> QED
        BY <3>1, <4>1, <4>2
    <3>4. servers[2].state # "Initial"
      BY <3>3 DEF Stored
    <3>5. Cached(maintenances)[m] = Stored(maintenances)[m]
      BY <1>4, CachedDiffers
    <3>6. m \in Listed
      BY <3>5 DEF Listed, Live, Exists
    <3>7. m \in queue'
      BY <2>2, <3>4, <3>6 DEF DeliverServer, WokenByServer
    <3> QED
      BY <3>7 DEF Unsettled
  <2> QED
    BY <1>4, <2>1, <2>2, ServerOnItsWay
<1> QED
  BY <1>1, <1>2, <1>3, <1>4 DEF Unsettled

-----------------------------------------------------------------------------
(* The Server of an active maintenance is not left resumed *)

\* At the start no maintenance exists, and nobody cleans up.
LEMMA InitPhases ==
    ASSUME Init, NEW m \in Maintenances
    PROVE  /\ Stored(maintenances)[m].phase = "unborn"
           /\ ~ Live(m)
<1> DEFINE f == [k \in Maintenances |->
                    [phase |-> "unborn", finalizer |-> FALSE, state |-> ""]]
<1>1. Stored(maintenances) = f
  BY DEF Init, Stored
<1>2. f[m].phase = "unborn"
  OBVIOUS
<1> HIDE DEF f
<1> QED
  BY <1>1, <1>2 DEF Live

\* The request of an active maintenance whose Server is not Parked asks for
\* the Server again.
LEMMA ActiveReconciled ==
    ASSUME TypeOK, OwnershipInv, NEW m \in Maintenances, Reconcile(m), ~ Unsettled(m)',
           Live(m), State(m) = "InMaintenance",
           Stored(maintenances')[m] = Stored(maintenances)[m],
           Stored(servers).state # "Parked"
    PROVE  At(m, "repark")'
<1>1. [Next]_vars /\ ~ Restart /\ ~ DeliverServer
  <2>1. Next
    BY DEF Next
  <2>3. m \in queue \/ ~ Reconcile(m)
    BY DEF Reconcile, ReconcileGone, ReconcileForeignOwner, EnsureFinalizer,
       InitialState, InState, PendingDeferred, PendingUnclaimed, PendingClaimed,
       HandleInMaintenance, DeleteHolder, DeleteOther, Dequeue
  <2>4. m \in queue
    BY <2>3
  <2>5. ~ Restart
    BY DEF Restart, Live, Exists, Unsettled
  <2>6. ~ DeliverServer
    BY <2>4 DEF DeliverServer, Unsettled
  <2> QED
    BY <2>1, <2>5, <2>6
<1>2. /\ Len(servers) = 1 /\ Cached(servers) = Stored(servers)
      /\ Cached(maintenances)[m] = Stored(maintenances)[m]
  <2>1. ~ (Len(servers) > 1) /\ Len(servers) \in Nat /\ Len(servers) > 0
    BY <1>1, ServerOnItsWay DEF Unsettled, TypeOK
  <2>2. Len(servers) = 1
    BY <2>1, OneOrMore
  <2>3. ~ Differs(m)
    BY <1>1, DifferenceStays DEF Unsettled
  <2> QED
    BY <2>2, <2>3, CachedDiffers DEF Cached, Stored
<1>3. Stored(servers).owner = m
  BY DEF OwnershipInv, ActiveOwnsServer
<1> DEFINE c == Cached(maintenances)[m]
<1>4. c.phase = "live" /\ c.state = "InMaintenance" /\ ~ Foreign(m, Cached(servers))
  BY <1>2, <1>3 DEF Live, State, Foreign
<1>5. HandleInMaintenance(m)
  <2>1. ~ EnsureFinalizer(m)
    <3>1. ASSUME EnsureFinalizer(m) PROVE FALSE
      <4>1. ~ c.finalizer
        BY <3>1 DEF EnsureFinalizer
      <4>2. Stored(maintenances')[m].finalizer = TRUE
        BY <3>1, FinalizerStored DEF Live, Exists
      <4> QED
        BY <1>2, <4>1, <4>2
    <3> QED
      BY <3>1
  <2>2. ~ ReconcileGone(m) /\ ~ ReconcileForeignOwner(m)
    BY <1>4 DEF ReconcileGone, ReconcileForeignOwner, Exists
  <2>3. /\ ~ InitialState(m) /\ ~ PendingDeferred(m) /\ ~ PendingUnclaimed(m)
        /\ ~ PendingClaimed(m)
    BY <1>4 DEF InitialState, PendingDeferred, PendingUnclaimed, PendingClaimed, InState
  <2>4. ~ DeleteHolder(m) /\ ~ DeleteOther(m)
    BY <1>4 DEF DeleteHolder, DeleteOther
  <2> QED
    BY <2>1, <2>2, <2>3, <2>4 DEF Reconcile
<1>6. NeedsRepark(m)
  BY <1>2 DEF NeedsRepark, IsServerParkedForOwner
<1> QED
  BY <1>5, <1>6 DEF HandleInMaintenance, At

\* No step forgets an active maintenance whose Server is not Parked.
LEMMA ActiveIsAwakeStep ==
    ASSUME TypeOK, OwnershipInv, ActiveIsAwake, [Next]_vars
    PROVE  ActiveIsAwake'
<1> SUFFICES ASSUME NEW m \in Maintenances,
                    Live(m)', State(m)' = "InMaintenance",
                    Stored(servers').state \notin {"Initial", "Parked"},
                    ~ Unsettled(m)', ~ At(m, "repark")', ~ At(m, "demote")'
             PROVE  FALSE
  BY DEF ActiveIsAwake
<1>1. ~ Restart
  <2>1. Restart => Stored(maintenances') = Stored(maintenances)
    BY MaintenancesStay
  <2> QED
    BY <2>1 DEF Restart, Unsettled, Live, Exists
<1>2. /\ Stored(servers') = Stored(servers)
      /\ Stored(maintenances')[m] = Stored(maintenances)[m]
  BY <1>1, ServerOnItsWay, DifferenceStays DEF Unsettled
<1>3. /\ Live(m) /\ State(m) = "InMaintenance"
      /\ Stored(servers).state \notin {"Initial", "Parked"}
  BY <1>2 DEF Live, State
<1>4. CASE Unsettled(m)
  BY <1>2, <1>3, <1>4, UnsettledStays, ActiveReconciled
<1>5. CASE At(m, "repark")
  <2>1. Continue(m)
    BY <1>1, <1>5, JobStep DEF Steps, Unsettled
  <2>2. ~ At(m, "park") /\ ~ At(m, "enter") /\ ~ At(m, "demote") /\ ~ At(m, "boot")
        /\ ~ At(m, "strip") /\ ~ At(m, "finish")
    BY <1>5 DEF At
  <2>3. Granted(m) \/ Refused(m)
    BY <2>1, <2>2 DEF Continue, RequestParkOwned, RequestParkAgain, ClaimServer,
       RequestParkRefused, EnterMaintenance, ReturnToPending, RemoveBootConfigRef,
       KeepLabels, StripLabels, RemoveFinalizer
  <2>4. Granted(m) => m \in queue'
    BY <2>2 DEF Granted
  <2>5. Refused(m) => At(m, "demote")'
    BY <1>5 DEF Refused, At
  <2> QED
    BY <2>3, <2>4, <2>5 DEF Unsettled
<1>6. CASE At(m, "demote")
  <2>1. Continue(m)
    BY <1>1, <1>6, JobStep DEF Steps, Unsettled
  <2>2. ReturnToPending(m)
    BY <1>6, <2>1 DEF Continue, RequestParkOwned, RequestParkAgain, ClaimServer,
       RequestParkRefused, Parking, EnterMaintenance, RemoveBootConfigRef,
       KeepLabels, StripLabels, RemoveFinalizer, At
  <2>3. Stored(maintenances')[m].state = "Pending"
    BY <1>3, <2>2, PatchStores DEF ReturnToPending, Exists, Live, MaintenanceState
  <2> QED
    BY <1>2, <1>3, <2>3 DEF State
<1> QED
  BY <1>3, <1>4, <1>5, <1>6 DEF ActiveIsAwake

(***************************************************************************)
(* An active maintenance whose Server is not Parked is on the way to ask   *)
(* for it again, whatever was lost to failed calls, restarts and lag.      *)
(***************************************************************************)
THEOREM ActiveStaysAwake == Spec => []ActiveIsAwake
<1>1. Init => ActiveIsAwake
  BY InitPhases DEF ActiveIsAwake
<1>2. TypeOK /\ OwnershipInv /\ ActiveIsAwake /\ [Next]_vars => ActiveIsAwake'
  BY ActiveIsAwakeStep
<1> QED
  BY <1>1, <1>2, TypeCorrect, OwnershipCorrect, PTL DEF Spec

(***************************************************************************)
(* At rest the Server of an active maintenance is Parked for it.           *)
(***************************************************************************)
THEOREM RestingActive == Spec => []RestingActiveIsParked
<1>1. TypeOK /\ OwnershipInv /\ ActiveIsAwake => RestingActiveIsParked
  <2> SUFFICES ASSUME TypeOK, OwnershipInv, ActiveIsAwake, AtRest,
                      NEW m \in Maintenances, Live(m), State(m) = "InMaintenance"
               PROVE  IsServerParkedForOwner(Stored(servers), m)
    BY DEF RestingActiveIsParked
  <2>1. ~ At(m, "repark") /\ ~ At(m, "demote")
    BY ValuesAssumption DEF AtRest, At, Steps
  <2>2. ~ Unsettled(m)
    <3>1. Len(maintenances) = 1 /\ 1..1 = {1}
      BY DEF AtRest
    <3>2. ~ Differs(m)
      BY <3>1 DEF Differs, Stored
    <3> QED
      BY <3>2 DEF AtRest, Unsettled
  <2>3. Stored(servers).owner = m
    BY DEF OwnershipInv, ActiveOwnsServer
  <2> QED
    BY <2>1, <2>2, <2>3 DEF ActiveIsAwake, AtRest, IsServerParkedForOwner
<1> QED
  BY <1>1, TypeCorrect, OwnershipCorrect, ActiveStaysAwake, PTL

-----------------------------------------------------------------------------
(* What the versions in flight and a cleanup in progress say *)

Cleaning == {"boot", "strip", "finish"}

\* No version shows a maintenance unborn after one that shows it created.
BornStays ==
    \A i, j \in 1..Len(maintenances) : \A m \in Maintenances :
       i < j /\ maintenances[j][m].phase = "unborn"
          => maintenances[i][m].phase = "unborn"

\* The operator cleans up after a maintenance it has seen deleted.
CleaningIsDeleted ==
    \A m \in Maintenances : \A pc \in Cleaning :
       At(m, pc) => Deleted(Cached(maintenances)[m])

\* A maintenance without a state is on its way to get one.
NewIsAwake ==
    \A m \in Maintenances :
       Live(m) /\ State(m) = "" => m \in queue \/ Differs(m)

\* A step changes a stored maintenance in one of these ways.
LEMMA StoredChange ==
    ASSUME TypeOK, [Next]_vars, NEW m \in Maintenances,
           Stored(maintenances')[m] # Stored(maintenances)[m]
    PROVE  Rewritten(m, Stored(maintenances')[m])
<1>1. MaintenanceStep
  BY MaintenancesStep
<1>2. ~ UNCHANGED maintenances /\ ~ DeliverMaintenance /\ ~ Restart
  BY MaintenancesStay, DeliveryWakes
<1>3. PICK k \in Maintenances, new \in Maintenance :
         /\ Rewritten(k, new)
         /\ maintenances' = Write(maintenances, [Stored(maintenances) EXCEPT ![k] = new])
  BY <1>1, <1>2 DEF MaintenanceStep
<1> DEFINE x == [Stored(maintenances) EXCEPT ![k] = new]
<1>4. /\ x \in [Maintenances -> Maintenance]
      /\ x[k] = new
      /\ m # k => x[m] = Stored(maintenances)[m]
  BY EndTypes
<1>5. maintenances' = Write(maintenances, x)
  BY <1>3
<1> HIDE DEF x
<1>6. Stored(maintenances') = x
  BY <1>4, <1>5, WriteDiffers
<1>7. m = k /\ Stored(maintenances')[m] = new
  BY <1>4, <1>6
<1> QED
  BY <1>3, <1>7

\* What is deleted in the cache stays deleted there.
LEMMA CachedDeletionStays ==
    ASSUME TypeOK, DeletionIsFinal, [Next]_vars, NEW m \in Maintenances,
           Deleted(Cached(maintenances)[m])
    PROVE  Deleted(Cached(maintenances')[m])
<1> DEFINE F == [Maintenances -> Maintenance]
<1>1. MaintenanceStep
  BY MaintenancesStep
<1>2. CASE UNCHANGED maintenances
  BY <1>2
<1>3. CASE Restart
  <2>1. Cached(maintenances') = Stored(maintenances)
    BY <1>3 DEF Restart, Cached
  <2> QED
    BY <2>1, DeletedForGood
<1>4. CASE DeliverMaintenance
  <2>1. maintenances \in Seq(F) /\ Len(maintenances) > 1 /\ maintenances' = Tail(maintenances)
    BY <1>4 DEF DeliverMaintenance, TypeOK
  <2>2. /\ Cached(maintenances') = maintenances[2]
        /\ 1 \in 1..Len(maintenances) /\ 2 \in 1..Len(maintenances)
        /\ Cached(maintenances) = maintenances[1]
    <3> HIDE DEF F
    <3>1. Len(maintenances) \in Nat
      BY <2>1
    <3> QED
      BY <2>1, <3>1, TailFacts DEF Cached
  <2>3. 1 < 2
    OBVIOUS
  <2> QED
    BY <2>2, <2>3 DEF DeletionIsFinal
<1>5. ASSUME NEW k \in Maintenances, NEW new \in Maintenance,
             maintenances' = Write(maintenances, [Stored(maintenances) EXCEPT ![k] = new])
      PROVE  Cached(maintenances') = Cached(maintenances)
  <2> DEFINE x == [Stored(maintenances) EXCEPT ![k] = new]
  <2>1. x \in [Maintenances -> Maintenance] /\ maintenances' = Write(maintenances, x)
    BY <1>5, EndTypes
  <2> HIDE DEF x
  <2> QED
    BY <2>1, WriteDiffers
<1> QED
  BY <1>1, <1>2, <1>3, <1>4, <1>5 DEF MaintenanceStep

\* Only the first version of a maintenance follows an unborn one.
LEMMA BornStaysStep ==
    ASSUME TypeOK, BornStays, [Next]_vars
    PROVE  BornStays'
<1> DEFINE F == [Maintenances -> Maintenance]
<1>1. MaintenanceStep
  BY MaintenancesStep
<1>2. CASE UNCHANGED maintenances
  BY <1>2 DEF BornStays
<1>3. CASE Restart
  <2>1. Len(maintenances') = 1
    BY <1>3 DEF Restart
  <2>2. \A i, j \in 1..1 : ~ (i < j)
    OBVIOUS
  <2> QED
    BY <2>1, <2>2, Zenon DEF BornStays
<1>4. CASE DeliverMaintenance
  <2>1. maintenances \in Seq(F) /\ Len(maintenances) > 1 /\ maintenances' = Tail(maintenances)
    BY <1>4 DEF DeliverMaintenance, TypeOK
  <2>2. \A i \in 1..Len(maintenances') :
           /\ i + 1 \in 1..Len(maintenances)
           /\ maintenances'[i] = maintenances[i + 1]
    <3> HIDE DEF F
    <3> QED BY <2>1, TailFacts
  <2> SUFFICES ASSUME NEW i \in 1..Len(maintenances'), NEW j \in 1..Len(maintenances'),
                      NEW m \in Maintenances, i < j,
                      maintenances'[j][m].phase = "unborn"
               PROVE  maintenances'[i][m].phase = "unborn"
    BY DEF BornStays
  <2>3. i + 1 < j + 1
    OBVIOUS
  <2> HIDE DEF F
  <2> QED
    BY <2>2, <2>3 DEF BornStays
<1>5. ASSUME NEW k \in Maintenances, NEW new \in Maintenance, Rewritten(k, new),
             maintenances' = Write(maintenances, [Stored(maintenances) EXCEPT ![k] = new])
      PROVE  BornStays'
  <2> DEFINE x == [Stored(maintenances) EXCEPT ![k] = new]
  <2>1. /\ x \in F
        /\ maintenances \in Seq(F) /\ Len(maintenances) > 0
        /\ maintenances' = Write(maintenances, x)
    BY <1>5, EndTypes DEF TypeOK
  <2>2. new.phase # "unborn"
    <3> DEFINE old == Stored(maintenances)[k]
    <3>1. old \in Maintenance
      BY EndTypes
    <3>2. /\ [old EXCEPT !.state = "Pending"].phase = old.phase
          /\ [old EXCEPT !.state = "InMaintenance"].phase = old.phase
          /\ [old EXCEPT !.finalizer = TRUE].phase = old.phase
          /\ [old EXCEPT !.phase = "deleting"].phase = "deleting"
          /\ Gone.phase = "gone"
          /\ [phase |-> "live", finalizer |-> FALSE, state |-> ""].phase = "live"
      BY <3>1 DEF Maintenance, Gone
    <3> HIDE DEF old
    <3>3. Exists(old) => old.phase # "unborn"
      BY DEF Exists
    <3> QED
      BY <1>5, <3>2, <3>3 DEF Rewritten, old
  <2>3. \A m \in Maintenances :
           x[m].phase = "unborn" => Stored(maintenances)[m].phase = "unborn"
    BY <2>2, EndTypes
  <2> SUFFICES ASSUME NEW i \in 1..Len(maintenances'), NEW j \in 1..Len(maintenances'),
                      NEW m \in Maintenances, i < j,
                      maintenances'[j][m].phase = "unborn"
               PROVE  maintenances'[i][m].phase = "unborn"
    BY DEF BornStays
  <2> HIDE DEF F, x
  <2>4. Len(maintenances) \in Nat /\ Len(maintenances) \in 1..Len(maintenances)
    BY <2>1, EndFacts
  <2>5. ASSUME NEW h \in 1..Len(maintenances)
        PROVE  maintenances'[h] = maintenances[h]
    <3>1. Write(maintenances, x)[h] = maintenances[h]
      BY <2>1, <2>5, WriteFacts
    <3> QED
      BY <2>1, <3>1
  <2>6. \A h \in 1..Len(maintenances') :
            h \in 1..Len(maintenances) \/ (maintenances'[h] = x /\ h = Len(maintenances) + 1)
    BY <2>1, WriteFacts
  <2>7. i \in 1..Len(maintenances) /\ maintenances'[i] = maintenances[i]
    <3>1. i \in 1..Len(maintenances) \/ i = Len(maintenances) + 1
      BY <2>6
    <3>2. j \in 1..Len(maintenances) \/ j = Len(maintenances) + 1
      BY <2>6
    <3>3. i \in 1..Len(maintenances)
      BY <2>4, <3>1, <3>2
    <3> QED
      BY <2>5, <3>3
  <2>8. CASE j \in 1..Len(maintenances)
    BY <2>5, <2>7, <2>8 DEF BornStays
  <2>9. CASE maintenances'[j] = x
    <3>1. maintenances[Len(maintenances)][m].phase = "unborn"
      BY <2>3, <2>9 DEF Stored
    <3>2. i = Len(maintenances) \/ i < Len(maintenances)
      BY <2>4, <2>7
    <3> QED
      BY <2>4, <2>7, <3>1, <3>2 DEF BornStays
  <2> QED
    BY <2>6, <2>8, <2>9
<1> QED
  BY <1>1, <1>2, <1>3, <1>4, <1>5 DEF MaintenanceStep

\* A cleanup starts on seeing the deletion and goes on from write to write.
LEMMA CleaningStarts ==
    ASSUME TypeOK, [Next]_vars, NEW m \in Maintenances, NEW pc \in Cleaning, At(m, pc)'
    PROVE  \/ \E q \in Cleaning : At(m, q)
           \/ Deleted(Cached(maintenances)[m])
<1>1. job' = [m |-> m, pc |-> pc] /\ pc \in Steps
  BY DEF At, Cleaning, Steps
<1>2. job' # Idle
  BY <1>1, ValuesAssumption
<1>3. CASE job' = job
  BY <1>1, <1>3 DEF At
<1>4. ASSUME NEW k \in Maintenances, Reconcile(k), job' # job
      PROVE  Deleted(Cached(maintenances)[m])
  <2>1. \A q \in {"park", "repark"} : job' # [m |-> k, pc |-> q]
    BY <1>1 DEF Cleaning
  <2>2. DeleteHolder(k) \/ DeleteOther(k)
    BY <1>2, <1>4, <2>1 DEF Reconcile, ReconcileGone, ReconcileForeignOwner,
       EnsureFinalizer, InitialState, PendingDeferred, PendingUnclaimed, PendingClaimed,
       HandleInMaintenance
  <2>3. Cached(maintenances)[k].phase = "deleting" /\ job'.m = k
    BY <2>2 DEF DeleteHolder, DeleteOther
  <2> QED
    BY <1>1, <2>3 DEF Deleted
<1>5. ASSUME NEW k \in Maintenances, Continue(k)
      PROVE  \E q \in Cleaning : At(m, q)
  <2>1. \A q \in {"enter", "demote"} : job' # [m |-> k, pc |-> q]
    BY <1>1 DEF Cleaning
  <2>2. ~ Granted(k) /\ ~ Refused(k)
    BY <1>2, <2>1 DEF Granted, Refused
  <2>3. RemoveBootConfigRef(k) \/ KeepLabels(k) \/ StripLabels(k)
    BY <1>2, <1>5, <2>2 DEF Continue, RequestParkOwned, RequestParkAgain, ClaimServer,
       RequestParkRefused, EnterMaintenance, ReturnToPending, RemoveFinalizer
  <2>4. job'.m = k
    BY <1>2, <2>3 DEF RemoveBootConfigRef, KeepLabels, StripLabels
  <2>5. k = m
    BY <1>1, <2>4
  <2> QED
    BY <2>3, <2>5 DEF RemoveBootConfigRef, KeepLabels, StripLabels, Cleaning
<1>6. CASE CallFails \/ Restart
  BY <1>2, <1>6 DEF CallFails, Restart
<1>7. CASE Deliver \/ MetalOperator \/ Users \/ UNCHANGED vars
  BY <1>3, <1>7 DEF Deliver, DeliverServer, DeliverMaintenance, DeliverClaim,
     MetalOperator, ReadOperation, PatchServerState, ConsumeOperation, SyncClaimState,
     BindClaim, Users, CreateMaintenance, DeleteMaintenance, CreateClaim,
     ApproveMaintenance, DeleteClaim, vars
<1> QED
  BY <1>3, <1>4, <1>5, <1>6, <1>7 DEF Next

\* A cleanup in progress keeps the deletion it saw.
LEMMA CleaningIsDeletedStep ==
    ASSUME TypeOK, DeletionIsFinal, CleaningIsDeleted, [Next]_vars
    PROVE  CleaningIsDeleted'
<1> SUFFICES ASSUME NEW m \in Maintenances, NEW pc \in Cleaning, At(m, pc)'
             PROVE  Deleted(Cached(maintenances')[m])
  BY DEF CleaningIsDeleted
<1>1. Deleted(Cached(maintenances)[m])
  BY CleaningStarts DEF CleaningIsDeleted
<1> QED
  BY <1>1, CachedDeletionStays

\* The request of a maintenance without a state writes it.
LEMMA NewReconciled ==
    ASSUME TypeOK, NEW m \in Maintenances, Reconcile(m), Live(m), State(m) = "",
           Cached(maintenances)[m] = Stored(maintenances)[m]
    PROVE  Stored(maintenances')[m] # Stored(maintenances)[m]
<1> DEFINE c == Cached(maintenances)[m]
<1>1. c.phase = "live" /\ c.state = "" /\ Exists(Stored(maintenances)[m])
  BY DEF Live, State, Exists
<1>2. CASE ReconcileForeignOwner(m) \/ InitialState(m)
  <2>1. patchMaintenanceState(m, "Pending", queue \ {m})
    BY <1>1, <1>2 DEF ReconcileForeignOwner, InitialState
  <2> QED
    BY <1>1, <2>1, PatchStores DEF MaintenanceState
<1>3. CASE EnsureFinalizer(m)
  <2>1. ~ c.finalizer
    BY <1>3 DEF EnsureFinalizer
  <2> QED
    BY <1>1, <1>3, <2>1, FinalizerStored
<1>4. ~ ReconcileGone(m) /\ ~ DeleteHolder(m) /\ ~ DeleteOther(m)
  BY <1>1 DEF ReconcileGone, DeleteHolder, DeleteOther, Exists
<1>5. /\ ~ PendingDeferred(m) /\ ~ PendingUnclaimed(m) /\ ~ PendingClaimed(m)
      /\ ~ HandleInMaintenance(m)
  BY <1>1 DEF PendingDeferred, PendingUnclaimed, PendingClaimed, HandleInMaintenance, InState
<1> QED
  BY <1>2, <1>3, <1>4, <1>5 DEF Reconcile

\* No step forgets a maintenance without a state.
LEMMA NewIsAwakeStep ==
    ASSUME TypeOK, NewIsAwake, [Next]_vars
    PROVE  NewIsAwake'
<1> SUFFICES ASSUME NEW m \in Maintenances, Live(m)', State(m)' = "",
                    m \notin queue', ~ Differs(m)'
             PROVE  FALSE
  BY DEF NewIsAwake
<1>1. ~ Restart
  <2>1. Restart => Stored(maintenances') = Stored(maintenances)
    BY MaintenancesStay
  <2> QED
    BY <2>1 DEF Restart, Live, Exists
<1>2. ~ Differs(m) /\ Stored(maintenances')[m] = Stored(maintenances)[m]
  BY <1>1, DifferenceStays
<1>3. Live(m) /\ State(m) = "" /\ Cached(maintenances)[m] = Stored(maintenances)[m]
  BY <1>2, CachedDiffers DEF Live, State
<1>4. Reconcile(m)
  BY <1>1, <1>2, <1>3, QueueStep DEF NewIsAwake
<1> QED
  BY <1>2, <1>3, <1>4, NewReconciled

-----------------------------------------------------------------------------
(* A Server without claims, whose maintenances are deleted when they are   *)
(* done: a pending maintenance waits for a reason                          *)

Unclaimed ==
    /\ claims = <<NoClaim>>
    /\ \A i \in 1..Len(servers) : servers[i].claimed = FALSE

\* Until the cache shows the deletion, the deleted one owns the Server.
HeldUntilSeen ==
    \A m \in Maintenances :
       Deleted(Stored(maintenances)[m]) /\ ~ Deleted(Cached(maintenances)[m])
          => Stored(servers).owner = m

Waits(m) == Live(m) /\ State(m) \in {"", "Pending"}

Reason(m) ==
    \E n \in Maintenances \ {m} :
       \/ Stored(servers).owner = n
       \/ /\ Waits(n)
          /\ RunsBefore(n, m)

\* A maintenance that waits for no other is on its way to ask for the Server.
PendingIsAwake ==
    \A m \in Maintenances :
       Waits(m) /\ Stored(servers).state # "Initial"
          => Reason(m) \/ Unsettled(m) \/ At(m, "park") \/ At(m, "enter")

\* Without a claim to create no claim appears, on the Server or beside it.
LEMMA UnclaimedStep ==
    ASSUME MaxClaims = 0, TypeOK, Unclaimed, [Next]_vars
    PROVE  Unclaimed'
<1>1. servers \in Seq(Server) /\ Len(servers) > 0
  BY DEF TypeOK
<1>2. Len(claims) = 1 /\ Stored(claims) = NoClaim /\ Cached(claims) = NoClaim
  BY DEF Unclaimed, Stored, Cached
<1>3. Stored(servers).claimed = FALSE /\ Cached(servers).claimed = FALSE
  BY <1>1, EndFacts DEF Unclaimed
<1>4. claims' = <<NoClaim>>
  <2>1. CASE DeliverClaim
    BY <1>2, <2>1 DEF DeliverClaim
  <2>2. CASE Restart
    BY <1>2, <2>2 DEF Restart
  <2>3. CASE Users
    <3>1. ~ CreateClaim
      BY DEF CreateClaim, TypeOK
    <3>2. ~ ApproveMaintenance /\ ~ DeleteClaim
      BY <1>2 DEF ApproveMaintenance, DeleteClaim
    <3> QED
      BY <2>3, <3>1, <3>2 DEF Users, CreateMaintenance, DeleteMaintenance, Unclaimed
  <2>4. ASSUME NEW m \in Maintenances, Reconcile(m)
        PROVE  UNCHANGED claims
    <3>1. ~ PendingClaimed(m)
      BY <1>3 DEF PendingClaimed
    <3> QED
      BY <2>4, <3>1 DEF Reconcile, ReconcileGone, ReconcileForeignOwner, EnsureFinalizer,
         InitialState, PendingDeferred, PendingUnclaimed, HandleInMaintenance,
         DeleteHolder, DeleteOther
  <2>5. ASSUME NEW m \in Maintenances, Continue(m)
        PROVE  UNCHANGED claims
    <3>1. ~ StripLabels(m)
      BY <1>2 DEF StripLabels
    <3> QED
      BY <2>5, <3>1 DEF Continue, RequestParkOwned, RequestParkAgain, ClaimServer,
         RequestParkRefused, EnterMaintenance, ReturnToPending, RemoveBootConfigRef,
         KeepLabels, RemoveFinalizer
  <2>6. CASE \/ DeliverServer \/ DeliverMaintenance \/ CallFails \/ MetalOperator
             \/ UNCHANGED vars
    BY <2>6 DEF DeliverServer, DeliverMaintenance, CallFails, MetalOperator, ReadOperation,
       PatchServerState, ConsumeOperation, SyncClaimState, BindClaim, vars, Unclaimed
  <2> QED
    BY <2>1, <2>2, <2>3, <2>4, <2>5, <2>6 DEF Next, Deliver, Unclaimed
<1>5. \A i \in 1..Len(servers') : servers'[i].claimed = FALSE
  <2>1. ServerStep
    BY ServersStep
  <2>2. CASE UNCHANGED servers
    BY <2>2 DEF Unclaimed
  <2>3. CASE DeliverServer
    <3>1. \A i \in 1..Len(servers') :
             i + 1 \in 1..Len(servers) /\ servers'[i] = servers[i + 1]
      BY <1>1, <2>3, TailFacts DEF DeliverServer
    <3> QED
      BY <3>1 DEF Unclaimed
  <2>4. CASE Restart
    <3>1. servers' = <<Stored(servers)>>
      BY <2>4 DEF Restart
    <3>2. Len(servers') = 1 /\ servers'[1] = Stored(servers) /\ 1..1 = {1}
      BY <3>1
    <3> QED
      BY <1>3, <3>2
  <2>5. ASSUME NEW new \in Server, servers' = Write(servers, new),
               new.claimed = Stored(servers).claimed \/ new.claimed = FALSE
        PROVE  \A i \in 1..Len(servers') : servers'[i].claimed = FALSE
    <3>1. \A i \in 1..Len(servers) : servers'[i] = servers[i]
      BY <1>1, <2>5, WriteFacts
    <3>2. \A i \in 1..Len(servers') : i \in 1..Len(servers) \/ servers'[i] = new
      BY <1>1, <2>5, WriteFacts
    <3>3. new.claimed = FALSE
      BY <1>3, <2>5
    <3> QED
      BY <3>1, <3>2, <3>3 DEF Unclaimed
  <2> QED
    BY <1>2, <2>1, <2>2, <2>3, <2>4, <2>5 DEF ServerStep
<1> QED
  BY <1>4, <1>5 DEF Unclaimed

\* The owner changes when it is claimed, or released by a deleted one.
LEMMA OwnerChange ==
    ASSUME TypeOK, OwnershipInv, [Next]_vars, NEW m \in Maintenances,
           Stored(servers).owner = m, Stored(servers').owner # m
    PROVE  Deleted(Cached(maintenances)[m])
<1>1. Effect
  BY StepEffect
<1>2. PICK n \in Maintenances : Takes(n) \/ GivesUp(n)
  BY <1>1, OwnerStays DEF Effect
<1>3. ~ Takes(n)
  BY ClaimFacts, ValuesAssumption
<1>4. n = m
  BY <1>2, <1>3, ReleaseFacts, ValuesAssumption
<1> QED
  BY <1>2, <1>3, <1>4 DEF GivesUp

\* The owner that is deleted keeps the Server until the cache shows it.
LEMMA HeldUntilSeenStep ==
    ASSUME ~ EarlyDelete, TypeOK, OwnershipInv, CleaningIsDeleted, HeldUntilSeen,
           [Next]_vars
    PROVE  HeldUntilSeen'
<1> SUFFICES ASSUME NEW m \in Maintenances,
                    Deleted(Stored(maintenances')[m]), ~ Deleted(Cached(maintenances')[m])
             PROVE  Stored(servers').owner = m
  BY DEF HeldUntilSeen
<1> DEFINE old == Stored(maintenances)[m]
<1>1. ~ Deleted(Cached(maintenances)[m])
  BY CachedDeletionStays DEF OwnershipInv
<1>2. Stored(servers).owner = m
  <2>1. CASE Deleted(old)
    BY <1>1, <2>1 DEF HeldUntilSeen
  <2>2. CASE ~ Deleted(old)
    <3>1. Rewritten(m, Stored(maintenances')[m])
      BY <2>2, StoredChange
    <3>2. ~ At(m, "finish")
      BY <1>1 DEF CleaningIsDeleted, Cleaning
    <3>3. /\ [old EXCEPT !.state = "Pending"].phase = old.phase
          /\ [old EXCEPT !.state = "InMaintenance"].phase = old.phase
          /\ [old EXCEPT !.finalizer = TRUE].phase = old.phase
          /\ [phase |-> "live", finalizer |-> FALSE, state |-> ""].phase = "live"
      BY EndTypes DEF Maintenance
    <3> HIDE DEF old
    <3>4. old.phase = "live" /\ old.state = "InMaintenance"
      BY <2>2, <3>1, <3>2, <3>3 DEF Rewritten, Deleted, old
    <3> QED
      BY <3>4 DEF OwnershipInv, ActiveOwnsServer, Live, State, old
  <2> QED
    BY <2>1, <2>2
<1> QED
  BY <1>1, <1>2, OwnerChange

\* A reason stays: the other one keeps the Server, or keeps waiting, or enters
\* as the owner of the Server.
LEMMA ReasonStays ==
    ASSUME ~ EarlyDelete, TypeOK, OwnershipInv, CleaningIsDeleted, [Next]_vars,
           NEW m \in Maintenances, Reason(m), Stored(servers') = Stored(servers)
    PROVE  Reason(m)'
<1>1. PICK n \in Maintenances \ {m} :
         Stored(servers).owner = n \/ (Waits(n) /\ RunsBefore(n, m))
  BY DEF Reason
<1>2. CASE Stored(servers).owner = n
  BY <1>1, <1>2 DEF Reason
<1>3. CASE Waits(n) /\ RunsBefore(n, m) /\ Stored(servers).owner # n
  <2> DEFINE old == Stored(maintenances)[n]
             new == Stored(maintenances')[n]
  <2>1. old \in Maintenance
    BY <1>1, EndTypes
  <2>2. old.phase = "live" /\ old.state \in {"", "Pending"}
    BY <1>3 DEF Waits, Live, State
  <2>3. CASE new = old
    <3>1. Waits(n)'
      BY <1>3, <2>3 DEF Waits, Live, State
    <3> QED
      BY <1>1, <1>3, <3>1 DEF Reason
  <2>4. CASE new # old
    <3>1. Rewritten(n, new)
      BY <1>1, <2>4, StoredChange
    <3>2. ~ At(n, "enter")
      BY <1>1, <1>3 DEF OwnershipInv, EntersAsOwner
    <3>3. ~ At(n, "finish")
      <4>1. ~ Deleted(Cached(maintenances)[n])
        BY <1>1, <2>2, DeletedForGood DEF OwnershipInv, Deleted
      <4> QED
        BY <1>1, <4>1 DEF CleaningIsDeleted, Cleaning
    <3>4. \/ new = [old EXCEPT !.state = "Pending"]
          \/ new = [old EXCEPT !.finalizer = TRUE]
      <4> HIDE DEF new
      <4> QED
        BY <2>2, <3>1, <3>2, <3>3 DEF Rewritten
    <3>5. new.phase = "live" /\ new.state \in {"", "Pending"}
      <4>1. /\ [old EXCEPT !.state = "Pending"].phase = old.phase
            /\ [old EXCEPT !.state = "Pending"].state = "Pending"
            /\ [old EXCEPT !.finalizer = TRUE].phase = old.phase
            /\ [old EXCEPT !.finalizer = TRUE].state = old.state
        BY <2>1 DEF Maintenance
      <4> HIDE DEF old, new
      <4> QED
        BY <2>2, <3>4, <4>1
    <3>6. Waits(n)'
      BY <3>5 DEF Waits, Live, State
    <3> QED
      BY <1>1, <1>3, <3>6 DEF Reason
  <2> QED
    BY <2>3, <2>4
<1> QED
  BY <1>1, <1>2, <1>3

\* Who defers by the cache has a reason.
LEMMA DeferredHasReason ==
    ASSUME TypeOK, OwnershipInv, BornStays, HeldUntilSeen, NEW m \in Maintenances,
           shouldDeferToHigherPriorityMaintenance(m)
    PROVE  Reason(m)
<1>1. PICK n \in Maintenances \ {m} :
         /\ Cached(maintenances)[n].phase = "live"
         /\ RunsBefore(n, m)
  BY DEF shouldDeferToHigherPriorityMaintenance, Alive
<1> DEFINE old == Stored(maintenances)[n]
<1>2. old \in Maintenance
  BY <1>1, EndTypes
<1>3. old.phase # "unborn"
  <2> DEFINE F == [Maintenances -> Maintenance]
  <2>1. maintenances \in Seq(F) /\ Len(maintenances) > 0
    BY DEF TypeOK
  <2>2. /\ Cached(maintenances) = maintenances[1]
        /\ Stored(maintenances) = maintenances[Len(maintenances)]
        /\ 1 \in 1..Len(maintenances) /\ Len(maintenances) \in 1..Len(maintenances)
        /\ Len(maintenances) \in Nat
    <3> HIDE DEF F
    <3> QED BY <2>1, EndFacts
  <2>3. Len(maintenances) = 1 \/ 1 < Len(maintenances)
    BY <2>1, <2>2, OneOrMore
  <2>4. CASE Len(maintenances) = 1
    BY <1>1, <2>2, <2>4
  <2>5. CASE 1 < Len(maintenances)
    BY <1>1, <2>2, <2>5 DEF BornStays
  <2> QED
    BY <2>3, <2>4, <2>5
<1>4. CASE Deleted(old)
  <2>1. ~ Deleted(Cached(maintenances)[n])
    BY <1>1 DEF Deleted
  <2> QED
    BY <1>1, <1>4, <2>1 DEF HeldUntilSeen, Reason
<1>5. CASE old.phase = "live" /\ old.state = "InMaintenance"
  <2>1. Stored(servers).owner = n
    BY <1>1, <1>5 DEF OwnershipInv, ActiveOwnsServer, Live, State
  <2> QED
    BY <1>1, <2>1 DEF Reason
<1>6. CASE old.phase = "live" /\ old.state \in {"", "Pending"}
  <2>1. Waits(n)
    BY <1>6 DEF Waits, Live, State
  <2> QED
    BY <1>1, <2>1 DEF Reason
<1> QED
  BY <1>2, <1>3, <1>4, <1>5, <1>6 DEF Maintenance, Phase, MaintenanceState, Deleted

\* The request of a maintenance that waits asks for the Server, writes the
\* maintenance, or finds the reason.
LEMMA PendingReconciled ==
    ASSUME TypeOK, OwnershipInv, BornStays, HeldUntilSeen, Unclaimed,
           NEW m \in Maintenances, Reconcile(m), Waits(m),
           Cached(maintenances)[m] = Stored(maintenances)[m],
           Len(servers) = 1,
           Stored(maintenances')[m] = Stored(maintenances)[m]
    PROVE  Reason(m) \/ At(m, "park")'
<1> DEFINE c == Cached(maintenances)[m]
<1>1. /\ c.phase = "live" /\ c.state \in {"", "Pending"}
      /\ Exists(Stored(maintenances)[m])
  BY DEF Waits, Live, State, Exists
<1>2. Cached(servers) = Stored(servers) /\ Cached(servers) \in Server
  BY EndTypes DEF Cached, Stored
<1>3. Cached(servers).claimed = FALSE
  BY DEF Unclaimed, Cached
<1>4. State(m) = "Pending"
  BY <1>1, NewReconciled DEF Waits
<1>5. CASE ReconcileForeignOwner(m)
  <2>1. Stored(servers).owner \in Maintenances \ {m}
    BY <1>2, <1>5 DEF ReconcileForeignOwner, Foreign, Server
  <2> QED
    BY <2>1 DEF Reason
<1>6. CASE EnsureFinalizer(m)
  <2>1. ~ c.finalizer
    BY <1>6 DEF EnsureFinalizer
  <2> QED
    BY <1>1, <1>6, <2>1, FinalizerStored
<1>7. CASE PendingDeferred(m)
  BY <1>3, <1>7, DeferredHasReason DEF PendingDeferred
<1>8. CASE PendingUnclaimed(m)
  BY <1>8 DEF PendingUnclaimed, At
<1>9. ~ ReconcileGone(m) /\ ~ DeleteHolder(m) /\ ~ DeleteOther(m)
  BY <1>1 DEF ReconcileGone, DeleteHolder, DeleteOther, Exists
<1>10. ~ InitialState(m) /\ ~ PendingClaimed(m) /\ ~ HandleInMaintenance(m)
  BY <1>3, <1>4 DEF InitialState, PendingClaimed, HandleInMaintenance, InState, State
<1> QED
  BY <1>5, <1>6, <1>7, <1>8, <1>9, <1>10 DEF Reconcile

\* No step forgets a maintenance that waits for no other.
LEMMA PendingIsAwakeStep ==
    ASSUME ~ EarlyDelete, TypeOK, OwnershipInv, BornStays, CleaningIsDeleted,
           HeldUntilSeen, Unclaimed, PendingIsAwake, [Next]_vars
    PROVE  PendingIsAwake'
<1> SUFFICES ASSUME NEW m \in Maintenances,
                    Waits(m)', Stored(servers').state # "Initial", ~ Reason(m)',
                    ~ Unsettled(m)', ~ At(m, "park")', ~ At(m, "enter")'
             PROVE  FALSE
  BY DEF PendingIsAwake
<1>1. ~ Restart
  <2>1. Restart => Stored(maintenances') = Stored(maintenances)
    BY MaintenancesStay
  <2> QED
    BY <2>1 DEF Restart, Unsettled, Waits, Live, Exists
<1>2. /\ Stored(servers') = Stored(servers)
      /\ Stored(maintenances')[m] = Stored(maintenances)[m]
      /\ ~ Differs(m)
  BY <1>1, ServerOnItsWay, DifferenceStays DEF Unsettled
<1>3. /\ Waits(m) /\ Stored(servers).state # "Initial" /\ ~ Reason(m)
      /\ Cached(maintenances)[m] = Stored(maintenances)[m]
  BY <1>2, CachedDiffers, ReasonStays DEF Waits, Live, State
<1>4. Exists(Stored(maintenances)[m])
  BY <1>3 DEF Waits, Live, Exists
<1>5. ASSUME ~ DeliverServer
      PROVE  Len(servers) = 1 /\ Cached(servers) = Stored(servers)
  <2>1. ~ (Len(servers) > 1) /\ Len(servers) \in Nat /\ Len(servers) > 0
    BY <1>1, <1>5, ServerOnItsWay DEF Unsettled, TypeOK
  <2>2. Len(servers) = 1
    BY <2>1, OneOrMore
  <2> QED
    BY <2>2 DEF Cached, Stored
<1>6. CASE Unsettled(m)
  <2>1. Reconcile(m)
    BY <1>3, <1>6, UnsettledStays DEF Waits
  <2>2. ~ DeliverServer
    <3>1. m \in queue
      BY <2>1 DEF Reconcile, ReconcileGone, ReconcileForeignOwner, EnsureFinalizer,
       InitialState, InState, PendingDeferred, PendingUnclaimed, PendingClaimed,
       HandleInMaintenance, DeleteHolder, DeleteOther, Dequeue
    <3> QED
      BY <3>1 DEF DeliverServer, Unsettled
  <2> QED
    BY <1>2, <1>3, <1>5, <2>1, <2>2, PendingReconciled
<1>7. CASE At(m, "park")
  <2>1. Continue(m)
    BY <1>1, <1>7, JobStep DEF Steps, Unsettled
  <2>2. /\ ~ At(m, "repark") /\ ~ At(m, "enter") /\ ~ At(m, "demote") /\ ~ At(m, "boot")
        /\ ~ At(m, "strip") /\ ~ At(m, "finish")
    BY <1>7 DEF At
  <2>3. \/ RequestParkOwned(m) \/ RequestParkAgain(m) \/ ClaimServer(m)
        \/ RequestParkRefused(m)
    BY <2>1, <2>2 DEF Continue, EnterMaintenance, ReturnToPending, RemoveBootConfigRef,
       KeepLabels, StripLabels, RemoveFinalizer
  <2>4. ~ Granted(m)
    BY DEF Granted, At, Unsettled
  <2>5. RequestParkRefused(m)
    BY <2>3, <2>4 DEF RequestParkOwned, RequestParkAgain, ClaimServer
  <2>6. ~ DeliverServer
    <3>1. job' # job
      BY <1>7 DEF At
    <3> QED
      BY <3>1 DEF DeliverServer
  <2>7. Foreign(m, Stored(servers))
    BY <1>5, <2>5, <2>6 DEF RequestParkRefused, UpdateAccepted
  <2>8. Stored(servers).owner \in Maintenances \ {m}
    BY <2>7, EndTypes DEF Foreign, Server
  <2> QED
    BY <1>3, <2>8 DEF Reason
<1>8. CASE At(m, "enter")
  <2>1. Continue(m)
    BY <1>1, <1>8, JobStep DEF Steps, Unsettled
  <2>2. EnterMaintenance(m)
    BY <1>8, <2>1 DEF Continue, RequestParkOwned, RequestParkAgain, ClaimServer,
       RequestParkRefused, Parking, ReturnToPending, RemoveBootConfigRef,
       KeepLabels, StripLabels, RemoveFinalizer, At
  <2>3. Stored(maintenances')[m].state = "InMaintenance"
    BY <1>4, <2>2, PatchStores DEF EnterMaintenance, MaintenanceState
  <2> QED
    BY <1>2, <1>3, <2>3 DEF Waits, State
<1> QED
  BY <1>3, <1>6, <1>7, <1>8 DEF PendingIsAwake

-----------------------------------------------------------------------------
RestInv ==
    /\ OwnershipInv
    /\ BornStays
    /\ CleaningIsDeleted
    /\ NewIsAwake
    /\ HeldUntilSeen
    /\ Unclaimed
    /\ PendingIsAwake

\* At the start nothing exists, nothing is claimed and nobody cleans up.
LEMMA InitRest == Init => RestInv
<1> SUFFICES ASSUME Init PROVE RestInv
  OBVIOUS
<1>1. BornStays
  <2>1. Len(maintenances) = 1
    BY DEF Init
  <2>2. \A i, j \in 1..1 : ~ (i < j)
    OBVIOUS
  <2> QED
    BY <2>1, <2>2, Zenon DEF BornStays
<1>2. CleaningIsDeleted
  <2> SUFFICES ASSUME NEW m \in Maintenances, NEW pc \in Cleaning, At(m, pc)
               PROVE  FALSE
    BY DEF CleaningIsDeleted
  <2>1. [m |-> m, pc |-> pc] \in [m : Maintenances, pc : Steps]
    BY DEF Cleaning, Steps
  <2> QED
    BY <2>1, ValuesAssumption DEF Init, At
<1>3. NewIsAwake /\ PendingIsAwake
  BY InitPhases DEF NewIsAwake, PendingIsAwake, Waits
<1>4. HeldUntilSeen
  BY InitPhases DEF HeldUntilSeen, Deleted
<1>5. Unclaimed
  <2> DEFINE s == [owner |-> None, op |-> "none", state |-> "Initial",
                   claimed |-> FALSE, boot |-> FALSE]
  <2>1. servers = <<s>> /\ claims = <<NoClaim>>
    BY DEF Init
  <2>2. s.claimed = FALSE
    OBVIOUS
  <2> HIDE DEF s
  <2>3. Len(servers) = 1 /\ servers[1] = s /\ 1..1 = {1}
    BY <2>1
  <2> QED
    BY <2>1, <2>2, <2>3 DEF Unclaimed
<1> QED
  BY <1>1, <1>2, <1>3, <1>4, <1>5, InitOwnership DEF RestInv

(***************************************************************************)
(* On a Server without claims whose maintenances are deleted only when     *)
(* they have started, a pending maintenance has a reason at rest: none of  *)
(* the events it waits for is missed.  TLC refutes it without either       *)
(* hypothesis: the deletion of a pending maintenance and the arrival of a  *)
(* ServerClaim wake nobody.                                                *)
(***************************************************************************)
THEOREM RestingPending ==
    ASSUME ~ EarlyDelete, MaxClaims = 0
    PROVE  Spec => []RestingPendingHasReason
<1>1. TypeOK /\ RestInv /\ [Next]_vars => (TypeOK /\ RestInv)'
  BY TypeStep, OwnershipStep, BornStaysStep, CleaningIsDeletedStep, NewIsAwakeStep,
     HeldUntilSeenStep, UnclaimedStep, PendingIsAwakeStep DEF RestInv, OwnershipInv
<1>2. TypeOK /\ RestInv => RestingPendingHasReason
  <2> SUFFICES ASSUME TypeOK, RestInv, AtRest, NEW m \in Maintenances,
                      Live(m), State(m) # "InMaintenance"
               PROVE  \E n \in Maintenances \ {m} :
                         \/ Stored(servers).owner = n
                         \/ Live(n) /\ State(n) = "Pending" /\ RunsBefore(n, m)
    BY DEF RestingPendingHasReason
  <2>1. ~ At(m, "park") /\ ~ At(m, "enter")
    BY ValuesAssumption DEF AtRest, At, Steps
  <2>2. \A n \in Maintenances : ~ Differs(n)
    <3>1. Len(maintenances) = 1 /\ 1..1 = {1}
      BY DEF AtRest
    <3> QED
      BY <3>1 DEF Differs, Stored
  <2>3. State(m) \in MaintenanceState
    BY EndTypes DEF State, Maintenance
  <2>4. Waits(m)
    BY <2>3 DEF Waits, MaintenanceState
  <2>5. Reason(m)
    BY <2>1, <2>2, <2>4 DEF RestInv, PendingIsAwake, AtRest, Unsettled
  <2>6. ASSUME NEW n \in Maintenances, Waits(n)
        PROVE  Live(n) /\ State(n) = "Pending"
    BY <2>2, <2>6 DEF RestInv, NewIsAwake, AtRest, Waits
  <2> QED
    BY <2>5, <2>6 DEF Reason
<1> QED
  BY <1>1, <1>2, InitType, InitRest, PTL DEF Spec
=============================================================================
