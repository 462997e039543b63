----------------------- MODULE ServerConditionProofs -----------------------
(***************************************************************************)
(* Proofs about ServerConditions: types, the currency of NetworkReady and, *)
(* as long as the cache trails by at most three versions, that a tenant    *)
(* never finds its predecessor's data.                                     *)
(***************************************************************************)
EXTENDS ServerConditions, SequenceTheorems, TLAPS

-----------------------------------------------------------------------------
(* Watch streams *)

\* A write appends its value, or changes nothing when it is stored already.
LEMMA StreamWritten ==
    ASSUME NEW S, NEW s \in Seq(S), Len(s) \in 1 .. MaxLag + 1, NEW x \in S,
           Writable(s, x)
    PROVE  LET t == Write(s, x) IN
           /\ t \in Seq(S) /\ Len(t) \in 1 .. MaxLag + 1
           /\ Stored(t) = x /\ Cached(t) = Cached(s)
           /\ \/ t = s /\ x = Stored(s)
              \/ /\ Len(t) = Len(s) + 1 /\ t[Len(s) + 1] = x /\ x # Stored(s)
                 /\ Len(s) =< MaxLag
                 /\ \A i \in 1 .. Len(s) : t[i] = s[i]
<1>1. CASE x = Stored(s)
  BY <1>1 DEF Write, Stored, Cached
<1>2. CASE x # Stored(s)
  <2>1. Write(s, x) = Append(s, x) /\ Len(s) =< MaxLag
    BY <1>2 DEF Write, Writable
  <2> QED
    BY <1>2, <2>1, BoundsAssumption DEF Stored, Cached
<1> QED
  BY <1>1, <1>2

\* A delivery drops the head and leaves the stored object.
LEMMA StreamDelivered ==
    ASSUME NEW S, NEW s \in Seq(S), Len(s) > 1, Len(s) \in 1 .. MaxLag + 1
    PROVE  /\ Tail(s) \in Seq(S)
           /\ Len(Tail(s)) = Len(s) - 1 /\ Len(Tail(s)) \in 1 .. MaxLag + 1
           /\ \A i \in 1 .. Len(Tail(s)) : i + 1 \in 1 .. Len(s) /\ Tail(s)[i] = s[i + 1]
           /\ Stored(Tail(s)) = Stored(s)
<1>1. /\ Tail(s) \in Seq(S) /\ Len(Tail(s)) = Len(s) - 1 /\ Len(s) \in Nat
      /\ Len(Tail(s)) \in 1 .. MaxLag + 1
  BY BoundsAssumption
<1>2. \A i \in 1 .. Len(Tail(s)) : i + 1 \in 1 .. Len(s) /\ Tail(s)[i] = s[i + 1]
  BY <1>1
<1>3. Len(s) - 1 \in 1 .. Len(Tail(s)) /\ Len(s) - 1 + 1 = Len(s)
  BY <1>1
<1> QED
  BY <1>1, <1>2, <1>3 DEF Stored

\* Both ends of a stream are versions.
LEMMA Ends ==
    ASSUME NEW S, NEW s \in Seq(S), Len(s) \in 1 .. MaxLag + 1
    PROVE  /\ Cached(s) \in S /\ Stored(s) \in S
           /\ DOMAIN s = 1 .. Len(s) /\ 1 \in DOMAIN s /\ Len(s) \in DOMAIN s
           /\ \A i \in DOMAIN s : s[i] \in S
  BY BoundsAssumption DEF Cached, Stored

\* What TypeOK says of the two streams.
LEMMA Streams ==
    ASSUME TypeOK
    PROVE  /\ servers \in Seq(Server) /\ Len(servers) \in 1 .. MaxLag + 1
           /\ claims \in Seq(Seq(Claim)) /\ Len(claims) \in 1 .. MaxLag + 1
           /\ Cached(servers) \in Server /\ Stored(servers) \in Server
           /\ Cached(claims) \in Seq(Claim) /\ Stored(claims) \in Seq(Claim)
  BY Ends DEF TypeOK

-----------------------------------------------------------------------------
(* Lists of claims *)

\* What is left of a list without a claim was in it.
LEMMA WithoutClaim ==
    ASSUME NEW list \in Seq(Claim), NEW id \in Ids
    PROVE  /\ Without(list, id) \in Seq(Claim)
           /\ \A i \in DOMAIN Without(list, id) :
                 \E j \in DOMAIN list : Without(list, id)[i] = list[j]
<1>1. CASE \E i \in DOMAIN list : list[i].id = id
  <2> DEFINE k == CHOOSE i \in DOMAIN list : list[i].id = id
             front == SubSeq(list, 1, k - 1)
             back == SubSeq(list, k + 1, Len(list))
  <2>1. k \in 1 .. Len(list) /\ Len(list) \in Nat
    BY <1>1
  <2> HIDE DEF k
  <2>2. /\ front \in Seq(Claim) /\ Len(front) = k - 1
        /\ \A i \in 1 .. k - 1 : front[i] = list[i]
    BY <2>1
  <2>3. /\ back \in Seq(Claim) /\ Len(back) = Len(list) - k
        /\ \A i \in 1 .. Len(list) - k : back[i] = list[k + i]
    BY <2>1
  <2> HIDE DEF front, back
  <2>4. /\ front \o back \in Seq(Claim)
        /\ Len(front \o back) = Len(front) + Len(back)
        /\ \A i \in 1 .. Len(front) + Len(back) :
              (front \o back)[i] = IF i =< Len(front) THEN front[i]
                                   ELSE back[i - Len(front)]
    BY <2>2, <2>3, ConcatProperties
  <2>5. Without(list, id) = front \o back
    BY <1>1 DEF Without, RemoveAt, k, front, back
  <2>6. ASSUME NEW i \in DOMAIN (front \o back)
        PROVE  \E j \in DOMAIN list : (front \o back)[i] = list[j]
    <3>1. i \in 1 .. Len(list) - 1
      BY <2>1, <2>2, <2>3, <2>4
    <3>2. CASE i =< k - 1
      BY <2>1, <2>2, <2>3, <2>4, <3>1, <3>2
    <3>3. CASE i > k - 1
      <4>1. /\ i - (k - 1) \in 1 .. Len(list) - k
            /\ k + (i - (k - 1)) = i + 1 /\ i + 1 \in DOMAIN list
        BY <2>1, <3>1, <3>3
      <4>2. i \in 1 .. Len(front) + Len(back) /\ ~(i =< Len(front))
            /\ i - Len(front) = i - (k - 1)
        BY <2>1, <2>2, <2>3, <3>1, <3>3
      <4>3. (front \o back)[i] = back[i - (k - 1)]
        BY <2>4, <4>2
      <4>4. back[i - (k - 1)] = list[i + 1]
        BY <2>3, <4>1
      <4> QED
        BY <4>1, <4>3, <4>4
    <3> QED
      BY <2>1, <3>1, <3>2, <3>3
  <2> QED
    BY <2>4, <2>5, <2>6
<1>2. CASE ~ \E i \in DOMAIN list : list[i].id = id
  BY <1>2 DEF Without
<1> QED
  BY <1>1, <1>2

\* Labelling a claim leaves the others and every name.
LEMMA MarkedClaim ==
    ASSUME NEW list \in Seq(Claim), NEW id \in Ids
    PROVE  /\ Marked(list, id) \in Seq(Claim)
           /\ DOMAIN Marked(list, id) = DOMAIN list
           /\ \A i \in DOMAIN list :
                 /\ Marked(list, id)[i].id = list[i].id
                 /\ Marked(list, id)[i].label => list[i].label \/ list[i].id = id
<1>1. \A i \in DOMAIN list : list[i] \in Claim
  OBVIOUS
<1>2. \A i \in DOMAIN list : Marked(list, id)[i] \in Claim
  BY <1>1 DEF Marked, Claim
<1>3. Marked(list, id) \in Seq(Claim) /\ DOMAIN Marked(list, id) = DOMAIN list
  <2>1. Len(list) \in Nat /\ DOMAIN list = 1 .. Len(list)
    OBVIOUS
  <2>2. Marked(list, id) = [i \in 1 .. Len(list) |-> Marked(list, id)[i]]
    BY <2>1 DEF Marked
  <2> QED
    BY <1>2, <2>1, <2>2, IsASeq
<1> QED
  BY <1>1, <1>3 DEF Marked, Claim

\* A claim is added at the end.
LEMMA AddedClaim ==
    ASSUME NEW list \in Seq(Claim), NEW c \in Claim
    PROVE  /\ Append(list, c) \in Seq(Claim)
           /\ \A i \in DOMAIN Append(list, c) :
                 Append(list, c)[i] = c \/ (i \in DOMAIN list /\ Append(list, c)[i] = list[i])
  OBVIOUS

-----------------------------------------------------------------------------
(* Types *)

\* The stream of the Server after a write of `new`.
ServerGrows(new) ==
    /\ servers' \in Seq(Server) /\ Len(servers') \in 1 .. MaxLag + 1
    /\ Stored(servers') = new /\ Cached(servers') = Cached(servers)
    /\ \/ servers' = servers /\ new = Stored(servers)
       \/ /\ Len(servers') = Len(servers) + 1 /\ servers'[Len(servers) + 1] = new
          /\ Len(servers) =< MaxLag
          /\ \A i \in 1 .. Len(servers) : servers'[i] = servers[i]

\* A write of the Server makes at most one version,
LEMMA ServerWritten ==
    ASSUME TypeOK, NEW new \in Server, WriteServer(new)
    PROVE  ServerGrows(new)
  BY StreamWritten, Streams DEF WriteServer, ServerGrows

\* and so does one of the claims.
LEMMA ClaimsWritten ==
    ASSUME TypeOK, NEW new \in Seq(Claim), WriteClaims(new)
    PROVE  /\ claims' \in Seq(Seq(Claim)) /\ Len(claims') \in 1 .. MaxLag + 1
           /\ Stored(claims') = new
           /\ \A v \in DOMAIN claims' :
                 claims'[v] = new \/ (v \in DOMAIN claims /\ claims'[v] = claims[v])
<1>1. /\ claims' \in Seq(Seq(Claim)) /\ Len(claims') \in 1 .. MaxLag + 1
      /\ Stored(claims') = new
      /\ \/ claims' = claims /\ new = Stored(claims)
         \/ /\ Len(claims') = Len(claims) + 1 /\ claims'[Len(claims) + 1] = new
            /\ \A i \in 1 .. Len(claims) : claims'[i] = claims[i]
  BY StreamWritten, Streams DEF WriteClaims
<1>2. DOMAIN claims = 1 .. Len(claims) /\ DOMAIN claims' = 1 .. Len(claims')
      /\ Len(claims) \in Nat
  BY <1>1, Streams, LenProperties
<1>3. ASSUME NEW v \in DOMAIN claims'
      PROVE  claims'[v] = new \/ (v \in DOMAIN claims /\ claims'[v] = claims[v])
  <2>1. CASE claims' = claims
    BY <1>3, <2>1
  <2>2. CASE claims' # claims
    <3>1. v \in DOMAIN claims \/ v = Len(claims) + 1
      <4>1. Len(claims') = Len(claims) + 1
        BY <1>1, <2>2
      <4> HIDE <1>1
      <4> QED
        BY <1>2, <1>3, <4>1
    <3> QED
      BY <1>1, <1>2, <2>2, <3>1
  <2> QED
    BY <2>1, <2>2
<1> QED
  BY <1>1, <1>3

\* A patch of the conditions leaves the rest of the stored Server, and of the
\* conditions it leaves each as stored or as the patcher wants it; one that
\* the patcher changes becomes what it wants.
LEMMA ConditionsPatched ==
    ASSUME TypeOK, NEW new \in Server, PatchConditions(new)
    PROVE  LET old == Stored(servers)
               patched == Patched(Cached(servers), new)
           IN  /\ patched \in Server /\ ServerGrows(patched)
               /\ patched.state = old.state /\ patched.ref = old.ref
               /\ patched.nics = old.nics
               /\ patched.sanitized \in {old.sanitized, new.sanitized}
               /\ patched.sanitized = new.sanitized
                    \/ new.sanitized = Cached(servers).sanitized
               /\ patched.network = new.network
                    \/ (patched = old /\ new.network = Cached(servers).network)
<1> DEFINE old == Stored(servers)
           patched == Patched(Cached(servers), new)
<1>1. old \in Server
  BY Streams
<1>2. /\ patched \in Server
      /\ patched.state = old.state /\ patched.ref = old.ref
      /\ patched.nics = old.nics
      /\ patched.sanitized \in {old.sanitized, new.sanitized}
      /\ patched.sanitized = new.sanitized
           \/ new.sanitized = Cached(servers).sanitized
      /\ patched.network = new.network
           \/ (patched = old /\ new.network = Cached(servers).network)
  BY <1>1 DEF Patched, Server
<1>3. ServerGrows(patched)
  BY <1>2, ServerWritten DEF PatchConditions
<1> QED
  BY <1>2, <1>3

\* The part of the state that a sanitization reconcile writes is typed.
SanitizingTyped ==
    /\ servers' \in Seq(Server) /\ Len(servers') \in 1 .. MaxLag + 1
    /\ claims' \in Seq(Seq(Claim)) /\ Len(claims') \in 1 .. MaxLag + 1
    /\ secrets' \in [Ids -> {"none", "loose", "owned"}]
    /\ queued' \in BOOLEAN
    /\ job' \in Job \cup {Idle}
    /\ cleanups' \subseteq Ids

\* What a status becomes is a status.
LEMMA ServerFields ==
    ASSUME NEW v \in Server
    PROVE  /\ \A s \in Status : [v EXCEPT !.sanitized = s] \in Server
           /\ \A s \in Status : [v EXCEPT !.network = s] \in Server
           /\ \A s \in Status : [v EXCEPT !.done = s] \in Server
           /\ \A n \in {"True", "False"} : [v EXCEPT !.nics = n] \in Server
           /\ \A r \in Ids \cup {None, Tenant} : [v EXCEPT !.ref = r] \in Server
           /\ \A s \in {"Available", "Reserved", "Released"} : [v EXCEPT !.state = s] \in Server
           /\ v.nics \in Status
  BY DEF Server, Status

\* The reconciles of a Server write objects of their types.
LEMMA ReconcileTyped ==
    ASSUME TypeOK, Reconcile
    PROVE  SanitizingTyped
<1> USE DEF SanitizingTyped
<1>1. Cached(servers) \in Server /\ Stored(servers) \in Server
  BY Streams
<1>2. CASE reconcileReleased
  <2>1. CASE Cached(servers).sanitized # "False"
    <3>1. [Cached(servers) EXCEPT !.sanitized = "False"] \in Server
      BY <1>1, ServerFields DEF Status
    <3> QED
      BY <1>2, <2>1, <3>1, ConditionsPatched DEF reconcileReleased, TypeOK, ServerGrows
  <2>2. CASE Cached(servers).sanitized = "False"
    <3> DEFINE new == IF Cached(servers).ref = None THEN Stored(servers)
                      ELSE [Stored(servers) EXCEPT !.ref = None]
    <3>1. new \in Server
      BY <1>1, ServerFields
    <3>2. WriteServer(new)
      BY <1>2, <2>2 DEF reconcileReleased
    <3> HIDE DEF new
    <3> QED
      BY <1>2, <3>1, <3>2, ServerWritten DEF reconcileReleased, TypeOK, ServerGrows
  <2> QED
    BY <2>1, <2>2
<1>3. CASE ReconcileSkips
  BY <1>3 DEF ReconcileSkips, TypeOK
<1>4. CASE CleanUpLeftovers
  <2>1. <<>> \in Seq(Claim)
    OBVIOUS
  <2> QED
    BY <1>4, <2>1, ClaimsWritten DEF CleanUpLeftovers, TypeOK
<1>5. CASE UseClaim
  <2>1. PICK i \in Oldest :
          LET claim == Cached(claims)[i] IN
          /\ cleanups' = IF Len(Cached(claims)) > 1
                         THEN cleanups \cup Outdated(claim.id) ELSE cleanups
          /\ IF claim.label
             THEN /\ PatchConditions([Cached(servers) EXCEPT !.sanitized = "True"])
                  /\ job' = [pc |-> "delete", id |-> claim.id]
             ELSE UNCHANGED <<servers, job>>
    BY <1>5 DEF UseClaim
  <2>2. Cached(claims)[i] \in Claim
    <3>1. Cached(claims) \in Seq(Claim) /\ Cached(claims) # <<>>
      BY <1>5, Streams DEF UseClaim
    <3>2. i \in DOMAIN Cached(claims)
      BY <2>1, <3>1 DEF Oldest
    <3> QED
      BY <3>1, <3>2
  <2>3. Cached(claims)[i].id \in Ids
    BY <2>2 DEF Claim
  <2>4. cleanups' \subseteq Ids
    BY <2>1, <2>3 DEF Outdated, TypeOK
  <2>5. [Cached(servers) EXCEPT !.sanitized = "True"] \in Server
    BY <1>1, ServerFields DEF Status
  <2>6. /\ servers' \in Seq(Server) /\ Len(servers') \in 1 .. MaxLag + 1
        /\ job' \in Job \cup {Idle}
    BY <2>1, <2>3, <2>5, ConditionsPatched DEF TypeOK, ServerGrows, Job
  <2> QED
    BY <1>5, <2>4, <2>6 DEF UseClaim, TypeOK
<1>6. CASE CreateSecret
  <2>1. PICK id \in Ids : /\ secrets' = [secrets EXCEPT ![id] = "loose"]
                          /\ job' = [pc |-> "claim", id |-> id]
    BY <1>6 DEF CreateSecret, Fresh
  <2>2. job' \in Job
    BY <2>1 DEF Job
  <2> QED
    BY <1>6, <2>1, <2>2 DEF CreateSecret, TypeOK
<1> QED
  BY <1>2, <1>3, <1>4, <1>5, <1>6 DEF Reconcile

\* So do the writes that follow them.
LEMMA ContinueTyped ==
    ASSUME TypeOK, Continue
    PROVE  SanitizingTyped
<1> USE DEF SanitizingTyped
<1>1. job \in Job
  BY DEF Continue, CreateClaim, OwnSecret, DeleteClaim, TypeOK
<1>2. job.id \in Ids
  BY <1>1 DEF Job
<1>3. Stored(claims) \in Seq(Claim)
  BY Streams
<1>4. CASE CreateClaim
  <2> DEFINE new == [id |-> job.id, label |-> FALSE]
  <2>1. Append(Stored(claims), new) \in Seq(Claim)
    BY <1>2, <1>3, AddedClaim DEF Claim
  <2>2. job' \in Job
    BY <1>1, <1>4 DEF CreateClaim, Job
  <2> QED
    BY <1>4, <2>1, <2>2, ClaimsWritten DEF CreateClaim, TypeOK
<1>5. CASE OwnSecret
  BY <1>2, <1>5 DEF OwnSecret, TypeOK
<1>6. CASE DeleteClaim
  <2>1. Without(Stored(claims), job.id) \in Seq(Claim)
    BY <1>2, <1>3, WithoutClaim
  <2> QED
    BY <1>6, <2>1, ClaimsWritten DEF DeleteClaim, TypeOK
<1> QED
  BY <1>4, <1>5, <1>6 DEF Continue

\* The initial state is well formed.
LEMMA InitTyped == Init => TypeOK
<1> SUFFICES ASSUME Init PROVE TypeOK
  OBVIOUS
<1> DEFINE first == [state |-> "Reserved", ref |-> Tenant, sanitized |-> "absent",
                     network |-> "absent", done |-> "absent", nics |-> "True"]
<1>1. first \in Server
  BY DEF Server, Status
<1>2. servers = <<first>>
  BY DEF Init
<1> HIDE DEF first
<1>3. servers \in Seq(Server) /\ Len(servers) \in 1 .. MaxLag + 1
  BY <1>1, <1>2, BoundsAssumption
<1>4. claims \in Seq(Seq(Claim)) /\ Len(claims) \in 1 .. MaxLag + 1
  <2>1. <<>> \in Seq(Claim)
    OBVIOUS
  <2> QED
    BY <2>1, BoundsAssumption DEF Init
<1>5. faults \in 0 .. MaxFaults
  BY BoundsAssumption DEF Init
<1>6. tenants \in 0 .. MaxTenants /\ tenantWaits \in BOOLEAN /\ dirty \in BOOLEAN
  BY BoundsAssumption DEF Init
<1>7. wiring \in [phase : {"none", "live", "deleting", "gone"}, queued : BOOLEAN]
  BY DEF Init
<1>8. /\ secrets \in [Ids -> {"none", "loose", "owned"}]
      /\ queued \in BOOLEAN
      /\ job \in Job \cup {Idle} /\ sanitizer \in Sanitizer \cup {Idle}
      /\ cleanups \subseteq Ids /\ published \in Status
  BY DEF Init, Status
<1> QED
  BY <1>3, <1>4, <1>5, <1>6, <1>7, <1>8 DEF TypeOK

\* The wiring of a Server whose event arrives.
LEMMA EnqueuedTyped ==
    ASSUME TypeOK
    PROVE  /\ enqueueFromServer \in
                 [phase : {"none", "live", "deleting", "gone"}, queued : BOOLEAN]
           /\ enqueueFromServer.phase = wiring.phase
           /\ enqueueFromServer.queued = (wiring.phase \in {"live", "deleting"})
<1>1. wiring \in [phase : {"none", "live", "deleting", "gone"}, queued : BOOLEAN]
  BY DEF TypeOK
<1> DEFINE live == wiring.phase \in {"live", "deleting"}
<1>2. live \in BOOLEAN
  OBVIOUS
<1>3. enqueueFromServer = [wiring EXCEPT !.queued = live]
  BY DEF enqueueFromServer
<1> HIDE DEF live
<1>4. /\ enqueueFromServer \in
            [phase : {"none", "live", "deleting", "gone"}, queued : BOOLEAN]
      /\ enqueueFromServer.phase = wiring.phase
      /\ enqueueFromServer.queued = live
  BY <1>1, <1>2, <1>3
<1> QED
  BY <1>4 DEF live

\* Every step leaves the state well formed.
LEMMA TypesKept == TypeOK /\ [Next]_vars => TypeOK'
<1> SUFFICES ASSUME TypeOK, [Next]_vars PROVE TypeOK'
  OBVIOUS
<1>1. /\ Cached(servers) \in Server /\ Stored(servers) \in Server
      /\ Cached(claims) \in Seq(Claim) /\ Stored(claims) \in Seq(Claim)
  BY Streams
<1>2. CASE DeliverServer
  <2>1. servers' \in Seq(Server) /\ Len(servers') \in 1 .. MaxLag + 1
    BY <1>2, Streams, StreamDelivered DEF DeliverServer
  <2>2. serverPredicate(servers[2]) \in BOOLEAN
    BY DEF serverPredicate
  <2> QED
    BY <1>2, <2>1, <2>2, EnqueuedTyped DEF DeliverServer, TypeOK
<1>3. CASE DeliverClaims
  <2>1. claims' \in Seq(Seq(Claim)) /\ Len(claims') \in 1 .. MaxLag + 1
    BY <1>3, Streams, StreamDelivered DEF DeliverClaims
  <2> QED
    BY <1>3, <2>1 DEF DeliverClaims, TypeOK
<1>4. CASE Reconcile
  BY <1>4, ReconcileTyped DEF SanitizingTyped, Reconcile, outside, TypeOK
<1>5. CASE Continue
  BY <1>5, ContinueTyped DEF SanitizingTyped, Continue, outside, TypeOK
<1>6. CASE cleanupOutdatedSanitizationResources
  <2>1. PICK id \in cleanups :
          /\ cleanups' = cleanups \ {id}
          /\ WriteClaims(Without(Stored(claims), id))
          /\ secrets' = [secrets EXCEPT ![id] = "none"]
    BY <1>6 DEF cleanupOutdatedSanitizationResources
  <2>2. id \in Ids
    BY <2>1 DEF TypeOK
  <2>3. claims' \in Seq(Seq(Claim)) /\ Len(claims') \in 1 .. MaxLag + 1
    BY <1>1, <2>1, <2>2, WithoutClaim, ClaimsWritten
  <2> QED
    BY <1>6, <2>1, <2>3 DEF cleanupOutdatedSanitizationResources, outside, TypeOK
<1>7. CASE Wipe
  <2>1. sanitizer' \in Sanitizer
    BY <1>7 DEF Wipe, TypeOK, Sanitizer
  <2>2. dirty' \in BOOLEAN
    BY <1>7 DEF Wipe, TypeOK
  <2> QED
    BY <1>7, <2>1, <2>2 DEF Wipe, others, TypeOK
<1>8. CASE Report
  <2>1. sanitizer \in Sanitizer /\ sanitizer' \in Sanitizer
    BY <1>8 DEF Report, TypeOK, Sanitizer
  <2>2. sanitizer.id \in Ids
    BY <2>1 DEF Sanitizer
  <2>3. Marked(Stored(claims), sanitizer.id) \in Seq(Claim)
    BY <1>1, <2>2, MarkedClaim
  <2>4. claims' \in Seq(Seq(Claim)) /\ Len(claims') \in 1 .. MaxLag + 1
    BY <1>8, <2>3, ClaimsWritten DEF Report, TypeOK
  <2>5. faults' \in 0 .. MaxFaults
    BY <1>8, BoundsAssumption DEF Report, TypeOK
  <2> QED
    BY <1>8, <2>1, <2>4, <2>5 DEF Report, others, TypeOK
<1>9. CASE ReconcileWiring
  <2>1. servers' \in Seq(Server) /\ Len(servers') \in 1 .. MaxLag + 1
    BY <1>1, <1>9, ServerFields, ConditionsPatched DEF ReconcileWiring, ServerGrows
  <2> QED
    BY <1>9, <2>1 DEF ReconcileWiring, elsewhere, TypeOK
<1>10. CASE ReconcileWiringDelete
  <2>1. servers' \in Seq(Server) /\ Len(servers') \in 1 .. MaxLag + 1
    BY <1>1, <1>10, ServerFields, ConditionsPatched
       DEF ReconcileWiringDelete, ServerGrows, Status
  <2>2. faults' \in 0 .. MaxFaults
    BY <1>10, BoundsAssumption DEF ReconcileWiringDelete, TypeOK
  <2>3. wiring' \in [phase : {"none", "live", "deleting", "gone"}, queued : BOOLEAN]
    <3>1. \/ wiring' = [phase |-> "gone", queued |-> FALSE]
          \/ UNCHANGED wiring
      BY <1>10 DEF ReconcileWiringDelete
    <3>2. [phase |-> "gone", queued |-> FALSE]
            \in [phase : {"none", "live", "deleting", "gone"}, queued : BOOLEAN]
      OBVIOUS
    <3> QED
      BY <3>1, <3>2, Zenon DEF TypeOK
  <2> QED
    BY <1>10, <2>1, <2>2, <2>3 DEF ReconcileWiringDelete, elsewhere, TypeOK
<1>11. CASE UserWiring
  <2>1. wiring' \in [phase : {"none", "live", "deleting", "gone"}, queued : BOOLEAN]
    <3>1. \/ wiring' = [phase |-> "live", queued |-> TRUE]
          \/ wiring' = [phase |-> "deleting", queued |-> TRUE]
      BY <1>11 DEF UserWiring
    <3>2. \A p \in {"live", "deleting"} : [phase |-> p, queued |-> TRUE]
            \in [phase : {"none", "live", "deleting", "gone"}, queued : BOOLEAN]
      OBVIOUS
    <3> QED
      BY <3>1, <3>2, Zenon
  <2> QED
    BY <1>11, <2>1 DEF UserWiring, elsewhere, TypeOK
<1>12. CASE NicsChange
  <2>1. servers' \in Seq(Server) /\ Len(servers') \in 1 .. MaxLag + 1
    BY <1>1, <1>12, ServerFields, ServerWritten DEF NicsChange, ServerGrows
  <2> QED
    BY <1>12, <2>1 DEF NicsChange, elsewhere, TypeOK
<1>13. CASE PatchServerCondition
  <2>1. servers' \in Seq(Server) /\ Len(servers') \in 1 .. MaxLag + 1
    BY <1>1, <1>13, ServerFields, ConditionsPatched
       DEF PatchServerCondition, ServerGrows, Status
  <2>2. published' \in Status
    BY <1>13 DEF PatchServerCondition, Status
  <2> QED
    BY <1>13, <2>1, <2>2 DEF PatchServerCondition, elsewhere, TypeOK
<1>14. CASE BindClaim
  <2>1. \A i \in DOMAIN Stored(claims) : Stored(claims)[i].id \in Ids
    <3>1. \A i \in DOMAIN Stored(claims) : Stored(claims)[i] \in Claim
      BY <1>1
    <3> QED
      BY <3>1 DEF Claim
  <2>2. servers' \in Seq(Server) /\ Len(servers') \in 1 .. MaxLag + 1
    BY <1>1, <1>14, <2>1, ServerFields, ServerWritten DEF BindClaim, ServerGrows
  <2>3. tenants' \in 0 .. MaxTenants /\ tenantWaits' \in BOOLEAN
    <3>1. \/ UNCHANGED <<tenants, tenantWaits>>
          \/ tenants < MaxTenants /\ tenants' = tenants + 1 /\ tenantWaits' = TRUE
      BY <1>14 DEF BindClaim
    <3>2. tenants' \in 0 .. MaxTenants
      <4>1. tenants' = tenants \/ (tenants < MaxTenants /\ tenants' = tenants + 1)
        BY <3>1
      <4> QED
        BY <4>1, BoundsAssumption DEF TypeOK
    <3>3. tenantWaits' \in BOOLEAN
      BY <3>1, Zenon DEF TypeOK
    <3> QED
      BY <3>2, <3>3
  <2> QED
    BY <1>14, <2>2, <2>3 DEF BindClaim, controllers, TypeOK
<1>15. CASE Reserve
  <2>1. servers' \in Seq(Server) /\ Len(servers') \in 1 .. MaxLag + 1
    BY <1>1, <1>15, ServerFields, ServerWritten DEF Reserve, ServerGrows
  <2>2. dirty' \in BOOLEAN
    BY <1>15 DEF Reserve, TypeOK
  <2> QED
    BY <1>15, <2>1, <2>2 DEF Reserve, controllers, TypeOK
<1>16. CASE Boot
  BY <1>16 DEF Boot, controllers, TypeOK, Sanitizer
<1>17. CASE TenantLeaves
  BY <1>17 DEF TenantLeaves, controllers, TypeOK
<1>18. CASE Reclaim
  <2>1. servers' \in Seq(Server) /\ Len(servers') \in 1 .. MaxLag + 1
    BY <1>1, <1>18, ServerFields, ServerWritten DEF Reclaim, ServerGrows
  <2> QED
    BY <1>18, <2>1 DEF Reclaim, controllers, TypeOK
<1>19. CASE Recycle
  <2>1. servers' \in Seq(Server) /\ Len(servers') \in 1 .. MaxLag + 1
    BY <1>1, <1>19, ServerFields, ServerWritten DEF Recycle, ServerGrows
  <2> QED
    BY <1>19, <2>1 DEF Recycle, controllers, TypeOK
<1>20. CASE CollectGarbage
  BY <1>20 DEF CollectGarbage, outside, TypeOK
<1>21. CASE CallFails
  BY <1>21, BoundsAssumption DEF CallFails, TypeOK
<1>22. CASE Crash
  <2>1. servers' \in Seq(Server) /\ Len(servers') \in 1 .. MaxLag + 1
    BY <1>1, <1>22, BoundsAssumption DEF Crash
  <2>2. claims' \in Seq(Seq(Claim)) /\ Len(claims') \in 1 .. MaxLag + 1
    BY <1>1, <1>22, BoundsAssumption DEF Crash
  <2>3. queued' \in BOOLEAN /\ faults' \in 0 .. MaxFaults
    BY <1>22, BoundsAssumption DEF Crash, serverPredicate, TypeOK
  <2> QED
    BY <1>22, <2>1, <2>2, <2>3, EnqueuedTyped DEF Crash, TypeOK
<1>23. CASE UNCHANGED vars
  BY <1>23 DEF vars, TypeOK
<1> QED
  BY <1>2, <1>3, <1>4, <1>5, <1>6, <1>7, <1>8, <1>9, <1>10, <1>11, <1>12, <1>13,
     <1>14, <1>15, <1>16, <1>17, <1>18, <1>19, <1>20, <1>21, <1>22, <1>23 DEF Next

\* Streams, queue, jobs and counters keep their types and their bounds, for
\* every set of names and every bound.
THEOREM TypeCorrect == Spec => []TypeOK
<1> QED
  BY InitTyped, TypesKept, PTL DEF Spec

-----------------------------------------------------------------------------
(* NetworkReady *)

\* A step that is neither a delivery, a restart nor a write of the Server
\* leaves a resting request as current as it was; a write makes a version
\* that still has to be delivered.
LEMMA CurrentKept ==
    ASSUME TypeOK, NetworkReadyIsCurrent, TypeOK', wiring' = wiring,
           servers' = servers \/ Len(servers') = Len(servers) + 1
    PROVE  NetworkReadyIsCurrent'
<1>1. Len(servers) \in Nat /\ Len(servers) >= 1
  BY Streams
<1>2. CASE servers' = servers
  BY <1>2 DEF NetworkReadyIsCurrent, Stored
<1>3. CASE Len(servers') = Len(servers) + 1
  <2>1. Len(servers') # 1
    BY <1>1, <1>3
  <2> QED
    BY <2>1 DEF NetworkReadyIsCurrent
<1> QED
  BY <1>2, <1>3

\* A write of the Server in one of the ways the actions do it.
LEMMA GrowsByOne ==
    ASSUME NEW new, ServerGrows(new)
    PROVE  servers' = servers \/ Len(servers') = Len(servers) + 1
  BY DEF ServerGrows

\* No actor but the controller itself disturbs the condition at rest.
LEMMA NetworkKept ==
    TypeOK /\ NetworkReadyIsCurrent /\ [Next]_vars => NetworkReadyIsCurrent'
<1> SUFFICES ASSUME TypeOK, NetworkReadyIsCurrent, [Next]_vars
             PROVE  NetworkReadyIsCurrent'
  OBVIOUS
<1>1. TypeOK'
  BY TypesKept
<1>2. /\ Cached(servers) \in Server /\ Stored(servers) \in Server
      /\ Cached(claims) \in Seq(Claim) /\ Stored(claims) \in Seq(Claim)
      /\ Len(servers) \in Nat /\ Len(servers) >= 1
  BY Streams
<1>3. ASSUME wiring' = enqueueFromServer
      PROVE  NetworkReadyIsCurrent'
  BY <1>1, <1>3, EnqueuedTyped DEF NetworkReadyIsCurrent
<1>4. CASE DeliverServer
  BY <1>3, <1>4 DEF DeliverServer
<1>5. CASE Reconcile
  <2>1. CASE reconcileReleased
    <3>1. [Cached(servers) EXCEPT !.sanitized = "False"] \in Server
      BY <1>2, ServerFields DEF Status
    <3>2. PICK new \in Server : WriteServer(new) \/ PatchConditions(new)
      <4>1. [Stored(servers) EXCEPT !.ref = None] \in Server
        BY <1>2, ServerFields
      <4> QED
        BY <1>2, <2>1, <3>1, <4>1 DEF reconcileReleased
    <3>3. servers' = servers \/ Len(servers') = Len(servers) + 1
      BY <3>2, ServerWritten, ConditionsPatched, GrowsByOne
    <3> QED
      BY <1>1, <1>5, <3>3, CurrentKept DEF Reconcile, outside
  <2>2. CASE UseClaim
    <3>1. [Cached(servers) EXCEPT !.sanitized = "True"] \in Server
      BY <1>2, ServerFields DEF Status
    <3>2. \/ servers' = servers
          \/ PatchConditions([Cached(servers) EXCEPT !.sanitized = "True"])
      BY <2>2 DEF UseClaim
    <3>3. servers' = servers \/ Len(servers') = Len(servers) + 1
      BY <3>1, <3>2, ConditionsPatched, GrowsByOne
    <3> QED
      BY <1>1, <1>5, <3>3, CurrentKept DEF Reconcile, outside
  <2>3. CASE ReconcileSkips \/ CleanUpLeftovers \/ CreateSecret
    BY <1>1, <1>5, <2>3, CurrentKept
       DEF Reconcile, outside, ReconcileSkips, CleanUpLeftovers, CreateSecret
  <2> QED
    BY <1>5, <2>1, <2>2, <2>3 DEF Reconcile
<1>6. CASE \/ DeliverClaims \/ Continue \/ cleanupOutdatedSanitizationResources
           \/ Wipe \/ Report \/ Boot \/ TenantLeaves \/ CollectGarbage \/ CallFails
           \/ UNCHANGED vars
  BY <1>1, <1>6, CurrentKept
     DEF DeliverClaims, Continue, CreateClaim, OwnSecret, DeleteClaim, outside,
         cleanupOutdatedSanitizationResources, Wipe, Report, others, Boot, TenantLeaves,
         controllers, CollectGarbage, CallFails, vars
<1>7. CASE ReconcileWiring
  <2> DEFINE new == [Cached(servers) EXCEPT !.network = Cached(servers).nics]
             patched == Patched(Cached(servers), new)
  <2>1. new \in Server /\ new.network = Cached(servers).nics
    BY <1>2, ServerFields DEF Server
  <2>2. PatchConditions(new)
    BY <1>7 DEF ReconcileWiring
  <2> HIDE DEF new
  <2>3. /\ ServerGrows(patched)
        /\ patched.network = new.network
             \/ (patched = Stored(servers) /\ new.network = Cached(servers).network)
    BY <2>1, <2>2, ConditionsPatched
  <2>4. CASE Len(servers') = 1
    <3>1. servers' = servers /\ Cached(servers) = Stored(servers)
          /\ patched = Stored(servers)
      BY <1>2, <2>3, <2>4 DEF ServerGrows, Cached, Stored
    <3>2. Stored(servers).network = Stored(servers).nics
      BY <2>1, <2>3, <3>1
    <3> QED
      BY <1>1, <3>1, <3>2 DEF NetworkReadyIsCurrent, Stored
  <2> QED
    BY <1>1, <2>4 DEF NetworkReadyIsCurrent
<1>8. CASE ReconcileWiringDelete
  <2>1. wiring'.phase # "live"
    BY <1>8 DEF ReconcileWiringDelete
  <2> QED
    BY <1>1, <2>1 DEF NetworkReadyIsCurrent
<1>9. CASE UserWiring
  <2>1. wiring'.queued
    BY <1>9 DEF UserWiring
  <2> QED
    BY <1>1, <2>1 DEF NetworkReadyIsCurrent
<1>10. CASE NicsChange
  <2>1. PICK n \in {"True", "False"} : WriteServer([Stored(servers) EXCEPT !.nics = n])
    BY <1>10 DEF NicsChange
  <2>2. [Stored(servers) EXCEPT !.nics = n] \in Server
    BY <1>2, ServerFields
  <2> QED
    BY <1>1, <1>10, <2>1, <2>2, ServerWritten, GrowsByOne, CurrentKept DEF NicsChange
<1>11. CASE PatchServerCondition
  <2>1. PICK s \in {"False", "True"} :
          PatchConditions([Cached(servers) EXCEPT !.done = s])
    BY <1>11 DEF PatchServerCondition
  <2>2. [Cached(servers) EXCEPT !.done = s] \in Server
    BY <1>2, ServerFields DEF Status
  <2> QED
    BY <1>1, <1>11, <2>1, <2>2, ConditionsPatched, GrowsByOne, CurrentKept
       DEF PatchServerCondition
<1>12. CASE BindClaim \/ Reserve \/ Reclaim \/ Recycle
  <2>1. PICK new \in Server : WriteServer(new)
    <3>1. \A i \in DOMAIN Stored(claims) : Stored(claims)[i].id \in Ids
      <4>1. \A i \in DOMAIN Stored(claims) : Stored(claims)[i] \in Claim
        BY <1>2
      <4> QED
        BY <4>1 DEF Claim
    <3>2. /\ \A r \in Ids \cup {None, Tenant} : [Stored(servers) EXCEPT !.ref = r] \in Server
          /\ \A s \in {"Available", "Reserved", "Released"} :
                [Stored(servers) EXCEPT !.state = s] \in Server
      BY <1>2, ServerFields
    <3> QED
      BY <1>12, <3>1, <3>2 DEF BindClaim, Reserve, Reclaim, Recycle
  <2>2. wiring' = wiring
    BY <1>12 DEF BindClaim, Reserve, Reclaim, Recycle, controllers
  <2> QED
    BY <1>1, <2>1, <2>2, ServerWritten, GrowsByOne, CurrentKept
<1>13. CASE Crash
  BY <1>3, <1>13 DEF Crash
<1> QED
  BY <1>4, <1>5, <1>6, <1>7, <1>8, <1>9, <1>10, <1>11, <1>12, <1>13 DEF Next

\* A request of the ServerWiring controller at rest means that NetworkReady
\* says what the NICs say, whoever else replaced the list of conditions.
THEOREM NetworkCurrent == Spec => []NetworkReadyIsCurrent
<1>1. Init => NetworkReadyIsCurrent
  BY InitTyped DEF Init, NetworkReadyIsCurrent
<1> QED
  BY <1>1, InitTyped, TypesKept, NetworkKept, PTL DEF Spec

-----------------------------------------------------------------------------
(* The stages of a release.  As long as a sanitization claim leaves the    *)
(* Server Available, no ServerWiring replaces the list and the cache       *)
(* trails by three versions at most, every version is in one of six        *)
(* stages and a cache never shows one that the stored Server cannot have   *)
(* come from within so few versions.                                       *)

\* The hypotheses of this section.  The first is what the repository takes
\* metal-operator to do; without any of the others TLC has a counterexample.
Calm ==
    /\ StaysAvailable /\ ~WithWiring /\ ~WipeMayFail
    /\ MaxLag =< 3

Tenanted(v) == v.state = "Reserved" /\ v.ref = Tenant /\ v.sanitized # "False"
Left(v) == v.state = "Released" /\ v.ref = Tenant /\ v.sanitized # "False"
Asking(v) == v.state = "Released" /\ v.ref = Tenant /\ v.sanitized = "False"
LetGo(v) == v.state = "Released" /\ v.ref = None /\ v.sanitized = "False"
Waiting(v) == v.state = "Available" /\ v.ref # Tenant /\ v.sanitized = "False"
Clean(v) == v.state = "Available" /\ v.sanitized # "False"

Staged(v) == Tenanted(v) \/ Left(v) \/ Asking(v) \/ LetGo(v) \/ Waiting(v) \/ Clean(v)

\* What may follow a version while a cache still shows it.
Follows(v, w) ==
    /\ Tenanted(v) => Tenanted(w) \/ Left(w)
    /\ Left(v) => Left(w) \/ Asking(w)
    /\ Asking(v) => Asking(w) \/ LetGo(w) \/ Waiting(w)
    /\ LetGo(v) => LetGo(w) \/ Waiting(w)
    /\ Waiting(v) => Waiting(w) \/ Clean(w) \/ Tenanted(w) \/ Left(w)
    /\ Clean(v) => Clean(w) \/ Tenanted(w) \/ Left(w)

StagesInOrder ==
    \A i, j \in DOMAIN servers :
        Staged(servers[i]) /\ (i =< j => Follows(servers[i], servers[j]))

\* A version that still has the tenant's reference after the release is as
\* old as the steps that have been taken since.
LeftLagsBehind ==
    \A i \in DOMAIN servers :
        servers[i].state = "Released" /\ servers[i].ref = Tenant =>
            LET server == Stored(servers)
                behind == Len(servers) - i
            IN  /\ server.state = "Released" /\ server.ref = None => behind >= 1
                /\ server.state = "Available" /\ server.ref = None => behind >= 2
                /\ server.state = "Available" /\ server.ref \in Ids => behind >= 3

CleanIsClean == Clean(Stored(servers)) => ~dirty

\* The sanitizer runs on a Server that its claim still holds, and has wiped
\* it when it reports.
SanitizerHoldsServer ==
    sanitizer # Idle =>
        /\ Stored(servers).state = "Available" /\ Stored(servers).ref = sanitizer.id
        /\ sanitizer.phase # "wiping" => ~dirty

\* The names of the claims of a list that carry the label.
Labelled(list) == {list[i].id : i \in {j \in DOMAIN list : list[j].label}}

LabelIsBound ==
    \A id \in Labelled(Stored(claims)) :
        Stored(servers).state = "Available" /\ Stored(servers).ref = id

BoundTenantWaits ==
    Stored(servers).state = "Available" /\ Stored(servers).ref = Tenant => tenantWaits

\* From the end of a tenancy to the wipe nothing, not even a cache, shows a
\* labelled claim.
NoOldLabels ==
    dirty /\ ~(Stored(servers).state = "Reserved" /\ tenantWaits) =>
        \A v \in DOMAIN claims : Labelled(claims[v]) = {}

CleanInv ==
    /\ wiring.phase = "none"
    /\ StagesInOrder /\ LeftLagsBehind /\ CleanIsClean /\ SanitizerHoldsServer
    /\ LabelIsBound /\ BoundTenantWaits /\ NoOldLabels

\* Before the wipe no tenant holds an Available Server.
LEMMA CleanSuffices == TypeOK /\ CleanInv => TenantFindsCleanDisks
<1> SUFFICES ASSUME TypeOK, CleanInv PROVE TenantFindsCleanDisks
  OBVIOUS
<1>1. Staged(Stored(servers))
  BY Streams, Ends DEF CleanInv, StagesInOrder, Stored
<1> QED
  BY <1>1 DEF CleanInv, CleanIsClean, TenantFindsCleanDisks, Staged, Tenanted, Left,
              Asking, LetGo, Waiting, Clean

-----------------------------------------------------------------------------
(* Labels *)

\* No claim is labelled that was not, and no cache goes back to one.
LabelsKept ==
    /\ Labelled(Stored(claims')) \subseteq Labelled(Stored(claims))
    /\ \A v \in DOMAIN claims' : \E u \in DOMAIN claims :
          Labelled(claims'[v]) \subseteq Labelled(claims[u])

\* A write of a list whose labelled claims were labelled before.
LEMMA LabelsWritten ==
    ASSUME TypeOK, NEW new \in Seq(Claim), WriteClaims(new),
           Labelled(new) \subseteq Labelled(Stored(claims))
    PROVE  LabelsKept
<1>1. /\ Stored(claims') = new
      /\ \A v \in DOMAIN claims' :
            claims'[v] = new \/ (v \in DOMAIN claims /\ claims'[v] = claims[v])
  BY ClaimsWritten
<1>2. Len(claims) \in DOMAIN claims /\ claims[Len(claims)] = Stored(claims)
  BY Streams, Ends DEF Stored
<1>3. ASSUME NEW v \in DOMAIN claims'
      PROVE  \E u \in DOMAIN claims : Labelled(claims'[v]) \subseteq Labelled(claims[u])
  BY <1>1, <1>2, <1>3
<1> QED
  BY <1>1, <1>3 DEF LabelsKept

\* Deleting a claim labels none,
LEMMA WithoutLabels ==
    ASSUME NEW list \in Seq(Claim), NEW id \in Ids
    PROVE  Labelled(Without(list, id)) \subseteq Labelled(list)
<1>1. \A i \in DOMAIN Without(list, id) :
         \E j \in DOMAIN list : Without(list, id)[i] = list[j]
  BY WithoutClaim
<1> QED
  BY <1>1 DEF Labelled

\* and neither does a new claim.
LEMMA AddedLabels ==
    ASSUME NEW list \in Seq(Claim), NEW c \in Claim, ~c.label
    PROVE  Labelled(Append(list, c)) \subseteq Labelled(list)
<1>1. \A i \in DOMAIN Append(list, c) :
         Append(list, c)[i] = c \/ (i \in DOMAIN list /\ Append(list, c)[i] = list[i])
  BY AddedClaim
<1> QED
  BY <1>1 DEF Labelled

\* The label is set on one claim only.
LEMMA MarkedLabels ==
    ASSUME NEW list \in Seq(Claim), NEW id \in Ids
    PROVE  Labelled(Marked(list, id)) \subseteq Labelled(list) \cup {id}
<1>1. /\ DOMAIN Marked(list, id) = DOMAIN list
      /\ \A i \in DOMAIN list :
            /\ Marked(list, id)[i].id = list[i].id
            /\ Marked(list, id)[i].label => list[i].label \/ list[i].id = id
  BY MarkedClaim
<1> QED
  BY <1>1 DEF Labelled

\* The steps that touch the claims but for the report.
LEMMA ClaimSteps ==
    ASSUME TypeOK,
           \/ DeliverClaims
           \/ CleanUpLeftovers
           \/ CreateClaim
           \/ DeleteClaim
           \/ cleanupOutdatedSanitizationResources
           \/ Crash
           \/ UNCHANGED claims
    PROVE  LabelsKept
<1>1. /\ claims \in Seq(Seq(Claim)) /\ Len(claims) \in 1 .. MaxLag + 1
      /\ Stored(claims) \in Seq(Claim)
      /\ Len(claims) \in DOMAIN claims /\ DOMAIN claims = 1 .. Len(claims)
  BY Streams, Ends
<1>2. CASE DeliverClaims
  <2>1. Stored(claims') = Stored(claims)
    BY <1>1, <1>2, StreamDelivered DEF DeliverClaims
  <2>2. \A v \in DOMAIN claims' : v + 1 \in DOMAIN claims /\ claims'[v] = claims[v + 1]
    <3>1. claims' \in Seq(Seq(Claim))
          /\ \A i \in 1 .. Len(claims') : i + 1 \in 1 .. Len(claims) /\ claims'[i] = claims[i + 1]
      BY <1>1, <1>2, StreamDelivered DEF DeliverClaims
    <3>2. DOMAIN claims' = 1 .. Len(claims')
      BY <3>1
    <3> QED
      BY <1>1, <3>1, <3>2
  <2> QED
    BY <2>1, <2>2 DEF LabelsKept
<1>3. CASE CleanUpLeftovers
  <2>1. <<>> \in Seq(Claim) /\ Labelled(<<>>) = {}
    BY DEF Labelled
  <2>2. WriteClaims(<<>>)
    BY <1>3 DEF CleanUpLeftovers
  <2> QED
    BY <2>1, <2>2, LabelsWritten
<1>4. CASE CreateClaim
  <2> DEFINE c == [id |-> job.id, label |-> FALSE]
  <2>1. c \in Claim /\ ~c.label
    BY <1>4 DEF CreateClaim, TypeOK, Job, Claim
  <2>2. WriteClaims(Append(Stored(claims), c))
    BY <1>4 DEF CreateClaim
  <2> HIDE DEF c
  <2>3. Append(Stored(claims), c) \in Seq(Claim)
    BY <1>1, <2>1
  <2> QED
    BY <1>1, <2>1, <2>2, <2>3, AddedLabels, LabelsWritten
<1>5. CASE DeleteClaim
  <2>1. job.id \in Ids
    BY <1>5 DEF DeleteClaim, TypeOK, Job
  <2>2. WriteClaims(Without(Stored(claims), job.id))
    BY <1>5 DEF DeleteClaim
  <2>3. Without(Stored(claims), job.id) \in Seq(Claim)
    BY <1>1, <2>1, WithoutClaim
  <2> QED
    BY <1>1, <2>1, <2>2, <2>3, WithoutLabels, LabelsWritten
<1>6. CASE cleanupOutdatedSanitizationResources
  <2>1. PICK id \in cleanups : WriteClaims(Without(Stored(claims), id))
    BY <1>6 DEF cleanupOutdatedSanitizationResources
  <2>2. id \in Ids
    BY <2>1 DEF TypeOK
  <2>3. Without(Stored(claims), id) \in Seq(Claim)
    BY <1>1, <2>2, WithoutClaim
  <2> QED
    BY <1>1, <2>1, <2>2, <2>3, WithoutLabels, LabelsWritten
<1>7. CASE Crash
  <2>1. claims' = <<Stored(claims)>>
    BY <1>7 DEF Crash
  <2>2. Stored(claims') = Stored(claims)
        /\ \A v \in DOMAIN claims' : claims'[v] = claims[Len(claims)]
    BY <2>1 DEF Stored
  <2> QED
    BY <1>1, <2>2 DEF LabelsKept
<1>8. CASE UNCHANGED claims
  BY <1>8 DEF LabelsKept, Stored
<1> QED
  BY <1>2, <1>3, <1>4, <1>5, <1>6, <1>7, <1>8

-----------------------------------------------------------------------------
(* Versions of the Server *)

\* Every version follows itself.
LEMMA FollowsItself ==
    ASSUME NEW v, NEW w, v.state = w.state, v.ref = w.ref,
           (v.sanitized = "False") <=> (w.sanitized = "False")
    PROVE  /\ Staged(v) => Staged(w) /\ Follows(v, w)
           /\ \A u : Follows(u, v) => Follows(u, w)
  BY DEF Staged, Follows, Tenanted, Left, Asking, LetGo, Waiting, Clean

\* The ends of the stream are in a stage, and nothing is cached that the
\* stored version cannot follow.
LEMMA EndsInOrder ==
    ASSUME TypeOK, StagesInOrder
    PROVE  /\ Staged(Stored(servers)) /\ Staged(Cached(servers))
           /\ Follows(Cached(servers), Stored(servers))
           /\ \A i \in DOMAIN servers : /\ Staged(servers[i])
                                        /\ Follows(Cached(servers), servers[i])
                                        /\ Follows(servers[i], Stored(servers))
<1>1. /\ DOMAIN servers = 1 .. Len(servers) /\ Len(servers) \in Nat
      /\ 1 \in DOMAIN servers /\ Len(servers) \in DOMAIN servers
  BY Streams, Ends
<1>2. \A i \in DOMAIN servers : 1 =< i /\ i =< Len(servers)
  BY <1>1
<1> QED
  BY <1>1, <1>2 DEF StagesInOrder, Cached, Stored

\* A new version that follows all there are keeps the stages in order and the
\* lag what it must be.
LEMMA VersionsGrow ==
    ASSUME TypeOK, StagesInOrder, LeftLagsBehind, NEW new \in Server, ServerGrows(new),
           Staged(new), \A i \in DOMAIN servers : Follows(servers[i], new),
           new.state = "Available" /\ new.ref = None =>
               ~(Stored(servers).state = "Released" /\ Stored(servers).ref = Tenant),
           new.state = "Available" /\ new.ref \in Ids =>
               Stored(servers).state = "Available" /\ Stored(servers).ref \in Ids \cup {None}
    PROVE  StagesInOrder' /\ LeftLagsBehind'
<1>1. CASE servers' = servers
  BY <1>1 DEF StagesInOrder, LeftLagsBehind, Stored
<1>2. CASE servers' # servers
  <2> DEFINE n == Len(servers)
  <2>1. /\ n \in Nat /\ n >= 1 /\ Len(servers') = n + 1 /\ servers'[n + 1] = new
        /\ \A i \in 1 .. n : servers'[i] = servers[i]
        /\ DOMAIN servers = 1 .. n /\ DOMAIN servers' = 1 .. n + 1
        /\ servers[n] = Stored(servers) /\ Stored(servers') = new
    BY <1>2, Streams DEF ServerGrows, Stored
  <2> HIDE DEF n
  <2>2. Follows(new, new)
    BY DEF Follows
  <2>3. ASSUME NEW i \in 1 .. n + 1, NEW j \in 1 .. n + 1
        PROVE  Staged(servers'[i]) /\ (i =< j => Follows(servers'[i], servers'[j]))
    <3>1. CASE i \in 1 .. n /\ j \in 1 .. n
      BY <2>1, <3>1 DEF StagesInOrder
    <3>2. CASE i \in 1 .. n /\ j = n + 1
      BY <2>1, <3>2 DEF StagesInOrder
    <3>3. CASE i = n + 1 /\ j \in 1 .. n
      BY <2>1, <3>3
    <3>4. CASE i = n + 1 /\ j = n + 1
      BY <2>1, <2>2, <3>4
    <3> QED
      BY <2>1, <3>1, <3>2, <3>3, <3>4
  <2>4. StagesInOrder'
    BY <2>1, <2>3 DEF StagesInOrder
  <2>5. ASSUME NEW i \in 1 .. n + 1,
               servers'[i].state = "Released", servers'[i].ref = Tenant
        PROVE  /\ new.state = "Released" /\ new.ref = None => n + 1 - i >= 1
               /\ new.state = "Available" /\ new.ref = None => n + 1 - i >= 2
               /\ new.state = "Available" /\ new.ref \in Ids => n + 1 - i >= 3
    <3>1. CASE i = n + 1
      BY <2>1, <2>5, <3>1, ValuesAssumption
    <3>2. CASE i \in 1 .. n
      <4>1. servers[i].state = "Released" /\ servers[i].ref = Tenant
        BY <2>1, <2>5, <3>2
      <4>2. n + 1 - i >= 1
        BY <2>1, <3>2
      <4>3. ASSUME new.state = "Available", new.ref = None PROVE n + 1 - i >= 2
        <5>1. i # n
          BY <2>1, <4>1, <4>3
        <5> QED
          BY <2>1, <3>2, <5>1
      <4>4. ASSUME new.state = "Available", new.ref \in Ids PROVE n + 1 - i >= 3
        <5>1. n - i >= 2
          BY <2>1, <3>2, <4>1, <4>4 DEF LeftLagsBehind, n
        <5> QED
          BY <2>1, <3>2, <5>1
      <4> QED
        BY <4>2, <4>3, <4>4
    <3> QED
      BY <2>1, <3>1, <3>2
  <2>6. LeftLagsBehind'
    BY <2>1, <2>5 DEF LeftLagsBehind
  <2> QED
    BY <2>4, <2>6
<1> QED
  BY <1>1, <1>2

\* So does a new version in the stage of the stored one with its reference.
LEMMA StageStays ==
    ASSUME TypeOK, StagesInOrder, LeftLagsBehind, NEW new \in Server, ServerGrows(new),
           new.state = Stored(servers).state, new.ref = Stored(servers).ref,
           (new.sanitized = "False") <=> (Stored(servers).sanitized = "False")
    PROVE  StagesInOrder' /\ LeftLagsBehind'
<1>1. Staged(new) /\ \A i \in DOMAIN servers : Follows(servers[i], new)
  BY EndsInOrder, FollowsItself
<1>2. new.state = "Available" /\ new.ref = None =>
         ~(Stored(servers).state = "Released" /\ Stored(servers).ref = Tenant)
  BY ValuesAssumption
<1>3. new.state = "Available" /\ new.ref \in Ids =>
         Stored(servers).state = "Available" /\ Stored(servers).ref \in Ids \cup {None}
  OBVIOUS
<1> QED
  BY <1>1, <1>2, <1>3, VersionsGrow

\* Dropping versions from the head takes nothing from the rest.
LEMMA VersionsDrop ==
    ASSUME TypeOK, StagesInOrder, LeftLagsBehind, DeliverServer \/ Crash
    PROVE  StagesInOrder' /\ LeftLagsBehind' /\ Stored(servers') = Stored(servers)
<1>1. servers \in Seq(Server) /\ Len(servers) \in 1 .. MaxLag + 1
      /\ Len(servers) \in Nat /\ Len(servers) >= 1 /\ DOMAIN servers = 1 .. Len(servers)
  BY Streams
<1>2. PICK k \in Nat :
         /\ Len(servers') = Len(servers) - k /\ Len(servers') \in Nat
         /\ DOMAIN servers' = 1 .. Len(servers')
         /\ \A i \in 1 .. Len(servers') : i + k \in 1 .. Len(servers)
                                          /\ servers'[i] = servers[i + k]
         /\ Stored(servers') = Stored(servers)
  <2>1. CASE DeliverServer
    <3>1. servers' = Tail(servers) /\ Len(servers) > 1
      BY <2>1 DEF DeliverServer
    <3>2. /\ servers' \in Seq(Server) /\ Len(servers') = Len(servers) - 1
          /\ \A i \in 1 .. Len(servers') : i + 1 \in 1 .. Len(servers)
                                           /\ servers'[i] = servers[i + 1]
          /\ Stored(servers') = Stored(servers)
      BY <1>1, <3>1, StreamDelivered
    <3>3. Len(servers') \in Nat /\ DOMAIN servers' = 1 .. Len(servers')
      BY <3>2
    <3> QED
      BY <3>2, <3>3
  <2>2. CASE Crash
    <3>1. servers' = <<Stored(servers)>>
      BY <2>2 DEF Crash
    <3>2. Len(servers') = 1 /\ DOMAIN servers' = 1 .. 1 /\ servers'[1] = servers[Len(servers)]
      BY <3>1 DEF Stored
    <3>3. Len(servers) - 1 \in Nat /\ 1 + (Len(servers) - 1) = Len(servers)
          /\ 1 = Len(servers) - (Len(servers) - 1)
      BY <1>1
    <3>4. Stored(servers') = Stored(servers)
      BY <3>2 DEF Stored
    <3> DEFINE d == Len(servers) - 1
    <3>5. /\ d \in Nat /\ Len(servers') = Len(servers) - d
          /\ 1 + d \in 1 .. Len(servers) /\ servers'[1] = servers[1 + d]
      BY <1>1, <3>2, <3>3
    <3> HIDE DEF d
    <3>6. ASSUME NEW i \in 1 .. Len(servers')
          PROVE  i + d \in 1 .. Len(servers) /\ servers'[i] = servers[i + d]
      <4>1. i = 1
        BY <3>2, <3>6
      <4> QED
        BY <3>5, <4>1
    <3>7. Len(servers') \in Nat /\ DOMAIN servers' = 1 .. Len(servers')
      BY <3>2
    <3> QED
      BY <3>4, <3>5, <3>6, <3>7
  <2> QED
    BY <2>1, <2>2
<1>3. \A i, j \in DOMAIN servers' : i =< j => i + k =< j + k
  BY <1>2
<1>4. StagesInOrder'
  BY <1>1, <1>2, <1>3 DEF StagesInOrder
<1>5. \A i \in DOMAIN servers' : Len(servers') - i = Len(servers) - (i + k)
  BY <1>1, <1>2
<1>6. LeftLagsBehind'
  BY <1>1, <1>2, <1>5 DEF LeftLagsBehind
<1> QED
  BY <1>2, <1>4, <1>6

-----------------------------------------------------------------------------
(* The steps of the release *)

\* A step that leaves where the Server is, who holds it and whether it is
\* clean, and labels no claim, leaves the rest of the invariant.
LEMMA RestKept ==
    ASSUME CleanInv, StagesInOrder', LeftLagsBehind', LabelsKept,
           Stored(servers').state = Stored(servers).state,
           Stored(servers').ref = Stored(servers).ref,
           Clean(Stored(servers')) => Clean(Stored(servers)) \/ ~dirty,
           wiring'.phase = wiring.phase, UNCHANGED <<sanitizer, tenantWaits, dirty>>
    PROVE  CleanInv'
<1>1. CleanIsClean'
  BY DEF CleanInv, CleanIsClean, Stored
<1>2. SanitizerHoldsServer' /\ BoundTenantWaits'
  BY DEF CleanInv, SanitizerHoldsServer, BoundTenantWaits, Stored
<1>3. LabelIsBound'
  BY DEF CleanInv, LabelIsBound, LabelsKept, Stored
<1>4. NoOldLabels'
  <2> SUFFICES ASSUME dirty', ~(Stored(servers').state = "Reserved" /\ tenantWaits')
               PROVE  \A v \in DOMAIN claims' : Labelled(claims'[v]) = {}
    BY DEF NoOldLabels, Stored
  <2>1. \A v \in DOMAIN claims : Labelled(claims[v]) = {}
    BY DEF CleanInv, NoOldLabels
  <2> QED
    BY <2>1 DEF LabelsKept
<1> QED
  BY <1>1, <1>2, <1>3, <1>4 DEF CleanInv

\* A step that leaves the Server.
LEMMA Undisturbed ==
    ASSUME TypeOK, CleanInv, LabelsKept, wiring'.phase = wiring.phase,
           UNCHANGED <<servers, sanitizer, tenantWaits, dirty>>
    PROVE  CleanInv'
<1>1. StagesInOrder' /\ LeftLagsBehind'
  BY DEF CleanInv, StagesInOrder, LeftLagsBehind, Stored
<1> QED
  BY <1>1, RestKept DEF Stored

\* The condition of a Server that its tenant has left is set to False, and
\* only then, from however old a cache, is the reference removed: a Server
\* that is held by a claim again has been written too often since.
LEMMA ReleasedKeeps ==
    ASSUME Calm, TypeOK, CleanInv, reconcileReleased, UNCHANGED outside
    PROVE  CleanInv'
<1> DEFINE C == Cached(servers)
           S == Stored(servers)
<1>1. C \in Server /\ S \in Server
  BY Streams
<1>2. Staged(S) /\ Staged(C) /\ Follows(C, S)
      /\ \A i \in DOMAIN servers : /\ Staged(servers[i]) /\ Follows(C, servers[i])
                                   /\ Follows(servers[i], S)
  BY EndsInOrder DEF CleanInv
<1>3. LabelsKept /\ UNCHANGED <<sanitizer, tenantWaits, dirty, wiring>>
  BY ClaimSteps DEF reconcileReleased, outside
<1>4. StagesInOrder /\ LeftLagsBehind
  BY DEF CleanInv
<1>5. CASE C.sanitized # "False"
  <2> DEFINE new == [C EXCEPT !.sanitized = "False"]
             patched == Patched(C, new)
  <2>1. new \in Server /\ new.sanitized = "False"
    <3>1. "False" \in Status
      BY DEF Status
    <3>2. new \in Server
      BY <1>1, <3>1, ServerFields
    <3>3. new.sanitized = "False"
      BY <1>1 DEF Server
    <3> QED
      BY <3>2, <3>3
  <2>2. PatchConditions(new)
    BY <1>5 DEF reconcileReleased
  <2> HIDE DEF new
  <2>3. /\ patched \in Server /\ ServerGrows(patched)
        /\ patched.state = S.state /\ patched.ref = S.ref /\ patched.sanitized = "False"
    BY <1>5, <2>1, <2>2, ConditionsPatched
  <2> HIDE DEF patched
  <2>4. Left(C)
    BY <1>2, <1>5 DEF reconcileReleased, Staged, Tenanted, Left, Asking, LetGo, Waiting, Clean
  <2>5. (Left(S) \/ Asking(S)) /\ \A i \in DOMAIN servers : Left(servers[i]) \/ Asking(servers[i])
    BY <1>2, <2>4 DEF Follows
  <2>6. Asking(patched)
    BY <2>3, <2>5 DEF Left, Asking
  <2>7. Staged(patched) /\ \A i \in DOMAIN servers : Follows(servers[i], patched)
    BY <2>5, <2>6 DEF Staged, Follows, Tenanted, Left, Asking, LetGo, Waiting, Clean
  <2>8. patched.state = "Released"
    BY <2>6 DEF Asking
  <2>9. StagesInOrder' /\ LeftLagsBehind'
    BY <1>4, <2>3, <2>7, <2>8, VersionsGrow
  <2>10. Stored(servers') = patched
    BY <2>3 DEF ServerGrows
  <2>11. ~Clean(patched)
    BY <2>8 DEF Clean
  <2> QED
    BY <1>3, <2>3, <2>9, <2>10, <2>11, RestKept
<1>6. CASE C.sanitized = "False" /\ C.ref = None
  <2>1. S \in Server /\ WriteServer(S)
    BY <1>1, <1>6 DEF reconcileReleased
  <2>2. ServerGrows(S)
    BY <2>1, ServerWritten
  <2>3. servers' = servers
    BY <2>1, <2>2 DEF WriteServer, Write
  <2> QED
    BY <1>3, <2>3, Undisturbed
<1>7. CASE C.sanitized = "False" /\ C.ref # None
  <2> DEFINE new == [S EXCEPT !.ref = None]
  <2>1. /\ new \in Server /\ new.state = S.state /\ new.ref = None
        /\ new.sanitized = S.sanitized /\ (S.ref = None => new = S)
    BY <1>1, ServerFields DEF Server
  <2>2. WriteServer(new)
    BY <1>7 DEF reconcileReleased
  <2> HIDE DEF new
  <2>3. Asking(C)
    BY <1>2, <1>7 DEF reconcileReleased, Staged, Tenanted, Left, Asking, LetGo, Waiting, Clean
  <2>4. Asking(S) \/ LetGo(S) \/ Waiting(S)
    BY <1>2, <2>3 DEF Follows
  <2>5. CASE S.ref = None
    <3>1. new = S
      BY <2>1, <2>5
    <3>2. servers' = servers
      BY <2>2, <3>1 DEF WriteServer, Write
    <3> QED
      BY <1>3, <3>2, Undisturbed
  <2>6. CASE Asking(S)
    <3>1. ServerGrows(new)
      BY <2>1, <2>2, ServerWritten
    <3>2. LetGo(new)
      BY <2>1, <2>6 DEF Asking, LetGo
    <3>3. \A i \in DOMAIN servers : Asking(servers[i])
      <4> SUFFICES ASSUME NEW i \in DOMAIN servers PROVE Asking(servers[i])
        OBVIOUS
      <4>1. Asking(servers[i]) \/ LetGo(servers[i]) \/ Waiting(servers[i])
        BY <1>2, <2>3 DEF Follows
      <4>2. ~LetGo(S) /\ ~Waiting(S) /\ ~Clean(S) /\ ~Tenanted(S) /\ ~Left(S)
        BY <2>6, ValuesAssumption DEF Tenanted, Left, Asking, LetGo, Waiting, Clean
      <4>3. Follows(servers[i], S)
        BY <1>2
      <4> QED
        BY <4>1, <4>2, <4>3 DEF Follows
    <3>4. \A i \in DOMAIN servers : Follows(servers[i], new)
      BY <3>2, <3>3 DEF Follows, Tenanted, Left, Asking, LetGo, Waiting, Clean,
                        ValuesAssumption
    <3>5. new.state = "Released" /\ S.state = "Released"
      BY <2>1, <2>6 DEF Asking
    <3>6. StagesInOrder' /\ LeftLagsBehind' /\ Stored(servers') = new
      BY <1>4, <2>1, <3>1, <3>2, <3>4, <3>5, VersionsGrow DEF Staged, ServerGrows
    <3>7. /\ CleanIsClean' /\ BoundTenantWaits'
          /\ SanitizerHoldsServer' /\ LabelIsBound'
      <4>1. Stored(servers').state = "Released"
        BY <3>5, <3>6
      <4>2. sanitizer = Idle /\ Labelled(Stored(claims)) = {}
        BY <3>5 DEF CleanInv, SanitizerHoldsServer, LabelIsBound
      <4> QED
        BY <1>3, <4>1, <4>2 DEF CleanIsClean, BoundTenantWaits, SanitizerHoldsServer,
                                LabelIsBound, LabelsKept, Clean, Stored
    <3>8. NoOldLabels'
      <4>1. dirty => \A v \in DOMAIN claims : Labelled(claims[v]) = {}
        BY <3>5 DEF CleanInv, NoOldLabels
      <4> QED
        BY <1>3, <4>1 DEF NoOldLabels, LabelsKept
    <3> QED
      BY <1>3, <3>6, <3>7, <3>8 DEF CleanInv
  <2>7. CASE Waiting(S) /\ S.ref # None
    <3>1. S.state = "Available" /\ S.ref \in Ids
      BY <1>1, <2>7 DEF Waiting, Server
    <3>2. Len(servers) - 1 >= 3
      <4>1. 1 \in DOMAIN servers /\ servers[1].state = "Released" /\ servers[1].ref = Tenant
        BY <2>3, Streams, Ends DEF Asking, Cached
      <4> QED
        BY <1>4, <3>1, <4>1 DEF LeftLagsBehind
    <3>3. new # S
      BY <2>1, <2>7
    <3>4. Len(servers) =< MaxLag
      BY <2>2, <3>3 DEF WriteServer, Writable
    <3> QED
      BY <3>2, <3>4, Streams, BoundsAssumption DEF Calm
  <2> QED
    BY <2>4, <2>5, <2>6, <2>7 DEF LetGo
<1> QED
  BY <1>5, <1>6, <1>7

\* Labels are names of claims.
LEMMA LabelledTyped ==
    ASSUME NEW list \in Seq(Claim)
    PROVE  /\ Labelled(list) \subseteq Ids
           /\ \A id \in Labelled(list) : \E i \in DOMAIN list : list[i].id = id
<1>1. \A i \in DOMAIN list : list[i] \in Claim
  OBVIOUS
<1> QED
  BY <1>1 DEF Labelled, Claim

\* The condition is set to True for a labelled claim in the cache, which there
\* is on an Available Server only when its disks are wiped.
LEMMA UseKeeps ==
    ASSUME TypeOK, CleanInv, UseClaim, UNCHANGED outside
    PROVE  CleanInv'
<1> DEFINE C == Cached(servers)
           S == Stored(servers)
<1>1. C \in Server /\ S \in Server /\ Cached(claims) \in Seq(Claim)
  BY Streams
<1>2. LabelsKept /\ UNCHANGED <<sanitizer, tenantWaits, dirty, wiring>>
  BY ClaimSteps DEF UseClaim, outside
<1>3. PICK i \in Oldest :
        IF Cached(claims)[i].label
        THEN PatchConditions([C EXCEPT !.sanitized = "True"])
        ELSE UNCHANGED <<servers, job>>
  BY DEF UseClaim
<1>4. CASE ~Cached(claims)[i].label
  <2>1. servers' = servers
    BY <1>3, <1>4
  <2> QED
    BY <1>2, <2>1, Undisturbed
<1>5. CASE Cached(claims)[i].label
  <2> DEFINE new == [C EXCEPT !.sanitized = "True"]
             patched == Patched(C, new)
  <2>1. new \in Server /\ new.sanitized = "True" /\ C.sanitized = "False"
    <3>1. "True" \in Status
      BY DEF Status
    <3>2. new \in Server
      BY <1>1, <3>1, ServerFields
    <3>3. new.sanitized = "True" /\ C.sanitized = "False"
      BY <1>1 DEF Server, UseClaim
    <3> QED
      BY <3>2, <3>3
  <2>2. PatchConditions(new)
    BY <1>3, <1>5
  <2> HIDE DEF new
  <2>3. /\ patched \in Server /\ ServerGrows(patched)
        /\ patched.state = S.state /\ patched.ref = S.ref /\ patched.sanitized = "True"
    BY <2>1, <2>2, ConditionsPatched
  <2> HIDE DEF patched
  <2>4. dirty => S.state = "Reserved"
    <3>1. Labelled(Cached(claims)) # {}
      <4>1. i \in DOMAIN Cached(claims)
        BY <1>1 DEF UseClaim, Oldest
      <4> QED
        BY <1>5, <4>1 DEF Labelled
    <3>2. 1 \in DOMAIN claims
      BY Streams, Ends
    <3> QED
      BY <3>1, <3>2 DEF CleanInv, NoOldLabels, Cached
  <2>5. Staged(S) /\ Staged(C) /\ Follows(C, S)
        /\ \A j \in DOMAIN servers : /\ Staged(servers[j]) /\ Follows(C, servers[j])
                                     /\ Follows(servers[j], S)
    BY EndsInOrder DEF CleanInv
  <2>6. Waiting(C)
    BY <2>1, <2>5 DEF UseClaim, Staged, Tenanted, Left, Asking, LetGo, Waiting, Clean
  <2>7. Waiting(S) \/ Clean(S) \/ Tenanted(S) \/ Left(S)
    BY <2>5, <2>6 DEF Follows
  <2>8. Staged(patched) /\ ~Asking(patched) /\ ~LetGo(patched) /\ ~Waiting(patched)
    BY <2>3, <2>7 DEF Staged, Tenanted, Left, Asking, LetGo, Waiting, Clean
  <2>9. ASSUME NEW j \in DOMAIN servers
        PROVE  Follows(servers[j], patched)
    <3>1. CASE Waiting(S)
      <4>1. Waiting(servers[j]) \/ Clean(servers[j]) \/ Tenanted(servers[j]) \/ Left(servers[j])
        BY <2>5, <2>6, <2>9 DEF Follows
      <4>2. ~Clean(S) /\ ~Tenanted(S) /\ ~Left(S) /\ ~Asking(S)
        BY <3>1 DEF Tenanted, Left, Asking, Waiting, Clean
      <4>3. Waiting(servers[j]) /\ Clean(patched)
        <5>1. Follows(servers[j], S)
          BY <2>5
        <5>2. Waiting(servers[j])
          BY <4>1, <4>2, <5>1 DEF Follows
        <5>3. Clean(patched)
          BY <2>3, <3>1 DEF Waiting, Clean
        <5> QED
          BY <5>2, <5>3
      <4> QED
        BY <4>3 DEF Follows, Tenanted, Left, Asking, LetGo, Waiting, Clean
    <3>2. CASE S.sanitized # "False"
      <4>1. (patched.sanitized = "False") <=> (S.sanitized = "False")
        BY <2>3, <3>2
      <4> QED
        BY <2>3, <2>5, <4>1, FollowsItself
    <3> QED
      BY <2>7, <3>1, <3>2 DEF Tenanted, Left, Clean
  <2>10. patched.state = "Available" /\ patched.ref = None =>
            ~(S.state = "Released" /\ S.ref = Tenant)
    BY <2>3
  <2>11. patched.state = "Available" /\ patched.ref \in Ids =>
            S.state = "Available" /\ S.ref \in Ids \cup {None}
    BY <2>3
  <2>12. StagesInOrder' /\ LeftLagsBehind'
    BY <2>3, <2>8, <2>9, <2>10, <2>11, VersionsGrow DEF CleanInv
  <2>13. Stored(servers') = patched
    BY <2>3 DEF ServerGrows
  <2>14. Clean(patched) => ~dirty
    BY <2>3, <2>4 DEF Clean
  <2> QED
    BY <1>2, <2>3, <2>12, <2>13, <2>14, RestKept
<1> QED
  BY <1>4, <1>5

\* The publisher patches what it has just read.
LEMMA PublisherKeeps ==
    ASSUME TypeOK, CleanInv, PatchServerCondition
    PROVE  CleanInv'
<1> DEFINE S == Stored(servers)
<1>1. PICK s \in {"False", "True"} : PatchConditions([Cached(servers) EXCEPT !.done = s])
  BY DEF PatchServerCondition
<1> DEFINE new == [Cached(servers) EXCEPT !.done = s]
           patched == Patched(Cached(servers), new)
<1>2. Cached(servers) = S /\ S \in Server
  BY Streams DEF PatchServerCondition, PatchAccepted, Cached, Stored
<1>3. s \in Status
  BY DEF Status
<1>4. new \in Server
  BY <1>2, <1>3, ServerFields
<1>5. new.sanitized = S.sanitized
  BY <1>2 DEF Server
<1>6. PatchConditions(new)
  BY <1>1
<1> HIDE DEF new
<1>7. /\ patched \in Server /\ ServerGrows(patched)
      /\ patched.state = S.state /\ patched.ref = S.ref /\ patched.sanitized = S.sanitized
  BY <1>4, <1>5, <1>6, ConditionsPatched
<1> HIDE DEF patched
<1>8. StagesInOrder' /\ LeftLagsBehind' /\ Stored(servers') = patched
  BY <1>7, StageStays DEF CleanInv, ServerGrows
<1>9. Clean(patched) => Clean(S)
  BY <1>7 DEF Clean
<1>10. LabelsKept /\ UNCHANGED <<sanitizer, tenantWaits, dirty, wiring>>
  BY ClaimSteps DEF PatchServerCondition, elsewhere
<1> QED
  BY <1>7, <1>8, <1>9, <1>10, RestKept

\* The Server is bound to a sanitization claim, or, clean, to a tenant's.
LEMMA BindKeeps ==
    ASSUME TypeOK, CleanInv, BindClaim
    PROVE  CleanInv'
<1> DEFINE S == Stored(servers)
<1>1. /\ S \in Server /\ Stored(claims) \in Seq(Claim)
      /\ S.state = "Available" /\ S.ref = None
      /\ Staged(S) /\ \A i \in DOMAIN servers : Follows(servers[i], S)
  BY Streams, EndsInOrder DEF BindClaim, CleanInv
<1>2. UNCHANGED <<claims, sanitizer, dirty, wiring>> /\ LabelsKept
  BY ClaimSteps DEF BindClaim, controllers
<1>3. PICK r \in Ids \cup {Tenant} :
        /\ WriteServer([S EXCEPT !.ref = r])
        /\ r \in Ids => UNCHANGED tenantWaits
        /\ r = Tenant => S.sanitized # "False" /\ tenantWaits' = TRUE
  <2>1. \A i \in DOMAIN Stored(claims) : Stored(claims)[i].id \in Ids
    <3>1. \A i \in DOMAIN Stored(claims) : Stored(claims)[i] \in Claim
      BY <1>1
    <3> QED
      BY <3>1 DEF Claim
  <2>2. CASE \E i \in DOMAIN Stored(claims) :
               /\ WriteServer([S EXCEPT !.ref = Stored(claims)[i].id])
               /\ UNCHANGED <<tenants, tenantWaits>>
    BY <2>1, <2>2, ValuesAssumption
  <2>3. CASE /\ S.sanitized # "False" /\ tenantWaits' = TRUE
             /\ WriteServer([S EXCEPT !.ref = Tenant])
    BY <2>3, ValuesAssumption
  <2> QED
    BY <2>2, <2>3 DEF BindClaim
<1> DEFINE new == [S EXCEPT !.ref = r]
<1>4. new \in Server
  BY <1>1, ServerFields
<1>5. new.ref = r /\ new.state = "Available" /\ new.sanitized = S.sanitized
  BY <1>1 DEF Server
<1>6. WriteServer(new)
  BY <1>3
<1> HIDE DEF new
<1>7. ServerGrows(new) /\ Stored(servers') = new
  BY <1>4, <1>6, ServerWritten DEF ServerGrows
<1>8. (Waiting(new) /\ Waiting(S)) \/ (Clean(new) /\ Clean(S))
  <2>1. CASE S.sanitized = "False"
    <3>1. r # Tenant
      BY <1>3, <2>1, ValuesAssumption
    <3> QED
      BY <1>1, <1>5, <2>1, <3>1, ValuesAssumption DEF Waiting
  <2>2. CASE S.sanitized # "False"
    BY <1>1, <1>5, <2>2 DEF Clean
  <2> QED
    BY <2>1, <2>2
<1>9. Staged(new)
  BY <1>8 DEF Staged
<1>10. ASSUME NEW i \in DOMAIN servers PROVE Follows(servers[i], new)
  <2>1. Follows(servers[i], S)
    BY <1>1
  <2> QED
    BY <1>5, <1>8, <2>1 DEF Follows, Tenanted, Left, Asking, LetGo, Waiting, Clean
<1>11. StagesInOrder' /\ LeftLagsBehind'
  BY <1>1, <1>4, <1>5, <1>7, <1>9, <1>10, VersionsGrow DEF CleanInv
<1>12. sanitizer = Idle /\ Labelled(Stored(claims)) = {}
  <2>1. sanitizer # Idle => sanitizer.id \in Ids
    BY DEF TypeOK, Sanitizer
  <2> QED
    BY <1>1, <2>1, LabelledTyped, ValuesAssumption DEF CleanInv, SanitizerHoldsServer, LabelIsBound
<1>13. CleanIsClean' /\ SanitizerHoldsServer' /\ LabelIsBound'
  BY <1>2, <1>7, <1>8, <1>12 DEF CleanIsClean, SanitizerHoldsServer, LabelIsBound, CleanInv,
                                Waiting, Clean, Stored
<1>14. BoundTenantWaits'
  BY <1>3, <1>5, <1>7 DEF BoundTenantWaits
<1>15. NoOldLabels'
  <2>1. dirty => \A v \in DOMAIN claims : Labelled(claims[v]) = {}
    BY <1>1 DEF CleanInv, NoOldLabels
  <2> QED
    BY <1>2, <2>1 DEF NoOldLabels
<1> QED
  BY <1>2, <1>11, <1>13, <1>14, <1>15 DEF CleanInv

\* A tenant's Server was clean when it was bound, and is reserved; that no
\* label is left then is what holds until the next wipe.
LEMMA ReserveKeeps ==
    ASSUME Calm, TypeOK, CleanInv, Reserve
    PROVE  CleanInv'
<1> DEFINE S == Stored(servers)
           new == [S EXCEPT !.state = "Reserved"]
<1>1. /\ S \in Server /\ Stored(claims) \in Seq(Claim)
      /\ S.state = "Available" /\ S.ref = Tenant
      /\ Staged(S) /\ \A i \in DOMAIN servers : Follows(servers[i], S)
  BY Streams, EndsInOrder DEF Reserve, CleanInv, Calm
<1>2. UNCHANGED <<claims, sanitizer, tenantWaits, wiring>>
  BY DEF Reserve, controllers
<1>3. new \in Server
  BY <1>1, ServerFields
<1>4. new.ref = Tenant /\ new.state = "Reserved" /\ new.sanitized = S.sanitized
  BY <1>1 DEF Server
<1>5. WriteServer(new)
  BY DEF Reserve
<1> HIDE DEF new
<1>6. ServerGrows(new) /\ Stored(servers') = new
  BY <1>3, <1>5, ServerWritten DEF ServerGrows
<1>7. Clean(S)
  BY <1>1 DEF Staged, Tenanted, Left, Asking, LetGo, Waiting, Clean
<1>8. Tenanted(new)
  BY <1>4, <1>7 DEF Clean, Tenanted
<1>9. ASSUME NEW i \in DOMAIN servers PROVE Follows(servers[i], new)
  <2>1. Follows(servers[i], S) /\ ~Tenanted(S) /\ ~Left(S) /\ ~Asking(S) /\ ~LetGo(S) /\ ~Waiting(S)
    BY <1>1, <1>7 DEF Tenanted, Left, Asking, LetGo, Waiting, Clean
  <2> QED
    BY <1>8, <2>1 DEF Follows
<1>10. StagesInOrder' /\ LeftLagsBehind'
  BY <1>3, <1>4, <1>6, <1>8, <1>9, VersionsGrow DEF CleanInv, Staged
<1>11. sanitizer = Idle /\ Labelled(Stored(claims)) = {} /\ tenantWaits
  <2>1. sanitizer # Idle => sanitizer.id \in Ids
    BY DEF TypeOK, Sanitizer
  <2> QED
    BY <1>1, <2>1, LabelledTyped, ValuesAssumption
       DEF CleanInv, SanitizerHoldsServer, LabelIsBound, BoundTenantWaits
<1> QED
  BY <1>2, <1>4, <1>6, <1>10, <1>11
     DEF CleanInv, CleanIsClean, SanitizerHoldsServer, LabelIsBound, BoundTenantWaits,
         NoOldLabels, Clean, Stored

\* A reference whose claim is gone is removed, or the Server is released.
LEMMA ReclaimKeeps ==
    ASSUME TypeOK, CleanInv, Reclaim
    PROVE  CleanInv'
<1> DEFINE S == Stored(servers)
<1>1. /\ S \in Server /\ Stored(claims) \in Seq(Claim)
      /\ Staged(S) /\ \A i \in DOMAIN servers : Follows(servers[i], S)
  BY Streams, EndsInOrder DEF CleanInv
<1>2. UNCHANGED <<claims, tenantWaits, dirty, wiring>> /\ sanitizer' = Idle
  BY DEF Reclaim, controllers
<1>3. StagesInOrder /\ LeftLagsBehind
  BY DEF CleanInv
<1>4. CASE S.state = "Available" /\ S.ref \in Ids
  <2> DEFINE new == [S EXCEPT !.ref = None]
  <2>1. new \in Server
    BY <1>1, ServerFields
  <2>2. new.ref = None /\ new.state = "Available" /\ new.sanitized = S.sanitized
    BY <1>1, <1>4 DEF Server
  <2>3. WriteServer(new) /\ ~Existing(S.ref)
    BY <1>4, ValuesAssumption DEF Reclaim
  <2> HIDE DEF new
  <2>4. ServerGrows(new) /\ Stored(servers') = new
    BY <2>1, <2>3, ServerWritten DEF ServerGrows
  <2>5. (Waiting(new) /\ Waiting(S)) \/ (Clean(new) /\ Clean(S))
    <3>1. CASE S.sanitized = "False"
      BY <1>4, <2>2, <3>1, ValuesAssumption DEF Waiting
    <3>2. CASE S.sanitized # "False"
      BY <1>4, <2>2, <3>2 DEF Clean
    <3> QED
      BY <3>1, <3>2
  <2>6. Staged(new)
    BY <2>5 DEF Staged
  <2>7. ASSUME NEW i \in DOMAIN servers PROVE Follows(servers[i], new)
    <3>1. Follows(servers[i], S)
      BY <1>1
    <3> QED
      BY <1>4, <2>2, <2>5, <3>1 DEF Follows, Tenanted, Left, Asking, LetGo, Waiting, Clean
  <2>8. StagesInOrder' /\ LeftLagsBehind'
    BY <1>3, <1>4, <2>1, <2>2, <2>4, <2>6, <2>7, VersionsGrow, ValuesAssumption
  <2>9. Labelled(Stored(claims)) = {}
    BY <1>1, <2>3, LabelledTyped DEF CleanInv, LabelIsBound, Existing
  <2>10. dirty => \A v \in DOMAIN claims : Labelled(claims[v]) = {}
    BY <1>4 DEF CleanInv, NoOldLabels
  <2>11. CleanIsClean' /\ SanitizerHoldsServer' /\ LabelIsBound' /\ BoundTenantWaits'
    BY <1>2, <2>2, <2>4, <2>5, <2>9, ValuesAssumption
       DEF CleanInv, CleanIsClean, SanitizerHoldsServer, LabelIsBound, BoundTenantWaits,
           Waiting, Clean, Stored
  <2> QED
    BY <1>2, <2>8, <2>10, <2>11 DEF CleanInv, NoOldLabels
<1>5. CASE S.state = "Reserved" /\ S.ref = Tenant /\ ~tenantWaits
  <2> DEFINE new == [S EXCEPT !.state = "Released"]
  <2>1. new \in Server
    BY <1>1, ServerFields
  <2>2. new.ref = Tenant /\ new.state = "Released" /\ new.sanitized = S.sanitized
    BY <1>1, <1>5 DEF Server
  <2>3. WriteServer(new)
    BY <1>5 DEF Reclaim
  <2> HIDE DEF new
  <2>4. ServerGrows(new) /\ Stored(servers') = new
    BY <2>1, <2>3, ServerWritten DEF ServerGrows
  <2>5. Tenanted(S)
    BY <1>1, <1>5 DEF Staged, Tenanted, Left, Asking, LetGo, Waiting, Clean
  <2>6. Left(new)
    BY <2>2, <2>5 DEF Tenanted, Left
  <2>7. ASSUME NEW i \in DOMAIN servers PROVE Follows(servers[i], new)
    <3>1. Follows(servers[i], S) /\ ~Left(S) /\ ~Asking(S) /\ ~LetGo(S) /\ ~Waiting(S) /\ ~Clean(S)
      BY <1>1, <2>5 DEF Tenanted, Left, Asking, LetGo, Waiting, Clean
    <3> QED
      BY <2>6, <3>1 DEF Follows
  <2>8. StagesInOrder' /\ LeftLagsBehind'
    BY <1>3, <2>1, <2>2, <2>4, <2>6, <2>7, VersionsGrow DEF Staged
  <2>9. Labelled(Stored(claims)) = {}
    BY <1>5 DEF CleanInv, LabelIsBound
  <2>10. dirty => \A v \in DOMAIN claims : Labelled(claims[v]) = {}
    BY <1>5 DEF CleanInv, NoOldLabels
  <2> QED
    BY <1>2, <2>2, <2>4, <2>8, <2>9, <2>10
       DEF CleanInv, CleanIsClean, SanitizerHoldsServer, LabelIsBound, BoundTenantWaits,
           NoOldLabels, Clean, Stored
<1>6. S.ref = Tenant /\ ~tenantWaits => S.state # "Available"
  BY DEF CleanInv, BoundTenantWaits
<1>7. S.ref \in Ids => S.state = "Available"
  BY <1>1, ValuesAssumption DEF Staged, Tenanted, Left, Asking, LetGo, Waiting, Clean
<1> QED
  BY <1>4, <1>5, <1>6, <1>7 DEF Reclaim

\* A Server let go becomes Available and waits to be sanitized.
LEMMA RecycleKeeps ==
    ASSUME TypeOK, CleanInv, Recycle
    PROVE  CleanInv'
<1> DEFINE S == Stored(servers)
           new == [S EXCEPT !.state = "Available"]
<1>1. /\ S \in Server /\ S.state = "Released" /\ S.ref = None
      /\ Staged(S) /\ \A i \in DOMAIN servers : Follows(servers[i], S)
  BY Streams, EndsInOrder DEF Recycle, CleanInv
<1>2. UNCHANGED <<claims, sanitizer, tenantWaits, dirty, wiring>>
  BY DEF Recycle, controllers
<1>3. new \in Server
  BY <1>1, ServerFields
<1>4. new.ref = None /\ new.state = "Available" /\ new.sanitized = S.sanitized
  BY <1>1 DEF Server
<1>5. WriteServer(new)
  BY DEF Recycle
<1> HIDE DEF new
<1>6. ServerGrows(new) /\ Stored(servers') = new
  BY <1>3, <1>5, ServerWritten DEF ServerGrows
<1>7. LetGo(S)
  BY <1>1, ValuesAssumption DEF Staged, Tenanted, Left, Asking, LetGo, Waiting, Clean
<1>8. Waiting(new)
  BY <1>4, <1>7, ValuesAssumption DEF LetGo, Waiting
<1>9. ASSUME NEW i \in DOMAIN servers PROVE Follows(servers[i], new)
  <2>1. Follows(servers[i], S) /\ ~Tenanted(S) /\ ~Left(S) /\ ~Asking(S) /\ ~Waiting(S) /\ ~Clean(S)
    BY <1>1, <1>7, ValuesAssumption DEF Tenanted, Left, Asking, LetGo, Waiting, Clean
  <2> QED
    BY <1>8, <2>1 DEF Follows
<1>10. StagesInOrder' /\ LeftLagsBehind'
  BY <1>1, <1>3, <1>4, <1>6, <1>8, <1>9, VersionsGrow, ValuesAssumption DEF CleanInv, Staged
<1>11. sanitizer = Idle /\ Labelled(Stored(claims)) = {}
  BY <1>1 DEF CleanInv, SanitizerHoldsServer, LabelIsBound
<1>12. dirty => \A v \in DOMAIN claims : Labelled(claims[v]) = {}
  BY <1>1 DEF CleanInv, NoOldLabels
<1>13. ~Clean(new)
  BY <1>8 DEF Waiting, Clean
<1> QED
  BY <1>2, <1>4, <1>6, <1>10, <1>11, <1>12, <1>13, ValuesAssumption
     DEF CleanInv, CleanIsClean, SanitizerHoldsServer, LabelIsBound, BoundTenantWaits,
         NoOldLabels, Stored

\* The sanitizer boots, wipes and reports while its claim holds the Server.
LEMMA SanitizerKeeps ==
    ASSUME Calm, TypeOK, CleanInv, Boot \/ Wipe \/ Report
    PROVE  CleanInv'
<1> DEFINE S == Stored(servers)
<1>1. UNCHANGED <<servers, tenantWaits, wiring>>
  BY DEF Boot, Wipe, Report, others, controllers
<1>2. StagesInOrder' /\ LeftLagsBehind' /\ BoundTenantWaits'
  BY <1>1 DEF CleanInv, StagesInOrder, LeftLagsBehind, BoundTenantWaits, Stored
<1>3. CASE Boot
  <2>1. /\ sanitizer' = [id |-> S.ref, phase |-> "wiping"] /\ S.state = "Available"
        /\ UNCHANGED <<claims, dirty>>
    BY <1>3 DEF Boot, controllers, Calm
  <2>2. SanitizerHoldsServer'
    BY <1>1, <2>1 DEF SanitizerHoldsServer, Stored
  <2> QED
    BY <1>1, <1>2, <2>1, <2>2
       DEF CleanInv, CleanIsClean, LabelIsBound, NoOldLabels, Stored
<1>4. CASE Wipe
  <2>1. /\ sanitizer # Idle /\ sanitizer' = [sanitizer EXCEPT !.phase = "reporting"]
        /\ ~dirty' /\ claims' = claims
    BY <1>4 DEF Wipe, Calm
  <2>2. sanitizer'.id = sanitizer.id
    BY <2>1 DEF TypeOK, Sanitizer
  <2>3. SanitizerHoldsServer'
    BY <1>1, <2>1, <2>2 DEF CleanInv, SanitizerHoldsServer, Stored
  <2> QED
    BY <1>1, <1>2, <2>1, <2>3
       DEF CleanInv, CleanIsClean, LabelIsBound, NoOldLabels, Stored
<1>5. CASE Report
  <2>1. /\ sanitizer # Idle /\ sanitizer.phase = "reporting" /\ dirty' = dirty
        /\ sanitizer' = [sanitizer EXCEPT !.phase = "parked"]
        /\ WriteClaims(Marked(Stored(claims), sanitizer.id)) \/ UNCHANGED claims
    BY <1>5 DEF Report
  <2>2. sanitizer.id \in Ids /\ sanitizer'.id = sanitizer.id
    BY <2>1 DEF TypeOK, Sanitizer
  <2>3. ~dirty /\ S.state = "Available" /\ S.ref = sanitizer.id
    BY <2>1 DEF CleanInv, SanitizerHoldsServer
  <2>4. SanitizerHoldsServer'
    BY <1>1, <2>1, <2>2, <2>3 DEF SanitizerHoldsServer, Stored
  <2>5. Labelled(Stored(claims')) \subseteq Labelled(Stored(claims)) \cup {sanitizer.id}
    <3>1. Stored(claims) \in Seq(Claim)
      BY Streams
    <3>2. CASE WriteClaims(Marked(Stored(claims), sanitizer.id))
      <4>1. Marked(Stored(claims), sanitizer.id) \in Seq(Claim)
        BY <2>2, <3>1, MarkedClaim
      <4>2. Stored(claims') = Marked(Stored(claims), sanitizer.id)
        BY <3>2, <4>1, ClaimsWritten
      <4> QED
        BY <2>2, <3>1, <4>2, MarkedLabels
    <3>3. CASE UNCHANGED claims
      BY <3>3 DEF Stored
    <3> QED
      BY <2>1, <3>2, <3>3
  <2>6. LabelIsBound'
    BY <1>1, <2>3, <2>5 DEF CleanInv, LabelIsBound, Stored
  <2> QED
    BY <1>1, <1>2, <2>1, <2>3, <2>4, <2>6 DEF CleanInv, CleanIsClean, NoOldLabels, Stored
<1> QED
  BY <1>3, <1>4, <1>5

\* A tenant leaves when the cache has seen the end of every claim.
LEMMA LeavingKeeps ==
    ASSUME TypeOK, CleanInv, TenantLeaves
    PROVE  CleanInv'
<1>1. /\ UNCHANGED <<servers, claims, sanitizer, dirty, wiring>>
      /\ Stored(servers).state = "Reserved" /\ Len(claims) = 1
  BY DEF TenantLeaves, controllers
<1>2. Labelled(Stored(claims)) = {}
  BY <1>1 DEF CleanInv, LabelIsBound
<1>3. \A v \in DOMAIN claims : Labelled(claims[v]) = {}
  <2>1. DOMAIN claims = 1 .. 1
    BY <1>1, Streams, Ends
  <2> QED
    BY <1>1, <1>2, <2>1 DEF Stored
<1> QED
  BY <1>1, <1>2, <1>3
     DEF CleanInv, StagesInOrder, LeftLagsBehind, CleanIsClean, SanitizerHoldsServer,
         LabelIsBound, BoundTenantWaits, NoOldLabels, Stored

\* Every step keeps the invariant.
LEMMA CleanKept == Calm /\ TypeOK /\ CleanInv /\ [Next]_vars => CleanInv'
<1> SUFFICES ASSUME Calm, TypeOK, CleanInv, [Next]_vars PROVE CleanInv'
  OBVIOUS
<1>1. CASE DeliverServer \/ Crash
  <2>1. StagesInOrder' /\ LeftLagsBehind' /\ Stored(servers') = Stored(servers)
    BY <1>1, VersionsDrop DEF CleanInv
  <2>2. LabelsKept
    BY <1>1, ClaimSteps DEF DeliverServer
  <2>3. UNCHANGED <<sanitizer, tenantWaits, dirty>> /\ wiring'.phase = wiring.phase
    BY <1>1, EnqueuedTyped DEF DeliverServer, Crash
  <2> QED
    BY <2>1, <2>2, <2>3, RestKept
<1>2. CASE DeliverClaims
  <2>1. LabelsKept
    BY <1>2, ClaimSteps
  <2> QED
    BY <1>2, <2>1, Undisturbed DEF DeliverClaims
<1>3. CASE Reconcile
  <2>1. CASE reconcileReleased
    BY <1>3, <2>1, ReleasedKeeps DEF Reconcile
  <2>2. CASE UseClaim
    BY <1>3, <2>2, UseKeeps DEF Reconcile
  <2>3. CASE ReconcileSkips \/ CleanUpLeftovers \/ CreateSecret
    <3>1. LabelsKept
      BY <2>3, ClaimSteps DEF ReconcileSkips, CreateSecret
    <3>2. UNCHANGED <<servers, sanitizer, tenantWaits, dirty, wiring>>
      BY <1>3, <2>3 DEF Reconcile, outside, ReconcileSkips, CleanUpLeftovers, CreateSecret
    <3> QED
      BY <3>1, <3>2, Undisturbed
  <2> QED
    BY <1>3, <2>1, <2>2, <2>3 DEF Reconcile
<1>4. CASE Continue \/ cleanupOutdatedSanitizationResources
  <2>1. LabelsKept
    BY <1>4, ClaimSteps DEF Continue, OwnSecret
  <2>2. UNCHANGED <<servers, sanitizer, tenantWaits, dirty, wiring>>
    BY <1>4 DEF Continue, CreateClaim, OwnSecret, DeleteClaim, outside,
                cleanupOutdatedSanitizationResources
  <2> QED
    BY <2>1, <2>2, Undisturbed
<1>5. CASE ReconcileWiring \/ ReconcileWiringDelete \/ UserWiring \/ NicsChange
  BY <1>5 DEF CleanInv, Calm, ReconcileWiring, ReconcileWiringDelete, UserWiring, NicsChange
<1>6. CASE CollectGarbage \/ CallFails \/ UNCHANGED vars
  <2>1. UNCHANGED <<servers, claims, sanitizer, tenantWaits, dirty, wiring>>
    BY <1>6 DEF CollectGarbage, outside, CallFails, vars
  <2> QED
    BY <2>1, ClaimSteps, Undisturbed
<1> QED
  BY <1>1, <1>2, <1>3, <1>4, <1>5, <1>6, PublisherKeeps, BindKeeps, ReserveKeeps,
     ReclaimKeeps, RecycleKeeps, SanitizerKeeps, LeavingKeeps DEF Next

\* The first tenant's Server.
LEMMA CleanInitially == Init => CleanInv
<1> SUFFICES ASSUME Init PROVE CleanInv
  OBVIOUS
<1>1. /\ Len(servers) = 1 /\ DOMAIN servers = 1 .. 1 /\ servers[1] = Stored(servers)
      /\ Stored(servers).state = "Reserved" /\ Stored(servers).ref = Tenant
      /\ Stored(servers).sanitized = "absent"
  BY DEF Init, Stored
<1>2. Tenanted(Stored(servers))
  BY <1>1 DEF Tenanted
<1>3. StagesInOrder /\ LeftLagsBehind
  BY <1>1, <1>2 DEF StagesInOrder, LeftLagsBehind, Staged, Follows
<1>4. Labelled(Stored(claims)) = {}
  BY DEF Init, Stored, Labelled
<1> QED
  BY <1>1, <1>3, <1>4
     DEF Init, CleanInv, CleanIsClean, SanitizerHoldsServer, LabelIsBound, BoundTenantWaits,
         NoOldLabels, Clean

\* A tenant is given the Server only after its predecessor's data is gone,
\* for any number of claims, tenancies and failures, lost reports included.
THEOREM CleanDisks ==
    ASSUME Calm
    PROVE  Spec => []TenantFindsCleanDisks
<1>1. TypeOK /\ CleanInv /\ [Next]_vars => (TypeOK /\ CleanInv)'
  BY TypesKept, CleanKept
<1>2. Init => TypeOK /\ CleanInv
  BY InitTyped, CleanInitially
<1> QED
  BY <1>1, <1>2, CleanSuffices, PTL DEF Spec
=============================================================================
