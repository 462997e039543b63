--------------------------- MODULE CredentialSafetyProofs ---------------------------
(***************************************************************************)
(* Proofs about Credentials for all users, bounds and failures: no account *)
(* gets a password that nothing refers to, a deleted ServiceAccount leaves *)
(* none behind, and a rotation in flight keeps the secrets it has made.    *)
(*                                                                         *)
(* The steps of both controllers are first put in terms of the few fields  *)
(* these three properties depend on (the predicates up to AllMoves, and    *)
(* EveryStep); each property then has an invariant and a section.          *)
(***************************************************************************)
EXTENDS CredentialProofs

UserFields == {"exists", "deleting", "id", "spec", "eff", "observed", "due", "annotated"}

StoreShape ==
    /\ DOMAIN users = Users /\ \A u \in Users : DOMAIN users[u] = UserFields
    /\ DOMAIN password = Accounts
    /\ live \subseteq DOMAIN made
    /\ Len(rotations) =< MaxRotations

\* The user a rotation is of does not change, whatever the cache shows.
CacheShape ==
    /\ DOMAIN cache.users = Users /\ \A u \in Users : DOMAIN cache.users[u] = UserFields
    /\ "users" \notin Lagging => cache.users = users
    /\ "bmc" \notin Lagging => cache.bmc = cred
    /\ \A r \in DOMAIN cache.rotations : cache.rotations[r].user = rotations[r].user
    /\ rotQueue \subseteq DOMAIN cache.rotations

JobShape ==
    /\ userJob # Idle => DOMAIN userJob.me = UserFields
    /\ rotJob # Idle => /\ DOMAIN rotJob.who = UserFields
                        /\ rotJob.rot \in DOMAIN cache.rotations
                        /\ rotJob.me.user = rotations[rotJob.rot].user
    /\ ~Overlap => userJob = Idle \/ rotJob = Idle

Shape == StoreShape /\ CacheShape /\ JobShape

-----------------------------------------------------------------------------
(* The steps                                                               *)

\* No cache of users or of the BMC but the clock's (Age) shows anything else
\* than it did, or than what is stored now.
CacheMoves ==
    /\ cache'.users \in {cache.users, users'}
    /\ "users" \notin Lagging => cache'.users = users'
    /\ "bmc" \notin Lagging => cache'.bmc = cred'

\* No key is queued for a rotation but the one whose reconcile ends.
Delivers ==
    \E uq, rq : /\ rq \subseteq rotQueue \cup {r \in DOMAIN rotations : rotJob # Idle /\ r = rotJob.rot}
               /\ DeliverTo(uq, rq)

\* User u is stored with these references; whether it is there stays.
WritesUser(u, spec, eff, id) ==
    /\ DOMAIN users' = Users /\ \A v \in Users : DOMAIN users'[v] = UserFields
    /\ \A v \in Users \ {u} : users'[v] = users[v]
    /\ users'[u].spec = spec /\ users'[u].eff = eff /\ users'[u].id = id
    /\ users'[u].exists = users[u].exists /\ users'[u].deleting = users[u].deleting
TouchesUser(u) == WritesUser(u, users[u].spec, users[u].eff, users[u].id)

\* No rotation is added, and none changes its user or its secret.
RotationsSame ==
    /\ DOMAIN rotations' = DOMAIN rotations
    /\ \A r \in DOMAIN rotations :
          /\ rotations'[r].user = rotations[r].user
          /\ rotations'[r].new = rotations[r].new

\* A secret is made for u, with the label of a rotation or none (0).
Makes(u, label) ==
    /\ Len(made) \in Nat /\ Len(made) + 1 \notin DOMAIN made
    /\ DOMAIN made' = DOMAIN made \cup {Len(made) + 1}
    /\ \A s \in DOMAIN made : made'[s] = made[s]
    /\ made'[Len(made) + 1].owner = u /\ made'[Len(made) + 1].label = label
    /\ live' = live \cup {Len(made) + 1}

\* The user's reconcile is at pc, and goes on at next.
Moves(pc, next) ==
    /\ userJob # Idle /\ userJob.pc = pc /\ userJob'.pc = next
    /\ userJob'.user = userJob.user
Steady == UNCHANGED <<cred, rotations, made, live, password, rotJob>>
KeepsCopies == userJob'.me = userJob.me /\ userJob'.bmc = userJob.bmc
\* The copy is what the API server has answered.
Rereads == userJob'.me = users'[userJob.user] /\ userJob'.bmc = userJob.bmc

\* The looks that decide how a reconcile goes on: at the secret of the spec, at
\* the policy of a deletion, and for an account whose id is not recorded.
LooksOnly ==
    LET u == userJob.user IN
    /\ KeepsCopies /\ UNCHANGED users /\ Steady
    /\ \/ Moves("test", "login")
       \/ Moves("test", "adopt") /\ userJob.me.spec # None /\ userJob.me.spec \in live
       \/ Moves("delete", "finalizer") /\ u \in Admins
       \/ Moves("delete", "remove") \/ Moves("delete", "find") \/ Moves("find", "remove")
       \/ Moves("find", "finalizer") /\ password[u] = None

\* setEffectiveSecretRef and syncBMCSecretRefToBMC.
AdoptsSpec ==
    LET u == userJob.user
        me == userJob.me
    IN  /\ users[u].exists /\ Steady /\ Rereads
        /\ WritesUser(u, users[u].spec, Merge(me.eff, me.spec, users[u].eff), users[u].id)
        /\ \/ Moves("adopt", "login")
           \/ Moves("adopt", "sync") /\ u \in Admins /\ userJob'.secret = me.spec
SyncsBMC ==
    /\ Moves("sync", "login")
    /\ cred' = userJob.secret /\ userJob'.bmc = userJob.secret /\ userJob'.me = userJob.me
    /\ UNCHANGED <<users, rotations, made, live, password, rotJob>>

\* Login: where the reconcile goes on depends on the copy.
GoesOnBy(m) ==
    \/ m.spec = None /\ Moves("login", "secret")
    \/ m.spec # None /\ m.id /\ Moves("login", "follow")
    \/ m.spec # None /\ ~m.id /\ Moves("login", "account")
LogsInUnknown ==
    /\ password[userJob.user] = None /\ Steady /\ UNCHANGED users
    /\ KeepsCopies /\ GoesOnBy(userJob.me)
LogsInFound ==
    LET u == userJob.user IN
    /\ password[u] # None /\ Steady /\ Rereads
    /\ WritesUser(u, users[u].spec, users[u].eff, TRUE)
    /\ GoesOnBy(users'[u])

\* The account and its secret.
MakesOwn ==
    /\ Moves("secret", "ref") /\ KeepsCopies
    /\ Makes(userJob.user, 0) /\ userJob'.secret = Len(made) + 1
    /\ UNCHANGED <<users, cred, rotations, password, rotJob>>
RefersToOwn ==
    LET u == userJob.user IN
    /\ Steady /\ Rereads
    /\ WritesUser(u, userJob.secret, users[u].eff, users[u].id)
    /\ \/ userJob.me.id /\ Moves("ref", "follow")
       \/ ~userJob.me.id /\ Moves("ref", "account")
SetsPassword ==
    password' = [password EXCEPT ![userJob.user] = userJob.me.spec]
WritesAccount ==
    /\ Moves("account", "record") /\ KeepsCopies
    /\ userJob.me.spec \in live /\ SetsPassword
    /\ UNCHANGED <<users, cred, rotations, made, live, rotJob>>
RecordsAccount ==
    LET u == userJob.user IN
    /\ Moves("record", "follow") /\ Steady /\ Rereads
    /\ WritesUser(u, users[u].spec, users[u].eff, TRUE)
FollowsSpec ==
    LET me == userJob.me IN
    /\ Moves("follow", "prune") /\ KeepsCopies
    /\ me.spec \in live
    /\ UNCHANGED password \/ (me.eff # None /\ me.spec # me.eff /\ SetsPassword)
    /\ UNCHANGED <<users, cred, rotations, made, live, rotJob>>

\* pruneOldSecrets, the conditions, and what sets off a rotation.
RunningOf(u) ==
    {r \in 1..Len(cache.rotations) :
        cache.rotations[r].user = u /\ InFlight(cache.rotations[r])}
PrunesOwn ==
    /\ Moves("prune", "conditions") /\ KeepsCopies
    /\ live' \subseteq live
    /\ \A s \in live \ live' :
          /\ made[s].owner = userJob.user
          /\ s \notin {userJob.me.spec, userJob.me.eff, userJob.bmc}
          /\ made[s].label \notin RunningOf(userJob.user)
    /\ UNCHANGED <<users, cred, rotations, made, password, rotJob>>
Concludes ==
    /\ Steady
    /\ Moves("conditions", "trigger") \/ Moves("trigger", "create")
    /\ \/ KeepsCopies /\ UNCHANGED users
       \/ Rereads /\ TouchesUser(userJob.user)
AsksRotation ==
    /\ userJob # Idle /\ userJob.pc = "create" /\ userJob' = Idle
    /\ Len(rotations) < MaxRotations
    /\ DOMAIN rotations' = DOMAIN rotations \cup {Len(rotations) + 1}
    /\ Len(rotations) + 1 \notin DOMAIN rotations
    /\ \A r \in DOMAIN rotations : rotations'[r] = rotations[r]
    /\ rotations'[Len(rotations) + 1].user = userJob.user
    /\ rotations'[Len(rotations) + 1].new = None
    /\ UNCHANGED <<users, cred, made, live, password, rotJob>>

\* The account is deleted, then the finalizer is removed.
DeletesAccount ==
    /\ Moves("remove", "finalizer") /\ KeepsCopies
    /\ password' = [password EXCEPT ![userJob.user] = None]
    /\ UNCHANGED <<users, cred, rotations, made, live, rotJob>>
RemovesUser ==
    LET u == userJob.user IN
    /\ userJob # Idle /\ userJob.pc = "finalizer" /\ userJob' = Idle
    /\ DOMAIN users' = Users
    /\ \A v \in Users \ {u} : users'[v] = users[v]
    /\ users'[u] = [users[u] EXCEPT !.exists = FALSE]
    /\ Steady

UserIdles == userJob' = Idle /\ UNCHANGED users /\ Steady
UserMoves ==
    \/ UserIdles \/ LooksOnly \/ AdoptsSpec \/ SyncsBMC \/ LogsInUnknown \/ LogsInFound
    \/ MakesOwn \/ RefersToOwn \/ WritesAccount \/ RecordsAccount \/ FollowsSpec
    \/ PrunesOwn \/ Concludes \/ AsksRotation \/ DeletesAccount \/ RemovesUser

\* The rotation's reconcile, of its user Who, goes on from pc at next.
Who == rotJob.me.user
RotMoves(pc, next) ==
    /\ rotJob # Idle /\ rotJob.pc = pc /\ rotJob'.pc = next
    /\ rotJob'.rot = rotJob.rot /\ rotJob'.me.user = rotJob.me.user
KeepsSecret == rotJob'.who = rotJob.who /\ rotJob'.secret = rotJob.secret

\* A start, an end and a step that tell nothing to the user or the BMC.
RotStarts ==
    /\ rotJob = Idle /\ (Overlap \/ userJob = Idle)
    /\ \/ rotJob' = Idle
       \/ /\ rotJob'.pc = "client" /\ rotJob'.rot \in rotQueue
          /\ rotJob'.me.user \in Users
          /\ rotJob'.who = cache.users[rotJob'.me.user]
          /\ cache.users[rotJob'.me.user].exists
          /\ rotJob'.me.user = rotations[rotJob'.rot].user
    /\ RotationsSame /\ UNCHANGED <<users, cred, made, live, password, userJob>>
RotIdles ==
    /\ rotJob' = Idle
    /\ RotationsSame /\ UNCHANGED <<users, cred, made, live, password, userJob>>
RotGoesOn ==
    /\ \/ RotMoves("client", "make") \/ RotMoves("client", "change")
       \/ RotMoves("try", "spec") \/ RotMoves("try", "fail")
    /\ KeepsSecret /\ RotationsSame
    /\ UNCHANGED <<users, cred, made, live, password, userJob>>

\* The new credential.
RotMakes ==
    /\ RotMoves("make", "persist") /\ Makes(Who, rotJob.rot)
    /\ rotJob'.who = rotJob.who /\ rotJob'.secret = Len(made) + 1
    /\ UNCHANGED <<users, cred, rotations, password, userJob>>
RotPersists ==
    /\ RotMoves("persist", "change") /\ KeepsSecret
    /\ DOMAIN rotations' = DOMAIN rotations
    /\ \A r \in DOMAIN rotations :
          /\ rotations'[r].user = rotations[r].user
          /\ rotations'[r].new = IF r = rotJob.rot THEN rotJob.secret ELSE rotations[r].new
    /\ UNCHANGED <<users, cred, made, live, password, userJob>>
RotChanges ==
    /\ RotMoves("change", "try") /\ KeepsSecret
    /\ rotJob.secret \in live
    /\ password' = [password EXCEPT ![Who] = rotJob.secret]
    /\ UNCHANGED <<users, cred, rotations, made, live, userJob>>

\* promoteCredential.
PromotesSpec ==
    /\ RotMoves("spec", "status")
    /\ rotJob'.secret = rotJob.secret /\ rotJob'.who = users'[Who]
    /\ users[Who].exists
    /\ WritesUser(Who, Merge(rotJob.who.spec, rotJob.secret, users[Who].spec),
                  users[Who].eff, users[Who].id)
    /\ UNCHANGED <<cred, rotations, made, live, password, userJob>>
PromotesStatus ==
    /\ \/ RotMoves("status", "bmc") /\ Who \in Admins
       \/ RotMoves("status", "finish")
    /\ rotJob'.secret = rotJob.secret /\ rotJob'.who = users'[Who]
    /\ users[Who].exists
    /\ WritesUser(Who, users[Who].spec,
                  Merge(rotJob.who.eff, rotJob.secret, users[Who].eff), users[Who].id)
    /\ UNCHANGED <<cred, rotations, made, live, password, userJob>>
PromotesBMC ==
    /\ RotMoves("bmc", "finish") /\ KeepsSecret
    /\ cred' = rotJob.secret
    /\ UNCHANGED <<users, rotations, made, live, password, userJob>>

RotationMoves ==
    \/ RotStarts \/ RotIdles \/ RotGoesOn \/ RotMakes \/ RotPersists \/ RotChanges
    \/ PromotesSpec \/ PromotesStatus \/ PromotesBMC

-----------------------------------------------------------------------------
(* Persons, the clock, the garbage collector, failures                     *)

Bystanders == UNCHANGED <<cred, password, userJob, rotJob>>

\* The clock tells the store and the cache alike.
AgesUser(u) ==
    /\ TouchesUser(u)
    /\ DOMAIN cache'.users = Users
    /\ \A v \in Users :
          LET m == cache.users[v]
              n == cache'.users[v]
          IN  /\ DOMAIN n = UserFields
              /\ n.spec = m.spec /\ n.eff = m.eff /\ n.id = m.id
              /\ n.exists = m.exists /\ n.deleting = m.deleting
    /\ "users" \notin Lagging => cache'.users = users'
    /\ cache'.bmc = cache.bmc /\ cache'.rotations = cache.rotations
    /\ Bystanders /\ UNCHANGED <<rotations, made, live>>
RepointsUser(u) ==
    /\ u \in Repointable /\ users[u].eff # None
    /\ Makes(None, 0) /\ WritesUser(u, Len(made) + 1, users[u].eff, users[u].id)
    /\ Bystanders /\ UNCHANGED rotations
AnnotatesUser(u) ==
    /\ TouchesUser(u) /\ Bystanders /\ UNCHANGED <<rotations, made, live>>
DeletesUser(u) ==
    /\ users' = [users EXCEPT ![u] = [users[u] EXCEPT !.deleting = TRUE]]
    /\ Bystanders /\ UNCHANGED <<rotations, made, live>>
CollectsOwn(u) ==
    /\ ~users[u].exists
    /\ live' \subseteq live /\ \A s \in live \ live' : made[s].owner = u
    /\ RotationsSame /\ Bystanders /\ UNCHANGED <<users, made>>
OnlyCaches ==
    /\ RotationsSame /\ UNCHANGED <<users, made, live, cred, password>>
    /\ userJob' \in {Idle, userJob} /\ rotJob' \in {Idle, rotJob}

\* A reconcile of a user starts with the cached copies.
UserStarts(u) ==
    /\ userJob = Idle /\ (Overlap \/ rotJob = Idle)
    /\ UNCHANGED <<users, cred, rotations, made, live, password, rotJob>>
    /\ \/ userJob' = Idle
       \/ /\ userJob'.user = u /\ userJob'.me = cache.users[u] /\ userJob'.bmc = cache.bmc
          /\ cache.users[u].exists
          /\ userJob'.pc = IF cache.users[u].deleting THEN "delete" ELSE "test"

PersonMoves(u) ==
    \/ UserStarts(u) \/ RepointsUser(u) \/ AnnotatesUser(u) \/ DeletesUser(u) \/ CollectsOwn(u)

-----------------------------------------------------------------------------
(* What the code's steps come to                                           *)

\* A delivery shows what is stored where the cache does not trail.
LEMMA DeliveryMoves ==
    ASSUME IInv, NEW uq, NEW rq, DeliverTo(uq, rq)
    PROVE  /\ CacheMoves
           /\ cache'.rotations \in {cache.rotations, rotations'}
<1>1. cache' = [k \in Kinds |-> IF k \in Lagging THEN cache[k] ELSE Store'[k]]
  BY DEF DeliverTo, IInv, CacheTyped
<1>2. /\ cache'.users = IF "users" \in Lagging THEN cache.users ELSE users'
      /\ cache'.bmc = IF "bmc" \in Lagging THEN cache.bmc ELSE cred'
      /\ cache'.rotations = IF "rotations" \in Lagging THEN cache.rotations ELSE rotations'
  BY <1>1 DEF Kinds, Store
<1> QED
  BY <1>2 DEF CacheMoves

\* The fields of the worker's copies.
LEMMA UserJobFields ==
    ASSUME IInv, Shape, userJob # Idle
    PROVE  /\ DOMAIN userJob = {"pc", "user", "me", "bmc", "as", "secret", "force"}
           /\ userJob.user \in Users /\ DOMAIN userJob.me = UserFields
           /\ DOMAIN users = Users /\ DOMAIN users[userJob.user] = UserFields
  BY DEF IInv, UserJobTyped, Shape, StoreShape, CacheShape, JobShape

\* A patch of the user's object replaces the copy by it.
LEMMA PatchMoves ==
    ASSUME IInv, Shape, userJob # Idle, NEW new, NEW job, DOMAIN new = UserFields,
           DOMAIN job = DOMAIN userJob, job.user = userJob.user, job.bmc = userJob.bmc,
           new.exists = users[userJob.user].exists, new.deleting = users[userJob.user].deleting,
           UserController!PatchUser(new, job)
    PROVE  /\ WritesUser(userJob.user, new.spec, new.eff, new.id)
           /\ Rereads /\ Steady /\ Deliver
           /\ userJob'.pc = job.pc /\ userJob'.secret = job.secret /\ userJob'.user = userJob.user
           /\ users'[userJob.user] = new
<1>1. /\ users' = [users EXCEPT ![userJob.user] = new]
      /\ userJob' = [job EXCEPT !.me = new]
      /\ Steady /\ Deliver
  BY SameDelivery DEF UserController!PatchUser, UserController!Continue, Steady
<1>2. WritesUser(userJob.user, new.spec, new.eff, new.id) /\ users'[userJob.user] = new
  BY <1>1, UserJobFields DEF WritesUser, Shape, StoreShape, CacheShape, JobShape
<1>3. /\ userJob'.me = new /\ userJob'.bmc = job.bmc /\ userJob'.pc = job.pc
      /\ userJob'.secret = job.secret /\ userJob'.user = job.user
  BY <1>1, UserJobFields
<1> QED
  BY <1>1, <1>2, <1>3 DEF Rereads

\* A requeue or the end of a reconcile.
LEMMA UserEnds ==
    ASSUME UserController!Requeue \/ UserController!Finish
    PROVE  UserIdles /\ Delivers
BY SameDelivery DEF UserController!Requeue, UserController!Finish, UserController!objects,
   UserIdles, Steady, Deliver, Delivers

\* What each step of a user's reconcile comes to, unless it ends there.
LEMMA UserStepMoves ==
    ASSUME IInv, Shape, UserController!UserStep
    PROVE  UserMoves /\ Delivers
<1> DEFINE u == userJob.user
           me == userJob.me
           Ends == UserController!Requeue \/ UserController!Finish
<1> USE DEF UserController!At, UserController!Continue, UserController!Goto,
            UserController!objects, UserController!Gone
<1>1. CASE Ends
  BY <1>1, UserEnds DEF UserMoves
<1>2. Deliver => Delivers
  BY DEF Deliver, Delivers
<1>3. UserController!Deliver <=> Deliver
  BY SameDelivery
<1> HIDE DEF Ends
<1>4. CASE UserController!updateEffectiveSecret /\ ~Ends
  <2>1. /\ userJob # Idle /\ userJob.pc = "test" /\ UNCHANGED users /\ Steady /\ Deliver
        /\ \E pc \in {"adopt", "login"} :
              /\ userJob' = [userJob EXCEPT !.pc = pc]
              /\ pc = "adopt" => me.spec # None /\ me.spec \in live
    BY <1>3, <1>4 DEF UserController!updateEffectiveSecret, UserController!Adopts,
       UserController!Works, Ends, Steady
  <2>2. LooksOnly
    BY <2>1, UserJobFields DEF LooksOnly, Moves, KeepsCopies
  <2> QED
    BY <1>2, <2>1, <2>2 DEF UserMoves
<1>5. CASE UserController!setEffectiveSecretRef /\ ~Ends
  <2> DEFINE sync == u \in Admins /\ userJob.bmc # me.spec
             new == [users[u] EXCEPT !.eff = Merge(me.eff, me.spec, @)]
             job == [userJob EXCEPT !.secret = me.spec, !.pc = IF sync THEN "sync" ELSE "login"]
  <2>1. /\ userJob # Idle /\ userJob.pc = "adopt" /\ users[u].exists
        /\ UserController!PatchUser(new, job)
    BY <1>5 DEF UserController!setEffectiveSecretRef, Ends, Merge, UserController!Merge
  <2>2. /\ DOMAIN new = UserFields /\ new.exists = users[u].exists
        /\ new.deleting = users[u].deleting /\ new.spec = users[u].spec
        /\ new.eff = Merge(me.eff, me.spec, users[u].eff) /\ new.id = users[u].id
    BY <2>1, UserJobFields DEF UserFields
  <2>3. /\ DOMAIN job = DOMAIN userJob /\ job.user = u /\ job.bmc = userJob.bmc
        /\ job.secret = me.spec /\ job.pc = IF sync THEN "sync" ELSE "login"
    BY <2>1, UserJobFields
  <2> HIDE DEF new, job
  <2>4. AdoptsSpec /\ Deliver
    BY <2>1, <2>2, <2>3, PatchMoves DEF AdoptsSpec, Moves
  <2> QED
    BY <1>2, <2>4 DEF UserMoves
<1>6. CASE UserController!syncBMCSecretRefToBMC
  <2>1. SyncsBMC /\ Deliver
    BY <1>3, <1>6, UserJobFields DEF UserController!syncBMCSecretRefToBMC, SyncsBMC, Moves
  <2> QED
    BY <1>2, <2>1 DEF UserMoves
<1>7. CASE UserController!Login /\ ~Ends
  <2> DEFINE new == [users[u] EXCEPT !.id = TRUE]
             next(m) == IF m.spec = None THEN "secret"
                        ELSE IF m.id THEN "follow" ELSE "account"
             as == IF ~me.id /\ me.eff = None THEN UserController!Factory ELSE userJob.bmc
             job(m) == [userJob EXCEPT !.as = as, !.pc = next(m)]
  <2>1. /\ userJob # Idle /\ userJob.pc = "login"
        /\ \/ password[u] # None /\ users[u].exists /\ UserController!PatchUser(new, job(new))
           \/ /\ password[u] = None /\ userJob' = job(me)
              /\ UNCHANGED users /\ Steady /\ Deliver
    BY <1>3, <1>7 DEF UserController!Login, Ends, Steady
  <2>2. /\ DOMAIN new = UserFields /\ new.exists = users[u].exists
        /\ new.deleting = users[u].deleting /\ new.spec = users[u].spec
        /\ new.eff = users[u].eff /\ new.id = TRUE
    BY <2>1, UserJobFields DEF UserFields
  <2>3. ASSUME NEW m
        PROVE  /\ DOMAIN job(m) = DOMAIN userJob /\ job(m).user = u /\ job(m).bmc = userJob.bmc
               /\ job(m).me = me /\ job(m).pc = next(m)
    BY <2>1, UserJobFields
  <2>4. ASSUME NEW m, userJob'.pc = next(m), userJob'.user = u
        PROVE  GoesOnBy(m)
    BY <2>1, <2>4 DEF GoesOnBy, Moves
  <2> HIDE DEF new, job
  <2>5. CASE password[u] # None /\ UserController!PatchUser(new, job(new))
    <3>1. /\ WritesUser(u, users[u].spec, users[u].eff, TRUE) /\ Rereads /\ Steady /\ Deliver
          /\ userJob'.pc = next(new) /\ userJob'.user = u /\ users'[u] = new
      BY <2>1, <2>2, <2>3, <2>5, PatchMoves
    <3>2. GoesOnBy(users'[u])
      BY <2>4, <3>1
    <3>3. LogsInFound
      BY <2>5, <3>1, <3>2 DEF LogsInFound
    <3> QED
      BY <1>2, <3>1, <3>3 DEF UserMoves
  <2>6. CASE password[u] = None /\ userJob' = job(me) /\ UNCHANGED users /\ Steady /\ Deliver
    <3>1. LogsInUnknown
      BY <2>3, <2>4, <2>6 DEF LogsInUnknown, KeepsCopies
    <3> QED
      BY <1>2, <2>6, <3>1 DEF UserMoves
  <2> QED
    BY <2>1, <2>5, <2>6
<1>8. CASE UserController!createBMCSecretForUser /\ ~Ends
  <2> DEFINE secret == [account |-> u, owner |-> u, label |-> 0, bad |-> FALSE]
  <2>1. /\ userJob # Idle /\ userJob.pc = "secret" /\ UserController!Make(secret)
        /\ userJob' = [userJob EXCEPT !.secret = Len(made) + 1, !.pc = "ref"]
        /\ UNCHANGED <<users, cred, rotations, password, rotJob>> /\ Deliver
    BY <1>3, <1>8 DEF UserController!createBMCSecretForUser, Ends
  <2>2. Makes(u, 0)
    <3>1. made' = Append(made, secret) /\ live' = live \cup {Len(made) + 1}
      BY <2>1 DEF UserController!Make
    <3>2. secret.owner = u /\ secret.label = 0
      OBVIOUS
    <3> HIDE DEF secret
    <3>3. made \in Seq(MadeSecret) /\ Len(made) \in Nat /\ DOMAIN made = 1..Len(made)
      BY DEF IInv
    <3>4. secret \in MadeSecret
      BY <2>1, UserJobFields DEF secret, MadeSecret, Accounts
    <3> QED
      BY <3>1, <3>2, <3>3, <3>4 DEF Makes
  <2>3. MakesOwn
    BY <2>1, <2>2, UserJobFields DEF MakesOwn, Moves, KeepsCopies
  <2> QED
    BY <1>2, <2>1, <2>3 DEF UserMoves
<1>9. CASE UserController!setBMCUserSecretRef /\ ~Ends
  <2> DEFINE new == [users[u] EXCEPT !.spec = userJob.secret]
             job == [userJob EXCEPT !.pc = IF me.id THEN "follow" ELSE "account"]
  <2>1. userJob # Idle /\ userJob.pc = "ref" /\ UserController!PatchUser(new, job)
    BY <1>9 DEF UserController!setBMCUserSecretRef, Ends
  <2>2. /\ DOMAIN new = UserFields /\ new.exists = users[u].exists
        /\ new.deleting = users[u].deleting /\ new.spec = userJob.secret
        /\ new.eff = users[u].eff /\ new.id = users[u].id
    BY <2>1, UserJobFields DEF UserFields
  <2>3. /\ DOMAIN job = DOMAIN userJob /\ job.user = u /\ job.bmc = userJob.bmc
        /\ job.pc = IF me.id THEN "follow" ELSE "account"
    BY <2>1, UserJobFields
  <2> HIDE DEF new, job
  <2>4. RefersToOwn /\ Deliver
    BY <2>1, <2>2, <2>3, PatchMoves DEF RefersToOwn, Moves
  <2> QED
    BY <1>2, <2>4 DEF UserMoves
<1>10. CASE UserController!CreateAccount /\ ~Ends
  <2>1. WritesAccount /\ Deliver
    BY <1>3, <1>10, UserJobFields
       DEF UserController!CreateAccount, UserController!CreateOrUpdateAccount, Ends,
           WritesAccount, Moves, KeepsCopies, SetsPassword
  <2> QED
    BY <1>2, <2>1 DEF UserMoves
<1>11. CASE UserController!RecordAccount /\ ~Ends
  <2> DEFINE new == [users[u] EXCEPT !.id = TRUE, !.due = FALSE]
             job == [userJob EXCEPT !.pc = "follow"]
  <2>1. userJob # Idle /\ userJob.pc = "record" /\ UserController!PatchUser(new, job)
    BY <1>11 DEF UserController!RecordAccount, Ends
  <2>2. /\ DOMAIN new = UserFields /\ new.exists = users[u].exists
        /\ new.deleting = users[u].deleting /\ new.spec = users[u].spec
        /\ new.eff = users[u].eff /\ new.id = TRUE
    BY <2>1, UserJobFields DEF UserFields
  <2>3. /\ DOMAIN job = DOMAIN userJob /\ job.user = u /\ job.bmc = userJob.bmc
        /\ job.pc = "follow"
    BY <2>1, UserJobFields
  <2> HIDE DEF new, job
  <2>4. RecordsAccount /\ Deliver
    BY <2>1, <2>2, <2>3, PatchMoves DEF RecordsAccount, Moves
  <2> QED
    BY <1>2, <2>4 DEF UserMoves
<1>12. CASE UserController!reconcileSecretRef /\ ~Ends
  <2>1. FollowsSpec /\ Deliver
    BY <1>3, <1>12, UserJobFields
       DEF UserController!reconcileSecretRef, UserController!CreateOrUpdateAccount, Ends,
           FollowsSpec, Moves, KeepsCopies, SetsPassword
  <2> QED
    BY <1>2, <2>1 DEF UserMoves
<1>13. CASE UserController!pruneOldSecrets
  <2>1. /\ live' = live \ (UserController!ControlledBy(u) \ UserController!Protected(me, userJob.bmc, u))
        /\ userJob # Idle /\ userJob.pc = "prune" /\ userJob' = [userJob EXCEPT !.pc = "conditions"]
        /\ UNCHANGED <<users, cred, rotations, made, password, rotJob>> /\ Deliver
    BY <1>3, <1>13 DEF UserController!pruneOldSecrets
  <2>2. /\ {me.spec, me.eff, userJob.bmc} \subseteq UserController!Protected(me, userJob.bmc, u)
        /\ \A s \in UserController!ControlledBy(u) : made[s].owner = u
        /\ \A s \in live : made[s].label \in RunningOf(u) =>
              s \in UserController!Protected(me, userJob.bmc, u)
    BY DEF UserController!Protected, UserController!ControlledBy, UserController!Labelled,
       UserController!Running, UserController!InFlight, RunningOf, InFlight
  <2>3. PrunesOwn
    BY <2>1, <2>2, UserJobFields DEF PrunesOwn, Moves, KeepsCopies
  <2> QED
    BY <1>2, <2>1, <2>3 DEF UserMoves
<1>14. ASSUME NEW new, NEW job, userJob # Idle, UserController!PatchUser(new, job),
              DOMAIN new = UserFields, new.exists = users[u].exists,
              new.deleting = users[u].deleting, new.spec = users[u].spec,
              new.eff = users[u].eff, new.id = users[u].id,
              DOMAIN job = DOMAIN userJob, job.user = u, job.bmc = userJob.bmc,
              <<userJob.pc, job.pc>> \in {<<"conditions", "trigger">>, <<"trigger", "create">>}
       PROVE  UserMoves /\ Delivers
  <2>1. Concludes /\ Deliver
    BY <1>14, PatchMoves DEF Concludes, Moves, TouchesUser
  <2> QED
    BY <1>2, <2>1 DEF UserMoves
<1>15. CASE UserController!SetConditions /\ ~Ends
  <2> DEFINE new == [users[u] EXCEPT !.observed = UserController!Merge(me.observed, me.spec, @)]
             job == [userJob EXCEPT !.pc = "trigger"]
  <2>1. userJob # Idle /\ userJob.pc = "conditions" /\ UserController!PatchUser(new, job)
    BY <1>15 DEF UserController!SetConditions, Ends
  <2>2. /\ DOMAIN new = UserFields /\ new.exists = users[u].exists
        /\ new.deleting = users[u].deleting /\ new.spec = users[u].spec
        /\ new.eff = users[u].eff /\ new.id = users[u].id
    BY <2>1, UserJobFields DEF UserFields
  <2>3. /\ DOMAIN job = DOMAIN userJob /\ job.user = u /\ job.bmc = userJob.bmc
        /\ job.pc = "trigger"
    BY <2>1, UserJobFields
  <2> HIDE DEF new, job
  <2> QED
    BY <1>14, <2>1, <2>2, <2>3
<1>16. CASE UserController!TriggerRotation /\ ~Ends
  <2> DEFINE new == [users[u] EXCEPT !.annotated = FALSE]
             job == [userJob EXCEPT !.force = TRUE, !.pc = "create"]
  <2>1. /\ userJob # Idle /\ userJob.pc = "trigger"
        /\ \/ UserController!PatchUser(new, job)
           \/ userJob' = [userJob EXCEPT !.pc = "create"] /\ UNCHANGED users /\ Steady /\ Deliver
    BY <1>3, <1>16 DEF UserController!TriggerRotation, Ends, Steady
  <2>2. /\ DOMAIN new = UserFields /\ new.exists = users[u].exists
        /\ new.deleting = users[u].deleting /\ new.spec = users[u].spec
        /\ new.eff = users[u].eff /\ new.id = users[u].id
    BY <2>1, UserJobFields DEF UserFields
  <2>3. /\ DOMAIN job = DOMAIN userJob /\ job.user = u /\ job.bmc = userJob.bmc
        /\ job.pc = "create"
    BY <2>1, UserJobFields
  <2> HIDE DEF new, job
  <2>4. CASE userJob' = [userJob EXCEPT !.pc = "create"] /\ UNCHANGED users /\ Steady /\ Deliver
    <3>1. Concludes
      BY <2>1, <2>4, UserJobFields DEF Concludes, Moves, KeepsCopies
    <3> QED
      BY <1>2, <2>4, <3>1 DEF UserMoves
  <2> QED
    BY <1>14, <2>1, <2>2, <2>3, <2>4
<1>17. CASE UserController!ensureBMCUserRotation /\ ~Ends
  <2> DEFINE rot == [user |-> u, phase |-> "Pending", new |-> None,
                     retries |-> 0, recent |-> FALSE]
  <2>1. /\ userJob # Idle /\ userJob.pc = "create" /\ userJob' = Idle
        /\ rotations' = Append(rotations, rot) /\ Len(rotations) < MaxRotations
        /\ UNCHANGED <<users, cred, made, live, password, rotJob>> /\ Deliver
    BY <1>3, <1>17 DEF UserController!ensureBMCUserRotation, Ends
  <2>2. rot \in Rot /\ rot.user = u /\ rot.new = None
    BY <2>1, UserJobFields DEF Rot, Phases
  <2> HIDE DEF rot
  <2>3. rotations \in Seq(Rot) /\ DOMAIN rotations = 1..Len(rotations) /\ Len(rotations) \in Nat
    BY DEF IInv
  <2>4. AsksRotation
    BY <2>1, <2>2, <2>3 DEF AsksRotation
  <2> QED
    BY <1>2, <2>1, <2>4 DEF UserMoves
<1>18. ASSUME NEW next \in {"finalizer", "remove", "find"}, userJob # Idle,
              DOMAIN userJob' = DOMAIN userJob, userJob'.user = u, userJob'.me = me,
              userJob'.bmc = userJob.bmc, userJob'.pc = next, UNCHANGED users, Steady, Deliver,
              \/ userJob.pc = "delete" /\ (next = "finalizer" => u \in Admins)
              \/ userJob.pc = "find" /\ next # "find" /\ (next = "finalizer" => password[u] = None)
       PROVE  UserMoves /\ Delivers
  <2>1. LooksOnly
    BY <1>18 DEF LooksOnly, Moves, KeepsCopies
  <2> QED
    BY <1>2, <1>18, <2>1 DEF UserMoves
<1>19. CASE UserController!DeleteUser /\ ~Ends
  <2>1. PICK next \in {"finalizer", "remove", "find"} :
           /\ next = "finalizer" => u \in Admins
           /\ userJob' = [userJob EXCEPT !.as = userJob.bmc, !.pc = next]
    BY <1>19 DEF UserController!DeleteUser, UserController!Retains, Ends
  <2>2. /\ userJob # Idle /\ userJob.pc = "delete" /\ UNCHANGED users /\ Steady /\ Deliver
    BY <1>3, <1>19 DEF UserController!DeleteUser, Ends, Steady
  <2> QED
    BY <1>18, <2>1, <2>2, UserJobFields
<1>20. CASE UserController!FindAccount /\ ~Ends
  <2>1. PICK next \in {"finalizer", "remove"} :
           /\ next = "finalizer" => password[u] = None
           /\ userJob' = [userJob EXCEPT !.pc = next]
    BY <1>20 DEF UserController!FindAccount, UserController!Finds, Ends
  <2>2. /\ userJob # Idle /\ userJob.pc = "find" /\ UNCHANGED users /\ Steady /\ Deliver
    BY <1>3, <1>20 DEF UserController!FindAccount, Ends, Steady
  <2> QED
    BY <1>18, <2>1, <2>2, UserJobFields
<1>21. CASE UserController!DeleteAccount /\ ~Ends
  <2>1. DeletesAccount /\ Deliver
    BY <1>3, <1>21, UserJobFields
       DEF UserController!DeleteAccount, Ends, DeletesAccount, Moves, KeepsCopies
  <2> QED
    BY <1>2, <2>1 DEF UserMoves
<1>22. CASE UserController!RemoveFinalizer /\ ~Ends
  <2>1. /\ userJob # Idle /\ userJob.pc = "finalizer" /\ userJob' = Idle
        /\ users' = [users EXCEPT ![u].exists = FALSE] /\ Steady /\ Deliver
    BY <1>3, <1>22 DEF UserController!RemoveFinalizer, Ends, Steady
  <2>2. RemovesUser
    BY <2>1, UserJobFields DEF RemovesUser
  <2> QED
    BY <1>2, <2>1, <2>2 DEF UserMoves
<1> QED
  BY <1>1, <1>4, <1>5, <1>6, <1>7, <1>8, <1>9, <1>10, <1>11, <1>12, <1>13, <1>15, <1>16,
     <1>17, <1>19, <1>20, <1>21, <1>22 DEF UserController!UserStep, Ends

\* A write of rotation r that keeps its user and its secret.
LEMMA WriteKeepsRotations ==
    ASSUME IInv, NEW r \in DOMAIN rotations, NEW new,
           rotations' = [rotations EXCEPT ![r] = new],
           new.user = rotations[r].user, new.new = rotations[r].new
    PROVE  RotationsSame
BY DEF IInv, RotationsSame

\* The fields of the rotation's worker.
LEMMA RotJobFields ==
    ASSUME IInv, Shape, rotJob # Idle
    PROVE  /\ DOMAIN rotJob = {"pc", "rot", "me", "who", "bmc", "as", "secret"}
           /\ rotJob.rot \in DOMAIN rotations /\ rotations[rotJob.rot] \in Rot
           /\ Who = rotations[rotJob.rot].user /\ Who \in Users
           /\ rotJob.me \in Rot /\ rotJob.secret \in Nat \cup {None}
           /\ DOMAIN rotJob.who = UserFields
           /\ DOMAIN users = Users /\ DOMAIN users[Who] = UserFields
<1>1. rotJob.rot \in DOMAIN rotations /\ rotations[rotJob.rot] \in Rot
  BY Held DEF IInv, RotJobInv
<1>2. Who = rotations[rotJob.rot].user /\ Who \in Users
  BY <1>1 DEF Shape, StoreShape, CacheShape, JobShape, Who, Rot
<1> QED
  BY <1>1, <1>2, Held DEF Shape, StoreShape, CacheShape, JobShape

\* Its reconcile starts.
LEMMA RotationStartMoves ==
    ASSUME IInv, Shape, NEW r \in rotQueue, RotationController!Start(r)
    PROVE  RotationMoves /\ Delivers
<1> DEFINE me == cache.rotations[r]
           stored == rotations[r]
           user == cache.users[me.user]
           new == IF ~user.exists THEN RotationController!Failed(stored)
                  ELSE [stored EXCEPT !.phase = RotationController!Merge(me.phase, "InProgress", @)]
<1>1. /\ rotJob = Idle /\ (Overlap \/ userJob = Idle)
      /\ UNCHANGED <<users, cred, made, live, password, userJob>>
      /\ Delivers
  BY SameDelivery DEF RotationController!Start, Delivers
<1>2. r \in DOMAIN rotations /\ stored \in Rot
  BY DEF IInv, CacheTyped
<1>3. CASE UNCHANGED <<rotations, rotJob>>
  BY <1>1, <1>3 DEF RotationMoves, RotStarts, RotationsSame
<1>4. CASE ~UNCHANGED <<rotations, rotJob>>
  <2>1. /\ rotations' = [rotations EXCEPT ![r] = new]
        /\ rotJob' = IF user.exists THEN RotationController!RotationJob(r, new) ELSE Idle
        /\ RotationController!InFlight(me)
    BY <1>4 DEF RotationController!Start
  <2>2. new \in Rot /\ new.new = stored.new /\ new.user = stored.user
    BY <1>2 DEF RotationController!Failed, RotationController!Merge, Rot, Phases
  <2> HIDE DEF new
  <2>3. RotationsSame
    BY <1>2, <2>1, <2>2, WriteKeepsRotations
  <2>4. rotations'[r] = new
    BY <1>2, <2>1 DEF IInv
  <2>5. CASE user.exists
    <3>1. /\ rotJob'.pc = "client" /\ rotJob'.rot = r /\ rotJob'.me = new
          /\ rotJob'.who = cache.users[new.user]
      BY <2>1, <2>5 DEF RotationController!RotationJob
    <3>2. new.user \in Users
      BY <2>2 DEF Rot
    <3>3. me.user = stored.user
      <4>1. r \in DOMAIN cache.rotations
        BY DEF Shape, StoreShape, CacheShape, JobShape
      <4> QED
        BY <4>1 DEF Shape, StoreShape, CacheShape, JobShape
    <3> QED
      BY <1>1, <2>2, <2>3, <2>4, <2>5, <3>1, <3>2, <3>3 DEF RotationMoves, RotStarts
  <2>6. CASE ~user.exists
    BY <1>1, <2>1, <2>3, <2>6 DEF RotationMoves, RotStarts
  <2> QED
    BY <2>5, <2>6
<1> QED
  BY <1>3, <1>4

\* The steps of a rotation's reconcile.
LEMMA RotationStepMoves ==
    ASSUME IInv, Shape, RotationController!RotationStep
    PROVE  RotationMoves /\ Delivers
<1> DEFINE r == rotJob.rot
           stored == rotations[r]
           secret == rotJob.secret
           Requeues == RotationController!Requeue
<1> USE DEF RotationController!At, RotationController!Goto, RotationController!objects
<1>1. rotJob # Idle
  BY DEF RotationController!RotationStep, RotationController!executeDualAccount,
     RotationController!executeSingleAccount, RotationController!CreateSecret,
     RotationController!PersistSecretRef, RotationController!ChangePassword,
     RotationController!TryPassword, RotationController!GiveUp,
     RotationController!PromoteToSpec, RotationController!PromoteToStatus, RotationController!PromoteToBMC,
     RotationController!Succeed
<1>2. CASE Requeues
  <2>1. RotIdles
    BY <1>2 DEF RotationController!Requeue, RotIdles, RotationsSame
  <2>2. Delivers
    BY <1>1, <1>2, RotJobFields, SameDelivery DEF RotationController!Requeue, Delivers
  <2> QED
    BY <2>1, <2>2 DEF RotationMoves
<1>3. Deliver => Delivers
  BY DEF Deliver, Delivers
<1>4. RotationController!Deliver <=> Deliver
  BY SameDelivery
<1> HIDE DEF Requeues
\* A write of the rotation that ends its reconcile.
<1>5. ASSUME NEW new, new.user = stored.user, new.new = stored.new,
             \/ RotationController!PatchRotation(new, Idle)
             \/ /\ rotations' = [rotations EXCEPT ![r] = new] /\ rotJob' = Idle
                /\ UNCHANGED <<users, cred, made, live, password, userJob>>
                /\ RotationController!DeliverTo(userQueue, rotQueue \cup {r})
      PROVE  RotationMoves /\ Delivers
  <2>1. /\ rotations' = [rotations EXCEPT ![r] = new] /\ rotJob' = Idle
        /\ UNCHANGED <<users, cred, made, live, password, userJob>>
    BY <1>5 DEF RotationController!PatchRotation
  <2>2. RotIdles
    BY <1>1, <1>5, <2>1, RotJobFields, WriteKeepsRotations DEF RotIdles
  <2>3. CASE RotationController!PatchRotation(new, Idle)
    BY <1>3, <1>4, <2>2, <2>3 DEF RotationController!PatchRotation, RotationMoves
  <2>4. CASE RotationController!DeliverTo(userQueue, rotQueue \cup {r})
    <3>1. Delivers
      BY <1>1, <2>4, RotJobFields, SameDelivery DEF Delivers
    <3> QED
      BY <2>2, <3>1 DEF RotationMoves
  <2> QED
    BY <1>5, <2>3, <2>4
<1>6. ASSUME NEW s, rotJob.pc = "client", RotationController!LoginAs(s)
      PROVE  RotationMoves /\ Delivers
  <2>1. \E pc \in {"change", "make"} : rotJob' = [rotJob EXCEPT !.as = s, !.pc = pc]
    BY <1>6 DEF RotationController!LoginAs
  <2>2. RotGoesOn /\ Deliver
    BY <1>1, <1>4, <1>6, <2>1, RotJobFields
       DEF RotationController!LoginAs, RotGoesOn, RotMoves, KeepsSecret, RotationsSame
  <2> QED
    BY <1>3, <2>2 DEF RotationMoves
<1>7. CASE RotationController!executeDualAccount /\ ~Requeues
  <2>1. rotJob.pc = "client" /\ (RotationController!setFailed \/ \E s : RotationController!LoginAs(s))
    BY <1>7 DEF RotationController!executeDualAccount, Requeues
  <2>2. CASE RotationController!setFailed
    <3> DEFINE new == RotationController!Failed(stored)
    <3>1. new.user = stored.user /\ new.new = stored.new
      BY <1>1, RotJobFields DEF RotationController!Failed, Rot
    <3>2. RotationController!PatchRotation(new, Idle)
      BY <1>7, <2>2 DEF RotationController!setFailed, Requeues
    <3> QED
      BY <1>5, <3>1, <3>2
  <2> QED
    BY <1>6, <2>1, <2>2
<1>8. CASE RotationController!executeSingleAccount /\ ~Requeues
  BY <1>6, <1>8 DEF RotationController!executeSingleAccount, Requeues
<1>9. CASE RotationController!CreateSecret /\ ~Requeues
  <2>1. PICK bad \in BOOLEAN :
           RotationController!Make([account |-> Who, owner |-> Who, label |-> r, bad |-> bad])
    BY <1>9 DEF RotationController!CreateSecret, Requeues, Who
  <2> DEFINE it == [account |-> Who, owner |-> Who, label |-> r, bad |-> bad]
  <2>2. it \in MadeSecret /\ it.owner = Who /\ it.label = r
    <3>1. r \in Nat
      BY <1>1, RotJobFields DEF IInv
    <3> QED
      BY <1>1, <3>1, RotJobFields DEF MadeSecret, Accounts
  <2>3. made' = Append(made, it) /\ live' = live \cup {Len(made) + 1}
    BY <2>1 DEF RotationController!Make
  <2> HIDE DEF it
  <2>4. Makes(Who, rotJob.rot)
    BY <2>2, <2>3 DEF Makes, IInv
  <2>5. RotMakes /\ Deliver
    BY <1>1, <1>4, <1>9, <2>4, RotJobFields
       DEF RotationController!CreateSecret, RotationController!Created, Requeues, RotMakes, RotMoves
  <2> QED
    BY <1>3, <2>5 DEF RotationMoves
<1>10. CASE RotationController!PersistSecretRef /\ ~Requeues
  <2> DEFINE new == [stored EXCEPT !.new = secret]
  <2>1. /\ rotations' = [rotations EXCEPT ![r] = new]
        /\ rotJob' = [rotJob EXCEPT !.me = new, !.pc = "change"] /\ rotJob.pc = "persist"
        /\ UNCHANGED <<users, cred, made, live, password, userJob>> /\ Deliver
    BY <1>4, <1>10 DEF RotationController!PersistSecretRef, RotationController!PatchRotation, Requeues
  <2>2. new.new = secret /\ new.user = stored.user
    BY <1>1, RotJobFields DEF Rot
  <2> HIDE DEF new
  <2>3. RotMoves("persist", "change") /\ KeepsSecret
    BY <1>1, <2>1, <2>2, RotJobFields DEF RotMoves, KeepsSecret, Who
  <2>4. /\ DOMAIN rotations' = DOMAIN rotations
        /\ \A i \in DOMAIN rotations : rotations'[i] = IF i = r THEN new ELSE rotations[i]
    BY <2>1 DEF IInv
  <2>5. RotPersists
    BY <2>1, <2>2, <2>3, <2>4 DEF RotPersists
  <2> QED
    BY <1>3, <2>1, <2>5 DEF RotationMoves
<1>11. CASE RotationController!ChangePassword /\ ~Requeues
  <2>1. RotChanges /\ Deliver
    BY <1>1, <1>4, <1>11, RotJobFields
       DEF RotationController!ChangePassword, RotationController!CreateOrUpdateAccount, Requeues,
           RotChanges, RotMoves, KeepsSecret, Who
  <2> QED
    BY <1>3, <2>1 DEF RotationMoves
<1>12. CASE RotationController!TryPassword /\ ~Requeues
  <2> DEFINE counted == [stored EXCEPT !.retries = rotJob.me.retries + 1]
  <2>1. /\ counted.user = stored.user /\ counted.new = stored.new
    BY <1>1, RotJobFields DEF Rot
  <2>2. \/ /\ UNCHANGED <<users, cred, rotations, made, live, password, userJob>> /\ Deliver
           /\ rotJob' = [rotJob EXCEPT !.pc = "spec"] /\ rotJob.pc = "try"
        \/ /\ RotationController!PatchRotation(counted, [rotJob EXCEPT !.me = counted, !.pc = "fail"])
           /\ rotJob.pc = "try"
        \/ /\ rotations' = [rotations EXCEPT ![r] = counted] /\ rotJob' = Idle
           /\ UNCHANGED <<users, cred, made, live, password, userJob>>
           /\ RotationController!DeliverTo(userQueue, rotQueue \cup {r})
    BY <1>4, <1>12 DEF RotationController!TryPassword, Requeues
  <2> HIDE DEF counted
  <2>3. CASE /\ UNCHANGED <<users, cred, rotations, made, live, password, userJob>> /\ Deliver
             /\ rotJob' = [rotJob EXCEPT !.pc = "spec"] /\ rotJob.pc = "try"
    <3>1. RotGoesOn
      BY <1>1, <2>3, RotJobFields DEF RotGoesOn, RotMoves, KeepsSecret, RotationsSame
    <3> QED
      BY <1>3, <2>3, <3>1 DEF RotationMoves
  <2>4. CASE /\ RotationController!PatchRotation(counted, [rotJob EXCEPT !.me = counted, !.pc = "fail"])
             /\ rotJob.pc = "try"
    <3>1. /\ rotations' = [rotations EXCEPT ![r] = counted] /\ Deliver
          /\ rotJob' = [rotJob EXCEPT !.me = counted, !.pc = "fail"]
          /\ UNCHANGED <<users, cred, made, live, password, userJob>>
      BY <1>4, <2>4 DEF RotationController!PatchRotation
    <3>2. RotationsSame
      BY <1>1, <2>1, <3>1, RotJobFields, WriteKeepsRotations
    <3>3. RotMoves("try", "fail") /\ KeepsSecret
      BY <1>1, <2>1, <2>4, <3>1, RotJobFields DEF RotMoves, KeepsSecret, Who
    <3>4. RotGoesOn
      BY <3>1, <3>2, <3>3 DEF RotGoesOn
    <3> QED
      BY <1>3, <3>1, <3>4 DEF RotationMoves
  <2> QED
    BY <1>5, <2>1, <2>2, <2>3, <2>4
\* A failure that is recorded.
<1>18. CASE RotationController!setFailed /\ ~Requeues
  <2> DEFINE new == RotationController!Failed(stored)
  <2>1. new.user = stored.user /\ new.new = stored.new
    BY <1>1, RotJobFields DEF RotationController!Failed, Rot
  <2>2. RotationController!PatchRotation(new, Idle)
    BY <1>18 DEF RotationController!setFailed, Requeues
  <2> QED
    BY <1>5, <2>1, <2>2
<1>19. CASE RotationController!GiveUp /\ ~Requeues
  BY <1>18, <1>19 DEF RotationController!GiveUp
\* A write of the user that replaces the copy.
<1>13. ASSUME NEW new, NEW pc, DOMAIN new = UserFields, new.exists = users[Who].exists,
              new.deleting = users[Who].deleting, RotationController!PromoteUser(new, pc), ~Requeues
       PROVE  /\ WritesUser(Who, new.spec, new.eff, new.id) /\ users[Who].exists
              /\ rotJob'.rot = r /\ rotJob'.me = rotJob.me /\ rotJob'.secret = secret
              /\ rotJob'.pc = pc /\ rotJob'.who = users'[Who]
              /\ UNCHANGED <<cred, rotations, made, live, password, userJob>> /\ Deliver
  <2>1. /\ users' = [users EXCEPT ![Who] = new] /\ users[Who].exists
        /\ rotJob' = [rotJob EXCEPT !.who = new, !.pc = pc]
        /\ UNCHANGED <<cred, rotations, made, live, password, userJob>> /\ Deliver
    BY <1>4, <1>13 DEF RotationController!PromoteUser, Requeues, Who
  <2>2. WritesUser(Who, new.spec, new.eff, new.id) /\ users'[Who] = new
    BY <1>1, <1>13, <2>1, RotJobFields DEF WritesUser, Shape, StoreShape, CacheShape, JobShape
  <2> QED
    BY <1>1, <2>1, <2>2, RotJobFields
<1>14. CASE RotationController!PromoteToSpec /\ ~Requeues
  <2> DEFINE new == [users[Who] EXCEPT !.spec = Merge(rotJob.who.spec, secret, @)]
  <2>1. /\ DOMAIN new = UserFields /\ new.exists = users[Who].exists
        /\ new.deleting = users[Who].deleting /\ new.spec = Merge(rotJob.who.spec, secret, users[Who].spec)
        /\ new.eff = users[Who].eff /\ new.id = users[Who].id
    BY <1>1, RotJobFields DEF UserFields
  <2>2. RotationController!PromoteUser(new, "status") /\ rotJob.pc = "spec"
    BY <1>14 DEF RotationController!PromoteToSpec, RotationController!Merge, Merge, Who
  <2> HIDE DEF new
  <2>3. PromotesSpec /\ Deliver
    BY <1>1, <1>13, <1>14, <2>1, <2>2 DEF PromotesSpec, RotMoves
  <2> QED
    BY <1>3, <2>3 DEF RotationMoves
<1>15. CASE RotationController!PromoteToStatus /\ ~Requeues
  <2> DEFINE new == [users[Who] EXCEPT !.eff = Merge(rotJob.who.eff, secret, @), !.due = FALSE]
             pc == IF RotationController!Promotes(Who) THEN "bmc" ELSE "finish"
  <2>1. /\ DOMAIN new = UserFields /\ new.exists = users[Who].exists
        /\ new.deleting = users[Who].deleting /\ new.spec = users[Who].spec
        /\ new.eff = Merge(rotJob.who.eff, secret, users[Who].eff) /\ new.id = users[Who].id
    BY <1>1, RotJobFields DEF UserFields
  <2>2. RotationController!PromoteUser(new, pc) /\ rotJob.pc = "status"
    BY <1>15 DEF RotationController!PromoteToStatus, RotationController!Merge, Merge, Who
  <2>3. (pc = "bmc" /\ Who \in Admins) \/ pc = "finish"
    BY DEF RotationController!Promotes
  <2> HIDE DEF new, pc
  <2>4. PromotesStatus /\ Deliver
    BY <1>1, <1>13, <1>15, <2>1, <2>2, <2>3 DEF PromotesStatus, RotMoves
  <2> QED
    BY <1>3, <2>4 DEF RotationMoves
<1>16. CASE RotationController!PromoteToBMC
  <2>1. PromotesBMC /\ Deliver
    BY <1>1, <1>4, <1>16, RotJobFields
       DEF RotationController!PromoteToBMC, PromotesBMC, RotMoves, KeepsSecret
  <2> QED
    BY <1>3, <2>1 DEF RotationMoves
<1>17. CASE RotationController!Succeed /\ ~Requeues
  <2> DEFINE new == [stored EXCEPT !.phase = "Succeeded"]
  <2>1. new.user = stored.user /\ new.new = stored.new
    BY <1>1, RotJobFields DEF Rot
  <2>2. RotationController!PatchRotation(new, Idle)
    BY <1>17 DEF RotationController!Succeed, Requeues
  <2> QED
    BY <1>5, <2>1, <2>2
<1> QED
  BY <1>2, <1>7, <1>8, <1>9, <1>10, <1>11, <1>12, <1>14, <1>15, <1>16, <1>17, <1>19
     DEF RotationController!RotationStep

\* A rotation stays, with its user.
RotationsStay ==
    \A r \in DOMAIN rotations :
        r \in DOMAIN rotations' /\ rotations'[r].user = rotations[r].user

\* What the caches know of the rotations after a step.
CachedRotationsGood ==
    /\ DOMAIN cache.rotations \subseteq DOMAIN cache'.rotations
    /\ \A r \in DOMAIN cache'.rotations : cache'.rotations[r].user = rotations'[r].user
    /\ rotQueue' \subseteq DOMAIN cache'.rotations

\* The two sequences of rotations begin alike.
LEMMA CacheTrails ==
    ASSUME IInv
    PROVE  DOMAIN cache.rotations \subseteq DOMAIN rotations
BY DEF IInv, CacheTyped

\* A delivery shows rotations as they are stored, or as they were shown.
LEMMA DeliveredRotations ==
    ASSUME IInv, IInv', Shape, RotationsStay, Delivers
    PROVE  CachedRotationsGood
<1>1. PICK uq, rq : /\ rq \subseteq rotQueue \cup {r \in DOMAIN rotations : rotJob # Idle /\ r = rotJob.rot}
                    /\ DeliverTo(uq, rq)
  BY DEF Delivers
<1>2. cache'.rotations \in {cache.rotations, rotations'}
  BY <1>1, DeliveryMoves
<1>3. DOMAIN cache.rotations \subseteq DOMAIN cache'.rotations
  BY <1>2, CacheTrails DEF RotationsStay
<1>4. \A r \in DOMAIN cache'.rotations : cache'.rotations[r].user = rotations'[r].user
  BY <1>2, CacheTrails DEF RotationsStay, Shape, CacheShape
<1>5. rotQueue' \subseteq DOMAIN cache'.rotations
  <2>1. WokenRotations \subseteq DOMAIN cache'.rotations
    BY DEF WokenRotations, IInv, CacheTyped
  <2>2. rq \subseteq DOMAIN cache.rotations
    BY <1>1 DEF Shape, CacheShape, JobShape
  <2> QED
    BY <1>1, <1>3, <2>1, <2>2 DEF DeliverTo
<1> QED
  BY <1>3, <1>4, <1>5 DEF CachedRotationsGood

\* A delivery leaves the caches in shape.
LEMMA CacheStaysInShape ==
    ASSUME IInv, IInv', Shape, StoreShape', RotationsStay, CacheMoves, CachedRotationsGood
    PROVE  CacheShape'
BY DEF Shape, StoreShape, CacheShape, CacheMoves, CachedRotationsGood

\* A user is written, or not: the store stays in shape.
LEMMA StoreStaysInShape ==
    ASSUME IInv, Shape, DOMAIN users' = Users, \A u \in Users : DOMAIN users'[u] = UserFields,
           DOMAIN password' = DOMAIN password, live' \subseteq DOMAIN made',
           Len(rotations') =< MaxRotations
    PROVE  StoreShape'
BY DEF Shape, StoreShape

\* What is stored keeps its shape when a user's reconcile goes on.
LEMMA UserMovesStore ==
    ASSUME IInv, IInv', Shape, UserMoves
    PROVE  /\ StoreShape' /\ RotationsStay
<1>1. userJob # Idle => userJob.user \in Users
  BY UserJobFields
<1> USE DEF Shape, StoreShape, UserMoves, Moves, Steady
<1>2. DOMAIN users' = Users /\ \A u \in Users : DOMAIN users'[u] = UserFields
  <2>1. CASE UNCHANGED users
    BY <2>1
  <2>2. CASE \E u, spec, eff, id : WritesUser(u, spec, eff, id)
    BY <2>2 DEF WritesUser
  <2>3. CASE RemovesUser
    BY <1>1, <2>3 DEF RemovesUser
  <2> QED
    BY <2>1, <2>2, <2>3
       DEF UserIdles, LooksOnly, AdoptsSpec, SyncsBMC, LogsInUnknown, LogsInFound, MakesOwn,
           RefersToOwn, WritesAccount, RecordsAccount, FollowsSpec, PrunesOwn, Concludes,
           TouchesUser, AsksRotation, DeletesAccount
<1>3. DOMAIN password' = DOMAIN password
  BY DEF UserIdles, LooksOnly, AdoptsSpec, SyncsBMC, LogsInUnknown, LogsInFound, MakesOwn,
         RefersToOwn, WritesAccount, RecordsAccount, FollowsSpec, PrunesOwn, Concludes,
         AsksRotation, DeletesAccount, RemovesUser, SetsPassword
<1>4. live' \subseteq DOMAIN made'
  BY DEF UserIdles, LooksOnly, AdoptsSpec, SyncsBMC, LogsInUnknown, LogsInFound, MakesOwn,
         Makes, RefersToOwn, WritesAccount, RecordsAccount, FollowsSpec, PrunesOwn, Concludes,
         AsksRotation, DeletesAccount, RemovesUser
<1>5. RotationsStay /\ Len(rotations') =< MaxRotations
  <2>1. CASE UNCHANGED rotations
    BY <2>1 DEF RotationsStay
  <2>2. CASE AsksRotation
    <3>1. RotationsStay
      BY <2>2 DEF AsksRotation, RotationsStay
    <3>2. /\ DOMAIN rotations = 1..Len(rotations) /\ DOMAIN rotations' = 1..Len(rotations')
          /\ Len(rotations) \in Nat /\ Len(rotations') \in Nat
      BY DEF IInv
    <3>3. Len(rotations') \in DOMAIN rotations' \/ Len(rotations') = 0
      BY <3>2
    <3>4. Len(rotations') =< Len(rotations) + 1
      BY <2>2, <3>2, <3>3 DEF AsksRotation
    <3>5. MaxRotations \in Nat
      BY CredentialAssumption
    <3> QED
      BY <2>2, <3>1, <3>2, <3>4, <3>5 DEF AsksRotation
  <2> QED
    BY <2>1, <2>2
       DEF UserIdles, LooksOnly, AdoptsSpec, SyncsBMC, LogsInUnknown, LogsInFound, MakesOwn,
           RefersToOwn, WritesAccount, RecordsAccount, FollowsSpec, PrunesOwn, Concludes,
           DeletesAccount, RemovesUser
<1> QED
  BY <1>2, <1>3, <1>4, <1>5, StoreStaysInShape

\* So do the copies of both workers.
LEMMA UserMovesJobs ==
    ASSUME IInv, Shape, UserMoves, StoreShape', RotationsStay, CachedRotationsGood
    PROVE  JobShape'
<1>1. UNCHANGED rotJob /\ (userJob # Idle \/ userJob' = Idle)
  BY DEF UserMoves, UserIdles, LooksOnly, AdoptsSpec, SyncsBMC, LogsInUnknown, LogsInFound,
         GoesOnBy, MakesOwn, RefersToOwn, WritesAccount, RecordsAccount, FollowsSpec, PrunesOwn,
         Concludes, AsksRotation, DeletesAccount, RemovesUser, Moves, Steady
<1>2. userJob' = Idle \/ userJob'.me = userJob.me \/ userJob'.me = users'[userJob.user]
  BY DEF UserMoves, UserIdles, LooksOnly, AdoptsSpec, SyncsBMC, LogsInUnknown, LogsInFound,
         MakesOwn, RefersToOwn, WritesAccount, RecordsAccount, FollowsSpec, PrunesOwn,
         Concludes, AsksRotation, DeletesAccount, RemovesUser, KeepsCopies, Rereads
<1>3. userJob' # Idle => DOMAIN userJob'.me = UserFields
  BY <1>1, <1>2, UserJobFields DEF StoreShape
<1>4. rotJob # Idle => rotJob.rot \in DOMAIN rotations
  BY RotJobFields
<1> QED
  BY <1>1, <1>3, <1>4 DEF Shape, JobShape, RotationsStay, CachedRotationsGood

\* The rotations a step keeps.
LEMMA SameStays ==
    ASSUME IInv, IInv', RotationsSame \/ UNCHANGED rotations
    PROVE  RotationsStay /\ Len(rotations') = Len(rotations)
<1>1. RotationsStay /\ DOMAIN rotations' = DOMAIN rotations
  BY DEF RotationsSame, RotationsStay
<1>2. /\ DOMAIN rotations = 1..Len(rotations) /\ DOMAIN rotations' = 1..Len(rotations')
      /\ Len(rotations) \in Nat /\ Len(rotations') \in Nat
  BY DEF IInv
<1> QED
  BY <1>1, <1>2

\* What is stored keeps its shape when a rotation's reconcile goes on.
LEMMA RotationMovesStore ==
    ASSUME IInv, IInv', Shape, RotationMoves
    PROVE  StoreShape' /\ RotationsStay
<1>1. rotJob # Idle => Who \in Users
  BY RotJobFields
<1> USE DEF Shape, StoreShape, RotationMoves, RotMoves
<1>2. DOMAIN users' = Users /\ \A u \in Users : DOMAIN users'[u] = UserFields
  <2>1. UNCHANGED users \/ \E u, spec, eff, id : WritesUser(u, spec, eff, id)
    BY DEF RotStarts, RotIdles, RotGoesOn, RotMakes, RotPersists, RotChanges, PromotesSpec,
           PromotesStatus, PromotesBMC
  <2> QED
    BY <2>1 DEF WritesUser
<1>3. DOMAIN password' = DOMAIN password
  BY DEF RotStarts, RotIdles, RotGoesOn, RotMakes, RotPersists, RotChanges, PromotesSpec,
         PromotesStatus, PromotesBMC
<1>4. live' \subseteq DOMAIN made'
  BY DEF RotStarts, RotIdles, RotGoesOn, RotMakes, Makes, RotPersists, RotChanges, PromotesSpec,
         PromotesStatus, PromotesBMC
<1>5. RotationsStay /\ Len(rotations') =< MaxRotations
  <2>1. RotationsSame \/ UNCHANGED rotations \/ RotPersists
    BY DEF RotStarts, RotIdles, RotGoesOn, RotMakes, RotChanges, PromotesSpec,
           PromotesStatus, PromotesBMC
  <2>2. CASE RotationsSame \/ UNCHANGED rotations
    BY <2>2, SameStays
  <2>3. CASE RotPersists
    <3>1. RotationsStay /\ DOMAIN rotations' = DOMAIN rotations
      BY <2>3 DEF RotPersists, RotationsStay
    <3>2. /\ DOMAIN rotations = 1..Len(rotations) /\ DOMAIN rotations' = 1..Len(rotations')
          /\ Len(rotations) \in Nat /\ Len(rotations') \in Nat
      BY DEF IInv
    <3> QED
      BY <3>1, <3>2
  <2> QED
    BY <2>1, <2>2, <2>3
<1> QED
  BY <1>2, <1>3, <1>4, <1>5, StoreStaysInShape

\* So do the copies of both workers.
LEMMA RotationMovesJobs ==
    ASSUME IInv, Shape, RotationMoves, StoreShape', RotationsStay, CachedRotationsGood
    PROVE  JobShape'
<1>1. UNCHANGED userJob /\ (~Overlap => userJob = Idle \/ rotJob' = Idle)
  BY DEF RotationMoves, RotStarts, RotIdles, RotGoesOn, RotMakes, RotPersists, RotChanges,
         PromotesSpec, PromotesStatus, PromotesBMC, RotMoves, Shape, JobShape
<1>2. CASE rotJob' = Idle
  BY <1>1, <1>2 DEF Shape, JobShape
<1>3. CASE RotStarts /\ rotJob' # Idle
  <2>1. /\ rotJob'.rot \in DOMAIN cache.rotations
        /\ rotJob'.me.user = rotations[rotJob'.rot].user
    BY <1>3 DEF RotStarts, Shape, CacheShape
  <2>2. rotJob'.me.user = rotations'[rotJob'.rot].user /\ rotJob'.rot \in DOMAIN cache'.rotations
    BY <2>1, CacheTrails DEF RotationsStay, CachedRotationsGood
  <2>3. DOMAIN rotJob'.who = UserFields
    BY <1>3 DEF RotStarts, Shape, CacheShape
  <2> QED
    BY <1>1, <2>2, <2>3 DEF Shape, JobShape
<1>4. CASE \E pc, next : RotMoves(pc, next)
  <2>1. rotJob # Idle /\ rotJob'.rot = rotJob.rot /\ rotJob'.me.user = rotJob.me.user
    BY <1>4 DEF RotMoves
  <2>2. rotJob.rot \in DOMAIN rotations /\ Who \in Users
    BY <2>1, RotJobFields
  <2>3. rotJob'.who = rotJob.who \/ rotJob'.who = users'[Who] \/ RotStarts \/ RotIdles
    BY DEF RotationMoves, RotGoesOn, RotMakes, RotPersists, RotChanges,
           PromotesSpec, PromotesStatus, PromotesBMC, KeepsSecret
  <2>4. CASE rotJob'.who = rotJob.who \/ rotJob'.who = users'[Who]
    <3>1. DOMAIN rotJob'.who = UserFields
      BY <2>1, <2>2, <2>4 DEF Shape, JobShape, StoreShape
    <3>2. /\ rotJob'.rot \in DOMAIN cache'.rotations
          /\ rotJob'.me.user = rotations'[rotJob'.rot].user
      BY <2>1, <2>2 DEF Shape, JobShape, RotationsStay, CachedRotationsGood
    <3> QED
      BY <1>1, <3>1, <3>2 DEF Shape, JobShape
  <2> QED
    BY <1>2, <1>3, <2>3, <2>4 DEF RotIdles
<1> QED
  BY <1>2, <1>3, <1>4
     DEF RotationMoves, RotIdles, RotGoesOn, RotMakes, RotPersists, RotChanges,
         PromotesSpec, PromotesStatus, PromotesBMC

\* A user's reconcile starts.
LEMMA UserStartMoves ==
    ASSUME IInv, Shape, NEW u \in Users, UserController!Start(u)
    PROVE  UserStarts(u) /\ Delivers
<1>1. /\ userJob = Idle /\ (Overlap \/ rotJob = Idle)
      /\ UNCHANGED <<users, cred, rotations, made, live, password, rotJob>>
      /\ userJob' = IF cache.users[u].exists
                    THEN UserController!UserJob(IF cache.users[u].deleting THEN "delete" ELSE "test", u)
                    ELSE Idle
      /\ DeliverTo(userQueue \ {u}, rotQueue)
  BY SameDelivery DEF UserController!Start, UserController!objects
<1>2. UserStarts(u)
  BY <1>1 DEF UserStarts, UserController!UserJob
<1> QED
  BY <1>1, <1>2 DEF Delivers

\* A person's write of u.
LEMMA PersonWrites ==
    ASSUME Shape, NEW u \in Users, NEW new, DOMAIN new = UserFields,
           users' = [users EXCEPT ![u] = new],
           new.exists = users[u].exists, new.deleting = users[u].deleting
    PROVE  WritesUser(u, new.spec, new.eff, new.id)
BY DEF Shape, StoreShape, WritesUser

\* Persons and the garbage collector.
LEMMA PersonMovesStep ==
    ASSUME IInv, Shape, NEW u \in Users,
           Annotate(u) \/ Repoint(u) \/ RequestDeletion(u) \/ CollectGarbage(u)
    PROVE  PersonMoves(u) /\ Delivers
<1>1. Deliver => Delivers
  BY DEF Deliver, Delivers
<1>2. DOMAIN users = Users /\ DOMAIN users[u] = UserFields
  BY DEF Shape, StoreShape
<1>3. CASE Annotate(u)
  <2> DEFINE new == [users[u] EXCEPT !.annotated = TRUE]
  <2>1. /\ users' = [users EXCEPT ![u] = new] /\ Bystanders
        /\ UNCHANGED <<rotations, made, live>> /\ Deliver
    BY <1>3 DEF Annotate, ByPerson, Bystanders
  <2>2. /\ DOMAIN new = UserFields /\ new.exists = users[u].exists
        /\ new.deleting = users[u].deleting /\ new.spec = users[u].spec
        /\ new.eff = users[u].eff /\ new.id = users[u].id
    BY <1>2 DEF UserFields
  <2> HIDE DEF new
  <2>3. AnnotatesUser(u)
    BY <2>1, <2>2, PersonWrites DEF AnnotatesUser, TouchesUser
  <2> QED
    BY <1>1, <2>1, <2>3 DEF PersonMoves
<1>4. CASE Repoint(u)
  <2> DEFINE new == [users[u] EXCEPT !.spec = Len(made) + 1]
             secret == [account |-> u, owner |-> None, label |-> 0, bad |-> FALSE]
  <2>1. /\ users' = [users EXCEPT ![u] = new] /\ Bystanders /\ UNCHANGED rotations
        /\ made' = Append(made, secret) /\ live' = live \cup {Len(made) + 1}
        /\ u \in Repointable /\ users[u].eff # None /\ Deliver
    BY <1>4 DEF Repoint, ByPerson, Bystanders, Make
  <2>2. /\ DOMAIN new = UserFields /\ new.exists = users[u].exists
        /\ new.deleting = users[u].deleting /\ new.spec = Len(made) + 1
        /\ new.eff = users[u].eff /\ new.id = users[u].id
    BY <1>2 DEF UserFields
  <2>3. secret \in MadeSecret /\ secret.owner = None /\ secret.label = 0
    BY DEF MadeSecret, Accounts
  <2> HIDE DEF new, secret
  <2>4. Makes(None, 0)
    BY <2>1, <2>3 DEF Makes, IInv
  <2>5. RepointsUser(u)
    BY <2>1, <2>2, <2>4, PersonWrites DEF RepointsUser
  <2> QED
    BY <1>1, <2>1, <2>5 DEF PersonMoves
<1>5. CASE RequestDeletion(u)
  <2>1. DeletesUser(u) /\ Deliver
    BY <1>5 DEF RequestDeletion, ByPerson, DeletesUser, Bystanders
  <2> QED
    BY <1>1, <2>1 DEF PersonMoves
<1>6. CASE CollectGarbage(u)
  <2> DEFINE owned == {s \in live : made[s].owner = u}
             its == {r \in DOMAIN rotations : rotations[r].user = u /\ rotations[r].phase # "Gone"}
  <2>1. /\ ~users[u].exists /\ live' = live \ owned
        /\ rotations' = [r \in DOMAIN rotations |->
                            IF r \in its THEN [rotations[r] EXCEPT !.phase = "Gone"] ELSE rotations[r]]
        /\ UNCHANGED <<users, made>> /\ Bystanders /\ Deliver
    BY <1>6 DEF CollectGarbage, Bystanders
  <2>2. \A r \in DOMAIN rotations : rotations[r] \in Rot
    BY DEF IInv
  <2>3. RotationsSame
    BY <2>1, <2>2 DEF RotationsSame, Rot
  <2>4. CollectsOwn(u)
    BY <2>1, <2>3 DEF CollectsOwn
  <2> QED
    BY <1>1, <2>1, <2>4 DEF PersonMoves
<1> QED
  BY <1>3, <1>4, <1>5, <1>6

\* The period of a user elapses.
LEMMA AgeMoves ==
    ASSUME IInv, Shape, NEW u \in Users, Age(u)
    PROVE  AgesUser(u) /\ UNCHANGED rotQueue
<1> DEFINE new == [users[u] EXCEPT !.due = TRUE]
           shown == [cache.users[u] EXCEPT !.due = TRUE]
<1>1. /\ users' = [users EXCEPT ![u] = new] /\ Bystanders
      /\ cache' = [cache EXCEPT !.users = [cache.users EXCEPT ![u] = shown]]
      /\ UNCHANGED <<rotations, made, live, rotQueue>>
  BY DEF Age, Bystanders
<1>2. /\ DOMAIN users = Users /\ DOMAIN users[u] = UserFields
      /\ DOMAIN cache.users = Users /\ DOMAIN cache.users[u] = UserFields
      /\ \A v \in Users : DOMAIN cache.users[v] = UserFields
  BY DEF Shape, StoreShape, CacheShape
<1>3. /\ DOMAIN new = UserFields /\ new.exists = users[u].exists
      /\ new.deleting = users[u].deleting /\ new.spec = users[u].spec
      /\ new.eff = users[u].eff /\ new.id = users[u].id
  BY <1>2 DEF UserFields
<1>4. LET m == cache.users[u] IN
      /\ DOMAIN shown = UserFields /\ shown.exists = m.exists
      /\ shown.deleting = m.deleting /\ shown.spec = m.spec
      /\ shown.eff = m.eff /\ shown.id = m.id
  BY <1>2 DEF UserFields
<1>5. "users" \notin Lagging => cache.users = users /\ shown = new
  BY DEF Shape, CacheShape
<1> HIDE DEF new, shown
<1>6. cache'.users = [cache.users EXCEPT ![u] = shown]
      /\ cache'.bmc = cache.bmc /\ cache'.rotations = cache.rotations
  BY <1>1 DEF IInv, CacheTyped, Kinds
<1>7. "users" \notin Lagging => cache'.users = users'
  BY <1>1, <1>5, <1>6
<1>8. TouchesUser(u)
  BY <1>1, <1>3, PersonWrites DEF TouchesUser
<1> QED
  BY <1>1, <1>2, <1>4, <1>6, <1>7, <1>8 DEF AgesUser

\* The delay after a failure, a watch event, a failed call and a restart.
LEMMA CacheOnlyMoves ==
    ASSUME IInv, IInv', Shape,
           \/ \E r \in DOMAIN rotations : CoolDown(r)
           \/ \E k \in Lagging : Refresh(k)
           \/ Failures
           \/ UNCHANGED vars
    PROVE  OnlyCaches /\ CacheMoves /\ CachedRotationsGood
<1>0. DOMAIN cache = Kinds
  BY DEF IInv, CacheTyped
<1>1. ASSUME NEW r \in DOMAIN rotations, CoolDown(r)
      PROVE  OnlyCaches /\ CacheMoves /\ CachedRotationsGood
  <2> DEFINE new == [rotations[r] EXCEPT !.recent = FALSE]
             cooled == [i \in DOMAIN cache.rotations |->
                          IF i = r THEN [cache.rotations[i] EXCEPT !.recent = FALSE]
                          ELSE cache.rotations[i]]
  <2>1. /\ rotations' = [rotations EXCEPT ![r] = new]
        /\ cache' = [cache EXCEPT !.rotations = cooled]
        /\ UNCHANGED <<users, cred, made, live, password, rotQueue, userJob, rotJob>>
    BY <1>1 DEF CoolDown
  <2>2. /\ \A i \in DOMAIN rotations : rotations[i] \in Rot
        /\ \A i \in DOMAIN cache.rotations : cache.rotations[i] \in Rot
    BY DEF IInv, CacheTyped
  <2>3. new.user = rotations[r].user /\ new.new = rotations[r].new
    BY <2>2 DEF Rot
  <2>4. \A i \in DOMAIN cooled : cooled[i].user = cache.rotations[i].user
    BY <2>2 DEF Rot
  <2>5. DOMAIN cooled = DOMAIN cache.rotations
    OBVIOUS
  <2> HIDE DEF new, cooled
  <2>6. RotationsSame
    BY <2>1, <2>3, WriteKeepsRotations
  <2>7. /\ cache'.users = cache.users /\ cache'.bmc = cache.bmc /\ cache'.rotations = cooled
    BY <1>0, <2>1 DEF Kinds
  <2>8. OnlyCaches /\ CacheMoves
    BY <2>1, <2>6, <2>7 DEF OnlyCaches, CacheMoves, Shape, CacheShape
  <2>9. CachedRotationsGood
    BY <2>1, <2>4, <2>5, <2>6, <2>7, CacheTrails
       DEF CachedRotationsGood, RotationsSame, Shape, CacheShape
  <2> QED
    BY <2>8, <2>9
<1>2. ASSUME NEW k \in Lagging, Refresh(k)
      PROVE  OnlyCaches /\ CacheMoves /\ CachedRotationsGood
  <2>1. /\ cache' = [cache EXCEPT ![k] = Store[k]] /\ rotQueue' = rotQueue \cup WokenRotations
        /\ UNCHANGED <<users, cred, rotations, made, live, password, userJob, rotJob>>
    BY <1>2 DEF Refresh, objects
  <2>2. k \in Kinds
    BY CredentialAssumption DEF Kinds
  <2>3. /\ cache'.users = IF k = "users" THEN users ELSE cache.users
        /\ cache'.bmc = IF k = "bmc" THEN cred ELSE cache.bmc
        /\ cache'.rotations = IF k = "rotations" THEN rotations ELSE cache.rotations
    BY <1>0, <2>1, <2>2 DEF Kinds, Store
  <2>4. OnlyCaches /\ CacheMoves
    BY <1>2, <2>1, <2>3 DEF OnlyCaches, CacheMoves, RotationsSame, Shape, CacheShape
  <2>5. WokenRotations \subseteq DOMAIN cache'.rotations
    BY DEF WokenRotations, IInv, CacheTyped
  <2>6. CachedRotationsGood
    BY <2>1, <2>3, <2>5, CacheTrails DEF CachedRotationsGood, Shape, CacheShape
  <2> QED
    BY <2>4, <2>6
<1>3. CASE UserController!FailUser \/ RotationController!FailRotation
  <2>1. /\ userJob' \in {Idle, userJob} /\ rotJob' \in {Idle, rotJob}
        /\ UNCHANGED <<users, cred, rotations, made, live, password>>
    BY <1>3 DEF UserController!FailUser, RotationController!FailRotation,
                UserController!objects, RotationController!objects
  <2>2. Delivers
    <3>1. \/ DeliverTo(userQueue \cup {userJob.user}, rotQueue)
          \/ rotJob # Idle /\ DeliverTo(userQueue, rotQueue \cup {rotJob.rot})
      BY <1>3, SameDelivery DEF UserController!FailUser, RotationController!FailRotation
    <3>2. rotJob # Idle => rotJob.rot \in DOMAIN rotations
      BY RotJobFields
    <3> QED
      BY <3>1, <3>2 DEF Delivers
  <2>3. RotationsStay
    BY <2>1 DEF RotationsStay
  <2>4. CacheMoves
    BY <2>2, DeliveryMoves DEF Delivers
  <2> QED
    BY <2>1, <2>2, <2>3, <2>4, DeliveredRotations DEF OnlyCaches, RotationsSame
<1>4. CASE Restart
  <2>1. /\ userJob' = Idle /\ rotJob' = Idle /\ cache' = Store /\ rotQueue' = DOMAIN rotations
        /\ UNCHANGED <<users, cred, rotations, made, live, password>>
    BY <1>4 DEF Restart, objects
  <2>2. cache'.users = users /\ cache'.bmc = cred /\ cache'.rotations = rotations
    BY <2>1 DEF Store
  <2> QED
    BY <2>1, <2>2, CacheTrails DEF OnlyCaches, CacheMoves, RotationsSame, CachedRotationsGood
<1>5. CASE UNCHANGED vars
  BY <1>5 DEF vars, OnlyCaches, CacheMoves, RotationsSame, CachedRotationsGood, Shape, CacheShape
<1> QED
  BY <1>1, <1>2, <1>3, <1>4, <1>5 DEF Failures

-----------------------------------------------------------------------------
(* Every step, and the shape of the state                                  *)

AllMoves ==
    \/ /\ CacheMoves
       /\ UserMoves \/ RotationMoves \/ (\E u \in Users : PersonMoves(u)) \/ OnlyCaches
    \/ \E u \in Users : AgesUser(u)

\* Persons and the caches leave the jobs' copies.
LEMMA OtherMovesShape ==
    ASSUME IInv, IInv', Shape, CachedRotationsGood,
           \/ CacheMoves /\ ((\E u \in Users : PersonMoves(u)) \/ OnlyCaches)
           \/ \E u \in Users : AgesUser(u)
    PROVE  Shape' /\ RotationsStay
<1>1. /\ DOMAIN users' = Users /\ \A u \in Users : DOMAIN users'[u] = UserFields
  BY DEF PersonMoves, UserStarts, RepointsUser, AnnotatesUser, DeletesUser, CollectsOwn,
         OnlyCaches, AgesUser, TouchesUser, WritesUser, Shape, StoreShape
<1>2. UNCHANGED password /\ live' \subseteq DOMAIN made' /\ (RotationsSame \/ UNCHANGED rotations)
  BY DEF PersonMoves, UserStarts, RepointsUser, Makes, AnnotatesUser, DeletesUser, CollectsOwn,
         OnlyCaches, AgesUser, Bystanders, Shape, StoreShape
<1>3. RotationsStay /\ Len(rotations') = Len(rotations)
  BY <1>2, SameStays
<1>4. StoreShape'
  BY <1>1, <1>2, <1>3, StoreStaysInShape DEF Shape, StoreShape
<1>5. CacheShape'
  <2>1. CASE CacheMoves
    BY <1>3, <1>4, <2>1, CacheStaysInShape
  <2>2. CASE \E u \in Users : AgesUser(u)
    BY <2>2 DEF AgesUser, Bystanders, Shape, CacheShape, CachedRotationsGood
  <2> QED
    BY <2>1, <2>2
<1>6. /\ rotJob' \in {Idle, rotJob}
      /\ \/ userJob' \in {Idle, userJob}
         \/ /\ userJob = Idle /\ (Overlap \/ rotJob = Idle) /\ UNCHANGED rotJob
            /\ \E u \in Users : userJob'.me = cache.users[u]
  BY DEF PersonMoves, UserStarts, RepointsUser, AnnotatesUser, DeletesUser, CollectsOwn,
         OnlyCaches, AgesUser, Bystanders
<1>7. rotJob # Idle => rotJob.rot \in DOMAIN rotations
  BY RotJobFields
<1>8. JobShape'
  BY <1>3, <1>6, <1>7 DEF Shape, CacheShape, JobShape, RotationsStay, CachedRotationsGood
<1> QED
  BY <1>3, <1>4, <1>5, <1>8 DEF Shape

\* What a step comes to, and that it keeps the shape.
LEMMA EveryStep ==
    ASSUME IInv, Shape, [Next]_vars
    PROVE  IInv' /\ Shape' /\ SecretsStay /\ RotationsStay /\ AllMoves
<1>1. IInv' /\ SecretsStay
  BY Step
<1>2. Delivers => CacheMoves
  BY DeliveryMoves DEF Delivers
<1>3. CASE UserMoves /\ Delivers
  <2>1. StoreShape' /\ RotationsStay
    BY <1>1, <1>3, UserMovesStore
  <2>2. CachedRotationsGood
    BY <1>1, <1>3, <2>1, DeliveredRotations
  <2>3. CacheShape' /\ JobShape'
    BY <1>1, <1>2, <1>3, <2>1, <2>2, CacheStaysInShape, UserMovesJobs
  <2> QED
    BY <1>1, <1>2, <1>3, <2>1, <2>3 DEF Shape, AllMoves
<1>4. CASE RotationMoves /\ Delivers
  <2>1. StoreShape' /\ RotationsStay
    BY <1>1, <1>4, RotationMovesStore
  <2>2. CachedRotationsGood
    BY <1>1, <1>4, <2>1, DeliveredRotations
  <2>3. CacheShape' /\ JobShape'
    BY <1>1, <1>2, <1>4, <2>1, <2>2, CacheStaysInShape, RotationMovesJobs
  <2> QED
    BY <1>1, <1>2, <1>4, <2>1, <2>3 DEF Shape, AllMoves
<1>5. ASSUME NEW u \in Users, PersonMoves(u), Delivers
      PROVE  Shape' /\ RotationsStay /\ AllMoves
  <2>1. RotationsSame \/ UNCHANGED rotations
    BY <1>5 DEF PersonMoves, UserStarts, RepointsUser, AnnotatesUser, DeletesUser, CollectsOwn
  <2>2. CachedRotationsGood
    BY <1>1, <1>5, <2>1, SameStays, DeliveredRotations
  <2> QED
    BY <1>1, <1>2, <1>5, <2>2, OtherMovesShape DEF AllMoves
<1>6. CASE OnlyCaches /\ CacheMoves /\ CachedRotationsGood
  BY <1>1, <1>6, OtherMovesShape DEF AllMoves
<1>7. ASSUME NEW u \in Users, Age(u)
      PROVE  Shape' /\ RotationsStay /\ AllMoves
  <2>1. AgesUser(u) /\ UNCHANGED rotQueue
    BY <1>7, AgeMoves
  <2>2. CachedRotationsGood
    BY <2>1 DEF AgesUser, CachedRotationsGood, Shape, CacheShape
  <2> QED
    BY <1>1, <2>1, <2>2, OtherMovesShape DEF AllMoves
<1>8. ASSUME NEW u \in Users,
             Annotate(u) \/ Repoint(u) \/ RequestDeletion(u) \/ CollectGarbage(u)
      PROVE  Shape' /\ RotationsStay /\ AllMoves
  BY <1>5, <1>8, PersonMovesStep
<1>9. ASSUME NEW u \in Users, UserController!Start(u)
      PROVE  Shape' /\ RotationsStay /\ AllMoves
  BY <1>5, <1>9, UserStartMoves DEF PersonMoves
<1> QED
  BY <1>1, <1>3, <1>4, <1>6, <1>7, <1>8, <1>9, UserStepMoves, RotationStepMoves,
     RotationStartMoves, CacheOnlyMoves DEF Next, Environment

\* Every user at first, with its account made or not.
LEMMA UsersAtFirst ==
    ASSUME Init
    PROVE  /\ DOMAIN users = Users
           /\ \A u \in Users :
                 /\ DOMAIN users[u] = UserFields /\ users[u].exists /\ ~users[u].deleting
                 /\ users[u].spec = users[u].eff
                 /\ Bootstrapped => users[u].spec \in Nat /\ users[u].id
                 /\ ~Bootstrapped => users[u].spec = None
<1>1. CASE ~Bootstrapped
  BY <1>1 DEF Init, InitFresh, NewUser, UserFields
<1>2. CASE Bootstrapped
  <2>1. PICK own \in [Users -> 2..(Cardinality(Users) + 1)] :
          users = [u \in Users |-> [NewUser EXCEPT
                       !.id = TRUE, !.spec = own[u], !.eff = own[u], !.observed = own[u]]]
    BY <1>2 DEF Init, InitBootstrapped
  <2>2. Cardinality(Users) \in Nat
    BY CredentialAssumption, FS_CardinalityType
  <2>3. \A u \in Users : own[u] \in Nat
    BY <2>2
  <2> QED
    BY <1>2, <2>1, <2>3 DEF NewUser, UserFields
<1> QED
  BY <1>1, <1>2, CredentialAssumption

\* The shape of the first state.
LEMMA ShapeAtFirst ==
    ASSUME Init
    PROVE  Shape
<1>1. /\ rotations = << >> /\ cache = Store /\ rotQueue = {} /\ userJob = Idle /\ rotJob = Idle
  BY DEF Init
<1>2. DOMAIN password = Accounts /\ live \subseteq DOMAIN made
  <2>1. CASE InitFresh
    <3>1. DOMAIN <<FactorySecret>> = {1}
      OBVIOUS
    <3> QED
      BY <2>1, <3>1 DEF InitFresh, Factory
  <2> QED
    BY <2>1 DEF Init, InitBootstrapped
<1>3. Len(rotations) =< MaxRotations
  BY <1>1, CredentialAssumption
<1>4. StoreShape
  BY <1>2, <1>3, UsersAtFirst DEF StoreShape
<1>5. CacheShape
  BY <1>1, UsersAtFirst DEF CacheShape, Store
<1> QED
  BY <1>1, <1>4, <1>5 DEF Shape, JobShape

\* The caches, the workers' copies and the store keep their shape.
LEMMA AlwaysInShape == Spec => [](IInv /\ Shape)
<1>1. Init => IInv /\ Shape
  BY Initially, ShapeAtFirst
<1>2. IInv /\ Shape /\ [Next]_vars => (IInv /\ Shape)'
  BY EveryStep
<1> QED
  BY <1>1, <1>2, PTL DEF Spec

-----------------------------------------------------------------------------
(* A password that is set is one that something refers to                  *)

HasRotation(u, rots) == \E r \in DOMAIN rots : rots[r].user = u
Promoted(s, rots) == s # None /\ \E r \in DOMAIN rots : rots[r].new = s

\* A user that is stored: no rotation is made before it has an account, and its
\* spec leaves its effective secret behind for the secret of a rotation only.
UserGood(u, it, rots) ==
    /\ it.spec = None => it.eff = None
    /\ it.eff # None => it.spec = it.eff \/ Promoted(it.spec, rots)
    /\ HasRotation(u, rots) => it.spec # None /\ it.id
    /\ Bootstrapped => it.spec # None /\ it.id

\* A copy of user u, whose stored object is it: only rotations have moved on.
CopyOf(m, u, it, rots) ==
    /\ m.spec = it.spec \/ (HasRotation(u, rots) /\ Promoted(it.spec, rots))
    /\ m.spec = None => it.spec = None
    /\ m.eff # None => m.spec = m.eff \/ Promoted(m.spec, rots)
    /\ m.id <=> it.id

\* What a user's reconcile has found out by its copy of the user.
FoundOut ==
    LET me == userJob.me IN
    /\ userJob.pc \in {"secret", "ref"} => me.spec = None
    /\ userJob.pc = "ref" => userJob.secret # None
    /\ userJob.pc \in {"adopt", "account", "record", "follow", "prune", "conditions",
                       "trigger", "create"} => me.spec # None
    /\ userJob.pc = "account" => ~me.id
    /\ userJob.pc \in {"follow", "prune", "conditions", "trigger", "create"} => me.id

\* What the rotation's reconcile has brought about.
BroughtAbout ==
    LET it == users[Who] IN
    /\ it.spec = rotJob.who.spec \/ Promoted(it.spec, rotations)
    /\ rotJob.pc \in {"try", "spec", "status", "bmc", "finish"} => rotJob.secret # None
    /\ rotJob.pc \in {"status", "bmc", "finish"} => Promoted(it.spec, rotations)

\* Under which it is one: persons leave the spec, and what is known of a user
\* that has no account yet is current.
FollowsControllers == Repointable = {} /\ (Bootstrapped \/ "users" \notin Lagging)

\* What has been promoted stays so, and a rotation stays one of its user.
LEMMA RotationsGrow ==
    ASSUME SecretsStay, RotationsStay
    PROVE  /\ \A s : Promoted(s, rotations) => Promoted(s, rotations')
           /\ \A u : HasRotation(u, rotations) => HasRotation(u, rotations')
BY DEF SecretsStay, RotationsStay, Promoted, HasRotation

\* A copy stays one while the user's references and account stay.
LEMMA CopyStays ==
    ASSUME SecretsStay, RotationsStay, NEW u \in Users, NEW m, NEW it, NEW new,
           CopyOf(m, u, it, rotations), new.spec = it.spec, new.id <=> it.id
    PROVE  CopyOf(m, u, new, rotations')
BY RotationsGrow DEF CopyOf

\* It stays one when a rotation promotes its secret.
LEMMA CopyLeftBehind ==
    ASSUME SecretsStay, RotationsStay, NEW u \in Users, NEW m, NEW it, NEW new,
           CopyOf(m, u, it, rotations), new.id <=> it.id,
           HasRotation(u, rotations), it.spec # None, Promoted(new.spec, rotations')
    PROVE  CopyOf(m, u, new, rotations')
BY RotationsGrow DEF CopyOf

\* What is stored is a copy of itself.
LEMMA StoredIsCopy ==
    ASSUME NEW u \in Users, NEW it, NEW rots, UserGood(u, it, rots)
    PROVE  CopyOf(it, u, it, rots)
BY DEF UserGood, CopyOf

\* A step that leaves rotations' users alone.
NoNewRotations == \A u \in Users : HasRotation(u, rotations') => HasRotation(u, rotations)

\* Where rotations keep their users, no user gets one.
LEMMA RotationsOfSame ==
    ASSUME RotationsSame \/ UNCHANGED rotations \/ RotPersists
    PROVE  NoNewRotations
BY DEF NoNewRotations, HasRotation, RotationsSame, RotPersists

\* The references of a user stay, or its spec is moved on by a rotation.
Ahead(u) ==
    /\ users'[u].id <=> users[u].id
    /\ \/ users'[u].spec = users[u].spec
       \/ HasRotation(u, rotations) /\ Promoted(users'[u].spec, rotations')
\* Its own reconcile makes its account.
MakesAccount(u) ==
    /\ ~Bootstrapped
    /\ users'[u].spec = users[u].spec \/ ~HasRotation(u, rotations)

\* A copy stays one when only a rotation moves the user on.
LEMMA CopyMovesOn ==
    ASSUME SecretsStay, RotationsStay, NEW u \in Users, NEW m,
           UserGood(u, users[u], rotations), CopyOf(m, u, users[u], rotations), Ahead(u)
    PROVE  CopyOf(m, u, users'[u], rotations')
<1>1. CASE users'[u].spec = users[u].spec
  BY <1>1, CopyStays DEF Ahead
<1>2. CASE HasRotation(u, rotations) /\ Promoted(users'[u].spec, rotations')
  <2>1. users[u].spec # None
    BY <1>2 DEF UserGood
  <2> QED
    BY <1>2, <2>1, CopyLeftBehind DEF Ahead
<1> QED
  BY <1>1, <1>2 DEF Ahead

\* The parts of the invariant, after a step.
UsersGood == \A u \in Users : UserGood(u, users[u], rotations)
CachesGood == \A u \in Users : CopyOf(cache.users[u], u, users[u], rotations)
JobGood ==
    userJob # Idle => /\ CopyOf(userJob.me, userJob.user, users[userJob.user], rotations)
                      /\ FoundOut
RotationGood == rotJob # Idle => BroughtAbout

\* The caches show what is stored or trail it.
LEMMA CachesStayGood ==
    ASSUME FollowsControllers, SecretsStay, RotationsStay, CacheMoves, UsersGood, CachesGood,
           UsersGood', \A u \in Users : Ahead(u) \/ MakesAccount(u)
    PROVE  CachesGood'
<1> SUFFICES ASSUME NEW u \in Users
             PROVE  CopyOf(cache'.users[u], u, users'[u], rotations')
  BY DEF CachesGood
<1>1. CASE cache'.users = users'
  BY <1>1, StoredIsCopy DEF UsersGood
<1>2. CASE cache'.users # users'
  <2>1. cache'.users = cache.users /\ Ahead(u)
    BY <1>2 DEF CacheMoves, FollowsControllers, MakesAccount
  <2> QED
    BY <2>1, CopyMovesOn DEF UsersGood, CachesGood
<1> QED
  BY <1>1, <1>2

\* The user's worker has nothing to do with the step.
LEMMA JobStaysGood ==
    ASSUME IInv, Shape, SecretsStay, RotationsStay, UNCHANGED userJob, UsersGood, JobGood,
           \A u \in Users : Ahead(u)
    PROVE  JobGood'
<1> SUFFICES ASSUME userJob # Idle
             PROVE  /\ CopyOf(userJob.me, userJob.user, users'[userJob.user], rotations')
                    /\ FoundOut'
  BY DEF JobGood
<1>1. userJob.user \in Users
  BY UserJobFields
<1>2. CopyOf(userJob.me, userJob.user, users'[userJob.user], rotations')
  BY <1>1, CopyMovesOn DEF UsersGood, JobGood
<1> QED
  BY <1>2 DEF JobGood, FoundOut

\* Nor has the rotation's.
LEMMA RotationStaysGood ==
    ASSUME IInv, Shape, SecretsStay, RotationsStay, UNCHANGED rotJob, UsersGood, RotationGood,
           \A u \in Users : Ahead(u) \/ MakesAccount(u)
    PROVE  RotationGood'
<1> SUFFICES ASSUME rotJob # Idle PROVE BroughtAbout'
  BY DEF RotationGood
<1>1. Who \in Users /\ HasRotation(Who, rotations)
  BY RotJobFields DEF HasRotation
<1>2. users'[Who].spec = users[Who].spec \/ Promoted(users'[Who].spec, rotations')
  BY <1>1 DEF Ahead, MakesAccount
<1>3. Who' = Who
  BY DEF Who
<1> QED
  BY <1>1, <1>2, <1>3, RotationsGrow DEF RotationGood, BroughtAbout

\* No reference changes, and no rotation is made.
LEMMA KeptUsersGood ==
    ASSUME SecretsStay, RotationsStay, UsersGood, NoNewRotations,
           NEW w \in Users, \A u \in Users \ {w} : users'[u] = users[u],
           users'[w].spec = users[w].spec, users'[w].eff = users[w].eff, users'[w].id <=> users[w].id
    PROVE  UsersGood' /\ \A u \in Users : Ahead(u)
<1>1. ASSUME NEW u \in Users
      PROVE  /\ users'[u].spec = users[u].spec /\ users'[u].eff = users[u].eff
             /\ users'[u].id <=> users[u].id
  BY <1>1
<1>2. ASSUME NEW u \in Users
      PROVE  UserGood(u, users'[u], rotations')
  <2>1. /\ users'[u].spec = users[u].spec /\ users'[u].eff = users[u].eff
        /\ users'[u].id <=> users[u].id
    BY <1>1
  <2> QED
    BY <2>1, RotationsGrow DEF UsersGood, UserGood, NoNewRotations
<1> QED
  BY <1>1, <1>2 DEF UsersGood, Ahead

\* Nothing about the users changes.
LEMMA UnchangedUsersGood ==
    ASSUME SecretsStay, RotationsStay, UsersGood, NoNewRotations, UNCHANGED users
    PROVE  UsersGood' /\ \A u \in Users : Ahead(u)
BY RotationsGrow DEF UsersGood, UserGood, NoNewRotations, Ahead

\* One user is written.
LEMMA WrittenUserGood ==
    ASSUME SecretsStay, RotationsStay, UsersGood, NoNewRotations,
           NEW w \in Users, NEW spec, NEW eff, NEW id, WritesUser(w, spec, eff, id),
           UserGood(w, users'[w], rotations')
    PROVE  UsersGood'
<1>1. ASSUME NEW u \in Users \ {w}
      PROVE  UserGood(u, users'[u], rotations')
  <2>1. users'[u] = users[u]
    BY DEF WritesUser
  <2> QED
    BY <2>1, RotationsGrow DEF UsersGood, UserGood, NoNewRotations
<1> QED
  BY <1>1 DEF UsersGood

PersistInv == UsersGood /\ CachesGood /\ JobGood /\ RotationGood

\* A user's reconcile does not move its references; nor those of others.
LEMMA QuietUserMoves ==
    ASSUME FollowsControllers, IInv, Shape, PersistInv, SecretsStay, RotationsStay, CacheMoves,
           UNCHANGED <<users, rotations, rotJob>>,
           \/ userJob' = Idle
           \/ userJob # Idle /\ userJob'.me = userJob.me /\ userJob'.user = userJob.user /\ FoundOut'
    PROVE  PersistInv'
<1>1. UsersGood' /\ \A u \in Users : Ahead(u)
  BY RotationsOfSame, UnchangedUsersGood DEF PersistInv
<1>2. CachesGood' /\ RotationGood'
  BY <1>1, CachesStayGood, RotationStaysGood DEF PersistInv
<1>3. JobGood'
  <2>1. CASE userJob' = Idle
    BY <2>1 DEF JobGood
  <2>2. CASE userJob # Idle /\ userJob'.me = userJob.me /\ userJob'.user = userJob.user /\ FoundOut'
    BY <2>2 DEF PersistInv, JobGood
  <2> QED
    BY <2>1, <2>2
<1> QED
  BY <1>1, <1>2, <1>3 DEF PersistInv

\* It writes its user and goes on with what the API server answers.
LEMMA WritingUserMoves ==
    ASSUME FollowsControllers, IInv, Shape, PersistInv, SecretsStay, RotationsStay, CacheMoves,
           UNCHANGED <<rotations, rotJob>>, userJob # Idle,
           NEW spec, NEW eff, NEW id, WritesUser(userJob.user, spec, eff, id),
           UserGood(userJob.user, users'[userJob.user], rotations'),
           Ahead(userJob.user) \/ MakesAccount(userJob.user),
           userJob'.me = users'[userJob.user], userJob'.user = userJob.user, FoundOut'
    PROVE  PersistInv'
<1> DEFINE w == userJob.user
<1>1. w \in Users
  BY UserJobFields
<1>2. UsersGood'
  BY <1>1, RotationsOfSame, WrittenUserGood DEF PersistInv
<1>3. \A u \in Users : Ahead(u) \/ MakesAccount(u)
  BY <1>1 DEF WritesUser, Ahead
<1>4. CachesGood' /\ RotationGood'
  BY <1>2, <1>3, CachesStayGood, RotationStaysGood DEF PersistInv
<1>5. JobGood'
  BY <1>1, <1>2, StoredIsCopy DEF JobGood, UsersGood
<1> QED
  BY <1>2, <1>4, <1>5 DEF PersistInv

\* A user's reconcile keeps the invariant.
LEMMA UserMovesPersist ==
    ASSUME FollowsControllers, IInv, Shape, PersistInv, SecretsStay, RotationsStay, CacheMoves,
           StoreShape', UserMoves
    PROVE  PersistInv'
<1> DEFINE u == userJob.user
           me == userJob.me
           it == users[u]
           new == users'[u]
<1>1. CASE UserIdles
  BY <1>1, QuietUserMoves DEF UserIdles, Steady
<1>2. ASSUME userJob # Idle
      PROVE  /\ u \in Users /\ UserGood(u, it, rotations) /\ CopyOf(me, u, it, rotations)
             /\ FoundOut
  BY <1>2, UserJobFields DEF PersistInv, UsersGood, JobGood
<1>3. CASE LooksOnly
  BY <1>2, <1>3, QuietUserMoves DEF LooksOnly, Moves, KeepsCopies, Steady, FoundOut
<1>4. CASE AdoptsSpec
  <2>1. /\ userJob # Idle /\ userJob.pc = "adopt" /\ userJob'.user = u
        /\ userJob'.pc \in {"login", "sync"} /\ userJob'.me = new
        /\ UNCHANGED <<rotations, rotJob>>
        /\ WritesUser(u, it.spec, Merge(me.eff, me.spec, it.eff), it.id)
    BY <1>4 DEF AdoptsSpec, Moves, Rereads, Steady
  <2>2. new.spec = it.spec /\ new.eff \in {it.eff, me.spec} /\ new.id = it.id
    BY <2>1 DEF WritesUser, Merge
  <2>3. me.spec # None
    BY <1>2, <2>1 DEF FoundOut
  <2>4. UserGood(u, new, rotations')
    BY <1>2, <2>1, <2>2, <2>3 DEF UserGood, CopyOf
  <2>5. Ahead(u) /\ FoundOut'
    BY <2>1, <2>2 DEF Ahead, FoundOut
  <2> QED
    BY <2>1, <2>4, <2>5, WritingUserMoves
<1>5. CASE SyncsBMC
  BY <1>2, <1>5, QuietUserMoves DEF SyncsBMC, Moves, FoundOut
<1>6. CASE LogsInUnknown
  <2>1. FoundOut'
    BY <1>6 DEF LogsInUnknown, GoesOnBy, Moves, KeepsCopies, FoundOut
  <2>2. /\ userJob # Idle /\ userJob'.me = me /\ userJob'.user = u
        /\ UNCHANGED <<users, rotations, rotJob>>
    BY <1>6 DEF LogsInUnknown, GoesOnBy, Moves, KeepsCopies, Steady
  <2> QED
    BY <2>1, <2>2, QuietUserMoves
<1>7. CASE LogsInFound
  <2>1. /\ userJob # Idle /\ userJob'.user = u /\ userJob'.me = new
        /\ UNCHANGED <<rotations, rotJob>> /\ WritesUser(u, it.spec, it.eff, TRUE)
    BY <1>7 DEF LogsInFound, GoesOnBy, Moves, Rereads, Steady
  <2>2. new.spec = it.spec /\ new.eff = it.eff /\ new.id
    BY <2>1 DEF WritesUser
  <2>3. UserGood(u, new, rotations')
    BY <1>2, <2>1, <2>2 DEF UserGood
  <2>4. FoundOut'
    BY <1>7, <2>1, <2>2 DEF LogsInFound, GoesOnBy, Moves, FoundOut
  <2>5. Ahead(u) \/ MakesAccount(u)
    BY <1>2, <2>1, <2>2 DEF Ahead, MakesAccount, UserGood
  <2> QED
    BY <2>1, <2>3, <2>4, <2>5, WritingUserMoves
<1>8. CASE MakesOwn
  <2>1. userJob'.secret # None
    BY <1>8, CredentialAssumption DEF MakesOwn, Makes
  <2>2. /\ userJob # Idle /\ userJob'.user = u /\ userJob'.me = me
        /\ userJob.pc = "secret" /\ userJob'.pc = "ref"
        /\ UNCHANGED <<users, rotations, rotJob>>
    BY <1>8 DEF MakesOwn, Moves, KeepsCopies
  <2>3. FoundOut'
    BY <1>2, <2>1, <2>2 DEF FoundOut
  <2> QED
    BY <2>2, <2>3, QuietUserMoves
<1>9. CASE RefersToOwn
  <2>1. /\ userJob # Idle /\ userJob.pc = "ref" /\ userJob'.user = u /\ userJob'.me = new
        /\ \/ me.id /\ userJob'.pc = "follow"
           \/ ~me.id /\ userJob'.pc = "account"
        /\ UNCHANGED <<rotations, rotJob>> /\ WritesUser(u, userJob.secret, it.eff, it.id)
    BY <1>9 DEF RefersToOwn, Moves, Rereads, Steady
  <2>2. new.spec = userJob.secret /\ new.eff = it.eff /\ new.id = it.id
    BY <2>1 DEF WritesUser
  <2>3. userJob.secret # None /\ it.spec = None /\ it.eff = None
    BY <1>2, <2>1 DEF FoundOut, CopyOf, UserGood
  <2>4. ~HasRotation(u, rotations) /\ ~Bootstrapped
    BY <1>2, <2>1, <2>3 DEF UserGood
  <2>5. UserGood(u, new, rotations')
    BY <2>1, <2>2, <2>3, <2>4 DEF UserGood
  <2>6. me.id <=> new.id
    BY <1>2, <2>1, <2>2 DEF CopyOf
  <2>7. FoundOut'
    BY <2>1, <2>2, <2>3, <2>6 DEF FoundOut
  <2> QED
    BY <2>1, <2>4, <2>5, <2>7, WritingUserMoves DEF MakesAccount
<1>10. CASE WritesAccount \/ DeletesAccount
  <2>1. /\ userJob # Idle /\ userJob'.user = u /\ userJob'.me = me
        /\ \/ userJob.pc = "account" /\ userJob'.pc = "record"
           \/ userJob.pc = "remove" /\ userJob'.pc = "finalizer"
        /\ UNCHANGED <<users, rotations, rotJob>>
    BY <1>10 DEF WritesAccount, DeletesAccount, Moves, KeepsCopies
  <2>2. FoundOut'
    BY <1>2, <2>1 DEF FoundOut
  <2> QED
    BY <2>1, <2>2, QuietUserMoves
<1>11. CASE RecordsAccount
  <2>1. /\ userJob # Idle /\ userJob'.user = u /\ userJob'.me = new
        /\ userJob.pc = "record" /\ userJob'.pc = "follow"
        /\ UNCHANGED <<rotations, rotJob>> /\ WritesUser(u, it.spec, it.eff, TRUE)
    BY <1>11 DEF RecordsAccount, Moves, Rereads, Steady
  <2>2. new.spec = it.spec /\ new.eff = it.eff /\ new.id
    BY <2>1 DEF WritesUser
  <2>3. UserGood(u, new, rotations')
    BY <1>2, <2>1, <2>2 DEF UserGood
  <2>4. it.spec # None
    BY <1>2, <2>1 DEF FoundOut, CopyOf, Promoted
  <2>5. FoundOut'
    BY <2>1, <2>2, <2>4 DEF FoundOut
  <2>6. Ahead(u) \/ MakesAccount(u)
    BY <1>2, <2>1, <2>2 DEF Ahead, MakesAccount, UserGood
  <2> QED
    BY <2>1, <2>3, <2>5, <2>6, WritingUserMoves
<1>12. CASE FollowsSpec \/ PrunesOwn
  <2>1. /\ userJob # Idle /\ userJob'.user = u /\ userJob'.me = me
        /\ userJob.pc \in {"follow", "prune"} /\ userJob'.pc \in {"prune", "conditions"}
        /\ UNCHANGED <<users, rotations, rotJob>>
    BY <1>12 DEF FollowsSpec, PrunesOwn, Moves, KeepsCopies
  <2>2. FoundOut'
    BY <1>2, <2>1 DEF FoundOut
  <2> QED
    BY <2>1, <2>2, QuietUserMoves
<1>13. CASE Concludes
  <2>1. /\ userJob # Idle /\ userJob'.user = u
        /\ userJob.pc \in {"conditions", "trigger"} /\ userJob'.pc \in {"trigger", "create"}
        /\ UNCHANGED <<rotations, rotJob>>
    BY <1>13 DEF Concludes, Moves, Steady
  <2>2. me.spec # None /\ me.id
    BY <1>2, <2>1 DEF FoundOut
  <2>3. CASE KeepsCopies /\ UNCHANGED users
    <3>1. FoundOut'
      BY <2>1, <2>2, <2>3 DEF FoundOut, KeepsCopies
    <3> QED
      BY <2>1, <2>3, <3>1, QuietUserMoves DEF KeepsCopies
  <2>4. CASE Rereads /\ TouchesUser(u)
    <3>1. /\ userJob'.me = new /\ WritesUser(u, it.spec, it.eff, it.id)
          /\ new.spec = it.spec /\ new.eff = it.eff /\ new.id = it.id
      BY <2>4 DEF Rereads, TouchesUser, WritesUser
    <3>2. it.spec # None /\ it.id
      BY <1>2, <2>1, <2>2 DEF CopyOf, Promoted
    <3>3. UserGood(u, new, rotations')
      BY <1>2, <2>1, <3>1 DEF UserGood
    <3>4. FoundOut' /\ Ahead(u)
      BY <2>1, <3>1, <3>2 DEF FoundOut, Ahead
    <3> QED
      BY <2>1, <3>1, <3>3, <3>4, WritingUserMoves
  <2> QED
    BY <1>13, <2>3, <2>4 DEF Concludes
<1>14. CASE AsksRotation
  <2>1. /\ userJob # Idle /\ userJob.pc = "create" /\ userJob' = Idle
        /\ UNCHANGED <<users, rotJob>>
    BY <1>14 DEF AsksRotation
  <2>2. it.spec # None /\ it.id
    BY <1>2, <2>1 DEF FoundOut, CopyOf, Promoted
  <2>3. ASSUME NEW v \in Users, HasRotation(v, rotations')
        PROVE  HasRotation(v, rotations) \/ v = u
    BY <1>14, <2>3 DEF AsksRotation, HasRotation
  <2>4. UsersGood'
    <3>1. ASSUME NEW v \in Users
          PROVE  UserGood(v, users[v], rotations')
      BY <2>2, <2>3, RotationsGrow DEF PersistInv, UsersGood, UserGood
    <3> QED
      BY <2>1, <3>1 DEF UsersGood
  <2>5. \A v \in Users : Ahead(v)
    BY <2>1 DEF Ahead
  <2>6. CachesGood' /\ RotationGood'
    BY <2>1, <2>4, <2>5, CachesStayGood, RotationStaysGood DEF PersistInv
  <2> QED
    BY <2>1, <2>4, <2>6 DEF PersistInv, JobGood
<1>15. CASE RemovesUser
  <2>1. /\ userJob # Idle /\ userJob' = Idle /\ UNCHANGED <<rotations, rotJob>>
        /\ \A v \in Users \ {u} : users'[v] = users[v]
        /\ new = [it EXCEPT !.exists = FALSE]
    BY <1>15 DEF RemovesUser, Steady
  <2>2. new.spec = it.spec /\ new.eff = it.eff /\ new.id = it.id
    BY <2>1, UserJobFields DEF UserFields
  <2>3. UsersGood' /\ \A v \in Users : Ahead(v)
    BY <1>2, <2>1, <2>2, RotationsOfSame, KeptUsersGood DEF PersistInv
  <2>4. CachesGood' /\ RotationGood'
    BY <2>1, <2>3, CachesStayGood, RotationStaysGood DEF PersistInv
  <2> QED
    BY <2>1, <2>3, <2>4 DEF PersistInv, JobGood
<1> QED
  BY <1>1, <1>3, <1>4, <1>5, <1>6, <1>7, <1>8, <1>9, <1>10, <1>11, <1>12, <1>13, <1>14, <1>15
     DEF UserMoves

\* A rotation's step that writes no user leaves the user's worker as it is.
LEMMA QuietRotationMoves ==
    ASSUME FollowsControllers, IInv, Shape, PersistInv, SecretsStay, RotationsStay, CacheMoves,
           UNCHANGED <<users, userJob>>, NoNewRotations, RotationGood'
    PROVE  PersistInv'
<1>1. UsersGood' /\ \A u \in Users : Ahead(u)
  BY UnchangedUsersGood DEF PersistInv
<1>2. CachesGood' /\ JobGood'
  BY <1>1, CachesStayGood, JobStaysGood DEF PersistInv
<1> QED
  BY <1>1, <1>2 DEF PersistInv

\* The secret of the worker, once persisted, is its rotation's.
LEMMA PersistedSecret ==
    ASSUME IInv, rotJob # Idle, rotJob.pc \in Decided, rotJob.secret # None
    PROVE  Promoted(rotJob.secret, rotations)
BY DEF IInv, RotJobInv, Promoted

\* A rotation's reconcile keeps the invariant.
LEMMA RotationMovesPersist ==
    ASSUME FollowsControllers, IInv, Shape, PersistInv, SecretsStay, RotationsStay, CacheMoves,
           RotationMoves
    PROVE  PersistInv'
<1> DEFINE it == users[Who]
           new == users'[Who]
           secret == rotJob.secret
<1>1. ASSUME rotJob # Idle
      PROVE  /\ BroughtAbout /\ Who \in Users /\ UserGood(Who, it, rotations)
             /\ HasRotation(Who, rotations)
  BY <1>1, RotJobFields DEF PersistInv, UsersGood, RotationGood, HasRotation
<1>2. ASSUME NEW pc, NEW next, RotMoves(pc, next)
      PROVE  rotJob # Idle /\ rotJob.pc = pc /\ rotJob'.pc = next /\ Who' = Who
  BY <1>2 DEF RotMoves, Who
<1>3. CASE RotStarts
  <2>1. NoNewRotations /\ UNCHANGED <<users, userJob>>
    BY <1>3, RotationsOfSame DEF RotStarts
  <2>2. RotationGood'
    <3>1. CASE rotJob' = Idle
      BY <3>1 DEF RotationGood
    <3>2. CASE rotJob' # Idle
      <4>1. /\ rotJob'.pc = "client" /\ Who' \in Users
            /\ rotJob'.who = cache.users[Who']
        BY <1>3, <3>2 DEF RotStarts, Who
      <4>2. CopyOf(cache.users[Who'], Who', users[Who'], rotations)
        BY <4>1 DEF PersistInv, CachesGood
      <4>3. \/ users'[Who'].spec = rotJob'.who.spec
            \/ Promoted(users'[Who'].spec, rotations')
        BY <2>1, <4>1, <4>2, RotationsGrow DEF CopyOf
      <4> QED
        BY <4>1, <4>3 DEF RotationGood, BroughtAbout
    <3> QED
      BY <3>1, <3>2
  <2> QED
    BY <2>1, <2>2, QuietRotationMoves
<1>4. CASE RotIdles
  BY <1>4, RotationsOfSame, QuietRotationMoves DEF RotIdles, RotationGood
\* It goes on, with nothing new to answer for.
<1>5. ASSUME UNCHANGED <<users, userJob>>, NoNewRotations, rotJob # Idle, Who' = Who,
             rotJob'.who = rotJob.who,
             rotJob'.pc \in {"try", "spec", "status", "bmc", "finish"} => rotJob'.secret # None,
             rotJob'.pc \in {"status", "bmc", "finish"} => Promoted(it.spec, rotations)
      PROVE  PersistInv'
  <2>1. it.spec = rotJob.who.spec \/ Promoted(it.spec, rotations)
    BY <1>1, <1>5 DEF BroughtAbout
  <2>2. BroughtAbout'
    BY <1>5, <2>1, RotationsGrow DEF BroughtAbout
  <2> QED
    BY <1>5, <2>2, QuietRotationMoves DEF RotationGood
<1>6. CASE RotGoesOn
  <2>1. /\ UNCHANGED <<users, userJob>> /\ rotJob'.who = rotJob.who
        /\ rotJob'.secret = secret /\ rotJob # Idle /\ Who' = Who
        /\ \/ rotJob'.pc \in {"make", "change", "fail"}
           \/ rotJob.pc = "try" /\ rotJob'.pc = "spec"
    BY <1>2, <1>6 DEF RotGoesOn, KeepsSecret
  <2>2. NoNewRotations
    BY <1>6, RotationsOfSame DEF RotGoesOn
  <2>3. rotJob.pc = "try" => secret # None
    BY <1>1, <2>1 DEF BroughtAbout
  <2> QED
    BY <1>5, <2>1, <2>2, <2>3
<1>7. CASE RotMakes
  <2>1. /\ UNCHANGED <<users, rotations, userJob>> /\ rotJob'.who = rotJob.who
        /\ rotJob # Idle /\ Who' = Who /\ rotJob'.pc = "persist"
    BY <1>2, <1>7 DEF RotMakes
  <2> QED
    BY <1>5, <2>1, RotationsOfSame
<1>8. CASE RotPersists
  <2>1. /\ UNCHANGED <<users, userJob>> /\ rotJob'.who = rotJob.who
        /\ rotJob # Idle /\ Who' = Who /\ rotJob'.pc = "change"
    BY <1>2, <1>8 DEF RotPersists, KeepsSecret
  <2> QED
    BY <1>5, <1>8, <2>1, RotationsOfSame
<1>9. CASE RotChanges
  <2>1. /\ UNCHANGED <<users, rotations, userJob>> /\ rotJob'.who = rotJob.who
        /\ rotJob'.secret = secret /\ rotJob # Idle /\ Who' = Who /\ rotJob'.pc = "try"
        /\ secret \in live
    BY <1>2, <1>9 DEF RotChanges, KeepsSecret
  <2>2. secret # None
    BY <2>1, CredentialAssumption DEF Shape, StoreShape, IInv
  <2> QED
    BY <1>5, <2>1, <2>2, RotationsOfSame
\* A write of the user by which its spec is, or stays, promoted.
<1>10. ASSUME NEW spec, NEW eff, WritesUser(Who, spec, eff, it.id), rotJob # Idle, Who' = Who,
              UNCHANGED <<rotations, userJob>>, rotJob'.who = new, rotJob'.secret = secret,
              secret # None, Promoted(spec, rotations)
       PROVE  PersistInv'
  <2>1. new.spec = spec /\ new.id = it.id
    BY <1>10 DEF WritesUser
  <2>2. Promoted(new.spec, rotations')
    BY <1>10, <2>1
  <2>3. UserGood(Who, new, rotations')
    BY <1>1, <1>10, <2>1, <2>2 DEF UserGood, Promoted
  <2>4. UsersGood'
    BY <1>1, <1>10, <2>3, RotationsOfSame, WrittenUserGood DEF PersistInv
  <2>5. \A u \in Users : Ahead(u)
    BY <1>1, <1>10, <2>1, <2>2 DEF Ahead, WritesUser
  <2>6. CachesGood' /\ JobGood'
    BY <1>10, <2>4, <2>5, CachesStayGood, JobStaysGood DEF PersistInv
  <2>7. BroughtAbout'
    BY <1>10, <2>2 DEF BroughtAbout
  <2> QED
    BY <2>4, <2>6, <2>7 DEF PersistInv, RotationGood
<1>11. CASE PromotesSpec
  <2>1. /\ WritesUser(Who, Merge(rotJob.who.spec, secret, it.spec), it.eff, it.id)
        /\ UNCHANGED <<rotations, userJob>> /\ rotJob'.who = new /\ rotJob'.secret = secret
        /\ rotJob # Idle /\ Who' = Who /\ rotJob.pc = "spec"
    BY <1>2, <1>11 DEF PromotesSpec
  <2>2. secret # None /\ (it.spec = rotJob.who.spec \/ Promoted(it.spec, rotations))
    BY <1>1, <2>1 DEF BroughtAbout
  <2>3. Promoted(secret, rotations)
    BY <2>1, <2>2, PersistedSecret DEF Decided
  <2>4. Promoted(Merge(rotJob.who.spec, secret, it.spec), rotations)
    BY <2>2, <2>3 DEF Merge
  <2> QED
    BY <1>10, <2>1, <2>2, <2>4
<1>12. CASE PromotesStatus
  <2>1. /\ WritesUser(Who, it.spec, Merge(rotJob.who.eff, secret, it.eff), it.id)
        /\ UNCHANGED <<rotations, userJob>> /\ rotJob'.who = new /\ rotJob'.secret = secret
        /\ rotJob # Idle /\ Who' = Who /\ rotJob.pc = "status"
    BY <1>2, <1>12 DEF PromotesStatus
  <2>2. secret # None /\ Promoted(it.spec, rotations)
    BY <1>1, <2>1 DEF BroughtAbout
  <2> QED
    BY <1>10, <2>1, <2>2
<1>13. CASE PromotesBMC
  <2>1. /\ UNCHANGED <<users, rotations, userJob>> /\ rotJob'.who = rotJob.who
        /\ rotJob'.secret = secret /\ rotJob # Idle /\ Who' = Who
        /\ rotJob.pc = "bmc" /\ rotJob'.pc = "finish"
    BY <1>2, <1>13 DEF PromotesBMC, KeepsSecret
  <2>2. secret # None /\ Promoted(it.spec, rotations)
    BY <1>1, <2>1 DEF BroughtAbout
  <2> QED
    BY <1>5, <2>1, <2>2, RotationsOfSame
<1> QED
  BY <1>3, <1>4, <1>6, <1>7, <1>8, <1>9, <1>11, <1>12, <1>13 DEF RotationMoves

\* Persons, the clock, the garbage collector and the watches keep it.
LEMMA OtherMovesPersist ==
    ASSUME FollowsControllers, IInv, Shape, PersistInv, SecretsStay, RotationsStay,
           \/ CacheMoves /\ ((\E u \in Users : PersonMoves(u)) \/ OnlyCaches)
           \/ \E u \in Users : AgesUser(u)
    PROVE  PersistInv'
\* Nobody's references change.
<1>1. ASSUME UsersGood', \A v \in Users : Ahead(v), UNCHANGED <<userJob, rotJob>>
      PROVE  JobGood' /\ RotationGood'
  BY <1>1, JobStaysGood, RotationStaysGood DEF PersistInv
<1>2. ASSUME NEW u \in Users, CacheMoves, PersonMoves(u)
      PROVE  PersistInv'
  <2>1. CASE UserStarts(u)
    <3>1. UNCHANGED <<users, rotations, rotJob>>
      BY <2>1 DEF UserStarts
    <3>2. UsersGood' /\ \A v \in Users : Ahead(v)
      BY <3>1, RotationsOfSame, UnchangedUsersGood DEF PersistInv
    <3>3. CachesGood' /\ RotationGood'
      BY <1>2, <3>1, <3>2, CachesStayGood, RotationStaysGood DEF PersistInv
    <3>4. JobGood'
      <4>1. CASE userJob' = Idle
        BY <4>1 DEF JobGood
      <4>2. CASE userJob' # Idle
        <5>1. /\ userJob'.user = u /\ userJob'.me = cache.users[u]
              /\ userJob'.pc \in {"delete", "test"}
          BY <2>1, <4>2 DEF UserStarts
        <5>2. CopyOf(cache.users[u], u, users[u], rotations)
          BY DEF PersistInv, CachesGood
        <5>3. CopyOf(userJob'.me, userJob'.user, users'[userJob'.user], rotations')
          BY <3>1, <5>1, <5>2
        <5> QED
          BY <5>1, <5>3 DEF JobGood, FoundOut
      <4> QED
        BY <4>1, <4>2
    <3> QED
      BY <3>2, <3>3, <3>4 DEF PersistInv
  <2>2. CASE RepointsUser(u)
    BY <2>2 DEF RepointsUser, FollowsControllers
  <2>3. ASSUME NoNewRotations, \A v \in Users \ {u} : users'[v] = users[v],
               users'[u].spec = users[u].spec, users'[u].eff = users[u].eff,
               users'[u].id <=> users[u].id, UNCHANGED <<userJob, rotJob>>
        PROVE  PersistInv'
    <3>1. UsersGood' /\ \A v \in Users : Ahead(v)
      BY <2>3, KeptUsersGood DEF PersistInv
    <3>2. CachesGood'
      BY <1>2, <3>1, CachesStayGood DEF PersistInv
    <3> QED
      BY <1>1, <2>3, <3>1, <3>2 DEF PersistInv
  <2>4. CASE AnnotatesUser(u)
    BY <2>3, <2>4, RotationsOfSame DEF AnnotatesUser, TouchesUser, WritesUser, Bystanders
  <2>5. CASE DeletesUser(u)
    <3>1. users' = [users EXCEPT ![u] = [users[u] EXCEPT !.deleting = TRUE]]
          /\ UNCHANGED <<rotations, userJob, rotJob>>
      BY <2>5 DEF DeletesUser, Bystanders
    <3>2. DOMAIN users = Users /\ DOMAIN users[u] = UserFields
      BY DEF Shape, StoreShape
    <3>3. users'[u] = [users[u] EXCEPT !.deleting = TRUE] /\ \A v \in Users \ {u} : users'[v] = users[v]
      BY <3>1, <3>2
    <3>4. users'[u].spec = users[u].spec /\ users'[u].eff = users[u].eff /\ users'[u].id = users[u].id
      BY <3>2, <3>3 DEF UserFields
    <3> QED
      BY <2>3, <3>1, <3>3, <3>4, RotationsOfSame
  <2>6. CASE CollectsOwn(u)
    BY <2>3, <2>6, RotationsOfSame DEF CollectsOwn, Bystanders
  <2> QED
    BY <1>2, <2>1, <2>2, <2>4, <2>5, <2>6 DEF PersonMoves
<1>3. CASE CacheMoves /\ OnlyCaches
  <2>1. UsersGood' /\ \A v \in Users : Ahead(v)
    BY <1>3, RotationsOfSame, UnchangedUsersGood DEF PersistInv, OnlyCaches
  <2>2. CachesGood'
    BY <1>3, <2>1, CachesStayGood DEF PersistInv
  <2>3. JobGood' /\ RotationGood'
    <3>1. UNCHANGED userJob => JobGood'
      BY <2>1, JobStaysGood DEF PersistInv
    <3>2. UNCHANGED rotJob => RotationGood'
      BY <2>1, RotationStaysGood DEF PersistInv
    <3>3. userJob' = Idle => JobGood'
      BY DEF JobGood
    <3>4. rotJob' = Idle => RotationGood'
      BY DEF RotationGood
    <3> QED
      BY <1>3, <3>1, <3>2, <3>3, <3>4 DEF OnlyCaches
  <2> QED
    BY <2>1, <2>2, <2>3 DEF PersistInv
<1>4. ASSUME NEW u \in Users, AgesUser(u)
      PROVE  PersistInv'
  <2>1. UNCHANGED <<rotations, userJob, rotJob>> /\ TouchesUser(u)
    BY <1>4 DEF AgesUser, Bystanders
  <2>2. UsersGood' /\ \A v \in Users : Ahead(v)
    BY <2>1, RotationsOfSame, KeptUsersGood DEF PersistInv, TouchesUser, WritesUser
  <2>3. ASSUME NEW v \in Users
        PROVE  CopyOf(cache'.users[v], v, users'[v], rotations')
    <3>1. CopyOf(cache.users[v], v, users'[v], rotations')
      BY <2>2, CopyMovesOn DEF PersistInv, UsersGood, CachesGood
    <3>2. /\ cache'.users[v].spec = cache.users[v].spec /\ cache'.users[v].eff = cache.users[v].eff
          /\ cache'.users[v].id = cache.users[v].id
      BY <1>4 DEF AgesUser
    <3> QED
      BY <3>1, <3>2 DEF CopyOf
  <2>4. CachesGood'
    BY <2>3 DEF CachesGood
  <2> QED
    BY <1>1, <2>1, <2>2, <2>4 DEF PersistInv
<1> QED
  BY <1>2, <1>3, <1>4

\* It holds at first: there are no rotations, and nobody's copy trails.
LEMMA PersistAtFirst ==
    ASSUME Init
    PROVE  PersistInv
<1>1. rotations = << >> /\ cache = Store /\ userJob = Idle /\ rotJob = Idle
  BY DEF Init
<1>2. ASSUME NEW u \in Users
      PROVE  UserGood(u, users[u], rotations)
  <2>1. \A v \in Users : ~HasRotation(v, rotations)
    BY <1>1 DEF HasRotation
  <2>2. /\ users[u].spec = users[u].eff
        /\ Bootstrapped => users[u].spec # None /\ users[u].id
    BY UsersAtFirst, CredentialAssumption
  <2> QED
    BY <2>1, <2>2 DEF UserGood
<1>3. UsersGood /\ CachesGood
  BY <1>1, <1>2, StoredIsCopy DEF UsersGood, CachesGood, Store
<1> QED
  BY <1>1, <1>3 DEF PersistInv, JobGood, RotationGood

\* The passwords a step sets.
PasswordsPersisted ==
    \A u \in Users :
        LET s == password'[u] IN
        s \notin {password[u], None} =>
            /\ s \in live
            /\ \/ users[u].spec = s
               \/ \E r \in DOMAIN rotations : rotations[r].new = s

\* Every password that a step sets has been referred to before.
LEMMA PasswordsFromSecrets ==
    ASSUME FollowsControllers, IInv, Shape, PersistInv, AllMoves
    PROVE  PasswordsPersisted
<1>1. DOMAIN password = Accounts /\ Users \subseteq Accounts
  BY DEF Shape, StoreShape, Accounts
<1>2. userJob # Idle => userJob.user \in Users
  BY UserJobFields
<1>3. CASE UNCHANGED password
  BY <1>3 DEF PasswordsPersisted
<1>4. CASE WritesAccount
  <2>1. /\ userJob # Idle /\ userJob.pc = "account" /\ SetsPassword /\ userJob.me.spec \in live
    BY <1>4 DEF WritesAccount, Moves
  <2>2. ~userJob.me.id
    BY <2>1 DEF PersistInv, JobGood, FoundOut
  <2>3. CopyOf(userJob.me, userJob.user, users[userJob.user], rotations)
        /\ UserGood(userJob.user, users[userJob.user], rotations)
    BY <1>2, <2>1 DEF PersistInv, JobGood, UsersGood
  <2>4. userJob.me.spec = users[userJob.user].spec
    BY <2>2, <2>3 DEF CopyOf, UserGood
  <2> QED
    BY <1>1, <1>2, <2>1, <2>4 DEF PasswordsPersisted, SetsPassword
<1>5. CASE FollowsSpec /\ ~UNCHANGED password
  <2>1. /\ userJob # Idle /\ userJob.me.spec \in live /\ SetsPassword
        /\ userJob.me.eff # None /\ userJob.me.spec # userJob.me.eff
    BY <1>5 DEF FollowsSpec, Moves
  <2>2. Promoted(userJob.me.spec, rotations)
    BY <1>2, <2>1 DEF PersistInv, JobGood, CopyOf
  <2> QED
    BY <1>1, <1>2, <2>1, <2>2 DEF PasswordsPersisted, SetsPassword, Promoted
<1>6. CASE RotChanges
  <2>1. /\ rotJob # Idle /\ rotJob.pc = "change" /\ rotJob.secret \in live
        /\ password' = [password EXCEPT ![Who] = rotJob.secret]
    BY <1>6 DEF RotChanges, RotMoves
  <2>2. rotJob.secret # None
    BY <2>1, CredentialAssumption DEF Shape, StoreShape, IInv
  <2>3. Promoted(rotJob.secret, rotations)
    BY <2>1, <2>2, PersistedSecret DEF Decided
  <2> QED
    BY <1>1, <2>1, <2>3, RotJobFields DEF PasswordsPersisted, Promoted
<1>7. CASE DeletesAccount
  BY <1>1, <1>2, <1>7 DEF DeletesAccount, Moves, PasswordsPersisted
<1>8. UserMoves => UNCHANGED password \/ WritesAccount \/ FollowsSpec \/ DeletesAccount
  BY DEF UserMoves, UserIdles, LooksOnly, AdoptsSpec, SyncsBMC, LogsInUnknown, LogsInFound,
         MakesOwn, RefersToOwn, RecordsAccount, PrunesOwn, Concludes, AsksRotation, RemovesUser,
         Steady
<1>9. RotationMoves => UNCHANGED password \/ RotChanges
  BY DEF RotationMoves, RotStarts, RotIdles, RotGoesOn, RotMakes, RotPersists, PromotesSpec,
         PromotesStatus, PromotesBMC
<1>10. (\E u \in Users : PersonMoves(u) \/ AgesUser(u)) \/ OnlyCaches => UNCHANGED password
  BY DEF PersonMoves, UserStarts, RepointsUser, AnnotatesUser, DeletesUser, CollectsOwn,
         OnlyCaches, AgesUser, Bystanders
<1> QED
  BY <1>3, <1>4, <1>5, <1>6, <1>7, <1>8, <1>9, <1>10 DEF AllMoves

\* While persons leave the specs alone and users that have no account yet are
\* seen as they are, an account's password only changes to that of a secret that
\* exists and that the user's spec or a rotation already refers to: whatever call
\* fails and whichever worker runs next, the way in is written down before.
THEOREM CredentialPersistedFirst ==
    ASSUME Repointable = {}, Bootstrapped \/ "users" \notin Lagging
    PROVE  Spec => PersistedFirst
<1>0. FollowsControllers
  BY DEF FollowsControllers
<1>1. Init => PersistInv
  BY PersistAtFirst
<1>2. IInv /\ Shape /\ PersistInv /\ [Next]_vars => PersistInv'
  BY <1>0, EveryStep, UserMovesPersist, RotationMovesPersist, OtherMovesPersist
     DEF AllMoves, Shape
<1>3. IInv /\ Shape /\ PersistInv /\ [Next]_vars =>
        [\A u \in Users :
            LET s == password'[u] IN
            s \notin {password[u], None} =>
                /\ s \in live
                /\ \/ users[u].spec = s
                   \/ \E r \in DOMAIN rotations : rotations[r].new = s]_vars
  BY <1>0, EveryStep, PasswordsFromSecrets DEF PasswordsPersisted
<1> QED
  BY <1>1, <1>2, <1>3, AlwaysInShape, PTL DEF Spec, PersistedFirst

-----------------------------------------------------------------------------
(* A deleted ServiceAccount leaves no account behind                       *)

\* Once a user is on its way out in the cache it is so in the store, and one
\* that is gone is on its way out in the cache: only the reconcile that removes
\* it works on it.
Leaving(it) == it.deleting \/ ~it.exists
Removing == {"delete", "find", "remove", "finalizer"}

UsersLeave ==
    \A u \in Users : /\ Leaving(cache.users[u]) => Leaving(users[u])
                     /\ ~users[u].exists => Leaving(cache.users[u])
LeavingJob ==
    userJob # Idle =>
        /\ userJob.pc \in Removing => Leaving(cache.users[userJob.user])
        /\ userJob.pc \notin Removing => users[userJob.user].exists
LeavingInv == UsersLeave /\ LeavingJob

\* Nobody is removed, and who is asked to leave stays so.
PresenceStays ==
    \A u \in Users : /\ users'[u].exists <=> users[u].exists
                     /\ users[u].deleting => users'[u].deleting

\* Writing a user's references removes nobody.
LEMMA WriteKeepsPresence ==
    ASSUME NEW w \in Users, NEW spec, NEW eff, NEW id, WritesUser(w, spec, eff, id)
    PROVE  PresenceStays
<1>1. ASSUME NEW u \in Users
      PROVE  users'[u].exists = users[u].exists /\ users'[u].deleting = users[u].deleting
  BY DEF WritesUser
<1> QED
  BY <1>1 DEF PresenceStays

\* Where presence stays, the caches keep up.
LEMMA LeavingStays ==
    ASSUME UsersLeave, PresenceStays, CacheMoves
    PROVE  /\ UsersLeave'
           /\ \A u \in Users : Leaving(cache.users[u]) => Leaving(cache'.users[u])
<1>1. ASSUME NEW u \in Users
      PROVE  Leaving(users[u]) => Leaving(users'[u])
  BY DEF PresenceStays, Leaving
<1>2. ASSUME NEW u \in Users
      PROVE  /\ Leaving(cache'.users[u]) => Leaving(users'[u])
             /\ ~users'[u].exists => Leaving(cache'.users[u])
             /\ Leaving(cache.users[u]) => Leaving(cache'.users[u])
  <2>1. CASE cache'.users = users'
    BY <1>1, <2>1 DEF UsersLeave, Leaving
  <2>2. CASE cache'.users = cache.users
    BY <1>1, <2>2 DEF UsersLeave, PresenceStays
  <2> QED
    BY <2>1, <2>2 DEF CacheMoves
<1> QED
  BY <1>2 DEF UsersLeave

\* The user's reconcile goes on: it removes its user, or it does not.
LEMMA LeavingJobMoves ==
    ASSUME LeavingJob, PresenceStays, userJob # Idle, userJob.user \in Users,
           \A u \in Users : Leaving(cache.users[u]) => Leaving(cache'.users[u]),
           userJob.pc \in Removing <=> userJob'.pc \in Removing, userJob'.user = userJob.user
    PROVE  LeavingJob'
BY DEF LeavingJob, PresenceStays

\* A user's reconcile keeps track of who leaves, the one that removes it too.
LEMMA UserMovesLeaving ==
    ASSUME IInv, Shape, LeavingInv, CacheMoves, UserMoves
    PROVE  LeavingInv' /\ (PresenceStays \/ RemovesUser)
<1> DEFINE u == userJob.user
<1>1. userJob # Idle => u \in Users
  BY UserJobFields
<1>2. CASE UserIdles \/ AsksRotation
  <2>1. UNCHANGED users /\ userJob' = Idle
    BY <1>2 DEF UserIdles, AsksRotation
  <2>2. PresenceStays
    BY <2>1 DEF PresenceStays
  <2> QED
    BY <2>1, <2>2, LeavingStays DEF LeavingInv, LeavingJob
<1>3. ASSUME ~UserIdles, ~AsksRotation, ~RemovesUser
      PROVE  LeavingInv' /\ PresenceStays
  <2>1. /\ userJob # Idle /\ userJob'.user = u
        /\ userJob.pc \in Removing <=> userJob'.pc \in Removing
    BY <1>3 DEF UserMoves, LooksOnly, AdoptsSpec, SyncsBMC, LogsInUnknown, LogsInFound, GoesOnBy,
       MakesOwn, RefersToOwn, WritesAccount, RecordsAccount, FollowsSpec, PrunesOwn, Concludes,
       DeletesAccount, Moves, Removing
  <2>2. UNCHANGED users \/ \E spec, eff, id : WritesUser(u, spec, eff, id)
    BY <1>3 DEF UserMoves, LooksOnly, AdoptsSpec, SyncsBMC, LogsInUnknown, LogsInFound,
       MakesOwn, RefersToOwn, WritesAccount, RecordsAccount, FollowsSpec, PrunesOwn, Concludes,
       DeletesAccount, TouchesUser
  <2>3. PresenceStays
    BY <1>1, <2>1, <2>2, WriteKeepsPresence DEF PresenceStays
  <2> QED
    BY <1>1, <2>1, <2>3, LeavingStays, LeavingJobMoves DEF LeavingInv
<1>4. CASE RemovesUser
  <2>1. /\ userJob # Idle /\ userJob.pc = "finalizer" /\ userJob' = Idle
        /\ \A v \in Users \ {u} : users'[v] = users[v]
        /\ users'[u] = [users[u] EXCEPT !.exists = FALSE]
    BY <1>4 DEF RemovesUser
  <2>2. ~users'[u].exists /\ Leaving(cache.users[u])
    BY <2>1, UserJobFields DEF UserFields, LeavingInv, LeavingJob, Removing
  <2>3. ASSUME NEW v \in Users
        PROVE  /\ Leaving(cache'.users[v]) => Leaving(users'[v])
               /\ ~users'[v].exists => Leaving(cache'.users[v])
    <3>1. CASE v = u
      BY <2>2, <3>1 DEF CacheMoves, Leaving
    <3>2. CASE v # u
      BY <2>1, <3>2 DEF CacheMoves, Leaving, LeavingInv, UsersLeave
    <3> QED
      BY <3>1, <3>2
  <2> QED
    BY <1>4, <2>1, <2>3 DEF LeavingInv, UsersLeave, LeavingJob
<1> QED
  BY <1>2, <1>3, <1>4 DEF UserIdles, AsksRotation, PresenceStays

\* Where nobody is removed, the workers that go on keep track of who leaves.
LEMMA LeavingGoesOn ==
    ASSUME IInv, Shape, LeavingInv, PresenceStays, CacheMoves, userJob' \in {Idle, userJob}
    PROVE  LeavingInv'
<1>1. userJob # Idle => userJob.user \in Users
  BY UserJobFields
<1>2. LeavingJob'
  BY <1>1, LeavingStays DEF LeavingInv, LeavingJob, PresenceStays
<1> QED
  BY <1>2, LeavingStays DEF LeavingInv

\* A rotation's reconcile removes nobody.
LEMMA RotationMovesLeaving ==
    ASSUME IInv, Shape, LeavingInv, CacheMoves, RotationMoves
    PROVE  LeavingInv' /\ PresenceStays /\ UNCHANGED userJob
<1>1. UNCHANGED userJob
  BY DEF RotationMoves, RotStarts, RotIdles, RotGoesOn, RotMakes, RotPersists, RotChanges,
         PromotesSpec, PromotesStatus, PromotesBMC
<1>2. \/ UNCHANGED users
      \/ rotJob # Idle /\ \E spec, eff, id : WritesUser(Who, spec, eff, id)
  BY DEF RotationMoves, RotStarts, RotIdles, RotGoesOn, RotMakes, RotPersists, RotChanges,
         PromotesSpec, PromotesStatus, PromotesBMC, RotMoves
<1>3. PresenceStays
  BY <1>2, RotJobFields, WriteKeepsPresence DEF PresenceStays
<1> QED
  BY <1>1, <1>3, LeavingGoesOn

\* Nobody else removes a user, and a reconcile of one starts by what is known
\* of it.
LEMMA OtherMovesLeaving ==
    ASSUME IInv, Shape, LeavingInv,
           \/ CacheMoves /\ ((\E u \in Users : PersonMoves(u)) \/ OnlyCaches)
           \/ \E u \in Users : AgesUser(u)
    PROVE  LeavingInv' /\ PresenceStays
<1>1. ASSUME NEW u \in Users, CacheMoves, UserStarts(u)
      PROVE  LeavingInv' /\ PresenceStays
  <2>1. UNCHANGED users
    BY <1>1 DEF UserStarts
  <2>2. PresenceStays
    BY <2>1 DEF PresenceStays
  <2>3. LeavingJob'
    <3>1. ASSUME userJob' # Idle
          PROVE  /\ userJob'.user = u /\ cache.users[u].exists
                 /\ userJob'.pc = IF cache.users[u].deleting THEN "delete" ELSE "test"
      BY <1>1, <3>1 DEF UserStarts
    <3>2. ~Leaving(cache.users[u]) => users'[u].exists
      BY <2>1 DEF LeavingInv, UsersLeave
    <3>3. Leaving(cache.users[u]) => Leaving(cache'.users[u])
      BY <1>1, <2>2, LeavingStays DEF LeavingInv
    <3> QED
      BY <3>1, <3>2, <3>3 DEF LeavingJob, Leaving, Removing
  <2> QED
    BY <1>1, <2>2, <2>3, LeavingStays DEF LeavingInv
<1>2. ASSUME NEW u \in Users, CacheMoves, PersonMoves(u), ~UserStarts(u)
      PROVE  LeavingInv' /\ PresenceStays
  <2>1. UNCHANGED userJob
    BY <1>2 DEF PersonMoves, RepointsUser, AnnotatesUser, DeletesUser, CollectsOwn, Bystanders
  <2>2. CASE ~DeletesUser(u)
    <3>1. UNCHANGED users \/ \E spec, eff, id : WritesUser(u, spec, eff, id)
      BY <1>2, <2>2 DEF PersonMoves, RepointsUser, AnnotatesUser, TouchesUser, CollectsOwn
    <3>2. PresenceStays
      BY <3>1, WriteKeepsPresence DEF PresenceStays
    <3> QED
      BY <1>2, <2>1, <3>2, LeavingGoesOn
  <2>3. CASE DeletesUser(u)
    <3>1. DOMAIN users = Users /\ DOMAIN users[u] = UserFields
      BY DEF Shape, StoreShape
    <3>2. /\ users'[u] = [users[u] EXCEPT !.deleting = TRUE]
          /\ \A v \in Users \ {u} : users'[v] = users[v]
      BY <2>3, <3>1 DEF DeletesUser
    <3>3. users'[u].exists = users[u].exists /\ users'[u].deleting
      BY <3>1, <3>2 DEF UserFields
    <3>4. PresenceStays
      BY <3>2, <3>3 DEF PresenceStays
    <3> QED
      BY <1>2, <2>1, <3>4, LeavingGoesOn
  <2> QED
    BY <2>2, <2>3
<1>3. CASE CacheMoves /\ OnlyCaches
  <2>1. PresenceStays /\ userJob' \in {Idle, userJob}
    BY <1>3 DEF OnlyCaches, PresenceStays
  <2> QED
    BY <1>3, <2>1, LeavingGoesOn
<1>4. ASSUME NEW u \in Users, AgesUser(u)
      PROVE  LeavingInv' /\ PresenceStays
  <2>1. PresenceStays
    BY <1>4, WriteKeepsPresence DEF AgesUser, TouchesUser
  <2>2. /\ UNCHANGED userJob
        /\ \A v \in Users : /\ cache'.users[v].exists = cache.users[v].exists
                            /\ cache'.users[v].deleting = cache.users[v].deleting
    BY <1>4 DEF AgesUser, Bystanders
  <2>3. ASSUME NEW v \in Users
        PROVE  Leaving(cache'.users[v]) <=> Leaving(cache.users[v])
    BY <2>2 DEF Leaving
  <2>4. ASSUME NEW v \in Users
        PROVE  Leaving(users[v]) => Leaving(users'[v])
    BY <2>1 DEF Leaving, PresenceStays
  <2>5. UsersLeave'
    BY <2>1, <2>3, <2>4 DEF LeavingInv, UsersLeave, PresenceStays
  <2>6. LeavingJob'
    BY <2>1, <2>2, <2>3, UserJobFields DEF LeavingInv, LeavingJob, PresenceStays
  <2> QED
    BY <2>1, <2>5, <2>6 DEF LeavingInv
<1> QED
  BY <1>1, <1>2, <1>3, <1>4

\* At first everyone is there.
LEMMA LeavingAtFirst ==
    ASSUME Init
    PROVE  LeavingInv
<1>1. cache = Store /\ userJob = Idle
  BY DEF Init
<1>2. ASSUME NEW u \in Users
      PROVE  ~Leaving(users[u]) /\ users[u].exists /\ cache.users[u] = users[u]
  BY <1>1, UsersAtFirst DEF Leaving, Store
<1> QED
  BY <1>1, <1>2 DEF LeavingInv, UsersLeave, LeavingJob

\* Who leaves is known, in all behaviours.
LEMMA AlwaysKnownToLeave == Spec => []LeavingInv
<1>1. Init => LeavingInv
  BY LeavingAtFirst
<1>2. IInv /\ Shape /\ LeavingInv /\ [Next]_vars => LeavingInv'
  BY EveryStep, UserMovesLeaving, RotationMovesLeaving, OtherMovesLeaving DEF AllMoves, Shape
<1> QED
  BY <1>1, <1>2, AlwaysInShape, PTL DEF Spec

\* Secrets stay what they are.
MadeStays ==
    \A s \in DOMAIN made : s \in DOMAIN made' /\ made'[s] = made[s]

\* No step changes a secret that was made.
LEMMA SecretsStayMade ==
    ASSUME IInv, Shape, AllMoves
    PROVE  MadeStays
<1>1. UserMoves => UNCHANGED made \/ \E u, label : Makes(u, label)
  BY DEF UserMoves, UserIdles, LooksOnly, AdoptsSpec, SyncsBMC, LogsInUnknown, LogsInFound,
         MakesOwn, RefersToOwn, WritesAccount, RecordsAccount, FollowsSpec, PrunesOwn, Concludes,
         AsksRotation, DeletesAccount, RemovesUser, Steady
<1>2. RotationMoves => UNCHANGED made \/ \E u, label : Makes(u, label)
  BY DEF RotationMoves, RotStarts, RotIdles, RotGoesOn, RotMakes, RotPersists, RotChanges,
         PromotesSpec, PromotesStatus, PromotesBMC
<1>3. (\E u \in Users : PersonMoves(u) \/ AgesUser(u)) \/ OnlyCaches
        => UNCHANGED made \/ \E u, label : Makes(u, label)
  BY DEF PersonMoves, UserStarts, RepointsUser, AnnotatesUser, DeletesUser, CollectsOwn,
         OnlyCaches, AgesUser
<1> QED
  BY <1>1, <1>2, <1>3 DEF AllMoves, Makes, MadeStays

\* What made a secret: a user, a person, or a rotation with its label.
LEMMA SecretsMade ==
    ASSUME IInv, Shape, AllMoves
    PROVE  \/ made' = made
           \/ \E u, label : /\ Makes(u, label)
                            /\ label # 0 => RotMakes /\ label = rotJob.rot /\ u = Who
<1>1. UserMoves => \/ made' = made
                   \/ \E u : Makes(u, 0)
  BY DEF UserMoves, UserIdles, LooksOnly, AdoptsSpec, SyncsBMC, LogsInUnknown, LogsInFound,
         MakesOwn, RefersToOwn, WritesAccount, RecordsAccount, FollowsSpec, PrunesOwn, Concludes,
         AsksRotation, DeletesAccount, RemovesUser, Steady
<1>2. RotationMoves => made' = made \/ (RotMakes /\ Makes(Who, rotJob.rot))
  BY DEF RotationMoves, RotStarts, RotIdles, RotGoesOn, RotMakes, RotPersists, RotChanges,
         PromotesSpec, PromotesStatus, PromotesBMC
<1>3. (\E u \in Users : PersonMoves(u) \/ AgesUser(u)) \/ OnlyCaches
        => made' = made \/ \E u : Makes(u, 0)
  BY DEF PersonMoves, UserStarts, RepointsUser, AnnotatesUser, DeletesUser, CollectsOwn,
         OnlyCaches, AgesUser
<1> QED
  BY <1>1, <1>2, <1>3 DEF AllMoves

\* The secret, if there is one, was made by a rotation.
OfRotation(s) == s # None => s \in DOMAIN made /\ made[s].label # 0
\* So is what a persisted rotation refers to, and what is about to be persisted.
RotationSecrets == \A r \in DOMAIN rotations : OfRotation(rotations[r].new)
PersistsOwn == rotJob # Idle /\ rotJob.pc = "persist" => OfRotation(rotJob.secret)
\* Whoever is about to go has no account left but of a rotation's making; nor
\* have those that are gone.
LeavesNothing ==
    userJob # Idle /\ userJob.pc = "finalizer" /\ userJob.user \in Services
        => OfRotation(password[userJob.user])
GoneLeftNothing == \A u \in Services : ~users[u].exists => OfRotation(password[u])
AccountsGoInv == RotationSecrets /\ PersistsOwn /\ LeavesNothing /\ GoneLeftNothing

\* What a rotation made stays so.
LEMMA OfRotationStays ==
    ASSUME MadeStays, NEW s, OfRotation(s)
    PROVE  s # None => s \in DOMAIN made' /\ made'[s].label # 0
BY DEF MadeStays, OfRotation

\* Only the user's own reconcile, its removal and its rotation change a password.
LEMMA PasswordMoves ==
    ASSUME AllMoves
    PROVE  \/ UNCHANGED password
           \/ /\ userJob # Idle /\ userJob.pc \in {"account", "follow"}
              /\ userJob'.pc # "finalizer" /\ SetsPassword
           \/ RotChanges
           \/ DeletesAccount
<1>1. UserMoves => \/ UNCHANGED password
                   \/ /\ userJob # Idle /\ userJob.pc \in {"account", "follow"}
                      /\ userJob'.pc # "finalizer" /\ SetsPassword
                   \/ DeletesAccount
  BY DEF UserMoves, UserIdles, LooksOnly, AdoptsSpec, SyncsBMC, LogsInUnknown, LogsInFound,
         MakesOwn, RefersToOwn, WritesAccount, RecordsAccount, FollowsSpec, PrunesOwn, Concludes,
         AsksRotation, RemovesUser, Steady, Moves
<1>2. RotationMoves => UNCHANGED password \/ RotChanges
  BY DEF RotationMoves, RotStarts, RotIdles, RotGoesOn, RotMakes, RotPersists, PromotesSpec,
         PromotesStatus, PromotesBMC
<1>3. (\E u \in Users : PersonMoves(u) \/ AgesUser(u)) \/ OnlyCaches => UNCHANGED password
  BY DEF PersonMoves, UserStarts, RepointsUser, AnnotatesUser, DeletesUser, CollectsOwn,
         OnlyCaches, AgesUser, Bystanders
<1> QED
  BY <1>1, <1>2, <1>3 DEF AllMoves

\* A rotation refers to a secret it made itself.
LEMMA RotationsReferToOwn ==
    ASSUME IInv, IInv', Shape, AllMoves, MadeStays, RotationSecrets, PersistsOwn
    PROVE  RotationSecrets' /\ PersistsOwn'
<1>1. RotationsSame \/ UNCHANGED rotations => RotationSecrets'
  BY OfRotationStays DEF RotationSecrets, RotationsSame, OfRotation
<1>2. RotPersists => RotationSecrets'
  <2> SUFFICES ASSUME RotPersists, NEW r \in DOMAIN rotations
               PROVE  OfRotation(rotations[r].new)'
    BY DEF RotationSecrets, RotPersists
  <2>1. OfRotation(rotJob.secret)
    BY DEF RotPersists, RotMoves, PersistsOwn
  <2>2. rotations'[r].new = IF r = rotJob.rot THEN rotJob.secret ELSE rotations[r].new
    BY DEF RotPersists
  <2> QED
    BY <2>1, <2>2, OfRotationStays DEF RotationSecrets, OfRotation
<1>3. AsksRotation => RotationSecrets'
  BY OfRotationStays DEF AsksRotation, RotationSecrets, OfRotation
<1>4. RotationSecrets'
  <2>1. UserMoves => UNCHANGED rotations \/ AsksRotation
    BY DEF UserMoves, UserIdles, LooksOnly, AdoptsSpec, SyncsBMC, LogsInUnknown, LogsInFound,
           MakesOwn, RefersToOwn, WritesAccount, RecordsAccount, FollowsSpec, PrunesOwn,
           Concludes, DeletesAccount, RemovesUser, Steady
  <2>2. RotationMoves => RotationsSame \/ UNCHANGED rotations \/ RotPersists
    BY DEF RotationMoves, RotStarts, RotIdles, RotGoesOn, RotMakes, RotChanges, PromotesSpec,
           PromotesStatus, PromotesBMC
  <2>3. (\E u \in Users : PersonMoves(u) \/ AgesUser(u)) \/ OnlyCaches
          => RotationsSame \/ UNCHANGED rotations
    BY DEF PersonMoves, UserStarts, RepointsUser, AnnotatesUser, DeletesUser, CollectsOwn,
           OnlyCaches, AgesUser
  <2> QED
    BY <1>1, <1>2, <1>3, <2>1, <2>2, <2>3 DEF AllMoves
<1>5. PersistsOwn'
  <2>1. CASE rotJob' \in {Idle, rotJob}
    BY <2>1, OfRotationStays DEF PersistsOwn, OfRotation
  <2>2. CASE RotMakes
    <3>1. rotJob.rot # 0
      BY <2>2, RotJobFields DEF RotMakes, RotMoves, IInv
    <3> QED
      BY <2>2, <3>1 DEF RotMakes, Makes, PersistsOwn, OfRotation
  <2>3. CASE rotJob' # Idle /\ rotJob'.pc # "persist"
    BY <2>3 DEF PersistsOwn
  <2>4. UserMoves => UNCHANGED rotJob
    BY DEF UserMoves, UserIdles, LooksOnly, AdoptsSpec, SyncsBMC, LogsInUnknown, LogsInFound,
           MakesOwn, RefersToOwn, WritesAccount, RecordsAccount, FollowsSpec, PrunesOwn,
           Concludes, AsksRotation, DeletesAccount, RemovesUser, Steady
  <2>5. RotationMoves => rotJob' = Idle \/ RotMakes \/ rotJob'.pc # "persist"
    BY DEF RotationMoves, RotStarts, RotIdles, RotGoesOn, RotPersists, RotChanges, PromotesSpec,
           PromotesStatus, PromotesBMC, RotMoves
  <2>6. (\E u \in Users : PersonMoves(u) \/ AgesUser(u)) \/ OnlyCaches => rotJob' \in {Idle, rotJob}
    BY DEF PersonMoves, UserStarts, RepointsUser, AnnotatesUser, DeletesUser, CollectsOwn,
           OnlyCaches, AgesUser, Bystanders
  <2> QED
    BY <2>1, <2>2, <2>3, <2>4, <2>5, <2>6 DEF AllMoves
<1> QED
  BY <1>4, <1>5

\* Where a reconcile is about to remove a user it found no account, deleted it, or
\* the user is an admin.
LEMMA FinalizersReached ==
    ASSUME AllMoves, userJob' # Idle, userJob'.pc = "finalizer"
    PROVE  \/ UNCHANGED userJob
           \/ userJob'.user = userJob.user /\ UNCHANGED password
              /\ (userJob.user \in Admins \/ password[userJob.user] = None)
           \/ DeletesAccount
<1>1. UserMoves => \/ userJob'.user = userJob.user /\ UNCHANGED password
                      /\ (userJob.user \in Admins \/ password[userJob.user] = None)
                   \/ DeletesAccount
  BY DEF UserMoves, UserIdles, LooksOnly, AdoptsSpec, SyncsBMC, LogsInUnknown, LogsInFound,
         GoesOnBy, MakesOwn, RefersToOwn, WritesAccount, RecordsAccount, FollowsSpec, PrunesOwn,
         Concludes, AsksRotation, RemovesUser, Steady, Moves
<1>2. RotationMoves => UNCHANGED userJob
  BY DEF RotationMoves, RotStarts, RotIdles, RotGoesOn, RotMakes, RotPersists, RotChanges,
         PromotesSpec, PromotesStatus, PromotesBMC
<1>3. (\E u \in Users : PersonMoves(u) \/ AgesUser(u)) \/ OnlyCaches => UNCHANGED userJob
  BY DEF PersonMoves, UserStarts, RepointsUser, AnnotatesUser, DeletesUser, CollectsOwn,
         OnlyCaches, AgesUser, Bystanders
<1> QED
  BY <1>1, <1>2, <1>3 DEF AllMoves

\* Those that are gone, or about to be, have no account, or have it by a rotation.
LEMMA AccountsKeepGone ==
    ASSUME IInv, Shape, LeavingInv, AccountsGoInv, AllMoves, MadeStays,
           PresenceStays \/ RemovesUser
    PROVE  LeavesNothing' /\ GoneLeftNothing'
<1> DEFINE u == userJob.user
           Left(v) == OfRotation(password[v])
<1>0. /\ userJob # Idle => u \in Users
      /\ DOMAIN password = Accounts /\ Users \subseteq Accounts
      /\ Services \subseteq Users /\ Admins \cap Services = {}
  BY UserJobFields, CredentialAssumption DEF Shape, StoreShape, Accounts, Users
\* A password becomes None, one of a rotation's, or that of a user which is there.
<1>1. ASSUME NEW v \in Services, Left(v)
      PROVE  \/ OfRotation(password[v])'
             \/ v = u /\ userJob # Idle /\ users[u].exists /\ ~RemovesUser
                /\ userJob'.pc # "finalizer"
  <2>1. CASE password'[v] = password[v]
    BY <1>1, <2>1, OfRotationStays DEF OfRotation
  <2>2. CASE password'[v] = None
    BY <2>2 DEF OfRotation
  <2>3. CASE RotChanges
    <3>1. /\ rotJob # Idle /\ rotJob.pc = "change"
          /\ password' = [password EXCEPT ![Who] = rotJob.secret]
      BY <2>3 DEF RotChanges, RotMoves
    <3>2. rotJob.rot \in DOMAIN rotations /\ rotJob.secret = rotations[rotJob.rot].new
      BY <3>1 DEF IInv, RotJobInv, Decided
    <3>3. OfRotation(rotJob.secret)
      BY <3>2 DEF AccountsGoInv, RotationSecrets
    <3>4. password'[v] = password[v] \/ password'[v] = rotJob.secret
      BY <1>0, <3>1
    <3> QED
      BY <2>1, <3>3, <3>4, OfRotationStays DEF OfRotation
  <2>4. CASE userJob # Idle /\ userJob.pc \in {"account", "follow"} /\ SetsPassword
             /\ userJob'.pc # "finalizer"
    <3>1. v # u => password'[v] = password[v]
      BY <1>0, <2>4 DEF SetsPassword
    <3>2. users[u].exists /\ ~RemovesUser
      BY <2>4 DEF LeavingInv, LeavingJob, Removing, RemovesUser
    <3> QED
      BY <2>1, <2>4, <3>1, <3>2
  <2>5. CASE DeletesAccount
    <3>1. password'[v] = password[v] \/ password'[v] = None
      BY <1>0, <2>5 DEF DeletesAccount
    <3> QED
      BY <2>1, <2>2, <3>1
  <2> QED
    BY <2>1, <2>3, <2>4, <2>5, PasswordMoves
<1>2. LeavesNothing'
  <2> SUFFICES ASSUME userJob' # Idle, userJob'.pc = "finalizer", userJob'.user \in Services
               PROVE  OfRotation(password[userJob.user])'
    BY DEF LeavesNothing
  <2>1. CASE UNCHANGED userJob
    <3>1. Left(u) /\ u \in Services /\ userJob'.pc = "finalizer"
      BY <2>1 DEF AccountsGoInv, LeavesNothing
    <3>2. PICK v \in Services : v = u
      BY <3>1
    <3>3. OfRotation(password[v])'
      BY <1>1, <3>1, <3>2
    <3> QED
      BY <2>1, <3>2, <3>3 DEF OfRotation
  <2>2. CASE userJob'.user = u /\ UNCHANGED password
             /\ (u \in Admins \/ password[u] = None)
    BY <1>0, <2>2 DEF OfRotation
  <2>3. CASE DeletesAccount
    BY <1>0, <2>3 DEF DeletesAccount, Moves, OfRotation
  <2> QED
    BY <2>1, <2>2, <2>3, FinalizersReached
<1>3. GoneLeftNothing'
  <2> SUFFICES ASSUME NEW v \in Services, ~users'[v].exists
               PROVE  OfRotation(password[v])'
    BY DEF GoneLeftNothing
  <2>1. CASE ~users[v].exists
    <3>1. Left(v)
      BY <2>1 DEF AccountsGoInv, GoneLeftNothing
    <3> QED
      BY <1>1, <2>1, <3>1
  <2>2. CASE users[v].exists
    <3>1. RemovesUser
      BY <1>0, <2>2 DEF PresenceStays
    <3>2. v = u /\ userJob # Idle /\ userJob.pc = "finalizer"
      BY <1>0, <2>2, <3>1 DEF RemovesUser
    <3>3. Left(v)
      BY <3>2 DEF AccountsGoInv, LeavesNothing
    <3> QED
      BY <1>1, <3>1, <3>3
  <2> QED
    BY <2>1, <2>2
<1> QED
  BY <1>2, <1>3

\* At first nobody is gone, and no rotation has a secret.
LEMMA AccountsGoAtFirst ==
    ASSUME Init
    PROVE  AccountsGoInv
<1>1. \A u \in Services : users[u].exists
  BY UsersAtFirst DEF Users
<1>2. rotations = << >> /\ userJob = Idle /\ rotJob = Idle
  BY DEF Init
<1> QED
  BY <1>1, <1>2 DEF AccountsGoInv, RotationSecrets, PersistsOwn, LeavesNothing, GoneLeftNothing

\* When a ServiceAccount has been deleted no account is left behind on the BMC for
\* good, whatever the caches show, however the workers interleave and whichever
\* call fails, unless a rotation of it, which looks at its user only when it
\* starts, has written it.
THEOREM AccountsGo == Spec => []DeletedAccountsGone
<1>1. Init => AccountsGoInv
  BY AccountsGoAtFirst
<1>2. IInv /\ Shape /\ LeavingInv /\ AccountsGoInv /\ [Next]_vars => AccountsGoInv'
  <2> SUFFICES ASSUME IInv, Shape, LeavingInv, AccountsGoInv, [Next]_vars
               PROVE  AccountsGoInv'
    OBVIOUS
  <2>1. AllMoves /\ IInv'
    BY EveryStep
  <2>2. PresenceStays \/ RemovesUser
    BY <2>1, UserMovesLeaving, RotationMovesLeaving, OtherMovesLeaving DEF AllMoves
  <2>3. MadeStays
    BY <2>1, SecretsStayMade
  <2> QED
    BY <2>1, <2>2, <2>3, RotationsReferToOwn, AccountsKeepGone DEF AccountsGoInv
<1>3. AccountsGoInv => DeletedAccountsGone
  BY DEF AccountsGoInv, GoneLeftNothing, OfRotation, DeletedAccountsGone
<1> QED
  BY <1>1, <1>2, <1>3, AlwaysInShape, AlwaysKnownToLeave, PTL DEF Spec

-----------------------------------------------------------------------------
(* A rotation in flight keeps the secrets it has made                      *)

\* Secrets only go by pruning and by the garbage collector.
LEMMA SecretsGo ==
    ASSUME AllMoves
    PROVE  live \subseteq live' \/ PrunesOwn \/ \E u \in Users : CollectsOwn(u)
<1>1. UserMoves => live \subseteq live' \/ PrunesOwn
  BY DEF UserMoves, UserIdles, LooksOnly, AdoptsSpec, SyncsBMC, LogsInUnknown, LogsInFound,
         MakesOwn, Makes, RefersToOwn, WritesAccount, RecordsAccount, FollowsSpec, Concludes,
         AsksRotation, DeletesAccount, RemovesUser, Steady
<1>2. RotationMoves => live \subseteq live'
  BY DEF RotationMoves, RotStarts, RotIdles, RotGoesOn, RotMakes, Makes, RotPersists, RotChanges,
         PromotesSpec, PromotesStatus, PromotesBMC
<1>3. (\E u \in Users : PersonMoves(u) \/ AgesUser(u)) \/ OnlyCaches
        => live \subseteq live' \/ \E u \in Users : CollectsOwn(u)
  BY DEF PersonMoves, UserStarts, RepointsUser, Makes, AnnotatesUser, DeletesUser,
         OnlyCaches, AgesUser
<1> QED
  BY <1>1, <1>2, <1>3 DEF AllMoves

\* A secret's label is that of a rotation its owner's reconcile can see.
LabelsKnown ==
    \A s \in DOMAIN made :
        made[s].label # 0 =>
            /\ made[s].label \in DOMAIN cache.rotations
            /\ made[s].owner = rotations[made[s].label].user
\* A rotation that is seen to be over is over.
FlightsSeen ==
    \A r \in DOMAIN cache.rotations : InFlight(rotations[r]) => InFlight(cache.rotations[r])
\* What is seen to be in flight has its secrets.
FlightsKeep ==
    \A r \in DOMAIN cache.rotations :
        InFlight(cache.rotations[r]) /\ users[rotations[r].user].exists =>
            \A s \in DOMAIN made : made[s].label = r => s \in live
FlightInv == LabelsKnown /\ FlightsSeen /\ FlightsKeep

\* What is over stays so, unless the cache still shows it in flight.
EndedStays ==
    \A r \in DOMAIN rotations :
        InFlight(rotations'[r]) =>
            \/ InFlight(rotations[r])
            \/ r \in DOMAIN cache.rotations /\ InFlight(cache.rotations[r])
\* The cache shows what is stored, or phases and secrets it has shown before.
PhasesTrail ==
    \/ cache'.rotations = rotations'
    \/ /\ DOMAIN cache'.rotations = DOMAIN cache.rotations
       /\ \A r \in DOMAIN cache.rotations :
              /\ cache'.rotations[r].phase = cache.rotations[r].phase
              /\ cache'.rotations[r].new = cache.rotations[r].new

\* A write of rotation r that does not start it again.
LEMMA PatchEnds ==
    ASSUME IInv, NEW r \in DOMAIN rotations, NEW new,
           rotations' = [rotations EXCEPT ![r] = new],
           InFlight(new) => InFlight(rotations[r])
                            \/ (r \in DOMAIN cache.rotations /\ InFlight(cache.rotations[r]))
    PROVE  EndedStays
BY DEF EndedStays, IInv

\* The steps of a rotation's reconcile never start it again.
LEMMA RotationStepEnds ==
    ASSUME IInv, Shape, RotationController!RotationStep
    PROVE  EndedStays
<1> DEFINE r == rotJob.rot
           stored == rotations[r]
<1> USE DEF RotationController!At, RotationController!objects
<1>1. CASE UNCHANGED rotations
  BY <1>1 DEF EndedStays
<1>2. CASE ~UNCHANGED rotations
  <2>1. rotJob # Idle /\ \E new : /\ rotations' = [rotations EXCEPT ![r] = new]
                                  /\ InFlight(new) => InFlight(stored)
    <3>1. rotJob # Idle
      BY DEF RotationController!RotationStep, RotationController!executeDualAccount,
         RotationController!executeSingleAccount, RotationController!CreateSecret,
         RotationController!PersistSecretRef, RotationController!ChangePassword,
         RotationController!TryPassword, RotationController!GiveUp,
         RotationController!PromoteToSpec, RotationController!PromoteToStatus,
         RotationController!PromoteToBMC, RotationController!Succeed
    <3>2. stored \in Rot
      BY <3>1, RotJobFields
    <3> DEFINE Writes(new) == rotations' = [rotations EXCEPT ![r] = new]
               Failed == RotationController!Failed(stored)
               Persisted == [stored EXCEPT !.new = rotJob.secret]
               Counted == [stored EXCEPT !.retries = rotJob.me.retries + 1]
               Succeeded == [stored EXCEPT !.phase = "Succeeded"]
    <3>3. /\ Failed.phase = "Failed" /\ Persisted.phase = stored.phase
          /\ Counted.phase = stored.phase /\ Succeeded.phase = "Succeeded"
      BY <3>2 DEF Rot, RotationController!Failed
    <3> HIDE DEF Failed, Persisted, Counted, Succeeded
    <3>4. RotationController!setFailed => Writes(Failed)
      BY <1>2 DEF RotationController!setFailed, RotationController!Requeue,
         RotationController!PatchRotation, Failed
    <3>5. RotationController!PersistSecretRef => Writes(Persisted)
      BY <1>2 DEF RotationController!PersistSecretRef, RotationController!Requeue,
         RotationController!PatchRotation, Persisted
    <3>6. RotationController!TryPassword => Writes(Counted)
      BY <1>2 DEF RotationController!TryPassword, RotationController!Requeue,
         RotationController!PatchRotation, RotationController!Goto, Counted
    <3>7. RotationController!Succeed => Writes(Succeeded)
      BY <1>2 DEF RotationController!Succeed, RotationController!Requeue,
         RotationController!PatchRotation, Succeeded
    <3>8. RotationController!executeDualAccount => RotationController!setFailed
      BY <1>2 DEF RotationController!executeDualAccount, RotationController!LoginAs,
         RotationController!Requeue
    <3>9. \/ RotationController!setFailed \/ RotationController!PersistSecretRef
          \/ RotationController!TryPassword \/ RotationController!Succeed
      BY <1>2, <3>8
         DEF RotationController!RotationStep, RotationController!executeSingleAccount,
         RotationController!LoginAs, RotationController!CreateSecret,
         RotationController!ChangePassword, RotationController!GiveUp,
         RotationController!PromoteUser, RotationController!PromoteToSpec,
         RotationController!PromoteToStatus, RotationController!PromoteToBMC,
         RotationController!Requeue
    <3> HIDE DEF Writes
    <3>10. \E new : Writes(new) /\ (InFlight(new) => InFlight(stored))
      BY <3>3, <3>4, <3>5, <3>6, <3>7, <3>9 DEF InFlight
    <3> QED
      BY <3>1, <3>10 DEF Writes
  <2> QED
    BY <2>1, RotJobFields, PatchEnds
<1> QED
  BY <1>1, <1>2

\* A start goes by the cached copy.
LEMMA RotationStartEnds ==
    ASSUME IInv, Shape, NEW r \in rotQueue, RotationController!Start(r)
    PROVE  EndedStays
<1> DEFINE me == cache.rotations[r]
           stored == rotations[r]
           user == cache.users[me.user]
           new == IF ~user.exists THEN RotationController!Failed(stored)
                  ELSE [stored EXCEPT !.phase = RotationController!Merge(me.phase, "InProgress", @)]
<1>1. CASE UNCHANGED rotations
  BY <1>1 DEF EndedStays
<1>2. CASE ~UNCHANGED rotations
  <2>1. rotations' = [rotations EXCEPT ![r] = new] /\ RotationController!InFlight(me)
    BY <1>2 DEF RotationController!Start
  <2>2. r \in DOMAIN rotations /\ r \in DOMAIN cache.rotations
    BY CacheTrails DEF Shape, CacheShape
  <2>3. InFlight(me)
    BY <2>1 DEF InFlight, RotationController!InFlight
  <2> HIDE DEF new
  <2> QED
    BY <2>1, <2>2, <2>3, PatchEnds
<1> QED
  BY <1>1, <1>2

\* No step starts again what is seen to be over, and the cache trails.
LEMMA FlightSteps ==
    ASSUME IInv, Shape, [Next]_vars
    PROVE  EndedStays /\ PhasesTrail
<1>1. Delivers => PhasesTrail
  BY DeliveryMoves DEF Delivers, PhasesTrail
<1>2. CASE UserController!UserStep
  <2>1. UserMoves /\ Delivers
    BY <1>2, UserStepMoves
  <2>2. UNCHANGED rotations \/ AsksRotation
    BY <2>1 DEF UserMoves, UserIdles, LooksOnly, AdoptsSpec, SyncsBMC, LogsInUnknown, LogsInFound,
           MakesOwn, RefersToOwn, WritesAccount, RecordsAccount, FollowsSpec, PrunesOwn,
           Concludes, DeletesAccount, RemovesUser, Steady
  <2> QED
    BY <1>1, <2>1, <2>2 DEF EndedStays, AsksRotation
<1>3. CASE RotationController!RotationStep
  BY <1>1, <1>3, RotationStepMoves, RotationStepEnds
<1>4. ASSUME NEW r \in rotQueue, RotationController!Start(r)
      PROVE  EndedStays /\ PhasesTrail
  BY <1>1, <1>4, RotationStartMoves, RotationStartEnds
<1>5. ASSUME NEW u \in Users, UserController!Start(u)
      PROVE  EndedStays /\ PhasesTrail
  <2>1. UserStarts(u) /\ Delivers
    BY <1>5, UserStartMoves
  <2> QED
    BY <1>1, <2>1 DEF UserStarts, EndedStays
<1>6. ASSUME NEW u \in Users, Age(u)
      PROVE  EndedStays /\ PhasesTrail
  <2>1. AgesUser(u)
    BY <1>6, AgeMoves
  <2> QED
    BY <2>1 DEF AgesUser, EndedStays, PhasesTrail
<1>7. ASSUME NEW u \in Users, Annotate(u) \/ Repoint(u) \/ RequestDeletion(u)
      PROVE  EndedStays /\ PhasesTrail
  <2>1. UNCHANGED rotations /\ Deliver
    BY <1>7 DEF Annotate, Repoint, RequestDeletion, ByPerson
  <2> QED
    BY <1>1, <2>1 DEF EndedStays, Deliver, Delivers
<1>8. ASSUME NEW u \in Users, CollectGarbage(u)
      PROVE  EndedStays /\ PhasesTrail
  <2> DEFINE its == {r \in DOMAIN rotations : rotations[r].user = u /\ rotations[r].phase # "Gone"}
  <2>1. /\ rotations' = [r \in DOMAIN rotations |->
                            IF r \in its THEN [rotations[r] EXCEPT !.phase = "Gone"] ELSE rotations[r]]
        /\ Deliver
    BY <1>8 DEF CollectGarbage
  <2>2. \A r \in DOMAIN rotations : rotations[r] \in Rot
    BY DEF IInv
  <2>3. EndedStays
    BY <2>1, <2>2 DEF EndedStays, InFlight, Rot
  <2> QED
    BY <1>1, <2>1, <2>3 DEF Deliver, Delivers
<1>9. ASSUME NEW r \in DOMAIN rotations, CoolDown(r)
      PROVE  EndedStays /\ PhasesTrail
  <2> DEFINE new == [rotations[r] EXCEPT !.recent = FALSE]
             cooled == [i \in DOMAIN cache.rotations |->
                          IF i = r THEN [cache.rotations[i] EXCEPT !.recent = FALSE]
                          ELSE cache.rotations[i]]
  <2>1. /\ rotations' = [rotations EXCEPT ![r] = new]
        /\ cache' = [cache EXCEPT !.rotations = cooled]
    BY <1>9 DEF CoolDown
  <2>2. /\ \A i \in DOMAIN rotations : rotations[i] \in Rot
        /\ \A i \in DOMAIN cache.rotations : cache.rotations[i] \in Rot
    BY DEF IInv, CacheTyped
  <2>3. new.phase = rotations[r].phase
    BY <2>2 DEF Rot
  <2>4. DOMAIN cooled = DOMAIN cache.rotations
        /\ \A i \in DOMAIN cooled : /\ cooled[i].phase = cache.rotations[i].phase
                                    /\ cooled[i].new = cache.rotations[i].new
    BY <2>2 DEF Rot
  <2> HIDE DEF new, cooled
  <2>5. cache'.rotations = cooled
    BY <2>1 DEF IInv, CacheTyped, Kinds
  <2>6. EndedStays
    BY <2>1, <2>3, PatchEnds DEF InFlight
  <2> QED
    BY <2>4, <2>5, <2>6 DEF PhasesTrail
<1>10. ASSUME NEW k \in Lagging, Refresh(k)
       PROVE  EndedStays /\ PhasesTrail
  <2>1. cache' = [cache EXCEPT ![k] = Store[k]] /\ UNCHANGED rotations
    BY <1>10 DEF Refresh, objects
  <2>2. cache'.rotations = IF k = "rotations" THEN rotations ELSE cache.rotations
    BY <2>1, CredentialAssumption DEF IInv, CacheTyped, Kinds, Store
  <2> QED
    BY <2>1, <2>2 DEF EndedStays, PhasesTrail
<1>11. CASE Failures
  <2>1. UNCHANGED rotations
    BY <1>11 DEF Failures, UserController!FailUser, RotationController!FailRotation,
                UserController!objects, RotationController!objects, Restart, objects
  <2>2. (\E uq, rq : DeliverTo(uq, rq)) \/ cache' = Store
    BY <1>11, SameDelivery
       DEF Failures, UserController!FailUser, RotationController!FailRotation, Restart
  <2>3. PhasesTrail
    BY <2>1, <2>2, DeliveryMoves DEF PhasesTrail, Store
  <2> QED
    BY <2>1, <2>3 DEF EndedStays
<1>12. CASE UNCHANGED vars
  BY <1>12 DEF vars, EndedStays, PhasesTrail
<1> QED
  BY <1>2, <1>3, <1>4, <1>5, <1>6, <1>7, <1>8, <1>9, <1>10, <1>11, <1>12 DEF Next, Environment

\* Every step keeps a rotation's secrets while it is seen to be in flight.
LEMMA FlightsStay ==
    ASSUME IInv, IInv', Shape, AllMoves, FlightInv, MadeStays, RotationsStay, EndedStays, PhasesTrail,
           PresenceStays \/ RemovesUser
    PROVE  FlightInv'
<1>1. \/ made' = made
      \/ \E u, label : Makes(u, label) /\ (label # 0 => RotMakes /\ label = rotJob.rot /\ u = Who)
  BY SecretsMade
<1>2. DOMAIN cache.rotations \subseteq DOMAIN rotations
  BY CacheTrails
<1>3. DOMAIN cache.rotations \subseteq DOMAIN cache'.rotations
  BY <1>2 DEF PhasesTrail, RotationsStay
<1>4. \A r \in DOMAIN cache.rotations : rotations'[r].user = rotations[r].user
  BY <1>2 DEF RotationsStay
<1>5. FlightsSeen'
  <2>1. CASE cache'.rotations = rotations'
    BY <2>1 DEF FlightsSeen
  <2>2. CASE /\ DOMAIN cache'.rotations = DOMAIN cache.rotations
             /\ \A r \in DOMAIN cache.rotations :
                    cache'.rotations[r].phase = cache.rotations[r].phase
    <3> SUFFICES ASSUME NEW r \in DOMAIN cache.rotations, InFlight(rotations'[r])
                 PROVE  InFlight(cache'.rotations[r])
      BY <2>2 DEF FlightsSeen
    <3>1. InFlight(cache.rotations[r])
      BY <1>2 DEF EndedStays, FlightInv, FlightsSeen
    <3> QED
      BY <2>2, <3>1 DEF InFlight
  <2> QED
    BY <2>1, <2>2 DEF PhasesTrail
<1>6. LabelsKnown'
  <2> SUFFICES ASSUME NEW s \in DOMAIN made', made'[s].label # 0
               PROVE  /\ made'[s].label \in DOMAIN cache'.rotations
                      /\ made'[s].owner = rotations'[made'[s].label].user
    BY DEF LabelsKnown
  <2>1. CASE s \in DOMAIN made
    BY <1>3, <1>4, <2>1 DEF FlightInv, LabelsKnown, MadeStays
  <2>2. CASE s \notin DOMAIN made
    <3>1. /\ RotMakes /\ made'[s].label = rotJob.rot /\ made'[s].owner = Who
      BY <1>1, <2>2 DEF Makes
    <3>2. /\ rotJob # Idle /\ rotJob.rot \in DOMAIN cache.rotations
          /\ Who = rotations[rotJob.rot].user
      BY <3>1, RotJobFields DEF RotMakes, RotMoves, Shape, JobShape
    <3> QED
      BY <1>3, <1>4, <3>1, <3>2
  <2> QED
    BY <2>1, <2>2
<1>7. FlightsKeep'
  <2> SUFFICES ASSUME NEW r \in DOMAIN cache'.rotations, InFlight(cache'.rotations[r]),
                      users'[rotations'[r].user].exists,
                      NEW s \in DOMAIN made', made'[s].label = r
               PROVE  s \in live'
    BY DEF FlightsKeep
  <2>1. CASE s \notin DOMAIN made
    BY <1>1, <2>1 DEF Makes
  <2>2. CASE s \in DOMAIN made
    <3>1. made[s].label = r
      BY <2>2 DEF MadeStays
    <3>2. r # 0
      BY DEF IInv, CacheTyped
    <3>3. r \in DOMAIN cache.rotations /\ made[s].owner = rotations[r].user
      BY <2>2, <3>1, <3>2 DEF FlightInv, LabelsKnown
    <3>4. rotations'[r].user = rotations[r].user
      BY <1>4, <3>3
    <3>5. InFlight(cache.rotations[r])
      <4>1. CASE cache'.rotations = rotations'
        BY <1>2, <3>3, <4>1 DEF EndedStays, FlightInv, FlightsSeen
      <4>2. CASE cache'.rotations[r].phase = cache.rotations[r].phase
        BY <4>2 DEF InFlight
      <4> QED
        BY <3>3, <4>1, <4>2 DEF PhasesTrail
    <3>6. rotations[r].user \in Users
      <4>1. rotations[r] \in Rot
        BY <1>2, <3>3 DEF IInv
      <4> QED
        BY <4>1 DEF Rot
    <3>7. users[rotations[r].user].exists
      <4>1. CASE PresenceStays
        BY <3>4, <3>6, <4>1 DEF PresenceStays
      <4>2. CASE RemovesUser
        <5>1. userJob # Idle /\ ~users'[userJob.user].exists
          BY <4>2, UserJobFields DEF RemovesUser, UserFields
        <5> QED
          BY <3>4, <3>6, <4>2, <5>1 DEF RemovesUser
      <4> QED
        BY <4>1, <4>2
    <3>8. s \in live
      BY <2>2, <3>1, <3>3, <3>5, <3>7 DEF FlightInv, FlightsKeep
    <3>9. CASE PrunesOwn
      <4>1. s \notin live' => /\ made[s].owner = userJob.user
                              /\ made[s].label \notin RunningOf(userJob.user)
        BY <3>8, <3>9 DEF PrunesOwn
      <4>2. cache.rotations[r].user = rotations[r].user
        BY <3>3 DEF Shape, CacheShape
      <4>3. r \in 1..Len(cache.rotations)
        BY <3>3 DEF IInv, CacheTyped
      <4> QED
        BY <3>1, <3>3, <3>5, <4>1, <4>2, <4>3 DEF RunningOf
    <3>10. ASSUME NEW u \in Users, CollectsOwn(u)
           PROVE  s \in live'
      BY <3>3, <3>7, <3>8, <3>10 DEF CollectsOwn
    <3> QED
      BY <3>8, <3>9, <3>10, SecretsGo
  <2> QED
    BY <2>1, <2>2
<1> QED
  BY <1>5, <1>6, <1>7 DEF FlightInv

\* At first no secret is labelled, and no rotation is there.
LEMMA FlightAtFirst ==
    ASSUME Init
    PROVE  FlightInv
<1>1. rotations = << >> /\ cache.rotations = << >>
  BY DEF Init, Store
<1>2. \A s \in DOMAIN made : made[s].label = 0
  <2>1. CASE Bootstrapped
    <3> DEFINE it(own, s) ==
                 IF s = Factory THEN FactorySecret
                 ELSE LET u == CHOOSE u \in Users : own[u] = s IN
                      [account |-> u, owner |-> u, label |-> 0, bad |-> FALSE]
    <3>1. \A own, s : it(own, s).label = 0
      BY DEF FactorySecret
    <3>2. PICK own : made = [s \in 1..(Cardinality(Users) + 1) |-> it(own, s)]
      BY <2>1 DEF Init, InitBootstrapped
    <3> HIDE DEF it
    <3> QED
      BY <3>1, <3>2
  <2>2. CASE ~Bootstrapped
    <3>1. made = <<FactorySecret>>
      BY <2>2 DEF Init, InitFresh
    <3>2. \A s \in DOMAIN <<FactorySecret>> : <<FactorySecret>>[s].label = 0
      BY DEF FactorySecret
    <3> QED
      BY <3>1, <3>2
  <2> QED
    BY <2>1, <2>2, CredentialAssumption
<1> QED
  BY <1>1, <1>2 DEF FlightInv, LabelsKnown, FlightsSeen, FlightsKeep

\* While a rotation is in flight and its user is there, every secret it has made
\* is kept, also before newSecretRef is persisted: pruneOldSecrets lists the
\* rotations from the cache, which may trail, but none that is in flight is seen
\* to be over.  This needs no assumption on workers, caches or failures.
THEOREM InFlightKept == Spec => []InFlightSecretsKept
<1>1. Init => FlightInv
  BY FlightAtFirst
<1>2. IInv /\ Shape /\ LeavingInv /\ FlightInv /\ [Next]_vars => FlightInv'
  <2> SUFFICES ASSUME IInv, Shape, LeavingInv, FlightInv, [Next]_vars
               PROVE  FlightInv'
    OBVIOUS
  <2>1. AllMoves /\ RotationsStay /\ IInv'
    BY EveryStep
  <2>2. PresenceStays \/ RemovesUser
    BY <2>1, UserMovesLeaving, RotationMovesLeaving, OtherMovesLeaving DEF AllMoves
  <2>3. MadeStays
    BY <2>1, SecretsStayMade
  <2>4. EndedStays /\ PhasesTrail
    BY FlightSteps
  <2> QED
    BY <2>1, <2>2, <2>3, <2>4, FlightsStay
<1>3. IInv /\ FlightInv => InFlightSecretsKept
  <2> SUFFICES ASSUME IInv, FlightInv, NEW r \in DOMAIN rotations, InFlight(rotations[r]),
                      users[rotations[r].user].exists,
                      NEW s \in DOMAIN made, made[s].label = r
               PROVE  s \in live
    BY DEF InFlightSecretsKept
  <2>1. r # 0
    BY DEF IInv
  <2>2. r \in DOMAIN cache.rotations
    BY <2>1 DEF FlightInv, LabelsKnown
  <2> QED
    BY <2>2 DEF FlightInv, FlightsSeen, FlightsKeep
<1> QED
  BY <1>1, <1>2, <1>3, AlwaysInShape, AlwaysKnownToLeave, PTL DEF Spec

\* Each user's secret is its own: as many secrets as users.
LEMMA OwnSecrets ==
    ASSUME NEW own \in [Users -> 2..(Cardinality(Users) + 1)],
           {own[u] : u \in Users} = 2..(Cardinality(Users) + 1)
    PROVE  \A u, v \in Users : own[u] = own[v] => u = v
<1> DEFINE T == 2..(Cardinality(Users) + 1)
<1>1. IsFiniteSet(Users) /\ Cardinality(Users) \in Nat
  BY CredentialAssumption, FS_CardinalityType
<1>2. Cardinality(T) = Cardinality(Users)
  <2>1. Cardinality(T) = IF 2 > Cardinality(Users) + 1 THEN 0 ELSE Cardinality(Users) + 1 - 2 + 1
    BY <1>1, FS_Interval
  <2> QED
    BY <1>1, <2>1
<1>3. own \in Surjection(Users, T)
  BY DEF Surjection
<1>4. own \in Injection(Users, T)
  <2> HIDE DEF T
  <2> QED
    BY <1>1, <1>2, <1>3, FS_SurjSameCardinalityImpliesInj
<1> QED
  BY <1>4 DEF Injection, IsInjective
=============================================================================
