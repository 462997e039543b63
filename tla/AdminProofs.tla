---------------------------- MODULE AdminProofs ----------------------------
(***************************************************************************)
(* Proofs about Credentials, for all users, bounds and failures, with both *)
(* controllers at work at the same time: some OperatorAdmin always gets in *)
(* by its effective secret; and the state is well formed.                  *)
(*                                                                         *)
(* Why it holds: an admin's account is given a new password only in a turn *)
(* of its own, after a peer was seen to get in; and nothing can shut that  *)
(* peer out before the turn is over.  What an admin's reconcile prunes by  *)
(* an old copy, it prunes while no peer has a turn and one gets in.        *)
(* The last sections prove the types, whatever the caches show.            *)
(***************************************************************************)
EXTENDS CredentialSafetyProofs

\* Only the BMC's cache trails; persons leave the admins and the spec of users.
AdminsLeftAlone ==
    /\ Lagging \subseteq {"bmc"}
    /\ Repointable = {} /\ Admins \cap Deletable = {}
    /\ Bootstrapped

-----------------------------------------------------------------------------
(* The invariant                                                           *)

\* Secret s was made for u, and may be the password of its account.
MadeFor(s, u) == s \in DOMAIN made /\ made[s].account = u /\ made[s].owner = u
GetsInWith(u, s) == password[u] = s /\ ~made[s].bad

\* An admin's rotation that has not ended.
Turn(r) == rotations[r].user \in Admins /\ InFlight(rotations[r])
OtherWorks(u) == \E p \in Admins \ {u} : Works(users[p].eff)

AdminsStand ==
    \A a \in Admins :
        /\ users[a].exists /\ ~users[a].deleting /\ users[a].id
        /\ MadeFor(users[a].spec, a) /\ MadeFor(users[a].eff, a)
RotationsOwn ==
    \A r \in DOMAIN rotations :
        rotations[r].user \in Admins /\ rotations[r].new # None
            => MadeFor(rotations[r].new, rotations[r].user)
OneTurn == \A r, t \in DOMAIN rotations : Turn(r) /\ Turn(t) => r = t

\* An admin whose spec is ahead of its status is being rotated, and its account
\* already has the password of the spec.
SpecAhead ==
    \A a \in Admins : users[a].spec # users[a].eff =>
        /\ GetsInWith(a, users[a].spec)
        /\ \E r \in DOMAIN rotations :
              /\ rotations[r].user = a /\ InFlight(rotations[r])
              /\ rotations[r].new = users[a].spec

\* The copy the user's worker holds: where its spec is ahead, it still is the
\* stored one; where the effective secret has moved on, a peer gets in and
\* has no turn, so that the worker may prune what it does not know.
AheadCopy(u, me) ==
    /\ users[u].spec = me.spec /\ users[u].eff \in {me.eff, me.spec}
    /\ GetsInWith(u, me.spec)
    /\ \A r \in DOMAIN rotations :
          rotations[r].user = u /\ InFlight(rotations[r]) => rotations[r].new = me.spec
StaleCopy(u) ==
    /\ OtherWorks(u)
    /\ \A r \in DOMAIN rotations : Turn(r) => rotations[r].user = u
AdminCopy(u, me) ==
    /\ me.id /\ MadeFor(me.spec, u) /\ MadeFor(me.eff, u)
    /\ me.spec # me.eff => AheadCopy(u, me)
    /\ users[u].eff \notin {me.spec, me.eff} => StaleCopy(u)
Unvisited ==
    {"secret", "ref", "account", "record", "delete", "find", "remove", "finalizer"}
AdminJob ==
    userJob # Idle /\ userJob.user \in Admins =>
        /\ userJob.pc \notin Unvisited
        /\ AdminCopy(userJob.user, userJob.me)

\* The rotation of an admin under way: before the password is changed the
\* worker has a peer's effective secret, and from then on a peer gets in.
AdminTurn ==
    rotJob # Idle /\ Who \in Admins =>
      LET it == users[Who]
          secret == rotJob.secret
      IN  /\ InFlight(rotations[rotJob.rot])
          /\ rotJob.who.spec = it.spec /\ rotJob.who.eff \in DOMAIN made
          /\ secret # None => MadeFor(secret, Who)
          /\ rotJob.pc \notin {"client", "make"} => secret # None
          /\ secret # None /\ rotJob.who.eff = secret => it.eff = secret
          /\ rotJob.pc \in {"make", "persist", "change"} =>
                \E p \in Admins \ {Who} : rotJob.as = users[p].eff /\ rotJob.as \in live
          /\ rotJob.pc \in {"try", "spec", "status", "bmc", "finish"} => OtherWorks(Who)
          /\ rotJob.pc \in {"spec", "status", "bmc", "finish"} => GetsInWith(Who, secret)
          /\ rotJob.pc \in {"status", "bmc", "finish"} => it.spec = secret
          /\ rotJob.pc \in {"bmc", "finish"} => it.eff = secret
          /\ rotJob.pc = "fail" => it.spec = it.eff

RotationsKnown == cache.rotations = rotations

WayInv ==
    /\ AdminsStand /\ RotationsOwn /\ OneTurn /\ SpecAhead
    /\ AdminJob /\ AdminTurn /\ AdminReachable /\ RotationsKnown

-----------------------------------------------------------------------------
(* What the steps tell of turns                                            *)

\* The same after a step.
WillBeFor(s, u) == s \in DOMAIN made' /\ made'[s].account = u /\ made'[s].owner = u
TurnsKept ==
    \A r \in DOMAIN rotations :
        rotations[r].user \in Admins => (InFlight(rotations'[r]) <=> InFlight(rotations[r]))

\* No peer's effective secret can be read.
NoPeer(u) == \A p \in Admins \ {u} : users[p].exists /\ users[p].eff # None => users[p].eff \notin live

\* A turn ends: with success, for want of a peer, or by a rejected password.
TurnEnds ==
    /\ rotJob' = Idle /\ UNCHANGED <<users, made, live, password, userJob>>
    /\ DOMAIN rotations' = DOMAIN rotations
    /\ \A r \in DOMAIN rotations \ {rotJob.rot} : rotations'[r] = rotations[r]
    /\ ~InFlight(rotations'[rotJob.rot])
    /\ rotations'[rotJob.rot].user = Who
    /\ rotations'[rotJob.rot].new = rotations[rotJob.rot].new
    /\ \/ rotJob.pc = "finish"
       \/ rotJob.pc = "client" /\ NoPeer(Who)
       \/ rotJob.pc = "fail"

\* A turn goes on: what the worker has seen of the BMC and of its peer.
TurnGoesOn ==
    /\ TurnsKept
    /\ rotJob.pc = "client" =>
          \E p \in Admins \ {Who} : rotJob'.as = users[p].eff /\ rotJob'.as \in live
    /\ rotJob.pc = "client" /\ rotJob'.pc = "change" => rotJob.secret # None
    /\ rotJob.pc \in {"make", "persist"} => rotJob'.as = rotJob.as
    /\ rotJob.pc = "make" => WillBeFor(Len(made) + 1, Who)
    /\ rotJob.pc = "change" => Authenticates(rotJob.as)
    /\ rotJob.pc = "try" /\ rotJob'.pc = "spec" => Authenticates(rotJob.secret)
    /\ rotJob.pc = "try" /\ rotJob'.pc = "fail" => ~Authenticates(rotJob.secret)

\* The worker lets a turn be, and will come back to it.
TurnLeft ==
    /\ rotJob' = Idle /\ TurnsKept
    /\ RotationsSame /\ UNCHANGED <<users, made, live, password, userJob>>

\* The rotation's worker writes its own rotation alone.
LEMMA OtherTurnsStay ==
    ASSUME IInv, rotJob # Idle, NEW new, rotations' = [rotations EXCEPT ![rotJob.rot] = new]
    PROVE  /\ DOMAIN rotations' = DOMAIN rotations
           /\ \A r \in DOMAIN rotations \ {rotJob.rot} : rotations'[r] = rotations[r]
           /\ rotations'[rotJob.rot] = new
           /\ (InFlight(new) <=> InFlight(rotations[rotJob.rot])) => TurnsKept
           /\ new.user = rotations[rotJob.rot].user /\ new.new = rotations[rotJob.rot].new
                => RotationsSame
BY DEF IInv, RotJobInv, TurnsKept, RotationsSame

\* What an admin's rotation tells by a step of its own.
LEMMA TurnMoves ==
    ASSUME IInv, Shape, RotationsKnown, "users" \notin Lagging,
           RotationController!RotationStep, rotJob # Idle, Who \in Admins
    PROVE  TurnGoesOn \/ TurnEnds \/ TurnLeft
<1> DEFINE stored == rotations[rotJob.rot]
           Requeues == RotationController!Requeue
<1> USE DEF RotationController!At, RotationController!Goto, RotationController!objects
<1>1. UNCHANGED rotations => TurnsKept /\ RotationsSame
  BY DEF TurnsKept, RotationsSame
<1>2. /\ DOMAIN rotJob = {"pc", "rot", "me", "who", "bmc", "as", "secret"}
      /\ stored \in Rot /\ rotJob.rot \in DOMAIN rotations /\ stored.user = Who
      /\ cache.users = users /\ cache.rotations = rotations
  BY RotJobFields DEF Shape, CacheShape, RotationsKnown
<1>3. CASE Requeues
  BY <1>1, <1>3 DEF RotationController!Requeue, TurnLeft
\* A write of the rotation that ends the reconcile.
<1>4. ASSUME NEW new, new.user = stored.user, new.new = stored.new,
             rotations' = [rotations EXCEPT ![rotJob.rot] = new] /\ rotJob' = Idle,
             UNCHANGED <<users, made, live, password, userJob>>,
             \/ InFlight(new) <=> InFlight(stored)
             \/ /\ ~InFlight(new)
                /\ \/ rotJob.pc = "finish"
                   \/ rotJob.pc = "client" /\ NoPeer(Who)
                   \/ rotJob.pc = "fail"
      PROVE  TurnEnds \/ TurnLeft
  BY <1>2, <1>4, OtherTurnsStay DEF TurnEnds, TurnLeft
<1> HIDE DEF Requeues
<1>5. CASE RotationController!executeDualAccount /\ ~Requeues
  <2>1. rotJob.pc = "client"
    BY <1>5 DEF RotationController!executeDualAccount
  <2>2. ASSUME NEW p \in RotationController!Peers(Who), cache.users[p].eff \in live,
               RotationController!LoginAs(cache.users[p].eff)
        PROVE  TurnGoesOn
    <3>1. p \in Admins \ {Who}
      BY <2>2 DEF RotationController!Peers
    <3>2. rotJob' = [rotJob EXCEPT !.as = cache.users[p].eff,
                                   !.pc = IF rotJob.me.new # None THEN "change" ELSE "make"]
      BY <2>2 DEF RotationController!LoginAs, RotationController!Reuses
    <3>3. rotJob'.as = users[p].eff /\ UNCHANGED rotations
      BY <1>2, <2>2, <3>2 DEF RotationController!LoginAs
    <3>4. rotJob'.pc = "change" => rotJob.secret # None
      BY <1>2, <2>1, <3>2, Held DEF Decided
    <3> QED
      BY <1>1, <1>2, <2>1, <2>2, <3>1, <3>3, <3>4 DEF TurnGoesOn
  <2>3. CASE /\ RotationController!setFailed
             /\ \A p \in RotationController!Peers(Who) :
                   RotationController!Active(p) \/ cache.users[p].eff \notin live
             /\ \A p \in RotationController!Peers(Who) : ~RotationController!Active(p)
    <3> DEFINE new == RotationController!Failed(stored)
    <3>1. NoPeer(Who)
      BY <1>2, <2>3 DEF NoPeer, RotationController!Peers
    <3>2. /\ rotations' = [rotations EXCEPT ![rotJob.rot] = new] /\ rotJob' = Idle
          /\ UNCHANGED <<users, made, live, password, userJob>>
      BY <1>5, <2>3 DEF RotationController!setFailed, RotationController!PatchRotation, Requeues
    <3>3. ~InFlight(new) /\ new.user = stored.user /\ new.new = stored.new
      BY <1>2 DEF InFlight, RotationController!Failed, Rot
    <3> QED
      BY <1>4, <2>1, <3>1, <3>2, <3>3
  <2> QED
    BY <1>5, <2>2, <2>3 DEF RotationController!executeDualAccount, Who, Requeues
<1>6. CASE RotationController!executeSingleAccount
  BY <1>6 DEF RotationController!executeSingleAccount, RotationController!Dual, Who
<1>7. CASE RotationController!CreateSecret /\ ~Requeues
  <2>1. PICK bad \in BOOLEAN :
           RotationController!Make([account |-> Who, owner |-> Who, label |-> rotJob.rot, bad |-> bad])
    BY <1>7 DEF RotationController!CreateSecret, Requeues, Who
  <2> DEFINE it == [account |-> Who, owner |-> Who, label |-> rotJob.rot, bad |-> bad]
  <2>2. it.account = Who /\ it.owner = Who
    OBVIOUS
  <2>3. made' = Append(made, it)
    BY <2>1 DEF RotationController!Make
  <2> HIDE DEF it
  <2>4. WillBeFor(Len(made) + 1, Who)
    BY <2>2, <2>3 DEF WillBeFor, IInv
  <2>5. rotJob'.as = rotJob.as /\ rotJob.pc = "make" /\ UNCHANGED rotations
    BY <1>2, <1>7 DEF RotationController!CreateSecret, Requeues
  <2> QED
    BY <1>1, <2>4, <2>5 DEF TurnGoesOn
<1>8. CASE RotationController!PersistSecretRef /\ ~Requeues
  <2> DEFINE new == [stored EXCEPT !.new = rotJob.secret]
  <2>1. /\ rotations' = [rotations EXCEPT ![rotJob.rot] = new] /\ rotJob.pc = "persist"
        /\ rotJob' = [rotJob EXCEPT !.me = new, !.pc = "change"]
    BY <1>8 DEF RotationController!PersistSecretRef, RotationController!PatchRotation, Requeues
  <2>2. new.phase = stored.phase
    BY <1>2 DEF Rot
  <2> HIDE DEF new
  <2>3. rotJob'.as = rotJob.as /\ TurnsKept
    BY <1>2, <2>1, <2>2, OtherTurnsStay DEF InFlight
  <2> QED
    BY <2>1, <2>3 DEF TurnGoesOn
<1>9. CASE RotationController!ChangePassword /\ ~Requeues
  <2>1. Authenticates(rotJob.as) /\ rotJob.pc = "change" /\ UNCHANGED rotations
    BY <1>9 DEF RotationController!ChangePassword, RotationController!Authenticates,
                Authenticates, Requeues
  <2> QED
    BY <1>1, <2>1 DEF TurnGoesOn
<1>10. CASE RotationController!TryPassword /\ ~Requeues
  <2> DEFINE counted == [stored EXCEPT !.retries = rotJob.me.retries + 1]
  <2>1. counted.user = stored.user /\ counted.new = stored.new /\ counted.phase = stored.phase
    BY <1>2 DEF Rot
  <2>2. /\ rotJob.pc = "try"
        /\ \/ /\ UNCHANGED rotations /\ Authenticates(rotJob.secret)
              /\ rotJob' = [rotJob EXCEPT !.pc = "spec"]
           \/ /\ ~Authenticates(rotJob.secret)
              /\ rotations' = [rotations EXCEPT ![rotJob.rot] = counted]
              /\ rotJob' = [rotJob EXCEPT !.me = counted, !.pc = "fail"]
           \/ /\ rotJob' = Idle /\ UNCHANGED <<users, made, live, password, userJob>>
              /\ rotations' = [rotations EXCEPT ![rotJob.rot] = counted]
    BY <1>10 DEF RotationController!TryPassword, RotationController!Accepted, Authenticates,
                 RotationController!Authenticates, RotationController!PatchRotation, Requeues
  <2>3. InFlight(counted) <=> InFlight(stored)
    BY <2>1 DEF InFlight
  <2> HIDE DEF counted
  <2>4. CASE /\ UNCHANGED rotations /\ Authenticates(rotJob.secret)
             /\ rotJob' = [rotJob EXCEPT !.pc = "spec"]
    BY <1>1, <1>2, <2>2, <2>4 DEF TurnGoesOn
  <2>5. CASE /\ ~Authenticates(rotJob.secret)
             /\ rotations' = [rotations EXCEPT ![rotJob.rot] = counted]
             /\ rotJob' = [rotJob EXCEPT !.me = counted, !.pc = "fail"]
    <3>1. TurnsKept
      BY <2>3, <2>5, OtherTurnsStay
    <3>2. rotJob'.pc = "fail"
      BY <1>2, <2>5
    <3> QED
      BY <2>2, <2>5, <3>1, <3>2 DEF TurnGoesOn
  <2>6. CASE /\ rotJob' = Idle /\ UNCHANGED <<users, made, live, password, userJob>>
             /\ rotations' = [rotations EXCEPT ![rotJob.rot] = counted]
    BY <1>4, <2>1, <2>3, <2>6
  <2> QED
    BY <2>2, <2>4, <2>5, <2>6
<1>11. CASE /\ \/ RotationController!PromoteToSpec \/ RotationController!PromoteToStatus
               \/ RotationController!PromoteToBMC
            /\ ~Requeues
  <2>1. rotJob.pc \in {"spec", "status", "bmc"} /\ UNCHANGED rotations
    BY <1>11 DEF RotationController!PromoteToSpec, RotationController!PromoteToStatus,
                 RotationController!PromoteToBMC, RotationController!PromoteUser, Requeues
  <2> QED
    BY <1>1, <2>1 DEF TurnGoesOn
<1>12. CASE RotationController!Succeed /\ ~Requeues
  <2> DEFINE new == [stored EXCEPT !.phase = "Succeeded"]
  <2>1. new.user = stored.user /\ new.new = stored.new /\ ~InFlight(new)
    BY <1>2 DEF Rot, InFlight
  <2>2. /\ rotations' = [rotations EXCEPT ![rotJob.rot] = new] /\ rotJob' = Idle
        /\ UNCHANGED <<users, made, live, password, userJob>> /\ rotJob.pc = "finish"
    BY <1>12 DEF RotationController!Succeed, RotationController!PatchRotation, Requeues
  <2> QED
    BY <1>4, <2>1, <2>2
<1>13. CASE RotationController!GiveUp /\ ~Requeues
  <2> DEFINE new == RotationController!Failed(stored)
  <2>1. new.user = stored.user /\ new.new = stored.new /\ ~InFlight(new)
    BY <1>2 DEF Rot, InFlight, RotationController!Failed
  <2>2. /\ rotations' = [rotations EXCEPT ![rotJob.rot] = new] /\ rotJob' = Idle
        /\ UNCHANGED <<users, made, live, password, userJob>> /\ rotJob.pc = "fail"
    BY <1>13 DEF RotationController!GiveUp, RotationController!setFailed,
                 RotationController!PatchRotation, Requeues
  <2> QED
    BY <1>4, <2>1, <2>2
<1> QED
  BY <1>3, <1>5, <1>6, <1>7, <1>8, <1>9, <1>10, <1>11, <1>12, <1>13
     DEF RotationController!RotationStep

\* The worker of another user's rotation leaves the turns.
LEMMA ServiceMoves ==
    ASSUME IInv, Shape, RotationController!RotationStep, rotJob # Idle, Who \notin Admins
    PROVE  TurnsKept
<1>1. \/ UNCHANGED rotations
      \/ \E new : rotations' = [rotations EXCEPT ![rotJob.rot] = new]
  BY DEF RotationController!RotationStep, RotationController!executeDualAccount,
     RotationController!executeSingleAccount, RotationController!CreateSecret,
     RotationController!PersistSecretRef, RotationController!ChangePassword,
     RotationController!TryPassword, RotationController!GiveUp, RotationController!PromoteToSpec,
     RotationController!PromoteToStatus, RotationController!PromoteToBMC,
     RotationController!Succeed, RotationController!Requeue, RotationController!LoginAs,
     RotationController!setFailed, RotationController!PatchRotation,
     RotationController!PromoteUser, RotationController!objects
<1>2. rotations[rotJob.rot].user \notin Admins
  BY RotJobFields
<1> QED
  BY <1>1, <1>2, OtherTurnsStay DEF TurnsKept

\* A reconcile of a rotation starts in its turn, and leaves the others'.
LEMMA TurnStarts ==
    ASSUME IInv, Shape, RotationsKnown, AdminsStand, "users" \notin Lagging,
           NEW r \in rotQueue, RotationController!Start(r)
    PROVE  /\ RotStarts /\ TurnsKept
           /\ rotJob' # Idle /\ rotJob'.me.user \in Admins => InFlight(rotations'[rotJob'.rot])
<1> DEFINE stored == rotations[r]
           user == users[stored.user]
           new == IF ~user.exists THEN RotationController!Failed(stored)
                  ELSE [stored EXCEPT !.phase = "InProgress"]
<1>1. RotStarts /\ rotJob = Idle
  BY RotationStartMoves
     DEF RotationMoves, RotStarts, RotIdles, RotGoesOn, RotMakes, RotPersists, RotChanges,
         PromotesSpec, PromotesStatus, PromotesBMC, RotMoves, RotationController!Start
<1>2. /\ r \in DOMAIN rotations /\ stored \in Rot
      /\ cache.users = users /\ cache.rotations = rotations
  BY DEF IInv, CacheTyped, Shape, CacheShape, RotationsKnown
<1>3. CASE UNCHANGED <<rotations, rotJob>>
  BY <1>1, <1>3 DEF TurnsKept
<1>4. CASE ~UNCHANGED <<rotations, rotJob>>
  <2>1. /\ rotations' = [rotations EXCEPT ![r] = new]
        /\ rotJob' = IF user.exists THEN RotationController!RotationJob(r, new) ELSE Idle
        /\ InFlight(stored)
    BY <1>2, <1>4 DEF RotationController!Start, RotationController!InFlight, InFlight,
                      RotationController!Merge
  <2>2. stored.user \in Admins => InFlight(new)
    BY <1>2 DEF AdminsStand, InFlight, Rot
  <2>3. new.user = stored.user
    BY <1>2 DEF Rot, RotationController!Failed
  <2> HIDE DEF new
  <2>4. /\ rotations'[r] = new
        /\ \A i \in DOMAIN rotations \ {r} : rotations'[i] = rotations[i]
    BY <1>2, <2>1 DEF IInv
  <2>5. TurnsKept
    BY <2>1, <2>2, <2>4 DEF TurnsKept
  <2>6. rotJob' # Idle => rotJob'.rot = r /\ rotJob'.me.user = stored.user
    BY <2>1, <2>3 DEF RotationController!RotationJob
  <2> QED
    BY <1>1, <2>2, <2>4, <2>5, <2>6
<1> QED
  BY <1>3, <1>4

\* An admin asks for a rotation only when no admin has a turn.
LEMMA TurnAsked ==
    ASSUME IInv, Shape, RotationsKnown, AdminsStand, "users" \notin Lagging,
           UserController!UserStep, UserMoves
    PROVE  \/ UNCHANGED rotations
           \/ AsksRotation /\ (userJob.user \in Admins => \A r \in DOMAIN rotations : ~Turn(r))
<1>1. CASE UNCHANGED rotations
  BY <1>1
<1>2. CASE ~UNCHANGED rotations
  <2>1. AsksRotation
    BY <1>2 DEF UserMoves, UserIdles, LooksOnly, AdoptsSpec, SyncsBMC, LogsInUnknown, LogsInFound,
         MakesOwn, RefersToOwn, WritesAccount, RecordsAccount, FollowsSpec, PrunesOwn, Concludes,
         DeletesAccount, RemovesUser, Steady
  <2>2. ~UserController!MustDefer(userJob.user)
    BY <1>2 DEF UserController!UserStep, UserController!objects,
     UserController!Requeue, UserController!Finish, UserController!PatchUser, UserController!At,
     UserController!updateEffectiveSecret, UserController!setEffectiveSecretRef,
     UserController!syncBMCSecretRefToBMC, UserController!Login,
     UserController!createBMCSecretForUser, UserController!setBMCUserSecretRef,
     UserController!CreateAccount, UserController!RecordAccount,
     UserController!reconcileSecretRef, UserController!pruneOldSecrets,
     UserController!SetConditions, UserController!TriggerRotation,
     UserController!ensureBMCUserRotation, UserController!DeleteUser,
     UserController!FindAccount, UserController!DeleteAccount,
     UserController!RemoveFinalizer
  <2>3. cache.users = users /\ cache.rotations = rotations /\ DOMAIN rotations = 1..Len(rotations)
    BY DEF Shape, CacheShape, RotationsKnown, IInv
  <2>4. ASSUME userJob.user \in Admins, NEW r \in DOMAIN rotations, Turn(r)
        PROVE  FALSE
    <3>1. UserController!RotatingIn(cache.rotations, rotations[r].user)
      BY <2>3, <2>4 DEF UserController!RotatingIn, UserController!InFlight, Turn, InFlight
    <3>2. cache.users[rotations[r].user].exists
      BY <2>3, <2>4 DEF AdminsStand, Turn
    <3> QED
      BY <2>2, <2>4, <3>1, <3>2 DEF UserController!MustDefer, Turn
  <2> QED
    BY <2>1, <2>4
<1> QED
  BY <1>1, <1>2

AdminsUndeleted == \A a \in Admins : users'[a].deleting = users[a].deleting

\* Persons ask for no admin's deletion.
LEMMA AdminsStayUndeleted ==
    ASSUME Shape, Admins \cap Deletable = {},
           \/ \E u \in Users : \/ Age(u) \/ Annotate(u) \/ Repoint(u) \/ RequestDeletion(u)
                               \/ CollectGarbage(u) \/ UserController!Start(u)
           \/ \E r \in DOMAIN rotations : CoolDown(r)
           \/ \E k \in Lagging : Refresh(k)
           \/ Failures
           \/ UNCHANGED vars
    PROVE  AdminsUndeleted
<1>1. UNCHANGED users => AdminsUndeleted
  BY DEF AdminsUndeleted
<1>2. ASSUME NEW u \in Users, Age(u) \/ Annotate(u) \/ Repoint(u)
      PROVE  AdminsUndeleted
  <2>1. /\ DOMAIN users[u] = UserFields
        /\ \/ users' = [users EXCEPT ![u] = [users[u] EXCEPT !.due = TRUE]]
           \/ users' = [users EXCEPT ![u] = [users[u] EXCEPT !.annotated = TRUE]]
           \/ users' = [users EXCEPT ![u] = [users[u] EXCEPT !.spec = Len(made) + 1]]
    BY <1>2 DEF Age, Annotate, Repoint, ByPerson, Shape, StoreShape
  <2> QED
    BY <2>1 DEF AdminsUndeleted, UserFields, Shape, StoreShape, Users
<1>3. ASSUME NEW u \in Users, RequestDeletion(u)
      PROVE  AdminsUndeleted
  BY <1>3 DEF RequestDeletion, ByPerson, AdminsUndeleted, Shape, StoreShape, Users
<1>4. CASE Failures
  BY <1>1, <1>4 DEF Failures, UserController!FailUser, RotationController!FailRotation, Restart,
     objects, UserController!objects, RotationController!objects
<1> QED
  BY <1>1, <1>2, <1>3, <1>4 DEF vars, CollectGarbage, UserController!Start,
     UserController!objects, CoolDown, Refresh, objects

\* The clock, persons and failures leave the turns of admins that stand.
LEMMA OthersLeaveTurns ==
    ASSUME IInv, AdminsStand,
           \/ \E u \in Users : \/ Age(u) \/ Annotate(u) \/ Repoint(u) \/ RequestDeletion(u)
                               \/ CollectGarbage(u) \/ UserController!Start(u)
           \/ \E r \in DOMAIN rotations : CoolDown(r)
           \/ \E k \in Lagging : Refresh(k)
           \/ Failures
           \/ UNCHANGED vars
    PROVE  TurnsKept
<1>1. UNCHANGED rotations => TurnsKept
  BY DEF TurnsKept
<1>2. ASSUME NEW u \in Users, CollectGarbage(u)
      PROVE  TurnsKept
  BY <1>2 DEF CollectGarbage, AdminsStand, TurnsKept
<1>3. ASSUME NEW r \in DOMAIN rotations, CoolDown(r)
      PROVE  TurnsKept
  <2>1. /\ rotations' = [rotations EXCEPT ![r] = [rotations[r] EXCEPT !.recent = FALSE]]
        /\ \A i \in DOMAIN rotations : rotations[i] \in Rot
    BY <1>3 DEF CoolDown, IInv
  <2> QED
    BY <2>1 DEF Rot, TurnsKept, InFlight
<1>4. CASE Failures
  BY <1>1, <1>4 DEF Failures, UserController!FailUser, RotationController!FailRotation, Restart,
     objects, UserController!objects, RotationController!objects
<1>5. CASE UNCHANGED vars
  BY <1>1, <1>5 DEF vars
<1>6. ASSUME NEW u \in Users, \/ Age(u) \/ Annotate(u) \/ Repoint(u) \/ RequestDeletion(u)
                              \/ UserController!Start(u)
      PROVE  TurnsKept
  BY <1>1, <1>6 DEF Age, Annotate, Repoint, RequestDeletion, ByPerson, UserController!Start,
     UserController!objects
<1>7. ASSUME NEW k \in Lagging, Refresh(k)
      PROVE  TurnsKept
  BY <1>1, <1>7 DEF Refresh, objects
<1> QED
  BY <1>2, <1>3, <1>4, <1>5, <1>6, <1>7

\* What a step means to the admins.
AdminMoves ==
    \/ /\ UserMoves
       /\ \/ UNCHANGED rotations
          \/ AsksRotation /\ (userJob.user \in Admins => \A r \in DOMAIN rotations : ~Turn(r))
    \/ rotJob # Idle /\ Who \in Admins /\ ((RotationMoves /\ TurnGoesOn) \/ TurnEnds \/ TurnLeft)
    \/ rotJob # Idle /\ Who \notin Admins /\ RotationMoves /\ TurnsKept
    \/ /\ RotStarts /\ TurnsKept
       /\ rotJob' # Idle /\ rotJob'.me.user \in Admins => InFlight(rotations'[rotJob'.rot])
    \/ /\ TurnsKept /\ AdminsUndeleted
       /\ (\E u \in Users : PersonMoves(u) \/ AgesUser(u)) \/ OnlyCaches

\* Every step is one of these, while persons leave the admins alone.
LEMMA EveryAdminStep ==
    ASSUME IInv, IInv', Shape, RotationsKnown, AdminsStand, AdminsLeftAlone, [Next]_vars
    PROVE  AdminMoves
<1>0. "users" \notin Lagging
  BY DEF AdminsLeftAlone
<1>1. CASE UserController!UserStep
  BY <1>0, <1>1, UserStepMoves, TurnAsked DEF AdminMoves
<1>2. CASE RotationController!RotationStep
  <2>1. rotJob # Idle
    BY <1>2 DEF RotationController!RotationStep, RotationController!executeDualAccount,
     RotationController!executeSingleAccount, RotationController!CreateSecret,
     RotationController!PersistSecretRef, RotationController!ChangePassword,
     RotationController!TryPassword, RotationController!GiveUp, RotationController!PromoteToSpec,
     RotationController!PromoteToStatus, RotationController!PromoteToBMC,
     RotationController!Succeed, RotationController!At
  <2> QED
    BY <1>0, <1>2, <2>1, RotationStepMoves, TurnMoves, ServiceMoves DEF AdminMoves
<1>3. ASSUME NEW r \in rotQueue, RotationController!Start(r)
      PROVE  AdminMoves
  BY <1>0, <1>3, TurnStarts DEF AdminMoves
<1>4. CASE Environment \/ Failures \/ UNCHANGED vars \/ \E u \in Users : UserController!Start(u)
  <2>1. TurnsKept
    BY <1>4, OthersLeaveTurns DEF Environment
  <2>3. AdminsUndeleted
    BY <1>4, AdminsStayUndeleted DEF Environment, AdminsLeftAlone
  <2>2. (\E u \in Users : PersonMoves(u) \/ AgesUser(u)) \/ OnlyCaches
    <3>1. ASSUME NEW u \in Users, \/ Annotate(u) \/ Repoint(u) \/ RequestDeletion(u)
                                  \/ CollectGarbage(u)
          PROVE  PersonMoves(u)
      BY <3>1, PersonMovesStep
    <3>2. ASSUME NEW u \in Users, UserController!Start(u)
          PROVE  PersonMoves(u)
      BY <3>2, UserStartMoves DEF PersonMoves
    <3>3. ASSUME NEW u \in Users, Age(u)
          PROVE  AgesUser(u)
      BY <3>3, AgeMoves
    <3> QED
      BY <1>4, <3>1, <3>2, <3>3, CacheOnlyMoves DEF Environment
  <2> QED
    BY <2>1, <2>2, <2>3 DEF AdminMoves
<1> QED
  BY <1>1, <1>2, <1>3, <1>4 DEF Next

\* The cache of rotations does not trail.
LEMMA RotationsStayKnown ==
    ASSUME IInv, Shape, RotationsKnown, "rotations" \notin Lagging, [Next]_vars
    PROVE  RotationsKnown'
<1>0. DOMAIN cache = Kinds
  BY DEF IInv, CacheTyped
<1>1. ASSUME NEW uq, NEW rq, DeliverTo(uq, rq)
      PROVE  RotationsKnown'
  BY <1>0, <1>1 DEF DeliverTo, Store, Kinds, RotationsKnown
<1>2. Delivers => RotationsKnown'
  BY <1>1 DEF Delivers
<1>3. ASSUME NEW u \in Users, Age(u)
      PROVE  RotationsKnown'
  BY <1>3, AgeMoves DEF AgesUser, RotationsKnown
<1>4. ASSUME NEW r \in DOMAIN rotations, CoolDown(r)
      PROVE  RotationsKnown'
  <2>1. /\ rotations' = [rotations EXCEPT ![r].recent = FALSE]
        /\ cache'.rotations = [i \in DOMAIN cache.rotations |->
                 IF i = r THEN [cache.rotations[i] EXCEPT !.recent = FALSE] ELSE cache.rotations[i]]
    BY <1>0, <1>4 DEF CoolDown, Kinds
  <2> QED
    BY <2>1 DEF RotationsKnown
<1>5. ASSUME NEW k \in Lagging, Refresh(k)
      PROVE  RotationsKnown'
  <2>1. cache'.rotations = cache.rotations /\ UNCHANGED rotations
    BY <1>0, <1>5 DEF Refresh, objects, Kinds
  <2> QED
    BY <2>1 DEF RotationsKnown
<1>6. CASE Failures
  <2>1. CASE UserController!FailUser \/ RotationController!FailRotation
    BY <1>1, <2>1, SameDelivery DEF UserController!FailUser, RotationController!FailRotation
  <2>2. CASE Restart
    BY <2>2 DEF Restart, Store, RotationsKnown, objects
  <2> QED
    BY <1>6, <2>1, <2>2 DEF Failures
<1>7. CASE UNCHANGED vars
  BY <1>7 DEF vars, RotationsKnown
<1>8. ASSUME NEW u \in Users,
             \/ Annotate(u) \/ Repoint(u) \/ RequestDeletion(u) \/ CollectGarbage(u)
             \/ UserController!Start(u)
      PROVE  RotationsKnown'
  BY <1>2, <1>8, PersonMovesStep, UserStartMoves
<1> QED
  BY <1>2, <1>3, <1>4, <1>5, <1>6, <1>7, <1>8, UserStepMoves, RotationStepMoves,
     RotationStartMoves DEF Next, Environment


-----------------------------------------------------------------------------
(* What leaves the admins alone                                            *)

\* The same after a step.
WillWork(s) == s # None /\ s \in live' /\ password'[made'[s].account] = s /\ ~made'[s].bad
WillGetIn(u, s) == password'[u] = s /\ ~made'[s].bad
WillOtherWork(u) == \E p \in Admins \ {u} : WillWork(users'[p].eff)
WillBeAhead(u, me) ==
    /\ users'[u].spec = me.spec /\ users'[u].eff \in {me.eff, me.spec}
    /\ WillGetIn(u, me.spec)
    /\ \A r \in DOMAIN rotations' :
          rotations'[r].user = u /\ InFlight(rotations'[r]) => rotations'[r].new = me.spec
WillBeStale(u) ==
    /\ WillOtherWork(u)
    /\ \A r \in DOMAIN rotations' :
          rotations'[r].user \in Admins /\ InFlight(rotations'[r]) => rotations'[r].user = u
WillBeCopy(u, me) ==
    /\ me.id /\ WillBeFor(me.spec, u) /\ WillBeFor(me.eff, u)
    /\ me.spec # me.eff => WillBeAhead(u, me)
    /\ users'[u].eff \notin {me.spec, me.eff} => WillBeStale(u)

\* Neither the store nor the BMC changes for an admin.
AdminKept(a) ==
    /\ users'[a].spec = users[a].spec /\ users'[a].eff = users[a].eff
    /\ users'[a].id = users[a].id /\ users'[a].exists = users[a].exists
    /\ users'[a].deleting = users[a].deleting
    /\ password'[a] = password[a]
    /\ users[a].eff \in live => users[a].eff \in live'

\* No admin's rotation comes, goes or changes.
TurnsSame ==
    /\ DOMAIN rotations \subseteq DOMAIN rotations'
    /\ \A r \in DOMAIN rotations : rotations'[r].user = rotations[r].user
    /\ \A r \in DOMAIN rotations' : rotations'[r].user \in Admins =>
          /\ r \in DOMAIN rotations
          /\ rotations'[r].new = rotations[r].new
          /\ InFlight(rotations'[r]) <=> InFlight(rotations[r])
Quietly == MadeStays /\ TurnsSame /\ \A a \in Admins : AdminKept(a)

\* Secrets are numbered, and None is none of them.
LEMMA MadeNumbers == ASSUME IInv PROVE DOMAIN made \subseteq Nat /\ None \notin DOMAIN made
BY CredentialAssumption DEF IInv

\* What was made for a user stays so.
LEMMA MadeForStays ==
    ASSUME MadeStays, NEW s, NEW u, MadeFor(s, u)
    PROVE  WillBeFor(s, u)
BY DEF MadeStays, MadeFor, WillBeFor

\* An admin's effective secret works where its account has it.
LEMMA AdminWorks ==
    ASSUME IInv, AdminsStand, NEW p \in Admins
    PROVE  Works(users[p].eff) <=> users[p].eff \in live /\ GetsInWith(p, users[p].eff)
BY MadeNumbers DEF AdminsStand, MadeFor, Works, Authenticates, GetsInWith

\* A peer that is left alone still gets in.
LEMMA StillWorks ==
    ASSUME IInv, AdminsStand, MadeStays, NEW p \in Admins, AdminKept(p), Works(users[p].eff)
    PROVE  WillWork(users'[p].eff)
BY AdminWorks, MadeNumbers
   DEF AdminsStand, AdminKept, MadeStays, MadeFor, Works, GetsInWith, WillWork

\* So does some peer of u, when all of them are left alone.
LEMMA OthersWorkStay ==
    ASSUME IInv, AdminsStand, MadeStays, NEW u, \A a \in Admins \ {u} : AdminKept(a), OtherWorks(u)
    PROVE  WillOtherWork(u)
BY StillWorks DEF OtherWorks, WillOtherWork

\* The next state's invariant, in terms of what will be.
LEMMA InWords ==
    /\ AdminReachable' <=> \E a \in Admins : WillWork(users'[a].eff)
    /\ AdminJob' <=>
          (userJob' # Idle /\ userJob'.user \in Admins =>
              /\ userJob'.pc \notin Unvisited
              /\ WillBeCopy(userJob'.user, userJob'.me))
<1>1. AdminReachable' <=> \E a \in Admins : WillWork(users'[a].eff)
  BY DEF AdminReachable, Works, Authenticates, WillWork
<1>2. AdminCopy(userJob.user, userJob.me)' <=> WillBeCopy(userJob'.user, userJob'.me)
  BY DEF AdminCopy, WillBeCopy, AheadCopy, WillBeAhead, StaleCopy, WillBeStale, MadeFor, WillBeFor,
     GetsInWith, WillGetIn, OtherWorks, WillOtherWork, Turn, Works, Authenticates, WillWork
<1> QED
  BY <1>1, <1>2 DEF AdminJob

\* What leaves the admins and their turns alone leaves the invariant; it is for
\* the workers' copies to be seen to.
LEMMA QuietKeeps ==
    ASSUME IInv, WayInv, Quietly
    PROVE  /\ AdminsStand' /\ RotationsOwn' /\ OneTurn' /\ SpecAhead' /\ AdminReachable'
           /\ \A u \in Admins : OtherWorks(u) => WillOtherWork(u)
           /\ \A a \in Admins : \A m : AdminCopy(a, m) => WillBeCopy(a, m)
<1>1. /\ AdminsStand /\ RotationsOwn /\ OneTurn /\ SpecAhead /\ AdminReachable
      /\ MadeStays /\ TurnsSame /\ \A a \in Admins : AdminKept(a)
  BY DEF WayInv, Quietly
<1>2. AdminsStand'
  BY <1>1 DEF AdminsStand, AdminKept, MadeStays, MadeFor
<1>3. RotationsOwn'
  BY <1>1 DEF RotationsOwn, TurnsSame, MadeStays, MadeFor
<1>4. OneTurn'
  BY <1>1 DEF OneTurn, TurnsSame, Turn
<1>5. SpecAhead'
  <2> SUFFICES ASSUME NEW a \in Admins, users'[a].spec # users'[a].eff
               PROVE  /\ WillGetIn(a, users'[a].spec)
                      /\ \E r \in DOMAIN rotations' :
                            /\ rotations'[r].user = a /\ InFlight(rotations'[r])
                            /\ rotations'[r].new = users'[a].spec
    BY DEF SpecAhead, GetsInWith, WillGetIn
  <2>1. /\ users'[a].spec = users[a].spec /\ users'[a].eff = users[a].eff
        /\ password'[a] = password[a] /\ MadeFor(users[a].spec, a)
    BY <1>1 DEF AdminKept, AdminsStand
  <2>2. GetsInWith(a, users[a].spec)
    BY <1>1, <2>1 DEF SpecAhead
  <2>3. PICK r \in DOMAIN rotations :
           /\ rotations[r].user = a /\ InFlight(rotations[r]) /\ rotations[r].new = users[a].spec
    BY <1>1, <2>1 DEF SpecAhead
  <2>4. WillGetIn(a, users'[a].spec)
    BY <1>1, <2>1, <2>2 DEF MadeStays, MadeFor, GetsInWith, WillGetIn
  <2>5. /\ r \in DOMAIN rotations' /\ rotations'[r].user = a
        /\ InFlight(rotations'[r]) /\ rotations'[r].new = users'[a].spec
    BY <1>1, <2>1, <2>3 DEF TurnsSame
  <2> QED
    BY <2>4, <2>5
<1>6. AdminReachable'
  BY <1>1, StillWorks, InWords DEF AdminReachable
<1>7. \A u \in Admins : OtherWorks(u) => WillOtherWork(u)
  BY <1>1, OthersWorkStay
<1>8. ASSUME NEW a \in Admins, NEW m, AdminCopy(a, m)
      PROVE  WillBeCopy(a, m)
  <2>0. AdminKept(a)
    BY <1>1
  <2>1. m.id /\ WillBeFor(m.spec, a) /\ WillBeFor(m.eff, a)
    BY <1>1, <1>8, MadeForStays DEF AdminCopy
  <2>2. ASSUME m.spec # m.eff
        PROVE  WillBeAhead(a, m)
    <3>1. AheadCopy(a, m) /\ MadeFor(m.spec, a)
      BY <1>8, <2>2 DEF AdminCopy
    <3>2. WillGetIn(a, m.spec)
      BY <1>1, <2>0, <3>1 DEF AheadCopy, GetsInWith, WillGetIn, MadeFor, MadeStays, AdminKept
    <3>3. ASSUME NEW r \in DOMAIN rotations', rotations'[r].user = a, InFlight(rotations'[r])
          PROVE  rotations'[r].new = m.spec
      BY <1>1, <3>1, <3>3 DEF AheadCopy, TurnsSame
    <3> QED
      BY <2>0, <3>1, <3>2, <3>3 DEF AheadCopy, WillBeAhead, AdminKept
  <2>3. ASSUME users'[a].eff \notin {m.spec, m.eff}
        PROVE  WillBeStale(a)
    <3>1. StaleCopy(a)
      BY <1>8, <2>0, <2>3 DEF AdminCopy, AdminKept
    <3>2. ASSUME NEW r \in DOMAIN rotations', rotations'[r].user \in Admins, InFlight(rotations'[r])
          PROVE  rotations'[r].user = a
      BY <1>1, <3>1, <3>2 DEF StaleCopy, Turn, TurnsSame
    <3> QED
      BY <1>7, <3>1, <3>2 DEF StaleCopy, WillBeStale
  <2> QED
    BY <2>1, <2>2, <2>3 DEF WillBeCopy
<1> QED
  BY <1>2, <1>3, <1>4, <1>5, <1>6, <1>7, <1>8

\* A copy taken of what is stored is a good one.
LEMMA FreshCopy ==
    ASSUME AdminsStand', SpecAhead', OneTurn', NEW a \in Admins, NEW m,
           m.spec = users'[a].spec, m.eff = users'[a].eff, m.id = users'[a].id
    PROVE  WillBeCopy(a, m)
<1>1. m.id /\ WillBeFor(m.spec, a) /\ WillBeFor(m.eff, a)
  BY DEF AdminsStand, MadeFor, WillBeFor
<1>2. ASSUME m.spec # m.eff
      PROVE  WillBeAhead(a, m)
  <2>1. WillGetIn(a, m.spec)
    BY <1>2 DEF SpecAhead, GetsInWith, WillGetIn
  <2>2. PICK r \in DOMAIN rotations' :
           /\ rotations'[r].user = a /\ InFlight(rotations'[r]) /\ rotations'[r].new = m.spec
    BY <1>2 DEF SpecAhead
  <2>3. \A t \in DOMAIN rotations' : rotations'[t].user = a /\ InFlight(rotations'[t]) => t = r
    BY <2>2 DEF OneTurn, Turn
  <2> QED
    BY <2>1, <2>2, <2>3 DEF WillBeAhead
<1> QED
  BY <1>1, <1>2 DEF WillBeCopy

\* So does it leave the turn under way.
LEMMA TurnStays ==
    ASSUME IInv, Shape, WayInv, Quietly, UNCHANGED rotJob
    PROVE  AdminTurn'
<1> SUFFICES ASSUME rotJob # Idle, Who \in Admins
             PROVE  AdminTurn'
  BY DEF AdminTurn, Who
<1> DEFINE it == users[Who]
           secret == rotJob.secret
<1>1. /\ rotations[rotJob.rot].user = Who /\ rotJob.rot \in DOMAIN rotations
      /\ AdminTurn /\ AdminsStand /\ MadeStays /\ TurnsSame /\ \A a \in Admins : AdminKept(a)
  BY RotJobFields DEF WayInv, Quietly, Who
<1>2. /\ Who' = Who /\ AdminKept(Who)
      /\ InFlight(rotations'[rotJob.rot]) <=> InFlight(rotations[rotJob.rot])
  BY <1>1 DEF Who, TurnsSame
<1>3. secret # None => MadeFor(secret, Who)
  BY <1>1 DEF AdminTurn
<1>4. secret # None => WillBeFor(secret, Who)
  BY <1>1, <1>3, MadeForStays
<1>5. rotJob.pc \in {"make", "persist", "change"} =>
         \E p \in Admins \ {Who} : rotJob.as = users'[p].eff /\ rotJob.as \in live'
  BY <1>1 DEF AdminTurn, AdminKept
<1>6. rotJob.pc \in {"try", "spec", "status", "bmc", "finish"} => WillOtherWork(Who)
  BY <1>1, OthersWorkStay DEF AdminTurn
<1>7. rotJob.pc \in {"spec", "status", "bmc", "finish"} => WillGetIn(Who, secret)
  BY <1>1, <1>2, <1>3 DEF AdminTurn, GetsInWith, WillGetIn, AdminKept, MadeStays, MadeFor
<1>8. OtherWorks(Who)' <=> WillOtherWork(Who)
  BY <1>2 DEF OtherWorks, WillOtherWork, Works, Authenticates, WillWork
<1>9. rotJob.who.eff \in DOMAIN made'
  BY <1>1 DEF AdminTurn, MadeStays
<1>10. AdminKept(Who) /\ AdminTurn
  BY <1>1
<1>11. /\ InFlight(rotations'[rotJob.rot])
       /\ rotJob.who.spec = users'[Who].spec
       /\ rotJob.pc \notin {"client", "make"} => secret # None
       /\ secret # None /\ rotJob.who.eff = secret => users'[Who].eff = secret
       /\ rotJob.pc \in {"status", "bmc", "finish"} => users'[Who].spec = secret
       /\ rotJob.pc \in {"bmc", "finish"} => users'[Who].eff = secret
       /\ rotJob.pc = "fail" => users'[Who].spec = users'[Who].eff
  BY <1>2, <1>10 DEF AdminTurn, AdminKept
<1> QED
  BY <1>2, <1>4, <1>5, <1>6, <1>7, <1>8, <1>9, <1>11
     DEF AdminTurn, MadeFor, WillBeFor, GetsInWith, WillGetIn

-----------------------------------------------------------------------------
(* The user's worker                                                       *)

\* What a step needs to keep, next to the admins and the turn under way.
Keeps == AdminsStand' /\ RotationsOwn' /\ OneTurn' /\ SpecAhead' /\ AdminReachable'

\* A rotation under way is its user's.
LEMMA RotationOfWho ==
    ASSUME IInv, Shape, rotJob # Idle
    PROVE  rotJob.rot \in DOMAIN rotations /\ rotations[rotJob.rot].user = Who
BY RotJobFields DEF Who

\* While an admin's rotation is under way, that is the one turn.
LEMMA TheTurn ==
    ASSUME IInv, Shape, WayInv, rotJob # Idle, Who \in Admins
    PROVE  /\ Turn(rotJob.rot)
           /\ \A r \in DOMAIN rotations : Turn(r) => r = rotJob.rot
BY RotationOfWho DEF WayInv, AdminTurn, OneTurn, Turn

\* Another user's steps are nothing to the admins.
LEMMA ServiceUserStep ==
    ASSUME IInv, Shape, WayInv, MadeStays, UserMoves, userJob # Idle, userJob.user \notin Admins
    PROVE  Quietly /\ AdminJob' /\ UNCHANGED rotJob
<1> DEFINE u == userJob.user
<1>1. \A a \in Admins : a # u /\ a \in Users /\ a \in Accounts
  BY DEF Users, Accounts
<1>2. UNCHANGED rotJob /\ (userJob' = Idle \/ userJob'.user = u)
  BY DEF UserMoves, UserIdles, LooksOnly, AdoptsSpec, SyncsBMC, LogsInUnknown, LogsInFound, GoesOnBy,
         MakesOwn, RefersToOwn, WritesAccount, RecordsAccount, FollowsSpec, PrunesOwn, Concludes,
         AsksRotation, DeletesAccount, RemovesUser, Steady, Moves
<1>3. \A a \in Admins : users'[a] = users[a]
  BY <1>1 DEF UserMoves, UserIdles, LooksOnly, AdoptsSpec, SyncsBMC, LogsInUnknown, LogsInFound,
         MakesOwn, RefersToOwn, WritesAccount, RecordsAccount, FollowsSpec, PrunesOwn, Concludes,
         AsksRotation, DeletesAccount, RemovesUser, Steady, WritesUser, TouchesUser
<1>4. \A a \in Admins : password'[a] = password[a]
  BY <1>1 DEF UserMoves, UserIdles, LooksOnly, AdoptsSpec, SyncsBMC, LogsInUnknown, LogsInFound,
         MakesOwn, RefersToOwn, WritesAccount, RecordsAccount, FollowsSpec, PrunesOwn, Concludes,
         AsksRotation, DeletesAccount, RemovesUser, Steady, SetsPassword, Shape, StoreShape
<1>5. live \subseteq live' \/ PrunesOwn
  BY DEF UserMoves, UserIdles, LooksOnly, AdoptsSpec, SyncsBMC, LogsInUnknown, LogsInFound,
         MakesOwn, Makes, RefersToOwn, WritesAccount, RecordsAccount, FollowsSpec, Concludes,
         AsksRotation, DeletesAccount, RemovesUser, Steady
<1>6. \A a \in Admins : users[a].eff \in live => users[a].eff \in live'
  BY <1>1, <1>5 DEF PrunesOwn, WayInv, AdminsStand, MadeFor
<1>7. TurnsSame
  <2>1. CASE UNCHANGED rotations
    BY <2>1 DEF TurnsSame
  <2>2. CASE AsksRotation
    BY <1>1, <2>2 DEF AsksRotation, TurnsSame
  <2> QED
    BY <2>1, <2>2 DEF UserMoves, UserIdles, LooksOnly, AdoptsSpec, SyncsBMC, LogsInUnknown,
         LogsInFound, MakesOwn, RefersToOwn, WritesAccount, RecordsAccount, FollowsSpec, PrunesOwn,
         Concludes, DeletesAccount, RemovesUser, Steady
<1>8. AdminJob'
  BY <1>2 DEF AdminJob
<1> QED
  BY <1>2, <1>3, <1>4, <1>6, <1>7, <1>8 DEF Quietly, AdminKept

\* An admin's worker at one of these steps leaves the admins alone.
QuietAdminStep ==
    \/ UserIdles \/ LooksOnly \/ SyncsBMC \/ LogsInUnknown \/ LogsInFound \/ Concludes \/ FollowsSpec
    \/ AdoptsSpec /\ users'[userJob.user].eff = users[userJob.user].eff
    \/ PrunesOwn /\ (users[userJob.user].eff \in live => users[userJob.user].eff \in live')

\* The copies it goes on with are good ones.
LEMMA QuietAdminStepKeeps ==
    ASSUME IInv, Shape, WayInv, MadeStays, QuietAdminStep, userJob # Idle, userJob.user \in Admins
    PROVE  Quietly /\ AdminJob' /\ UNCHANGED rotJob
<1> DEFINE u == userJob.user
           me == userJob.me
<1>1. /\ u \in Admins /\ u \in Users /\ AdminCopy(u, me) /\ AdminsStand
      /\ userJob.pc \notin Unvisited
  BY DEF WayInv, AdminJob, Users
<1>2. UNCHANGED rotations /\ UNCHANGED rotJob
  BY DEF QuietAdminStep, UserIdles, LooksOnly, AdoptsSpec, SyncsBMC, LogsInUnknown, LogsInFound,
         FollowsSpec, PrunesOwn, Concludes, Steady
<1>3. ASSUME NEW a \in Admins
      PROVE  /\ users'[a].spec = users[a].spec /\ users'[a].eff = users[a].eff
             /\ users'[a].id = users[a].id /\ users'[a].exists = users[a].exists
             /\ users'[a].deleting = users[a].deleting
  <2>1. a \in Users /\ users[a].id
    BY <1>1 DEF Users, AdminsStand
  <2>2. CASE UNCHANGED users
    BY <2>2
  <2>3. CASE LogsInFound
    BY <1>1, <2>1, <2>3 DEF LogsInFound, WritesUser, AdminsStand
  <2>4. CASE AdoptsSpec /\ users'[u].eff = users[u].eff
    BY <2>1, <2>4 DEF AdoptsSpec, WritesUser
  <2>5. CASE TouchesUser(u)
    BY <2>1, <2>5 DEF TouchesUser, WritesUser
  <2> QED
    BY <2>2, <2>3, <2>4, <2>5 DEF QuietAdminStep, UserIdles, LooksOnly, SyncsBMC, LogsInUnknown,
         FollowsSpec, PrunesOwn, Concludes
<1>4. \A a \in Admins : password'[a] = password[a]
  <2>1. CASE FollowsSpec /\ me.spec # me.eff /\ SetsPassword
    BY <1>1, <2>1 DEF SetsPassword, AdminCopy, AheadCopy, GetsInWith, Shape, StoreShape
  <2> QED
    BY <2>1 DEF QuietAdminStep, UserIdles, LooksOnly, AdoptsSpec, SyncsBMC, LogsInUnknown,
         LogsInFound, FollowsSpec, PrunesOwn, Concludes, Steady
<1>5. \A a \in Admins : users[a].eff \in live => users[a].eff \in live'
  <2>1. CASE PrunesOwn /\ (users[u].eff \in live => users[u].eff \in live')
    BY <1>1, <2>1 DEF PrunesOwn, AdminsStand, MadeFor
  <2> QED
    BY <2>1 DEF QuietAdminStep, UserIdles, LooksOnly, AdoptsSpec, SyncsBMC, LogsInUnknown,
         LogsInFound, FollowsSpec, Concludes, Steady
<1>6. Quietly
  BY <1>2, <1>3, <1>4, <1>5 DEF Quietly, AdminKept, TurnsSame
<1>7. /\ WillBeCopy(u, me)
      /\ \A m : m = users'[u] => WillBeCopy(u, m)
  BY <1>1, <1>6, QuietKeeps, FreshCopy
<1>8. CASE userJob' = Idle
  BY <1>2, <1>6, <1>8 DEF AdminJob
<1>9. CASE userJob' # Idle
  <2>1. userJob'.user = u /\ userJob'.me \in {me, users'[u]}
    BY <1>9 DEF QuietAdminStep, UserIdles, LooksOnly, AdoptsSpec, SyncsBMC, LogsInUnknown,
       LogsInFound, GoesOnBy, FollowsSpec, PrunesOwn, Concludes, Moves, KeepsCopies, Rereads
  <2>2. /\ me.id /\ me.spec # None
        /\ users'[u].id /\ users'[u].spec # None
    BY <1>1, <1>3, MadeNumbers DEF AdminCopy, AdminsStand, MadeFor
  <2>3. userJob'.pc \notin Unvisited
    BY <1>1, <1>9, <2>2 DEF Unvisited, QuietAdminStep, UserIdles, LooksOnly, AdoptsSpec, SyncsBMC, LogsInUnknown,
       LogsInFound, GoesOnBy, FollowsSpec, PrunesOwn, Concludes, Moves
  <2>4. WillBeCopy(userJob'.user, userJob'.me)
    BY <1>7, <2>1
  <2>5. AdminJob'
    BY <2>3, <2>4, InWords
  <2> QED
    BY <1>2, <1>6, <2>5
<1> QED
  BY <1>8, <1>9

\* An admin's effective secret follows its spec, which a rotation has promoted.
LEMMA AdminAdopts ==
    ASSUME IInv, Shape, WayInv, MadeStays, AdoptsSpec, userJob.user \in Admins, userJob # Idle,
           users'[userJob.user].eff # users[userJob.user].eff
    PROVE  Keeps /\ AdminJob' /\ AdminTurn'
<1> DEFINE u == userJob.user
           me == userJob.me
<1>1. /\ u \in Admins /\ u \in Users /\ AdminCopy(u, me) /\ AdminsStand /\ SpecAhead /\ OneTurn
      /\ RotationsOwn /\ AdminReachable /\ AdminTurn
  BY DEF WayInv, AdminJob, Users
<1>2. /\ users'[u].eff = me.spec /\ me.spec # me.eff
      /\ users'[u].spec = users[u].spec /\ users'[u].id = users[u].id
      /\ users'[u].exists = users[u].exists /\ users'[u].deleting = users[u].deleting
      /\ \A a \in Admins \ {u} : users'[a] = users[a]
      /\ userJob'.user = u /\ userJob'.me = users'[u] /\ userJob'.pc \in {"login", "sync"}
      /\ UNCHANGED <<rotations, made, live, password, rotJob>>
  BY <1>1 DEF AdoptsSpec, WritesUser, Merge, Users, Steady, Rereads, Moves
<1>3. AheadCopy(u, me) /\ users[u].spec = me.spec /\ users[u].eff = me.eff /\ password[u] = me.spec
  BY <1>1, <1>2 DEF AdminCopy, AheadCopy, GetsInWith
<1>4. PICK r \in DOMAIN rotations :
         rotations[r].user = u /\ InFlight(rotations[r]) /\ rotations[r].new = me.spec
  BY <1>1, <1>2, <1>3 DEF SpecAhead
<1>5. PICK p \in Admins : Works(users[p].eff)
  BY <1>1 DEF AdminReachable
<1>6. p # u
  BY <1>1, <1>2, <1>3, <1>5, AdminWorks DEF GetsInWith
<1>7. \A a \in Admins \ {u} : Works(users[a].eff) => WillWork(users'[a].eff)
  BY <1>2 DEF Works, Authenticates, WillWork
<1>8. AdminReachable'
  BY <1>5, <1>6, <1>7, InWords
<1>9. AdminsStand' /\ RotationsOwn' /\ OneTurn'
  BY <1>1, <1>2, <1>3 DEF AdminsStand, RotationsOwn, OneTurn, Turn, MadeFor
<1>10. SpecAhead'
  BY <1>1, <1>2, <1>3 DEF SpecAhead, GetsInWith
<1>11. WillBeCopy(u, userJob'.me)
  BY <1>1, <1>2, <1>9, <1>10, FreshCopy
<1>12. AdminJob'
  BY <1>2, <1>11, InWords DEF Unvisited
<1>13. AdminTurn'
  <2> SUFFICES ASSUME rotJob # Idle, Who \in Admins
               PROVE  AdminTurn'
    BY <1>2 DEF AdminTurn, Who
  <2>1. rotJob.rot = r /\ Who = u /\ Who' = Who
    BY <1>1, <1>2, <1>4, TheTurn, RotationOfWho DEF Turn, Who
  <2>2. rotJob.secret = me.spec
    BY <1>1, <1>3, <1>4, <2>1, MadeNumbers DEF IInv, RotJobInv, AdminCopy, MadeFor
  <2>3. OtherWorks(u) => WillOtherWork(u)
    BY <1>7 DEF OtherWorks, WillOtherWork
  <2>4. OtherWorks(Who)' <=> WillOtherWork(u)
    BY <2>1 DEF OtherWorks, WillOtherWork, Works, Authenticates, WillWork
  <2>5. \A a \in Admins \ {u} : users'[a].eff = users[a].eff
    BY <1>2
  <2> QED
    BY <1>1, <1>2, <1>3, <2>1, <2>2, <2>3, <2>4, <2>5 DEF AdminTurn, MadeFor, GetsInWith
<1> QED
  BY <1>8, <1>9, <1>10, <1>12, <1>13 DEF Keeps

\* An admin's effective secret is pruned by an old copy: a peer gets in.
LEMMA AdminPrunes ==
    ASSUME IInv, Shape, WayInv, MadeStays, PrunesOwn, userJob.user \in Admins, userJob # Idle,
           users[userJob.user].eff \in live \ live'
    PROVE  Keeps /\ AdminJob' /\ AdminTurn'
<1> DEFINE u == userJob.user
           me == userJob.me
<1>1. /\ u \in Admins /\ AdminCopy(u, me) /\ AdminsStand /\ SpecAhead /\ OneTurn
      /\ RotationsOwn /\ AdminTurn
  BY DEF WayInv, AdminJob
<1>2. /\ userJob'.user = u /\ userJob'.me = me /\ userJob'.pc = "conditions"
      /\ UNCHANGED <<users, rotations, made, password, rotJob>>
      /\ users[u].eff \notin {me.spec, me.eff}
      /\ \A s \in live \ live' : made[s].owner = u
  BY DEF PrunesOwn, Moves, KeepsCopies
<1>3. StaleCopy(u)
  BY <1>1, <1>2 DEF AdminCopy
<1>4. \A a \in Admins \ {u} : users[a].eff \in live => users[a].eff \in live'
  BY <1>1, <1>2 DEF AdminsStand, MadeFor
<1>5. \A a \in Admins \ {u} : Works(users[a].eff) => WillWork(users'[a].eff)
  BY <1>2, <1>4 DEF Works, Authenticates, WillWork
<1>6. WillOtherWork(u)
  BY <1>3, <1>5 DEF StaleCopy, OtherWorks, WillOtherWork
<1>7. AdminReachable'
  BY <1>6, InWords DEF WillOtherWork
<1>8. AdminsStand' /\ RotationsOwn' /\ OneTurn' /\ SpecAhead'
  BY <1>1, <1>2 DEF AdminsStand, RotationsOwn, OneTurn, SpecAhead, Turn, MadeFor, GetsInWith
<1>9. WillBeCopy(u, me)
  BY <1>1, <1>2, <1>3, <1>6 DEF AdminCopy, WillBeCopy, AheadCopy, WillBeAhead, StaleCopy, WillBeStale,
     MadeFor, WillBeFor, GetsInWith, WillGetIn, Turn
<1>10. AdminJob'
  BY <1>2, <1>9, InWords DEF Unvisited
<1>11. AdminTurn'
  <2> SUFFICES ASSUME rotJob # Idle, Who \in Admins
               PROVE  AdminTurn'
    BY <1>2 DEF AdminTurn, Who
  <2>1. Who = u /\ Who' = Who
    BY <1>2, <1>3, TheTurn, RotationOfWho DEF StaleCopy, Who
  <2>2. OtherWorks(Who)' <=> WillOtherWork(u)
    BY <2>1 DEF OtherWorks, WillOtherWork, Works, Authenticates, WillWork
  <2>3. rotJob.pc \in {"make", "persist", "change"} =>
           \E p \in Admins \ {Who} : rotJob.as = users'[p].eff /\ rotJob.as \in live'
    BY <1>1, <1>2, <1>4, <2>1 DEF AdminTurn
  <2> QED
    BY <1>1, <1>2, <1>6, <2>1, <2>2, <2>3 DEF AdminTurn, MadeFor, GetsInWith
<1> QED
  BY <1>7, <1>8, <1>10, <1>11 DEF Keeps

\* An admin asks for its rotation while no admin has a turn.
LEMMA AdminAsks ==
    ASSUME IInv, Shape, WayInv, MadeStays, AsksRotation, userJob.user \in Admins,
           \A r \in DOMAIN rotations : ~Turn(r)
    PROVE  Keeps /\ AdminJob' /\ AdminTurn'
<1> DEFINE n == Len(rotations) + 1
<1>1. /\ AdminsStand /\ SpecAhead /\ RotationsOwn /\ AdminReachable
      /\ DOMAIN rotations' = DOMAIN rotations \cup {n} /\ n \notin DOMAIN rotations
      /\ \A r \in DOMAIN rotations : rotations'[r] = rotations[r]
      /\ rotations'[n].new = None /\ userJob' = Idle
      /\ UNCHANGED <<users, made, live, password, rotJob>>
  BY DEF WayInv, AsksRotation
<1> HIDE DEF n
<1>2. AdminsStand' /\ RotationsOwn' /\ AdminJob' /\ AdminReachable'
  <2>1. AdminsStand' /\ RotationsOwn'
    BY <1>1 DEF AdminsStand, RotationsOwn, MadeFor
  <2>2. AdminJob' /\ AdminReachable'
    BY <1>1 DEF AdminJob, AdminReachable, Works, Authenticates
  <2> QED
    BY <2>1, <2>2
<1>3. OneTurn'
  <2>1. \A r \in DOMAIN rotations' :
           rotations'[r].user \in Admins /\ InFlight(rotations'[r]) => r = n
    BY <1>1 DEF Turn
  <2> QED
    BY <2>1 DEF OneTurn, Turn
<1>4. \A a \in Admins : users[a].spec = users[a].eff
  BY <1>1 DEF SpecAhead, Turn
<1>5. SpecAhead'
  BY <1>1, <1>4 DEF SpecAhead
<1>6. rotJob # Idle => Who \notin Admins
  BY TheTurn, RotationOfWho
<1>7. AdminTurn'
  BY <1>1, <1>6 DEF AdminTurn, Who
<1> QED
  BY <1>2, <1>3, <1>5, <1>7 DEF Keeps

\* The user's worker keeps the admins.
LEMMA UserMovesWay ==
    ASSUME IInv, Shape, WayInv, MadeStays, UserMoves,
           \/ UNCHANGED rotations
           \/ AsksRotation /\ (userJob.user \in Admins => \A r \in DOMAIN rotations : ~Turn(r))
    PROVE  Keeps /\ AdminJob' /\ AdminTurn'
<1>1. ASSUME Quietly, AdminJob', UNCHANGED rotJob
      PROVE  Keeps /\ AdminJob' /\ AdminTurn'
  BY <1>1, QuietKeeps, TurnStays DEF Keeps
<1>2. CASE userJob # Idle /\ userJob.user \notin Admins
  BY <1>1, <1>2, ServiceUserStep
<1>3. CASE userJob = Idle
  <2>1. UserIdles
    BY <1>3 DEF UserMoves, UserIdles, LooksOnly, AdoptsSpec, SyncsBMC, LogsInUnknown, LogsInFound,
         GoesOnBy, MakesOwn, RefersToOwn, WritesAccount, RecordsAccount, FollowsSpec, PrunesOwn,
         Concludes, AsksRotation, DeletesAccount, RemovesUser, Moves
  <2>2. Quietly /\ AdminJob' /\ UNCHANGED rotJob
    BY <2>1 DEF UserIdles, Steady, Quietly, AdminKept, TurnsSame, AdminJob
  <2> QED
    BY <1>1, <2>2
<1>4. CASE userJob # Idle /\ userJob.user \in Admins
  <2> DEFINE u == userJob.user
             me == userJob.me
  <2>1. userJob.pc \notin Unvisited
    BY <1>4 DEF WayInv, AdminJob
  <2>2. QuietAdminStep \/ AdoptsSpec \/ PrunesOwn \/ AsksRotation
    BY <2>1 DEF UserMoves, QuietAdminStep, MakesOwn, RefersToOwn, WritesAccount, RecordsAccount,
       DeletesAccount, RemovesUser, Moves, Unvisited
  <2>3. CASE QuietAdminStep
    BY <1>1, <1>4, <2>3, QuietAdminStepKeeps
  <2>4. CASE AdoptsSpec
    BY <1>4, <2>3, <2>4, AdminAdopts DEF QuietAdminStep
  <2>5. CASE PrunesOwn
    BY <1>4, <2>3, <2>5, AdminPrunes DEF QuietAdminStep
  <2>6. CASE AsksRotation
    <3>1. ~UNCHANGED rotations
      BY <2>6 DEF AsksRotation
    <3> QED
      BY <1>4, <2>6, <3>1, AdminAsks
  <2> QED
    BY <2>2, <2>3, <2>4, <2>5, <2>6
<1> QED
  BY <1>2, <1>3, <1>4

-----------------------------------------------------------------------------
(* The rotation's worker                                                   *)

\* An admin whose turn ends has the secret its spec names in effect.
LEMMA EndedInStep ==
    ASSUME IInv, Shape, WayInv, rotJob # Idle, Who \in Admins, TurnEnds
    PROVE  users[Who].spec = users[Who].eff
<1> DEFINE it == users[Who]
<1>1. AdminTurn /\ AdminsStand /\ SpecAhead /\ AdminReachable
  BY DEF WayInv
<1>2. CASE rotJob.pc \in {"finish", "fail"}
  BY <1>1, <1>2 DEF AdminTurn
<1> SUFFICES ASSUME it.spec # it.eff, rotJob.pc \notin {"finish", "fail"}
             PROVE  FALSE
  BY <1>2
<1>3. GetsInWith(Who, it.spec)
  BY <1>1 DEF SpecAhead
<1>4. PICK r \in DOMAIN rotations :
         rotations[r].user = Who /\ InFlight(rotations[r]) /\ rotations[r].new = it.spec
  BY <1>1 DEF SpecAhead
<1>5. r = rotJob.rot
  BY <1>4, TheTurn DEF Turn
<1>6. CASE rotJob.pc = "client" /\ NoPeer(Who)
  <2>1. PICK p \in Admins : Works(users[p].eff)
    BY <1>1 DEF AdminReachable
  <2>2. p # Who
    BY <1>1, <1>3, <2>1, AdminWorks DEF GetsInWith
  <2> QED
    BY <1>1, <1>6, <2>1, <2>2 DEF NoPeer, AdminsStand, Works
<1> QED
  BY <1>6 DEF TurnEnds

\* The end of a turn keeps the admins.
LEMMA TurnEndsWay ==
    ASSUME IInv, Shape, WayInv, rotJob # Idle, Who \in Admins, TurnEnds
    PROVE  Keeps /\ AdminJob' /\ AdminTurn'
<1>1. /\ AdminsStand /\ RotationsOwn /\ OneTurn /\ SpecAhead /\ AdminJob /\ AdminReachable
      /\ users[Who].spec = users[Who].eff
      /\ rotJob' = Idle /\ UNCHANGED <<users, made, live, password, userJob>>
      /\ DOMAIN rotations' = DOMAIN rotations
      /\ \A r \in DOMAIN rotations \ {rotJob.rot} : rotations'[r] = rotations[r]
      /\ ~InFlight(rotations'[rotJob.rot]) /\ rotations'[rotJob.rot].user = Who
      /\ rotations'[rotJob.rot].new = rotations[rotJob.rot].new
      /\ rotJob.rot \in DOMAIN rotations /\ rotations[rotJob.rot].user = Who
  BY EndedInStep, RotationOfWho DEF WayInv, TurnEnds
<1>2. AdminsStand' /\ AdminReachable' /\ AdminTurn'
  BY <1>1 DEF AdminsStand, MadeFor, AdminReachable, Works, Authenticates, AdminTurn
<1>3. RotationsOwn'
  BY <1>1 DEF RotationsOwn, MadeFor
<1>4. \A r \in DOMAIN rotations' : InFlight(rotations'[r]) =>
         r # rotJob.rot /\ rotations'[r] = rotations[r]
  BY <1>1
<1>5. OneTurn'
  BY <1>1, <1>4 DEF OneTurn, Turn
<1>6. SpecAhead'
  <2>1. ASSUME NEW a \in Admins, users'[a].spec # users'[a].eff
        PROVE  /\ GetsInWith(a, users[a].spec)'
               /\ \E r \in DOMAIN rotations' :
                     /\ rotations'[r].user = a /\ InFlight(rotations'[r])
                     /\ rotations'[r].new = users'[a].spec
    <3>1. a # Who /\ users[a].spec # users[a].eff
      BY <1>1, <2>1
    <3>2. PICK r \in DOMAIN rotations :
             rotations[r].user = a /\ InFlight(rotations[r]) /\ rotations[r].new = users[a].spec
      BY <1>1, <3>1 DEF SpecAhead
    <3>3. r # rotJob.rot
      BY <1>1, <3>1, <3>2
    <3> QED
      BY <1>1, <3>1, <3>2, <3>3 DEF SpecAhead, GetsInWith
  <2> QED
    BY <2>1 DEF SpecAhead
<1>7. AdminJob'
  <2> SUFFICES ASSUME userJob # Idle, userJob.user \in Admins
               PROVE  WillBeCopy(userJob.user, userJob.me)
    BY <1>1, InWords DEF AdminJob
  <2> DEFINE u == userJob.user
             me == userJob.me
  <2>1. AdminCopy(u, me)
    BY <1>1 DEF AdminJob
  <2>2. OtherWorks(u) => WillOtherWork(u)
    BY <1>1 DEF OtherWorks, WillOtherWork, Works, Authenticates, WillWork
  <2>3. me.spec # me.eff => WillBeAhead(u, me)
    BY <1>1, <1>4, <2>1 DEF AdminCopy, AheadCopy, WillBeAhead, GetsInWith, WillGetIn
  <2>4. users'[u].eff \notin {me.spec, me.eff} => WillBeStale(u)
    BY <1>1, <1>4, <2>1, <2>2 DEF AdminCopy, StaleCopy, WillBeStale, Turn
  <2> QED
    BY <1>1, <2>1, <2>3, <2>4 DEF AdminCopy, WillBeCopy, MadeFor, WillBeFor
<1> QED
  BY <1>2, <1>3, <1>5, <1>6, <1>7 DEF Keeps

\* The copy in the user's worker outlives a step of the rotation's.
LEMMA CopiesKept ==
    ASSUME WayInv, UNCHANGED userJob,
           \A a \in Admins : \A m : AdminCopy(a, m) => WillBeCopy(a, m)
    PROVE  AdminJob'
BY InWords DEF WayInv, AdminJob

\* A turn's secret is stored; a peer's job neither waits for it nor prunes.
LEMMA InTheTurn ==
    ASSUME IInv, Shape, WayInv, rotJob # Idle, Who \in Admins
    PROVE  /\ rotJob.rot \in DOMAIN rotations /\ rotations[rotJob.rot].user = Who
           /\ InFlight(rotations[rotJob.rot])
           /\ rotJob.pc \in Unpersisted => rotations[rotJob.rot].new = None
           /\ rotJob.pc \in Decided => rotations[rotJob.rot].new = rotJob.secret
           /\ \A u \in Admins \ {Who} : ~StaleCopy(u)
           /\ \A r \in DOMAIN rotations :
                 rotations[r].user \in Admins /\ InFlight(rotations[r]) => r = rotJob.rot
<1>1. /\ rotJob.rot \in DOMAIN rotations /\ rotations[rotJob.rot].user = Who
      /\ Turn(rotJob.rot)
      /\ \A r \in DOMAIN rotations : Turn(r) => r = rotJob.rot
  BY RotationOfWho, TheTurn
<1> QED
  BY <1>1 DEF IInv, RotJobInv, StaleCopy, Turn

\* A secret is persisted before it is used.
LEMMA PersistsWay ==
    ASSUME IInv, Shape, WayInv, rotJob # Idle, Who \in Admins, TurnGoesOn, RotPersists
    PROVE  Keeps /\ AdminJob' /\ AdminTurn'
<1> DEFINE secret == rotJob.secret
           rot == rotJob.rot
<1>1. /\ AdminsStand /\ RotationsOwn /\ OneTurn /\ SpecAhead /\ AdminReachable /\ AdminTurn
  BY DEF WayInv
<1>2. /\ rotJob.pc = "persist" /\ rotJob'.pc = "change" /\ rotJob'.rot = rot /\ Who' = Who
      /\ rotJob'.who = rotJob.who /\ rotJob'.secret = secret /\ rotJob'.as = rotJob.as
      /\ DOMAIN rotations' = DOMAIN rotations
      /\ \A r \in DOMAIN rotations :
            /\ rotations'[r].user = rotations[r].user
            /\ rotations'[r].new = IF r = rot THEN secret ELSE rotations[r].new
            /\ rotations[r].user \in Admins => (InFlight(rotations'[r]) <=> InFlight(rotations[r]))
      /\ UNCHANGED <<users, made, live, password, userJob>>
  BY DEF RotPersists, RotMoves, KeepsSecret, TurnGoesOn, TurnsKept, Who
<1>3. /\ rot \in DOMAIN rotations /\ rotations[rot].user = Who /\ InFlight(rotations[rot])
      /\ rotations[rot].new = None
      /\ \A r \in DOMAIN rotations :
            rotations[r].user \in Admins /\ InFlight(rotations[r]) => r = rot
  BY <1>2, InTheTurn DEF Unpersisted
<1>4. secret # None /\ MadeFor(secret, Who)
  BY <1>1, <1>2 DEF AdminTurn
<1>5. AdminsStand' /\ AdminReachable'
  BY <1>1, <1>2 DEF AdminsStand, MadeFor, AdminReachable, Works, Authenticates
<1>6. RotationsOwn'
  BY <1>1, <1>2, <1>3, <1>4 DEF RotationsOwn, MadeFor
<1>7. OneTurn'
  BY <1>1, <1>2 DEF OneTurn, Turn
<1>8. \A a \in Admins : users[a].spec = users[a].eff
  BY <1>1, <1>3, MadeNumbers DEF SpecAhead, AdminsStand, MadeFor
<1>9. SpecAhead'
  BY <1>2, <1>8 DEF SpecAhead
<1>10. ASSUME NEW a \in Admins, NEW m, AdminCopy(a, m)
       PROVE  WillBeCopy(a, m)
  <2>1. OtherWorks(a) => WillOtherWork(a)
    BY <1>2 DEF OtherWorks, WillOtherWork, Works, Authenticates, WillWork
  <2>2. users'[a].eff \notin {m.spec, m.eff} => WillBeStale(a)
    BY <1>2, <1>10, <2>1 DEF AdminCopy, StaleCopy, WillBeStale, Turn
  <2>3. ASSUME m.spec # m.eff
        PROVE  WillBeAhead(a, m)
    <3>1. AheadCopy(a, m) /\ m.spec # None
      BY <1>10, <2>3, MadeNumbers DEF AdminCopy, MadeFor
    <3>2. a # Who
      BY <1>3, <3>1 DEF AheadCopy
    <3> QED
      BY <1>2, <1>3, <3>1, <3>2 DEF AheadCopy, WillBeAhead, GetsInWith, WillGetIn
  <2> QED
    BY <1>2, <1>10, <2>2, <2>3 DEF AdminCopy, WillBeCopy, MadeFor, WillBeFor
<1>11. AdminJob'
  BY <1>2, <1>10, CopiesKept
<1>12. AdminTurn'
  BY <1>1, <1>2, <1>3, <1>4 DEF AdminTurn, MadeFor
<1> QED
  BY <1>5, <1>6, <1>7, <1>9, <1>11, <1>12 DEF Keeps

\* The password changes while a peer gets in.
LEMMA ChangesWay ==
    ASSUME IInv, Shape, WayInv, rotJob # Idle, Who \in Admins, TurnGoesOn, RotChanges
    PROVE  Keeps /\ AdminJob' /\ AdminTurn'
<1> DEFINE secret == rotJob.secret
           rot == rotJob.rot
<1>1. /\ AdminsStand /\ RotationsOwn /\ OneTurn /\ SpecAhead /\ AdminReachable /\ AdminTurn
  BY DEF WayInv
<1>2. /\ rotJob.pc = "change" /\ rotJob'.pc = "try" /\ rotJob'.rot = rot /\ Who' = Who
      /\ rotJob'.who = rotJob.who /\ rotJob'.secret = secret
      /\ password' = [password EXCEPT ![Who] = secret]
      /\ Authenticates(rotJob.as)
      /\ UNCHANGED <<users, rotations, made, live, userJob>>
  BY DEF RotChanges, RotMoves, KeepsSecret, TurnGoesOn, Who
<1>3. /\ rot \in DOMAIN rotations /\ rotations[rot].user = Who /\ InFlight(rotations[rot])
      /\ rotations[rot].new = secret
      /\ \A u \in Admins \ {Who} : ~StaleCopy(u)
      /\ \A r \in DOMAIN rotations :
            rotations[r].user \in Admins /\ InFlight(rotations[r]) => r = rot
  BY <1>2, InTheTurn DEF Decided
<1>4. secret # None /\ MadeFor(secret, Who)
  BY <1>1, <1>2 DEF AdminTurn
<1>5. /\ \A a \in Admins \ {Who} : password'[a] = password[a]
      /\ password'[Who] = secret
  BY <1>2 DEF Shape, StoreShape, Users, Accounts
<1>6. PICK p \in Admins \ {Who} : Works(users[p].eff)
  <2>1. PICK p \in Admins \ {Who} : rotJob.as = users[p].eff /\ rotJob.as \in live
    BY <1>1, <1>2 DEF AdminTurn
  <2>2. rotJob.as # None
    BY <1>1, <2>1, MadeNumbers DEF AdminsStand, MadeFor
  <2> QED
    BY <1>2, <2>1, <2>2 DEF Works
<1>7. WillWork(users'[p].eff)
  BY <1>1, <1>2, <1>5, <1>6 DEF Works, Authenticates, WillWork, AdminsStand, MadeFor
<1>8. AdminReachable' /\ WillOtherWork(Who)
  BY <1>6, <1>7, InWords DEF WillOtherWork
<1>9. AdminsStand' /\ RotationsOwn' /\ OneTurn'
  BY <1>1, <1>2 DEF AdminsStand, MadeFor, RotationsOwn, OneTurn, Turn
<1>10. SpecAhead'
  <2>1. ASSUME NEW a \in Admins, users[a].spec # users[a].eff
        PROVE  WillGetIn(a, users[a].spec)
    <3>1. GetsInWith(a, users[a].spec) /\ a = Who /\ users[a].spec = secret
      BY <1>1, <1>3, <2>1 DEF SpecAhead
    <3> QED
      BY <1>2, <1>5, <3>1 DEF GetsInWith, WillGetIn
  <2> QED
    BY <1>1, <1>2, <2>1 DEF SpecAhead, GetsInWith, WillGetIn
<1>11. ASSUME NEW a \in Admins, NEW m, AdminCopy(a, m)
       PROVE  WillBeCopy(a, m)
  <2>1. users'[a].eff \notin {m.spec, m.eff} => WillBeStale(a)
    BY <1>2, <1>3, <1>8, <1>11 DEF AdminCopy, StaleCopy, WillBeStale, Turn
  <2>2. ASSUME m.spec # m.eff
        PROVE  WillBeAhead(a, m)
    <3>1. AheadCopy(a, m)
      BY <1>11, <2>2 DEF AdminCopy
    <3>2. a = Who => m.spec = secret
      BY <1>3, <3>1 DEF AheadCopy
    <3>3. WillGetIn(a, m.spec)
      BY <1>2, <1>5, <3>1, <3>2 DEF AheadCopy, GetsInWith, WillGetIn
    <3> QED
      BY <1>2, <3>1, <3>3 DEF AheadCopy, WillBeAhead
  <2> QED
    BY <1>2, <1>11, <2>1, <2>2 DEF AdminCopy, WillBeCopy, MadeFor, WillBeFor
<1>12. AdminJob'
  BY <1>2, <1>11, CopiesKept
<1>13. OtherWorks(Who)'
  BY <1>2, <1>8 DEF OtherWorks, WillOtherWork, Works, Authenticates, WillWork
<1>14. AdminTurn'
  BY <1>1, <1>2, <1>3, <1>4, <1>13 DEF AdminTurn, MadeFor
<1> QED
  BY <1>8, <1>9, <1>10, <1>12, <1>14 DEF Keeps

\* The spec is promoted to the secret that was tried.
LEMMA PromotesSpecWay ==
    ASSUME IInv, Shape, WayInv, rotJob # Idle, Who \in Admins, PromotesSpec
    PROVE  Keeps /\ AdminJob' /\ AdminTurn'
<1> DEFINE secret == rotJob.secret
           rot == rotJob.rot
<1>1. /\ AdminsStand /\ RotationsOwn /\ OneTurn /\ SpecAhead /\ AdminReachable /\ AdminTurn
  BY DEF WayInv
<1>2. /\ rotJob.pc = "spec" /\ rotJob'.pc = "status" /\ rotJob'.rot = rot /\ Who' = Who
      /\ rotJob'.who = users'[Who] /\ rotJob'.secret = secret
      /\ users'[Who].spec = Merge(rotJob.who.spec, secret, users[Who].spec)
      /\ users'[Who].eff = users[Who].eff /\ users'[Who].id = users[Who].id
      /\ users'[Who].exists = users[Who].exists /\ users'[Who].deleting = users[Who].deleting
      /\ \A a \in Admins \ {Who} : users'[a] = users[a]
      /\ UNCHANGED <<rotations, made, live, password, userJob>>
  BY DEF PromotesSpec, RotMoves, WritesUser, Users, Who
<1>3. /\ rot \in DOMAIN rotations /\ rotations[rot].user = Who /\ InFlight(rotations[rot])
      /\ rotations[rot].new = secret
      /\ \A r \in DOMAIN rotations :
            rotations[r].user \in Admins /\ InFlight(rotations[r]) => r = rot
  BY <1>2, InTheTurn DEF Decided
<1>4. /\ secret # None /\ MadeFor(secret, Who) /\ GetsInWith(Who, secret) /\ OtherWorks(Who)
      /\ rotJob.who.spec = users[Who].spec
  BY <1>1, <1>2 DEF AdminTurn
<1>5. users'[Who].spec = secret
  BY <1>2, <1>4 DEF Merge
<1>6. \A a \in Admins : users'[a].eff = users[a].eff
  BY <1>2
<1>7. AdminReachable' /\ \A a \in Admins : OtherWorks(a) => WillOtherWork(a)
  BY <1>1, <1>2, <1>6 DEF AdminReachable, OtherWorks, WillOtherWork, Works, Authenticates, WillWork
<1>8. AdminsStand' /\ RotationsOwn' /\ OneTurn'
  <2>1. AdminsStand'
    BY <1>1, <1>2, <1>4, <1>5 DEF AdminsStand, MadeFor
  <2>2. RotationsOwn' /\ OneTurn'
    BY <1>1, <1>2 DEF RotationsOwn, OneTurn, Turn, MadeFor
  <2> QED
    BY <2>1, <2>2
<1>9. SpecAhead'
  BY <1>1, <1>2, <1>3, <1>4, <1>5 DEF SpecAhead, GetsInWith
<1>10. ASSUME NEW a \in Admins, NEW m, AdminCopy(a, m)
       PROVE  WillBeCopy(a, m)
  <2>1. users'[a].eff \notin {m.spec, m.eff} => WillBeStale(a)
    BY <1>2, <1>6, <1>7, <1>10 DEF AdminCopy, StaleCopy, WillBeStale, Turn
  <2>2. ASSUME m.spec # m.eff
        PROVE  WillBeAhead(a, m)
    <3>1. AheadCopy(a, m)
      BY <1>10, <2>2 DEF AdminCopy
    <3>2. a = Who => m.spec = secret
      BY <1>3, <3>1 DEF AheadCopy
    <3> QED
      BY <1>2, <1>5, <1>6, <3>1, <3>2 DEF AheadCopy, WillBeAhead, GetsInWith, WillGetIn
  <2> QED
    BY <1>2, <1>10, <2>1, <2>2 DEF AdminCopy, WillBeCopy, MadeFor, WillBeFor
<1>11. AdminJob'
  BY <1>2, <1>10, CopiesKept
<1>12. OtherWorks(Who)'
  BY <1>2, <1>4, <1>7 DEF OtherWorks, WillOtherWork, Works, Authenticates, WillWork
<1>13. AdminTurn'
  BY <1>1, <1>2, <1>3, <1>4, <1>5, <1>12 DEF AdminTurn, AdminsStand, MadeFor, GetsInWith
<1> QED
  BY <1>7, <1>8, <1>9, <1>11, <1>13 DEF Keeps

\* The effective secret is promoted; a peer gets in meanwhile.
LEMMA PromotesStatusWay ==
    ASSUME IInv, Shape, WayInv, rotJob # Idle, Who \in Admins, PromotesStatus
    PROVE  Keeps /\ AdminJob' /\ AdminTurn'
<1> DEFINE secret == rotJob.secret
           rot == rotJob.rot
<1>1. /\ AdminsStand /\ RotationsOwn /\ OneTurn /\ SpecAhead /\ AdminReachable /\ AdminTurn
  BY DEF WayInv
<1>2. /\ rotJob.pc = "status" /\ rotJob'.pc \in {"bmc", "finish"} /\ rotJob'.rot = rot /\ Who' = Who
      /\ rotJob'.who = users'[Who] /\ rotJob'.secret = secret
      /\ users'[Who].eff = Merge(rotJob.who.eff, secret, users[Who].eff)
      /\ users'[Who].spec = users[Who].spec /\ users'[Who].id = users[Who].id
      /\ users'[Who].exists = users[Who].exists /\ users'[Who].deleting = users[Who].deleting
      /\ \A a \in Admins \ {Who} : users'[a] = users[a]
      /\ UNCHANGED <<rotations, made, live, password, userJob>>
  BY DEF PromotesStatus, RotMoves, WritesUser, Users, Who
<1>3. /\ rot \in DOMAIN rotations /\ rotations[rot].user = Who /\ InFlight(rotations[rot])
      /\ rotations[rot].new = secret
      /\ \A u \in Admins \ {Who} : ~StaleCopy(u)
      /\ \A r \in DOMAIN rotations :
            rotations[r].user \in Admins /\ InFlight(rotations[r]) => r = rot
  BY <1>2, InTheTurn DEF Decided
<1>4. /\ secret # None /\ MadeFor(secret, Who) /\ GetsInWith(Who, secret) /\ OtherWorks(Who)
      /\ users[Who].spec = secret
      /\ rotJob.who.eff = secret => users[Who].eff = secret
  BY <1>1, <1>2 DEF AdminTurn
<1>5. users'[Who].eff = secret
  BY <1>2, <1>4 DEF Merge
<1>6. WillOtherWork(Who)
  BY <1>2, <1>4 DEF OtherWorks, WillOtherWork, Works, Authenticates, WillWork
<1>7. AdminReachable'
  BY <1>6, InWords DEF WillOtherWork
<1>8. AdminsStand' /\ RotationsOwn' /\ OneTurn'
  BY <1>1, <1>2, <1>4, <1>5 DEF AdminsStand, MadeFor, RotationsOwn, OneTurn, Turn
<1>9. SpecAhead'
  BY <1>1, <1>2, <1>4, <1>5 DEF SpecAhead, GetsInWith
<1>10. ASSUME NEW a \in Admins, NEW m, AdminCopy(a, m)
       PROVE  WillBeCopy(a, m)
  <2>1. ASSUME users'[a].eff \notin {m.spec, m.eff}
        PROVE  WillBeStale(a)
    <3>1. a = Who
      BY <1>2, <1>3, <1>10, <2>1 DEF AdminCopy
    <3> QED
      BY <1>2, <1>3, <1>6, <3>1 DEF WillBeStale
  <2>2. ASSUME m.spec # m.eff
        PROVE  WillBeAhead(a, m)
    <3>1. AheadCopy(a, m)
      BY <1>10, <2>2 DEF AdminCopy
    <3>2. users'[a].spec = m.spec /\ users'[a].eff \in {m.eff, m.spec}
      BY <1>2, <1>4, <1>5, <3>1 DEF AheadCopy
    <3> QED
      BY <1>2, <3>1, <3>2 DEF AheadCopy, WillBeAhead, GetsInWith, WillGetIn
  <2> QED
    BY <1>2, <1>10, <2>1, <2>2 DEF AdminCopy, WillBeCopy, MadeFor, WillBeFor
<1>11. AdminJob'
  BY <1>2, <1>10, CopiesKept
<1>12. OtherWorks(Who)'
  BY <1>2, <1>6 DEF OtherWorks, WillOtherWork, Works, Authenticates, WillWork
<1>13. AdminTurn'
  BY <1>1, <1>2, <1>3, <1>4, <1>5, <1>12 DEF AdminTurn, AdminsStand, MadeFor, GetsInWith
<1> QED
  BY <1>7, <1>8, <1>9, <1>11, <1>13 DEF Keeps

\* An admin whose new password is rejected has its spec's secret in effect: were
\* the spec ahead, it would name the very secret that is rejected.
LEMMA RejectedInStep ==
    ASSUME IInv, Shape, WayInv, rotJob # Idle, Who \in Admins, rotJob.pc = "try",
           ~Authenticates(rotJob.secret)
    PROVE  users[Who].spec = users[Who].eff
<1> DEFINE it == users[Who]
<1>1. SpecAhead /\ AdminsStand
  BY DEF WayInv
<1> SUFFICES ASSUME it.spec # it.eff
             PROVE  FALSE
  OBVIOUS
<1>2. GetsInWith(Who, it.spec)
  BY <1>1 DEF SpecAhead
<1>3. PICK r \in DOMAIN rotations :
         rotations[r].user = Who /\ InFlight(rotations[r]) /\ rotations[r].new = it.spec
  BY <1>1 DEF SpecAhead
<1>4. r = rotJob.rot
  BY <1>3, TheTurn DEF Turn
<1>5. rotJob.secret = it.spec
  BY <1>3, <1>4 DEF IInv, RotJobInv, Decided
<1> QED
  BY <1>1, <1>2, <1>5 DEF Authenticates, GetsInWith, AdminsStand, MadeFor

\* The other steps of a turn tell the store and the BMC nothing of the admins.
LEMMA TurnGoesOnQuietly ==
    ASSUME IInv, Shape, WayInv, MadeStays, rotJob # Idle, Who \in Admins, TurnGoesOn,
           RotGoesOn \/ RotMakes \/ PromotesBMC
    PROVE  Keeps /\ AdminJob' /\ AdminTurn'
<1> DEFINE secret == rotJob.secret
           rot == rotJob.rot
<1>1. AdminsStand /\ AdminTurn
  BY DEF WayInv
<1>2. /\ UNCHANGED <<users, password, userJob>> /\ live \subseteq live'
      /\ rotJob'.rot = rot /\ rotJob'.who = rotJob.who /\ Who' = Who
      /\ RotationsSame /\ TurnsKept
  BY DEF RotGoesOn, RotMakes, Makes, PromotesBMC, RotMoves, KeepsSecret, Who, RotationsSame,
         TurnGoesOn
<1>3. Quietly
  BY <1>2 DEF Quietly, AdminKept, TurnsSame, RotationsSame, TurnsKept
<1>4. Keeps /\ AdminJob'
  BY <1>2, <1>3, QuietKeeps, CopiesKept DEF Keeps
<1>5. InFlight(rotations[rot]) /\ InFlight(rotations'[rot])
  BY <1>2, InTheTurn DEF TurnsKept
<1>6. OtherWorks(Who)' <=> WillOtherWork(Who)
  BY <1>2 DEF OtherWorks, WillOtherWork, Works, Authenticates, WillWork
<1>7. OtherWorks(Who) => OtherWorks(Who)'
  BY <1>3, <1>6, QuietKeeps
<1>8. secret # None => WillBeFor(secret, Who)
  BY <1>1, MadeForStays DEF AdminTurn
<1>9. rotJob.who.eff \in DOMAIN made /\ rotJob.who.eff \in DOMAIN made'
  BY <1>1 DEF AdminTurn, MadeStays
<1>10. CASE RotGoesOn
  <2>1. rotJob'.secret = secret
    BY <1>10 DEF RotGoesOn, KeepsSecret
  <2>2. CASE rotJob.pc = "client"
    <3>1. /\ rotJob'.pc \in {"make", "change"}
          /\ rotJob'.pc = "change" => secret # None
          /\ \E p \in Admins \ {Who} : rotJob'.as = users[p].eff /\ rotJob'.as \in live
      BY <1>10, <2>2 DEF RotGoesOn, RotMoves, TurnGoesOn
    <3>2. \E p \in Admins \ {Who} : rotJob'.as = users'[p].eff /\ rotJob'.as \in live'
      BY <1>2, <3>1
    <3> QED
      BY <1>1, <1>2, <1>4, <1>5, <1>8, <1>9, <2>1, <3>1, <3>2 DEF AdminTurn, MadeFor, WillBeFor
  <2>3. CASE rotJob.pc = "try" /\ rotJob'.pc = "spec"
    <3>1. rotJob'.pc = "spec" /\ Authenticates(secret) /\ secret # None /\ MadeFor(secret, Who)
      BY <1>1, <1>10, <2>3 DEF RotGoesOn, RotMoves, TurnGoesOn, AdminTurn
    <3>2. GetsInWith(Who, secret)'
      BY <1>2, <1>10, <2>1, <3>1 DEF Authenticates, GetsInWith, MadeFor, RotGoesOn
    <3> QED
      BY <1>1, <1>2, <1>4, <1>5, <1>7, <1>8, <1>9, <2>1, <2>3, <3>1, <3>2
         DEF AdminTurn, MadeFor, WillBeFor, GetsInWith
  <2>4. CASE rotJob.pc = "try" /\ rotJob'.pc = "fail"
    <3>1. ~Authenticates(secret) /\ secret # None /\ MadeFor(secret, Who)
      BY <1>1, <2>4 DEF TurnGoesOn, AdminTurn
    <3>2. users[Who].spec = users[Who].eff
      BY <3>1, RejectedInStep, <2>4
    <3> QED
      BY <1>1, <1>2, <1>4, <1>5, <1>8, <1>9, <2>1, <2>4, <3>1, <3>2
         DEF AdminTurn, MadeFor, WillBeFor
  <2> QED
    BY <1>10, <2>2, <2>3, <2>4 DEF RotGoesOn, RotMoves
<1>11. CASE RotMakes
  <2>1. /\ rotJob.pc = "make" /\ rotJob'.pc = "persist" /\ rotJob'.secret = Len(made) + 1
        /\ Len(made) + 1 \notin DOMAIN made /\ WillBeFor(Len(made) + 1, Who)
        /\ rotJob'.as = rotJob.as
    BY <1>11 DEF RotMakes, RotMoves, Makes, TurnGoesOn
  <2>2. Len(made) + 1 # None
    BY CredentialAssumption DEF IInv
  <2>3. \E p \in Admins \ {Who} : rotJob'.as = users'[p].eff /\ rotJob'.as \in live'
    BY <1>1, <1>2, <2>1 DEF AdminTurn
  <2> QED
    BY <1>1, <1>2, <1>4, <1>5, <1>9, <2>1, <2>2, <2>3 DEF AdminTurn, MadeFor, WillBeFor
<1>12. CASE PromotesBMC
  <2>1. /\ rotJob.pc = "bmc" /\ rotJob'.pc = "finish" /\ rotJob'.secret = secret
        /\ UNCHANGED made
    BY <1>12 DEF PromotesBMC, RotMoves, KeepsSecret
  <2> QED
    BY <1>1, <1>2, <1>4, <1>5, <1>7, <1>8, <1>9, <2>1 DEF AdminTurn, MadeFor, WillBeFor, GetsInWith
<1> QED
  BY <1>10, <1>11, <1>12

\* An admin's rotation keeps the admins.
LEMMA TurnMovesWay ==
    ASSUME IInv, Shape, WayInv, MadeStays, rotJob # Idle, Who \in Admins,
           (RotationMoves /\ TurnGoesOn) \/ TurnEnds \/ TurnLeft
    PROVE  Keeps /\ AdminJob' /\ AdminTurn'
<1>1. CASE TurnEnds
  BY <1>1, TurnEndsWay
<1>2. ASSUME rotJob' = Idle, RotationsSame, TurnsKept, UNCHANGED <<users, made, live, password, userJob>>
      PROVE  Keeps /\ AdminJob' /\ AdminTurn'
  <2>1. Quietly
    BY <1>2 DEF Quietly, AdminKept, TurnsSame, RotationsSame, TurnsKept
  <2>2. AdminTurn'
    BY <1>2 DEF AdminTurn
  <2> QED
    BY <1>2, <2>1, <2>2, QuietKeeps, CopiesKept DEF Keeps
<1>3. CASE TurnLeft
  BY <1>2, <1>3 DEF TurnLeft
<1>4. CASE RotationMoves /\ TurnGoesOn
  <2>1. CASE RotIdles
    BY <1>2, <1>4, <2>1 DEF RotIdles, TurnGoesOn
  <2> QED
    BY <1>4, <2>1, PersistsWay, ChangesWay, PromotesSpecWay, PromotesStatusWay, TurnGoesOnQuietly
       DEF RotationMoves, RotStarts
<1> QED
  BY <1>1, <1>3, <1>4

\* The rotation of another user is nothing to the admins.
LEMMA ServiceTurnWay ==
    ASSUME IInv, Shape, WayInv, MadeStays, rotJob # Idle, Who \notin Admins, RotationMoves, TurnsKept
    PROVE  Keeps /\ AdminJob' /\ AdminTurn'
<1>1. \A a \in Admins : a # Who /\ a \in Users /\ a \in Accounts
  BY DEF Users, Accounts
<1>2. rotJob.rot \in DOMAIN rotations /\ rotations[rotJob.rot].user \notin Admins
  BY RotationOfWho
<1>3. \A a \in Admins : users'[a] = users[a] /\ password'[a] = password[a]
  BY <1>1 DEF RotationMoves, RotStarts, RotIdles, RotGoesOn, RotMakes, RotPersists, RotChanges,
     PromotesSpec, PromotesStatus, PromotesBMC, WritesUser, Shape, StoreShape
<1>4. live \subseteq live' /\ UNCHANGED userJob
  BY DEF RotationMoves, RotStarts, RotIdles, RotGoesOn, RotMakes, RotPersists, RotChanges,
     PromotesSpec, PromotesStatus, PromotesBMC, Makes
<1>5. \/ RotationsSame
      \/ RotPersists
  BY DEF RotationMoves, RotStarts, RotIdles, RotGoesOn, RotMakes, RotChanges,
     PromotesSpec, PromotesStatus, PromotesBMC, RotationsSame
<1>6. TurnsSame
  BY <1>2, <1>5 DEF RotationsSame, RotPersists, TurnsSame, TurnsKept
<1>7. Quietly
  BY <1>3, <1>4, <1>6 DEF Quietly, AdminKept
<1>8. rotJob' = Idle \/ Who' = Who
  BY DEF RotationMoves, RotStarts, RotIdles, RotGoesOn, RotMakes, RotPersists, RotChanges,
     PromotesSpec, PromotesStatus, PromotesBMC, RotMoves, Who
<1>9. AdminTurn'
  BY <1>8 DEF AdminTurn
<1> QED
  BY <1>4, <1>7, <1>9, QuietKeeps, CopiesKept DEF Keeps

\* A turn starts with what is stored.
LEMMA TurnStartsWay ==
    ASSUME IInv, IInv', Shape, WayInv, MadeStays, "users" \notin Lagging, RotStarts, TurnsKept,
           rotJob' # Idle /\ rotJob'.me.user \in Admins => InFlight(rotations'[rotJob'.rot])
    PROVE  Keeps /\ AdminJob' /\ AdminTurn'
<1>1. Quietly
  BY DEF RotStarts, Quietly, AdminKept, TurnsSame, RotationsSame, TurnsKept
<1>2. Keeps /\ AdminJob'
  BY <1>1, QuietKeeps, CopiesKept DEF Keeps, RotStarts
<1>3. AdminTurn'
  <2> SUFFICES ASSUME rotJob' # Idle, Who' \in Admins
               PROVE  AdminTurn'
    BY DEF AdminTurn, Who
  <2>1. /\ rotJob'.pc = "client" /\ rotJob'.rot \in rotQueue
        /\ rotJob'.me.user = rotations[rotJob'.rot].user
        /\ rotJob'.who = users'[Who'] /\ UNCHANGED <<users, made>>
    BY DEF RotStarts, Shape, CacheShape, Who
  <2>2. /\ rotJob'.rot \in DOMAIN rotations' /\ rotations'[rotJob'.rot].user = Who'
        /\ rotJob'.secret = rotations'[rotJob'.rot].new
    BY <2>1 DEF IInv, CacheTyped, RotJobInv, Decided, RotStarts, RotationsSame, Who
  <2>3. rotJob'.secret # None => MadeFor(rotJob.secret, Who)'
    BY <1>2, <2>2 DEF Keeps, RotationsOwn
  <2>4. rotJob'.who.eff \in DOMAIN made'
    BY <1>2, <2>1 DEF Keeps, AdminsStand, MadeFor
  <2>5. InFlight(rotations'[rotJob'.rot])
    BY DEF Who
  <2> QED
    BY <2>1, <2>3, <2>4, <2>5 DEF AdminTurn
<1> QED
  BY <1>2, <1>3

-----------------------------------------------------------------------------
(* Persons, the clock, the garbage collector, failures                     *)

\* Those who leave the admins' objects alone keep the admins.
LEMMA OthersWay ==
    ASSUME IInv, Shape, WayInv, MadeStays, AdminsLeftAlone, TurnsKept, AdminsUndeleted,
           (\E u \in Users : PersonMoves(u) \/ AgesUser(u)) \/ OnlyCaches
    PROVE  Keeps /\ AdminJob' /\ AdminTurn'
<1>1. AdminsStand /\ \A a \in Admins : a \in Users /\ a \notin Repointable /\ a \in Accounts
  BY DEF WayInv, AdminsLeftAlone, Users, Accounts
<1>2. ASSUME NEW a \in Admins
      PROVE  AdminKept(a)
  <2>1. \A u \in Users : ~RepointsUser(u)
    BY DEF RepointsUser, AdminsLeftAlone
  <2>2. ASSUME NEW u \in Users, CollectsOwn(u)
        PROVE  AdminKept(a)
    BY <1>1, <2>2 DEF CollectsOwn, Bystanders, AdminKept, AdminsStand, MadeFor
  <2>3. ASSUME NEW u \in Users, DeletesUser(u)
        PROVE  AdminKept(a)
    <3>1. DOMAIN users = Users /\ DOMAIN users[u] = UserFields
      BY DEF Shape, StoreShape
    <3> QED
      BY <1>1, <2>3, <3>1 DEF DeletesUser, Bystanders, AdminKept, AdminsUndeleted, UserFields
  <2>4. ASSUME NEW u \in Users, AgesUser(u) \/ AnnotatesUser(u)
        PROVE  AdminKept(a)
    BY <1>1, <2>4 DEF AgesUser, AnnotatesUser, TouchesUser, WritesUser, Bystanders, AdminKept
  <2>5. ASSUME NEW u \in Users, UserStarts(u)
        PROVE  AdminKept(a)
    BY <2>5 DEF UserStarts, AdminKept
  <2>6. OnlyCaches => AdminKept(a)
    BY DEF OnlyCaches, AdminKept
  <2> QED
    BY <2>1, <2>2, <2>3, <2>4, <2>5, <2>6 DEF PersonMoves
<1>3. TurnsSame
  <2>1. RotationsSame \/ UNCHANGED rotations
    BY DEF PersonMoves, UserStarts, RepointsUser, AnnotatesUser, DeletesUser, CollectsOwn, OnlyCaches,
       AgesUser
  <2> QED
    BY <2>1 DEF RotationsSame, TurnsSame, TurnsKept
<1>4. Quietly
  BY <1>2, <1>3 DEF Quietly
<1>5. Keeps
  BY <1>4, QuietKeeps DEF Keeps
<1>6. AdminTurn'
  <2>1. rotJob' = Idle \/ UNCHANGED rotJob
    BY DEF PersonMoves, UserStarts, RepointsUser, AnnotatesUser, DeletesUser, CollectsOwn, OnlyCaches,
       AgesUser, Bystanders
  <2>2. rotJob' = Idle => AdminTurn'
    BY DEF AdminTurn
  <2> QED
    BY <1>4, <2>1, <2>2, TurnStays
<1>7. AdminJob'
  <2>1. CASE userJob' = Idle
    BY <2>1 DEF AdminJob
  <2>2. CASE UNCHANGED userJob
    BY <1>4, <2>2, QuietKeeps, CopiesKept
  <2>3. ASSUME NEW u \in Users, UserStarts(u), userJob' # Idle, u \in Admins
        PROVE  AdminJob'
    <3>1. /\ userJob'.user = u /\ userJob'.me = users'[u]
          /\ userJob'.pc = IF users[u].deleting THEN "delete" ELSE "test"
      BY <2>3 DEF UserStarts, AdminsLeftAlone, Shape, CacheShape
    <3>2. userJob'.pc = "test"
      BY <1>1, <2>3, <3>1 DEF AdminsStand
    <3>3. WillBeCopy(u, userJob'.me)
      BY <1>5, <2>3, <3>1, FreshCopy DEF Keeps
    <3> QED
      BY <3>1, <3>2, <3>3, InWords DEF Unvisited
  <2>4. ASSUME NEW u \in Users, UserStarts(u), userJob' # Idle, u \notin Admins
        PROVE  AdminJob'
    BY <2>4 DEF UserStarts, AdminJob
  <2> QED
    BY <2>1, <2>2, <2>3, <2>4 DEF PersonMoves, RepointsUser, AnnotatesUser, DeletesUser, CollectsOwn,
       OnlyCaches, AgesUser, Bystanders
<1> QED
  BY <1>5, <1>6, <1>7

-----------------------------------------------------------------------------
(* Every step                                                              *)

\* The invariant is inductive.
LEMMA WayStep ==
    ASSUME IInv, Shape, WayInv, AdminsLeftAlone, [Next]_vars
    PROVE  WayInv'
<1>1. IInv' /\ MadeStays
  BY EveryStep, SecretsStayMade
<1>2. AdminMoves
  BY <1>1, EveryAdminStep DEF WayInv
<1>3. "users" \notin Lagging /\ "rotations" \notin Lagging
  BY DEF AdminsLeftAlone
<1>4. RotationsKnown'
  BY <1>3, RotationsStayKnown DEF WayInv
<1>5. Keeps /\ AdminJob' /\ AdminTurn'
  BY <1>1, <1>2, <1>3, UserMovesWay, TurnMovesWay, ServiceTurnWay, TurnStartsWay, OthersWay
     DEF AdminMoves
<1> QED
  BY <1>4, <1>5 DEF Keeps, WayInv

\* At first every account has its user's secret, and the BMC has an admin's.
LEMMA WayAtFirst ==
    ASSUME Init, Bootstrapped
    PROVE  WayInv
<1>1. rotations = << >> /\ cache = Store /\ userJob = Idle /\ rotJob = Idle
  BY DEF Init
<1>2. PICK own \in [Users -> 2..(Cardinality(Users) + 1)] :
         /\ {own[u] : u \in Users} = 2..(Cardinality(Users) + 1)
         /\ users = [u \in Users |-> [NewUser EXCEPT
                        !.id = TRUE, !.spec = own[u], !.eff = own[u], !.observed = own[u]]]
         /\ made = [s \in 1..(Cardinality(Users) + 1) |->
                       IF s = Factory THEN FactorySecret
                       ELSE LET u == CHOOSE u \in Users : own[u] = s IN
                            [account |-> u, owner |-> u, label |-> 0, bad |-> FALSE]]
         /\ live = DOMAIN made
         /\ password = [a \in Accounts |-> IF a = Factory THEN Factory ELSE own[a]]
         /\ cred \in {own[a] : a \in Admins}
  BY DEF Init, InitBootstrapped
<1>3. \A u, v \in Users : own[u] = own[v] => u = v
  BY <1>2, OwnSecrets
<1>4. Cardinality(Users) \in Nat
  BY CredentialAssumption, FS_CardinalityType
<1>5. ASSUME NEW u \in Users
      PROVE  own[u] \in live /\ MadeFor(own[u], u) /\ ~made[own[u]].bad /\ own[u] # None
  <2>1. /\ own[u] \in 1..(Cardinality(Users) + 1) /\ own[u] # Factory
        /\ own[u] \in Nat
    BY <1>4 DEF Factory
  <2>2. (CHOOSE v \in Users : own[v] = own[u]) = u
    BY <1>3
  <2>3. made[own[u]] = [account |-> u, owner |-> u, label |-> 0, bad |-> FALSE]
    BY <1>2, <2>1, <2>2
  <2> QED
    BY <1>2, <2>1, <2>3, CredentialAssumption DEF MadeFor
<1>6. \A a \in Admins :
         /\ users[a].spec = own[a] /\ users[a].eff = own[a]
         /\ users[a].exists /\ ~users[a].deleting /\ users[a].id
  BY <1>2 DEF NewUser, Users
<1>7. AdminsStand
  BY <1>5, <1>6 DEF AdminsStand, Users
<1>8. AdminReachable
  <2>1. PICK a \in Admins : cred = own[a]
    BY <1>2
  <2>2. own[a] \in live /\ made[own[a]].account = a /\ ~made[own[a]].bad /\ own[a] # None
    BY <1>5 DEF MadeFor, Users
  <2>3. a # Factory /\ a \in Accounts
    BY CredentialAssumption DEF Users, Accounts
  <2>4. password[a] = own[a]
    BY <1>2, <2>3
  <2> QED
    BY <1>6, <2>2, <2>4 DEF AdminReachable, Works, Authenticates
<1> QED
  BY <1>1, <1>6, <1>7, <1>8 DEF WayInv, RotationsOwn, OneTurn, SpecAhead, AdminJob, AdminTurn,
     RotationsKnown, Store, Turn

\* The invariant holds as long as the admins are left alone.
LEMMA WayAlways == ASSUME AdminsLeftAlone PROVE Spec => []WayInv
<1>1. Init => WayInv
  BY WayAtFirst DEF AdminsLeftAlone
<1>2. IInv /\ Shape /\ WayInv /\ [Next]_vars => WayInv'
  BY WayStep
<1> QED
  BY <1>1, <1>2, AlwaysInShape, PTL DEF Spec

\* There is always a way in: while persons leave the admins alone and no cache
\* trails but the BMC's, some OperatorAdmin's effective secret is there and its
\* account has that password, after every step of both controllers, however they
\* overlap, whichever calls fail and wherever the operator restarts.
THEOREM AlwaysAWayIn ==
    ASSUME AdminsLeftAlone
    PROVE  Spec => []AdminReachable
<1>1. WayInv => AdminReachable
  BY DEF WayInv
<1> QED
  BY <1>1, WayAlways, PTL

-----------------------------------------------------------------------------
(* Types                                                                   *)

StoreTyped ==
    /\ users \in [Users -> User] /\ cred \in Secrets
    /\ password \in [Accounts -> Ref]
    /\ made \in Seq(Secret) /\ Len(made) =< MaxSecrets
CachesTyped == cache.users \in [Users -> User] /\ cache.bmc \in Secrets
CountsTyped == userQueue \subseteq Users /\ faults \in 0..MaxFaults

\* A rotation refers to a secret, or to none, in the cache as well.
Refers(rot) == rot.new \in Ref
RotationsTyped == \A r \in DOMAIN rotations : Refers(rotations[r])
CopiesTyped == \A r \in DOMAIN cache.rotations : Refers(cache.rotations[r])

\* The reconciles under way, by what they will write.
UserJobWrites ==
    userJob # Idle =>
        /\ userJob.me \in User /\ userJob.bmc \in Secrets /\ userJob.secret \in Ref
        /\ userJob.pc = "adopt" => userJob.me.spec # None
        /\ userJob.pc = "sync" => userJob.secret # None
RotJobWrites ==
    rotJob # Idle =>
        /\ rotJob.who \in User /\ rotJob.bmc \in Secrets /\ rotJob.secret \in Ref
        /\ rotJob.pc \notin {"client", "make"} => rotJob.secret # None

TypesInv ==
    /\ StoreTyped /\ CachesTyped /\ CountsTyped /\ RotationsTyped
    /\ UserJobWrites /\ RotJobWrites /\ CopiesTyped

\* What the watches deliver is typed as what is stored.
LEMMA DeliveredTypes ==
    ASSUME IInv, TypesInv, StoreTyped', NEW uq \in SUBSET Users, NEW rq, DeliverTo(uq, rq)
    PROVE  CachesTyped' /\ userQueue' \subseteq Users
<1>1. DOMAIN cache = Kinds
  BY DEF IInv, CacheTyped
<1>2. cache'.users \in {cache.users, users'} /\ cache'.bmc \in {cache.bmc, cred'}
  BY <1>1 DEF DeliverTo, Kinds, Store
<1>3. userQueue' \subseteq Users
  BY DEF DeliverTo, WokenUsers
<1> QED
  BY <1>2, <1>3 DEF TypesInv, CachesTyped, StoreTyped

\* A delivery to a queue of users.
TypedDelivery == \E uq \in SUBSET Users : \E rq : DeliverTo(uq, rq)

\* Every delivery of the controllers is one.
LEMMA DeliveryTyped ==
    ASSUME IInv, TypesInv
    PROVE  /\ UserController!Deliver => TypedDelivery
           /\ RotationController!Deliver => TypedDelivery
           /\ \A rq : RotationController!DeliverTo(userQueue, rq) => TypedDelivery
           /\ \A u \in Users : \A rq : UserController!DeliverTo(userQueue \ {u}, rq) => TypedDelivery
           /\ \A u \in Users : \A rq : UserController!DeliverTo(userQueue \cup {u}, rq) => TypedDelivery
<1>1. /\ userQueue \in SUBSET Users
      /\ \A u \in Users : userQueue \ {u} \in SUBSET Users /\ userQueue \cup {u} \in SUBSET Users
  BY DEF TypesInv, CountsTyped
<1>2. \A uq \in SUBSET Users : \A rq : DeliverTo(uq, rq) => TypedDelivery
  BY DEF TypedDelivery
<1> QED
  BY <1>1, <1>2, SameDelivery DEF Deliver

\* The next secret is typed where there is room for it.
LEMMA MadeTyped ==
    ASSUME IInv, TypesInv, NEW secret \in Secret, Make(secret)
    PROVE  /\ made' \in Seq(Secret) /\ Len(made') =< MaxSecrets
           /\ Len(made) + 1 \in Secrets
<1>1. made \in Seq(Secret) /\ MaxSecrets \in Nat
  BY CredentialAssumption DEF TypesInv, StoreTyped
<1> QED
  BY <1>1 DEF Make, Secrets

\* The references are none, or numbers of secrets.
LEMMA RefsNumbered == None \in Ref /\ None \notin Secrets /\ \A s \in Ref : s = None \/ s \in Secrets
BY CredentialAssumption DEF Ref, Secrets

-----------------------------------------------------------------------------
(* The types of the user's steps                                           *)

\* A user that is patched.
LEMMA PatchedTypes ==
    ASSUME IInv, TypesInv, userJob # Idle, NEW new \in User, NEW next,
           DOMAIN next = DOMAIN userJob, next.bmc = userJob.bmc, next.secret \in Ref,
           next.pc # "adopt", next.pc = "sync" => next.secret # None,
           UserController!PatchUser(new, next)
    PROVE  StoreTyped' /\ UserJobWrites' /\ UNCHANGED <<rotations, rotJob, faults>> /\ TypedDelivery
<1>1. userJob.user \in Users /\ "me" \in DOMAIN next
  BY DEF IInv, UserJobTyped
<1>2. /\ users' = [users EXCEPT ![userJob.user] = new]
      /\ userJob' = [next EXCEPT !.me = new]
      /\ UNCHANGED <<cred, rotations, made, password, rotJob, faults>>
  BY DEF UserController!PatchUser, UserController!Continue
<1>3. StoreTyped'
  BY <1>2 DEF TypesInv, StoreTyped
<1>4. UserJobWrites'
  BY <1>1, <1>2 DEF TypesInv, UserJobWrites
<1> QED
  BY <1>2, <1>3, <1>4, DeliveryTyped DEF UserController!PatchUser

UserTypes ==
    /\ StoreTyped' /\ UserJobWrites' /\ UNCHANGED <<rotJob, faults>> /\ TypedDelivery
    /\ \/ UNCHANGED rotations
       \/ \E rot : Refers(rot) /\ rotations' = Append(rotations, rot)

\* Every step of the user's reconcile.
LEMMA UserStepTypes ==
    ASSUME IInv, TypesInv, UserController!UserStep
    PROVE  UserTypes
<1> DEFINE u == userJob.user
           me == userJob.me
           Ends == UserController!Requeue \/ UserController!Finish
<1> USE DEF UserController!At, UserController!Continue, UserController!Goto, UserController!objects
<1>1. userJob # Idle
  BY DEF UserController!UserStep, UserController!updateEffectiveSecret,
     UserController!setEffectiveSecretRef, UserController!syncBMCSecretRefToBMC,
     UserController!Login, UserController!createBMCSecretForUser,
     UserController!setBMCUserSecretRef, UserController!CreateAccount,
     UserController!RecordAccount, UserController!reconcileSecretRef,
     UserController!pruneOldSecrets, UserController!SetConditions,
     UserController!TriggerRotation, UserController!ensureBMCUserRotation,
     UserController!DeleteUser, UserController!FindAccount, UserController!DeleteAccount,
     UserController!RemoveFinalizer
<1>2. /\ DOMAIN userJob = {"pc", "user", "me", "bmc", "as", "secret", "force"} /\ u \in Users
      /\ me \in User /\ userJob.bmc \in Secrets /\ userJob.secret \in Ref
      /\ userJob.pc = "adopt" => me.spec # None
      /\ userJob.pc = "sync" => userJob.secret # None
      /\ users[u] \in User /\ users \in [Users -> User]
      /\ StoreTyped
  BY <1>1 DEF IInv, UserJobTyped, TypesInv, UserJobWrites, StoreTyped
<1>3. CASE Ends
  <2>1. TypedDelivery
    BY <1>2, <1>3, DeliveryTyped DEF UserController!Requeue, UserController!Finish
  <2>2. StoreTyped' /\ UserJobWrites' /\ UNCHANGED <<rotJob, faults, rotations>>
    BY <1>2, <1>3 DEF UserController!Requeue, UserController!Finish, StoreTyped, UserJobWrites
  <2> QED
    BY <2>1, <2>2 DEF UserTypes
<1> HIDE DEF Ends
\* A step that goes on with the same copies, and writes no user.
<1>4. ASSUME UNCHANGED <<users, rotations, made, rotJob, faults>>, cred' \in Secrets,
             password' \in [Accounts -> Ref], UserController!Deliver,
             userJob'.me = me, userJob'.bmc \in Secrets, userJob'.secret \in Ref,
             userJob'.pc = "adopt" => me.spec # None, userJob'.pc # "sync"
      PROVE  UserTypes
  BY <1>2, <1>4, DeliveryTyped DEF UserTypes, StoreTyped, UserJobWrites
<1>5. CASE UserController!updateEffectiveSecret /\ ~Ends
  <2>1. /\ UNCHANGED <<users, rotations, made, rotJob, faults, cred, password>>
        /\ UserController!Deliver
        /\ userJob' = [userJob EXCEPT !.pc = IF me.spec # None /\ me.id /\ UserController!Adopts(me)
                                             THEN "adopt" ELSE "login"]
    BY <1>5 DEF UserController!updateEffectiveSecret, Ends
  <2> QED
    BY <1>2, <1>4, <2>1 DEF StoreTyped
<1>6. CASE UserController!setEffectiveSecretRef /\ ~Ends
  <2> DEFINE new == [users[u] EXCEPT !.eff = Merge(me.eff, me.spec, users[u].eff)]
             sync == u \in Admins /\ userJob.bmc # me.spec
             next == [userJob EXCEPT !.secret = me.spec, !.pc = IF sync THEN "sync" ELSE "login"]
  <2>1. new \in User
    BY <1>2 DEF User, Merge
  <2>2. /\ DOMAIN next = DOMAIN userJob /\ next.bmc = userJob.bmc /\ next.secret = me.spec
        /\ next.pc \in {"sync", "login"}
    BY <1>2
  <2>3. UserController!PatchUser(new, next) /\ me.spec # None /\ me.spec \in Ref
    BY <1>2, <1>6 DEF UserController!setEffectiveSecretRef, Ends, User, Merge, UserController!Merge
  <2> HIDE DEF new, next
  <2> QED
    BY <1>1, <2>1, <2>2, <2>3, PatchedTypes DEF UserTypes
<1>7. CASE UserController!syncBMCSecretRefToBMC
  <2>1. /\ UNCHANGED <<users, rotations, made, rotJob, faults, password>> /\ UserController!Deliver
        /\ cred' = userJob.secret /\ userJob.pc = "sync"
        /\ userJob' = [userJob EXCEPT !.bmc = userJob.secret, !.pc = "login"]
    BY <1>7 DEF UserController!syncBMCSecretRefToBMC
  <2>2. userJob.secret \in Secrets
    BY <1>2, <2>1, RefsNumbered
  <2> QED
    BY <1>2, <1>4, <2>1, <2>2 DEF StoreTyped
<1>8. CASE UserController!Login /\ ~Ends
  <2> DEFINE as == IF ~me.id /\ me.eff = None THEN Factory ELSE userJob.bmc
             job(m) == [userJob EXCEPT !.as = as,
                           !.pc = IF m.spec = None THEN "secret"
                                  ELSE IF m.id THEN "follow" ELSE "account"]
             new == [users[u] EXCEPT !.id = TRUE]
  <2>1. \A m : /\ DOMAIN job(m) = DOMAIN userJob /\ job(m).bmc = userJob.bmc
               /\ job(m).secret = userJob.secret /\ job(m).me = me
               /\ job(m).pc \in {"secret", "follow", "account"}
    BY <1>2
  <2>2. new \in User
    BY <1>2 DEF User
  <2>3. \/ UserController!PatchUser(new, job(new))
        \/ /\ userJob' = job(me) /\ UserController!Deliver
           /\ UNCHANGED <<users, rotations, made, rotJob, faults, cred, password>>
    BY <1>8 DEF UserController!Login, Ends, Factory, UserController!Factory
  <2> HIDE DEF job, new
  <2>4. CASE UserController!PatchUser(new, job(new))
    BY <1>1, <1>2, <2>1, <2>2, <2>4, PatchedTypes DEF UserTypes
  <2>5. CASE /\ userJob' = job(me) /\ UserController!Deliver
             /\ UNCHANGED <<users, rotations, made, rotJob, faults, cred, password>>
    BY <1>2, <1>4, <2>1, <2>5 DEF StoreTyped
  <2> QED
    BY <2>3, <2>4, <2>5
<1>9. CASE UserController!createBMCSecretForUser /\ ~Ends
  <2> DEFINE secret == [account |-> u, owner |-> u, label |-> 0, bad |-> FALSE]
  <2>1. /\ UserController!Make(secret) /\ UserController!Deliver
        /\ userJob' = [userJob EXCEPT !.secret = Len(made) + 1, !.pc = "ref"]
        /\ UNCHANGED <<users, cred, rotations, password, rotJob, faults>>
    BY <1>9 DEF UserController!createBMCSecretForUser, Ends
  <2>2. secret \in Secret
    BY <1>2, CredentialAssumption DEF Secret, Accounts
  <2>3. Make(secret)
    BY <2>1 DEF Make, UserController!Make
  <2> HIDE DEF secret
  <2>4. made' \in Seq(Secret) /\ Len(made') =< MaxSecrets /\ Len(made) + 1 \in Secrets
    BY <2>2, <2>3, MadeTyped
  <2>5. StoreTyped' /\ UserJobWrites'
    BY <1>2, <2>1, <2>4 DEF StoreTyped, UserJobWrites, Ref
  <2> QED
    BY <2>1, <2>5, DeliveryTyped DEF UserTypes
<1>10. CASE UserController!setBMCUserSecretRef /\ ~Ends
  <2> DEFINE new == [users[u] EXCEPT !.spec = userJob.secret]
             next == [userJob EXCEPT !.pc = IF me.id THEN "follow" ELSE "account"]
  <2>1. new \in User
    BY <1>2 DEF User
  <2>2. /\ DOMAIN next = DOMAIN userJob /\ next.bmc = userJob.bmc /\ next.secret = userJob.secret
        /\ next.pc \in {"follow", "account"}
    BY <1>2
  <2>3. UserController!PatchUser(new, next)
    BY <1>10 DEF UserController!setBMCUserSecretRef, Ends
  <2> HIDE DEF new, next
  <2> QED
    BY <1>1, <1>2, <2>1, <2>2, <2>3, PatchedTypes DEF UserTypes
<1>11. CASE (UserController!CreateAccount \/ UserController!reconcileSecretRef) /\ ~Ends
  <2>1. /\ \/ UNCHANGED password
           \/ UserController!CreateOrUpdateAccount(u, me.spec)
        /\ UNCHANGED <<users, rotations, made, rotJob, faults, cred>> /\ UserController!Deliver
        /\ \E pc \in {"record", "prune"} : userJob' = [userJob EXCEPT !.pc = pc]
    BY <1>11 DEF UserController!CreateAccount, UserController!reconcileSecretRef, Ends
  <2>2. me.spec \in Ref
    BY <1>2 DEF User
  <2>3. password' \in [Accounts -> Ref]
    BY <1>2, <2>1, <2>2 DEF UserController!CreateOrUpdateAccount, StoreTyped
  <2> QED
    BY <1>2, <1>4, <2>1, <2>3 DEF StoreTyped
<1>12. CASE UserController!RecordAccount /\ ~Ends
  <2> DEFINE new == [users[u] EXCEPT !.id = TRUE, !.due = FALSE]
             next == [userJob EXCEPT !.pc = "follow"]
  <2>1. new \in User
    BY <1>2 DEF User
  <2>2. /\ DOMAIN next = DOMAIN userJob /\ next.bmc = userJob.bmc /\ next.secret = userJob.secret
        /\ next.pc = "follow"
    BY <1>2
  <2>3. UserController!PatchUser(new, next)
    BY <1>12 DEF UserController!RecordAccount, Ends
  <2> HIDE DEF new, next
  <2> QED
    BY <1>1, <1>2, <2>1, <2>2, <2>3, PatchedTypes DEF UserTypes
<1>13. CASE UserController!pruneOldSecrets
  <2>1. /\ UNCHANGED <<users, rotations, made, rotJob, faults, cred, password>>
        /\ UserController!Deliver /\ userJob' = [userJob EXCEPT !.pc = "conditions"]
    BY <1>13 DEF UserController!pruneOldSecrets
  <2> QED
    BY <1>2, <1>4, <2>1 DEF StoreTyped
<1>14. CASE UserController!SetConditions /\ ~Ends
  <2> DEFINE new == [users[u] EXCEPT !.observed = Merge(me.observed, me.spec, users[u].observed)]
             next == [userJob EXCEPT !.pc = "trigger"]
  <2>1. new \in User
    BY <1>2 DEF User, Merge
  <2>2. /\ DOMAIN next = DOMAIN userJob /\ next.bmc = userJob.bmc /\ next.secret = userJob.secret
        /\ next.pc = "trigger"
    BY <1>2
  <2>3. UserController!PatchUser(new, next)
    BY <1>2, <1>14 DEF UserController!SetConditions, Ends, Merge, UserController!Merge, User
  <2> HIDE DEF new, next
  <2> QED
    BY <1>1, <1>2, <2>1, <2>2, <2>3, PatchedTypes DEF UserTypes
<1>15. CASE UserController!TriggerRotation /\ ~Ends
  <2> DEFINE new == [users[u] EXCEPT !.annotated = FALSE]
             next == [userJob EXCEPT !.force = TRUE, !.pc = "create"]
  <2>1. new \in User
    BY <1>2 DEF User
  <2>2. /\ DOMAIN next = DOMAIN userJob /\ next.bmc = userJob.bmc /\ next.secret = userJob.secret
        /\ next.pc = "create"
    BY <1>2
  <2>3. \/ UserController!PatchUser(new, next)
        \/ /\ userJob' = [userJob EXCEPT !.pc = "create"] /\ UserController!Deliver
           /\ UNCHANGED <<users, rotations, made, rotJob, faults, cred, password>>
    BY <1>15 DEF UserController!TriggerRotation, Ends
  <2> HIDE DEF new, next
  <2>4. CASE UserController!PatchUser(new, next)
    BY <1>1, <1>2, <2>1, <2>2, <2>4, PatchedTypes DEF UserTypes
  <2>5. CASE /\ userJob' = [userJob EXCEPT !.pc = "create"] /\ UserController!Deliver
             /\ UNCHANGED <<users, rotations, made, rotJob, faults, cred, password>>
    BY <1>2, <1>4, <2>5 DEF StoreTyped
  <2> QED
    BY <2>3, <2>4, <2>5
<1>16. CASE UserController!ensureBMCUserRotation /\ ~Ends
  <2> DEFINE rot == [user |-> u, phase |-> "Pending", new |-> None, retries |-> 0, recent |-> FALSE]
  <2>1. /\ rotations' = Append(rotations, rot) /\ userJob' = Idle /\ UserController!Deliver
        /\ UNCHANGED <<users, cred, made, live, password, rotJob, faults>>
    BY <1>16 DEF UserController!ensureBMCUserRotation, Ends
  <2>2. Refers(rot)
    BY RefsNumbered, CredentialAssumption DEF Refers
  <2> HIDE DEF rot
  <2>3. StoreTyped' /\ UserJobWrites'
    BY <1>2, <2>1 DEF StoreTyped, UserJobWrites
  <2> QED
    BY <2>1, <2>2, <2>3, DeliveryTyped DEF UserTypes
<1>17. CASE (UserController!DeleteUser \/ UserController!FindAccount) /\ ~Ends
  <2>1. /\ UNCHANGED <<users, rotations, made, rotJob, faults, cred, password>>
        /\ UserController!Deliver
        /\ \E as : \E pc \in {"finalizer", "remove", "find"} :
              userJob' = [userJob EXCEPT !.as = as, !.pc = pc]
    <3>1. CASE UserController!DeleteUser
      BY <1>17, <3>1 DEF UserController!DeleteUser, Ends
    <3>2. CASE UserController!FindAccount
      <4>1. /\ userJob' = [userJob EXCEPT !.pc = IF UserController!Finds(userJob.user)
                                                THEN "remove" ELSE "finalizer"]
            /\ UNCHANGED <<users, rotations, made, rotJob, faults, cred, password>>
            /\ UserController!Deliver
        BY <1>17, <3>2 DEF UserController!FindAccount, Ends
      <4> DEFINE as == userJob.as
      <4>2. \A pc : [userJob EXCEPT !.pc = pc] = [userJob EXCEPT !.as = as, !.pc = pc]
        BY <1>2
      <4> QED
        BY <4>1, <4>2
    <3> QED
      BY <1>17, <3>1, <3>2
  <2> QED
    BY <1>2, <1>4, <2>1 DEF StoreTyped
<1>18. CASE UserController!DeleteAccount /\ ~Ends
  <2>1. /\ UNCHANGED <<users, rotations, made, rotJob, faults, cred>> /\ UserController!Deliver
        /\ password' = [password EXCEPT ![u] = None]
        /\ userJob' = [userJob EXCEPT !.pc = "finalizer"]
    BY <1>18 DEF UserController!DeleteAccount, Ends
  <2>2. password' \in [Accounts -> Ref]
    BY <1>2, <2>1, RefsNumbered DEF StoreTyped
  <2> QED
    BY <1>2, <1>4, <2>1, <2>2 DEF StoreTyped
<1>19. CASE UserController!RemoveFinalizer /\ ~Ends
  <2>1. /\ users' = [users EXCEPT ![u].exists = FALSE] /\ userJob' = Idle
        /\ UNCHANGED <<cred, rotations, made, live, password, rotJob, faults>>
        /\ UserController!Deliver
    BY <1>19 DEF UserController!RemoveFinalizer, Ends
  <2>2. [users[u] EXCEPT !.exists = FALSE] \in User
    BY <1>2 DEF User
  <2>3. StoreTyped' /\ UserJobWrites'
    BY <1>2, <2>1, <2>2 DEF StoreTyped, UserJobWrites
  <2> QED
    BY <2>1, <2>3, DeliveryTyped DEF UserTypes
<1> QED
  BY <1>3, <1>5, <1>6, <1>7, <1>8, <1>9, <1>10, <1>11, <1>12, <1>13, <1>14, <1>15, <1>16, <1>17,
     <1>18, <1>19
     DEF UserController!UserStep

\* The start of a user's reconcile.
LEMMA UserStartTypes ==
    ASSUME IInv, TypesInv, NEW u \in Users, UserController!Start(u)
    PROVE  UserTypes
<1>1. /\ UNCHANGED <<users, cred, rotations, made, live, password, rotJob, faults>>
      /\ UserController!DeliverTo(userQueue \ {u}, rotQueue)
      /\ \/ userJob' = Idle
         \/ \E pc \in {"delete", "test"} : userJob' = UserController!UserJob(pc, u)
  BY DEF UserController!Start, UserController!objects
<1>2. cache.users[u] \in User /\ cache.bmc \in Secrets /\ StoreTyped
  BY DEF TypesInv, CachesTyped
<1>3. UserJobWrites'
  BY <1>1, <1>2, RefsNumbered DEF UserController!UserJob, UserJobWrites
<1>4. StoreTyped'
  BY <1>1, <1>2 DEF StoreTyped
<1> QED
  BY <1>1, <1>3, <1>4, DeliveryTyped DEF UserTypes

-----------------------------------------------------------------------------
(* The types of the rotation's steps                                       *)

RotationTypes ==
    /\ StoreTyped' /\ RotJobWrites' /\ UNCHANGED <<userJob, faults>> /\ TypedDelivery
    /\ RotationsTyped'

\* A rotation that is written still refers to a secret or to none.
LEMMA ReferringStays ==
    ASSUME IInv, TypesInv, NEW r, NEW new, Refers(new),
           rotations' = [rotations EXCEPT ![r] = new]
    PROVE  RotationsTyped'
BY DEF IInv, TypesInv, RotationsTyped

\* The start of a rotation's reconcile.
LEMMA RotationStartTypes ==
    ASSUME IInv, Shape, TypesInv, NEW r \in rotQueue, RotationController!Start(r)
    PROVE  RotationTypes
<1> DEFINE me == cache.rotations[r]
           stored == rotations[r]
           known == cache.users[me.user].exists
           new == IF ~known THEN RotationController!Failed(stored)
                  ELSE [stored EXCEPT !.phase = RotationController!Merge(me.phase, "InProgress", @)]
<1>1. /\ UNCHANGED <<users, cred, made, live, password, userJob, faults>>
      /\ TypedDelivery
  BY DeliveryTyped DEF RotationController!Start
<1>2. /\ StoreTyped /\ CachesTyped /\ RotationsTyped /\ RotJobWrites
      /\ r \in DOMAIN rotations /\ stored \in Rot /\ Refers(stored)
      /\ cache.rotations[r].user = stored.user
  BY CacheTrails DEF TypesInv, IInv, CacheTyped, RotationsTyped, Shape, CacheShape
<1>3. StoreTyped'
  BY <1>1, <1>2 DEF StoreTyped
<1>4. CASE UNCHANGED <<rotations, rotJob>>
  BY <1>1, <1>2, <1>3, <1>4 DEF RotationTypes, RotJobWrites, RotationsTyped
<1>5. CASE ~UNCHANGED <<rotations, rotJob>>
  <2>1. /\ rotations' = [rotations EXCEPT ![r] = new]
        /\ rotJob' = IF known THEN RotationController!RotationJob(r, new) ELSE Idle
    BY <1>5 DEF RotationController!Start
  <2>3. new.new = stored.new /\ new.user = stored.user
    BY <1>2 DEF Rot, RotationController!Failed
  <2>4. Refers(new)
    BY <1>2, <2>3 DEF Refers
  <2> HIDE DEF new
  <2>5. RotationsTyped'
    BY <2>1, <2>4, ReferringStays
  <2>6. RotJobWrites'
    <3>0. rotations'[r] = new
      BY <1>2, <2>1 DEF IInv
    <3>1. CASE rotJob' = Idle
      BY <3>1 DEF RotJobWrites
    <3>2. CASE rotJob' # Idle
      <4>1. rotJob' = RotationController!RotationJob(r, new)
        BY <2>1, <3>2
      <4>2. cache.users[new.user] \in User /\ cache.bmc \in Secrets
        BY <1>2, <2>3 DEF CachesTyped, Rot
      <4> QED
        BY <1>2, <2>3, <3>0, <4>1, <4>2 DEF RotJobWrites, RotationController!RotationJob, Refers
    <3> QED
      BY <3>1, <3>2
  <2> QED
    BY <1>1, <1>3, <2>5, <2>6 DEF RotationTypes
<1> QED
  BY <1>4, <1>5

\* Every step of the rotation's reconcile.
LEMMA RotationStepTypes ==
    ASSUME IInv, Shape, TypesInv, RotationController!RotationStep, rotJob # Idle
    PROVE  RotationTypes
<1> DEFINE stored == rotations[rotJob.rot]
           Requeues == RotationController!Requeue
<1> USE DEF RotationController!At, RotationController!Goto, RotationController!objects
<1>1. /\ DOMAIN rotJob = {"pc", "rot", "me", "who", "bmc", "as", "secret"}
      /\ rotJob.rot \in DOMAIN rotations /\ rotJob.rot \in 0..MaxRotations
      /\ stored \in Rot /\ Refers(stored) /\ Who \in Users
      /\ rotJob.me \in Rot
      /\ rotJob.who \in User /\ rotJob.bmc \in Secrets /\ rotJob.secret \in Ref
      /\ rotJob.pc \notin {"client", "make"} => rotJob.secret # None
      /\ rotJob.pc = "client" => rotJob.secret = rotJob.me.new
      /\ users \in [Users -> User] /\ StoreTyped /\ RotationsTyped
  <2>1. rotJob.rot \in 0..MaxRotations
    BY CredentialAssumption DEF IInv, RotJobInv, Shape, StoreShape
  <2> QED
    BY <2>1, RotJobFields, CredentialAssumption
       DEF IInv, RotJobInv, Decided, TypesInv, RotJobWrites, StoreTyped, RotationsTyped, Who, Rot
<1>2. CASE Requeues
  BY <1>1, <1>2, DeliveryTyped
     DEF RotationController!Requeue, RotationTypes, StoreTyped, RotJobWrites, RotationsTyped
<1> HIDE DEF Requeues
\* A write of the rotation, which ends the reconcile or persists its secret.
<1>3. ASSUME NEW new, Refers(new), rotations' = [rotations EXCEPT ![rotJob.rot] = new],
             rotJob' = Idle \/ RotJobWrites', TypedDelivery,
             UNCHANGED <<users, cred, made, live, password, userJob, faults>>
      PROVE  RotationTypes
  BY <1>1, <1>3, ReferringStays DEF RotationTypes, StoreTyped, RotJobWrites
\* A step that writes no rotation.
<1>4. ASSUME UNCHANGED <<rotations, userJob, faults>>, StoreTyped', TypedDelivery,
             rotJob'.me = rotJob.me, rotJob'.rot = rotJob.rot, rotJob'.who \in User, rotJob'.bmc = rotJob.bmc,
             rotJob'.secret \in Ref,
             rotJob'.pc \notin {"client", "make"} => rotJob'.secret # None
      PROVE  RotationTypes
  BY <1>1, <1>4 DEF RotationTypes, RotJobWrites, RotationsTyped
<1>5. CASE (RotationController!executeDualAccount \/ RotationController!executeSingleAccount)
             /\ ~Requeues
  <2>1. rotJob.pc = "client"
    BY <1>5 DEF RotationController!executeDualAccount, RotationController!executeSingleAccount
  <2>2. (\E s : RotationController!LoginAs(s)) \/ RotationController!setFailed
    BY <1>5 DEF RotationController!executeDualAccount, RotationController!executeSingleAccount,
                Requeues
  <2>3. ASSUME NEW s, RotationController!LoginAs(s)
        PROVE  RotationTypes
    <3>1. /\ rotJob' = [rotJob EXCEPT !.as = s,
                          !.pc = IF rotJob.me.new # None THEN "change" ELSE "make"]
          /\ UNCHANGED <<users, cred, rotations, made, live, password, userJob, faults>>
          /\ TypedDelivery
      BY <2>3, DeliveryTyped DEF RotationController!LoginAs, RotationController!Reuses
    <3> QED
      BY <1>1, <1>4, <2>1, <3>1 DEF StoreTyped
  <2>4. CASE RotationController!setFailed
    <3> DEFINE new == RotationController!Failed(stored)
    <3>1. Refers(new)
      BY <1>1 DEF Refers, RotationController!Failed, Rot, InFlight
    <3>2. /\ rotations' = [rotations EXCEPT ![rotJob.rot] = new] /\ rotJob' = Idle
          /\ UNCHANGED <<users, cred, made, live, password, userJob, faults>> /\ TypedDelivery
      BY <1>5, <2>4, DeliveryTyped
         DEF RotationController!setFailed, RotationController!PatchRotation, Requeues
    <3> HIDE DEF new
    <3> QED
      BY <1>3, <3>1, <3>2
  <2> QED
    BY <2>2, <2>3, <2>4
<1>6. CASE RotationController!CreateSecret /\ ~Requeues
  <2>1. PICK bad \in BOOLEAN :
           RotationController!Make([account |-> Who, owner |-> Who, label |-> rotJob.rot, bad |-> bad])
    BY <1>6 DEF RotationController!CreateSecret, Requeues, Who
  <2> DEFINE secret == [account |-> Who, owner |-> Who, label |-> rotJob.rot, bad |-> bad]
  <2>2. secret \in Secret
    BY <1>1 DEF Secret, Accounts
  <2>3. Make(secret)
    BY <2>1 DEF Make, RotationController!Make
  <2> HIDE DEF secret
  <2>4. made' \in Seq(Secret) /\ Len(made') =< MaxSecrets /\ Len(made) + 1 \in Secrets
    BY <2>2, <2>3, MadeTyped
  <2>5. /\ rotJob' = [rotJob EXCEPT !.secret = Len(made) + 1, !.pc = "persist"]
        /\ UNCHANGED <<users, cred, rotations, password, userJob, faults>> /\ TypedDelivery
    BY <1>6, DeliveryTyped
       DEF RotationController!CreateSecret, RotationController!Created, Requeues
  <2>6. StoreTyped'
    BY <1>1, <2>4, <2>5 DEF StoreTyped
  <2> QED
    BY <1>1, <1>4, <2>4, <2>5, <2>6, RefsNumbered DEF Ref
<1>7. CASE RotationController!PersistSecretRef /\ ~Requeues
  <2> DEFINE new == [stored EXCEPT !.new = rotJob.secret]
  <2>1. /\ rotations' = [rotations EXCEPT ![rotJob.rot] = new] /\ rotJob.pc = "persist"
        /\ rotJob' = [rotJob EXCEPT !.me = new, !.pc = "change"] /\ TypedDelivery
        /\ UNCHANGED <<users, cred, made, live, password, userJob, faults>>
    BY <1>7, DeliveryTyped
       DEF RotationController!PersistSecretRef, RotationController!PatchRotation, Requeues
  <2>2. new.new = rotJob.secret
    BY <1>1 DEF Rot
  <2>3. Refers(new)
    BY <1>1, <2>2 DEF Refers
  <2> HIDE DEF new
  <2>4. rotations'[rotJob.rot] = new
    BY <1>1, <2>1 DEF IInv
  <2>5. RotJobWrites'
    BY <1>1, <2>1, <2>2, <2>4 DEF RotJobWrites
  <2> QED
    BY <1>3, <2>1, <2>3, <2>5
<1>8. CASE RotationController!ChangePassword /\ ~Requeues
  <2>1. /\ password' = [password EXCEPT ![Who] = rotJob.secret] /\ rotJob.pc = "change"
        /\ rotJob' = [rotJob EXCEPT !.pc = "try"] /\ TypedDelivery
        /\ UNCHANGED <<users, cred, made, live, rotations, userJob, faults>>
    BY <1>8, DeliveryTyped
       DEF RotationController!ChangePassword, RotationController!CreateOrUpdateAccount, Requeues, Who
  <2>2. StoreTyped'
    BY <1>1, <2>1 DEF StoreTyped
  <2> QED
    BY <1>1, <1>4, <2>1, <2>2
<1>9. CASE RotationController!TryPassword /\ ~Requeues
  <2> DEFINE counted == [stored EXCEPT !.retries = rotJob.me.retries + 1]
  <2>1. counted.new = stored.new
    BY <1>1 DEF Rot
  <2>2. /\ rotJob.pc = "try" /\ UNCHANGED <<users, cred, made, live, password, userJob, faults>>
        /\ TypedDelivery
        /\ \/ UNCHANGED rotations /\ rotJob' = [rotJob EXCEPT !.pc = "spec"]
           \/ /\ rotations' = [rotations EXCEPT ![rotJob.rot] = counted]
              /\ rotJob' = Idle \/ rotJob' = [rotJob EXCEPT !.me = counted, !.pc = "fail"]
    BY <1>9, DeliveryTyped
       DEF RotationController!TryPassword, RotationController!PatchRotation, Requeues
  <2>3. Refers(counted)
    BY <1>1, <2>1 DEF Refers
  <2> HIDE DEF counted
  <2>4. CASE UNCHANGED rotations /\ rotJob' = [rotJob EXCEPT !.pc = "spec"]
    BY <1>1, <1>4, <2>2, <2>4 DEF StoreTyped
  <2>5. CASE /\ rotations' = [rotations EXCEPT ![rotJob.rot] = counted]
             /\ rotJob' = Idle \/ rotJob' = [rotJob EXCEPT !.me = counted, !.pc = "fail"]
    <3>1. rotJob' = Idle \/ RotJobWrites'
      BY <1>1, <2>2, <2>5 DEF RotJobWrites
    <3> QED
      BY <1>3, <2>2, <2>3, <2>5, <3>1
  <2> QED
    BY <2>2, <2>4, <2>5
<1>10. CASE RotationController!PromoteToSpec /\ ~Requeues
  <2> DEFINE new == [users[Who] EXCEPT !.spec = Merge(rotJob.who.spec, rotJob.secret, users[Who].spec)]
  <2>1. new \in User
    BY <1>1 DEF User, Merge
  <2>2. /\ users' = [users EXCEPT ![Who] = new] /\ rotJob.pc = "spec"
        /\ rotJob' = [rotJob EXCEPT !.who = new, !.pc = "status"] /\ TypedDelivery
        /\ UNCHANGED <<cred, rotations, made, live, password, userJob, faults>>
    BY <1>1, <1>10, DeliveryTyped
       DEF RotationController!PromoteToSpec, RotationController!PromoteUser, Requeues, Who,
           Merge, RotationController!Merge, User
  <2> HIDE DEF new
  <2>3. StoreTyped'
    BY <1>1, <2>1, <2>2 DEF StoreTyped
  <2> QED
    BY <1>1, <1>4, <2>1, <2>2, <2>3
<1>11. CASE RotationController!PromoteToStatus /\ ~Requeues
  <2> DEFINE new == [users[Who] EXCEPT !.eff = Merge(rotJob.who.eff, rotJob.secret, users[Who].eff),
                                       !.due = FALSE]
  <2>1. new \in User
    BY <1>1 DEF User, Merge
  <2>2. /\ users' = [users EXCEPT ![Who] = new] /\ rotJob.pc = "status" /\ TypedDelivery
        /\ \E pc : rotJob' = [rotJob EXCEPT !.who = new, !.pc = pc]
        /\ UNCHANGED <<cred, rotations, made, live, password, userJob, faults>>
    BY <1>1, <1>11, DeliveryTyped
       DEF RotationController!PromoteToStatus, RotationController!PromoteUser, Requeues, Who,
           Merge, RotationController!Merge, User
  <2> HIDE DEF new
  <2>3. StoreTyped'
    BY <1>1, <2>1, <2>2 DEF StoreTyped
  <2> QED
    BY <1>1, <1>4, <2>1, <2>2, <2>3
<1>12. CASE RotationController!PromoteToBMC /\ ~Requeues
  <2>1. /\ cred' = rotJob.secret /\ rotJob.pc = "bmc" /\ TypedDelivery
        /\ rotJob' = [rotJob EXCEPT !.pc = "finish"]
        /\ UNCHANGED <<users, rotations, made, live, password, userJob, faults>>
    BY <1>12, DeliveryTyped DEF RotationController!PromoteToBMC
  <2>2. rotJob.secret \in Secrets
    BY <1>1, <2>1, RefsNumbered
  <2> QED
    BY <1>1, <1>4, <2>1, <2>2 DEF StoreTyped
<1>13. CASE RotationController!Succeed /\ ~Requeues
  <2> DEFINE new == [stored EXCEPT !.phase = "Succeeded"]
  <2>1. Refers(new)
    BY <1>1 DEF Refers, Rot, InFlight
  <2>2. /\ rotations' = [rotations EXCEPT ![rotJob.rot] = new] /\ rotJob' = Idle /\ TypedDelivery
        /\ UNCHANGED <<users, cred, made, live, password, userJob, faults>>
    BY <1>13, DeliveryTyped DEF RotationController!Succeed, RotationController!PatchRotation, Requeues
  <2> HIDE DEF new
  <2> QED
    BY <1>3, <2>1, <2>2
<1>14. CASE RotationController!GiveUp /\ ~Requeues
  <2> DEFINE new == RotationController!Failed(stored)
  <2>1. Refers(new)
    BY <1>1 DEF Refers, RotationController!Failed, Rot
  <2>2. /\ rotations' = [rotations EXCEPT ![rotJob.rot] = new] /\ rotJob' = Idle /\ TypedDelivery
        /\ UNCHANGED <<users, cred, made, live, password, userJob, faults>>
    BY <1>14, DeliveryTyped DEF RotationController!GiveUp, RotationController!setFailed,
                                RotationController!PatchRotation, Requeues
  <2> HIDE DEF new
  <2> QED
    BY <1>3, <2>1, <2>2
<1> QED
  BY <1>2, <1>5, <1>6, <1>7, <1>8, <1>9, <1>10, <1>11, <1>12, <1>13, <1>14
     DEF RotationController!RotationStep

-----------------------------------------------------------------------------
(* The types of the others' steps                                          *)

OtherTypes ==
    /\ StoreTyped' /\ CachesTyped' /\ userQueue' \subseteq Users
    /\ userJob' \in {Idle, userJob} /\ rotJob' \in {Idle, rotJob}
    /\ \A r \in DOMAIN rotations : rotations'[r].new = rotations[r].new
    /\ DOMAIN rotations' = DOMAIN rotations

\* Persons write users, and make secrets.
LEMMA PersonTypes ==
    ASSUME IInv, TypesInv, NEW u \in Users, Annotate(u) \/ Repoint(u) \/ RequestDeletion(u)
    PROVE  OtherTypes
<1>1. StoreTyped /\ users[u] \in User /\ None \in Users \cup {None} /\ 0 \in 0..MaxRotations
  BY CredentialAssumption DEF TypesInv, StoreTyped
<1>2. /\ UNCHANGED <<cred, rotations, password, userJob, rotJob, faults>> /\ Deliver
  BY DEF Annotate, Repoint, RequestDeletion, ByPerson
<1>3. StoreTyped'
  <2>1. CASE Annotate(u) \/ RequestDeletion(u)
    <3>1. /\ \E new \in {[users[u] EXCEPT !.annotated = TRUE], [users[u] EXCEPT !.deleting = TRUE]} :
                users' = [users EXCEPT ![u] = new]
          /\ UNCHANGED made
      BY <2>1 DEF Annotate, RequestDeletion, ByPerson
    <3>2. /\ [users[u] EXCEPT !.annotated = TRUE] \in User
          /\ [users[u] EXCEPT !.deleting = TRUE] \in User
      BY <1>1 DEF User
    <3> QED
      BY <1>1, <1>2, <3>1, <3>2 DEF StoreTyped
  <2>2. CASE Repoint(u)
    <3> DEFINE secret == [account |-> u, owner |-> None, label |-> 0, bad |-> FALSE]
               new == [users[u] EXCEPT !.spec = Len(made) + 1]
    <3>1. Make(secret) /\ users' = [users EXCEPT ![u] = new]
      BY <2>2 DEF Repoint, ByPerson
    <3>2. secret \in Secret
      BY <1>1 DEF Secret, Accounts
    <3> HIDE DEF secret
    <3>3. made' \in Seq(Secret) /\ Len(made') =< MaxSecrets /\ Len(made) + 1 \in Secrets
      BY <3>1, <3>2, MadeTyped
    <3>4. new \in User
      BY <1>1, <3>3 DEF User, Ref
    <3> HIDE DEF new
    <3> QED
      BY <1>1, <1>2, <3>1, <3>3, <3>4 DEF StoreTyped
  <2> QED
    BY <2>1, <2>2
<1>4. CachesTyped' /\ userQueue' \subseteq Users
  BY <1>2, <1>3, DeliveredTypes DEF Deliver, TypesInv, CountsTyped
<1> QED
  BY <1>2, <1>3, <1>4 DEF OtherTypes

\* The garbage collector writes the phase of rotations alone.
LEMMA GarbageTypes ==
    ASSUME IInv, TypesInv, NEW u \in Users, CollectGarbage(u)
    PROVE  OtherTypes
<1>1. /\ UNCHANGED <<users, cred, made, password, userJob, rotJob, faults>> /\ Deliver
      /\ \A r \in DOMAIN rotations : rotations[r] \in Rot
      /\ rotations' = [r \in DOMAIN rotations |->
                          IF rotations[r].user = u /\ rotations[r].phase # "Gone"
                          THEN [rotations[r] EXCEPT !.phase = "Gone"] ELSE rotations[r]]
  BY DEF CollectGarbage, IInv
<1>2. StoreTyped'
  BY <1>1 DEF TypesInv, StoreTyped
<1>3. CachesTyped' /\ userQueue' \subseteq Users
  BY <1>1, <1>2, DeliveredTypes DEF Deliver, TypesInv, CountsTyped
<1> QED
  BY <1>1, <1>2, <1>3 DEF OtherTypes, Rot, InFlight

\* The clock tells that a user is due, or that a failure is past.
LEMMA ClockTypes ==
    ASSUME IInv, TypesInv,
           \/ \E u \in Users : Age(u)
           \/ \E r \in DOMAIN rotations : CoolDown(r)
    PROVE  OtherTypes
<1>1. StoreTyped /\ CachesTyped /\ userQueue \subseteq Users /\ DOMAIN cache = Kinds
  BY DEF TypesInv, CountsTyped, IInv, CacheTyped
<1>2. ASSUME NEW u \in Users, Age(u)
      PROVE  OtherTypes
  <2>0. ASSUME NEW o \in User PROVE [o EXCEPT !.due = TRUE] \in User
    BY DEF User
  <2>1. /\ users[u] \in User /\ cache.users[u] \in User
        /\ [users[u] EXCEPT !.due = TRUE] \in User
        /\ [cache.users[u] EXCEPT !.due = TRUE] \in User
    BY <1>1, <2>0 DEF StoreTyped, CachesTyped
  <2>2. /\ users' = [users EXCEPT ![u] = [users[u] EXCEPT !.due = TRUE]]
        /\ cache'.users = [cache.users EXCEPT ![u] = [cache.users[u] EXCEPT !.due = TRUE]]
        /\ cache'.bmc = cache.bmc /\ userQueue' = userQueue \cup {u}
        /\ UNCHANGED <<cred, rotations, made, live, password, rotQueue, userJob, rotJob, faults>>
    BY <1>1, <1>2 DEF Age, Kinds
  <2> QED
    BY <1>1, <2>1, <2>2 DEF OtherTypes, StoreTyped, CachesTyped
<1>3. ASSUME NEW i \in DOMAIN rotations, CoolDown(i)
      PROVE  OtherTypes
  <2>1. /\ rotations' = [rotations EXCEPT ![i] = [rotations[i] EXCEPT !.recent = FALSE]]
        /\ rotations[i] \in Rot
        /\ cache'.users = cache.users /\ cache'.bmc = cache.bmc
        /\ UNCHANGED <<users, cred, made, live, password, userQueue, rotQueue,
                       userJob, rotJob, faults>>
    BY <1>1, <1>3 DEF CoolDown, Kinds, IInv
  <2>2. \A r \in DOMAIN rotations : rotations'[r].new = rotations[r].new
    BY <2>1 DEF Rot
  <2> QED
    BY <1>1, <2>1, <2>2 DEF OtherTypes, StoreTyped, CachesTyped
<1> QED
  BY <1>2, <1>3

\* A cache catches up; calls fail and the operator restarts.
LEMMA FailureTypes ==
    ASSUME IInv, TypesInv, (\E k \in Lagging : Refresh(k)) \/ Failures \/ UNCHANGED vars
    PROVE  OtherTypes /\ faults' \in 0..MaxFaults
<1>1. /\ StoreTyped /\ CachesTyped /\ userQueue \subseteq Users /\ DOMAIN cache = Kinds
      /\ faults \in 0..MaxFaults /\ MaxFaults \in Nat
      /\ userJob # Idle => userJob.user \in Users
  BY CredentialAssumption DEF TypesInv, CountsTyped, IInv, CacheTyped, UserJobTyped
<1>2. /\ UNCHANGED <<users, cred, rotations, made, live, password>>
      /\ userJob' \in {Idle, userJob} /\ rotJob' \in {Idle, rotJob}
  BY DEF Refresh, Failures, UserController!FailUser, RotationController!FailRotation, Restart,
     objects, UserController!objects, RotationController!objects, vars
<1>3. StoreTyped'
  BY <1>1, <1>2 DEF StoreTyped
<1>4. faults' \in 0..MaxFaults
  BY <1>1 DEF Refresh, Failures, UserController!FailUser, RotationController!FailRotation, Restart, vars
<1>5. CachesTyped' /\ userQueue' \subseteq Users
  <2>1. ASSUME NEW k \in Lagging, Refresh(k)
        PROVE  CachesTyped' /\ userQueue' \subseteq Users
    <3>1. cache'.users \in {cache.users, users} /\ cache'.bmc \in {cache.bmc, cred}
      BY <1>1, <2>1, CredentialAssumption DEF Refresh, Kinds, Store
    <3>2. userQueue' \subseteq Users
      BY <1>1, <2>1 DEF Refresh, WokenUsers
    <3> QED
      BY <1>1, <3>1, <3>2 DEF StoreTyped, CachesTyped
  <2>2. CASE UserController!FailUser \/ RotationController!FailRotation
    <3>1. TypedDelivery
      BY <1>1, <2>2, DeliveryTyped DEF UserController!FailUser, RotationController!FailRotation
    <3> QED
      BY <1>3, <3>1, DeliveredTypes DEF TypedDelivery
  <2>3. CASE Restart
    BY <1>1, <2>3 DEF Restart, Store, StoreTyped, CachesTyped
  <2>4. CASE UNCHANGED vars
    BY <1>1, <2>4 DEF vars, CachesTyped
  <2> QED
    BY <2>1, <2>2, <2>3, <2>4 DEF Failures
<1> QED
  BY <1>2, <1>3, <1>4, <1>5 DEF OtherTypes

-----------------------------------------------------------------------------
(* The types of every state                                                *)

\* The types are inductive.
LEMMA TypesStep ==
    ASSUME IInv, Shape, TypesInv, [Next]_vars
    PROVE  TypesInv'
<1>1. RotationsTyped' => CopiesTyped'
  <2>1. PhasesTrail
    BY FlightSteps
  <2> QED
    BY <2>1 DEF PhasesTrail, TypesInv, RotationsTyped, CopiesTyped, Refers
<1>2. /\ StoreTyped /\ CachesTyped /\ CountsTyped /\ RotationsTyped /\ UserJobWrites /\ RotJobWrites
      /\ rotJob # Idle => rotJob.rot \in DOMAIN rotations
  BY RotJobFields DEF TypesInv
<1>3. TypedDelivery /\ StoreTyped' => CachesTyped' /\ userQueue' \subseteq Users
  BY DeliveredTypes DEF TypedDelivery
<1>4. CASE UserTypes
  <2>1. /\ \A r \in DOMAIN rotations : r \in DOMAIN rotations' /\ rotations'[r] = rotations[r]
        /\ RotationsTyped'
    <3>1. ASSUME NEW rot, Refers(rot), rotations' = Append(rotations, rot)
          PROVE  /\ \A r \in DOMAIN rotations : r \in DOMAIN rotations' /\ rotations'[r] = rotations[r]
                 /\ RotationsTyped'
      <4>1. /\ DOMAIN rotations = 1..Len(rotations) /\ Len(rotations) \in Nat
            /\ DOMAIN rotations' = 1..(Len(rotations) + 1)
            /\ \A r \in DOMAIN rotations' :
                  rotations'[r] = IF r \in DOMAIN rotations THEN rotations[r] ELSE rot
        BY <3>1 DEF IInv
      <4> QED
        BY <1>2, <3>1, <4>1 DEF RotationsTyped
    <3> QED
      BY <1>2, <1>4, <3>1 DEF UserTypes, RotationsTyped
  <2>2. RotJobWrites'
    BY <1>2, <1>4, <2>1 DEF UserTypes, RotJobWrites
  <2> QED
    BY <1>1, <1>2, <1>3, <1>4, <2>1, <2>2 DEF UserTypes, TypesInv, CountsTyped
<1>5. CASE RotationTypes
  <2>1. UserJobWrites'
    BY <1>2, <1>5 DEF RotationTypes, UserJobWrites
  <2> QED
    BY <1>1, <1>2, <1>3, <1>5, <2>1 DEF RotationTypes, TypesInv, CountsTyped
<1>6. CASE OtherTypes /\ faults' \in 0..MaxFaults
  <2>1. UserJobWrites'
    BY <1>2, <1>6 DEF OtherTypes, UserJobWrites
  <2>2. RotJobWrites'
    BY <1>2, <1>6 DEF OtherTypes, RotJobWrites
  <2>3. RotationsTyped'
    BY <1>2, <1>6 DEF OtherTypes, RotationsTyped, Refers
  <2> QED
    BY <1>1, <1>6, <2>1, <2>2, <2>3 DEF OtherTypes, TypesInv, CountsTyped
<1>7. RotationController!RotationStep => rotJob # Idle
  BY DEF RotationController!RotationStep, RotationController!executeDualAccount,
     RotationController!executeSingleAccount, RotationController!CreateSecret,
     RotationController!PersistSecretRef, RotationController!ChangePassword,
     RotationController!TryPassword, RotationController!GiveUp, RotationController!PromoteToSpec,
     RotationController!PromoteToStatus, RotationController!PromoteToBMC,
     RotationController!Succeed, RotationController!At
<1>8. CASE \/ UserController!UserStep \/ RotationController!RotationStep
           \/ \E u \in Users : UserController!Start(u)
           \/ \E r \in rotQueue : RotationController!Start(r)
  BY <1>4, <1>5, <1>7, <1>8, UserStepTypes, UserStartTypes, RotationStepTypes, RotationStartTypes
<1>9. ASSUME NEW u \in Users, \/ Age(u) \/ Annotate(u) \/ Repoint(u) \/ RequestDeletion(u)
                              \/ CollectGarbage(u)
      PROVE  OtherTypes /\ UNCHANGED faults
  BY <1>9, PersonTypes, GarbageTypes, ClockTypes
     DEF Age, Annotate, Repoint, RequestDeletion, CollectGarbage, ByPerson
<1>10. ASSUME NEW r \in DOMAIN rotations, CoolDown(r)
       PROVE  OtherTypes /\ UNCHANGED faults
  BY <1>10, ClockTypes DEF CoolDown
<1>11. CASE (\E k \in Lagging : Refresh(k)) \/ Failures \/ UNCHANGED vars
  BY <1>6, <1>11, FailureTypes
<1> QED
  BY <1>2, <1>6, <1>8, <1>9, <1>10, <1>11 DEF Next, Environment, CountsTyped

\* At first the accounts have their secrets, or the factory's is the only one.
LEMMA TypesAtFirst ==
    ASSUME Init, Cardinality(Users) < MaxSecrets
    PROVE  TypesInv
<1>1. /\ rotations = << >> /\ cache = Store /\ userJob = Idle /\ rotJob = Idle
      /\ userQueue = Users /\ faults = 0
  BY DEF Init
<1>2. /\ Cardinality(Users) \in Nat /\ MaxSecrets \in Nat /\ MaxRotations \in Nat /\ MaxFaults \in Nat
      /\ 1 \in Secrets /\ None \in Ref /\ 0 \in 0..MaxRotations
  <2>1. Cardinality(Users) \in Nat
    BY CredentialAssumption, FS_CardinalityType
  <2> QED
    BY <2>1, CredentialAssumption DEF Secrets, Ref
<1>3. NewUser \in User /\ FactorySecret \in Secret
  BY <1>2 DEF NewUser, User, FactorySecret, Secret, Accounts
<1>4. StoreTyped
  <2>1. CASE ~Bootstrapped
    <3>1. /\ users = [u \in Users |-> NewUser] /\ made = <<FactorySecret>> /\ cred = 1
          /\ password = [a \in Accounts |-> IF a = Factory THEN 1 ELSE None]
      BY <2>1 DEF Init, InitFresh, Factory
    <3>2. made \in Seq(Secret) /\ Len(made) = 1
      BY <1>3, <3>1
    <3>3. users \in [Users -> User] /\ cred \in Secrets /\ Len(made) =< MaxSecrets
      BY <1>2, <1>3, <3>1, <3>2 DEF Secrets
    <3>4. password \in [Accounts -> Ref]
      BY <1>2, <3>1 DEF Ref
    <3> QED
      BY <3>2, <3>3, <3>4 DEF StoreTyped
  <2>2. CASE Bootstrapped
    <3> DEFINE n == Cardinality(Users) + 1
    <3>1. PICK own \in [Users -> 2..(Cardinality(Users) + 1)] :
            /\ {own[u] : u \in Users} = 2..(Cardinality(Users) + 1)
            /\ users = [u \in Users |-> [NewUser EXCEPT
                           !.id = TRUE, !.spec = own[u], !.eff = own[u], !.observed = own[u]]]
            /\ made = [s \in 1..(Cardinality(Users) + 1) |->
                          IF s = Factory THEN FactorySecret
                          ELSE LET u == CHOOSE u \in Users : own[u] = s IN
                               [account |-> u, owner |-> u, label |-> 0, bad |-> FALSE]]
            /\ password = [a \in Accounts |-> IF a = Factory THEN Factory ELSE own[a]]
            /\ cred \in {own[a] : a \in Admins}
      BY <2>2 DEF Init, InitBootstrapped
    <3>2. \A u \in Users : own[u] \in Secrets /\ own[u] \in Ref
      BY <1>2 DEF Secrets, Ref
    <3>3. users \in [Users -> User]
      <4>1. ASSUME NEW u \in Users
            PROVE  [NewUser EXCEPT !.id = TRUE, !.spec = own[u], !.eff = own[u],
                                   !.observed = own[u]] \in User
        BY <1>3, <3>2 DEF User
      <4> QED
        BY <3>1, <4>1
    <3>4. ASSUME NEW s \in 1..n
          PROVE  made[s] \in Secret
      <4>1. CASE s = Factory
        BY <1>3, <3>1, <4>1
      <4>2. CASE s # Factory
        <5> DEFINE u == CHOOSE u \in Users : own[u] = s
        <5>1. s \in 2..n
          BY <1>2, <4>2 DEF Factory
        <5>2. u \in Users
          BY <3>1, <5>1
        <5>3. made[s] = [account |-> u, owner |-> u, label |-> 0, bad |-> FALSE]
          BY <3>1, <4>2
        <5> HIDE DEF u
        <5> QED
          BY <1>2, <5>2, <5>3 DEF Secret, Accounts
      <4> QED
        BY <4>1, <4>2
    <3>5. made \in [1..n -> Secret]
      BY <3>1, <3>4
    <3>6. made \in Seq(Secret) /\ Len(made) =< MaxSecrets
      BY <1>2, <3>5
    <3>7. cred \in Secrets
      BY <3>1, <3>2 DEF Users
    <3>8. password \in [Accounts -> Ref]
      BY <1>2, <3>1, <3>2 DEF Accounts, Ref, Factory
    <3> QED
      BY <3>3, <3>6, <3>7, <3>8 DEF StoreTyped
  <2> QED
    BY <2>1, <2>2
<1> QED
  BY <1>1, <1>2, <1>4 DEF TypesInv, StoreTyped, CachesTyped, CountsTyped, RotationsTyped,
     UserJobWrites, RotJobWrites, CopiesTyped, Store

\* The state is well formed: every reference names a secret that was made, in
\* the caches as well, however far they trail, as long as there is room for the
\* accounts' secrets.
THEOREM CredentialTypes ==
    ASSUME Cardinality(Users) < MaxSecrets
    PROVE  Spec => []TypeOK
<1>1. Init => TypesInv
  BY TypesAtFirst
<1>2. IInv /\ Shape /\ TypesInv /\ [Next]_vars => TypesInv'
  BY TypesStep
<1>3. ASSUME IInv, Shape, TypesInv
      PROVE  TypeOK
  <2>1. ASSUME NEW rot \in Rot, Refers(rot)
        PROVE  rot \in Rotation
    BY <2>1 DEF Rot, Rotation, Refers
  <2>2. rotations \in Seq(Rotation)
    BY <1>3, <2>1 DEF IInv, TypesInv, RotationsTyped
  <2>3. cache.rotations \in Seq(Rotation)
    BY <1>3, <2>1 DEF IInv, CacheTyped, TypesInv, CopiesTyped
  <2> QED
    BY <1>3, <2>2, <2>3 DEF TypeOK, TypesInv, StoreTyped, CachesTyped, CountsTyped,
       IInv, CacheTyped, Shape, StoreShape
<1> QED
  BY <1>1, <1>2, <1>3, AlwaysInShape, PTL DEF Spec
=============================================================================
