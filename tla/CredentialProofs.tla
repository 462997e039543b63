-------------------------- MODULE CredentialProofs --------------------------
(***************************************************************************)
(* Proofs about Credentials for all users, bounds and lagging caches: a    *)
(* rotation keeps to the one new credential it has persisted.              *)
(***************************************************************************)
EXTENDS Credentials, FiniteSetTheorems, TLAPS

\* A cache that trails, or a crash before the give-up is written, may take a
\* rotation past MaxRetries: retries are numbers.
Rot == [user : Users, phase : Phases \cup {"Gone"}, new : Nat \cup {None},
        retries : Nat, recent : BOOLEAN]

MadeSecret == [account : Accounts, owner : Users \cup {None}, label : Nat, bad : BOOLEAN]

Kinds == {"users", "bmc", "rotations"}

CacheTyped ==
    /\ DOMAIN cache = Kinds
    /\ cache.rotations \in Seq(Rot) /\ Len(cache.rotations) =< Len(rotations)
    /\ rotQueue \subseteq DOMAIN rotations

UserJobTyped ==
    userJob # Idle =>
      /\ DOMAIN userJob = {"pc", "user", "me", "bmc", "as", "secret", "force"}
      /\ userJob.user \in Users

\* The steps of a rotation up to the one that persists its secret, and the rest.
Unpersisted == {"make", "persist"}
Decided == {"client", "change", "try", "fail", "spec", "status", "bmc", "finish"}

\* The copy of the rotation that the worker holds has the secret that is stored;
\* there is none while one is made, and later it is the one the worker uses.
RotJobInv ==
    rotJob # Idle =>
      /\ DOMAIN rotJob = {"pc", "rot", "me", "who", "bmc", "as", "secret"}
      /\ rotJob.rot \in DOMAIN rotations
      /\ rotJob.me \in Rot /\ rotJob.secret \in Nat \cup {None}
      /\ rotJob.me.new = rotations[rotJob.rot].new
      /\ rotJob.pc \in Unpersisted \cup Decided
      /\ rotJob.pc \in Unpersisted => rotJob.me.new = None
      /\ rotJob.pc \in Decided => rotJob.secret = rotJob.me.new

IInv ==
    /\ rotations \in Seq(Rot) /\ made \in Seq(MadeSecret)
    /\ CacheTyped
    /\ UserJobTyped
    /\ RotJobInv

-----------------------------------------------------------------------------
(* What the two controllers' modules share *)

\* The instances' deliveries are the ones of the environment.
LEMMA SameDelivery ==
    /\ \A uq, rq : UserController!DeliverTo(uq, rq) <=> DeliverTo(uq, rq)
    /\ \A uq, rq : RotationController!DeliverTo(uq, rq) <=> DeliverTo(uq, rq)
    /\ UserController!Deliver <=> Deliver
    /\ RotationController!Deliver <=> Deliver
<1>1. /\ UserController!WokenRotations = WokenRotations
      /\ RotationController!WokenRotations = WokenRotations
  BY DEF WokenRotations, UserController!WokenRotations, RotationController!WokenRotations
<1>2. /\ UserController!WokenUsers = WokenUsers
      /\ RotationController!WokenUsers = WokenUsers
  BY DEF WokenUsers, UserController!WokenUsers, RotationController!WokenUsers,
     Users, UserController!Users, RotationController!Users
<1>3. /\ UserController!Store' = Store' /\ RotationController!Store' = Store'
  BY DEF Store, UserController!Store, RotationController!Store
<1>4. /\ \A uq, rq : UserController!DeliverTo(uq, rq) <=> DeliverTo(uq, rq)
      /\ \A uq, rq : RotationController!DeliverTo(uq, rq) <=> DeliverTo(uq, rq)
  BY <1>1, <1>2, <1>3 DEF DeliverTo, UserController!DeliverTo, RotationController!DeliverTo
<1> QED
  BY <1>4 DEF Deliver, UserController!Deliver, RotationController!Deliver

\* A delivery keeps the cache no longer than the store, and queues rotations
\* that are there.
LEMMA Delivered ==
    ASSUME IInv, rotations' \in Seq(Rot), Len(rotations) =< Len(rotations'),
           NEW uq, NEW rq, rq \subseteq DOMAIN rotations', DeliverTo(uq, rq)
    PROVE  CacheTyped'
<1>1. cache' = [k \in Kinds |-> IF k \in Lagging THEN cache[k] ELSE Store'[k]]
  BY DEF DeliverTo, IInv, CacheTyped
<1>2. cache'.rotations = IF "rotations" \in Lagging THEN cache.rotations ELSE rotations'
  BY <1>1 DEF Kinds, Store
<1>3. cache'.rotations \in Seq(Rot) /\ Len(cache'.rotations) =< Len(rotations')
  BY <1>2 DEF IInv, CacheTyped
<1>4. WokenRotations \subseteq 1..Len(cache'.rotations)
  BY DEF WokenRotations
<1>5. 1..Len(cache'.rotations) \subseteq DOMAIN rotations'
  BY <1>3
<1>6. rotQueue' \subseteq DOMAIN rotations'
  BY <1>4, <1>5 DEF DeliverTo
<1> QED
  BY <1>1, <1>3, <1>6 DEF CacheTyped, Kinds

\* A step that leaves the rotations, the secrets and the rotation worker.
LEMMA OthersStep ==
    ASSUME IInv, UNCHANGED <<rotations, rotJob>>, made' \in Seq(MadeSecret),
           UserJobTyped', NEW uq, NEW rq, rq \subseteq DOMAIN rotations, DeliverTo(uq, rq)
    PROVE  IInv'
<1>1. CacheTyped'
  BY Delivered DEF IInv
<1> QED
  BY <1>1 DEF IInv, RotJobInv

\* A secret that is made.
LEMMA SecretMade ==
    ASSUME IInv, NEW secret \in MadeSecret, Make(secret)
    PROVE  made' \in Seq(MadeSecret) /\ Len(made) + 1 \in Nat
  BY DEF IInv, Make

-----------------------------------------------------------------------------
(* The BMCUser controller *)

\* It ends its reconcile, takes a key, or goes on with the same user.
LEMMA UserStartStep ==
    ASSUME IInv, NEW u \in Users, UserController!Start(u)
    PROVE  IInv'
<1>1. /\ UNCHANGED <<rotations, made, rotJob>>
      /\ DeliverTo(userQueue \ {u}, rotQueue)
  BY SameDelivery DEF UserController!Start, UserController!objects
<1>2. UserJobTyped'
  BY DEF UserController!Start, UserController!UserJob, UserJobTyped
<1> QED
  BY <1>1, <1>2, OthersStep DEF IInv, CacheTyped

\* Its reconcile ends, and its key may go back to the queue.
LEMMA UserRequeues ==
    ASSUME IInv, UserController!Requeue \/ UserController!Finish
    PROVE  IInv'
<1>1. UNCHANGED <<rotations, made, rotJob>> /\ userJob' = Idle
  BY DEF UserController!Requeue, UserController!Finish, UserController!objects
<1>2. PICK uq : DeliverTo(uq, rotQueue)
  BY SameDelivery DEF UserController!Requeue, UserController!Finish, Deliver
<1>3. UserJobTyped'
  BY <1>1 DEF UserJobTyped
<1> QED
  BY <1>1, <1>2, <1>3, OthersStep DEF IInv, CacheTyped

\* It goes on with the same user, and writes no rotation.
LEMMA UserGoesOn ==
    ASSUME IInv, userJob # Idle, DOMAIN userJob' = DOMAIN userJob, userJob'.user = userJob.user,
           UNCHANGED <<rotations, rotJob>>, made' \in Seq(MadeSecret), Deliver
    PROVE  IInv'
<1>1. UserJobTyped'
  BY DEF IInv, UserJobTyped
<1> QED
  BY <1>1, OthersStep DEF IInv, CacheTyped, Deliver

\* The steps of a user's reconcile: all but the last leave the rotations.
LEMMA UserStepKeeps ==
    ASSUME IInv, UserController!UserStep
    PROVE  IInv'
<1> DEFINE SameUser == DOMAIN userJob' = DOMAIN userJob /\ userJob'.user = userJob.user
           Steady == userJob # Idle /\ SameUser /\ UNCHANGED <<rotations, made, rotJob>> /\ Deliver
           Ends == UserController!Requeue \/ UserController!Finish
<1> USE DEF UserController!At, UserController!Continue, UserController!Goto, UserController!objects
<1>1. CASE Steady
  BY <1>1, UserGoesOn DEF IInv
<1>2. CASE Ends
  BY <1>2, UserRequeues
<1>4. userJob # Idle => DOMAIN userJob = {"pc", "user", "me", "bmc", "as", "secret", "force"}
  BY DEF IInv, UserJobTyped
<1> HIDE DEF Ends
<1>5. UserController!updateEffectiveSecret => Ends \/ Steady
  BY <1>4, SameDelivery DEF UserController!updateEffectiveSecret, Ends
<1>6. UserController!setEffectiveSecretRef => Ends \/ Steady
  BY <1>4, SameDelivery DEF UserController!setEffectiveSecretRef, UserController!PatchUser, Ends
<1>7. UserController!syncBMCSecretRefToBMC => Ends \/ Steady
  BY <1>4, SameDelivery DEF UserController!syncBMCSecretRefToBMC
<1>8. UserController!Login => Ends \/ Steady
  BY <1>4, SameDelivery DEF UserController!Login, UserController!PatchUser, Ends
<1>9. UserController!setBMCUserSecretRef => Ends \/ Steady
  BY <1>4, SameDelivery DEF UserController!setBMCUserSecretRef, UserController!PatchUser, Ends
<1>10. UserController!CreateAccount => Ends \/ Steady
  BY <1>4, SameDelivery DEF UserController!CreateAccount, Ends
<1>11. UserController!RecordAccount => Ends \/ Steady
  BY <1>4, SameDelivery DEF UserController!RecordAccount, UserController!PatchUser, Ends
<1>12. UserController!reconcileSecretRef => Ends \/ Steady
  BY <1>4, SameDelivery DEF UserController!reconcileSecretRef, Ends
<1>13. UserController!pruneOldSecrets => Ends \/ Steady
  BY <1>4, SameDelivery DEF UserController!pruneOldSecrets
<1>14. UserController!SetConditions => Ends \/ Steady
  BY <1>4, SameDelivery DEF UserController!SetConditions, UserController!PatchUser, Ends
<1>15. UserController!TriggerRotation => Ends \/ Steady
  BY <1>4, SameDelivery DEF UserController!TriggerRotation, UserController!PatchUser, Ends
<1>16. UserController!DeleteUser => Ends \/ Steady
  BY <1>4, SameDelivery DEF UserController!DeleteUser, Ends
<1>17. UserController!FindAccount => Ends \/ Steady
  BY <1>4, SameDelivery DEF UserController!FindAccount, Ends
<1>18. UserController!DeleteAccount => Ends \/ Steady
  BY <1>4, SameDelivery DEF UserController!DeleteAccount, Ends
<1>19. CASE UserController!RemoveFinalizer
  <2>1. CASE ~Ends
    <3>1. UNCHANGED <<rotations, made, rotJob>> /\ userJob' = Idle /\ Deliver
      BY <1>19, <2>1, SameDelivery DEF UserController!RemoveFinalizer, Ends
    <3>2. UserJobTyped'
      BY <3>1 DEF UserJobTyped
    <3> QED
      BY <3>1, <3>2, OthersStep DEF IInv, CacheTyped, Deliver
  <2> QED
    BY <1>2, <2>1
<1>20. CASE UserController!createBMCSecretForUser
  <2>1. CASE ~Ends
    <3> DEFINE secret == [account |-> userJob.user, owner |-> userJob.user, label |-> 0, bad |-> FALSE]
    <3>1. /\ userJob # Idle /\ SameUser /\ UNCHANGED <<rotations, rotJob>> /\ Deliver
          /\ UserController!Make(secret)
      BY <1>4, <1>20, <2>1, SameDelivery DEF UserController!createBMCSecretForUser, Ends
    <3>2. secret \in MadeSecret
      BY <3>1 DEF IInv, UserJobTyped, MadeSecret, Accounts
    <3>3. Make(secret)
      BY <3>1 DEF Make, UserController!Make
    <3> QED
      BY <3>1, <3>2, <3>3, SecretMade, UserGoesOn
  <2> QED
    BY <1>2, <2>1
<1>21. CASE UserController!ensureBMCUserRotation
  <2>1. CASE ~Ends
    <3> DEFINE rot == [user |-> userJob.user, phase |-> "Pending", new |-> None,
                       retries |-> 0, recent |-> FALSE]
    <3>1. /\ userJob # Idle /\ rotations' = Append(rotations, rot) /\ userJob' = Idle
          /\ UNCHANGED <<made, rotJob>> /\ Deliver
      BY <1>21, <2>1, SameDelivery DEF UserController!ensureBMCUserRotation, Ends
    <3>2. rot \in Rot
      BY <3>1 DEF IInv, UserJobTyped, Rot, Phases
    <3> HIDE DEF rot
    <3>3. /\ rotations' \in Seq(Rot) /\ Len(rotations') = Len(rotations) + 1
          /\ \A r \in DOMAIN rotations : r \in DOMAIN rotations' /\ rotations'[r] = rotations[r]
      BY <3>1, <3>2 DEF IInv
    <3>4. CacheTyped'
      <4>1. Len(rotations) =< Len(rotations') /\ rotQueue \subseteq DOMAIN rotations'
        BY <3>3 DEF IInv, CacheTyped
      <4> QED
        BY <3>1, <3>3, <4>1, Delivered DEF Deliver
    <3>5. RotJobInv'
      BY <3>1, <3>3 DEF IInv, RotJobInv
    <3> QED
      BY <3>1, <3>3, <3>4, <3>5 DEF IInv, UserJobTyped
  <2> QED
    BY <1>2, <2>1
<1> QED
  BY <1>1, <1>2, <1>5, <1>6, <1>7, <1>8, <1>9, <1>10, <1>11, <1>12, <1>13, <1>14, <1>15,
     <1>16, <1>17, <1>18, <1>19, <1>20, <1>21 DEF UserController!UserStep

-----------------------------------------------------------------------------
(* The BMCUserRotation controller                                          *)

\* A rotation keeps the credential it has.
SecretsStay ==
    \A r \in DOMAIN rotations :
        /\ r \in DOMAIN rotations'
        /\ rotations[r].new # None => rotations'[r].new = rotations[r].new

\* A step of the rotation worker that writes no rotation.
LEMMA RotationGoesOn ==
    ASSUME IInv, UNCHANGED <<rotations, userJob>>, made' \in Seq(MadeSecret), RotJobInv',
           NEW uq, NEW rq, rq \subseteq DOMAIN rotations, DeliverTo(uq, rq)
    PROVE  IInv' /\ SecretsStay
<1>1. CacheTyped'
  BY Delivered DEF IInv
<1> QED
  BY <1>1 DEF IInv, UserJobTyped, SecretsStay

\* One that writes rotation r.
LEMMA RotationWritten ==
    ASSUME IInv, NEW r \in DOMAIN rotations, NEW new \in Rot,
           rotations[r].new # None => new.new = rotations[r].new,
           rotations' = [rotations EXCEPT ![r] = new],
           UNCHANGED <<made, userJob>>,
           NEW uq, NEW rq, rq \subseteq DOMAIN rotations, DeliverTo(uq, rq)
    PROVE  /\ rotations' \in Seq(Rot) /\ DOMAIN rotations' = DOMAIN rotations
           /\ rotations'[r] = new
           /\ SecretsStay
           /\ RotJobInv' => IInv'
<1>1. /\ rotations' \in Seq(Rot) /\ Len(rotations') = Len(rotations)
      /\ DOMAIN rotations' = DOMAIN rotations
      /\ \A i \in DOMAIN rotations : rotations'[i] = IF i = r THEN new ELSE rotations[i]
  BY DEF IInv
<1>2. CacheTyped'
  <2>1. Len(rotations) =< Len(rotations') /\ rq \subseteq DOMAIN rotations'
    BY <1>1 DEF IInv
  <2> QED
    BY <1>1, <2>1, Delivered
<1> QED
  BY <1>1, <1>2 DEF IInv, UserJobTyped, SecretsStay

\* The reconcile starts with what the API server answers to its first patch.
LEMMA RotationStartStep ==
    ASSUME IInv, NEW r \in rotQueue, RotationController!Start(r)
    PROVE  IInv' /\ SecretsStay
<1> DEFINE me == cache.rotations[r]
           stored == rotations[r]
           user == cache.users[me.user]
           new == IF ~user.exists THEN RotationController!Failed(stored)
                  ELSE [stored EXCEPT !.phase = RotationController!Merge(me.phase, "InProgress", @)]
<1>1. rotJob = Idle /\ UNCHANGED <<made, userJob>>
  BY DEF RotationController!Start
<1>2. r \in DOMAIN rotations /\ stored \in Rot /\ rotQueue \subseteq DOMAIN rotations
  BY DEF IInv, CacheTyped
<1>3. CASE UNCHANGED <<rotations, rotJob>>
  <2>1. PICK rq : rq \subseteq DOMAIN rotations /\ DeliverTo(userQueue, rq)
    <3>1. DeliverTo(userQueue, rotQueue \ {r}) \/ DeliverTo(userQueue, rotQueue)
      BY SameDelivery DEF RotationController!Start
    <3> QED
      BY <1>2, <3>1
  <2>2. RotJobInv'
    BY <1>1, <1>3 DEF RotJobInv
  <2> QED
    BY <1>1, <1>3, <2>1, <2>2, RotationGoesOn DEF IInv
<1>4. CASE ~UNCHANGED <<rotations, rotJob>>
  <2>1. /\ rotations' = [rotations EXCEPT ![r] = new]
        /\ rotJob' = IF user.exists THEN RotationController!RotationJob(r, new) ELSE Idle
        /\ DeliverTo(userQueue, rotQueue \ {r})
    BY <1>4, SameDelivery DEF RotationController!Start
  <2>2. new \in Rot /\ new.new = stored.new
    BY <1>2 DEF RotationController!Failed, RotationController!Merge, Rot, Phases
  <2> HIDE DEF new
  <2>3. rotQueue \ {r} \subseteq DOMAIN rotations
    BY <1>2
  <2>4. /\ rotations' \in Seq(Rot) /\ DOMAIN rotations' = DOMAIN rotations
        /\ rotations'[r] = new /\ SecretsStay /\ (RotJobInv' => IInv')
    BY <1>1, <1>2, <2>1, <2>2, <2>3, RotationWritten
  <2>5. RotJobInv'
    BY <1>2, <2>1, <2>2, <2>4
       DEF RotJobInv, RotationController!RotationJob, Unpersisted, Decided, Rot
  <2> QED
    BY <2>4, <2>5
<1> QED
  BY <1>3, <1>4

\* Its reconcile ends, with its key back in the queue.
LEMMA RotationRequeues ==
    ASSUME IInv, rotJob # Idle, RotationController!Requeue
    PROVE  IInv' /\ SecretsStay
<1>1. /\ UNCHANGED <<rotations, made, userJob>> /\ rotJob' = Idle
      /\ DeliverTo(userQueue, rotQueue \cup {rotJob.rot})
  BY SameDelivery DEF RotationController!Requeue, RotationController!objects
<1>2. rotQueue \cup {rotJob.rot} \subseteq DOMAIN rotations
  BY DEF IInv, CacheTyped, RotJobInv
<1>3. RotJobInv'
  BY <1>1 DEF RotJobInv
<1> QED
  BY <1>1, <1>2, <1>3, RotationGoesOn DEF IInv

\* It goes on without a write, with the same rotation and secret.
LEMMA RotationSteady ==
    ASSUME IInv, rotJob # Idle, UNCHANGED <<rotations, made, userJob>>, Deliver,
           DOMAIN rotJob' = DOMAIN rotJob, rotJob'.rot = rotJob.rot, rotJob'.me = rotJob.me,
           rotJob'.secret = rotJob.secret, rotJob'.pc \in Unpersisted \cup Decided,
           rotJob'.pc \in Unpersisted => rotJob.me.new = None,
           rotJob'.pc \in Decided => rotJob.secret = rotJob.me.new
    PROVE  IInv' /\ SecretsStay
<1>1. RotJobInv'
  BY DEF IInv, RotJobInv
<1>2. rotQueue \subseteq DOMAIN rotations
  BY DEF IInv, CacheTyped
<1> QED
  BY <1>1, <1>2, RotationGoesOn DEF IInv, Deliver

\* The reconcile ends with a write that keeps the secret.
LEMMA RotationEnds ==
    ASSUME IInv, rotJob # Idle, NEW new \in Rot, new.new = rotations[rotJob.rot].new,
           rotations' = [rotations EXCEPT ![rotJob.rot] = new], rotJob' = Idle,
           UNCHANGED <<made, userJob>>,
           NEW rq \in {rotQueue, rotQueue \cup {rotJob.rot}}, DeliverTo(userQueue, rq)
    PROVE  IInv' /\ SecretsStay
<1>1. rotJob.rot \in DOMAIN rotations /\ rq \subseteq DOMAIN rotations
  BY DEF IInv, CacheTyped, RotJobInv
<1>2. RotJobInv'
  BY DEF RotJobInv
<1> QED
  BY <1>1, <1>2, RotationWritten

\* The fields of a rotation that the worker holds.
LEMMA Held ==
    ASSUME IInv, rotJob # Idle
    PROVE  /\ rotations[rotJob.rot] \in Rot /\ rotJob.me \in Rot
           /\ DOMAIN rotJob = {"pc", "rot", "me", "who", "bmc", "as", "secret"}
           /\ rotJob.me.new = rotations[rotJob.rot].new
           /\ rotJob.secret \in Nat \cup {None}
           /\ rotJob.pc \in Unpersisted => rotJob.me.new = None
           /\ rotJob.pc \in Decided => rotJob.secret = rotJob.me.new
  BY DEF IInv, RotJobInv

\* setFailed, and the end of a rotation.
LEMMA RotationPhased ==
    ASSUME IInv, rotJob # Idle, NEW new \in Rot, new.new = rotations[rotJob.rot].new,
           RotationController!PatchRotation(new, Idle)
    PROVE  IInv' /\ SecretsStay
<1>1. /\ rotations' = [rotations EXCEPT ![rotJob.rot] = new] /\ rotJob' = Idle
      /\ UNCHANGED <<made, userJob>> /\ DeliverTo(userQueue, rotQueue)
  BY SameDelivery DEF RotationController!PatchRotation, Deliver
<1> QED
  BY <1>1, RotationEnds

\* setFailed, which keeps the secret, or a call that fails.
LEMMA RotationFails ==
    ASSUME IInv, rotJob # Idle, RotationController!setFailed
    PROVE  IInv' /\ SecretsStay
<1> DEFINE new == RotationController!Failed(rotations[rotJob.rot])
<1>1. new \in Rot /\ new.new = rotations[rotJob.rot].new
  BY Held DEF RotationController!Failed, Rot, Phases
<1>2. RotationController!Requeue \/ RotationController!PatchRotation(new, Idle)
  BY DEF RotationController!setFailed
<1> QED
  BY <1>1, <1>2, RotationRequeues, RotationPhased

\* The client: who reuses a persisted secret changes the password at once.
LEMMA RotationLogsIn ==
    ASSUME IInv, rotJob # Idle, rotJob.pc = "client", NEW s, RotationController!LoginAs(s)
    PROVE  IInv' /\ SecretsStay
<1>1. /\ UNCHANGED <<rotations, made, userJob>> /\ Deliver
      /\ rotJob' = [rotJob EXCEPT !.as = s,
                       !.pc = IF rotJob.me.new # None THEN "change" ELSE "make"]
  BY SameDelivery DEF RotationController!LoginAs, RotationController!Reuses,
     RotationController!objects
<1>2. rotJob.secret = rotJob.me.new
  BY Held DEF Decided
<1> QED
  BY <1>1, <1>2, Held, RotationSteady DEF Unpersisted, Decided

\* The steps of a rotation.
LEMMA RotationStepKeeps ==
    ASSUME IInv, RotationController!RotationStep
    PROVE  IInv' /\ SecretsStay
<1> DEFINE job == rotJob
           Requeues == RotationController!Requeue
<1> USE DEF RotationController!At, RotationController!Goto, RotationController!objects
<1>1. rotJob # Idle
  BY DEF RotationController!RotationStep, RotationController!executeDualAccount,
     RotationController!executeSingleAccount, RotationController!CreateSecret,
     RotationController!PersistSecretRef, RotationController!ChangePassword,
     RotationController!TryPassword, RotationController!GiveUp,
     RotationController!PromoteToSpec, RotationController!PromoteToStatus,
     RotationController!PromoteToBMC, RotationController!Succeed
<1>2. CASE Requeues
  BY <1>1, <1>2, RotationRequeues
<1>3. CASE RotationController!executeDualAccount
  <2>1. rotJob.pc = "client"
    BY <1>3 DEF RotationController!executeDualAccount
  <2>2. Requeues \/ RotationController!setFailed \/ \E s : RotationController!LoginAs(s)
    BY <1>3 DEF RotationController!executeDualAccount
  <2> QED
    BY <1>1, <1>2, <2>1, <2>2, RotationFails, RotationLogsIn
<1>4. CASE RotationController!executeSingleAccount
  <2>1. rotJob.pc = "client"
    BY <1>4 DEF RotationController!executeSingleAccount
  <2>2. Requeues \/ \E s : RotationController!LoginAs(s)
    BY <1>4 DEF RotationController!executeSingleAccount
  <2> QED
    BY <1>1, <1>2, <2>1, <2>2, RotationLogsIn
<1>5. CASE RotationController!CreateSecret /\ ~Requeues
  <2>1. PICK bad \in BOOLEAN :
           RotationController!Make([account |-> rotJob.me.user, owner |-> rotJob.me.user,
                                    label |-> rotJob.rot, bad |-> bad])
    BY <1>5 DEF RotationController!CreateSecret
  <2> DEFINE secret == [account |-> rotJob.me.user, owner |-> rotJob.me.user,
                        label |-> rotJob.rot, bad |-> bad]
  <2>2. rotJob.rot \in Nat
    BY <1>1 DEF IInv, RotJobInv
  <2>3. secret \in MadeSecret
    BY <1>1, <2>2, Held DEF Rot, MadeSecret, Accounts
  <2>4. Make(secret)
    BY <2>1 DEF Make, RotationController!Make
  <2>5. made' \in Seq(MadeSecret) /\ Len(made) + 1 \in Nat
    BY <2>3, <2>4, SecretMade
  <2>6. /\ UNCHANGED <<rotations, userJob>> /\ DeliverTo(userQueue, rotQueue)
        /\ rotJob' = [rotJob EXCEPT !.secret = Len(made) + 1, !.pc = "persist"]
        /\ rotJob.pc = "make"
    BY <1>5, SameDelivery DEF RotationController!CreateSecret, RotationController!Created, Deliver
  <2>7. RotJobInv'
    BY <1>1, <2>5, <2>6 DEF IInv, RotJobInv, Unpersisted, Decided
  <2> QED
    BY <2>5, <2>6, <2>7, RotationGoesOn DEF IInv, CacheTyped
<1>6. CASE RotationController!PersistSecretRef /\ ~Requeues
  <2> DEFINE new == [rotations[rotJob.rot] EXCEPT !.new = rotJob.secret]
  <2>1. /\ rotations' = [rotations EXCEPT ![rotJob.rot] = new]
        /\ rotJob' = [rotJob EXCEPT !.me = new, !.pc = "change"]
        /\ UNCHANGED <<made, userJob>> /\ DeliverTo(userQueue, rotQueue)
        /\ rotJob.pc = "persist"
    BY <1>6, SameDelivery DEF RotationController!PersistSecretRef, RotationController!PatchRotation, Deliver
  <2>2. new \in Rot /\ new.new = rotJob.secret
    BY <1>1, Held DEF Rot
  <2>3. rotations[rotJob.rot].new = None
    BY <1>1, <2>1, Held DEF Unpersisted
  <2>4. rotJob.rot \in DOMAIN rotations /\ rotQueue \subseteq DOMAIN rotations
    BY <1>1 DEF IInv, CacheTyped, RotJobInv
  <2> HIDE DEF new
  <2>5. /\ rotations' \in Seq(Rot) /\ DOMAIN rotations' = DOMAIN rotations
        /\ rotations'[rotJob.rot] = new /\ SecretsStay /\ (RotJobInv' => IInv')
    BY <2>1, <2>2, <2>3, <2>4, RotationWritten
  <2>6. RotJobInv'
    BY <1>1, <2>1, <2>2, <2>4, <2>5, Held DEF RotJobInv, Unpersisted, Decided
  <2> QED
    BY <2>5, <2>6
<1>7. CASE RotationController!ChangePassword /\ ~Requeues
  BY <1>1, <1>7, Held, RotationSteady, SameDelivery
     DEF RotationController!ChangePassword, Unpersisted, Decided
<1>8. CASE RotationController!TryPassword /\ ~Requeues
  <2> DEFINE counted == [rotations[rotJob.rot] EXCEPT !.retries = rotJob.me.retries + 1]
             last == [rotJob EXCEPT !.me = counted, !.pc = "fail"]
  <2>1. rotations[rotJob.rot] \in Rot /\ rotJob.me.retries + 1 \in Nat
    BY <1>1, Held DEF Rot
  <2>2. counted \in Rot /\ counted.new = rotations[rotJob.rot].new
    BY <2>1 DEF Rot
  <2>3. /\ rotJob.pc = "try"
        /\ \/ /\ UNCHANGED <<rotations, made, userJob>> /\ Deliver
              /\ rotJob' = [rotJob EXCEPT !.pc = "spec"]
           \/ RotationController!PatchRotation(counted, last)
           \/ /\ rotations' = [rotations EXCEPT ![rotJob.rot] = counted] /\ rotJob' = Idle
              /\ UNCHANGED <<made, userJob>> /\ DeliverTo(userQueue, rotQueue \cup {rotJob.rot})
    BY <1>8, SameDelivery DEF RotationController!TryPassword
  <2> HIDE DEF counted
  <2>4. CASE /\ UNCHANGED <<rotations, made, userJob>> /\ Deliver
             /\ rotJob' = [rotJob EXCEPT !.pc = "spec"]
    BY <1>1, <2>3, <2>4, Held, RotationSteady DEF Unpersisted, Decided
  <2>5. CASE RotationController!PatchRotation(counted, last)
    <3>1. /\ rotations' = [rotations EXCEPT ![rotJob.rot] = counted] /\ rotJob' = last
          /\ UNCHANGED <<made, userJob>> /\ DeliverTo(userQueue, rotQueue)
      BY <2>5, SameDelivery DEF RotationController!PatchRotation, Deliver
    <3>2. rotJob.rot \in DOMAIN rotations /\ rotQueue \subseteq DOMAIN rotations
      BY <1>1 DEF IInv, CacheTyped, RotJobInv
    <3>3. /\ rotations' \in Seq(Rot) /\ DOMAIN rotations' = DOMAIN rotations
          /\ rotations'[rotJob.rot] = counted /\ SecretsStay /\ (RotJobInv' => IInv')
      BY <2>2, <3>1, <3>2, RotationWritten
    <3>4. rotJob.secret = counted.new
      BY <1>1, <2>2, <2>3, Held DEF Decided
    <3>5. RotJobInv'
      BY <1>1, <2>2, <3>1, <3>2, <3>3, <3>4, Held DEF RotJobInv, Unpersisted, Decided
    <3> QED
      BY <3>3, <3>5
  <2> QED
    BY <1>1, <2>2, <2>3, <2>4, <2>5, RotationEnds
<1>13. CASE RotationController!GiveUp
  BY <1>1, <1>13, RotationFails DEF RotationController!GiveUp
<1>9. CASE RotationController!PromoteToSpec /\ ~Requeues
  BY <1>1, <1>9, Held, RotationSteady, SameDelivery
     DEF RotationController!PromoteToSpec, RotationController!PromoteUser, Unpersisted, Decided
<1>10. CASE RotationController!PromoteToStatus /\ ~Requeues
  <2>1. PICK pc \in {"bmc", "finish"} : \E new : RotationController!PromoteUser(new, pc)
    BY <1>10 DEF RotationController!PromoteToStatus
  <2>2. rotJob.pc = "status"
    BY <1>10 DEF RotationController!PromoteToStatus
  <2> QED
    BY <1>1, <1>10, <2>1, <2>2, Held, RotationSteady, SameDelivery
       DEF RotationController!PromoteUser, Unpersisted, Decided
<1>11. CASE RotationController!PromoteToBMC
  BY <1>1, <1>11, Held, RotationSteady, SameDelivery
     DEF RotationController!PromoteToBMC, Unpersisted, Decided
<1>12. CASE RotationController!Succeed /\ ~Requeues
  <2> DEFINE new == [rotations[rotJob.rot] EXCEPT !.phase = "Succeeded"]
  <2>1. new \in Rot /\ new.new = rotations[rotJob.rot].new
    BY <1>1, Held DEF Rot, Phases
  <2>2. RotationController!PatchRotation(new, Idle)
    BY <1>12 DEF RotationController!Succeed
  <2> QED
    BY <1>1, <2>1, <2>2, RotationPhased
<1> QED
  BY <1>2, <1>3, <1>4, <1>5, <1>6, <1>7, <1>8, <1>9, <1>10, <1>11, <1>12, <1>13
     DEF RotationController!RotationStep

-----------------------------------------------------------------------------
(* Persons, clocks, failures                                               *)

\* The clock and the watches change the cache as well as the store, or alone.
LEMMA CacheStep ==
    ASSUME IInv, UNCHANGED <<rotations, made, userJob, rotJob>>, CacheTyped'
    PROVE  IInv'
  BY DEF IInv, UserJobTyped, RotJobInv

\* A user's period elapses, in the store and in the cache alike.
LEMMA ClockStep ==
    ASSUME IInv, NEW u \in Users, Age(u)
    PROVE  IInv'
<1>1. cache' = [cache EXCEPT !.users[u].due = TRUE] /\ UNCHANGED rotQueue
      /\ UNCHANGED <<rotations, made, userJob, rotJob>>
  BY DEF Age
<1>2. DOMAIN cache' = Kinds /\ cache'.rotations = cache.rotations
  BY <1>1 DEF IInv, CacheTyped, Kinds
<1>3. CacheTyped'
  BY <1>1, <1>2 DEF IInv, CacheTyped
<1> QED
  BY <1>1, <1>3, CacheStep

\* A cache that trails catches up with the store.
LEMMA WatchStep ==
    ASSUME IInv, NEW k \in Lagging, Refresh(k)
    PROVE  IInv'
<1>1. /\ UNCHANGED <<rotations, made, userJob, rotJob>>
      /\ cache' = [cache EXCEPT ![k] = Store[k]]
      /\ rotQueue' = rotQueue \cup WokenRotations
  BY DEF Refresh, objects
<1>2. /\ DOMAIN cache' = Kinds
      /\ cache'.rotations = IF k = "rotations" THEN rotations ELSE cache.rotations
  BY <1>1 DEF IInv, CacheTyped, Kinds, Store
<1>3. cache'.rotations \in Seq(Rot) /\ Len(cache'.rotations) =< Len(rotations)
  BY <1>2 DEF IInv, CacheTyped
<1>4. WokenRotations \subseteq 1..Len(cache'.rotations)
  BY DEF WokenRotations
<1>5. rotQueue' \subseteq DOMAIN rotations
  <2>1. 1..Len(cache'.rotations) \subseteq DOMAIN rotations
    BY <1>3 DEF IInv
  <2> QED
    BY <1>1, <1>4, <2>1 DEF IInv, CacheTyped
<1>6. CacheTyped'
  BY <1>1, <1>2, <1>3, <1>5 DEF CacheTyped
<1> QED
  BY <1>1, <1>6, CacheStep

\* A person's write of a user leaves the rotations.
LEMMA PersonStep ==
    ASSUME IInv, NEW u \in Users, Annotate(u) \/ Repoint(u) \/ RequestDeletion(u)
    PROVE  IInv' /\ UNCHANGED rotations
<1>1. UNCHANGED <<rotations, userJob, rotJob>> /\ DeliverTo(userQueue, rotQueue)
  BY DEF Annotate, Repoint, RequestDeletion, ByPerson, Deliver
<1>2. made' \in Seq(MadeSecret)
  <2>1. CASE Repoint(u)
    <3>1. [account |-> u, owner |-> None, label |-> 0, bad |-> FALSE] \in MadeSecret
      BY DEF MadeSecret, Accounts
    <3> QED
      BY <2>1, <3>1, SecretMade DEF Repoint
  <2>2. CASE Annotate(u) \/ RequestDeletion(u)
    BY <2>2 DEF Annotate, RequestDeletion, IInv
  <2> QED
    BY <2>1, <2>2
<1>3. UserJobTyped'
  BY <1>1 DEF IInv, UserJobTyped
<1> QED
  BY <1>1, <1>2, <1>3, OthersStep DEF IInv, CacheTyped

\* A step that changes rotations but no secret, and reconciles nothing.
LEMMA RotationsChanged ==
    ASSUME IInv, rotations' \in Seq(Rot), DOMAIN rotations' = DOMAIN rotations,
           \A r \in DOMAIN rotations : rotations'[r].new = rotations[r].new,
           UNCHANGED <<made, userJob, rotJob>>, CacheTyped'
    PROVE  IInv' /\ SecretsStay
  BY DEF IInv, UserJobTyped, RotJobInv, SecretsStay

\* Rotations of a deleted user go; their numbers and secrets stay.
LEMMA GarbageStep ==
    ASSUME IInv, NEW u \in Users, CollectGarbage(u)
    PROVE  IInv' /\ SecretsStay
<1> DEFINE its == {r \in DOMAIN rotations : rotations[r].user = u /\ rotations[r].phase # "Gone"}
<1>1. /\ rotations' = [r \in DOMAIN rotations |->
                          IF r \in its THEN [rotations[r] EXCEPT !.phase = "Gone"] ELSE rotations[r]]
      /\ UNCHANGED <<made, userJob, rotJob>> /\ DeliverTo(userQueue, rotQueue)
  BY DEF CollectGarbage, Deliver
<1>2. \A r \in DOMAIN rotations : rotations[r] \in Rot
  BY DEF IInv
<1>3. \A r \in DOMAIN rotations :
         rotations'[r] \in Rot /\ rotations'[r].new = rotations[r].new
  BY <1>1, <1>2 DEF Rot
<1>4. DOMAIN rotations' = 1..Len(rotations) /\ Len(rotations) \in Nat
  BY <1>1 DEF IInv
<1>5. rotations' \in Seq(Rot) /\ Len(rotations') = Len(rotations)
      /\ DOMAIN rotations' = DOMAIN rotations
  <2>1. DOMAIN rotations' = DOMAIN rotations
    BY <1>1
  <2>2. rotations' \in [1..Len(rotations) -> Rot]
    <3>1. \A r \in 1..Len(rotations) : rotations'[r] \in Rot
      BY <1>3, <1>4, <2>1
    <3>2. rotations' = [r \in 1..Len(rotations) |-> rotations'[r]]
      BY <1>1, <1>4
    <3> QED
      BY <3>1, <3>2
  <2> QED
    BY <1>4, <2>1, <2>2
<1>6. CacheTyped'
  <2>1. Len(rotations) =< Len(rotations') /\ rotQueue \subseteq DOMAIN rotations'
    BY <1>4, <1>5 DEF IInv, CacheTyped
  <2> QED
    BY <1>1, <1>5, <2>1, Delivered
<1> QED
  BY <1>1, <1>3, <1>5, <1>6, RotationsChanged

\* The delay after a failure is over, in the store and in the cache.
LEMMA CoolDownStep ==
    ASSUME IInv, NEW r \in DOMAIN rotations, CoolDown(r)
    PROVE  IInv' /\ SecretsStay
<1> DEFINE new == [rotations[r] EXCEPT !.recent = FALSE]
           cooled == [i \in DOMAIN cache.rotations |->
                        IF i = r THEN [cache.rotations[i] EXCEPT !.recent = FALSE]
                        ELSE cache.rotations[i]]
<1>1. /\ rotations' = [rotations EXCEPT ![r] = new]
      /\ cache' = [cache EXCEPT !.rotations = cooled]
      /\ UNCHANGED <<made, userJob, rotJob, rotQueue>>
  BY DEF CoolDown
<1>2. rotations[r] \in Rot
  BY DEF IInv
<1>3. new \in Rot /\ new.new = rotations[r].new
  BY <1>2 DEF Rot
<1> HIDE DEF new
<1>4. /\ rotations' \in Seq(Rot) /\ Len(rotations') = Len(rotations)
      /\ DOMAIN rotations' = DOMAIN rotations
      /\ \A i \in DOMAIN rotations : rotations'[i].new = rotations[i].new
  BY <1>1, <1>3 DEF IInv
<1>5. \A i \in DOMAIN cache.rotations : cache.rotations[i] \in Rot
  BY DEF IInv, CacheTyped
<1>6. \A i \in DOMAIN cache.rotations : cooled[i] \in Rot
  BY <1>5 DEF Rot
<1>7. DOMAIN cooled = 1..Len(cache.rotations) /\ Len(cache.rotations) \in Nat
  BY DEF IInv, CacheTyped
<1> HIDE DEF cooled
<1>8. cooled \in Seq(Rot) /\ Len(cooled) = Len(cache.rotations)
  <2>1. cooled \in [1..Len(cache.rotations) -> Rot]
    <3>1. DOMAIN cache.rotations = 1..Len(cache.rotations)
      BY DEF IInv, CacheTyped
    <3> QED
      BY <1>6, <1>7, <3>1 DEF cooled
  <2> QED
    BY <1>7, <2>1
<1>9. DOMAIN cache' = Kinds /\ cache'.rotations = cooled
  BY <1>1 DEF IInv, CacheTyped, Kinds
<1>10. CacheTyped'
  BY <1>1, <1>4, <1>8, <1>9 DEF IInv, CacheTyped
<1> QED
  BY <1>1, <1>4, <1>10, RotationsChanged

\* A call that fails, or a restart, which drops both workers' copies.
LEMMA FailureStep ==
    ASSUME IInv, Failures
    PROVE  IInv' /\ UNCHANGED rotations
<1>1. CASE UserController!FailUser
  <2>1. /\ UNCHANGED <<rotations, made, rotJob>> /\ userJob' = Idle
        /\ DeliverTo(userQueue \cup {userJob.user}, rotQueue)
    BY <1>1, SameDelivery DEF UserController!FailUser, UserController!objects
  <2>2. UserJobTyped'
    BY <2>1 DEF UserJobTyped
  <2> QED
    BY <2>1, <2>2, OthersStep DEF IInv, CacheTyped
<1>2. CASE RotationController!FailRotation
  <2>1. /\ UNCHANGED <<rotations, made, userJob>> /\ rotJob' = Idle /\ rotJob # Idle
        /\ DeliverTo(userQueue, rotQueue \cup {rotJob.rot})
    BY <1>2, SameDelivery DEF RotationController!FailRotation, RotationController!objects
  <2>2. RotJobInv'
    BY <2>1 DEF RotJobInv
  <2>3. rotQueue \cup {rotJob.rot} \subseteq DOMAIN rotations
    BY <2>1 DEF IInv, CacheTyped, RotJobInv
  <2> QED
    BY <2>1, <2>2, <2>3, RotationGoesOn DEF IInv
<1>3. CASE Restart
  <2>1. /\ UNCHANGED <<rotations, made>> /\ userJob' = Idle /\ rotJob' = Idle
        /\ cache' = Store /\ rotQueue' = DOMAIN rotations
    BY <1>3 DEF Restart, objects
  <2>2. CacheTyped'
    BY <2>1 DEF IInv, CacheTyped, Store, Kinds
  <2> QED
    BY <2>1, <2>2 DEF IInv, UserJobTyped, RotJobInv
<1> QED
  BY <1>1, <1>2, <1>3 DEF Failures

-----------------------------------------------------------------------------
(* The invariant *)

\* The factory's secret, or one for every user as well.
LEMMA SecretsAtFirst ==
    ASSUME Init
    PROVE  made \in Seq(MadeSecret)
<1>1. FactorySecret \in MadeSecret
  BY DEF FactorySecret, MadeSecret, Accounts
<1>2. CASE InitFresh
  BY <1>1, <1>2 DEF InitFresh
<1>3. CASE InitBootstrapped
  <2>1. PICK own \in [Users -> 2..(Cardinality(Users) + 1)] :
           /\ {own[u] : u \in Users} = 2..(Cardinality(Users) + 1)
           /\ made = [s \in 1..(Cardinality(Users) + 1) |->
                        IF s = Factory THEN FactorySecret
                        ELSE LET u == CHOOSE u \in Users : own[u] = s
                             IN  [account |-> u, owner |-> u, label |-> 0, bad |-> FALSE]]
    BY <1>3 DEF InitBootstrapped
  <2>2. Cardinality(Users) \in Nat
    BY CredentialAssumption, FS_CardinalityType
  <2>3. ASSUME NEW s \in 1..(Cardinality(Users) + 1)
        PROVE  made[s] \in MadeSecret
    <3>1. CASE s = Factory
      BY <1>1, <2>1, <3>1
    <3>2. CASE s # Factory
      <4> DEFINE u == CHOOSE u \in Users : own[u] = s
      <4>1. s \in 2..(Cardinality(Users) + 1)
        BY <2>2, <3>2 DEF Factory
      <4>2. \E v \in Users : own[v] = s
        BY <2>1, <4>1
      <4>3. u \in Users
        BY <4>2
      <4>4. made[s] = [account |-> u, owner |-> u, label |-> 0, bad |-> FALSE]
        BY <2>1, <3>2
      <4> HIDE DEF u
      <4> QED
        BY <4>3, <4>4 DEF MadeSecret, Accounts
    <3> QED
      BY <3>1, <3>2
  <2>4. made \in [1..(Cardinality(Users) + 1) -> MadeSecret]
    BY <2>1, <2>3
  <2> QED
    BY <2>2, <2>4
<1> QED
  BY <1>2, <1>3 DEF Init

\* There are no rotations and no reconciles at the start.
LEMMA Initially == Init => IInv
<1> SUFFICES ASSUME Init PROVE IInv
  OBVIOUS
<1>1. rotations = << >> /\ cache = Store /\ rotQueue = {} /\ userJob = Idle /\ rotJob = Idle
  BY DEF Init
<1>2. CacheTyped
  BY <1>1 DEF CacheTyped, Kinds, Store
<1> QED
  BY <1>1, <1>2, SecretsAtFirst DEF IInv, UserJobTyped, RotJobInv

\* A user's controller leaves the rotations there are.
LEMMA UserLeavesRotations ==
    ASSUME IInv, UserController!UserStep \/ \E u \in Users : UserController!Start(u)
    PROVE  SecretsStay
<1>1. \/ UNCHANGED rotations
      \/ /\ userJob # Idle
         /\ rotations' = Append(rotations,
               [user |-> userJob.user, phase |-> "Pending", new |-> None,
                retries |-> 0, recent |-> FALSE])
  BY DEF UserController!UserStep, UserController!Start, UserController!objects,
     UserController!Requeue, UserController!Finish, UserController!PatchUser, UserController!At,
     UserController!updateEffectiveSecret, UserController!setEffectiveSecretRef,
     UserController!syncBMCSecretRefToBMC, UserController!Login,
     UserController!createBMCSecretForUser, UserController!setBMCUserSecretRef,
     UserController!CreateAccount, UserController!RecordAccount,
     UserController!reconcileSecretRef, UserController!pruneOldSecrets,
     UserController!SetConditions, UserController!TriggerRotation,
     UserController!ensureBMCUserRotation, UserController!DeleteUser,
     UserController!FindAccount, UserController!DeleteAccount, UserController!RemoveFinalizer
<1>2. CASE UNCHANGED rotations
  BY <1>2 DEF SecretsStay
<1>3. ASSUME userJob # Idle, NEW rot \in Rot, rotations' = Append(rotations, rot)
      PROVE  SecretsStay
  BY <1>3 DEF IInv, SecretsStay
<1>4. userJob # Idle => [user |-> userJob.user, phase |-> "Pending", new |-> None,
                         retries |-> 0, recent |-> FALSE] \in Rot
  BY DEF IInv, UserJobTyped, Rot, Phases
<1> QED
  BY <1>1, <1>2, <1>3, <1>4

\* Every step preserves the invariant, and every secret that is persisted.
LEMMA Step == IInv /\ [Next]_vars => IInv' /\ SecretsStay
<1> SUFFICES ASSUME IInv, [Next]_vars PROVE IInv' /\ SecretsStay
  OBVIOUS
<1>1. ASSUME NEW u \in Users, UserController!Start(u)
      PROVE  IInv' /\ SecretsStay
  BY <1>1, UserStartStep, UserLeavesRotations
<1>2. CASE UserController!UserStep
  BY <1>2, UserStepKeeps, UserLeavesRotations
<1>3. ASSUME NEW r \in rotQueue, RotationController!Start(r)
      PROVE  IInv' /\ SecretsStay
  BY <1>3, RotationStartStep
<1>4. CASE RotationController!RotationStep
  BY <1>4, RotationStepKeeps
<1>5. CASE Environment
  <2>1. ASSUME NEW u \in Users, Age(u)
        PROVE  IInv' /\ SecretsStay
    BY <2>1, ClockStep DEF Age, SecretsStay
  <2>2. ASSUME NEW u \in Users, Annotate(u) \/ Repoint(u) \/ RequestDeletion(u)
        PROVE  IInv' /\ SecretsStay
    BY <2>2, PersonStep DEF SecretsStay
  <2>3. ASSUME NEW k \in Lagging, Refresh(k)
        PROVE  IInv' /\ SecretsStay
    BY <2>3, WatchStep DEF Refresh, objects, SecretsStay
  <2> QED
    BY <1>5, <2>1, <2>2, <2>3, GarbageStep, CoolDownStep DEF Environment
<1>6. CASE Failures
  BY <1>6, FailureStep DEF SecretsStay
<1>7. CASE UNCHANGED vars
  BY <1>7 DEF vars, IInv, CacheTyped, UserJobTyped, RotJobInv, SecretsStay
<1> QED
  BY <1>1, <1>2, <1>3, <1>4, <1>5, <1>6, <1>7 DEF Next

\* The copies the workers hold stay those of what is stored.
LEMMA Invariant == Spec => []IInv
<1> QED
  BY Initially, Step, PTL DEF Spec

\* A rotation keeps to the secret it has once persisted, through failed calls,
\* restarts and caches that trail: no retry gives the account a second password.
THEOREM RotationKeepsSecret == Spec => RetryReusesSecret
<1>1. IInv /\ [Next]_vars =>
        [\A r \in DOMAIN rotations :
           rotations[r].new # None => rotations'[r].new = rotations[r].new]_vars
  BY Step DEF SecretsStay
<1> QED
  BY <1>1, Invariant, PTL DEF Spec, RetryReusesSecret
=============================================================================
