-------------------------- MODULE BMCUserRotation --------------------------
(***************************************************************************)
(* The BMCUserRotation reconciler: with a peer admin's credential, or the  *)
(* BMC's own, it gives the account a new password, tries it, and promotes  *)
(* its secret to the user's spec, the user's status and the BMC.           *)
(***************************************************************************)
EXTENDS CredentialState

\* me, who and bmc are copies of the rotation, its user and the BMC reference;
\* secret is the new credential, as the one the BMC client logs in with.
RotationJob(r, me) ==
    [pc |-> "client", rot |-> r, me |-> me, who |-> cache.users[me.user],
     bmc |-> cache.bmc, as |-> None, secret |-> me.new]

At(pc) == rotJob # Idle /\ rotJob.pc = pc
Goto(pc) == rotJob' = [rotJob EXCEPT !.pc = pc]

\* An error, or RequeueAfter: the key returns to the queue.
Requeue ==
    /\ rotJob' = Idle
    /\ UNCHANGED <<objects, password, userJob, faults>>
    /\ DeliverTo(userQueue, rotQueue \cup {rotJob.rot})

\* A patch of the rotation's status; NotFound once it is gone.
PatchRotation(new, next) ==
    /\ rotations' = [rotations EXCEPT ![rotJob.rot] = new]
    /\ rotJob' = next
    /\ UNCHANGED <<users, cred, made, live, password, userJob, faults>>
    /\ Deliver
Gone == rotations[rotJob.rot].phase = "Gone"

Failed(rot) == [rot EXCEPT !.phase = "Failed", !.recent = TRUE]
setFailed ==
    IF Gone THEN Requeue ELSE PatchRotation(Failed(rotations[rotJob.rot]), Idle)

\* Reconcile up to setPhase(InProgress), whose answer replaces the copy.
Start(r) ==
    /\ rotJob = Idle /\ r \in rotQueue /\ (Overlap \/ userJob = Idle)
    /\ UNCHANGED <<users, cred, made, live, password, userJob, faults>>
    /\ LET me == cache.rotations[r]
           stored == rotations[r]
           new == IF ~cache.users[me.user].exists THEN Failed(stored)
                  ELSE [stored EXCEPT
                           !.phase = Merge(me.phase, "InProgress", @)]
       IN  IF ~InFlight(me)
           THEN /\ UNCHANGED <<rotations, rotJob>>
                /\ DeliverTo(userQueue, rotQueue \ {r})
           ELSE IF stored.phase = "Gone"
           THEN /\ UNCHANGED <<rotations, rotJob>>
                /\ DeliverTo(userQueue, rotQueue)
           ELSE /\ rotations' = [rotations EXCEPT ![r] = new]
                /\ rotJob' = IF cache.users[me.user].exists
                             THEN RotationJob(r, new) ELSE Idle
                /\ DeliverTo(userQueue, rotQueue \ {r})

-----------------------------------------------------------------------------
(* The client.                                                             *)

\* Peers whose credential is proven, and those among them that rotate.
Peers(u) == {p \in Admins \ {u} :
                cache.users[p].exists /\ cache.users[p].eff # None}

\* Mutant: any rotation in flight counts, the one under way too.
AnyActive(p) == \E r \in 1..Len(cache.rotations) : InFlight(cache.rotations[r])

Active(p) == \E r \in 1..Len(cache.rotations) :
                 cache.rotations[r].user = p /\ InFlight(cache.rotations[r])

\* Mutant: every attempt makes a secret.
ReusesNone == FALSE
Reuses == rotJob.me.new # None

LoginAs(s) ==
    /\ rotJob' = [rotJob EXCEPT
                     !.as = s,
                     !.pc = IF Reuses THEN "change" ELSE "make"]
    /\ UNCHANGED <<objects, password, userJob, faults>>
    /\ Deliver

\* Mutant: an admin's rotation, too, uses the BMC's own credential.
DualForNobody(u) == FALSE
Dual(u) == u \in Admins

\* findPeerWithSecret: the first peer of the list that rotates, or whose
\* secret can be read, decides.
executeDualAccount ==
    /\ At("client") /\ Dual(rotJob.me.user)
    /\ LET peers == Peers(rotJob.me.user)
           usable == {p \in peers : ~Active(p) /\ cache.users[p].eff \in live}
       IN  \/ /\ \E p \in peers : Active(p)
              /\ Requeue
           \/ \E p \in usable : LoginAs(cache.users[p].eff)
           \/ /\ usable = {} /\ \A p \in peers : ~Active(p)
              /\ setFailed

executeSingleAccount ==
    /\ At("client") /\ ~Dual(rotJob.me.user)
    /\ IF rotJob.bmc \in live THEN LoginAs(rotJob.bmc) ELSE Requeue

-----------------------------------------------------------------------------
(* rotateWithClient.                                                       *)

\* Mutant: newSecretRef is not persisted before the password is changed.
CreatedOnly == "change"
Created == "persist"

CreateSecret ==
    /\ At("make")
    /\ IF ~Authenticates(rotJob.as) THEN Requeue
       ELSE /\ \E bad \in IF PickyFirmware THEN BOOLEAN ELSE {FALSE} :
                  Make([account |-> rotJob.me.user, owner |-> rotJob.me.user,
                        label |-> rotJob.rot, bad |-> bad])
            /\ rotJob' = [rotJob EXCEPT !.secret = Len(made) + 1,
                                        !.pc = Created]
            /\ UNCHANGED <<users, cred, rotations, password, userJob, faults>>
            /\ Deliver

PersistSecretRef ==
    /\ At("persist")
    /\ LET new == [rotations[rotJob.rot] EXCEPT !.new = rotJob.secret] IN
       IF Gone THEN Requeue
       ELSE PatchRotation(new, [rotJob EXCEPT !.me = new, !.pc = "change"])

ChangePassword ==
    /\ At("change")
    /\ IF rotJob.secret \notin live \/ ~Authenticates(rotJob.as) THEN Requeue
       ELSE /\ CreateOrUpdateAccount(rotJob.me.user, rotJob.secret)
            /\ Goto("try")
            /\ UNCHANGED <<objects, userJob, faults>>
            /\ Deliver

Accepted(s) == Authenticates(s)

GivesUp(retries) == retries >= MaxRetries

\* bmcConnectionTest; the retry that reaches the limit is counted before the
\* rotation is failed, and a crash between lets it go on past the limit.
TryPassword ==
    /\ At("try")
    /\ LET retries == rotJob.me.retries + 1
           counted == [rotations[rotJob.rot] EXCEPT !.retries = retries]
       IN  IF Accepted(rotJob.secret)
           THEN /\ Goto("spec")
                /\ UNCHANGED <<objects, password, userJob, faults>>
                /\ Deliver
           ELSE IF Gone THEN Requeue
           ELSE IF GivesUp(retries)
           THEN PatchRotation(counted, [rotJob EXCEPT !.me = counted, !.pc = "fail"])
           ELSE /\ rotations' = [rotations EXCEPT ![rotJob.rot] = counted]
                /\ rotJob' = Idle
                /\ UNCHANGED <<users, cred, made, live, password, userJob, faults>>
                /\ DeliverTo(userQueue, rotQueue \cup {rotJob.rot})

GiveUp == At("fail") /\ setFailed

-----------------------------------------------------------------------------
(* promoteCredential, write by write.                                      *)

PromoteUser(new, pc) ==
    IF ~users[rotJob.me.user].exists THEN Requeue
    ELSE /\ users' = [users EXCEPT ![rotJob.me.user] = new]
         /\ rotJob' = [rotJob EXCEPT !.who = new, !.pc = pc]
         /\ UNCHANGED <<cred, rotations, made, live, password, userJob, faults>>
         /\ Deliver

PromoteToSpec ==
    /\ At("spec")
    /\ PromoteUser([users[rotJob.me.user] EXCEPT
                       !.spec = Merge(rotJob.who.spec, rotJob.secret, @)],
                   "status")

Promotes(u) == u \in Admins /\ rotJob.bmc # rotJob.secret

PromoteToStatus ==
    /\ At("status")
    /\ LET u == rotJob.me.user
       IN  PromoteUser([users[u] EXCEPT
                           !.eff = Merge(rotJob.who.eff, rotJob.secret, @),
                           !.due = FALSE],
                       IF Promotes(u) THEN "bmc" ELSE "finish")

PromoteToBMC ==
    /\ At("bmc")
    /\ cred' = rotJob.secret
    /\ Goto("finish")
    /\ UNCHANGED <<users, rotations, made, live, password, userJob, faults>>
    /\ Deliver

Succeed ==
    /\ At("finish")
    /\ IF Gone THEN Requeue
       ELSE PatchRotation([rotations[rotJob.rot] EXCEPT !.phase = "Succeeded"],
                          Idle)

\* Any call of a reconcile fails.
FailRotation ==
    /\ rotJob # Idle /\ faults < MaxFaults
    /\ faults' = faults + 1
    /\ rotJob' = Idle
    /\ UNCHANGED <<objects, password, userJob>>
    /\ DeliverTo(userQueue, rotQueue \cup {rotJob.rot})

RotationStep ==
    \/ executeDualAccount \/ executeSingleAccount
    \/ CreateSecret \/ PersistSecretRef \/ ChangePassword
    \/ TryPassword \/ GiveUp
    \/ PromoteToSpec \/ PromoteToStatus \/ PromoteToBMC \/ Succeed
=============================================================================
