------------------------------ MODULE BMCUser ------------------------------
(***************************************************************************)
(* The BMCUser reconciler: it bootstraps the account of a user, follows    *)
(* the secret its spec names, prunes the secrets it no longer needs and    *)
(* asks for rotations.  One worker; each API write and each call to the    *)
(* BMC is a step, between which the rotation worker runs.                  *)
(***************************************************************************)
EXTENDS CredentialState

\* me and bmc are the copies read from the cache when the reconcile started
\* (every patch replaces me by the object the API server answers with); as is
\* the secret the BMC client logs in with, secret the one about to be referred
\* to, force whether the annotation asks for a rotation.
UserJob(pc, u) ==
    [pc |-> pc, user |-> u, me |-> cache.users[u], bmc |-> cache.bmc,
     as |-> None, secret |-> None, force |-> FALSE]

At(pc) == userJob # Idle /\ userJob.pc = pc
Continue(job) == userJob' = job
Goto(pc) == Continue([userJob EXCEPT !.pc = pc])

Finish ==
    /\ userJob' = Idle
    /\ UNCHANGED <<objects, password, rotJob, faults>>
    /\ Deliver

\* An error, or RequeueAfter: the key returns to the queue.
Requeue ==
    /\ userJob' = Idle
    /\ UNCHANGED <<objects, password, rotJob, faults>>
    /\ DeliverTo(userQueue \cup {userJob.user}, rotQueue)

Start(u) ==
    /\ userJob = Idle /\ u \in userQueue /\ (Overlap \/ rotJob = Idle)
    /\ LET me == cache.users[u] IN
       userJob' = IF me.exists
                  THEN UserJob(IF me.deleting THEN "delete" ELSE "test", u)
                  ELSE Idle
    /\ UNCHANGED <<objects, password, rotJob, faults>>
    /\ DeliverTo(userQueue \ {u}, rotQueue)

\* A patch of the user; one of a user that is gone answers NotFound.
PatchUser(new, next) ==
    /\ users' = [users EXCEPT ![userJob.user] = new]
    /\ Continue([next EXCEPT !.me = new])
    /\ UNCHANGED <<cred, rotations, made, live, password, rotJob, faults>>
    /\ Deliver
Gone == ~users[userJob.user].exists

-----------------------------------------------------------------------------
(* updateEffectiveSecret.                                                  *)

\* Mutant: an effective secret, once set, stays.
AdoptsFirst(me) == Works(me.spec) /\ me.eff = None
Adopts(me) == Works(me.spec) /\ ~Works(me.eff)

updateEffectiveSecret ==
    /\ At("test")
    /\ LET me == userJob.me
           tested == me.spec # None /\ me.id
           missing == \/ me.spec \notin live
                      \/ /\ Works(me.spec) /\ me.eff # None
                         /\ me.eff \notin live
       IN  IF tested /\ missing THEN Requeue
           ELSE /\ Goto(IF tested /\ Adopts(me) THEN "adopt" ELSE "login")
                /\ UNCHANGED <<objects, password, rotJob, faults>>
                /\ Deliver

setEffectiveSecretRef ==
    /\ At("adopt")
    /\ LET me == userJob.me
           u == userJob.user
           sync == u \in Admins /\ userJob.bmc # me.spec
       IN  IF Gone THEN Requeue
           ELSE PatchUser([users[u] EXCEPT !.eff = Merge(me.eff, me.spec, @)],
                          [userJob EXCEPT !.secret = me.spec,
                                          !.pc = IF sync THEN "sync" ELSE "login"])

syncBMCSecretRefToBMC ==
    /\ At("sync")
    /\ cred' = userJob.secret
    /\ Continue([userJob EXCEPT !.bmc = userJob.secret, !.pc = "login"])
    /\ UNCHANGED <<users, rotations, made, live, password, rotJob, faults>>
    /\ Deliver

-----------------------------------------------------------------------------
(* The account.                                                            *)

\* The client, by the bootstrap secret while no credential of the user's own
\* is known, else by the BMC's; then patchUserStatus.
Login ==
    /\ At("login")
    /\ LET me == userJob.me
           u == userJob.user
           as == IF ~me.id /\ me.eff = None THEN Factory ELSE userJob.bmc
           found == password[u] # None
           job(m) == [userJob EXCEPT
                         !.as = as,
                         !.pc = IF m.spec = None THEN "secret"
                                ELSE IF m.id THEN "follow" ELSE "account"]
           new == [users[u] EXCEPT !.id = TRUE]
       IN  IF ~Works(as) \/ (found /\ Gone) THEN Requeue
           ELSE IF found THEN PatchUser(new, job(new))
           ELSE /\ Continue(job(me))
                /\ UNCHANGED <<objects, password, rotJob, faults>>
                /\ Deliver

createBMCSecretForUser ==
    /\ At("secret")
    /\ IF ~Authenticates(userJob.as) THEN Requeue
       ELSE /\ Make([account |-> userJob.user, owner |-> userJob.user,
                  label |-> 0, bad |-> FALSE])
            /\ Continue([userJob EXCEPT !.secret = Len(made) + 1, !.pc = "ref"])
            /\ UNCHANGED <<users, cred, rotations, password, rotJob, faults>>
            /\ Deliver

setBMCUserSecretRef ==
    /\ At("ref")
    /\ IF Gone THEN Requeue
       ELSE PatchUser([users[userJob.user] EXCEPT !.spec = userJob.secret],
                      [userJob EXCEPT
                         !.pc = IF userJob.me.id THEN "follow" ELSE "account"])

CreateAccount ==
    /\ At("account")
    /\ IF userJob.me.spec \notin live \/ ~Authenticates(userJob.as) THEN Requeue
       ELSE /\ CreateOrUpdateAccount(userJob.user, userJob.me.spec)
            /\ Goto("record")
            /\ UNCHANGED <<objects, rotJob, faults>>
            /\ Deliver

\* patchUserStatus after the account was created: id and lastRotation.
RecordAccount ==
    /\ At("record")
    /\ IF Gone \/ ~Authenticates(userJob.as) THEN Requeue
       ELSE PatchUser([users[userJob.user] EXCEPT !.id = TRUE, !.due = FALSE],
                      [userJob EXCEPT !.pc = "follow"])

reconcileSecretRef ==
    /\ At("follow")
    /\ LET me == userJob.me
           apply == me.eff # None /\ me.spec # me.eff
       IN  IF me.spec \notin live \/ (apply /\ ~Authenticates(userJob.as))
           THEN Requeue
           ELSE /\ IF apply THEN CreateOrUpdateAccount(userJob.user, me.spec)
                            ELSE UNCHANGED password
                /\ Goto("prune")
                /\ UNCHANGED <<objects, rotJob, faults>>
                /\ Deliver

-----------------------------------------------------------------------------
(* Secrets, conditions and rotations.                                      *)

ControlledBy(u) == {s \in live : made[s].owner = u}

\* The user's rotations in flight, as now in the cache.
Running(u) ==
    {r \in 1..Len(cache.rotations) :
        cache.rotations[r].user = u /\ InFlight(cache.rotations[r])}

\* Mutant: a secret is safe only once its rotation refers to it.
LabelledByNone(u) == {}
Labelled(u) == {s \in live : made[s].label \in Running(u)}

\* What pruneOldSecrets keeps, by the copies the reconcile has read.
Protected(me, bmc, u) ==
    {me.spec, me.eff, bmc}
        \cup {cache.rotations[r].new : r \in Running(u)} \cup Labelled(u)

pruneOldSecrets ==
    /\ At("prune")
    /\ LET u == userJob.user IN
       live' = live \ (ControlledBy(u) \ Protected(userJob.me, userJob.bmc, u))
    /\ Goto("conditions")
    /\ UNCHANGED <<users, cred, rotations, made, password, rotJob, faults>>
    /\ Deliver

\* PasswordValid and CredentialsBootstrapped carry the generation.
SetConditions ==
    /\ At("conditions")
    /\ LET me == userJob.me IN
       IF Gone THEN Requeue
       ELSE PatchUser([users[userJob.user] EXCEPT
                          !.observed = Merge(me.observed, me.spec, @)],
                      [userJob EXCEPT !.pc = "trigger"])

\* ensureBMCUserRotation takes the annotation away before anything else.
TriggerRotation ==
    /\ At("trigger")
    /\ LET me == userJob.me IN
       IF ~me.due /\ ~me.annotated THEN Finish
       ELSE IF me.annotated /\ Gone THEN Requeue
       ELSE IF me.annotated
            THEN PatchUser([users[userJob.user] EXCEPT !.annotated = FALSE],
                           [userJob EXCEPT !.force = TRUE, !.pc = "create"])
            ELSE /\ Goto("create")
                 /\ UNCHANGED <<objects, password, rotJob, faults>>
                 /\ Deliver

RotatingIn(known, u) ==
    \E r \in 1..Len(known) : known[r].user = u /\ InFlight(known[r])

\* The user's own rotation is in flight, or a peer admin's.
MustDefer(u) ==
    \/ RotatingIn(cache.rotations, u)
    \/ u \in Admins /\ \E p \in Admins \ {u} :
           cache.users[p].exists /\ RotatingIn(cache.rotations, p)

BacksOff(u) ==
    \E r \in 1..Len(cache.rotations) :
        cache.rotations[r].user = u /\ cache.rotations[r].recent

ensureBMCUserRotation ==
    /\ At("create")
    /\ LET u == userJob.user IN
       CASE MustDefer(u) -> Finish
         [] ~MustDefer(u) /\ ~userJob.force /\ BacksOff(u) -> Requeue
         [] OTHER ->
              /\ Len(rotations) < MaxRotations
              /\ rotations' = Append(rotations,
                     [user |-> u, phase |-> "Pending", new |-> None,
                      retries |-> 0, recent |-> FALSE])
              /\ userJob' = Idle
              /\ UNCHANGED <<users, cred, made, live, password, rotJob, faults>>
              /\ Deliver

-----------------------------------------------------------------------------
(* Deletion, by the default policy of the type: an admin's account stays,  *)
(* and the user waits while the BMC refers to a secret of its own.         *)

isLiveCredential(u, bmc) == bmc \in ControlledBy(u)

Retains(u) == u \in Admins

\* The policy, and the client that a removal of the account needs.
DeleteUser ==
    /\ At("delete")
    /\ LET u == userJob.user IN
       IF IF Retains(u) THEN isLiveCredential(u, userJob.bmc) ELSE ~Works(userJob.bmc)
       THEN Requeue
       ELSE /\ Continue([userJob EXCEPT
                           !.as = userJob.bmc,
                           !.pc = CASE Retains(u) -> "finalizer"
                                    [] ~Retains(u) /\ userJob.me.id -> "remove"
                                    [] OTHER -> "find"])
            /\ UNCHANGED <<objects, password, rotJob, faults>>
            /\ Deliver

\* Mutant: an account whose id is not recorded is not looked for.
FindsNone(u) == FALSE
Finds(u) == password[u] # None

FindAccount ==
    /\ At("find")
    /\ IF ~Authenticates(userJob.as) THEN Requeue
       ELSE /\ Goto(IF Finds(userJob.user) THEN "remove" ELSE "finalizer")
            /\ UNCHANGED <<objects, password, rotJob, faults>>
            /\ Deliver

\* One that is gone already is no error.
DeleteAccount ==
    /\ At("remove")
    /\ IF ~Authenticates(userJob.as) THEN Requeue
       ELSE /\ password' = [password EXCEPT ![userJob.user] = None]
            /\ Goto("finalizer")
            /\ UNCHANGED <<objects, rotJob, faults>>
            /\ Deliver

RemoveFinalizer ==
    /\ At("finalizer")
    /\ IF Gone THEN Requeue
       ELSE /\ users' = [users EXCEPT ![userJob.user].exists = FALSE]
            /\ userJob' = Idle
            /\ UNCHANGED <<cred, rotations, made, live, password, rotJob, faults>>
            /\ Deliver

\* Any call of a reconcile fails.
FailUser ==
    /\ userJob # Idle /\ faults < MaxFaults
    /\ faults' = faults + 1
    /\ userJob' = Idle
    /\ UNCHANGED <<objects, password, rotJob>>
    /\ DeliverTo(userQueue \cup {userJob.user}, rotQueue)

UserStep ==
    \/ updateEffectiveSecret \/ setEffectiveSecretRef \/ syncBMCSecretRefToBMC
    \/ Login \/ createBMCSecretForUser \/ setBMCUserSecretRef
    \/ CreateAccount \/ RecordAccount \/ reconcileSecretRef
    \/ pruneOldSecrets \/ SetConditions \/ TriggerRotation
    \/ ensureBMCUserRotation
    \/ DeleteUser \/ FindAccount \/ DeleteAccount \/ RemoveFinalizer
=============================================================================
