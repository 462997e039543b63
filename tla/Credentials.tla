---------------------------- MODULE Credentials ----------------------------
(***************************************************************************)
(* The credentials of one BMC: the BMCUser and the BMCUserRotation         *)
(* controllers over the objects they share, the persons and the clock that *)
(* set them off, failures and restarts, and the garbage collector.         *)
(***************************************************************************)
EXTENDS CredentialState

UserController == INSTANCE BMCUser
RotationController == INSTANCE BMCUserRotation

NewUser == [exists |-> TRUE, deleting |-> FALSE, id |-> FALSE, spec |-> None,
            eff |-> None, observed |-> None, due |-> FALSE, annotated |-> FALSE]

FactorySecret == [account |-> Factory, owner |-> None, label |-> 0, bad |-> FALSE]

\* The user that owns secret s once every account is made: some order of them.
InitBootstrapped ==
    \E own \in [Users -> 2..(Cardinality(Users) + 1)] :
        /\ {own[u] : u \in Users} = 2..(Cardinality(Users) + 1)
        /\ users = [u \in Users |-> [NewUser EXCEPT
                       !.id = TRUE, !.spec = own[u], !.eff = own[u],
                       !.observed = own[u]]]
        /\ made = [s \in 1..(Cardinality(Users) + 1) |->
                      IF s = Factory THEN FactorySecret
                      ELSE LET u == CHOOSE u \in Users : own[u] = s IN
                           [account |-> u, owner |-> u, label |-> 0,
                            bad |-> FALSE]]
        /\ live = DOMAIN made
        /\ password = [a \in Accounts |-> IF a = Factory THEN Factory ELSE own[a]]
        /\ cred \in {own[a] : a \in Admins}

InitFresh ==
    /\ users = [u \in Users |-> NewUser]
    /\ made = <<FactorySecret>>
    /\ live = {Factory}
    /\ password = [a \in Accounts |-> IF a = Factory THEN Factory ELSE None]
    /\ cred = Factory

Init ==
    /\ IF Bootstrapped THEN InitBootstrapped ELSE InitFresh
    /\ rotations = << >>
    /\ cache = Store
    /\ userQueue = Users /\ rotQueue = {}
    /\ userJob = Idle /\ rotJob = Idle
    /\ faults = 0

-----------------------------------------------------------------------------
(* The clock and the persons.                                              *)

\* The rotation period elapses; the cached copy is compared with the same now.
Age(u) ==
    /\ Len(rotations) < MaxRotations
    /\ users[u].exists /\ users[u].id /\ ~users[u].due
    /\ users' = [users EXCEPT ![u].due = TRUE]
    /\ cache' = [cache EXCEPT !.users[u].due = TRUE]
    /\ userQueue' = userQueue \cup {u}
    /\ UNCHANGED <<cred, rotations, made, live, password, rotQueue,
                   userJob, rotJob, faults>>

\* RotationFailureRetryDelay elapses, and the RequeueAfter set for it.
CoolDown(r) ==
    /\ rotations[r].recent
    /\ rotations' = [rotations EXCEPT ![r].recent = FALSE]
    /\ cache' = [cache EXCEPT !.rotations =
                    [i \in DOMAIN @ |-> IF i = r THEN [@[i] EXCEPT !.recent = FALSE]
                                                 ELSE @[i]]]
    /\ UNCHANGED <<users, cred, made, live, password, userQueue, rotQueue,
                   userJob, rotJob, faults>>

ByPerson(u, new) ==
    /\ users[u].exists
    /\ users' = [users EXCEPT ![u] = new]
    /\ UNCHANGED <<cred, rotations, password, userJob, rotJob, faults>>

Annotate(u) ==
    /\ u \in Annotatable /\ Len(rotations) < MaxRotations
    /\ users[u].eff # None /\ ~users[u].annotated
    /\ ByPerson(u, [users[u] EXCEPT !.annotated = TRUE])
    /\ UNCHANGED <<made, live>>
    /\ Deliver

\* A person makes a BMCSecret with a password of their own (bound: one).
Repoint(u) ==
    /\ u \in Repointable /\ users[u].eff # None
    /\ \A s \in DOMAIN made : made[s].owner = None => s = Factory
    /\ Make([account |-> u, owner |-> None, label |-> 0, bad |-> FALSE])
    /\ ByPerson(u, [users[u] EXCEPT !.spec = Len(made) + 1])
    /\ Deliver

RequestDeletion(u) ==
    /\ u \in Deletable /\ ~users[u].deleting
    /\ ByPerson(u, [users[u] EXCEPT !.deleting = TRUE])
    /\ UNCHANGED <<made, live>>
    /\ Deliver

\* What a deleted user controls is deleted after it.
CollectGarbage(u) ==
    LET owned == {s \in live : made[s].owner = u}
        its == {r \in DOMAIN rotations :
                    rotations[r].user = u /\ rotations[r].phase # "Gone"}
    IN  /\ ~users[u].exists /\ owned \cup its # {}
        /\ live' = live \ owned
        /\ rotations' = [r \in DOMAIN rotations |->
                            IF r \in its THEN [rotations[r] EXCEPT !.phase = "Gone"]
                            ELSE rotations[r]]
        /\ UNCHANGED <<users, cred, made, password, userJob, rotJob, faults>>
        /\ Deliver

\* The operator restarts: caches are filled and every object is queued.
Restart ==
    /\ faults < MaxFaults
    /\ userJob # Idle \/ rotJob # Idle
    /\ faults' = faults + 1
    /\ userJob' = Idle /\ rotJob' = Idle
    /\ cache' = Store
    /\ userQueue' = {u \in Users : users[u].exists}
    /\ rotQueue' = DOMAIN rotations
    /\ UNCHANGED <<objects, password>>

-----------------------------------------------------------------------------

Environment ==
    \/ \E u \in Users : \/ Age(u) \/ Annotate(u) \/ Repoint(u)
                        \/ RequestDeletion(u) \/ CollectGarbage(u)
    \/ \E r \in DOMAIN rotations : CoolDown(r)
    \/ \E k \in Lagging : Refresh(k)

Failures ==
    UserController!FailUser \/ RotationController!FailRotation \/ Restart

Next ==
    \/ \E u \in Users : UserController!Start(u)
    \/ UserController!UserStep
    \/ \E r \in rotQueue : RotationController!Start(r)
    \/ RotationController!RotationStep
    \/ Environment
    \/ Failures

Spec == Init /\ [][Next]_vars

\* Workers go on, queues are first in first out, watches deliver, the clock
\* runs and the garbage collector works.  Persons and faults owe nothing.
LiveSpec ==
    /\ Spec
    /\ \A u \in Users : SF_vars(UserController!Start(u))
    /\ WF_vars(UserController!UserStep)
    /\ \A r \in 1..MaxRotations : SF_vars(r \in rotQueue /\ RotationController!Start(r))
    /\ WF_vars(RotationController!RotationStep)
    /\ \A k \in Lagging : WF_vars(Refresh(k))
    /\ \A u \in Users : WF_vars(CollectGarbage(u))
    /\ \A r \in 1..MaxRotations : WF_vars(r \in DOMAIN rotations /\ CoolDown(r))

-----------------------------------------------------------------------------
(* Properties.                                                             *)

TypeOK ==
    /\ users \in [Users -> User]
    /\ cred \in Secrets
    /\ rotations \in Seq(Rotation) /\ Len(rotations) <= MaxRotations
    /\ made \in Seq(Secret) /\ Len(made) <= MaxSecrets
    /\ live \subseteq DOMAIN made
    /\ password \in [Accounts -> Ref]
    /\ cache.users \in [Users -> User] /\ cache.bmc \in Secrets
    /\ cache.rotations \in Seq(Rotation)
    /\ Len(cache.rotations) <= Len(rotations)
    /\ userQueue \subseteq Users /\ rotQueue \subseteq DOMAIN rotations
    /\ faults \in 0..MaxFaults

\* There is always a way in: some OperatorAdmin's effective secret exists and
\* its account has that password.  A rotation takes only one of the two
\* accounts out of reach at a time (DualAccount, with the peer's credential).
AdminReachable == \E a \in Admins : Works(users[a].eff)

\* Nothing locks the operator out: the state is well formed, and there is
\* always a way in.
AdminInv == TypeOK /\ AdminReachable

\* An account's password only ever changes to that of a BMCSecret some object
\* already refers to: the user's spec, or the rotation's newSecretRef, which
\* rotateWithClient persists first "so that a retry can reuse it".
PersistedFirst ==
    [][\A u \in Users :
          LET s == password'[u] IN
          s \notin {password[u], None} =>
              /\ s \in live
              /\ \/ users[u].spec = s
                 \/ \E r \in DOMAIN rotations : rotations[r].new = s]_vars

\* A retry of a rotation never settles on a second credential.
RetryReusesSecret ==
    [][\A r \in DOMAIN rotations :
          rotations[r].new # None => rotations'[r].new = rotations[r].new]_vars

\* While a rotation is in flight every secret it has made is there for it, also
\* before newSecretRef names it: pruneOldSecrets, which may run at any moment,
\* keeps what is labelled with a rotation it finds in flight.
InFlightSecretsKept ==
    \A r \in DOMAIN rotations :
        InFlight(rotations[r]) /\ users[rotations[r].user].exists =>
            {s \in DOMAIN made : made[s].label = r} \subseteq live

\* Every rotation ends, and the credential of the BMC, which every controller
\* logs in with, is never broken for good.
RotationsEnd ==
    /\ \A r \in 1..MaxRotations :
         (r \in DOMAIN rotations /\ InFlight(rotations[r]))
             ~> ~(r \in DOMAIN rotations /\ InFlight(rotations[r]))
    /\ []<>Works(cred)

\* A ServiceAccount that is gone has left no account behind on the BMC, unless a
\* rotation of it, which looks at its user only when it starts, has written it.
DeletedAccountsGone ==
    \A u \in Services :
        ~users[u].exists /\ password[u] # None => made[password[u]].label # 0

\* The effective secret ends up as the one the spec names, and works.
EffectiveFollows ==
    \A u \in Users :
        users[u].exists ~> \/ users[u].eff = users[u].spec /\ Works(users[u].eff)
                           \/ ~users[u].exists

-----------------------------------------------------------------------------
(* What the documentation, a comment or a test says, and TLC refutes under *)
(* the constants that the README names.                                    *)

\* pruneOldSecrets keeps the desired and the effective credential of every user
\* and the live credential of the BMC: they are "always retained".
NothingDangles ==
    /\ cred \in live
    /\ \A u \in Users : users[u].exists =>
           {users[u].spec, users[u].eff} \subseteq live \cup {None}

\* The lookup by name is there "to avoid orphaning the account".
NoOrphans == \A u \in Services : ~users[u].exists => password[u] = None

\* One rotation of a user at a time.
OneRotationPerUser ==
    \A r, t \in DOMAIN rotations :
        /\ rotations[r].user = rotations[t].user
        /\ InFlight(rotations[r]) /\ InFlight(rotations[t])
        => r = t

\* Unless a rotation promotes its secret, only the active admin writes the BMC's
\* reference: a second admin that bootstraps does not take the first one's place.
FirstAdminStays ==
    [][cred' # cred =>
          \/ cred = Factory
          \/ made[cred'].owner = made[cred].owner
          \/ \E r \in DOMAIN rotations : rotations[r].new = cred']_vars

\* A user whose period has elapsed is rotated, or a rotation of it is tried.
DueIsRotated ==
    \A u \in Users :
        (users[u].due /\ Len(rotations) < MaxRotations)
            ~> \/ ~users[u].due \/ ~users[u].exists
               \/ Len(rotations) = MaxRotations

\* A failed rotation is tried again once the delay is over.
FailedIsRetried ==
    \A r \in 1..MaxRotations :
        /\ r \in DOMAIN rotations /\ rotations[r].phase = "Failed"
        /\ users[rotations[r].user].due /\ Len(rotations) < MaxRotations
        ~> \/ \E t \in DOMAIN rotations :
                 t > r /\ rotations[t].user = rotations[r].user
           \/ Len(rotations) = MaxRotations

\* The annotation starts a rotation after it was set.
AnnotationRotates ==
    \A u \in Users :
        (users[u].annotated /\ Len(rotations) < MaxRotations)
            ~> \/ \E r \in DOMAIN rotations : rotations[r].user = u
               \/ Len(rotations) = MaxRotations
=============================================================================
