-------------------------- MODULE CredentialState --------------------------
(***************************************************************************)
(* The state the BMCUser and the BMCUserRotation controllers share: the    *)
(* API objects they write, the informer caches they read those from, the   *)
(* work queues the caches feed, and the accounts of the one BMC.           *)
(*                                                                         *)
(* BMCSecrets are immutable, so a secret stands for its password: they are *)
(* numbered in the order they are made, the first being the factory's.     *)
(* Rotations are numbered likewise.  A cache that may lag (Lagging) holds  *)
(* an earlier state of its kind until Refresh; the others are current.     *)
(***************************************************************************)
EXTENDS Naturals, Sequences, FiniteSets

CONSTANTS
    Admins,        \* BMCUsers of type OperatorAdmin
    Services,      \* BMCUsers of type ServiceAccount
    None,          \* no reference
    Idle,          \* a worker that has no reconcile under way
    Lagging,       \* the kinds whose cache may trail the API server
    Overlap,       \* do the two controllers run at the same time?
    Bootstrapped,  \* do the users have their accounts at the start?
    Deletable,     \* users a person may delete
    Annotatable,   \* users a person may ask to rotate
    Repointable,   \* users whose spec.bmcSecretRef a person may change
    PickyFirmware, \* may the BMC take a password it then does not accept?
    MaxRetries,    \* MaxConnectionTestRetries
    MaxSecrets,    \* bound: BMCSecrets made
    MaxRotations,  \* bound: BMCUserRotations made
    MaxFaults      \* bound: failed calls and restarts

Users == Admins \cup Services
Factory == 1    \* the factory BMCSecret, and its account: none of the users'

ASSUME CredentialAssumption ==
    /\ IsFiniteSet(Users) /\ Admins \cap Services = {}
    /\ None \notin Nat \cup Users /\ Factory \notin Users
    /\ Lagging \subseteq {"users", "bmc", "rotations"}
    /\ Bootstrapped \in BOOLEAN
    /\ MaxRetries \in Nat \ {0}
    /\ {MaxSecrets, MaxRotations, MaxFaults} \subseteq Nat

VARIABLES
    users,       \* BMCUser objects
    cred,        \* BMC.spec.bmcSecretRef
    rotations,   \* BMCUserRotation objects, in the order they were created
    made,        \* BMCSecrets ever made: owner, rotation label, acceptability
    live,        \* the BMCSecrets that exist
    password,    \* whose password each account of the BMC has, or None
    cache,       \* what the informers hold
    userQueue,   \* keys due in the BMCUser work queue
    rotQueue,    \* keys due in the BMCUserRotation work queue
    userJob,     \* the reconcile under way in the BMCUser worker
    rotJob,      \* the reconcile under way in the BMCUserRotation worker
    faults       \* failures so far

objects == <<users, cred, rotations, made, live>>
vars == <<users, cred, rotations, made, live, password, cache,
          userQueue, rotQueue, userJob, rotJob, faults>>

Secrets == 1..MaxSecrets
Ref == Secrets \cup {None}
Phases == {"Pending", "InProgress", "Succeeded", "Failed"}

User == [exists : BOOLEAN, deleting : BOOLEAN, id : BOOLEAN,
         spec : Ref, eff : Ref,
         observed : Ref,          \* the generation the conditions are of
         due : BOOLEAN,           \* lastRotation + rotationPeriod is past
         annotated : BOOLEAN]     \* operation: rotate-credentials
Rotation == [user : Users, phase : Phases \cup {"Gone"}, new : Ref,
             retries : Nat,
             recent : BOOLEAN]    \* failed within RotationFailureRetryDelay
Accounts == Users \cup {Factory}
Secret == [account : Accounts,              \* the user name it is for
           owner : Users \cup {None},       \* its controller
           label : 0..MaxRotations,         \* bmcuserrotation-name
           bad : BOOLEAN]                   \* a password the BMC rejects

InFlight(rot) == rot.phase \in {"Pending", "InProgress"}

-----------------------------------------------------------------------------
(* The BMC.                                                                *)

\* A call with basic authentication: each call carries the password.
Authenticates(s) == password[made[s].account] = s /\ ~made[s].bad

\* A controller that starts from the reference has to read the secret first.
Works(s) == s # None /\ s \in live /\ Authenticates(s)

CreateOrUpdateAccount(u, s) == password' = [password EXCEPT ![u] = s]

-----------------------------------------------------------------------------
(* API server, caches and queues.                                          *)

\* A merge patch writes a field only where it differs from the copy read.
Merge(copy, new, stored) == IF copy = new THEN stored ELSE new

Make(secret) ==
    /\ Len(made) < MaxSecrets
    /\ made' = Append(made, secret)
    /\ live' = live \cup {Len(made) + 1}

Store == [users |-> users, bmc |-> cred, rotations |-> rotations]

\* For(BMCUser), Owns(BMCUserRotation), Owns(BMCSecret), and the watches on
\* the BMC and on the secrets users refer to.
WokenUsers ==
    LET changed(r) == \/ r > Len(cache.rotations)
                      \/ cache'.rotations[r] # cache.rotations[r]
        moved == (live \ live') \cup (live' \ live)
    IN  {u \in Users :
           \/ cache'.users[u] # cache.users[u]
           \/ cache'.bmc # cache.bmc /\ cache'.users[u].exists
           \/ \E r \in 1..Len(cache'.rotations) :
                  cache'.rotations[r].user = u /\ changed(r)
           \/ \E s \in moved :
                  made'[s].owner = u \/ cache'.users[u].spec = s}

WokenRotations ==
    {r \in 1..Len(cache'.rotations) :
        \/ r > Len(cache.rotations)
        \/ cache'.rotations[r] # cache.rotations[r]}

\* Watch events of this step, on top of what the queues are left with.
DeliverTo(uq, rq) ==
    /\ cache' = [k \in DOMAIN cache |->
                    IF k \in Lagging THEN cache[k] ELSE Store'[k]]
    /\ userQueue' = uq \cup WokenUsers
    /\ rotQueue' = rq \cup WokenRotations

Deliver == DeliverTo(userQueue, rotQueue)

Refresh(k) ==
    /\ k \in Lagging /\ cache[k] # Store[k]
    /\ cache' = [cache EXCEPT ![k] = Store[k]]
    /\ UNCHANGED <<objects, password, userJob, rotJob, faults>>
    /\ userQueue' = userQueue \cup WokenUsers
    /\ rotQueue' = rotQueue \cup WokenRotations
=============================================================================
