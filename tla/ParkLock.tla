------------------------------ MODULE ParkLock ------------------------------
(***************************************************************************)
(* What the owner annotation of a Server promises: it is a lock with a     *)
(* single claimant.  A maintenance works on the Server (is active) only    *)
(* while it holds the lock, and the lock is given up only by its holder,   *)
(* after it has stopped working.  ServerMaintenance implements this.       *)
(***************************************************************************)
CONSTANTS Maintenances, None

VARIABLES owner, active

lockVars == <<owner, active>>

LockInit == owner = None /\ active = {}

Acquire(m) ==
    /\ owner = None
    /\ owner' = m
    /\ UNCHANGED active

Activate(m) ==
    /\ owner = m
    /\ active' = active \cup {m}
    /\ UNCHANGED owner

Deactivate(m) ==
    /\ active' = active \ {m}
    /\ UNCHANGED owner

Release(m) ==
    /\ owner = m
    /\ m \notin active
    /\ owner' = None
    /\ UNCHANGED active

LockNext ==
    \E m \in Maintenances :
       Acquire(m) \/ Activate(m) \/ Deactivate(m) \/ Release(m)

LockSpec == LockInit /\ [][LockNext]_lockVars
=============================================================================
