----------------------------- MODULE Resources -----------------------------
(***************************************************************************)
(* The three controllers that work on a BMC's Servers the same way, through *)
(* ServerMaintenances, readiness gates, resets and retries: a behaviour is  *)
(* that of one resource of one of the three kinds.  What is promised of all *)
(* of them is stated here once.                                             *)
(***************************************************************************)
EXTENDS MaintainedResource

CONSTANTS
    Kinds,              \* the kinds to look at
    \* of BMCVersion
    Versions, AtOnce, MaxUpgrades,
    InstalledVersion, WantedVersion, VersionRaces, VersionFaults,
    \* of both kinds of settings
    Groups, Values, Installed, Wanted, Invalid, Cooldown,
    \* of BIOSSettings
    BIOSFlows, NoReboot, LazyRestart, BIOSRaces,
    \* of BMCSettings
    BMCFlows, NoReset, Tagged, SharedURI, BMCRaces

VARIABLE kind

Version == INSTANCE BMCVersion
    WITH Installed <- InstalledVersion, Wanted <- WantedVersion,
         Races <- VersionRaces, MaxFaults <- VersionFaults

BIOS == INSTANCE BIOSSettings
    WITH Servers <- {CHOOSE s \in Servers : TRUE}, Flows <- BIOSFlows, Races <- BIOSRaces

BMC == INSTANCE BMCSettings WITH Flows <- BMCFlows, Races <- BMCRaces

ASSUME ResourcesAssumption ==
    /\ Kinds \subseteq {"BMCVersion", "BIOSSettings", "BMCSettings"}
    /\ Version!BMCVersionAssumption
    /\ BIOS!BIOSSettingsAssumption
    /\ BMC!BMCSettingsAssumption

allVars == <<vars, kind>>

IsVersion == kind = "BMCVersion"
IsBIOS == kind = "BIOSSettings"
IsBMC == kind = "BMCSettings"

Init ==
    /\ kind \in Kinds
    /\ \/ IsVersion /\ Version!Init
       \/ IsBIOS /\ BIOS!Init
       \/ IsBMC /\ BMC!Init

Next ==
    /\ \/ IsVersion /\ Version!Next
       \/ IsBIOS /\ BIOS!Next
       \/ IsBMC /\ BMC!Next
    /\ UNCHANGED kind

Spec == Init /\ [][Next]_allVars

Works ==
    /\ \/ IsVersion /\ Version!Controller
       \/ IsBIOS /\ BIOS!Controller
       \/ IsBMC /\ BMC!Controller
    /\ UNCHANGED kind

Delivers ==
    /\ \/ IsVersion /\ Version!Delivery
       \/ IsBIOS /\ BIOS!Delivery
       \/ IsBMC /\ BMC!Delivery
    /\ UNCHANGED kind

OthersWork ==
    /\ \/ IsVersion /\ Version!Others
       \/ IsBIOS /\ BIOS!Others
       \/ IsBMC /\ BMC!Others
    /\ UNCHANGED kind

\* Something is done as long as the worker has a request to take, a watch an
\* event to deliver, or the ServerMaintenance controller, metal-operator or the
\* hardware what it was asked for; which of them, is not assumed.
FairSpec == Spec /\ WF_allVars(Delivers \/ OthersWork \/ Works)

-----------------------------------------------------------------------------
(* Properties *)

\* The state is well formed, and who gates on the completion condition of any
\* Server never sees it True while the BMC runs an upgrade or waits to install
\* one, whatever the controller last knew of its task.
ResourceInv ==
    /\ IsVersion => Version!TypeOK /\ Version!CompletionHonest
    /\ IsBIOS => BIOS!TypeOK
    /\ IsBMC => BMC!TypeOK

\* Hardware is told to upgrade, is written settings, reset or powered down only
\* while every Server it would disturb is parked: a grant the cache shows must
\* still hold for each of them when the command goes out.
DisturbedOnlyParked ==
    [][/\ IsVersion => Version!DisturbedParked
       /\ IsBIOS => BIOS!DisturbedParked
       /\ IsBMC => BMC!DisturbedParked]_allVars

\* No reset of the BMC is carried out, and no further upgrade is started, while
\* it runs an upgrade, whichever attempt or version the upgrade belongs to.
UpgradeUndisturbed == [][IsVersion => Version!UpgradeLeftAlone]_allVars

\* docs/concepts/biossettings.md, bmcsettings.md: groups are applied in order
\* and each is verified before the next.  When settings are written, every
\* group before them is on the hardware as wanted, or written with them, and
\* nothing is left that waits for a restart from before.
AppliedInOrder ==
    [][/\ IsBIOS => BIOS!WrittenInOrder
       /\ IsBMC => BMC!WrittenInOrder]_allVars

\* A Server that goes back to service with settings applied, or given up on by
\* a person's change, runs, and nothing waits for its, or its BMC's, restart.
ReturnedReady ==
    [][/\ IsBIOS => BIOS!GivenBackReady
       /\ IsBMC => BMC!GivenBackReady]_allVars

\* Every piece of work comes to an end that its kind allows: through lost
\* calls, failed tasks, settings refused or lost, drift and retries, none is
\* left under way, and none of the Servers is left parked after a success.
ResourcesEnd ==
    <>[](/\ IsVersion => Version!Settled(Stored(objects))
         /\ IsBIOS => BIOS!Settled(Stored(objects))
         /\ IsBMC => BMC!Settled(Stored(objects)))
=============================================================================
