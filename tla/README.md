# Verification of metal-maintenance-operator

TLA+ models of the operator in `src/`, TLC configurations that check them on
small instances, and TLAPS proofs of what holds for every instance. File
references are relative to `src/`; `ctl/` stands for `internal/controller/`.

## 1. The system

The operator is a set of Kubernetes controllers that act on bare-metal
`Server`s and `BMC`s, which an external operator (metal-operator) discovers,
powers and assigns to tenants by `ServerClaim`s. Everything that interacts does
so through API objects: a controller reads them from a watch cache that may
trail behind, writes them through the API server, and talks to hardware over
Redfish. No controller calls another one.

What makes this hard is the same everywhere, and is what the models are about:

* **Stale reads.** `client.Get` and `List` read the cache. A write is refused
  for a stale copy only if it is an `Update` or a patch with an optimistic lock;
  most writes are plain merge patches.
* **Several writes per reconcile**, with a crash, a restart or a failed call
  possible between any two, and other actors in between.
* **Wakeups.** A reconcile that returns without a requeue runs again only when
  an event is mapped to it. `cmd/main.go` sets no `SyncPeriod`, so the only
  resync is the library's own, hours apart; the models count an object that
  must wait for it as one whose wakeup was missed.
* **Effects no API object remembers:** a BMC password, a power command, an
  upgrade task, a wiped disk.

### Inventory

| component | state it keeps | operations | what makes it correct |
|---|---|---|---|
| **ServerMaintenance** (`ctl/maintenance/servermaintenance_controller.go`) | `status.state` of each object, its finalizer; on the Server: owner annotation, operation annotation, boot configuration; label on the claim | init, defer to a higher one, ask for approval, claim and park, enter, re-park on drift, unpark, clean up | one active maintenance per Server, which owns it; no missed turn; deletion ends; the Server is released |
| **ServerSanitization** (`ctl/maintenance/serversanitization_controller.go`) | `Sanitized` condition, sanitization claims, ignition secrets, cleanup goroutines | mark unknown/False, create secret and claim, own the secret, set True, delete claim, clean up leftovers | no tenant finds a predecessor's data; every released Server is wiped; nothing is left behind |
| **Sanitized endpoint**, **sanitizer image** (`internal/server/sanitized_server.go`, `sanitizer/`) | a label on the claim | wipe, report once, park | the label means wiped |
| **ServerWiring** (`ctl/readiness/serverwiring_controller.go`) | `NetworkReady` condition | compare and publish, remove on deletion | the condition follows the NICs |
| **Condition publishers** (`internal/utils/helper.go:1207`) | completion conditions of a Server | optimistic patch with retry on conflict | no publisher undoes another's condition |
| **BMCUser** (`ctl/baseboard/bmcuser_controller.go`) | spec/effective secret references, account id, conditions, the BMC's secret reference | bootstrap, adopt, promote, prune secrets, trigger a rotation, delete | the BMC's credential works; no secret in use is deleted |
| **BMCUserRotation** (`ctl/baseboard/bmcuserrotation_controller.go`) | phase, new secret, retries | wait for the peer, create and persist a secret, change the password, test, promote | a crash never loses the only password; rotations end |
| **BMCUserSet** (`ctl/baseboard/bmcuserset_controller.go`) | users of a BMC, stage of the factory account | create users, rotate or delete the factory account | the factory account goes only after an admin is proven |
| **BMC reset, power cycle** (`internal/utils/helper.go:518-921`) | stage conditions with times, reset annotation | reset, off, on, retry, give up | bounded tries, one command in flight, no half-finished cycle after a restart |
| **Readiness gates** (`internal/utils/helper.go:1155-1205`) | none: a function of Server conditions | decide whether an update may start | drift never opens a gate |
| **BIOSVersion, BMCVersion** (`ctl/system/biosversion_controller.go`, `ctl/baseboard/bmcversion_controller.go`) | state, upgrade task, conditions, owned ServerMaintenances | ask for maintenance, reset, upgrade, follow the task, power cycle, verify, release | at most one upgrade per maintenance, only under a maintenance, released at the end |
| **BIOSSettings, BMCSettings** (`ctl/system/biossettings_controller.go`, `ctl/baseboard/bmcsettings_controller.go`) | state, per-group state, conditions | order groups, apply, reboot, verify, detect drift | groups in order, each under a maintenance, drift found again |
| **FirmwareUpdate** (`ctl/system/firmwareupdate_controller.go`, `firmware_dell.go`) | state, passes, ids of the vendor's jobs | check against a catalog, apply, follow the jobs, check again, retry, expire | never two passes at once; the Server comes back on its catalog; passes, jobs and retries end |
| **Set controllers** (`internal/utils/childset.go`, five `*set_controller.go`) | one child per selected Server or BMC | create, prune, patch, sum up, pass on annotations, expire | no child disturbed at work; every target in the end as the template says |
| **Settings flow and variables** (`internal/utils/helper.go:923-1153`) | none: pure functions | merge, sort, substitute | drift agrees with what was applied |
| **Console** (`ctl/vendorconsole/`) | imports and their times | import, follow, time out | each system imported once |
| **Telemetry subscriptions** (`internal/telemetry/subscriptions/`) | subscriptions, pending test events | subscribe, test, renew | one live subscription per BMC |
| **Telemetry receivers and sinks**, **webhooks**, **vendor managers**, **discovery, configuration, ignition, main**, **dashboards** | none of their own, or metrics only | decode, admit, call, parse | local |

### How they interact

```
tenant ── ServerClaim ──> metal-operator ── Server.state ──> every controller
                               ^   |
          park / unpark        |   | approve (label on the claim)
ServerMaintenance ─────────────┘   └──> ServerMaintenance
   ^ created and deleted by BIOSVersion, BIOSSettings, BMCVersion,
   |                        BMCSettings, FirmwareUpdate
   |                        ^ created, changed, annotated, deleted by their sets
Server.status.conditions <── Sanitization, Wiring, publishers ──> readiness gates
BMC.spec.bmcSecretRef <── BMCUser, BMCUserRotation ──> every login to a BMC
```

Three objects are written by several actors without a common lock: the owner
annotation of a Server, its list of conditions, and the BMC's secret reference.
They are the subjects of the first three models below. The others are about resources that
work on a Server under the protection of the first, and about the sets that create those.

## 2. Modules

| module | models | lines of code it stands for |
|---|---|---|
| `MaintenanceOrder` | the queue order `shouldRunBefore` as an operator | `servermaintenance_controller.go:244-262` |
| `ServerMaintenance` | the controller over cached objects, with metal-operator and the people | `servermaintenance_controller.go`, `servermaintenance_types.go`, `testutil/simcontrollers/simulator.go` |
| `ParkLock` | abstract specification: the owner annotation is a lock | — |
| `ServerMaintenanceProofs` | the queue order is a strict total order; type correctness, ownership and the refinement, for every instance | — |
| `RestingProofs` | that no maintenance is forgotten: the properties at rest, for every instance | — |
| `ServerConditions` | all writers of `Server.status.conditions`: sanitization with its image, endpoint and goroutine; wiring; a publisher | `serversanitization_controller.go`, `sanitized_server.go`, `sanitizer/`, `serverwiring_controller.go`, `helper.go` |
| `ServerConditionProofs` | types, the wiring's condition and clean disks, for every instance | — |
| `CredentialState` | the shared state of the credential controllers: secrets, passwords, caches, queues | types of both |
| `BMCUser`, `BMCUserRotation` | one controller each, on that state | the two controllers |
| `Credentials` | their composition with people, clock and failures, and all properties | — |
| `CredentialProofs` | a rotation keeps to its secret, for every instance | — |
| `CredentialSafetyProofs` | passwords are referred to first, deleted accounts go, pruning loses nothing, for every instance | — |
| `AdminProofs` | an administrator always gets in, the admins take turns, and the types, for every instance | — |
| `PowerCycle` | the BMC reset and the power cycle before a retry, shared by five controllers, as operators on conditions | `helper.go:576-921` |
| `ServerResource` | what surrounds a resource with a Server of its own: its maintenance, the BMC's reset request, the machine with its upgrade tasks, the Server's conditions | the ServerMaintenance controller's effects; hardware and metal-operator as external code |
| `BIOSVersion` | the BIOSVersion controller, its webhook, people and gates | `biosversion_controller.go`, `biosversion_webhook.go`, `helper.go` |
| `VersionProofs` | types, commands only while parked, upgrades undisturbed, the Server returned ready, an honest completion condition, for every instance | — |
| `MaintainedResource` | what the four resources below share: their maintenances on one or several Servers, the BMC's reset request, completion conditions, gates, the reconcile as a list of calls, failures, people and the webhook | the shared part of the five controllers, `helper.go`, the webhooks |
| `BMCVersion` | the BMCVersion controller over the Servers of one BMC | `bmcversion_controller.go` |
| `BIOSSettings` | the BIOSSettings controller: groups, reboots, drift | `biossettings_controller.go` |
| `BMCSettings` | the BMCSettings controller: groups, ETags, resets, drift | `bmcsettings_controller.go` |
| `Resources` | these three side by side, with the properties that hold of all | — |
| `FirmwareUpdate` | the FirmwareUpdate controller with its Dell and one-time-boot handlers | `firmwareupdate_controller.go`, `firmware_dell.go`, `firmware_otb.go` |
| `ChildSet` | the five set controllers over their children | `childset.go`, `*set_controller.go`, `helper.go:229-450` |
| `ChildSetProofs` | types, and that the set leaves a child at work alone, for every instance | — |
| `MC*` | values for TLC | — |

### How code becomes actions

* **Reconciles are cut at their API writes.** A reconcile runs from its cached
  reads to its first write as one action; `job` records which write comes next
  and what was read before. What happens after a write is a new action, so
  every other actor, a failed call (`CallFails`) or a restart (`Restart`,
  `Crash`) may come in between. One `job` per controller: the controllers run
  with a single worker (`MaxConcurrentReconciles` is not set), and the work
  queue is a set because controller-runtime drops duplicates.
* **Watch streams.** In `ServerMaintenance` and `ServerConditions` an object is
  a sequence of versions: the last is what the API server stores, the first is
  what the cache shows. `Deliver…` drops the first and enqueues what the
  controller's event mapping and predicates enqueue. A write of an identical
  object makes no version and no event. A new version is written only while the
  stream is at most `MaxLag` long: that bounds how far the cache trails.
* **Optimistic locking.** `UpdateAccepted`: an `Update` (and a patch with a
  lock) succeeds only when the cache is current. A merge patch succeeds always,
  and changes only the fields it was computed to change; on the list of
  conditions it replaces the whole list (`Patched`).
* **Credentials.** A `BMCSecret` is immutable, so a secret number stands for
  its password; `password[u]` is what the BMC's account accepts. Logging in is
  `Authenticates`: the operator uses basic authentication (`cmd/main.go:425`),
  so every call logs in afresh, and a password change cuts off a client
  created before it. The job keeps the copy of the object it started from
  (`me`), which a patch refreshes as client-go does. Each of the three caches
  (users, rotations, BMC) is current unless `Lagging` names it; `Refresh`
  brings it to the latest version. A read of a `BMCSecret` does not lag.
* **Time.** `due` (the rotation period is over) and `recent` (a failure is
  within the back-off) are flags the clock sets and clears; no property depends
  on how long anything takes.
* **Plans and effects.** `BIOSVersion`, and the four modules on `MaintainedResource`, write the branches of a reconcile as
  operators `Plan…`, the set of decisions a reconcile may take on what it reads:
  each is the sequence of calls it makes (`job.do`), in the code's order, and
  whether the request comes back by itself. `Reconcile` reads, decides and makes
  the first call; `Continue` makes one further call per step, so other processes,
  failures and crashes come between any two. `job.copy` is the object in memory:
  `After` is what the code sets in it, `Merged` the merge patch that results, the
  fields that differ, on top of whatever is stored by then.
* **Conditions** are reduced to the combinations of status and reason the code
  tells apart (`unset`, `issued`, `true`, …). Their times are not modelled: a timeout that
  has started may have expired at any later call.
* **One resource, several Servers.** `MaintainedResource` keeps a maintenance per
  Server, each created, granted and removed on its own, and a reference to each in
  the spec or the status (`Reference`). `parked` is what the theorems about
  `ServerMaintenance` promise for a granted one.
* **Settings.** A group of settings is a number, its place in the order of
  priorities, and one value. The BIOS takes what is written at its next start; a
  BMC applies it at once, or at its next reset, and what it holds is its ETag.
* **Firmware jobs.** The BMC's jobs are a sequence in the order of their
  creation; a baseline is how many there were. An apply job that completes has
  spawned its component job, which starts while the Server is on.
* **Sets.** A reconcile of a set goes through phases (annotations, create, prune,
  patch, status, retry). Within a phase one call per child is one step, decided
  on what is cached then, and errors are collected to the end of the phase. A
  child is reduced to what its set and its webhook see; `Works` lets its own
  controller act only on a cached copy that is current.
* **The machine** has a power state, firmware, firmware staged for the next
  start, and upgrade tasks. A power command takes effect at once, its
  completion is a step of its own; a task completes, fails, or is deleted with its
  success, whenever it likes.
* **External code.** metal-operator appears as far as these controllers see it:
  it parks and resumes a discovered Server, binds and releases claims. Its steps
  follow the test double `internal/testutil/simcontrollers/simulator.go`, which
  fixes the repository's own expectation of it. The API server's garbage
  collector is an action.

## 3. What the runs check

Twelve configurations. Each answers one question.

| run | question | properties | bounds |
|---|---|---|---|
| `park_core` | Two maintenances race for a Server through stale caches. Is the owner annotation a lock, and does the system settle with the right Server parked? | `TypeOK`, `ActiveOwnsServer`, `OwnershipInv`, `ImplementsParkLock`, `RestingActiveIsParked` | two maintenances (the later one first in the queue, one of each policy), caches two versions behind, one failure, deletion at any time; 163k states |
| `park_rest` | Is a turn ever missed? | `RestingPendingHasReason`, `EnforcedStarts` | as above, deletion only once started; 21k states |
| `park_delete` | Does cleanup end whatever fails? | `DeletionCompletes` | one maintenance, one claim that comes, is approved and goes, one failure; 76k states |
| `cond_calm` | Does a release lead to a wiped Server, and does no tenant meet its predecessor's data, through a crash or failed call? | `TenantFindsCleanDisks`, `ReleasedIsSanitized`, `ClaimsGo` | three claim names, two tenancies, one failure, caches two versions behind; 344k states |
| `cond_wiring` | Do three writers of one list get it right in the end? | `NetworkReadyIsCurrent` | wiring, sanitization and publisher, one failure, caches two behind; 1.1M states |
| `cred_rotate` | Is an administrator ever locked out by a rotation? | `AdminInv`, `PersistedFirst`, `RetryReusesSecret` | two admins, two rotations, controllers interleaved call by call, one failure, firmware that may refuse a password; 1.2M states |
| `cred_heals` | Does a failed rotation leave anything broken for good? | `NothingDangles`, `RotationsEnd` | two rotations, one of them possibly asked for by annotation, one failure, controllers taking turns; 136k states |
| `cred_users` | Do bootstrap, a secret exchanged by a person and the deletion of a ServiceAccount end as the objects say? | `EffectiveFollows`, `DeletedAccountsGone` | two admins and a service account from the factory credential, the cache of the BMC lagging; 215k states |
| `version` | Is a Server's BIOS upgraded, and the Server given back, safely? | `VersionInv`, `CommandsUnderMaintenance`, `UpgradeUndisturbed`, `ReturnedReady`, `UpgradeEnds` | two versions, two failed calls, crashes or failed upgrades, one manual retry, change of version, deletion or change of the gate, one automatic retry, caches one version behind; 657k states |
| `resources` | The same for a BMC's firmware and for settings of both kinds, with the maintenances of all Servers concerned | `ResourceInv`, `DisturbedOnlyParked`, `UpgradeUndisturbed`, `AppliedInOrder`, `ReturnedReady`, `ResourcesEnd` | two Servers (one for a BIOS), two versions, two groups of settings of which one needs a restart, a value the BMC refuses; one failure (two for a BMCVersion), one request, drift or change of the gate, one automatic retry, caches one behind; 322k states |
| `firmware` | Does an update with several passes leave running jobs alone, give the Server back on its catalog, and end? | `TypeOK`, `DisturbedOnlyParked`, `UpdateUndisturbed`, `ReturnedDone`, `UpdateEnds` | two catalogs, a Server of any vendor, two passes, one failed call, check, job or power loss, one request or drift, one automatic retry; 151k states |
| `sets` | Does a set leave children at work alone, and is every target in the end as its user asked? | `TypeOK`, `ChildrenUndisturbed`, `DeletedWhenDone`, `RetriedOnce`, `Converges` | three of the five kinds, one target that comes and goes, two templates, one failed call, child, further pass or crash, one request; 374k states |

**Why the bounds suffice.** A park conflict needs two parties and one stale
version of the Server for each; a third maintenance repeats the role of the
second (the proofs below are for any number). Two versions of lag allow a cache
that shows neither the last write nor the one before; no counterexample below
needs more. One failure is enough for a retry of every step
because the retry starts from the same reads. Three claim names allow a duplicate of a
duplicate. `TenantFindsCleanDisks` also holds with two failures, so that the recovery
itself may fail, with equal timestamps and lost reports (`cond_calm` with `Spec`, that
invariant alone, `Ids = {c1, c2}` and `SYMMETRY Names`, `MaxTenants = 3`, `MaxFaults = 2`,
`SameSecond = TRUE`, `ReportsAreLost = TRUE`; 162k states).
Two rotations let each admin be active once, and the active one be rotated
again after the other. `MaxSecrets` does not bind in the three
runs of `Credentials`: with one more, no state uses it (checked), so no retry is
cut short; nor do `MaxUpgrades = 5` in `version` and `resources` and `MaxJobs = 12` in `firmware`
(the same states with one and two more). `version` also passes with one failure and two
requests (1.8M states). A second Server is what a BMC adds to the shape of a
`BIOSVersion`: one is granted, refused or gone while the other is not. Two groups have a
first and a last; `resources` takes groups that need a restart and groups that do not.
`sets` takes one target, whose label, template, annotation and deletion meet the child at
every step; targets meet only in the collected errors, the counts and the orphans of a
phase. The kinds it leaves to the same module, `BIOSVersionSet` and `BIOSSettingsSet`,
differ from `BMCVersionSet` in which events they drop, and from `BMCSettingsSet` in
passing on ignore annotations, which `FirmwareUpdateSet` does too.
One automatic retry is one that may fail again and one that is the last, and one request
of a person can meet the upgrade at each of its steps.

The write orders of a rotation also hold through stale caches: `cred_rotate` with
`Lagging = {"users", "rotations", "bmc"}`, `Overlap = FALSE` and one rotation checks
`PersistedFirst` in 1.4M states. It asks the
same question as `cred_rotate`, so it is not a run of its own.

**`CHECK_DEADLOCK FALSE`** is set in every run: the system may stop. People owe
nothing, and when every event is delivered and nothing is asked for, nothing
happens. The properties with `AtRest`, and the liveness properties, are what says
that it does not stop too early.

### Fairness

| assumption | in the code |
|---|---|
| a watch delivers what was written (WF on `Deliver…`, `Refresh`) | informers |
| a request that is queued whenever the worker is free is taken (SF on `Reconcile(m)`, `Start(u)`) | the work queue is first in, first out; a failed reconcile is queued again with a finite back-off |
| the same for `FirmwareUpdate`: a queued request is taken and its calls are made (WF on `Controller`); watches deliver (WF on `Delivery`); the ServerMaintenance controller grants and releases, metal-operator resets a BMC it was asked to reset, power changes and jobs come to an end (WF on each of them, since the checks never stop). `BIOSVersion` and `Resources` assume less: as long as any of these can act, one of them does (one WF on all) | a single worker that loops (`RequeueAfter` and errors put the request back); the theorems and runs of `ServerMaintenance`; hardware |
| a reconcile that started goes on (WF/SF on `Continue`, `…Step`) | a worker runs to the end of its reconcile |
| the timers a FirmwareUpdate waits for, its TTL and the one over a job that waits for a Server that is off, expire (WF on `TimerExpires`) | `RequeueAfter`, compared with the time of the last progress at each reconcile |
| a set's reconcile goes on (WF on `Begin`, `Work`), its children's controllers take each step they can (WF on `ChildStep(t)`), and a child that can start again and again starts (SF on `ChildStarts(t)`) | one worker each. The last is strong because a set with a retry annotation puts it back on a Pending child that has just dropped it; a child that finds itself without it, once in a while, starts |
| metal-operator makes its next step | external, and the operator's own tests assume it |
| goroutines of the cleanup, a booted sanitizer, the garbage collector and the clock go on | Go's scheduler, the image's `main`, Kubernetes |

Nothing is assumed of people (approval, deletion, annotations), of tenants, or
that a call ever fails: failures are bounded by `MaxFaults`, that is, they stop.

### Named assumptions of single runs

* `EarlyDelete = FALSE` (`park_rest`): a maintenance is deleted only after it
  was started. Otherwise a turn is missed, see the disagreements.
* `MaxClaims = 0` (`park_core`, `park_rest`): a free Server. `park_delete` has
  the claims.
* `StaysAvailable = TRUE` (`cond_*`): metal-operator keeps the Server
  `Available` while the sanitization claim is bound, which the controller relies
  on (it ignores any other state than Released and Available). The stand-in moves
  the Server to `Reserved`; see the disagreements.
* `BindClaim`: the taint that `--sanitization-tolerations` tolerates keeps a
  tenant's claim off a Server whose condition is `Sanitized=False`.
  `TenantLeaves`: no watch event of a sanitization claim is delayed by a whole
  tenancy. The reclaim policy of a Server is Retain.
* `WipeMayFail = FALSE` (`cond_*`): see the disagreements.
* `WithWiring = FALSE` in the sanitization runs: see the disagreements.
* `Overlap = FALSE` (`cred_heals`): the two credential controllers
  do not reconcile at the same moment. `cred_rotate` and `cred_users` drop this.
* `ReleasedIsSanitized` speaks of a Server whose condition is not still `True`.
* `StaleObject = FALSE` (`version`): a reconcile starts from the latest version
  of its BIOSVersion; the caches of the maintenance and the BMC do lag, and the copy may be
  outdated by the time it is patched.
* `LazyRestart = FALSE`: a Server that was told to restart no longer reports On.
* `FatalStarts = FALSE`: an upgrade the BMC refused with a fatal error does not run.
* `User` without `changeEarly`, `changeRetried`: a person changes the version only
  when the maintenance of the last upgrade is gone, and not after a manual retry.
  For each of these four see the disagreements.
* `Settled` and `DeletionEnds` let an upgrade wait behind another one the machine
  reports (`Deferred`).
* A granted maintenance stays granted until it is deleted; the ServerMaintenance
  controller keeps the Server parked for it (`ServerResource`, on the strength of
  `ActiveOwner` and `RestingActiveIsParked`).
* `ReportsAreLost = FALSE` (`cond_calm`): the one report of a wipe arrives. Two failures,
  or equal timestamps, use up the three claim names, so the run takes one and none.
* `Races` names what the modules on `MaintainedResource` and `ChildSet` leave out of
  a run, each of which refutes a property (see the disagreements):
  `staleObject`, a reconcile starts from an outdated copy of its own object;
  `staleBMC`, or of the BMC, whose reset it has just requested;
  `lateMaintenance`, or before the cache shows a maintenance that the spec refers to;
  `lostGate`, a gate closes before the maintenances are granted;
  `earlyChange`, the spec changes, or somebody undoes the work, before the
  maintenances of the work done are gone; `earlyDelete`, the resource is deleted before
  its maintenances are all granted; `lostRecord`, the patch that records an apply job
  fails; `slowJobs`, the deadline is over while a job runs; `failedUpdate`, a child of
  a FirmwareUpdateSet fails and keeps its maintenance, under which its webhook refuses
  every change; `lostRetry`, a BMCVersionSet is told to ignore first and to retry next.
  `resources` has `earlyDelete` for BMCVersion and BIOSSettings and `lostGate` for
  BIOSSettings, where they refute nothing.
* Somebody changes settings, or firmware, by hand only once the resource is done and its
  maintenances are gone. A person does not change the spec of a BMCSettings back to what
  the BMC holds. A BIOSSettings group's timer expires only while it waits for the
  hardware. Groups share no setting (`SharedURI = FALSE`: nor a resource of the BMC).
* `Home = TRUE`: the FirmwareUpdate lives in the operator's namespace. `Deadline` and
  `TTL` are each off where the other is asked about.
* `Settled` of FirmwareUpdate excludes vendors without a handler, and what its webhook
  refuses for as long as the maintenance lasts (`Rejected`).
* An apply job that completes has spawned its component jobs: `trackComponentJobs` takes
  an empty list for a finished pass.
* `DeletedWhenDone` speaks of a template that was not changed.
* `MaxRequests = 1` in `resources`: with two, `ResourcesEnd` fails for a BMCVersion, by a
  manual retry and a later change of version (see the disagreements); without `retry` in
  `User`, and with `VersionFaults = 1`, it holds with two.
* The caches of `cred_rotate` and `cred_heals` are current, and in `cred_users` all
  but the BMC's.

### Disagreements

What a document, a comment or a test says and the models refute. Most are stated
at the end of their module; they are found by running TLC with the configuration of the nearest run, changed to
the constants given here and to the property alone.

| property | constants | what happens | what is said |
|---|---|---|---|
| `RestingOwnerExists` | `park_core` with `{m1}`, `SamePriority`, `AllEnforced`, `MaxLag = 1`, `MaxFaults = 0` | cleanup (`:394`) compares with the owner in a cached Server; if its own claim is not visible yet, the unpark is skipped, the finalizer goes, and the Server stays parked for an object that is gone | `docs/concepts/servermaintenance.md:32-34` "releases the `Server`" |
| `RestingLabelsClean` | `park_delete` with `MaxFaults = 0`, `Spec` | the label patch (`:448`) is computed from a cached claim and is empty when the label is not visible yet | same lines, "cleans up labels on the `Server` and `ServerClaim`" |
| `RestingPendingHasReason` | `park_core` with `AllEnforced`, `MaxLag = 1`, `MaxFaults = 0` | nothing maps the deletion of a pending maintenance to the one that deferred to it (`:138`) | same file `:35-36` "the next one is processed" |
| `EnforcedStarts`; `RestingPendingHasReason` | `park_rest` with `{m1}`, `AllEnforced`, `MaxClaims = 1`; `park_rest` with `MaxClaims = 1` | a claim the cache does not hold yet is taken for a deleted one (`:161`); its Add event wakes nobody | same file `:28-29` |
| `ParkNeedsApproval` | `park_delete`, `Spec` | the decision that there is no claim and the park are two reads of the Server (`:143`); a claim bound in between is parked without approval | same file `:26-27` "The `Server` also remains unchanged" |
| `NoStateBounce` | `park_core` with `SamePriority`, `AllEnforced`, `EarlyDelete = FALSE` | cleanup unparks whatever is queued behind (`:474`); metal-operator may resume the Server before the next park | test `servermaintenance_controller_test.go:531` "without state bounce" |
| `OlderWinsOnEqualPriority` | `park_core` with `SamePriority`, `EarlyDelete = FALSE` | the Enforced policy goes before age (`:248`) | same file `:18`, `servermaintenance_types.go:42` "older resources are processed first" |
| `ReleasedIsWiped` | `cond_calm` with `Ids = {c1, c2}`, `MaxLag = 1`, `MaxFaults = 0` (below: *calm*) | the watch predicate (`:288`) drops a Server that is already `Sanitized=True`, and nothing resets the condition | test `serversanitization_controller_test.go:25` "should sanitize a server after release" |
| `TenantFindsCleanDisks` | *calm* with `Ids = {c1}`, `WipeMayFail = TRUE` | the endpoint (`sanitized_server.go:36`) labels the claim without reading the result | `serversanitization_controller.go:140` "Server has been sanitized" |
| `TenantFindsCleanDisks` | *calm* with `MaxLag = 2`, `WithWiring = TRUE` | the wiring's patch (`serverwiring_controller.go:191`) removes a `Sanitized=False` its cache does not show | `serversanitization_controller.go:117-118` on the missing condition |
| `TenantFindsCleanDisks` | `cond_calm` with `Spec`, `Ids = {c1, c2}`, `MaxLag = 4`, `MaxTenants = 4`, `MaxFaults = 1` | the patch that removes the claim reference (`:90`) checks no version: on a cache four versions behind it takes the claim of a later tenancy off the Server | `:88` "Sanitized condition set, releasing claim ref" |
| `ReleasedIsSanitized` | *calm* with `StaysAvailable = FALSE`, `MaxTenants = 1` | a Reserved Server is ignored (`:63`) when the label arrives | `simulator.go:391-393` and the test above |
| `ReleasedIsSanitized` | *calm* with `MaxFaults = 1`, `MaxTenants = 1`, `ReportsAreLost = TRUE` | the report is posted once (`sanitizer/cmd/sanitizer/main.go:109`) and may be lost | `main.go:133-136` "has already POSTed its result" |
| `OldestClaimWins` | *calm* with `MaxTenants = 1` | the cleanup deletes the objects with the winner's name (`:268`) | `:172` "oldest one wins" |
| `NoSecretLeaks` | `cond_calm` with `MaxLag = 1`, `MaxTenants = 1`, `Spec` | the secret is created before the claim that is to own it (`:209`); a crash between leaves it | `:100` "deleting any leftover sanitization resources" |
| `PublishedStays` | *calm* with `WithPublisher = TRUE`, `MaxLag = 2`, `MaxTenants = 1` | `reconcileReleased` (`:82`) replaces the list with a stale one | `helper.go:1208-1210` "never silently clobbered" |
| `NothingDangles` | `cred_heals` with `Lagging = {"bmc"}` | after a failed promotion the secret the BMC still refers to is protected only by a BMC the cache may not show yet | `bmcuser_controller.go:858-862` "always retained" |
| `NothingDangles` | `cred_heals` with `Overlap = TRUE`, `MaxSecrets = 4`, `MaxRotations = 1`, no faults | pruning protects the references of one copy and lists the rotations later (`bmcuser_controller.go:868`): a promotion in between escapes both | `:858-862` "always retained" |
| `NothingDangles` | the same with `Deletable = {a}` | `isLiveCredential` (`:764`) compares with the BMC read at the start | `docs/concepts/bmcuserset.md:125-126` "preventing accidental lockout" |
| `RotationsEnd` | `cred_heals` with `Lagging = {"rotations"}`, no faults | the check for the peer's rotation (`:279`) is made on the cache; with both in flight each waits for the other | `:291-292` "to avoid a deadlock" |
| `OneRotationPerUser` | `cred_heals` with `Lagging = {"rotations"}`, `Overlap = TRUE`, no faults | the same list, and a generated name | `:277` "to avoid duplicates" |
| `AnnotationRotates` | `cred_heals` with `Annotatable = {a, b}`, no faults | the annotation is deleted before the checks that may refuse (`:253`) | test `bmcuser_controller_test.go:458` |
| `DueIsRotated` | `cred_heals` with `Overlap = TRUE`, no faults | the deferral has no requeue (`:300`) | `:378-379` "should defer" |
| `FailedIsRetried` | `cred_heals` with `PickyFirmware = TRUE`, `MaxRetries = 1`, no faults | a BMC that took a password it then refuses leaves the active credential invalid, and every retry is behind a login with it (`:147`) | `:304` "Back off before retrying" |
| `DeletedAccountsGone` | `cred_heals` with `Services = {s}`, `Deletable = {s}`, `Overlap = TRUE`, `MaxRotations = 1`, no faults | a rotation under way creates the account again (`bmcuserrotation_controller.go:216`) | `:791` "to avoid orphaning the account" |
| `FirstAdminStays` | `cred_heals` with `Bootstrapped = FALSE`, `MaxRotations = 0`, `MaxSecrets = 3` | every OperatorAdmin's bootstrap writes the BMC's reference (`:528`) | `docs/concepts/bmcuserset.md:55-56` "does NOT overwrite" |
| `CommandsUnderMaintenance` | `version` with `User = {"change", "changeEarly"}` | a version changed right after completion starts the next upgrade under the maintenance of the last one, which the cache still shows granted while it is being deleted (`biosversion_controller.go:353-357`): the upgrade goes to a Server that is no longer parked | `biosversion_controller.go:350-352` "we only need to trust its reported state here" |
| `ReturnedReady` | `version` with `LazyRestart = TRUE` | the reboot counts as done as soon as the Server reports On, whether or not it ever left that state (`:1030`) | `:954-955` "the reboot is confirmed complete" |
| `UpgradeUndisturbed`, `ReturnedReady`, `VersionInv` | `version` with `StaleObject = TRUE` | a reconcile that starts from a copy without its own last status patch repeats the call that went with it | `:949-950`: a power change "must not be re-issued on every reconcile" |
| `UpgradeEnds` (with `Settled` without `Deferred`) | `version` | a crash between the call that starts the upgrade (`:1269`) and the patch that records it: the retry finds firmware pending (its own), defers, and goes on deferring, for nothing installs what is staged. With `ChecksPending = FALSE` a second upgrade is sent instead and `UpgradeUndisturbed` fails | `docs/concepts/biosversion.md`, workflow: polls "until it completes, fails, or times out" |
| `UpgradeEnds` | `version` with `User = {"retry", "change", "changeRetried"}`, `MaxRequests = 2`, `MaxAttempts = 0`, `Gated = FALSE`, `AtOnce = FALSE`, `Cooldown = FALSE` | after a manual retry the drift of a completed object is recorded with `ConditionRetryOfFailedResourceIssued`, which keeps every other condition (`:816-817`): the next upgrade finds itself issued, rebooted and verified, and stays InProgress with the Server parked | `docs/concepts/biosversion.md:29` as above; the log line `:558` "Unknown Conditions found" |
| `UpgradeUndisturbed` | `version` with `FatalStarts = TRUE` | a refused upgrade that runs all the same has no task; the power cycle of its retry cuts its power | `biosversion_controller.go:1280` "Upgrade might still go through on server" says so itself |
| `DisturbedOnlyParked` | `resources`, `Kinds = {"BMCVersion"}`, `VersionRaces = {"lostGate"}` | a gate that closes while the maintenances are being granted has them removed; after a failed call in between, the retry finds them all granted in its cache, asks the gate no more, and has the BMC reset over a Server that is back in service | `bmcversion_controller.go:776-778` "we only need to trust its reported state here" |
| `DisturbedOnlyParked` | `Kinds = {"BIOSSettings"}`, `BIOSRaces = {"earlyChange"}`, `MaxFaults = 0` | settings changed, or undone by somebody, right after Applied are worked on under the maintenance that is being deleted | `biossettings_controller.go:1483-1485`, the same words |
| `DisturbedOnlyParked` | `Kinds = {"BMCSettings"}`, `BMCRaces = {"earlyDelete"}` | a deletion before all maintenances are granted deletes some of them, meets a failed call, and on its retry finds them all granted: it goes on with the settings, and resets the BMC over Servers given back | `bmcsettings_controller.go:1488-1490`, the same words |
| `UpgradeUndisturbed` | `Kinds = {"BMCVersion"}`, `VersionRaces = {"staleBMC"}` | the reset just requested is taken for done, since the cached BMC does not carry the annotation yet: it is carried out under the upgrade that follows | `helper.go:571` "upon confirming the reset has settled" |
| `ResourcesEnd` | `Kinds = {"BMCVersion"}`, `VersionRaces = {"lateMaintenance"}` | a reconcile before the cache holds the maintenance just created drops the reference to it; by the time it is to be written back the maintenances are active, and the webhook refuses the patch, retry after retry, with the Servers parked | `docs/concepts/bmcversion.md:30` polls "until it completes, fails, or times out" |
| `Version!DeletedOnceIdle` | `Kinds = {"BMCVersion"}` | a BMCVersion deleted before its maintenances are granted waits for them to end (`:117-125`); if its upgrade fails for good, nothing ends them: it stays, Failed, with the Servers parked | `docs/concepts/bmcversion.md:33-34` "once the upgrade is no longer in progress" |
| `BIOS!DeletionWaits` | `Kinds = {"BIOSSettings"}` | after a failure between the creation of the maintenance and the patch that refers to it, the deletion does not see it: the object is gone while its maintenance is active, until the garbage collector comes | `docs/concepts/biossettings.md:36-37` "once no maintenance for this object is still in progress" |
| `ReturnedReady` | `Kinds = {"BMCSettings"}`, `Tagged = {1, 2}`, `NoReset = {}`, `User = {}`, `MaxFaults = 0`, `MaxRequests = 0` | with ETags, what was written counts as applied before its reset: the resource is Applied and the Servers are given back with a group still waiting | `bmcsettings_controller.go:1141-1143` "The post-apply reset is required to make the just-applied settings take effect" |
| `TTLDeletes` | `firmware` with `TTL = TRUE`, `Vendors = {"Dell"}`, `MaxFaults = 0`, `User = {}`, `Deadline = FALSE` | while the TTL runs nothing else does, the check included; the deletion then comes under the maintenance that only a check would end, and the webhook refuses it | `docs/concepts/firmwareupdate.md:27-28` "deletes the `FirmwareUpdate` that many seconds after" |
| `RetryGoesOn` | `firmware` with `User = {"retry"}`, `Vendors = {"Dell"}`, `Deadline = FALSE` | a manual retry goes to Pending with the annotation, whose removal the webhook refuses under the active maintenance | `firmwareupdate_controller.go:265` "remove the retry annotation if it's present as we are retrying now" |
| `DeletionEnds` of FirmwareUpdate | `firmware` with `User = {"delete"}`, `Races = {"earlyDelete"}` | a deletion accepted before the maintenance is active meets a webhook that refuses the removal of the finalizer | `docs/concepts/firmwareupdate.md:47-48` "removes its finalizer once the update is no longer `InProgress`" |
| `UpdateEnds` | `firmware` with `Home = FALSE` | the maintenance is created in the object's namespace (`:781`) and looked for in the operator's (`:614`): it is never deleted | `docs/concepts/firmwareupdate.md:45-46` "On success, `status.state` is `Completed`" |
| `Converges` | `sets` with `Kinds = {"BMCVersionSet"}`, `TTL = FALSE`, `User = {"annotate"}`, `Annotations = {"ignore-child"}`, `Races = {"lostRetry"}`, `MaxFaults = 0` | the retry that follows an ignore is not passed on: the child's annotation changes from ignore to none, an event the set drops (`bmcversionset_controller.go:447`) | `helper.go:331` "propagates the retry annotation from parent to owned children" |
| `DeletedAsAsked` | `sets` | the TTL counts from a Completed state that the children reached for the previous template | `docs/concepts/firmwareupdateset.md:44-47` "once that many seconds have elapsed since the last child completed" |
| `Converges` | `sets` with `Races = {"failedUpdate"}` | a FirmwareUpdate that failed keeps its maintenance, under which its webhook refuses the retry, the new template and the deletion that would end it | `docs/concepts/firmwareupdateset.md:24-25` "deleting a `Pending`, `Completed`, or `Failed` child is always safe" |

With `Overlap = FALSE`, `DeletedAccountsGone` also holds with a rotation and one
failure. One more observation is not a property of a supported configuration:
with a single admin, a crash between the two patches of `setEffectiveSecretRef`
(`:529`) leaves the BMC with a password that no longer works, and only a peer's
login repairs it (`RotationsEnd` holds with two admins).

Another is out of the models' reach because they have no clock: giving up on a power cycle sets
its stage conditions to False (`helper.go:745-763`), which they may have been already, and with the
accessor's default options (`cmd/main.go:423`) a transition time moves only with the status, so the next cycle starts with the old
times. `helper.go:743-744` means to start "a fresh cycle instead of inheriting an
already-expired stage timer". This comes from reading alone. In `PowerCycle` any cycle may find its timer expired, so the
properties of `version` hold either way.

Seen while modelling, without a property of their own: a Failed resource keeps its Servers
parked until somebody retries or deletes it; a settings set that is deleted waits for
such a child for good (`HeldBack`). HPE and Lenovo updates error in Pending on every
reconcile, where `docs/concepts/firmwareupdate.md` has them fail at once. A drifted
group of a BIOSSettings is Failed, not applied again, while a later group waits for its
restart. A crash between writing settings to a BMC and recording them leaves a group
waiting (`Stuck`), as an upgrade call whose record was lost leaves its version deferred.
The maintenance of a BMCSettings that was created and not yet recorded, when the object is
deleted, stays until its owner reference is collected. A second retry annotation on a set
is not passed on to a child that still shows the condition of the first.

## 4. What is proved

For every set of maintenances, every priority, policy, age and key, and every
value of the bounds (`BoundsAssumption`, `ValuesAssumption`, `DataAssumption`,
`KeyAssumption`: the bounds are natural numbers, the markers are distinct
values, keys are distinct numbers); for every finite set of targets, every template
and kind (`ChildSetAssumption`, `NoneAssumption`: no child is the marker `None`); for
every finite set of users and every choice of lagging caches (`CredentialAssumption`; the
factory's account is none of the users'); for every set of BIOS versions, what users may do
and every bound (`BIOSVersionAssumption`, `ResourceAssumption`; `AbsenceAssumption` and
`ConditionAssumption`: the marker `None` is no maintenance and no condition). In
`ServerConditions` there is at least one tenancy (`MaxTenants > 0`): the Server starts with one.

| theorem | says |
|---|---|
| `ServerMaintenanceProofs!RunsBeforeIsStrictTotalOrder` | the queue order is irreflexive, transitive and total |
| `…!TypeCorrect` | `Spec => []TypeOK` |
| `…!OwnershipCorrect` | `Spec => []OwnershipInv` |
| `…!ActiveOwner` | `Spec => []ActiveOwnsServer`: one active maintenance at most |
| `…!OwnerKept` | `Spec => OwnerNeverStolen` |
| `…!LockImplemented` | `Spec => ImplementsParkLock`: the controller implements `ParkLock` |
| `RestingProofs!ActiveStaysAwake` | `Spec => []ActiveIsAwake`: an active maintenance whose Server is not Parked is not forgotten |
| `…!RestingActive` | `Spec => []RestingActiveIsParked` |
| `…!RestingPending` | with `EarlyDelete = FALSE` and `MaxClaims = 0`: `Spec => []RestingPendingHasReason` |
| `ServerConditionProofs!TypeCorrect` | `Spec => []TypeOK` |
| `…!NetworkCurrent` | `Spec => []NetworkReadyIsCurrent` |
| `…!CleanDisks` | under `Calm`: `Spec => []TenantFindsCleanDisks` |
| `ChildSetProofs!ChildSetTypes` | `Spec => []TypeOK` |
| `…!SetLeavesWorkAlone` | `Spec => ChildrenUndisturbed`: a set does not disturb a child at work |
| `CredentialProofs!RotationKeepsSecret` | `Spec => RetryReusesSecret`: a rotation keeps to the secret it has persisted |
| `CredentialSafetyProofs!CredentialPersistedFirst` | with `Repointable = {}`, and `Bootstrapped` or a current cache of users: `Spec => PersistedFirst` |
| `…!AccountsGo` | with `MaxRotations = 0`, or `Overlap = FALSE` and a current cache of users: `Spec => []DeletedAccountsGone` |
| `…!NothingLost` | with `Overlap = FALSE` and a current cache of the BMC: `Spec => []NothingDangles` |
| `AdminProofs!AlwaysAWayIn` | under `AdminsLeftAlone`: `Spec => []AdminReachable` |
| `…!AdminsTakeTurns` | under `AdminsLeftAlone`: `Spec => []PeersTakeTurns` |
| `…!CredentialTypes` | with a current cache of rotations, and more secrets than users: `Spec => []TypeOK` |
| `…!AdminsKeepApart` | under `AdminsLeftAlone`, with more secrets than users: `Spec => []AdminInv`, the three together |
| `VersionProofs!VersionTypeOK` | `Spec => []TypeOK` |
| `…!CompletionTold` | under `Orderly`: `Spec => []VersionInv` |
| `…!CommandsParked` | under `Orderly`: `Spec => CommandsUnderMaintenance` |
| `…!ServerReturnedReady` | under `Orderly`: `Spec => ReturnedReady` |
| `…!UpgradesUndisturbed` | under `Orderly`, and nobody deletes or the caches trail by one: `Spec => UpgradeUndisturbed` |

**The argument for the lock.** `ActiveOwnsServer` alone is not inductive: a maintenance enters
because a *cached* Server shows it as the owner, so the proof has to know why an
old version may be trusted. `OwnershipInv` says it of everything in flight:

* `NeverReclaimed` — after a version with an owner there come only versions with
  the same owner or none, as long as the first is still in flight. A claim is an
  `Update`, accepted only when the cache is current, so no other owner enters
  the stream behind an old one;
* `DeletionIsFinal` — of the versions of a maintenance, none is alive after one
  that is being deleted;
* `ReleasedIsDeleted` — a version whose owner is no longer the stored one belongs
  to a maintenance that saw its own deletion;
* `ParkingKeepsOwner`, `EntersAsOwner` — what the reconcile in progress relies on
  between its reads and its next write: only the single worker releases the
  Server, so the owner does not change under it.

Each action has a lemma for typing and one for ownership; the next-state lemmas
put them together, and PTL closes the temporal part. `OwnerKept` and
`LockImplemented` are step properties under the invariant: an action other than
the claim and the unpark leaves the owner alone; the claim needs a current
cache, in which nobody owns the Server; the unpark is reached only in cleanup,
where the maintenance has seen its own deletion.

**The argument for rest.** A property of the states at rest says nothing of the others, so
the invariants say what keeps the system from resting: as long as the Server of an active
maintenance is not Parked (`ActiveIsAwake`), or a pending one waits for no other
(`PendingIsAwake`), its request is queued, or a reconcile of it is asking for the Server, or
a version is in flight whose delivery queues the request (`Unsettled`). Every write makes such
a version; the last version of a Server wakes every maintenance the cache lists, and one it
does not list is itself in flight; a failed call and a restart queue the request. A reconcile
that finds nothing in flight reads what is stored, so it asks for the Server, writes, or
defers for a reason that is stored as well. For the last, `BornStays`, `HeldUntilSeen` and
`CleaningIsDeleted` say what a stale copy of *another* maintenance may still show: it exists,
and if it is being deleted already, it is the owner until the cache shows that. `RestingActive`
needs no hypothesis. `RestingPending` has two, and TLC refutes it without either (see the
disagreements): the deletion of a pending maintenance and the arrival of a ServerClaim wake nobody.

**The argument for clean disks.** `Calm` is what the repository relies on (`StaysAvailable`),
no wiring and no failed wipe, which TLC shows to be needed, and caches at most three versions
behind, which is needed as well (with four see the disagreements). `CleanInv` cuts the life of
a Server into six stages, tenanted, left, asking for sanitization, let go, waiting and clean,
each a property of one version of the Server. The versions in flight go through them in
order (`StagesInOrder`), and a version with the old tenant's reference is as many writes old as
the steps taken since (`LeftLagsBehind`), so that it is gone from a cache that trails by three
before the Server is bound to a tenant again. A clean version means clean disks
(`CleanIsClean`) because the label that makes it so is on the claim that holds the Server
(`LabelIsBound`), the sanitizer labels only after its wipe, on the Server it holds
(`SanitizerHoldsServer`), and from the end of a tenancy to the wipe no version shows a label of
an earlier round (`NoOldLabels`).
`NetworkReadyIsCurrent` is inductive with `TypeOK` as it stands, for every constant: it says
already that the condition is right, or the wiring is queued, or a version of the Server is in
flight.

**The argument for the sets.** The cache a set decides on may be as old as it likes,
so what protects a child is the child's webhook. It refuses only if the child *refers*
to an active maintenance; the property is about every child that is `InProgress` and
has one. The invariant is therefore `TypeOK` and `WorkHasReference`: a child that is
`InProgress` refers to its maintenance, and a FirmwareUpdate that is `Completed` with
the verification open keeps both the reference and the maintenance. Each action has a
lemma for typing and one for the references. Under the invariant, a write of the set's
controller to a child at work is either refused or leaves its spec and deletion alone.

**The argument for the rotations.** That a step leaves `newSecretRef` alone depends on
the copy the worker holds: the copy decides whether a secret is made, and the next
write overwrites the reference. `RotJobInv` says why that is safe: the copy has
the stored reference; there is none up to the step that persists it, and after it the
secret in use is the copy's. It holds although the cache may trail (`Lagging` may contain
`"rotations"`), because the copy is the API server's answer to the reconcile's first
write, and with one worker nobody else writes the reference. A lagging cache may take
`retries` past `MaxRetries`, so `Credentials!TypeOK` does not hold for every constant:
the proof has types of its own (`Rot`), with `Nat` for the retries. (`CredentialTypes` proves
`TypeOK` where that cache is current.)

**The argument for the credentials.** Both controllers read cached copies, call the BMC and
write back merge patches, so most of the proof is about what a worker may still believe.
`CredentialSafetyProofs` first reduces every step of `Next` to an effect on the fields the
properties are about (`UserMoves`, `RotationMoves`, `PersonMoves`, `AgesUser`, `OnlyCaches`;
`EveryStep` shows that there are no others); three invariants follow, one for a theorem.

* `PersistInv`: a copy of a user has the stored spec, or a rotation has promoted its secret
  since (`CopyOf`), and a spec that left the effective secret behind is a rotation's
  (`UserGood`). So the password a reconcile sets from its copy is one that the spec or a
  `newSecretRef` still names. A person who exchanges the spec while the reconcile is under
  way breaks this, and so does a bootstrap decided on a user that is shown without its
  secret: both are hypotheses, and TLC refutes the property without either.
* `LeavingInv` needs no hypothesis: a user that is gone, or on its way out in the cache, is
  so in the store, and only the reconcile that removes it works on it. With
  `AccountsGoInv`, a rotation is of a user that is there, nobody sets the password of a
  user that is gone. A rotation that runs beside the removal, or that starts on a stale
  copy of the user, sets it again (TLC shows both, with one rotation), hence the hypothesis.
* `DangleInv` says whose the referred secrets are (`Owns`: the user's own, or a person's):
  pruning and the garbage collector only take what the user owns, so one user's cannot
  hurt another. It prunes by a copy, so the copy's references have to be the stored ones
  (`Current`). They are, because a login that finds the account reads the user again, one
  that does not find it leads through a write, and `id` is only ever stored with an account. The BMC's
  credential belongs to an admin that is there (`BMCRefers`). A promotion between the
  copy and the pruning, or a BMC that the cache does not show yet, breaks it (see the
  disagreements): the workers take turns and the cached BMC is current. The caches of users and
  rotations may trail, persons may do what they like and any call may fail.

**The argument for the way in.** `AdminReachable` says that some admin's effective secret opens
its account; it is not inductive, because a rotation changes a password before its secret
becomes the effective one, and a worker prunes by a copy that may be old. `AdminsLeftAlone` is
no directed schedule: both workers run at once (`Overlap` may be either), every call may fail,
the operator restarts anywhere, service accounts come and go and the BMC's cache trails.
`WayInv` adds what keeps the door open:

* `OneTurn` — one admin's rotation is in flight at a time (which is `PeersTakeTurns` made
  stronger): `mustDefer` finds the one in flight, in a cache that is current, and asks for no other;
* `AdminTurn` — an admin's password is changed only in its turn, after the worker has read
  a peer's effective secret; the change itself succeeds only if that secret opens the
  peer's account, and from then on the peer gets in (`OtherWorks`), since nobody but its own turn could
  shut it out. The step that moves the effective secret comes after the login that proves the new one;
* `SpecAhead` — between the two writes of a promotion the account already has the
  password of the spec, and the rotation that will write the status is in flight;
* `AdminJob` — what the other worker's copy may hide: while the copy's spec is ahead of its
  status it is the stored one (`AheadCopy`); once the effective secret has moved on behind it,
  a peer gets in and has no turn (`StaleCopy`), so what is pruned by that copy locks out one
  admin at most;
* `AdminsStand`, `RotationsOwn` — whose secret is whose.

`QuietAdminStepKeeps` and `AdminPrunes` handle the users' worker, `PersistsWay`, `ChangesWay`,
`PromotesSpecWay` and `PromotesStatusWay` the four writes of a turn. TLC refutes
`AdminReachable` when a person exchanges an admin's secret, when an admin may be
deleted, and, from start states chosen for it, when the cache of users or of rotations trails
(which breaks `PeersTakeTurns` as well); before the bootstrap there is no effective secret.
For the types, `TypesInv` bounds what the workers are about to write as well: a rotation in flight
has a try left. The room for the secrets is the model's: it counts them up to `MaxSecrets`.

**The argument for the BIOS version.** A reconcile decides on a list of calls from cached copies
and makes them one by one, while the maintenance is granted or given back, tasks end, persons
write, calls fail and the operator restarts. So the invariant has two halves. `WorkInv` relates
what is stored: the object, its maintenance, the Server and the machine.

* `GrantParks`, `GrantStays` — a maintenance the cache shows granted has the Server parked,
  unless a version behind it is on its way out;
* `GivenBack`, `Kept` — when it may be on its way out: never while the object is InProgress or
  Failed, in Pending and Completed only on the firmware that is wanted; and while an upgrade
  is issued or the machine is not at rest, every version in flight is granted and referred to;
* `InOrder` — the conditions form a chain, reset, upgrade issued, applied, restarted, and those
  of a retry's power cycle are set in no state but Failed;
* `MachineInv` — what the machine is at in each state: nothing in Pending and Completed, nothing
  but the recorded task while an upgrade is issued, no task once it is applied, none when
  it is given up; a condition of the power cycle says what it seems to say of the power;
* `Told` — the completion condition.

`JobInv` says what the reconcile in progress may still do (`Doable`): calls that are harmless
now and stay so whatever others do (`Plain`; `PlainStable` is that lemma), with those that
change the state at the end; or, before such a record, one command to the machine that the stored state
entitles it to (`Sends`), or only that record (`Records`). The command is the last call but
one, so nothing the worker does itself takes its entitlement away, and `Calm` lists what others
may do to it. The proof has three parts: each step of the environment keeps both halves (`MachineStep`,
`UserStep`, `GrantedStep`, …); so does each call of a list that may be done (`PerformStep`);
and each plan that a reconcile may decide on, may be done (`PendingPlans`, `InProgressPlans`,
`FailedPlans`, …). The four properties follow: a step that sends a command is the call of a list that
`Sends`, whose Server is parked.

`Orderly` is what the properties need, and TLC refutes one of them without each: a current copy
of the object, a restart that shows, a refusal that is one, a vendor that reports
what is pending, and no change of the version before the last maintenance is gone or after a manual retry (see
the disagreements), and for an object with gates caches that trail by one version. With two,
a gate that closes before the cache shows the grant has the maintenance deleted; a crash
before the state is written back, and a gate that opens again, and the retry finds it granted in its cache
(`version` with `MaxLag = 2`, `MaxFaults = 1` refutes `CommandsUnderMaintenance`). Likewise
`UpgradeUndisturbed` fails without gates when the caches trail by two and a person may delete: `CreateOrPatch`
on a cached maintenance that is still Pending resets a granted one, so the webhook no longer refuses
the deletion under the upgrade (`version` with `Gated = FALSE`, `MaxLag = 2`, `MaxFaults = 1`).
The invariant itself passed TLC before it was proved, with caches one version
behind and gates (1.8M states), and two behind without gates (4.4M).

**Only model-checked:** every liveness property (TLAPS does not prove
properties that need fairness here), and everything about the
modules on `MaintainedResource` (`BMCVersion`, `BIOSSettings`, `BMCSettings`, `FirmwareUpdate`).
They take from the rest of a reconcile with `SelectSeq`, which the
library defines by recursion and states no theorem about: what it returns would have to be
derived first.

## 5. What is not modelled

* ServerMaintenance: events and logging; the locator LED; the boot
  configuration's content (its presence is modelled); `SetPowerState`-like power
  settings, which metal-operator carries out.
* ServerConditions: HTTP, the ignition content, device discovery and the wiping
  itself (one step that may fail), `status.ready` of a ServerWiring (a copy of
  the comparison whose condition is modelled).
* Credentials: an explicit setup credential, the limit of ten kept secrets, an
  explicit deletion policy, the length and alphabet of passwords, user names. A
  finalizer is there from the start. A person exchanges a secret once
  (`Repoint`). `TypeOK` bounds the retries only with a current cache of
  rotations: with a stale one `retryCount` may pass `MaxRetries`.
* BIOSVersion: the ignore annotation, a Server that is deleted, an inline BMC, image
  secrets, the annotations that force the webhook, zero (disabled) timeouts, two
  BIOSVersions of one Server (the webhook refuses the second). Readiness gates
  are one flag that changes at any time. BMCs answer, or a call fails.
* `MaintainedResource` and the four resources on it: the ignore annotation and those
  that force the webhook, a Server or BMC that is deleted, a BMC that is off or does not
  answer (the reconcile polls or ends with an error), two resources of one kind for one
  Server or BMC (the webhook refuses the second). Gates are one flag, as above; what
  they compare is not modelled. Drift of a maintenance, somebody else's deletion of it,
  and a maintenance of somebody else that the spec is made to refer to.
* BIOSSettings and BMCSettings: the names and values of settings. A group is one value;
  the reconcile of a BIOSSettings whose groups share a key, variables, settings that
  cannot be read back, and those written by POST are left out.
* BMCVersion: the signature and transport of the image, image secrets.
* FirmwareUpdate: what `buildRepositoryParameters` refuses, the text of the vendor's
  jobs, conditions nobody reads. HPE and Lenovo are vendors without a check.
* ChildSet: the children's controllers are reduced to the states their set and their
  webhook see; names, counts and the list of targets; two sets that select one Server.
* BMCUserSet and Console: no model yet, see the plan. What they add to the others is
  the stages of the factory account, and imports that time out.
* Telemetry subscriptions: no model yet. Receivers and sinks, vendor clients, discovery,
  configuration, ignition and `main`: parsing, I/O and wiring without a state of their
  own; what the models need of them is stated with the model that needs it.

## 6. Plan

Done: `MaintenanceOrder`, `ServerMaintenance`, `ParkLock` and its proofs;
`RestingProofs`; `ServerConditions` and its proofs; `CredentialState`, `BMCUser`, `BMCUserRotation`, `Credentials`;
`PowerCycle`, `ServerResource`, `BIOSVersion`; `MaintainedResource`, `BMCVersion`,
`BIOSSettings`, `BMCSettings`, `Resources`; `FirmwareUpdate`; `ChildSet` with its proofs;
`CredentialProofs`, `CredentialSafetyProofs`, `AdminProofs`, `VersionProofs`.

To come, in the order of what would hurt most:

1. `ReadinessGates`: `GatesSatisfied` (`helper.go:1155-1205`) over the conditions that
   `ServerConditions` publishes, in place of the flag: a chain of resources, each of
   which waits for the one before.
2. An abstract specification of work under maintenance, at most one upgrade at a time
   and only under the lock of `ParkLock`, implemented by each of the resources.
3. `BMCUserSet` on `CredentialState`: the factory account goes only after an
   administrator has logged in.
4. The settings flow as operators on maps (merge, sort, difference, variables), checked
   against a reference definition, with keys that several groups share.
5. `Subscriptions`, `Console`.

Theorems: `ResourceInv` and `DisturbedOnlyParked` of the resources. They
are for step and state properties; liveness stays with TLC, and so does what a
recursive definition computes. No module declares a RECURSIVE operator.

## 7. Running it

```
tlc -workers 2 -config park_core.cfg MCServerMaintenance.tla
tlapm ServerMaintenanceProofs.tla
tlapm RestingProofs.tla
tlapm ServerConditionProofs.tla
tlapm ChildSetProofs.tla
tlapm CredentialProofs.tla
tlapm CredentialSafetyProofs.tla
tlapm AdminProofs.tla
tlapm VersionProofs.tla
```

`PROJECT.json` lists each run with its module and configuration, the mutation of
the code that each property detects, the source lines of every definition, and
the hazards of the code with the properties that watch them.
