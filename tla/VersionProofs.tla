---------------------------- MODULE VersionProofs ----------------------------
(***************************************************************************)
(* Proofs about BIOSVersion for every set of versions and every bound:     *)
(* types, commands only under maintenance, no upgrade disturbed, no Server *)
(* returned unready, and the completion condition true to the machine.     *)
(***************************************************************************)
EXTENDS BIOSVersion, TLAPS

-----------------------------------------------------------------------------
(* Watch streams *)

\* A write appends its value, or changes nothing when it is stored already.
LEMMA WriteFacts ==
    ASSUME NEW S, NEW s \in Seq(S), Len(s) > 0, NEW x \in S
    PROVE  /\ Write(s, x) \in Seq(S) /\ Len(Write(s, x)) > 0
           /\ Stored(Write(s, x)) = x
           /\ Cached(Write(s, x)) = Cached(s)
           /\ Len(s) =< Len(Write(s, x)) /\ Len(Write(s, x)) =< Len(s) + 1
           /\ \A i \in 1..Len(s) : Write(s, x)[i] = s[i]
           /\ \A i \in 1..Len(Write(s, x)) :
                 i \in 1..Len(s) \/ (Write(s, x)[i] = x /\ i = Len(s) + 1)
<1>1. CASE x = Stored(s)
  BY <1>1 DEF Write, Stored, Cached
<1>2. CASE x # Stored(s)
  <2>1. Write(s, x) = Append(s, x)
    BY <1>2 DEF Write
  <2> QED
    BY <2>1 DEF Stored, Cached
<1> QED
  BY <1>1, <1>2

\* A delivery drops the head and leaves the stored object.
LEMMA TailFacts ==
    ASSUME NEW S, NEW s \in Seq(S), Len(s) > 1
    PROVE  /\ Tail(s) \in Seq(S) /\ Len(Tail(s)) > 0
           /\ Stored(Tail(s)) = Stored(s)
           /\ Len(Tail(s)) = Len(s) - 1
           /\ \A i \in 1..Len(Tail(s)) :
                 i + 1 \in 1..Len(s) /\ Tail(s)[i] = s[i + 1]
<1>1. /\ Len(s) \in Nat
      /\ Tail(s) \in Seq(S)
      /\ Len(Tail(s)) = Len(s) - 1
  OBVIOUS
<1>2. \A i \in 1..Len(Tail(s)) : Tail(s)[i] = s[i + 1]
  OBVIOUS
<1>3. \A i \in 1..Len(Tail(s)) : i + 1 \in 1..Len(s)
  BY <1>1
<1>4. Len(Tail(s)) > 0
  BY <1>1
<1>5. Tail(s)[Len(s) - 1] = s[Len(s)]
  <2>1. Len(s) - 1 \in 1..Len(Tail(s))
    BY <1>1
  <2>2. Len(s) - 1 + 1 = Len(s)
    BY <1>1
  <2> QED
    BY <1>2, <2>1, <2>2
<1>6. Stored(Tail(s)) = Stored(s)
  BY <1>1, <1>5 DEF Stored
<1> QED
  BY <1>1, <1>2, <1>3, <1>4, <1>6

\* The cached and the stored object are elements of their stream.
LEMMA EndFacts ==
    ASSUME NEW S, NEW s \in Seq(S), Len(s) > 0
    PROVE  /\ Cached(s) \in S /\ Stored(s) \in S
           /\ Len(s) \in Nat /\ Len(s) >= 1
           /\ 1 \in 1..Len(s) /\ Len(s) \in 1..Len(s)
           /\ Cached(s) = s[1] /\ Stored(s) = s[Len(s)]
  BY DEF Stored, Cached

-----------------------------------------------------------------------------
(* Types *)

Fields == {"phase", "finalizer", "retry", "version", "ref", "state", "task",
           "attempts", "current", "conds"}

\* What an object is made of.
LEMMA ObjectFacts ==
    ASSUME NEW o \in BIOSVersionObject
    PROVE  /\ DOMAIN o = Fields
           /\ o.phase \in {"live", "deleting", "gone"} /\ o.finalizer \in BOOLEAN
           /\ o.retry \in BOOLEAN /\ o.version \in Versions /\ o.ref \in BOOLEAN
           /\ o.state \in State /\ o.task \in 0..MaxUpgrades
           /\ o.attempts \in 0..Exhausted /\ o.current \in BOOLEAN
           /\ o.conds \in [ConditionType -> ConditionValue]
  BY DEF BIOSVersionObject, Fields

\* A function of the fields is an object when its fields have their types.
LEMMA ObjectIntro ==
    ASSUME NEW g, g = [f \in Fields |-> g[f]],
           g.phase \in {"live", "deleting", "gone"}, g.finalizer \in BOOLEAN,
           g.retry \in BOOLEAN, g.version \in Versions, g.ref \in BOOLEAN,
           g.state \in State, g.task \in 0..MaxUpgrades,
           g.attempts \in 0..Exhausted, g.current \in BOOLEAN,
           g.conds \in [ConditionType -> ConditionValue]
    PROVE  g \in BIOSVersionObject
<1>1. g = [phase |-> g.phase, finalizer |-> g.finalizer, retry |-> g.retry,
           version |-> g.version, ref |-> g.ref, state |-> g.state, task |-> g.task,
           attempts |-> g.attempts, current |-> g.current, conds |-> g.conds]
  BY DEF Fields
<1> QED
  BY <1>1 DEF BIOSVersionObject

\* The effects a reconcile may have.
Status ==
    [op : {"status"}, state : State \cup {"same"}, task : {"keep", "clear", "new"},
     type : ConditionType, value : ConditionValue]
    \cup [op : {"status"}, state : State, task : {"clear"}, type : {None}, value : {None}]
Patches ==
    [ref : BOOLEAN] \cup [retry : {FALSE}] \cup [finalizer : BOOLEAN]
    \cup [attempts : 0..Exhausted] \cup [attempts : 0..Exhausted, current : {TRUE}]
    \cup [state : {"Pending"}, attempts : 0..Exhausted, current : {TRUE},
          conds : [ConditionType -> ConditionValue]]
Effect ==
    Status \cup [op : {"patch"}, fields : Patches]
    \cup [op : {"completion"}, status : CompletionStatus]
    \cup [op : {"resetBMC", "createMaintenance", "deleteMaintenance"}]
    \cup [op : {"command"}, command : {"Reset", "PowerOn", "PowerOff", "ForcePowerOff"}]
    \cup [op : {"upgrade"}, version : Versions]
Job == [do : Seq(Effect), again : BOOLEAN, copy : BIOSVersionObject]

ObjectsOK ==
    /\ objects \in Seq(BIOSVersionObject) /\ Len(objects) > 0
    /\ \A i \in 1..Len(objects) : objects[i].task =< Len(machine.tasks)
JobOK ==
    job # Idle => job \in Job /\ job.do # <<>> /\ job.copy.task =< Len(machine.tasks)
VTypes ==
    /\ EnvironmentOK /\ ObjectsOK /\ JobOK
    /\ Len(machine.tasks) =< MaxUpgrades
    /\ requests \in Nat

\* What a merge patch may carry, field by field.
LEMMA PatchesFacts ==
    ASSUME NEW p \in Patches
    PROVE  /\ "phase" \notin DOMAIN p /\ "version" \notin DOMAIN p /\ "task" \notin DOMAIN p
           /\ "ref" \in DOMAIN p => p.ref \in BOOLEAN
           /\ "retry" \in DOMAIN p => p.retry = FALSE
           /\ "finalizer" \in DOMAIN p => p.finalizer \in BOOLEAN
           /\ "attempts" \in DOMAIN p => p.attempts \in 0..Exhausted
           /\ "current" \in DOMAIN p => p.current = TRUE
           /\ "state" \in DOMAIN p => p.state = "Pending"
           /\ "conds" \in DOMAIN p => p.conds \in [ConditionType -> ConditionValue]
  BY DEF Patches

\* What is known of an effect by its kind.
LEMMA EffectFacts ==
    ASSUME NEW e \in Effect
    PROVE  /\ e.op \in {"status", "patch", "completion", "resetBMC", "createMaintenance",
                        "deleteMaintenance", "command", "upgrade"}
           /\ e.op = "status" =>
                /\ e.state \in State \cup {"same"} /\ e.task \in {"keep", "clear", "new"}
                /\ \/ e.type \in ConditionType /\ e.value \in ConditionValue
                   \/ e.type = None /\ e.task = "clear" /\ e.state \in State
           /\ e.op = "patch" => e.fields \in Patches
           /\ e.op = "completion" => e.status \in CompletionStatus
           /\ e.op = "command" => e.command \in {"Reset", "PowerOn", "PowerOff", "ForcePowerOff"}
           /\ e.op = "upgrade" => e.version \in Versions
  BY DEF Effect, Status

\* The effects the plans are made of.
LEMMA StatusTypes ==
    ASSUME NEW state \in State \cup {"same"}, NEW task \in {"keep", "clear", "new"},
           NEW type \in ConditionType, NEW value \in ConditionValue
    PROVE  UpdateStatus(state, task, type, value) \in Effect
  BY DEF UpdateStatus, Effect, Status
\* PersistPowerCycleCondition's write is one of the model's writes.
LEMMA PersistTypes ==
    ASSUME NEW type \in ConditionType, NEW value \in ConditionValue
    PROVE  Persist(type, value) \in Effect
  BY DEF Persist, Effect, Status
\* So is a change of state that clears the task and the conditions.
LEMMA ClearTypes ==
    ASSUME NEW state \in State
    PROVE  ClearStatus(state) \in Effect
  BY DEF ClearStatus, UpdateStatus, Effect, Status
\* So are the patches of the reference, the retry annotation and the finalizer.
LEMMA PatchTypes ==
    /\ Ref \in Effect /\ Unref \in Effect
    /\ Patch([retry |-> FALSE]) \in Effect
    /\ Patch([finalizer |-> TRUE]) \in Effect /\ Patch([finalizer |-> FALSE]) \in Effect
    /\ \A n \in 0..Exhausted :
          Patch([attempts |-> n]) \in Effect /\ Patch([attempts |-> n, current |-> TRUE]) \in Effect
<1>1. /\ [ref |-> TRUE] \in Patches /\ [ref |-> FALSE] \in Patches
      /\ [retry |-> FALSE] \in Patches
      /\ [finalizer |-> TRUE] \in Patches /\ [finalizer |-> FALSE] \in Patches
  BY DEF Patches
<1>2. \A n \in 0..Exhausted :
        [attempts |-> n] \in Patches /\ [attempts |-> n, current |-> TRUE] \in Patches
  BY DEF Patches
<1>3. \A p \in Patches : Patch(p) \in Effect
  BY DEF Patch, Effect
<1> QED
  BY <1>1, <1>2, <1>3 DEF Ref, Unref
\* And the patch that starts an attempt anew.
LEMMA RetryTypes ==
    ASSUME NEW n \in 0..Exhausted, NEW value \in ConditionValue
    PROVE  RetryPatch(n, value) \in Effect
<1>1. [NoConditions EXCEPT !["RetryOfFailedResourceIssued"] = value]
        \in [ConditionType -> ConditionValue]
  BY DEF NoConditions, ConditionType, ConditionValue, StageValue
<1>2. [state |-> "Pending", attempts |-> n, current |-> TRUE,
       conds |-> [NoConditions EXCEPT !["RetryOfFailedResourceIssued"] = value]] \in Patches
  BY <1>1 DEF Patches
<1> QED
  BY <1>2 DEF RetryPatch, Patch, Effect
\* The calls to Redfish and to the API server are among them too.
LEMMA CallTypes ==
    /\ \A c \in {"Reset", "PowerOn", "PowerOff", "ForcePowerOff"} : Command(c) \in Effect
    /\ \A s \in CompletionStatus : PatchCompletion(s) \in Effect
    /\ [op |-> "resetBMC"] \in Effect /\ [op |-> "createMaintenance"] \in Effect
    /\ [op |-> "deleteMaintenance"] \in Effect
    /\ \A v \in Versions : [op |-> "upgrade", version |-> v] \in Effect
  BY DEF Command, PatchCompletion, Effect

\* Sequences of effects.
LEMMA SeqTypes ==
    /\ <<>> \in Seq(Effect)
    /\ \A a \in Effect : <<a>> \in Seq(Effect)
    /\ \A a, b \in Effect : <<a, b>> \in Seq(Effect)
    /\ \A s, t \in Seq(Effect) : s \o t \in Seq(Effect)
  OBVIOUS
\* A natural number other than zero is one or more.
LEMMA Positive ==
    ASSUME NEW n \in Nat, n # 0
    PROVE  n > 0 /\ (n = 1 \/ n > 1)
  OBVIOUS
\* A sequence that is not empty has one element or more.
LEMMA NonEmpty ==
    ASSUME NEW S, NEW s \in Seq(S), s # <<>>
    PROVE  Len(s) > 0 /\ (Len(s) = 1 \/ Len(s) > 1)
<1>1. Len(s) \in Nat /\ DOMAIN s = 1..Len(s) /\ s \in [1..Len(s) -> S]
  OBVIOUS
<1>2. Len(s) = 0 => s = <<>>
  BY <1>1
<1>3. Len(s) # 0 /\ Len(s) \in Nat
  BY <1>2
<1> QED
  BY <1>3, Positive
\* The tail of a longer sequence is not empty.
LEMMA TailNonEmpty ==
    ASSUME NEW S, NEW s \in Seq(S), Len(s) > 1
    PROVE  Tail(s) # <<>> /\ Tail(s) \in Seq(S) /\ Len(Tail(s)) = Len(s) - 1
<1>1. /\ Len(s) \in Nat
      /\ Tail(s) \in Seq(S)
      /\ Len(Tail(s)) = Len(s) - 1
  OBVIOUS
<1>2. \A n \in Nat : n > 1 => n - 1 # 0
  OBVIOUS
<1>3. Len(s) - 1 # 0
  BY <1>1, <1>2
<1>4. Len(<<>>) = 0
  OBVIOUS
<1> QED
  BY <1>1, <1>3, <1>4

-----------------------------------------------------------------------------
(* What the plans look like *)

Resets == [op |-> "resetBMC"]
Creates == [op |-> "createMaintenance"]
Deletes == [op |-> "deleteMaintenance"]
Upgrades(version) == [op |-> "upgrade", version |-> version]
Marks(type) == UpdateStatus("same", "keep", type, "true")
Finds(value) == UpdateStatus("same", "keep", "VersionUpgradeCompleted", value)
RecordUpgrade == UpdateStatus("same", "new", "VersionUpgradeIssued", "true")
RecordReboot == Marks("UpgradeRebootIssued")
RecordFailure ==
    UpdateStatus("Failed", "keep", "VersionUpgradeCompleted", "failed")
RecordTimeout ==
    UpdateStatus("Failed", "keep", "UpgradeRebootTimedOut", "true")
RecordSuccess ==
    UpdateStatus("Completed", "keep", "VersionUpgradeVerification", "true")

\* What HandleBMCReset may come to.
LEMMA ResetShapes ==
    ASSUME NEW value, NEW type, NEW skip \in BOOLEAN, NEW recent \in BOOLEAN,
           NEW pending \in BOOLEAN,
           NEW r \in HandleBMCReset(value, type, skip, recent, pending)
    PROVE  \/ r = Ready /\ value = "true"
           \/ r = Wait
           \/ r = Do(<<Persist(type, "true")>>) /\ value # "true"
           \/ r = Do(<<Resets, Persist(type, "issued")>>) /\ value # "true"
           \/ r = Outcome(TRUE, <<Persist(type, "true")>>) /\ value # "true" /\ ~skip
  BY DEF HandleBMCReset, Resets

\* What HandleServerPowerCycle may come to.
LEMMA CycleShapes ==
    ASSUME NEW conds, NEW power, NEW giveUp,
           NEW r \in HandleServerPowerCycle(conds, power, giveUp)
    PROVE  \/ r = Ready /\ conds["ServerReset"] = "true"
           \/ /\ conds["ServerReset"] # "true" /\ conds["PowerOffIssued"] # "true"
              /\ \/ r = Wait
                 \/ r = Do(<<Persist("PowerOffIssued", "true")>>) /\ power = "Off"
                 \/ r = Do(<<Command("PowerOff"), Persist("PowerOffIssued", "issued")>>)
                 \/ r = Do(<<Command("ForcePowerOff"), Persist("ForcePowerOffIssued", "true")>>)
                 \/ r = Do(GiveUpIfStuck(giveUp))
           \/ /\ conds["ServerReset"] # "true" /\ conds["PowerOffIssued"] = "true"
              /\ \/ r = Wait
                 \/ r = Do(<<Command("PowerOn"), Persist("PowerOnIssued", "issued")>>)
                 \/ /\ r = Do(<<Persist("PowerOnIssued", "true"), Persist("ServerReset", "true")>>)
                    /\ power = "On"
                 \/ r = Do(GiveUpIfStuck(giveUp))
<1>1. CASE conds["ServerReset"] = "true"
  BY <1>1 DEF HandleServerPowerCycle
<1>2. CASE conds["ServerReset"] # "true" /\ conds["PowerOffIssued"] # "true"
  <2>1. r \in HandleServerPowerOffStage(conds, power, giveUp)
    BY <1>2 DEF HandleServerPowerCycle
  <2> QED
    BY <1>2, <2>1 DEF HandleServerPowerOffStage
<1>3. CASE conds["ServerReset"] # "true" /\ conds["PowerOffIssued"] = "true"
  <2>1. r \in HandleServerPowerOnStage(conds, power, giveUp)
    BY <1>3 DEF HandleServerPowerCycle
  <2> QED
    BY <1>3, <2>1 DEF HandleServerPowerOnStage
<1> QED
  BY <1>1, <1>2, <1>3

\* MarkReadinessGatesSatisfied writes one condition or nothing.
LEMMA MarkShapes ==
    ASSUME NEW o
    PROVE  MarkReadinessGatesSatisfied(o) \in {<<>>, <<Marks("ReadinessGatesSatisfied")>>}
  BY DEF MarkReadinessGatesSatisfied, Marks

\* Cleaning up deletes the maintenance it sees and drops the reference.
LEMMA RefsShapes ==
    ASSUME NEW o
    PROVE  \/ CleanupServerMaintenanceReferences(o) \in {<<>>, <<Unref>>}
           \/ /\ CleanupServerMaintenanceReferences(o) = <<Deletes, Unref>>
              /\ Cached(maintenances) # None
  BY DEF CleanupServerMaintenanceReferences, Deletes

\* Requesting a maintenance creates it, forgets one that is gone or marks it.
LEMMA RequestShapes ==
    ASSUME NEW o, o.ref \in BOOLEAN
    PROVE  \/ RequestServerMaintenance(o) = <<Creates, Ref>>
           \/ RequestServerMaintenance(o) = <<Unref>> /\ Cached(maintenances) = None
           \/ /\ RequestServerMaintenance(o) \in {<<>>, <<Marks("ServerMaintenanceCreated")>>}
              /\ o.ref /\ Cached(maintenances) # None
  BY DEF RequestServerMaintenance, Marks, Creates

\* The parts of a plan.
IsPlan(p) == p.again \in BOOLEAN /\ DOMAIN p = {"do", "again"}
\* A plan does what it is made of.
LEMMA PlanFacts ==
    /\ \A do : Plan(Do(do), TRUE).do = do /\ IsPlan(Plan(Do(do), TRUE))
    /\ \A do : Plan(Do(do), FALSE).do = do /\ IsPlan(Plan(Do(do), FALSE))
    /\ Poll.do = <<>> /\ IsPlan(Poll) /\ Rest.do = <<>> /\ IsPlan(Rest)
  BY DEF Plan, Poll, Rest, Wait, Do, Outcome, IsPlan

\* The upgrade, step by step.
LEMMA UpgradeShapes ==
    ASSUME NEW o, NEW p \in Upgrade(o)
    PROVE  /\ IsPlan(p)
           /\ \/ p.do = <<>>
              \/ /\ p.do = <<Command("PowerOn"), Marks("UpgradeServerPowerOnIssued")>>
                 /\ PowerState # "On"
              \/ /\ p.do = <<Upgrades(o.version), RecordUpgrade>>
                 /\ PowerState = "On" /\ ~(ChecksPending /\ UpgradePending)
<1>1. \/ p = Poll
      \/ /\ p = Plan(Do(<<Command("PowerOn"), Marks("UpgradeServerPowerOnIssued")>>), FALSE)
         /\ PowerState # "On"
      \/ /\ p = Plan(Do(<<Upgrades(o.version), RecordUpgrade>>), FALSE)
         /\ PowerState = "On" /\ ~(ChecksPending /\ UpgradePending)
  BY DEF Upgrade, Marks, Upgrades, RecordUpgrade
<1> QED
  BY <1>1, PlanFacts, Zenon

\* Polling the task: nothing, what it finds, or the failure of the upgrade.
LEMMA CheckShapes ==
    ASSUME NEW o, NEW p \in CheckUpgradeStatus(o),
           o.task = 0 \/ machine.tasks[o.task].state \in TaskState
    PROVE  /\ IsPlan(p)
           /\ \/ p.do = <<>> \/ p.do = <<Finds("false")>>
              \/ /\ p.do = <<Finds("true")>> \/ p.do = <<RecordFailure>>
                 /\ o.task = 0 \/ machine.tasks[o.task].state # "running"
<1>1. \/ p = Poll \/ p = Plan(Do(<<Finds("false")>>), TRUE)
      \/ /\ p \in {Plan(Do(<<Finds("true")>>), FALSE), Plan(Do(<<RecordFailure>>), FALSE)}
         /\ o.task = 0 \/ machine.tasks[o.task].state # "running"
  <2> DEFINE state == IF o.task = 0 THEN "gone" ELSE machine.tasks[o.task].state
  <2>1. CASE state = "running"
    BY <2>1, Zenon DEF CheckUpgradeStatus, Finds
  <2>2. CASE state # "running"
    <3>1. o.task = 0 \/ machine.tasks[o.task].state # "running"
      BY <2>2
    <3>2. \/ p = Poll
          \/ p \in {Plan(Do(<<Finds("true")>>), FALSE), Plan(Do(<<RecordFailure>>), FALSE)}
      <4> HIDE DEF state
      <4>1. CASE state = "completed"
        BY <4>1, Zenon DEF CheckUpgradeStatus, Finds, state
      <4>2. CASE state = "failed"
        BY <4>2, Zenon DEF CheckUpgradeStatus, RecordFailure, state
      <4>3. CASE state = "gone"
        BY <4>3 DEF CheckUpgradeStatus, Finds, state
      <4>4. state \in TaskState
        BY DEF state, TaskState
      <4> QED
        BY <2>2, <4>1, <4>2, <4>3, <4>4 DEF TaskState
    <3> QED
      BY <3>1, <3>2
  <2> QED
    BY <2>1, <2>2
<1> QED
  BY <1>1, PlanFacts, Zenon

\* Rebooting: the command and its record, or one more observation.
LEMMA RebootShapes ==
    ASSUME NEW o, NEW p \in RebootServer(o)
    PROVE  /\ IsPlan(p)
           /\ \/ p.do = <<>>
              \/ /\ o.conds["UpgradeRebootIssued"] # "true"
                 /\ \/ p.do = <<Command("Reset"), RecordReboot>> /\ PowerState = "On"
                    \/ p.do = <<Command("PowerOn"), RecordReboot>> /\ PowerState = "Off"
              \/ /\ o.conds["UpgradeRebootIssued"] = "true"
                 /\ \/ p.do = <<RecordTimeout>>
                    \/ p.do = <<Marks("UpgradeRebootObservedOff")>>
                    \/ p.do = <<Marks("UpgradePowerOn")>> /\ PowerState = "On"
<1>1. CASE o.conds["UpgradeRebootIssued"] # "true"
  <2>1. \/ p = Poll
        \/ p = Plan(Do(<<Command("Reset"), RecordReboot>>), TRUE) /\ PowerState = "On"
        \/ p = Plan(Do(<<Command("PowerOn"), RecordReboot>>), TRUE) /\ PowerState = "Off"
    BY <1>1 DEF RebootServer, Marks, RecordReboot
  <2> QED
    BY <1>1, <2>1, PlanFacts, Zenon
<1>2. CASE o.conds["UpgradeRebootIssued"] = "true"
  <2>1. \/ p = Poll
        \/ p = Plan(Do(<<RecordTimeout>>), TRUE)
        \/ p = Plan(Do(<<Marks("UpgradeRebootObservedOff")>>), TRUE)
        \/ p = Plan(Do(<<Marks("UpgradePowerOn")>>), TRUE) /\ PowerState = "On"
    BY <1>2 DEF RebootServer, Marks, RecordTimeout
  <2> QED
    BY <1>2, <2>1, PlanFacts, Zenon
<1> QED
  BY <1>1, <1>2

\* Verifying succeeds only on the wanted firmware.
LEMMA VerifyShapes ==
    ASSUME NEW o, NEW p \in Verify(o)
    PROVE  /\ IsPlan(p)
           /\ \/ p.do = <<>>
              \/ p.do = <<RecordSuccess>> /\ machine.firmware = o.version
<1>1. p = Poll \/ (p = Plan(Do(<<RecordSuccess>>), FALSE) /\ machine.firmware = o.version)
  <2>1. CASE machine.firmware # o.version
    BY <2>1 DEF Verify
  <2>2. CASE machine.firmware = o.version
    BY <2>2 DEF Verify, RecordSuccess
  <2> QED
    BY <2>1, <2>2
<1> QED
  BY <1>1, PlanFacts, Zenon

\* Before a retry: the gates, the maintenance, the BMC, then the power cycle.
LEMMA EnsureShapes ==
    ASSUME NEW o, o.ref \in BOOLEAN, Cached(resets) \in BOOLEAN,
           NEW r \in EnsureResetBeforeRetry(o)
    PROVE  \/ r = Do(<<ReadinessGatesNotSatisfied("same")>>)
           \/ \E mark \in {<<>>, <<Marks("ReadinessGatesSatisfied")>>} :
                 r = Do(mark \o RequestServerMaintenance(o))
           \/ /\ o.ref /\ IsMaintenanceActive
              /\ \/ r = Wait
                 \/ r = Do(<<Persist("RetryResetIssued", "true")>>)
                 \/ r = Do(<<Resets, Persist("RetryResetIssued", "issued")>>)
                 \/ r \in HandleServerPowerCycle(o.conds, PowerState, GiveUp(o))
<1> DEFINE active == o.ref /\ IsMaintenanceActive
           request == RequestServerMaintenance(o)
           reset == HandleBMCReset(o.conds["RetryResetIssued"], "RetryResetIssued",
                                   TRUE, FALSE, Cached(resets))
           mark == IF active THEN <<>> ELSE MarkReadinessGatesSatisfied(o)
<1>1. CASE ~active /\ ~GatesSatisfied
  BY <1>1 DEF EnsureResetBeforeRetry
<1>2. CASE active /\ request = <<>>
  <2>1. r \in UNION {IF x.ready THEN HandleServerPowerCycle(o.conds, PowerState, GiveUp(o))
                     ELSE {x} : x \in reset}
    BY <1>2 DEF EnsureResetBeforeRetry
  <2>2. PICK x \in reset :
          r \in IF x.ready THEN HandleServerPowerCycle(o.conds, PowerState, GiveUp(o)) ELSE {x}
    BY <2>1
  <2>3. CASE x.ready
    BY <1>2, <2>2, <2>3
  <2>4. CASE ~x.ready
    <3>1. r = x
      BY <2>2, <2>4
    <3>2. \/ x = Ready \/ x = Wait
          \/ x = Do(<<Persist("RetryResetIssued", "true")>>)
          \/ x = Do(<<Resets, Persist("RetryResetIssued", "issued")>>)
      BY <2>2, ResetShapes
    <3> QED
      BY <1>2, <2>4, <3>1, <3>2 DEF Ready, Outcome
  <2> QED
    BY <2>3, <2>4
<1>3. CASE ~(~active /\ ~GatesSatisfied) /\ ~(active /\ request = <<>>)
  <2>1. r = Do(mark \o request)
    BY <1>3 DEF EnsureResetBeforeRetry
  <2>2. mark \in {<<>>, <<Marks("ReadinessGatesSatisfied")>>}
    BY MarkShapes
  <2> QED
    BY <2>1, <2>2
<1> QED
  BY <1>1, <1>2, <1>3

\* The steps of an upgrade, by what its conditions say.
LEMMA ProcessShapes ==
    ASSUME NEW o, NEW p \in ProcessInProgressState(o)
    PROVE  \/ p = Rest
           \/ o.conds["VersionUpgradeIssued"] # "true" /\ p \in Upgrade(o)
           \/ /\ o.conds["VersionUpgradeIssued"] = "true"
              /\ \/ /\ o.conds["VersionUpgradeCompleted"] \notin {"true", "failed"}
                    /\ p \in CheckUpgradeStatus(o)
                 \/ /\ o.conds["VersionUpgradeCompleted"] \in {"true", "failed"}
                    /\ o.conds["UpgradePowerOn"] # "true"
                    /\ p \in RebootServer(o)
                 \/ o.conds["UpgradePowerOn"] = "true" /\ p \in Verify(o)
  BY DEF ProcessInProgressState

Tells == PatchCompletion("Unknown")
SkipsReset == Persist("ResetIssued", "true")

\* A reconcile under maintenance: tell the Server, reset the BMC, go on.
UnderPlan(start, o, p) ==
    /\ start = <<>> <=> completion = "Unknown"
    /\ \/ p.again = FALSE /\ p.do = start \o <<>>
       \/ /\ p.again = FALSE
          /\ o.conds["ResetIssued"] # "true"
          /\ \/ p.do = start \o <<SkipsReset>>
             \/ p.do = start \o <<Resets, Persist("ResetIssued", "issued")>>
       \/ \E q \in ProcessInProgressState(o) :
            /\ p.again = q.again
            /\ \/ p.do = (start \o <<>>) \o q.do /\ o.conds["ResetIssued"] = "true"
               \/ /\ p.do = (start \o <<SkipsReset>>) \o q.do
                  /\ o.conds["ResetIssued"] # "true"
\* Under an active maintenance a plan is one of those of UnderPlan.
LEMMA UnderShapes ==
    ASSUME NEW o, Cached(resets) \in BOOLEAN, NEW p \in UnderMaintenance(o),
           o.task = 0 \/ machine.tasks[o.task].state \in TaskState
    PROVE  \E start \in {<<>>, <<Tells>>} : UnderPlan(start, o, p)
<1> DEFINE start == IF completion = "Unknown" THEN <<>> ELSE <<PatchCompletion("Unknown")>>
           before(plan, effects) == [plan EXCEPT !.do = effects \o @]
           reset == HandleBMCReset(o.conds["ResetIssued"], "ResetIssued", FALSE,
                                   Cooldown, Cached(resets))
           rest(r) == IF ~r.ready THEN {Plan(Do(start \o r.do), FALSE)}
                      ELSE {before(q, start \o r.do) : q \in ProcessInProgressState(o)}
<1>1. PICK r \in reset : p \in rest(r)
  <2>1. p \in UNION {rest(r) : r \in reset}
    BY DEF UnderMaintenance
  <2> QED
    BY <2>1
<1>2. start \in {<<>>, <<Tells>>} /\ (start = <<>> <=> completion = "Unknown")
  <2>1. \A e : <<e>> # <<>>
    OBVIOUS
  <2> QED
    BY <2>1 DEF Tells
<1>3. Cooldown \in BOOLEAN
  BY BIOSVersionAssumption
<1>4. \/ r = Ready /\ o.conds["ResetIssued"] = "true"
      \/ r = Wait
      \/ r = Do(<<SkipsReset>>) /\ o.conds["ResetIssued"] # "true"
      \/ r = Do(<<Resets, Persist("ResetIssued", "issued")>>) /\ o.conds["ResetIssued"] # "true"
      \/ r = Outcome(TRUE, <<SkipsReset>>) /\ o.conds["ResetIssued"] # "true"
  BY <1>1, <1>3, ResetShapes, ZenonT(30) DEF SkipsReset
<1> HIDE DEF start
<1>5. CASE r = Wait \/ r = Do(<<SkipsReset>>)
             \/ r = Do(<<Resets, Persist("ResetIssued", "issued")>>)
  <2>1. ~r.ready /\ r.do \in {<<>>, <<SkipsReset>>, <<Resets, Persist("ResetIssued", "issued")>>}
    BY <1>5 DEF Wait, Do, Outcome
  <2>2. p = Plan(Do(start \o r.do), FALSE)
    BY <1>1, <2>1
  <2>3. p.do = start \o r.do /\ p.again = FALSE
    BY <2>2 DEF Plan, Do, Outcome
  <2>4. r = Wait => r.do = <<>>
    BY DEF Wait, Outcome
  <2>5. r # Wait => o.conds["ResetIssued"] # "true" \/ r.ready
    BY <1>4 DEF Ready, Outcome
  <2>6. r # Wait => r.do \in {<<SkipsReset>>, <<Resets, Persist("ResetIssued", "issued")>>}
    BY <1>5 DEF Do, Outcome
  <2> QED
    BY <1>2, <2>1, <2>3, <2>4, <2>5, <2>6 DEF UnderPlan
<1>6. CASE r = Ready \/ r = Outcome(TRUE, <<SkipsReset>>)
  <2>1. r.ready
    BY <1>6 DEF Ready, Outcome
  <2>2. PICK q \in ProcessInProgressState(o) : p = before(q, start \o r.do)
    BY <1>1, <2>1
  <2>3. DOMAIN q = {"do", "again"}
    BY ProcessShapes, UpgradeShapes, CheckShapes, RebootShapes, VerifyShapes, PlanFacts
       DEF IsPlan
  <2>4. p.do = (start \o r.do) \o q.do /\ p.again = q.again
    BY <2>2, <2>3
  <2>5. \/ r.do = <<>> /\ o.conds["ResetIssued"] = "true"
        \/ r.do = <<SkipsReset>> /\ o.conds["ResetIssued"] # "true"
    BY <1>4, <2>1 DEF Ready, Wait, Do, Outcome
  <2> QED
    BY <1>2, <2>4, <2>5 DEF UnderPlan
<1> QED
  BY <1>4, <1>5, <1>6


\* The types a condition update of the plans mentions.
LEMMA ConditionFacts ==
    /\ {"ReadinessGatesSatisfied", "ServerMaintenanceCreated", "ServerMaintenanceWaiting",
        "ResetIssued", "RetryResetIssued", "RetryOfFailedResourceIssued",
        "UpgradeServerPowerOnIssued", "VersionUpgradeIssued", "VersionUpgradeCompleted",
        "UpgradeRebootIssued", "UpgradeRebootObservedOff", "UpgradePowerOn",
        "UpgradeRebootTimedOut", "VersionUpgradeVerification"} \subseteq ConditionType
    /\ {"ServerReset", "PowerOffIssued", "ForcePowerOffIssued", "PowerOnIssued"}
          \subseteq ConditionType
    /\ ConditionValue = {"unset", "issued", "true", "false", "approved", "failed"}
  BY DEF ConditionType, ConditionValue, StageType, StageValue

\* The effects of requests, marks and the recovery procedures.
LEMMA PieceTypes ==
    /\ \A o : /\ MarkReadinessGatesSatisfied(o) \in Seq(Effect)
              /\ CleanupServerMaintenanceReferences(o) \in Seq(Effect)
              /\ o.ref \in BOOLEAN => RequestServerMaintenance(o) \in Seq(Effect)
    /\ ResetAttempts \in Seq(Effect)
    /\ \A o \in BIOSVersionObject : GiveUp(o) \in Seq(Effect)
    /\ \A state \in State \cup {"same"} : ReadinessGatesNotSatisfied(state) \in Effect
<1>1. \A type \in ConditionType : Marks(type) \in Effect
  <2> TAKE type \in ConditionType
  <2> QED
    BY ConditionFacts, StatusTypes DEF Marks
<1>2. /\ Resets \in Effect /\ Creates \in Effect /\ Deletes \in Effect
      /\ Ref \in Effect /\ Unref \in Effect
  BY CallTypes, PatchTypes DEF Resets, Creates, Deletes
<1>3. ASSUME NEW o
      PROVE  /\ MarkReadinessGatesSatisfied(o) \in Seq(Effect)
             /\ CleanupServerMaintenanceReferences(o) \in Seq(Effect)
             /\ o.ref \in BOOLEAN => RequestServerMaintenance(o) \in Seq(Effect)
  <2>1. MarkReadinessGatesSatisfied(o) \in Seq(Effect)
    BY <1>1, ConditionFacts, MarkShapes, SeqTypes
  <2>2. CleanupServerMaintenanceReferences(o) \in Seq(Effect)
    BY <1>2, RefsShapes, SeqTypes
  <2>3. o.ref \in BOOLEAN => RequestServerMaintenance(o) \in Seq(Effect)
    <3>1. SUFFICES ASSUME o.ref \in BOOLEAN
                   PROVE  RequestServerMaintenance(o) \in Seq(Effect)
      OBVIOUS
    <3>2. /\ <<Creates, Ref>> \in Seq(Effect) /\ <<Unref>> \in Seq(Effect)
          /\ <<Marks("ServerMaintenanceCreated")>> \in Seq(Effect)
      BY <1>1, <1>2, ConditionFacts, SeqTypes
    <3>3. RequestServerMaintenance(o)
            \in {<<Creates, Ref>>, <<Unref>>, <<>>, <<Marks("ServerMaintenanceCreated")>>}
      BY <3>1, RequestShapes
    <3> QED
      BY <3>2, <3>3, SeqTypes
  <2> QED
    BY <2>1, <2>2, <2>3
<1>4. MaxAttempts \in Nat /\ 0 \in 0..Exhausted /\ Exhausted \in 0..Exhausted
  BY BIOSVersionAssumption DEF Exhausted
<1>5. ResetAttempts \in Seq(Effect)
  BY <1>4, PatchTypes, SeqTypes DEF ResetAttempts
<1>6. ASSUME NEW o \in BIOSVersionObject
      PROVE  GiveUp(o) \in Seq(Effect)
  BY <1>4, PatchTypes, SeqTypes DEF GiveUp
<1>7. ASSUME NEW state \in State \cup {"same"}
      PROVE  ReadinessGatesNotSatisfied(state) \in Effect
  BY ConditionFacts, StatusTypes DEF ReadinessGatesNotSatisfied
<1> QED
  BY <1>3, <1>5, <1>6, <1>7

\* Every stage of the power cycle writes what the model may write.
LEMMA CycleTypes ==
    ASSUME NEW conds, NEW power, NEW giveUp \in Seq(Effect),
           NEW r \in HandleServerPowerCycle(conds, power, giveUp)
    PROVE  r.do \in Seq(Effect)
<1> DEFINE last == <<Persist("ServerReset", "unset"), Persist("PowerOffIssued", "unset"),
                     Persist("ForcePowerOffIssued", "unset"), Persist("PowerOnIssued", "unset")>>
<1>1. \A type \in {"ServerReset", "PowerOffIssued", "ForcePowerOffIssued", "PowerOnIssued"} :
        \A value \in ConditionValue : Persist(type, value) \in Effect
  BY ConditionFacts, PersistTypes
<1>2. last \in Seq(Effect)
  BY <1>1, ConditionFacts
<1>3. GiveUpIfStuck(giveUp) \in Seq(Effect)
  BY <1>2, SeqTypes DEF GiveUpIfStuck
<1>4. /\ <<Persist("PowerOffIssued", "true")>> \in Seq(Effect)
      /\ <<Command("PowerOff"), Persist("PowerOffIssued", "issued")>> \in Seq(Effect)
      /\ <<Command("ForcePowerOff"), Persist("ForcePowerOffIssued", "true")>> \in Seq(Effect)
      /\ <<Command("PowerOn"), Persist("PowerOnIssued", "issued")>> \in Seq(Effect)
      /\ <<Persist("PowerOnIssued", "true"), Persist("ServerReset", "true")>> \in Seq(Effect)
  BY <1>1, ConditionFacts, CallTypes, SeqTypes
<1>5. \A s \in Seq(Effect) : r = Do(s) => r.do \in Seq(Effect)
  BY DEF Do, Outcome
<1> HIDE DEF last
<1>6. \/ r = Ready \/ r = Wait \/ r = Do(GiveUpIfStuck(giveUp))
      \/ r = Do(<<Persist("PowerOffIssued", "true")>>)
      \/ r = Do(<<Command("PowerOff"), Persist("PowerOffIssued", "issued")>>)
      \/ r = Do(<<Command("ForcePowerOff"), Persist("ForcePowerOffIssued", "true")>>)
      \/ r = Do(<<Command("PowerOn"), Persist("PowerOnIssued", "issued")>>)
      \/ r = Do(<<Persist("PowerOnIssued", "true"), Persist("ServerReset", "true")>>)
  <2>1. r \in HandleServerPowerCycle(conds, power, giveUp)
    OBVIOUS
  <2> QED
    BY <2>1, CycleShapes
<1>7. r = Ready \/ r = Wait => r.do \in Seq(Effect)
  <2>1. Ready.do = <<>> /\ Wait.do = <<>>
    BY DEF Ready, Wait, Outcome
  <2> QED
    BY <2>1, SeqTypes
<1> QED
  BY <1>3, <1>4, <1>5, <1>6, <1>7, Zenon

\* So does the whole preparation of a retry.
LEMMA EnsureTypes ==
    ASSUME NEW o \in BIOSVersionObject, Cached(resets) \in BOOLEAN,
           NEW r \in EnsureResetBeforeRetry(o)
    PROVE  r.do \in Seq(Effect) /\ DOMAIN r = {"ready", "do"}
<1>1. o.ref \in BOOLEAN /\ GiveUp(o) \in Seq(Effect)
  BY ObjectFacts, PieceTypes
<1>2. CASE r \in HandleServerPowerCycle(o.conds, PowerState, GiveUp(o))
  <2>1. DOMAIN r = {"ready", "do"}
    BY <1>2, CycleShapes DEF Ready, Wait, Do, Outcome
  <2> QED
    BY <1>1, <1>2, <2>1, CycleTypes
<1>3. CASE \E do \in Seq(Effect) : r = Do(do)
  BY <1>3 DEF Do, Outcome
<1>4. \/ r = Wait
      \/ r = Do(<<ReadinessGatesNotSatisfied("same")>>)
      \/ r = Do(<<Persist("RetryResetIssued", "true")>>)
      \/ r = Do(<<Resets, Persist("RetryResetIssued", "issued")>>)
      => \E do \in Seq(Effect) : r = Do(do)
  <2>1. /\ ReadinessGatesNotSatisfied("same") \in Effect
        /\ Persist("RetryResetIssued", "true") \in Effect
        /\ Persist("RetryResetIssued", "issued") \in Effect
        /\ Resets \in Effect
    BY ConditionFacts, PersistTypes, PieceTypes, CallTypes DEF Resets
  <2>2. Wait = Do(<<>>)
    BY DEF Wait, Do
  <2> QED
    BY <2>1, <2>2, SeqTypes
<1>5. (\E mark \in {<<>>, <<Marks("ReadinessGatesSatisfied")>>} :
          r = Do(mark \o RequestServerMaintenance(o)))
      => \E do \in Seq(Effect) : r = Do(do)
  <2>1. \A mark \in {<<>>, <<Marks("ReadinessGatesSatisfied")>>} : mark \in Seq(Effect)
    BY ConditionFacts, StatusTypes, SeqTypes DEF Marks
  <2>2. RequestServerMaintenance(o) \in Seq(Effect)
    BY <1>1, PieceTypes
  <2> QED
    BY <2>1, <2>2, SeqTypes
<1> QED
  BY <1>1, <1>2, <1>3, <1>4, <1>5, EnsureShapes

\* A failed upgrade: what a retry does before it sets the state back.
LEMMA FailedShapes ==
    ASSUME NEW o \in BIOSVersionObject, Cached(resets) \in BOOLEAN, NEW p \in PlanFailed(o)
    PROVE  /\ IsPlan(p)
           /\ \E first \in {<<>>, ResetAttempts} :
                \/ p.do = first
                \/ \E x \in BIOSVersionObject, n \in 0..Exhausted, value \in ConditionValue :
                     /\ x.ref = o.ref /\ x.conds = o.conds
                     /\ \E r \in EnsureResetBeforeRetry(x) :
                          p.do = first \o (IF r.ready THEN <<RetryPatch(n, value)>> ELSE r.do)
<1> DEFINE restart == MaxAttempts > 0 /\ ~o.current
           attempts == IF restart THEN 0 ELSE o.attempts
           first == IF restart THEN ResetAttempts ELSE <<>>
           x == [o EXCEPT !.attempts = attempts]
           value == o.conds["RetryOfFailedResourceIssued"]
<1>1. MaxAttempts \in Nat /\ 0 \in 0..Exhausted
  BY BIOSVersionAssumption DEF Exhausted
<1>2. /\ attempts \in 0..Exhausted /\ (attempts < MaxAttempts => attempts + 1 \in 0..Exhausted)
      /\ value \in ConditionValue /\ "true" \in ConditionValue
      /\ first \in {<<>>, ResetAttempts}
  <2>1. o.attempts \in 0..Exhausted
    BY ObjectFacts
  <2>2. "RetryOfFailedResourceIssued" \in ConditionType /\ "true" \in ConditionValue
    BY DEF ConditionType, ConditionValue, StageValue
  <2>3. value \in ConditionValue
    BY <2>2, ObjectFacts
  <2> QED
    BY <1>1, <2>1, <2>2, <2>3 DEF Exhausted
<1>3. x \in BIOSVersionObject /\ x.ref = o.ref /\ x.conds = o.conds
  <2>1. DOMAIN o = Fields
    BY ObjectFacts
  <2>2. /\ x = [f \in Fields |-> x[f]]
        /\ x.phase = o.phase /\ x.finalizer = o.finalizer /\ x.retry = o.retry
        /\ x.version = o.version /\ x.ref = o.ref /\ x.state = o.state /\ x.task = o.task
        /\ x.attempts = attempts /\ x.current = o.current /\ x.conds = o.conds
    BY <2>1 DEF Fields
  <2> HIDE DEF x, attempts
  <2> QED
    BY <1>2, <2>2, ObjectFacts, ObjectIntro
<1> HIDE DEF first, x, value, attempts
<1>5. CASE o.retry
  <2>1. PICK r \in EnsureResetBeforeRetry(o) :
          p = Plan(IF r.ready THEN Do(<<RetryPatch(0, "true")>>) ELSE r, TRUE)
    BY <1>5 DEF PlanFailed
  <2>2. IsPlan(p)
    BY <2>1 DEF Plan, IsPlan
  <2>3. p.do = IF r.ready THEN <<RetryPatch(0, "true")>> ELSE r.do
    BY <2>1 DEF Plan, Do, Outcome
  <2>4. p.do \in Seq(Effect)
    <3>1. RetryPatch(0, "true") \in Effect
      BY <1>1, <1>2, RetryTypes
    <3> QED
      BY <2>1, <2>3, <3>1, EnsureTypes, SeqTypes
  <2>5. p.do = <<>> \o p.do
    BY <2>4
  <2> QED
    BY <1>1, <1>2, <2>1, <2>2, <2>3, <2>5
<1>6. CASE ~o.retry /\ attempts < MaxAttempts
  <2>1. PICK r \in EnsureResetBeforeRetry(x) :
          p = Plan([r EXCEPT !.do = first \o IF r.ready THEN <<RetryPatch(attempts + 1, value)>>
                                             ELSE @], TRUE)
    BY <1>6 DEF PlanFailed, first, x, value, attempts
  <2>2. IsPlan(p)
    BY <2>1 DEF Plan, IsPlan
  <2>3. DOMAIN r = {"ready", "do"}
    BY <1>3, <2>1, EnsureTypes
  <2>4. p.do = first \o (IF r.ready THEN <<RetryPatch(attempts + 1, value)>> ELSE r.do)
    BY <2>1, <2>3 DEF Plan
  <2> QED
    BY <1>2, <1>3, <1>6, <2>1, <2>2, <2>4
<1>7. CASE ~o.retry /\ ~(attempts < MaxAttempts)
  <2>1. \/ p = Plan(Do(ResetAttempts), FALSE)
        \/ p = Plan(Do(first), FALSE)
    BY <1>7 DEF PlanFailed, first, attempts
  <2> QED
    BY <1>2, <2>1, PlanFacts, Zenon
<1> QED
  BY <1>5, <1>6, <1>7

\* A plan of well-formed effects.
GoodPlan(p) == p.do \in Seq(Effect) /\ p.again \in BOOLEAN
\* Plans made of such writes are good ones.
LEMMA DoPlans ==
    /\ \A s \in Seq(Effect) : GoodPlan(Plan(Do(s), TRUE)) /\ GoodPlan(Plan(Do(s), FALSE))
    /\ GoodPlan(Rest) /\ GoodPlan(Poll)
<1>1. ASSUME NEW s \in Seq(Effect)
      PROVE  GoodPlan(Plan(Do(s), TRUE)) /\ GoodPlan(Plan(Do(s), FALSE))
  BY DEF GoodPlan, Plan, Do, Outcome
<1>2. GoodPlan(Rest) /\ GoodPlan(Poll)
  BY SeqTypes DEF GoodPlan, Rest, Poll, Plan, Wait, Outcome
<1> QED
  BY <1>1, <1>2

\* Cleaning up writes what the model may write.
LEMMA CleanupTypes ==
    ASSUME NEW o, o.ref \in BOOLEAN
    PROVE  Cleanup(o) \in Seq(Effect)
<1>1. /\ PatchCompletion("True") \in Effect /\ PatchCompletion("False") \in Effect
      /\ ClearStatus("Completed") \in Effect /\ ClearStatus("Pending") \in Effect
      /\ ClearStatus("InProgress") \in Effect
      /\ UpdateStatus("Pending", "clear", "RetryOfFailedResourceIssued", "true") \in Effect
      /\ UpdateStatus("InProgress", "clear", "RetryOfFailedResourceIssued", "true") \in Effect
  <2>1. "True" \in CompletionStatus /\ "False" \in CompletionStatus
    BY DEF CompletionStatus
  <2>2. {"Completed", "Pending", "InProgress"} \subseteq State
    BY DEF State
  <2> QED
    BY <2>1, <2>2, CallTypes, ClearTypes, StatusTypes, ConditionFacts
<1>2. CleanupServerMaintenanceReferences(o) \in Seq(Effect)
  BY PieceTypes
<1>3. CASE machine.firmware = o.version
  <2> DEFINE last == IF o.state = "Completed" THEN <<>> ELSE <<ClearStatus("Completed")>>
  <2>1. last \in Seq(Effect) /\ <<PatchCompletion("True")>> \in Seq(Effect)
    BY <1>1, SeqTypes
  <2>2. Cleanup(o) = <<PatchCompletion("True")>> \o CleanupServerMaintenanceReferences(o) \o last
    BY <1>3 DEF Cleanup
  <2> HIDE DEF last
  <2> QED
    BY <1>2, <2>1, <2>2, SeqTypes
<1>4. CASE machine.firmware # o.version
  <2> DEFINE next == IF o.state = "Completed" THEN "Pending" ELSE "InProgress"
             first == IF o.state = "Completed" THEN <<PatchCompletion("False")>> ELSE <<>>
             last == IF o.conds["RetryOfFailedResourceIssued"] = "true"
                     THEN <<UpdateStatus(next, "clear", "RetryOfFailedResourceIssued", "true")>>
                     ELSE <<ClearStatus(next)>>
  <2>1. first \in Seq(Effect) /\ last \in Seq(Effect)
    BY <1>1, SeqTypes
  <2>2. Cleanup(o) = first \o last
    BY <1>4 DEF Cleanup
  <2> HIDE DEF first, last
  <2> QED
    BY <2>1, <2>2, SeqTypes
<1> QED
  BY <1>3, <1>4

\* Every branch of processInProgressState gives a good plan.
LEMMA ProcessTypes ==
    ASSUME NEW o, o.version \in Versions, NEW p \in ProcessInProgressState(o),
           o.task = 0 \/ machine.tasks[o.task].state \in TaskState
    PROVE  GoodPlan(p)
<1>1. /\ \A type \in ConditionType : Marks(type) \in Effect
      /\ Command("PowerOn") \in Effect /\ Command("Reset") \in Effect
      /\ Upgrades(o.version) \in Effect /\ RecordUpgrade \in Effect
      /\ RecordFailure \in Effect /\ RecordTimeout \in Effect /\ RecordSuccess \in Effect
      /\ Finds("true") \in Effect /\ Finds("false") \in Effect
  <2>1. "same" \in State \cup {"same"} /\ "Failed" \in State \cup {"same"}
          /\ "Completed" \in State \cup {"same"}
    BY DEF State
  <2>2. \A type \in ConditionType : Marks(type) \in Effect
    BY <2>1, ConditionFacts, StatusTypes DEF Marks
  <2>3. Command("PowerOn") \in Effect /\ Command("Reset") \in Effect
        /\ Upgrades(o.version) \in Effect
    BY CallTypes DEF Upgrades
  <2>4. RecordUpgrade \in Effect /\ Finds("true") \in Effect /\ Finds("false") \in Effect
    BY <2>1, ConditionFacts, StatusTypes DEF RecordUpgrade, Finds
  <2>5. RecordFailure \in Effect /\ RecordTimeout \in Effect /\ RecordSuccess \in Effect
    BY <2>1, ConditionFacts, StatusTypes DEF RecordFailure, RecordTimeout, RecordSuccess
  <2> QED
    BY <2>2, <2>3, <2>4, <2>5
<1>2. /\ \A type \in ConditionType : <<Marks(type)>> \in Seq(Effect)
      /\ <<Command("PowerOn"), Marks("UpgradeServerPowerOnIssued")>> \in Seq(Effect)
      /\ <<Upgrades(o.version), RecordUpgrade>> \in Seq(Effect)
      /\ <<Command("Reset"), RecordReboot>> \in Seq(Effect)
      /\ <<Command("PowerOn"), RecordReboot>> \in Seq(Effect)
      /\ <<RecordFailure>> \in Seq(Effect) /\ <<RecordTimeout>> \in Seq(Effect)
      /\ <<RecordSuccess>> \in Seq(Effect)
      /\ <<Finds("true")>> \in Seq(Effect) /\ <<Finds("false")>> \in Seq(Effect)
  BY <1>1, ConditionFacts, SeqTypes DEF RecordReboot
<1>3. p = Rest => GoodPlan(p)
  BY DoPlans
<1>4. p \in Upgrade(o) => GoodPlan(p)
  BY <1>2, UpgradeShapes, SeqTypes, ConditionFacts DEF GoodPlan, IsPlan
<1>5. p \in CheckUpgradeStatus(o) => GoodPlan(p)
  BY <1>2, CheckShapes, SeqTypes DEF GoodPlan, IsPlan
<1>6. p \in RebootServer(o) => GoodPlan(p)
  BY <1>2, RebootShapes, SeqTypes, ConditionFacts DEF GoodPlan, IsPlan
<1>7. p \in Verify(o) => GoodPlan(p)
  BY <1>2, VerifyShapes, SeqTypes DEF GoodPlan, IsPlan
<1> QED
  BY <1>3, <1>4, <1>5, <1>6, <1>7, ProcessShapes

\* So does every branch of the state InProgress.
LEMMA InProgressTypes ==
    ASSUME NEW o \in BIOSVersionObject, NEW p \in PlanInProgress(o),
           Cached(resets) \in BOOLEAN,
           o.task = 0 \/ machine.tasks[o.task].state \in TaskState
    PROVE  GoodPlan(p)
<1>1. o.ref \in BOOLEAN /\ o.version \in Versions
  BY ObjectFacts
<1>2. RequestServerMaintenance(o) \in Seq(Effect)
  BY <1>1, PieceTypes
<1>3. AwaitMaintenance(o) \in Seq(Effect)
  <2>1. ReadinessGatesNotSatisfied("Pending") \in Effect
    BY PieceTypes DEF State
  <2>2. UpdateStatus("same", "keep", "ServerMaintenanceWaiting", "true") \in Effect
    BY ConditionFacts, StatusTypes
  <2>3. <<ReadinessGatesNotSatisfied("Pending")>> \in Seq(Effect)
        /\ <<UpdateStatus("same", "keep", "ServerMaintenanceWaiting", "true")>> \in Seq(Effect)
        /\ CleanupServerMaintenanceReferences(o) \in Seq(Effect)
    BY <2>1, <2>2, SeqTypes, PieceTypes
  <2> QED
    BY <2>3, SeqTypes DEF AwaitMaintenance
<1>4. <<UpdateStatus("same", "keep", "ServerMaintenanceWaiting", "approved")>> \in Seq(Effect)
  BY ConditionFacts, StatusTypes, SeqTypes
<1>5. p \in UnderMaintenance(o) => GoodPlan(p)
  <2>1. SUFFICES ASSUME p \in UnderMaintenance(o) PROVE GoodPlan(p)
    OBVIOUS
  <2>2. /\ <<SkipsReset>> \in Seq(Effect)
        /\ <<Resets, Persist("ResetIssued", "issued")>> \in Seq(Effect)
        /\ <<Tells>> \in Seq(Effect)
    <3>1. SkipsReset \in Effect /\ Persist("ResetIssued", "issued") \in Effect
      BY ConditionFacts, PersistTypes DEF SkipsReset
    <3>2. Tells \in Effect /\ Resets \in Effect
      BY CallTypes DEF Tells, Resets, CompletionStatus
    <3> QED
      BY <3>1, <3>2, SeqTypes
  <2>3. PICK start \in {<<>>, <<Tells>>} : UnderPlan(start, o, p)
    BY <2>1, UnderShapes
  <2>4. start \in Seq(Effect)
    BY <2>2, <2>3, SeqTypes
  <2>5. /\ start \o <<>> \in Seq(Effect) /\ start \o <<SkipsReset>> \in Seq(Effect)
        /\ start \o <<Resets, Persist("ResetIssued", "issued")>> \in Seq(Effect)
    BY <2>2, <2>4, SeqTypes
  <2>6. ASSUME NEW q \in ProcessInProgressState(o), p.again = q.again,
               p.do = (start \o <<>>) \o q.do \/ p.do = (start \o <<SkipsReset>>) \o q.do
        PROVE  GoodPlan(p)
    <3>1. q.do \in Seq(Effect) /\ q.again \in BOOLEAN
      BY <1>1, ProcessTypes DEF GoodPlan
    <3> QED
      BY <2>5, <2>6, <3>1, SeqTypes DEF GoodPlan
  <2>7. CASE p.again = FALSE /\ p.do \in Seq(Effect)
    BY <2>7 DEF GoodPlan
  <2> QED
    BY <2>3, <2>5, <2>6, <2>7 DEF UnderPlan
<1>6. \/ p = Plan(Do(RequestServerMaintenance(o)), FALSE)
      \/ p = Plan(Do(AwaitMaintenance(o)), FALSE)
      \/ p = Plan(Do(<<UpdateStatus("same", "keep", "ServerMaintenanceWaiting", "approved")>>),
                  FALSE)
      \/ p \in UnderMaintenance(o)
  BY DEF PlanInProgress
<1> QED
  BY <1>2, <1>3, <1>4, <1>5, <1>6, DoPlans

\* and every branch of the state Failed.
LEMMA FailedTypes ==
    ASSUME NEW o \in BIOSVersionObject, NEW p \in PlanFailed(o), Cached(resets) \in BOOLEAN
    PROVE  GoodPlan(p)
<1>1. PICK first \in {<<>>, ResetAttempts} :
        \/ p.do = first
        \/ \E x \in BIOSVersionObject, n \in 0..Exhausted, value \in ConditionValue :
             \E r \in EnsureResetBeforeRetry(x) :
                p.do = first \o (IF r.ready THEN <<RetryPatch(n, value)>> ELSE r.do)
  BY FailedShapes
<1>2. first \in Seq(Effect)
  BY PieceTypes, SeqTypes
<1>3. p.again \in BOOLEAN
  BY FailedShapes DEF IsPlan
<1>4. ASSUME NEW x \in BIOSVersionObject, NEW n \in 0..Exhausted, NEW value \in ConditionValue,
             NEW r \in EnsureResetBeforeRetry(x),
             p.do = first \o (IF r.ready THEN <<RetryPatch(n, value)>> ELSE r.do)
      PROVE  p.do \in Seq(Effect)
  <2>1. <<RetryPatch(n, value)>> \in Seq(Effect) /\ r.do \in Seq(Effect)
    BY RetryTypes, EnsureTypes, SeqTypes
  <2> QED
    BY <1>2, <1>4, <2>1, SeqTypes
<1> QED
  BY <1>1, <1>2, <1>3, <1>4 DEF GoodPlan

\* Every plan is a sequence of effects.
LEMMA PlanTypes ==
    ASSUME NEW o \in BIOSVersionObject, NEW p \in Plans(o), Cached(resets) \in BOOLEAN,
           o.task = 0 \/ machine.tasks[o.task].state \in TaskState
    PROVE  GoodPlan(p)
<1>1. o.ref \in BOOLEAN /\ o.state \in State /\ o.phase \in {"live", "deleting", "gone"}
      /\ o.finalizer \in BOOLEAN
  BY ObjectFacts
<1>2. /\ <<Patch([finalizer |-> TRUE])>> \in Seq(Effect)
      /\ <<PatchCompletion("absent"), Patch([finalizer |-> FALSE])>> \in Seq(Effect)
      /\ <<Patch([retry |-> FALSE])>> \in Seq(Effect)
      /\ <<PatchCompletion("False")>> \in Seq(Effect)
      /\ <<ReadinessGatesNotSatisfied("Pending")>> \in Seq(Effect)
      /\ <<ReadinessGatesNotSatisfied("Completed")>> \in Seq(Effect)
  <2>1. "False" \in CompletionStatus /\ "absent" \in CompletionStatus
        /\ "Pending" \in State /\ "Completed" \in State
    BY DEF CompletionStatus, State
  <2>2. /\ Patch([finalizer |-> TRUE]) \in Effect /\ Patch([finalizer |-> FALSE]) \in Effect
        /\ Patch([retry |-> FALSE]) \in Effect
        /\ PatchCompletion("False") \in Effect /\ PatchCompletion("absent") \in Effect
        /\ ReadinessGatesNotSatisfied("Pending") \in Effect
        /\ ReadinessGatesNotSatisfied("Completed") \in Effect
    BY <2>1, PatchTypes, CallTypes, PieceTypes
  <2> QED
    BY <2>2, SeqTypes
<1>3. p \in PlanPending(o) => GoodPlan(p)
  <2> DEFINE first == IF completion = "absent" THEN <<PatchCompletion("False")>> ELSE <<>>
  <2>1. first \in Seq(Effect)
    BY <1>2, SeqTypes
  <2>2. \/ p = Plan(Do(<<Patch([retry |-> FALSE])>>), FALSE)
        \/ p = Plan(Do(first \o <<ReadinessGatesNotSatisfied("Pending")>>), FALSE)
        \/ p = Plan(Do(first \o MarkReadinessGatesSatisfied(o) \o Cleanup(o)), FALSE)
        \/ p \notin PlanPending(o)
    BY DEF PlanPending
  <2> HIDE DEF first
  <2>3. /\ first \o <<ReadinessGatesNotSatisfied("Pending")>> \in Seq(Effect)
        /\ first \o MarkReadinessGatesSatisfied(o) \o Cleanup(o) \in Seq(Effect)
    BY <1>1, <1>2, <2>1, PieceTypes, CleanupTypes, SeqTypes
  <2> QED
    BY <1>2, <2>2, <2>3, DoPlans
<1>4. p \in PlanCompleted(o) => GoodPlan(p)
  <2>1. \/ p = Plan(Do(MarkReadinessGatesSatisfied(o) \o Cleanup(o)), FALSE)
        \/ p = Plan(Do(CleanupServerMaintenanceReferences(o)
                       \o <<ReadinessGatesNotSatisfied("Completed")>>), FALSE)
        \/ p \notin PlanCompleted(o)
    <3>1. CASE GatesSatisfied
      BY <3>1 DEF PlanCompleted
    <3>2. CASE ~GatesSatisfied
      BY <3>2 DEF PlanCompleted
    <3> QED
      BY <3>1, <3>2
  <2>2. /\ MarkReadinessGatesSatisfied(o) \o Cleanup(o) \in Seq(Effect)
        /\ CleanupServerMaintenanceReferences(o)
             \o <<ReadinessGatesNotSatisfied("Completed")>> \in Seq(Effect)
    BY <1>1, <1>2, PieceTypes, CleanupTypes, SeqTypes
  <2> QED
    BY <2>1, <2>2, DoPlans
<1>5. p \in PlanDelete(o) => GoodPlan(p)
  <2>1. \/ p = Plan(Do(<<PatchCompletion("absent"), Patch([finalizer |-> FALSE])>>), FALSE)
        \/ p = Plan(Do(<<>>), FALSE)
        \/ p \notin PlanDelete(o)
    <3>1. CASE o.finalizer
      BY <3>1 DEF PlanDelete
    <3>2. CASE ~o.finalizer
      BY <3>2 DEF PlanDelete
    <3> QED
      BY <3>1, <3>2
  <2> QED
    BY <1>2, <2>1, DoPlans, SeqTypes
<1>6. p = Plan(Do(<<Patch([finalizer |-> TRUE])>>), FALSE) => GoodPlan(p)
  BY <1>2, DoPlans
<1>7. \/ p = Rest \/ p \in PlanDelete(o) \/ p = Plan(Do(<<Patch([finalizer |-> TRUE])>>), FALSE)
      \/ p \in PlanPending(o) \/ p \in PlanInProgress(o) \/ p \in PlanCompleted(o)
      \/ p \in PlanFailed(o)
  BY <1>1 DEF Plans, State
<1> QED
  BY <1>3, <1>4, <1>5, <1>6, <1>7, DoPlans, InProgressTypes, FailedTypes

-----------------------------------------------------------------------------
(* What an effect makes of an object *)

\* A merge patch of an object, field by field.
LEMMA PatchAfter ==
    ASSUME NEW o \in BIOSVersionObject, NEW e \in Effect, e.op = "patch",
           NEW x, x = After(e, o)
    PROVE  /\ x \in BIOSVersionObject
           /\ x.phase = o.phase /\ x.version = o.version /\ x.task = o.task
           /\ x.ref = IF "ref" \in DOMAIN e.fields THEN e.fields.ref ELSE o.ref
           /\ x.retry = IF "retry" \in DOMAIN e.fields THEN e.fields.retry ELSE o.retry
           /\ x.finalizer = IF "finalizer" \in DOMAIN e.fields THEN e.fields.finalizer
                            ELSE o.finalizer
           /\ x.attempts = IF "attempts" \in DOMAIN e.fields THEN e.fields.attempts
                           ELSE o.attempts
           /\ x.current = IF "current" \in DOMAIN e.fields THEN e.fields.current ELSE o.current
           /\ x.state = IF "state" \in DOMAIN e.fields THEN e.fields.state ELSE o.state
           /\ x.conds = IF "conds" \in DOMAIN e.fields THEN e.fields.conds ELSE o.conds
<1>1. /\ x = [f \in Fields |-> IF f \in DOMAIN e.fields THEN e.fields[f] ELSE o[f]]
      /\ e.fields \in Patches
  <2>1. DOMAIN o = Fields
    BY ObjectFacts
  <2>2. e.fields \in Patches
    BY EffectFacts
  <2> QED
    BY <2>1, <2>2 DEF After
<1>2. "phase" \notin DOMAIN e.fields /\ "version" \notin DOMAIN e.fields
        /\ "task" \notin DOMAIN e.fields
  BY <1>1, PatchesFacts
<1>3. /\ x.phase = o.phase /\ x.version = o.version /\ x.task = o.task
      /\ x.ref = IF "ref" \in DOMAIN e.fields THEN e.fields.ref ELSE o.ref
      /\ x.retry = IF "retry" \in DOMAIN e.fields THEN e.fields.retry ELSE o.retry
      /\ x.finalizer = IF "finalizer" \in DOMAIN e.fields THEN e.fields.finalizer
                       ELSE o.finalizer
      /\ x.attempts = IF "attempts" \in DOMAIN e.fields THEN e.fields.attempts
                      ELSE o.attempts
      /\ x.current = IF "current" \in DOMAIN e.fields THEN e.fields.current ELSE o.current
      /\ x.state = IF "state" \in DOMAIN e.fields THEN e.fields.state ELSE o.state
      /\ x.conds = IF "conds" \in DOMAIN e.fields THEN e.fields.conds ELSE o.conds
  BY <1>1, <1>2 DEF Fields
<1>4. x = [f \in Fields |-> x[f]]
  BY <1>1
<1>5. /\ x.ref \in BOOLEAN /\ x.retry \in BOOLEAN /\ x.finalizer \in BOOLEAN
      /\ x.attempts \in 0..Exhausted /\ x.current \in BOOLEAN /\ x.state \in State
      /\ x.conds \in [ConditionType -> ConditionValue]
  <2>1. x.ref \in BOOLEAN
    BY <1>1, <1>3, ObjectFacts, PatchesFacts
  <2>2. x.retry \in BOOLEAN
    BY <1>1, <1>3, ObjectFacts, PatchesFacts
  <2>3. x.finalizer \in BOOLEAN
    BY <1>1, <1>3, ObjectFacts, PatchesFacts
  <2>4. x.attempts \in 0..Exhausted
    BY <1>1, <1>3, ObjectFacts, PatchesFacts
  <2>5. x.current \in BOOLEAN
    BY <1>1, <1>3, ObjectFacts, PatchesFacts
  <2>6. x.state \in State
    BY <1>1, <1>3, ObjectFacts, PatchesFacts DEF State
  <2>7. x.conds \in [ConditionType -> ConditionValue]
    BY <1>1, <1>3, ObjectFacts, PatchesFacts
  <2> QED
    BY <2>1, <2>2, <2>3, <2>4, <2>5, <2>6, <2>7
<1>6. x \in BIOSVersionObject
  BY <1>3, <1>4, <1>5, ObjectFacts, ObjectIntro
<1> QED
  BY <1>3, <1>6

\* A status update of an object.
Bounded == Len(machine.tasks) \in 0..MaxUpgrades
StatusSets(e, o, x) ==
    /\ x \in BIOSVersionObject
    /\ x.phase = o.phase /\ x.version = o.version /\ x.ref = o.ref
    /\ x.retry = o.retry /\ x.finalizer = o.finalizer /\ x.attempts = o.attempts
    /\ x.current
    /\ x.state = IF e.state = "same" THEN o.state ELSE e.state
    /\ e.task = "keep" => x.task = o.task
    /\ e.task = "clear" => x.task = 0
    /\ e.task = "new" => x.task = Len(machine.tasks)
    /\ \A type \in ConditionType :
         x.conds[type] = IF e.type = None THEN "unset"
                         ELSE IF type = e.type THEN e.value ELSE o.conds[type]
\* What a status write leaves in the object.
LEMMA StatusAfter ==
    ASSUME NEW o \in BIOSVersionObject, NEW e \in Effect, e.op = "status", Bounded
    PROVE  StatusSets(e, o, After(e, o))
<1> DEFINE state == IF e.state = "same" THEN o.state ELSE e.state
           task == CASE e.task = "keep" -> o.task
                     [] e.task = "clear" -> 0
                     [] e.task = "new" -> Len(machine.tasks)
           conds == IF e.type = None THEN NoConditions
                    ELSE [o.conds EXCEPT ![e.type] = e.value]
<1>1. DOMAIN o = Fields
  BY ObjectFacts
<1>2. /\ state \in State /\ task \in 0..MaxUpgrades
      /\ conds \in [ConditionType -> ConditionValue]
      /\ \A type \in ConditionType :
           conds[type] = IF e.type = None THEN "unset"
                         ELSE IF type = e.type THEN e.value ELSE o.conds[type]
  <2>1. state \in State
    BY ObjectFacts, EffectFacts
  <2>2. task \in 0..MaxUpgrades
    <3>1. 0 \in 0..MaxUpgrades /\ o.task \in 0..MaxUpgrades
      BY ObjectFacts, ResourceAssumption
    <3> QED
      BY <3>1, EffectFacts DEF Bounded
  <2>3. CASE e.type = None
    BY <2>1, <2>2, <2>3, ConditionFacts DEF NoConditions
  <2>4. CASE e.type # None
    <3>1. e.type \in ConditionType /\ e.value \in ConditionValue
      BY <2>4, EffectFacts
    <3>2. o.conds \in [ConditionType -> ConditionValue]
      BY ObjectFacts
    <3>3. conds = [o.conds EXCEPT ![e.type] = e.value]
      BY <2>4
    <3> HIDE DEF conds
    <3> QED
      BY <2>1, <2>2, <2>4, <3>1, <3>2, <3>3
  <2> QED
    BY <2>3, <2>4
<1> DEFINE x == After(e, o)
<1>3. x = [o EXCEPT !.current = TRUE, !.state = state, !.task = task, !.conds = conds]
  BY DEF After
<1> HIDE DEF state, task, conds, x
<1>4. /\ x = [f \in Fields |-> x[f]]
      /\ x.phase = o.phase /\ x.version = o.version /\ x.ref = o.ref
      /\ x.retry = o.retry /\ x.finalizer = o.finalizer /\ x.attempts = o.attempts
      /\ x.current = TRUE /\ x.state = state /\ x.task = task /\ x.conds = conds
  BY <1>1, <1>3 DEF Fields
<1>5. x \in BIOSVersionObject
  BY <1>2, <1>4, ObjectFacts, ObjectIntro
<1> QED
  BY <1>2, <1>4, <1>5 DEF state, task, x, StatusSets

\* A patch changes what the object in memory was changed in.
LEMMA MergedFacts ==
    ASSUME NEW base \in BIOSVersionObject, NEW new \in BIOSVersionObject,
           NEW stored \in BIOSVersionObject, NEW x, x = Merged(base, new, stored)
    PROVE  /\ x \in BIOSVersionObject
           /\ x.finalizer = IF new.finalizer = base.finalizer THEN stored.finalizer
                            ELSE new.finalizer
           /\ x.version = IF new.version = base.version THEN stored.version ELSE new.version
           /\ x.ref = IF new.ref = base.ref THEN stored.ref ELSE new.ref
           /\ x.state = IF new.state = base.state THEN stored.state ELSE new.state
           /\ x.task = IF new.task = base.task THEN stored.task ELSE new.task
           /\ x.attempts = IF new.attempts = base.attempts THEN stored.attempts ELSE new.attempts
           /\ x.conds = IF new.conds = base.conds THEN stored.conds ELSE new.conds
           /\ x.phase = IF stored.phase = "deleting" /\ ~x.finalizer THEN "gone"
                        ELSE IF new.phase = base.phase THEN stored.phase ELSE new.phase
<1> DEFINE changed == [f \in DOMAIN stored |-> IF new[f] = base[f] THEN stored[f] ELSE new[f]]
           specOf(o) == <<o.version, o.ref>>
           phase == IF stored.phase = "deleting" /\ ~changed.finalizer THEN "gone"
                    ELSE changed.phase
           current == CASE specOf(changed) # specOf(stored) -> FALSE
                        [] new.current # base.current -> specOf(stored) = specOf(base)
                        [] OTHER -> changed.current
<1>1. x = [changed EXCEPT !.current = current, !.phase = phase]
  BY DEF Merged
<1>2. /\ DOMAIN stored = Fields
      /\ changed = [f \in Fields |-> IF new[f] = base[f] THEN stored[f] ELSE new[f]]
  BY ObjectFacts
<1>3. /\ changed.phase = IF new.phase = base.phase THEN stored.phase ELSE new.phase
      /\ changed.finalizer = IF new.finalizer = base.finalizer THEN stored.finalizer
                             ELSE new.finalizer
      /\ changed.retry = IF new.retry = base.retry THEN stored.retry ELSE new.retry
      /\ changed.version = IF new.version = base.version THEN stored.version ELSE new.version
      /\ changed.ref = IF new.ref = base.ref THEN stored.ref ELSE new.ref
      /\ changed.state = IF new.state = base.state THEN stored.state ELSE new.state
      /\ changed.task = IF new.task = base.task THEN stored.task ELSE new.task
      /\ changed.attempts = IF new.attempts = base.attempts THEN stored.attempts ELSE new.attempts
      /\ changed.current = IF new.current = base.current THEN stored.current ELSE new.current
      /\ changed.conds = IF new.conds = base.conds THEN stored.conds ELSE new.conds
      /\ DOMAIN changed = Fields
  BY <1>2 DEF Fields
<1>4. current \in BOOLEAN
  <2>1. changed.current \in BOOLEAN
    BY <1>3, ObjectFacts
  <2> HIDE DEF changed
  <2> QED
    BY <2>1
<1>5. phase \in {"live", "deleting", "gone"}
  <2>1. changed.phase \in {"live", "deleting", "gone"}
    BY <1>3, ObjectFacts
  <2> HIDE DEF changed
  <2> QED
    BY <2>1
<1> HIDE DEF changed, current, phase
<1>6. /\ x = [f \in Fields |-> x[f]]
      /\ x.phase = phase /\ x.finalizer = changed.finalizer /\ x.retry = changed.retry
      /\ x.version = changed.version /\ x.ref = changed.ref /\ x.state = changed.state
      /\ x.task = changed.task /\ x.attempts = changed.attempts
      /\ x.current = current /\ x.conds = changed.conds
  BY <1>1, <1>3 DEF Fields
<1>7. x \in BIOSVersionObject
  <2>1. /\ x.finalizer \in BOOLEAN /\ x.retry \in BOOLEAN /\ x.version \in Versions
        /\ x.ref \in BOOLEAN /\ x.state \in State /\ x.task \in 0..MaxUpgrades
        /\ x.attempts \in 0..Exhausted /\ x.conds \in [ConditionType -> ConditionValue]
    BY <1>3, <1>6, ObjectFacts
  <2> QED
    BY <1>4, <1>5, <1>6, <2>1, ObjectIntro
<1> QED
  BY <1>3, <1>6, <1>7 DEF phase

-----------------------------------------------------------------------------
(* Type correctness *)

\* The fields of a machine.
LEMMA MachineFacts ==
    ASSUME NEW m \in Machine
    PROVE  /\ m.power \in Power /\ m.firmware \in Versions
           /\ m.staged \in Versions \cup {None} /\ m.tasks \in Seq(Task)
           /\ Len(m.tasks) \in Nat
           /\ DOMAIN m = {"power", "firmware", "staged", "tasks"}
           /\ \A t \in 1..Len(m.tasks) :
                m.tasks[t].version \in Versions /\ m.tasks[t].state \in TaskState
<1>1. /\ m.power \in Power /\ m.firmware \in Versions
      /\ m.staged \in Versions \cup {None} /\ m.tasks \in Seq(Task)
      /\ DOMAIN m = {"power", "firmware", "staged", "tasks"}
  BY DEF Machine
<1>2. \A t \in 1..Len(m.tasks) : m.tasks[t] \in Task
  BY <1>1
<1>3. \A x \in Task : x.version \in Versions /\ x.state \in TaskState
  BY DEF Task
<1> QED
  BY <1>1, <1>2, <1>3

\* What the machine makes of a command and of an upgrade.
LEMMA CommandedFacts ==
    ASSUME NEW m \in Machine, NEW command
    PROVE  /\ Commanded(m, command) \in Machine
           /\ Commanded(m, command).firmware = m.firmware
           /\ Commanded(m, command).staged = m.staged
           /\ Commanded(m, command).tasks = m.tasks
<1>1. PICK p \in Power : Commanded(m, command) = [m EXCEPT !.power = p]
  <2>1. m = [m EXCEPT !.power = m.power] /\ m.power \in Power
    BY DEF Machine
  <2> QED
    BY <2>1 DEF Commanded, Power
<1> QED
  BY <1>1 DEF Machine

\* An upgrade appends a running task and leaves the rest alone.
LEMMA UpgradingFacts ==
    ASSUME NEW m \in Machine, NEW v \in Versions
    PROVE  /\ Upgrading(m, v) \in Machine
           /\ Upgrading(m, v).firmware = m.firmware
           /\ Upgrading(m, v).staged = m.staged /\ Upgrading(m, v).power = m.power
           /\ Len(Upgrading(m, v).tasks) = Len(m.tasks) + 1
           /\ \A t \in 1..Len(m.tasks) : Upgrading(m, v).tasks[t] = m.tasks[t]
           /\ Upgrading(m, v).tasks[Len(m.tasks) + 1].state = "running"
<1> DEFINE task == [version |-> v, state |-> "running"]
           tasks == Append(m.tasks, task)
<1>1. task \in Task /\ task.state = "running"
  BY DEF Task, TaskState
<1>2. m.tasks \in Seq(Task)
  BY MachineFacts
<1>3. /\ tasks \in Seq(Task) /\ Len(tasks) = Len(m.tasks) + 1
      /\ \A t \in 1..Len(m.tasks) : tasks[t] = m.tasks[t]
      /\ tasks[Len(m.tasks) + 1] = task
  <2> HIDE DEF task
  <2> QED
    BY <1>1, <1>2
<1>4. Upgrading(m, v) = [m EXCEPT !.tasks = tasks]
  BY DEF Upgrading
<1> HIDE DEF tasks, task
<1> QED
  BY <1>1, <1>3, <1>4 DEF Machine

\* What becomes of a task.
TaskSet(m, t, state) == [m.tasks EXCEPT ![t].state = state]
\* The end of a task changes that task alone.
LEMMA TaskFacts ==
    ASSUME NEW m \in Machine, NEW t \in 1..Len(m.tasks), NEW state \in TaskState,
           NEW tasks, tasks = TaskSet(m, t, state)
    PROVE  /\ tasks \in Seq(Task) /\ Len(tasks) = Len(m.tasks)
           /\ \A u \in 1..Len(m.tasks) :
                tasks[u].state = IF u = t THEN state ELSE m.tasks[u].state
<1>1. m.tasks \in Seq(Task)
  BY MachineFacts
<1>2. m.tasks[t] \in Task /\ [m.tasks[t] EXCEPT !.state = state] \in Task
      /\ [m.tasks[t] EXCEPT !.state = state].state = state
  <2>1. m.tasks[t] \in Task
    BY <1>1
  <2> QED
    BY <2>1 DEF Task
<1>3. tasks = [m.tasks EXCEPT ![t] = [m.tasks[t] EXCEPT !.state = state]]
  BY DEF TaskSet
<1> QED
  BY <1>1, <1>2, <1>3

\* Writing a value of the right type keeps the type of the stream.
LEMMA WriteTypes ==
    /\ \A new \in Maintenance :
         maintenances \in Seq(Maintenance) /\ Len(maintenances) > 0 /\ WriteMaintenance(new)
           => maintenances' \in Seq(Maintenance) /\ Len(maintenances') > 0
    /\ \A new \in BOOLEAN :
         resets \in Seq(BOOLEAN) /\ Len(resets) > 0
           => Write(resets, new) \in Seq(BOOLEAN) /\ Len(Write(resets, new)) > 0
    /\ \A new \in BIOSVersionObject :
         /\ objects \in Seq(BIOSVersionObject) /\ Len(objects) > 0
         /\ \A i \in 1..Len(objects) : objects[i].task =< Len(machine.tasks)
         /\ new.task =< Len(machine.tasks)
         => /\ Write(objects, new) \in Seq(BIOSVersionObject) /\ Len(Write(objects, new)) > 0
            /\ \A i \in 1..Len(Write(objects, new)) :
                  Write(objects, new)[i].task =< Len(machine.tasks)
<1>1. ASSUME NEW new \in Maintenance, maintenances \in Seq(Maintenance),
             Len(maintenances) > 0, WriteMaintenance(new)
      PROVE  maintenances' \in Seq(Maintenance) /\ Len(maintenances') > 0
  BY <1>1, WriteFacts DEF WriteMaintenance
<1>2. ASSUME NEW new \in BOOLEAN, resets \in Seq(BOOLEAN), Len(resets) > 0
      PROVE  Write(resets, new) \in Seq(BOOLEAN) /\ Len(Write(resets, new)) > 0
  BY <1>2, WriteFacts
<1>3. ASSUME NEW new \in BIOSVersionObject,
             objects \in Seq(BIOSVersionObject), Len(objects) > 0,
             \A i \in 1..Len(objects) : objects[i].task =< Len(machine.tasks),
             new.task =< Len(machine.tasks)
      PROVE  /\ Write(objects, new) \in Seq(BIOSVersionObject)
             /\ Len(Write(objects, new)) > 0
             /\ \A i \in 1..Len(Write(objects, new)) :
                   Write(objects, new)[i].task =< Len(machine.tasks)
  <2>1. /\ Write(objects, new) \in Seq(BIOSVersionObject) /\ Len(Write(objects, new)) > 0
        /\ \A i \in 1..Len(objects) : Write(objects, new)[i] = objects[i]
        /\ \A i \in 1..Len(Write(objects, new)) :
              i \in 1..Len(objects) \/ (Write(objects, new)[i] = new /\ i = Len(objects) + 1)
    BY <1>3, WriteFacts
  <2>2. ASSUME NEW i \in 1..Len(Write(objects, new))
        PROVE  Write(objects, new)[i].task =< Len(machine.tasks)
    BY <1>3, <2>1
  <2> QED
    BY <2>1, <2>2
<1> QED
  BY <1>1, <1>2, <1>3

\* The stored and the cached maintenance.
LEMMA MaintenanceFacts ==
    ASSUME NEW x \in Maintenance, x # None
    PROVE  /\ x.state \in MaintenanceState /\ x.deleting \in BOOLEAN
           /\ \A s \in MaintenanceState : /\ [x EXCEPT !.state = s] \in Maintenance
                                          /\ [x EXCEPT !.state = s] # None
                                          /\ [x EXCEPT !.state = s].state = s
                                          /\ [x EXCEPT !.state = s].deleting = x.deleting
           /\ [x EXCEPT !.deleting = TRUE] \in Maintenance
           /\ [x EXCEPT !.deleting = TRUE] # None
           /\ [x EXCEPT !.deleting = TRUE].deleting = TRUE
           /\ [x EXCEPT !.deleting = TRUE].state = x.state
<1>1. x \in [state : MaintenanceState, deleting : BOOLEAN]
  BY DEF Maintenance
<1>2. /\ x.state \in MaintenanceState /\ x.deleting \in BOOLEAN
      /\ \A s \in MaintenanceState :
           /\ [x EXCEPT !.state = s] \in [state : MaintenanceState, deleting : BOOLEAN]
           /\ [x EXCEPT !.state = s].state = s
           /\ [x EXCEPT !.state = s].deleting = x.deleting
      /\ [x EXCEPT !.deleting = TRUE] \in [state : MaintenanceState, deleting : BOOLEAN]
      /\ [x EXCEPT !.deleting = TRUE].deleting = TRUE
      /\ [x EXCEPT !.deleting = TRUE].state = x.state
  BY <1>1
<1> QED
  BY <1>2, AbsenceAssumption DEF Maintenance

\* The rest of a reconcile.
LEMMA ProceedTypes ==
    ASSUME NEW do \in Seq(Effect), do # <<>>, NEW again \in BOOLEAN,
           NEW copy \in BIOSVersionObject, Proceed(do, again, copy), job' # Idle
    PROVE  /\ job' \in Job /\ job'.do # <<>> /\ job'.copy = copy
           /\ job'.do = Tail(do) /\ job'.again = again /\ Len(do) > 1
<1>1. Len(do) # 1 /\ job' = [do |-> Tail(do), again |-> again, copy |-> copy]
  BY DEF Proceed
<1>2. Len(do) > 1 /\ Tail(do) \in Seq(Effect) /\ Tail(do) # <<>>
  <2>2. Len(do) > 1
    BY <1>1, NonEmpty
  <2> QED
    BY <2>2, TailNonEmpty
<1> QED
  BY <1>1, <1>2 DEF Job

\* Tasks are never forgotten.
LEMMA KeepTypes ==
    ASSUME VTypes, machine' \in Machine, Len(machine.tasks) =< Len(machine'.tasks)
    PROVE  /\ objects' = objects => ObjectsOK'
           /\ job' = job => JobOK'
<1>1. Len(machine.tasks) \in Nat /\ Len(machine'.tasks) \in Nat
  BY MachineFacts DEF VTypes, EnvironmentOK
<1>2. \A x \in BIOSVersionObject :
        x.task =< Len(machine.tasks) => x.task =< Len(machine'.tasks)
  BY <1>1, ObjectFacts, ResourceAssumption
<1>3. ASSUME objects' = objects
      PROVE  ObjectsOK'
  BY <1>2, <1>3 DEF VTypes, ObjectsOK
<1>4. ASSUME job' = job
      PROVE  JobOK'
  BY <1>2, <1>4 DEF VTypes, JobOK, Job
<1> QED
  BY <1>3, <1>4

\* A step of the controller that leaves the object and the machine alone.
LEMMA ProceedJob ==
    ASSUME VTypes, NEW do \in Seq(Effect), do # <<>>, NEW again \in BOOLEAN,
           NEW copy \in BIOSVersionObject,
           copy.task =< Len(machine'.tasks), Proceed(do, again, copy)
    PROVE  JobOK'
  BY ProceedTypes DEF JobOK

\* Whether the object is queued stays a truth value.
LEMMA QueuedTypes ==
    ASSUME NEW do, NEW again, queued' = Requests(do, again)
    PROVE  queued' \in BOOLEAN
  BY DEF Requests

\* A status write keeps the task, clears it or takes the newest one.
LEMMA StatusTasks ==
    ASSUME NEW o \in BIOSVersionObject, NEW e \in Effect, e.op = "status",
           NEW x, x = After(e, o)
    PROVE  x.task \in {o.task, 0, Len(machine.tasks)}
<1> DEFINE state == IF e.state = "same" THEN o.state ELSE e.state
           task == CASE e.task = "keep" -> o.task
                     [] e.task = "clear" -> 0
                     [] e.task = "new" -> Len(machine.tasks)
           conds == IF e.type = None THEN NoConditions
                    ELSE [o.conds EXCEPT ![e.type] = e.value]
<1>1. DOMAIN o = Fields
  BY ObjectFacts
<1>2. x = [o EXCEPT !.current = TRUE, !.state = state, !.task = task, !.conds = conds]
  BY DEF After
<1>3. task \in {o.task, 0, Len(machine.tasks)}
  <2>1. e.task \in {"keep", "clear", "new"}
    BY EffectFacts
  <2> QED
    BY <2>1
<1> HIDE DEF state, task, conds
<1>4. x.task = task
  BY <1>1, <1>2 DEF Fields
<1> QED
  BY <1>3, <1>4

\* The object a status write leaves is one of the model's.
LEMMA StatusTask ==
    ASSUME NEW o \in BIOSVersionObject, NEW e \in Effect, e.op = "status",
           o.task =< Len(machine.tasks), Len(machine.tasks) \in Nat, Bounded
    PROVE  After(e, o) \in BIOSVersionObject /\ After(e, o).task =< Len(machine.tasks)
<1> DEFINE x == After(e, o)
<1>1. x.task \in {o.task, 0, Len(machine.tasks)}
  BY StatusTasks
<1>2. x \in BIOSVersionObject
  BY StatusAfter DEF StatusSets
<1> HIDE DEF x
<1>4. x.task =< Len(machine.tasks)
  BY <1>1
<1> QED
  BY <1>2, <1>4 DEF x

\* A write to the object keeps the types.
LEMMA PatchObjectTypes ==
    ASSUME VTypes, NEW do \in Seq(Effect), do # <<>>, NEW again \in BOOLEAN,
           NEW copy \in BIOSVersionObject, copy.task =< Len(machine.tasks),
           PatchObject(do, again, copy), UNCHANGED <<parked, gate, requests, faults>>
    PROVE  VTypes'
<1> DEFINE e == Head(do)
           new == After(e, copy)
           stored == Stored(objects)
           result == Merged(copy, new, stored)
<1>1. /\ e.op \in {"status", "patch"}
      /\ objects' = Write(objects, result)
      /\ Proceed(do, again, result)
      /\ queued' = Requests(do, again)
      /\ UNCHANGED <<maintenances, resets, machine, completion>>
  BY DEF PatchObject
<1>2. e \in Effect
  <2>1. Len(do) > 0
    BY NonEmpty
  <2> QED
    BY <2>1
<1>3. /\ stored \in BIOSVersionObject /\ stored.task =< Len(machine.tasks)
      /\ objects \in Seq(BIOSVersionObject) /\ Len(objects) > 0
  BY EndFacts DEF VTypes, ObjectsOK
<1>4. Len(machine.tasks) \in Nat /\ Bounded
  BY MachineFacts, ResourceAssumption DEF VTypes, EnvironmentOK, Bounded
<1>5. new \in BIOSVersionObject /\ new.task =< Len(machine.tasks)
  <2>1. CASE e.op = "patch"
    BY <1>2, <2>1, PatchAfter
  <2>2. CASE e.op = "status"
    BY <1>2, <1>4, <2>2, StatusTask
  <2> QED
    BY <1>1, <2>1, <2>2
<1>6. result \in BIOSVersionObject /\ result.task =< Len(machine.tasks)
  BY <1>3, <1>5, MergedFacts
<1> HIDE DEF e, new, stored, result
<1>7. ObjectsOK'
  BY <1>1, <1>3, <1>6, WriteTypes DEF VTypes, ObjectsOK
<1>8. JobOK'
  BY <1>1, <1>6, ProceedJob
<1>9. queued' \in BOOLEAN
  BY <1>1, QueuedTypes
<1> QED
  BY <1>1, <1>7, <1>8, <1>9 DEF VTypes, EnvironmentOK

\* Each call of a reconcile keeps the types.
LEMMA PerformTypes ==
    ASSUME VTypes, NEW do \in Seq(Effect), do # <<>>, NEW again \in BOOLEAN,
           NEW copy \in BIOSVersionObject, copy.task =< Len(machine.tasks),
           Perform(do, again, copy)
    PROVE  VTypes'
<1>1. UNCHANGED <<parked, gate, requests>>
  BY DEF Perform
<1>2. Head(do) \in Effect
  <2>1. Len(do) > 0
    BY NonEmpty
  <2> QED
    BY <2>1
<1>3. /\ machine \in Machine /\ Len(machine.tasks) \in Nat
      /\ maintenances \in Seq(Maintenance) /\ Len(maintenances) > 0
      /\ Cached(maintenances) \in Maintenance /\ Stored(maintenances) \in Maintenance
      /\ resets \in Seq(BOOLEAN) /\ Len(resets) > 0
      /\ Cached(resets) \in BOOLEAN /\ Stored(resets) \in BOOLEAN
  BY MachineFacts, EndFacts DEF VTypes, EnvironmentOK
<1>4. UNCHANGED machine => Len(machine.tasks) =< Len(machine'.tasks)
  BY <1>3
<1>5. UNCHANGED <<machine, objects>> => ObjectsOK'
  BY <1>3, <1>4, KeepTypes
<1>6. Proceed(do, again, copy) /\ UNCHANGED machine => JobOK'
  BY <1>3, ProceedJob
<1>7. CASE PatchObject(do, again, copy) /\ UNCHANGED faults
  BY <1>1, <1>7, PatchObjectTypes
<1>8. CASE PatchServer(do, again, copy) /\ UNCHANGED faults
  <2>1. completion' \in CompletionStatus /\ queued' \in BOOLEAN
    BY <1>2, <1>8, EffectFacts DEF PatchServer
  <2> QED
    BY <1>1, <1>5, <1>6, <1>8, <2>1 DEF PatchServer, VTypes, EnvironmentOK
<1>9. CASE RequestReset(do, again, copy) /\ UNCHANGED faults
  <2>1. resets' \in Seq(BOOLEAN) /\ Len(resets') > 0
    <3> DEFINE result == IF Cached(resets) THEN Stored(resets) ELSE TRUE
    <3>1. resets' = Write(resets, result)
      BY <1>9 DEF RequestReset
    <3>2. result \in BOOLEAN
      BY <1>3
    <3> HIDE DEF result
    <3> QED
      BY <1>3, <3>1, <3>2, WriteTypes
  <2>2. queued' \in BOOLEAN
    BY <1>9, QueuedTypes DEF RequestReset
  <2> QED
    BY <1>1, <1>5, <1>6, <1>9, <2>1, <2>2 DEF RequestReset, VTypes, EnvironmentOK
<1>10. CASE DeleteMaintenance(do, again, copy) /\ UNCHANGED faults
  <2>1. maintenances' \in Seq(Maintenance) /\ Len(maintenances') > 0
    BY <1>3, <1>10, MaintenanceFacts, WriteTypes DEF DeleteMaintenance
  <2>2. queued' \in BOOLEAN
    BY <1>10, QueuedTypes DEF DeleteMaintenance
  <2> QED
    BY <1>1, <1>5, <1>6, <1>10, <2>1, <2>2 DEF DeleteMaintenance, VTypes, EnvironmentOK
<1>11. CASE CreateMaintenance(do, again, copy) /\ UNCHANGED faults
  <2> DEFINE new == IF Cached(maintenances) = None THEN [state |-> "", deleting |-> FALSE]
                    ELSE IF Cached(maintenances).state = "Pending"
                    THEN [Stored(maintenances) EXCEPT !.state = ""] ELSE Stored(maintenances)
  <2>1. new \in Maintenance /\ WriteMaintenance(new)
    <3>1. [state |-> "", deleting |-> FALSE] \in Maintenance /\ "" \in MaintenanceState
      BY DEF Maintenance, MaintenanceState
    <3>2. Cached(maintenances) # None => Stored(maintenances) # None
      BY <1>11 DEF CreateMaintenance
    <3>3. WriteMaintenance(new)
      BY <1>11 DEF CreateMaintenance
    <3> QED
      BY <1>3, <3>1, <3>2, <3>3, MaintenanceFacts
  <2> HIDE DEF new
  <2>2. maintenances' \in Seq(Maintenance) /\ Len(maintenances') > 0
    BY <1>3, <2>1, WriteTypes
  <2>3. queued' \in BOOLEAN
    BY <1>11, QueuedTypes DEF CreateMaintenance
  <2> QED
    BY <1>1, <1>5, <1>6, <1>11, <2>2, <2>3 DEF CreateMaintenance, VTypes, EnvironmentOK
<1>12. CASE Refused(do, again, copy) /\ UNCHANGED faults
  BY <1>1, <1>5, <1>12 DEF Refused, VTypes, EnvironmentOK, JobOK
<1>13. CASE SendCommand(do, again, copy) /\ UNCHANGED faults
  <2>1. machine' \in Machine /\ machine'.tasks = machine.tasks
    BY <1>3, <1>13, CommandedFacts DEF SendCommand
  <2>2. Len(machine.tasks) =< Len(machine'.tasks) /\ Len(machine'.tasks) =< MaxUpgrades
    BY <1>3, <2>1 DEF VTypes
  <2>3. ObjectsOK'
    BY <1>13, <2>1, <2>2, KeepTypes DEF SendCommand
  <2>4. JobOK'
    BY <1>13, <2>1, ProceedJob DEF SendCommand
  <2>5. queued' \in BOOLEAN
    BY <1>13, QueuedTypes DEF SendCommand
  <2> QED
    BY <1>1, <1>13, <2>1, <2>2, <2>3, <2>4, <2>5 DEF SendCommand, VTypes, EnvironmentOK
<1>14. CASE IssueUpgrade(do, again, copy) /\ UNCHANGED faults
  <2>1. Head(do).version \in Versions
    BY <1>2, <1>14, EffectFacts DEF IssueUpgrade
  <2>2. machine' \in Machine /\ Len(machine'.tasks) = Len(machine.tasks) + 1
    BY <1>3, <1>14, <2>1, UpgradingFacts DEF IssueUpgrade
  <2>3. Len(machine.tasks) =< Len(machine'.tasks) /\ Len(machine'.tasks) =< MaxUpgrades
    BY <1>3, <1>14, <2>2, ResourceAssumption DEF IssueUpgrade
  <2>4. ObjectsOK'
    BY <1>14, <2>2, <2>3, KeepTypes DEF IssueUpgrade
  <2>5. copy.task =< Len(machine'.tasks)
    BY <1>3, <2>2, ObjectFacts, ResourceAssumption
  <2>6. JobOK'
    BY <1>14, <2>5, ProceedJob DEF IssueUpgrade
  <2>7. queued' \in BOOLEAN
    BY <1>14, QueuedTypes DEF IssueUpgrade
  <2> QED
    BY <1>1, <1>14, <2>2, <2>3, <2>4, <2>6, <2>7 DEF IssueUpgrade, VTypes, EnvironmentOK
<1>15. CASE FailUpgrade(do, copy)
  <2>1. Head(do).version \in Versions
    BY <1>2, <1>15, EffectFacts DEF FailUpgrade
  <2>2. /\ machine' \in Machine /\ Len(machine.tasks) =< Len(machine'.tasks)
        /\ Len(machine'.tasks) =< MaxUpgrades
    <3>1. CASE machine' = machine
      BY <1>3, <3>1 DEF VTypes
    <3>2. CASE machine' = Upgrading(machine, Head(do).version) /\ Len(machine.tasks) < MaxUpgrades
      <4>1. machine' \in Machine /\ Len(machine'.tasks) = Len(machine.tasks) + 1
        BY <1>3, <2>1, <3>2, UpgradingFacts
      <4> QED
        BY <1>3, <3>2, <4>1, ResourceAssumption
    <3> QED
      BY <1>15, <3>1, <3>2 DEF FailUpgrade
  <2>3. ObjectsOK'
    BY <1>15, <2>2, KeepTypes DEF FailUpgrade
  <2>4. copy.task =< Len(machine'.tasks)
    <3>1. Len(machine'.tasks) \in Nat
      BY <2>2, MachineFacts
    <3> QED
      BY <1>3, <2>2, <3>1, ObjectFacts, ResourceAssumption
  <2>5. JobOK'
    <3> DEFINE record == UpdateStatus("Failed", "clear", "VersionUpgradeIssued", "failed")
    <3>1. record \in Effect
      BY ConditionFacts, StatusTypes DEF State
    <3>2. job' = [do |-> <<record>>, again |-> FALSE, copy |-> copy]
      BY <1>15 DEF FailUpgrade
    <3> HIDE DEF record
    <3>3. <<record>> \in Seq(Effect) /\ <<record>> # <<>>
      BY <3>1
    <3> QED
      BY <2>4, <3>2, <3>3 DEF JobOK, Job
  <2>6. queued' \in BOOLEAN /\ faults' \in Nat
    <3>1. queued' \in BOOLEAN
      <4>1. Requests(do, FALSE) \in BOOLEAN
        BY DEF Requests
      <4>2. queued' = Requests(do, FALSE)
        BY <1>15 DEF FailUpgrade
      <4> QED
        BY <4>1, <4>2
    <3>2. faults' = faults + 1 /\ faults \in Nat
      BY <1>15 DEF FailUpgrade, VTypes, EnvironmentOK
    <3> QED
      BY <3>1, <3>2
  <2>7. UNCHANGED <<maintenances, resets, completion>>
    BY <1>15 DEF FailUpgrade
  <2> QED
    BY <1>1, <2>2, <2>3, <2>5, <2>6, <2>7 DEF VTypes, EnvironmentOK
<1> QED
  BY <1>7, <1>8, <1>9, <1>10, <1>11, <1>12, <1>13, <1>14, <1>15 DEF Perform

\* The steps of the environment.
LEMMA EnvironmentTypes ==
    ASSUME VTypes,
           \/ MaintenancePending \/ MaintenanceGranted \/ Unpark \/ MaintenanceGone
           \/ GarbageCollect \/ BMCReset,
           requests' = requests, queued' \in BOOLEAN
    PROVE  VTypes'
<1>1. /\ maintenances \in Seq(Maintenance) /\ Len(maintenances) > 0
      /\ resets \in Seq(BOOLEAN) /\ Len(resets) > 0
      /\ machine \in Machine /\ Len(machine.tasks) \in Nat
      /\ Stored(maintenances) \in Maintenance
  BY MachineFacts, EndFacts DEF VTypes, EnvironmentOK
<1>2. /\ \A s \in {"Pending", "InMaintenance"} : s \in MaintenanceState
      /\ None \in Maintenance
  BY DEF MaintenanceState, Maintenance
<1>3. UNCHANGED <<objects, machine, completion, gate, job, faults>>
  BY DEF MaintenancePending, MaintenanceGranted, Unpark, MaintenanceGone, GarbageCollect,
         BMCReset
<1>4. ObjectsOK' /\ JobOK'
  BY <1>1, <1>3, KeepTypes
<1>5. maintenances' \in Seq(Maintenance) /\ Len(maintenances') > 0
  <2>1. CASE MaintenancePending
    BY <1>1, <1>2, <2>1, MaintenanceFacts, WriteTypes DEF MaintenancePending
  <2>2. CASE MaintenanceGranted
    BY <1>1, <1>2, <2>2, MaintenanceFacts, WriteTypes DEF MaintenanceGranted
  <2>3. CASE MaintenanceGone
    BY <1>1, <1>2, <2>3, WriteTypes DEF MaintenanceGone
  <2>4. CASE GarbageCollect
    BY <1>1, <2>4, MaintenanceFacts, WriteTypes DEF GarbageCollect
  <2>5. CASE Unpark \/ BMCReset
    BY <1>1, <2>5 DEF Unpark, BMCReset
  <2> QED
    BY <2>1, <2>2, <2>3, <2>4, <2>5
<1>6. resets' \in Seq(BOOLEAN) /\ Len(resets') > 0
  <2>1. CASE BMCReset
    <3>1. resets' = Write(resets, FALSE)
      BY <2>1 DEF BMCReset
    <3>2. FALSE \in BOOLEAN
      OBVIOUS
    <3> QED
      BY <1>1, <3>1, <3>2, WriteTypes
  <2>2. CASE ~BMCReset
    BY <1>1, <2>2 DEF MaintenancePending, MaintenanceGranted, Unpark, MaintenanceGone,
                      GarbageCollect
  <2> QED
    BY <2>1, <2>2
<1>7. parked' \in BOOLEAN
  <2>1. parked \in BOOLEAN
    BY DEF VTypes, EnvironmentOK
  <2> QED
    BY <2>1 DEF MaintenancePending, MaintenanceGranted, Unpark, MaintenanceGone,
                GarbageCollect, BMCReset
<1> QED
  BY <1>3, <1>4, <1>5, <1>6, <1>7 DEF VTypes, EnvironmentOK

\* The machine carries out commands and tasks.
LEMMA HardwareFacts ==
    ASSUME machine \in Machine,
           \/ PowerChange
           \/ \E t \in 1..Len(machine.tasks) : TaskCompletes(t) \/ TaskFails(t)
    PROVE  machine' \in Machine /\ Len(machine'.tasks) = Len(machine.tasks)
<1>1. CASE PowerChange
  <2>1. \/ machine' = [machine EXCEPT !.power = "Off"]
        \/ machine' = [machine EXCEPT !.power = "Restarting"]
        \/ machine' = Started(machine)
    BY <1>1 DEF PowerChange
  <2>2. \/ machine' = [machine EXCEPT !.power = "Off"]
        \/ machine' = [machine EXCEPT !.power = "Restarting"]
        => machine' \in Machine /\ machine'.tasks = machine.tasks
    BY DEF Machine, Power
  <2>3. Started(machine) \in Machine /\ Started(machine).tasks = machine.tasks
    BY DEF Started, Machine, Power
  <2> QED
    BY <2>1, <2>2, <2>3
<1>2. ASSUME NEW t \in 1..Len(machine.tasks), TaskCompletes(t) \/ TaskFails(t)
      PROVE  machine' \in Machine /\ Len(machine'.tasks) = Len(machine.tasks)
  <2>1. PICK state \in {"completed", "failed", "gone"},
             staged \in Versions \cup {None}, firmware \in Versions :
          machine' = [machine EXCEPT !.tasks = [machine.tasks EXCEPT ![t].state = state],
                                     !.staged = staged, !.firmware = firmware]
    <3>1. machine.tasks[t].version \in Versions /\ machine.staged \in Versions \cup {None}
          /\ machine.firmware \in Versions
      BY MachineFacts
    <3>2. machine = [machine EXCEPT !.staged = machine.staged, !.firmware = machine.firmware]
      BY DEF Machine
    <3>3. CASE machine' = [machine EXCEPT !.tasks[t].state = "completed",
                                          !.staged = machine.tasks[t].version]
      <4>1. machine' = [machine EXCEPT !.tasks = [machine.tasks EXCEPT ![t].state = "completed"],
                                       !.staged = machine.tasks[t].version,
                                       !.firmware = machine.firmware]
        BY <3>3 DEF Machine
      <4> QED
        BY <3>1, <4>1
    <3>4. CASE machine' = [machine EXCEPT !.tasks[t].state = "gone",
                                          !.firmware = machine.tasks[t].version]
      <4>1. machine' = [machine EXCEPT !.tasks = [machine.tasks EXCEPT ![t].state = "gone"],
                                       !.staged = machine.staged,
                                       !.firmware = machine.tasks[t].version]
        BY <3>4 DEF Machine
      <4> QED
        BY <3>1, <4>1
    <3>5. CASE machine' = [machine EXCEPT !.tasks[t].state = "failed"]
      <4>1. machine' = [machine EXCEPT !.tasks = [machine.tasks EXCEPT ![t].state = "failed"],
                                       !.staged = machine.staged,
                                       !.firmware = machine.firmware]
        BY <3>5 DEF Machine
      <4> QED
        BY <3>1, <4>1
    <3> QED
      BY <1>2, <3>3, <3>4, <3>5 DEF TaskCompletes, TaskFails
  <2> DEFINE tasks == [machine.tasks EXCEPT ![t].state = state]
  <2>2. tasks \in Seq(Task) /\ Len(tasks) = Len(machine.tasks)
    <3>1. state \in TaskState
      BY DEF TaskState
    <3>2. tasks = TaskSet(machine, t, state)
      BY DEF TaskSet
    <3> HIDE DEF tasks
    <3> QED
      BY <3>1, <3>2, TaskFacts
  <2>3. machine' = [machine EXCEPT !.tasks = tasks, !.staged = staged, !.firmware = firmware]
    BY <2>1
  <2> HIDE DEF tasks
  <2> QED
    BY <2>2, <2>3 DEF Machine
<1> QED
  BY <1>1, <1>2

\* So does a step of the machine.
LEMMA HardwareTypes ==
    ASSUME VTypes,
           \/ PowerChange
           \/ \E t \in 1..Len(machine.tasks) : TaskCompletes(t) \/ TaskFails(t),
           requests' = requests
    PROVE  VTypes'
<1>1. machine \in Machine /\ Len(machine.tasks) \in Nat
  BY MachineFacts DEF VTypes, EnvironmentOK
<1>2. machine' \in Machine /\ Len(machine'.tasks) = Len(machine.tasks)
  BY <1>1, HardwareFacts
<1>3. /\ UNCHANGED <<objects, maintenances, parked, resets, completion, gate, queued, job>>
      /\ faults' \in Nat
  <2>1. faults \in Nat /\ faults + 1 \in Nat
    BY DEF VTypes, EnvironmentOK
  <2> QED
    BY <2>1 DEF PowerChange, TaskCompletes, TaskFails
<1>4. ObjectsOK' /\ JobOK'
  BY <1>1, <1>2, <1>3, KeepTypes
<1>5. Len(machine'.tasks) =< MaxUpgrades
  BY <1>2 DEF VTypes
<1> QED
  BY <1>2, <1>3, <1>4, <1>5 DEF VTypes, EnvironmentOK

\* the delivery of a version from any of the streams.
LEMMA DeliveryTypes ==
    ASSUME VTypes, Delivery
    PROVE  VTypes'
<1>1. /\ maintenances \in Seq(Maintenance) /\ resets \in Seq(BOOLEAN)
      /\ objects \in Seq(BIOSVersionObject)
      /\ machine \in Machine /\ Len(machine.tasks) \in Nat
  BY MachineFacts DEF VTypes, EnvironmentOK, ObjectsOK
<1>2. CASE DeliverObject
  <2>1. ObjectsOK'
    <3>1. objects' = Tail(objects) /\ Len(objects) > 1 /\ machine' = machine
      BY <1>2 DEF DeliverObject
    <3>2. /\ Tail(objects) \in Seq(BIOSVersionObject) /\ Len(Tail(objects)) > 0
          /\ \A i \in 1..Len(Tail(objects)) :
               i + 1 \in 1..Len(objects) /\ Tail(objects)[i] = objects[i + 1]
      BY <1>1, <3>1, TailFacts
    <3> QED
      BY <3>1, <3>2 DEF VTypes, ObjectsOK
  <2>2. JobOK'
    BY <1>1, <1>2, KeepTypes DEF DeliverObject
  <2> QED
    BY <1>2, <2>1, <2>2 DEF DeliverObject, VTypes, EnvironmentOK
<1>3. CASE DeliverMaintenance \/ DeliverReset
  <2>1. ObjectsOK' /\ JobOK'
    BY <1>1, <1>3, KeepTypes DEF DeliverMaintenance, DeliverReset
  <2>2. CASE DeliverMaintenance
    BY <1>1, <2>1, <2>2, TailFacts DEF DeliverMaintenance, VTypes, EnvironmentOK
  <2>3. CASE DeliverReset
    <3>1. Tail(resets) \in Seq(BOOLEAN) /\ Len(Tail(resets)) > 0
      BY <1>1, <2>3, TailFacts DEF DeliverReset
    <3>2. queued' \in BOOLEAN
      BY <2>3 DEF DeliverReset
    <3> QED
      BY <2>1, <2>3, <3>1, <3>2 DEF DeliverReset, VTypes, EnvironmentOK
  <2> QED
    BY <1>3, <2>2, <2>3
<1> QED
  BY <1>2, <1>3 DEF Delivery

\* What users and gates do.
LEMMA UserTypes ==
    ASSUME VTypes,
           RetryManually \/ Delete \/ GateChanges \/ \E v \in Versions : ChangeVersion(v)
    PROVE  VTypes'
<1>1. /\ objects \in Seq(BIOSVersionObject) /\ Len(objects) > 0
      /\ Stored(objects) \in BIOSVersionObject
      /\ Stored(objects).task =< Len(machine.tasks)
      /\ machine \in Machine /\ Len(machine.tasks) \in Nat
  BY MachineFacts, EndFacts DEF VTypes, EnvironmentOK, ObjectsOK
<1>2. /\ UNCHANGED <<maintenances, parked, resets, machine, completion, job, faults>>
      /\ requests' \in Nat
  <2>1. requests \in Nat /\ requests + 1 \in Nat
    BY DEF VTypes
  <2> QED
    BY <2>1 DEF RetryManually, Delete, GateChanges, ChangeVersion, Asked
<1>3. JobOK'
  BY <1>1, <1>2, KeepTypes
<1>4. ASSUME NEW new \in BIOSVersionObject, new.task = Stored(objects).task, WriteObject(new)
      PROVE  ObjectsOK'
  BY <1>1, <1>2, <1>4, WriteTypes DEF VTypes, ObjectsOK, WriteObject
<1> DEFINE o == Stored(objects)
<1>5. /\ [o EXCEPT !.retry = TRUE] \in BIOSVersionObject
      /\ [o EXCEPT !.retry = TRUE].task = o.task
      /\ \A phase \in {"deleting", "gone"} : /\ [o EXCEPT !.phase = phase] \in BIOSVersionObject
                                             /\ [o EXCEPT !.phase = phase].task = o.task
      /\ \A v \in Versions :
           /\ [o EXCEPT !.version = v, !.current = FALSE] \in BIOSVersionObject
           /\ [o EXCEPT !.version = v, !.current = FALSE].task = o.task
  <2> HIDE DEF o
  <2>1. o \in BIOSVersionObject
    BY <1>1 DEF o
  <2> QED
    BY <2>1 DEF BIOSVersionObject
<1>6. ObjectsOK'
  <2>1. CASE RetryManually
    BY <1>4, <1>5, <2>1 DEF RetryManually
  <2>2. CASE Delete
    BY <1>4, <1>5, <2>2 DEF Delete
  <2>3. CASE GateChanges
    BY <1>1, <1>2, <2>3, KeepTypes DEF GateChanges
  <2>4. ASSUME NEW v \in Versions, ChangeVersion(v)
        PROVE  ObjectsOK'
    BY <1>4, <1>5, <2>4 DEF ChangeVersion
  <2> QED
    BY <2>1, <2>2, <2>3, <2>4
<1>7. gate' \in BOOLEAN /\ queued' \in BOOLEAN
  BY DEF RetryManually, Delete, GateChanges, ChangeVersion, ServerEvent, VTypes, EnvironmentOK
<1> QED
  BY <1>2, <1>3, <1>6, <1>7 DEF VTypes, EnvironmentOK

\* and the start of a reconcile.
LEMMA ReconcileTypes ==
    ASSUME VTypes, Reconcile
    PROVE  VTypes'
<1>1. /\ Cached(objects) \in BIOSVersionObject
      /\ Cached(objects).task =< Len(machine.tasks)
      /\ Cached(resets) \in BOOLEAN
      /\ machine \in Machine /\ Len(machine.tasks) \in Nat
  BY MachineFacts, EndFacts DEF VTypes, EnvironmentOK, ObjectsOK
<1>2. Cached(objects).task = 0 \/ machine.tasks[Cached(objects).task].state \in TaskState
  <2>1. Cached(objects).task \in Nat
    BY <1>1, ObjectFacts, ResourceAssumption
  <2>2. Cached(objects).task = 0 \/ Cached(objects).task \in 1..Len(machine.tasks)
    BY <1>1, <2>1
  <2> QED
    BY <1>1, <2>2, MachineFacts
<1>3. PICK plan \in Plans(Cached(objects)) :
        IF plan.do = <<>>
        THEN /\ queued' = plan.again
             /\ UNCHANGED <<objects, maintenances, parked, resets, machine,
                            completion, gate, job, faults, requests>>
        ELSE Perform(plan.do, plan.again, Cached(objects))
  BY DEF Reconcile
<1>4. plan.do \in Seq(Effect) /\ plan.again \in BOOLEAN
  BY <1>1, <1>2, PlanTypes DEF GoodPlan
<1>5. CASE plan.do = <<>>
  <2>1. /\ UNCHANGED <<objects, maintenances, parked, resets, machine,
                       completion, gate, job, faults, requests>>
        /\ queued' \in BOOLEAN
    BY <1>3, <1>4, <1>5
  <2>2. ObjectsOK' /\ JobOK'
    BY <1>1, <2>1, KeepTypes
  <2> QED
    BY <2>1, <2>2 DEF VTypes, EnvironmentOK
<1>6. CASE plan.do # <<>>
  BY <1>1, <1>3, <1>4, <1>6, PerformTypes
<1> QED
  BY <1>5, <1>6

\* A failed call loses the rest of the reconcile.
LEMMA FailTypes ==
    ASSUME VTypes, Fail
    PROVE  VTypes'
<1>1. /\ UNCHANGED <<objects, maintenances, parked, resets, machine, completion, gate, requests>>
      /\ job' = Idle /\ queued' = TRUE /\ faults' \in Nat
      /\ machine \in Machine /\ Len(machine.tasks) \in Nat
  BY MachineFacts DEF Fail, VTypes, EnvironmentOK
<1>2. ObjectsOK'
  BY <1>1, KeepTypes
<1>3. JobOK'
  BY <1>1 DEF JobOK
<1> QED
  BY <1>1, <1>2, <1>3 DEF VTypes, EnvironmentOK

\* Every step keeps the types.
LEMMA TypesInvariant == Spec => []VTypes
<1>1. Init => VTypes
  <2>1. SUFFICES ASSUME Init
                 PROVE  VTypes
    OBVIOUS
  <2>2. machine \in Machine /\ Len(machine.tasks) = 0
    <3>1. <<>> \in Seq(Task) /\ Len(<<>>) = 0 /\ Installed \in Versions
      BY BIOSVersionAssumption
    <3> QED
      BY <2>1, <3>1 DEF Init, EnvironmentInit, Machine, Power
  <2>3. EnvironmentOK
    <3>1. None \in Maintenance
      BY DEF Maintenance
    <3>2. maintenances \in Seq(Maintenance) /\ Len(maintenances) > 0
      <4>1. \A x \in Maintenance : <<x>> \in Seq(Maintenance) /\ Len(<<x>>) > 0
        OBVIOUS
      <4>2. maintenances = <<None>>
        BY <2>1 DEF Init, EnvironmentInit
      <4> QED
        BY <3>1, <4>1, <4>2
    <3>3. resets \in Seq(BOOLEAN) /\ Len(resets) > 0
      <4>1. resets = <<FALSE>> /\ FALSE \in BOOLEAN
        BY <2>1 DEF Init, EnvironmentInit
      <4>2. \A x \in BOOLEAN : <<x>> \in Seq(BOOLEAN) /\ Len(<<x>>) > 0
        OBVIOUS
      <4> QED
        BY <4>1, <4>2
    <3>4. /\ parked \in BOOLEAN /\ gate \in BOOLEAN /\ queued \in BOOLEAN
          /\ faults \in Nat /\ completion \in CompletionStatus
      BY <2>1 DEF Init, EnvironmentInit, CompletionStatus
    <3> QED
      BY <2>2, <3>2, <3>3, <3>4 DEF EnvironmentOK
  <2>4. ObjectsOK
    <3> DEFINE o == [phase |-> "live", finalizer |-> FALSE, retry |-> FALSE,
                     version |-> Wanted, ref |-> FALSE, state |-> "", task |-> 0,
                     attempts |-> 0, current |-> FALSE, conds |-> NoConditions]
    <3>1. /\ NoConditions \in [ConditionType -> ConditionValue]
          /\ 0 \in 0..Exhausted /\ 0 \in 0..MaxUpgrades /\ Wanted \in Versions
      BY BIOSVersionAssumption, ResourceAssumption, ConditionFacts DEF NoConditions, Exhausted
    <3>2. o \in BIOSVersionObject /\ o.task = 0
      BY <3>1 DEF BIOSVersionObject, State
    <3>3. objects = <<o>>
      BY <2>1 DEF Init
    <3> HIDE DEF o
    <3> QED
      BY <2>2, <3>2, <3>3 DEF ObjectsOK
  <2>5. JobOK /\ requests \in Nat
    BY <2>1 DEF Init, EnvironmentInit, JobOK
  <2>6. Len(machine.tasks) =< MaxUpgrades
    BY <2>2, ResourceAssumption
  <2> QED
    BY <2>3, <2>4, <2>5, <2>6 DEF VTypes
<1>2. VTypes /\ [Next]_allVars => VTypes'
  <2>1. SUFFICES ASSUME VTypes, [Next]_allVars
                 PROVE  VTypes'
    OBVIOUS
  <2>2. CASE Reconcile
    BY <2>1, <2>2, ReconcileTypes
  <2>3. CASE Continue
    <3>1. /\ job.do \in Seq(Effect) /\ job.do # <<>> /\ job.again \in BOOLEAN
          /\ job.copy \in BIOSVersionObject /\ job.copy.task =< Len(machine.tasks)
      BY <2>1, <2>3 DEF Continue, VTypes, JobOK, Job
    <3> QED
      BY <2>1, <2>3, <3>1, PerformTypes DEF Continue
  <2>4. CASE Delivery
    BY <2>1, <2>4, DeliveryTypes
  <2>5. CASE Server
    <3>1. queued' \in BOOLEAN
      BY <2>5 DEF Server, ServerEvent
    <3> QED
      BY <2>1, <2>5, <3>1, EnvironmentTypes DEF Server
  <2>6. CASE Others
    <3>1. CASE MaintenancePending \/ MaintenanceGone \/ GarbageCollect \/ BMCReset
      <4>1. queued' \in BOOLEAN
        BY <2>1, <3>1 DEF MaintenancePending, MaintenanceGone, GarbageCollect, BMCReset,
                          VTypes, EnvironmentOK
      <4> QED
        BY <2>1, <2>6, <3>1, <4>1, EnvironmentTypes DEF Others
    <3>2. CASE PowerChange \/ \E t \in 1..Len(machine.tasks) : TaskCompletes(t)
      BY <2>1, <2>6, <3>2, HardwareTypes DEF Others
    <3> QED
      BY <2>6, <3>1, <3>2 DEF Others
  <2>7. CASE Fail
    BY <2>1, <2>7, FailTypes
  <2>8. CASE \E t \in 1..Len(machine.tasks) : TaskFails(t) /\ UNCHANGED requests
    BY <2>1, <2>8, HardwareTypes
  <2>9. CASE RetryManually \/ Delete \/ GateChanges \/ \E v \in Versions : ChangeVersion(v)
    BY <2>1, <2>9, UserTypes
  <2>10. CASE UNCHANGED allVars
    BY <2>1, <2>10 DEF allVars, VTypes, EnvironmentOK, ObjectsOK, JobOK
  <2> QED
    BY <2>1, <2>2, <2>3, <2>4, <2>5, <2>6, <2>7, <2>8, <2>9, <2>10 DEF Next, Controller
<1> QED
  BY <1>1, <1>2, PTL DEF Spec

\* The state of the controller and of everything around it is well formed.
THEOREM VersionTypeOK == Spec => []TypeOK
<1>1. VTypes => TypeOK
  <2>1. VTypes => (job = Idle \/ job.copy \in BIOSVersionObject)
    BY DEF VTypes, JobOK, Job
  <2> QED
    BY <2>1 DEF VTypes, TypeOK, ObjectsOK
<1> QED
  BY <1>1, TypesInvariant, PTL

-----------------------------------------------------------------------------
(* What holds between the object, its maintenance and the machine          *)

\* The conditions under which commands are safe: the cache of the object is
\* not outdated, an upgrade refused with a fatal error has not started, a
\* restart shows at once, the vendor reports what is pending, no version is
\* changed while the last upgrade's maintenance or manual retry is around, and
\* a gated resource sees its maintenance one version late at most.
Orderly ==
    /\ ~StaleObject /\ ~FatalStarts /\ ~LazyRestart /\ ChecksPending
    /\ User \cap {"changeEarly", "changeRetried"} = {}
    /\ Gated => MaxLag = 1

Held(x) == x # None /\ ~x.deleting
Granted(x) == Held(x) /\ x.state = "InMaintenance"

Run(m) == {t \in 1..Len(m.tasks) : m.tasks[t].state = "running"}
\* The machine runs, and no upgrade is under way or waits for a start.
AtRest(m) == m.power = "On" /\ Run(m) = {} /\ m.staged = None
Off(m) == m.power \in {"Off", "PoweringOn"} \/ AtRest(m)

\* The states in which nothing is done to the machine.
Quiet == {"", "Pending", "Completed"}
Fits(o, m) == m.firmware = o.version
NoneAsked(ms) == ms = <<None>>
Has(o, type) == o.conds[type] = "true"
Issued(o) == Has(o, "VersionUpgradeIssued")
Applied(o) == Has(o, "VersionUpgradeCompleted")

\* A maintenance that the cache shows granted has the Server parked, unless a
\* version behind it is on its way out.
GrantParks(ms, p) ==
    \A i \in 1..Len(ms) : Granted(ms[i]) =>
        p \/ \E j \in 1..Len(ms) : i < j /\ ~Held(ms[j])
\* With caches one version behind, a grant is not taken back.
GrantStays(ms) ==
    MaxLag = 1 => \A i, j \in 1..Len(ms) :
        i < j /\ Granted(ms[i]) /\ Held(ms[j]) => Granted(ms[j])
\* Neither a maintenance in effect nor a version behind it is on its way out.
NoneLeaves(ms) ==
    \A i, j \in 1..Len(ms) :
        i =< j /\ ms[i] # None /\ ms[i].state = "InMaintenance" => Held(ms[j])
AllGranted(ms) == \A i \in 1..Len(ms) : Granted(ms[i])

\* A maintenance is only given back when the firmware fits, or is what the
\* state says; while there is work to do, what is granted stays.
Quitted(o, ms, m) == Fits(o, m) \/ NoneAsked(ms)
Upcoming(o, ms, m) == NoneLeaves(ms) /\ (~Fits(o, m) \/ NoneAsked(ms))
GivenBack(o, ms, m) ==
    o.phase # "gone" =>
        /\ o.state = "" => NoneAsked(ms)
        /\ o.state = "Pending" => Fits(o, m) \/ NoneLeaves(ms)
        /\ o.state = "Completed" => Quitted(o, ms, m)
        /\ o.state \in {"InProgress", "Failed"} => NoneLeaves(ms)
Secured(o, ms) == MaxLag = 1 => AllGranted(ms) /\ o.ref
Kept(o, ms, m) ==
    o.phase # "gone" /\ o.state = "InProgress" /\ (Issued(o) \/ ~AtRest(m))
        => Secured(o, ms)

\* Each condition is set after those it follows.
InOrder(o, m) ==
    /\ Has(o, "UpgradeRebootIssued") \/ Has(o, "UpgradePowerOn") => Applied(o)
    /\ Applied(o) => Issued(o)
    /\ Issued(o) => Has(o, "ResetIssued")
    /\ o.state \in {"", "Pending"} => ~Issued(o)
    /\ o.state # "Failed" =>
         /\ \A type \in StageType : o.conds[type] = "unset"
         /\ o.conds["VersionUpgradeCompleted"] # "failed"
    /\ o.state = "Completed" /\ Has(o, "RetryOfFailedResourceIssued") => Fits(o, m)

\* What the machine is at in each state.
MachineInv(o, m) ==
    /\ o.state \in Quiet => AtRest(m)
    /\ o.state = "Failed" =>
         /\ Run(m) = {}
         /\ Has(o, "PowerOffIssued") => Off(m)
         /\ Has(o, "ServerReset") => AtRest(m)
    /\ o.state = "InProgress" =>
         /\ ~Applied(o) => m.power = "On"
         /\ Issued(o) /\ ~Applied(o) => Run(m) \subseteq {o.task}
         /\ Applied(o) =>
              /\ Run(m) = {} /\ m.power \in {"On", "Restarting"}
              /\ Has(o, "UpgradeRebootIssued") /\ m.power = "On" => m.staged = None
              /\ Has(o, "UpgradePowerOn") => AtRest(m)

\* Who gates on the completion condition is told of the upgrade.
Told(o, m, c) ==
    /\ c = "True" => Run(m) = {} /\ m.staged = None
    /\ o.state = "InProgress" /\ Issued(o) /\ o.phase = "live" => c = "Unknown"

WorkInv(o, ms, p, m, c) ==
    /\ GrantParks(ms, p) /\ GrantStays(ms)
    /\ GivenBack(o, ms, m) /\ Kept(o, ms, m)
    /\ InOrder(o, m) /\ MachineInv(o, m) /\ Told(o, m, c)
    /\ "delete" \notin User => o.phase = "live"

-----------------------------------------------------------------------------
(* What a reconcile may still have to do                                   *)

Unasks(e) == e.op = "patch" /\ "ref" \in DOMAIN e.fields /\ ~e.fields.ref
Retries(e) == e.op = "patch" /\ "state" \in DOMAIN e.fields
Finishes(e) == e.op = "patch" /\ "finalizer" \in DOMAIN e.fields /\ ~e.fields.finalizer
Stays(e) == e.state = "same" /\ e.task = "keep"
Persists(e) == e.state = "same" /\ e.task = "clear"
From(o, e, from, to) == o.state = from /\ e.state = to

\* Effects other than commands, and when a reconcile may have them to do.
AllowedCompletion(e, o, m) ==
    /\ e.status \in {"True", "False"} => o.state \in Quiet
    /\ e.status = "Unknown" => o.state = "InProgress"
    /\ e.status = "absent" => o.phase = "deleting"
AllowedPatch(e, o, m) ==
    /\ Unasks(e) /\ o.state = "InProgress" /\ MaxLag = 1 => AtRest(m) /\ ~Issued(o)
    /\ Retries(e) => /\ o.state = "Failed" /\ AtRest(m)
                     /\ \A type \in ConditionType \ {"RetryOfFailedResourceIssued"} :
                           e.fields.conds[type] = "unset"
    /\ Finishes(e) => o.phase = "deleting" /\ (MaxLag = 1 => Run(m) = {})
Settles(e, o, ms, m) ==
    /\ e.type = None /\ e.state = "Completed" /\ o.state \in Quiet
    /\ Quitted(o, ms, m)
Starts(e, o, ms, m) ==
    /\ e.type \in {None, "RetryOfFailedResourceIssued"}
    /\ \/ o.state \in {"", "Pending"} /\ e.state = "InProgress"
       \/ e.type = None /\ From(o, e, "Completed", "Pending")
    /\ Upcoming(o, ms, m)
    /\ e.type = None \/ e.value = "true"
Gates(e, o, m) ==
    /\ e.type = "ReadinessGatesSatisfied" /\ e.task = "keep"
    /\ \/ e.state = "same" \/ From(o, e, "Completed", "Completed")
       \/ e.state = "Pending" /\ o.state \in {"", "Pending"}
       \/ From(o, e, "InProgress", "Pending") /\ AtRest(m) /\ ~Issued(o)
Reports(e, o) ==
    \/ /\ Stays(e)
       /\ e.type \in {"ServerMaintenanceCreated", "ServerMaintenanceWaiting",
                      "UpgradeRebootObservedOff"}
    \/ Persists(e) /\ e.type = "ResetIssued" /\ o.state = "InProgress" /\ ~Issued(o)
Recovers(e, o, m) ==
    /\ Persists(e) /\ o.state = "Failed"
    /\ \/ e.type \in {"RetryResetIssued", "ForcePowerOffIssued", "PowerOnIssued"}
       \/ e.type = "PowerOffIssued" /\ (e.value = "true" => Off(m))
       \/ e.type = "ServerReset" /\ (e.value = "true" => AtRest(m))
Answers(e, o, m) ==
    /\ e.type = "VersionUpgradeCompleted" /\ e.task = "keep"
    /\ o.state = "InProgress" /\ Issued(o) /\ ~Applied(o)
    /\ e.value \in {"true", "failed"} => Run(m) = {}
    /\ e.state = IF e.value = "failed" THEN "Failed" ELSE "same"
Fails(e, o, m) ==
    /\ From(o, e, "InProgress", "Failed") /\ Run(m) = {}
    /\ \/ e.type = "VersionUpgradeIssued" /\ e.value = "failed" /\ ~Applied(o)
       \/ e.type = "UpgradeRebootTimedOut"
Concludes(e, o, m) ==
    /\ o.state = "InProgress" /\ AtRest(m)
    /\ \/ Stays(e) /\ e.type = "UpgradePowerOn" /\ Applied(o)
       \/ /\ e.type = "VersionUpgradeVerification" /\ e.task = "keep"
          /\ e.state = "Completed" /\ Fits(o, m) /\ o.phase = "deleting"
AllowedStatus(e, o, ms, m) ==
    \/ Settles(e, o, ms, m) \/ Starts(e, o, ms, m) \/ Gates(e, o, m) \/ Reports(e, o)
    \/ Recovers(e, o, m) \/ Answers(e, o, m) \/ Fails(e, o, m) \/ Concludes(e, o, m)

Allowed(e, o, ms, m) ==
    \/ e.op = "completion" /\ AllowedCompletion(e, o, m)
    \/ e.op = "patch" /\ AllowedPatch(e, o, m)
    \/ e.op = "status" /\ AllowedStatus(e, o, ms, m)
    \/ e.op = "resetBMC"
    \/ e.op = "createMaintenance" /\ o.state \in {"InProgress", "Failed"}
    \/ /\ e.op = "deleteMaintenance"
       /\ o.state \in {"Pending", "Completed"} /\ Quitted(o, ms, m)

\* What changes the state, or whether the upgrade is applied, comes last.
Moves(e) ==
    \/ e.op = "status" /\ (e.state # "same" \/ e.type = "VersionUpgradeCompleted")
    \/ Retries(e) \/ Finishes(e)
Plain(do, o, ms, m) ==
    \A i \in 1..Len(do) : Allowed(do[i], o, ms, m) /\ (Moves(do[i]) => i = Len(do))

\* Effects that come before a command.
Recounts == Patch([attempts |-> 0, current |-> TRUE])
Prepares(e) == e \in {Tells, SkipsReset, Recounts}
Before(do, e) == \E i \in 1..(Len(do) - 2) : do[i] = e

\* The command at the end of a reconcile, and its record.
SendsUpgrade(do, o, m, c) ==
    /\ \E v \in Versions : do[Len(do) - 1] = Upgrades(v)
    /\ do[Len(do)] = RecordUpgrade
    /\ o.state = "InProgress" /\ ~Issued(o) /\ AtRest(m)
    /\ c = "Unknown" \/ Before(do, Tells)
    /\ Has(o, "ResetIssued") \/ Before(do, SkipsReset)
SendsReset(do, o) ==
    /\ do[Len(do) - 1] = Command("Reset") /\ do[Len(do)] = RecordReboot
    /\ o.state = "InProgress" /\ Applied(o)
    /\ ~Has(o, "UpgradeRebootIssued") /\ ~Has(o, "UpgradePowerOn")
SendsCycle(do, o) ==
    /\ o.state = "Failed" /\ ~Has(o, "ServerReset")
    /\ \/ /\ do[Len(do) - 1] = Command("PowerOff") /\ ~Has(o, "PowerOffIssued")
          /\ do[Len(do)] = Persist("PowerOffIssued", "issued")
       \/ /\ do[Len(do) - 1] = Command("ForcePowerOff") /\ ~Has(o, "PowerOffIssued")
          /\ do[Len(do)] = Persist("ForcePowerOffIssued", "true")
       \/ /\ do[Len(do) - 1] = Command("PowerOn") /\ Has(o, "PowerOffIssued")
          /\ do[Len(do)] = Persist("PowerOnIssued", "issued")
Sends(do, o, ms, p, m, c) ==
    /\ Len(do) > 1
    /\ \A i \in 1..(Len(do) - 2) : Prepares(do[i]) /\ Allowed(do[i], o, ms, m)
    /\ p /\ Held(Stored(ms))
    /\ o.state = "InProgress" => Secured(o, ms)
    /\ SendsUpgrade(do, o, m, c) \/ SendsReset(do, o) \/ SendsCycle(do, o)

\* A command that was sent and is to be recorded.
Records(do, o, ms, m, c) ==
    /\ Len(do) = 1 /\ o.state = "InProgress"
    /\ Secured(o, ms)
    /\ \/ /\ do[1] = RecordUpgrade
          /\ ~Issued(o) /\ Has(o, "ResetIssued") /\ m.power = "On"
          /\ Len(m.tasks) > 0 /\ Run(m) \subseteq {Len(m.tasks)}
          /\ o.phase = "live" => c = "Unknown"
       \/ /\ do[1] = RecordReboot /\ Applied(o)
          /\ m.power = "On" => m.staged = None

Doable(do, o, ms, p, m, c) ==
    Plain(do, o, ms, m) \/ Sends(do, o, ms, p, m, c) \/ Records(do, o, ms, m, c)

\* The copy in memory is what is stored, but for what persons change.
Copies(copy, o) ==
    /\ copy.state = o.state /\ copy.task = o.task /\ copy.conds = o.conds
    /\ copy.ref = o.ref /\ copy.attempts = o.attempts /\ copy.finalizer = o.finalizer

O == Stored(objects)
JobInv ==
    job # Idle =>
        /\ O.phase # "gone" /\ O.finalizer
        /\ job.do # <<>> /\ Copies(job.copy, O)
        /\ Doable(job.do, O, maintenances, parked, machine, completion)
VersionIInv == WorkInv(O, maintenances, parked, machine, completion) /\ JobInv

-----------------------------------------------------------------------------
(* The stream of the maintenance                                           *)

\* The types the safety proofs speak of.
WTypes(o, ms, p, m, c) ==
    /\ o \in BIOSVersionObject /\ ms \in Seq(Maintenance) /\ Len(ms) > 0
    /\ p \in BOOLEAN /\ m \in Machine /\ c \in CompletionStatus

\* The ends of the maintenance's stream.
LEMMA LastFacts ==
    ASSUME NEW ms \in Seq(Maintenance), Len(ms) > 0
    PROVE  /\ Len(ms) \in 1..Len(ms) /\ 1 \in 1..Len(ms)
           /\ Stored(ms) = ms[Len(ms)] /\ Cached(ms) = ms[1]
           /\ NoneAsked(ms) <=> (Len(ms) = 1 /\ Stored(ms) = None)
           /\ NoneAsked(ms) => NoneLeaves(ms)
           /\ NoneLeaves(ms) /\ Granted(ms[1]) => Held(Stored(ms))
           /\ AllGranted(ms) => Granted(Stored(ms)) /\ Granted(Cached(ms))
<1>1. Len(ms) \in Nat /\ ms \in [1..Len(ms) -> Maintenance] /\ DOMAIN ms = 1..Len(ms)
  OBVIOUS
<1>2. /\ Len(ms) \in 1..Len(ms) /\ 1 \in 1..Len(ms)
      /\ Stored(ms) = ms[Len(ms)] /\ Cached(ms) = ms[1]
  BY <1>1 DEF Stored, Cached
<1>3. NoneAsked(ms) <=> (Len(ms) = 1 /\ Stored(ms) = None)
  <2>1. ASSUME NoneAsked(ms)
        PROVE  Len(ms) = 1 /\ Stored(ms) = None
    BY <2>1 DEF NoneAsked, Stored
  <2>2. ASSUME Len(ms) = 1, Stored(ms) = None
        PROVE  NoneAsked(ms)
    BY <1>1, <2>2 DEF NoneAsked, Stored
  <2> QED
    BY <2>1, <2>2
<1>4. NoneAsked(ms) => NoneLeaves(ms)
  <2>1. NoneAsked(ms) => \A i \in 1..Len(ms) : ms[i] = None
    <3>1. NoneAsked(ms) => Len(ms) = 1 /\ ms[1] = None
      BY <1>2, <1>3
    <3>2. \A i \in 1..1 : i = 1
      OBVIOUS
    <3> QED
      BY <3>1, <3>2
  <2> QED
    BY <2>1 DEF NoneLeaves
<1>5. NoneLeaves(ms) /\ Granted(ms[1]) => Held(Stored(ms))
  BY <1>1, <1>2 DEF NoneLeaves, Granted, Held
<1>6. AllGranted(ms) => Granted(Stored(ms)) /\ Granted(Cached(ms))
  BY <1>2 DEF AllGranted
<1> QED
  BY <1>2, <1>3, <1>4, <1>5, <1>6

\* A grant seen in the cache is in force.
LEMMA ActiveFacts ==
    ASSUME NEW ms \in Seq(Maintenance), Len(ms) > 0, NEW p \in BOOLEAN,
           GrantParks(ms, p), GrantStays(ms), NoneLeaves(ms), Granted(Cached(ms))
    PROVE  p /\ Held(Stored(ms)) /\ (MaxLag = 1 => AllGranted(ms))
<1>1. Len(ms) \in Nat /\ 1 \in 1..Len(ms) /\ Cached(ms) = ms[1]
  BY LastFacts
<1>2. \A j \in 1..Len(ms) : Held(ms[j])
  BY <1>1 DEF NoneLeaves, Granted, Held
<1>3. p
  BY <1>1, <1>2 DEF GrantParks
<1>4. Held(Stored(ms))
  BY <1>2, LastFacts
<1>5. MaxLag = 1 => AllGranted(ms)
  BY <1>1, <1>2 DEF GrantStays, AllGranted
<1> QED
  BY <1>3, <1>4, <1>5

\* A delivery.
LEMMA DropMaintenance ==
    ASSUME NEW ms \in Seq(Maintenance), Len(ms) > 1, NEW p \in BOOLEAN, NEW t, t = Tail(ms),
           GrantParks(ms, p), GrantStays(ms)
    PROVE  /\ GrantParks(t, p) /\ GrantStays(t) /\ t \in Seq(Maintenance) /\ Len(t) > 0
           /\ Stored(t) = Stored(ms)
           /\ ~NoneAsked(ms)
           /\ NoneLeaves(ms) => NoneLeaves(t)
           /\ AllGranted(ms) => AllGranted(t)
<1>1. /\ t \in Seq(Maintenance) /\ Len(t) > 0 /\ Stored(t) = Stored(ms)
      /\ Len(t) = Len(ms) - 1 /\ Len(ms) \in Nat /\ Len(t) \in Nat
      /\ \A i \in 1..Len(t) : i + 1 \in 1..Len(ms) /\ t[i] = ms[i + 1]
  BY TailFacts
<1>2. GrantParks(t, p)
  <2>1. SUFFICES ASSUME NEW i \in 1..Len(t), Granted(t[i]), ~p
                 PROVE  \E j \in 1..Len(t) : i < j /\ ~Held(t[j])
    BY DEF GrantParks
  <2>2. PICK j \in 1..Len(ms) : i + 1 < j /\ ~Held(ms[j])
    BY <1>1, <2>1 DEF GrantParks
  <2>3. j - 1 \in 1..Len(t) /\ i < j - 1 /\ t[j - 1] = ms[j]
    <3>1. j - 1 \in 1..Len(t) /\ i < j - 1 /\ (j - 1) + 1 = j
      BY <1>1, <2>2
    <3> QED
      BY <1>1, <3>1
  <2> QED
    BY <2>2, <2>3
<1>3. \A i, j \in 1..Len(t) : i < j <=> i + 1 < j + 1
  BY <1>1
<1>4. \A i, j \in 1..Len(t) : i =< j <=> i + 1 =< j + 1
  BY <1>1
<1>5. GrantStays(t)
  BY <1>1, <1>3 DEF GrantStays
<1>6. NoneLeaves(ms) => NoneLeaves(t)
  BY <1>1, <1>4 DEF NoneLeaves
<1>7. AllGranted(ms) => AllGranted(t)
  BY <1>1 DEF AllGranted
<1>8. ~NoneAsked(ms)
  BY LastFacts
<1> QED
  BY <1>1, <1>2, <1>5, <1>6, <1>7, <1>8

\* A write.
LEMMA WriteMaintenanceFacts ==
    ASSUME NEW ms \in Seq(Maintenance), Len(ms) > 0, NEW p \in BOOLEAN, NEW p2 \in BOOLEAN,
           NEW x \in Maintenance, NEW t, t = Write(ms, x), Writable(ms, x),
           GrantParks(ms, p), GrantStays(ms),
           (Granted(x) /\ p2) \/ (~Granted(x) /\ p2 = p) \/ (x = Stored(ms) /\ p2 = p),
           \/ ~Held(x) \/ Granted(x) \/ x = Stored(ms)
           \/ ~Granted(Cached(ms)) \/ ~Granted(Stored(ms))
    PROVE  /\ GrantParks(t, p2) /\ GrantStays(t)
           /\ t \in Seq(Maintenance) /\ Len(t) > 0 /\ Stored(t) = x
           /\ AllGranted(ms) /\ Granted(x) => AllGranted(t)
           /\ NoneLeaves(ms) /\ (Held(Stored(ms)) => Held(x))
                /\ (x # None /\ x.state = "InMaintenance" => Held(x)) => NoneLeaves(t)
<1>1. CASE x = Stored(ms)
  <2>1. t = ms
    BY <1>1 DEF Write
  <2>2. GrantParks(ms, p2)
    BY DEF GrantParks
  <2> QED
    BY <1>1, <2>1, <2>2
<1>2. CASE x # Stored(ms)
  <2>1. /\ t \in Seq(Maintenance) /\ Len(t) = Len(ms) + 1 /\ Stored(t) = x
        /\ Len(ms) \in Nat /\ Len(t) > 0
        /\ \A i \in 1..Len(ms) : t[i] = ms[i]
        /\ t[Len(ms) + 1] = x
    BY <1>2 DEF Write, Stored
  <2>2. \A i \in 1..Len(t) : i \in 1..Len(ms) \/ i = Len(ms) + 1
    BY <2>1
  <2>3. \A i \in 1..Len(ms) : i \in 1..Len(t) /\ i < Len(ms) + 1
    BY <2>1
  <2>4. Len(ms) + 1 \in 1..Len(t)
    BY <2>1
  <2>5. ASSUME MaxLag = 1
        PROVE  Len(ms) = 1
    <3>1. Len(ms) =< MaxLag
      BY <1>2 DEF Writable
    <3>2. Len(ms) =< 1
      BY <2>5, <3>1
    <3>3. \A n \in Nat : n > 0 /\ n =< 1 => n = 1
      OBVIOUS
    <3> QED
      BY <2>1, <3>2, <3>3
  <2>6. GrantParks(t, p2)
    <3>1. SUFFICES ASSUME NEW i \in 1..Len(t), Granted(t[i]), ~p2
                   PROVE  \E j \in 1..Len(t) : i < j /\ ~Held(t[j])
      BY DEF GrantParks
    <3>2. ~Granted(x) /\ ~p
      BY <1>2, <3>1
    <3>3. i \in 1..Len(ms) /\ t[i] = ms[i]
      BY <2>1, <2>2, <3>1, <3>2
    <3>4. PICK j \in 1..Len(ms) : i < j /\ ~Held(ms[j])
      BY <3>1, <3>2, <3>3 DEF GrantParks
    <3> QED
      BY <2>1, <2>3, <3>4
  <2>7. GrantStays(t)
    <3>1. SUFFICES ASSUME MaxLag = 1, NEW i \in 1..Len(t), NEW j \in 1..Len(t),
                          i < j, Granted(t[i]), Held(t[j])
                   PROVE  Granted(t[j])
      BY DEF GrantStays
    <3>2. Len(ms) = 1 /\ i = 1 /\ j = 2
      <4>1. Len(ms) = 1
        BY <2>5, <3>1
      <4>2. Len(t) = 2
        BY <2>1, <4>1
      <4> QED
        BY <3>1, <4>1, <4>2
    <3>3. t[i] = ms[1] /\ t[j] = x /\ Cached(ms) = ms[1] /\ Stored(ms) = ms[1]
      BY <2>1, <3>2 DEF Cached, Stored
    <3> QED
      BY <1>2, <3>1, <3>3
  <2>8. AllGranted(ms) /\ Granted(x) => AllGranted(t)
    BY <2>1, <2>2 DEF AllGranted
  <2>9. ASSUME NoneLeaves(ms), Held(Stored(ms)) => Held(x),
               x # None /\ x.state = "InMaintenance" => Held(x)
        PROVE  NoneLeaves(t)
    <3>1. SUFFICES ASSUME NEW i \in 1..Len(t), NEW j \in 1..Len(t),
                          i =< j, t[i] # None, t[i].state = "InMaintenance"
                   PROVE  Held(t[j])
      BY DEF NoneLeaves
    <3>2. CASE i \in 1..Len(ms)
      <4>1. t[i] = ms[i]
        BY <2>1, <3>2
      <4>2. CASE j \in 1..Len(ms)
        BY <2>1, <2>9, <3>1, <3>2, <4>1, <4>2 DEF NoneLeaves
      <4>3. CASE j = Len(ms) + 1
        <5>1. Len(ms) \in 1..Len(ms) /\ i =< Len(ms)
          BY <2>1, <3>2
        <5>2. Held(ms[Len(ms)])
          BY <2>9, <3>1, <3>2, <4>1, <5>1 DEF NoneLeaves
        <5> QED
          BY <2>1, <2>9, <4>3, <5>2 DEF Stored
      <4> QED
        BY <2>2, <4>2, <4>3
    <3>3. CASE i = Len(ms) + 1
      <4>1. j = Len(ms) + 1
        BY <2>1, <2>2, <3>1, <3>3
      <4> QED
        BY <2>1, <2>9, <3>1, <3>3, <4>1
    <3> QED
      BY <2>2, <3>2, <3>3
  <2> QED
    BY <2>1, <2>6, <2>7, <2>8, <2>9
<1> QED
  BY <1>1, <1>2

-----------------------------------------------------------------------------
(* What may still be done, after a step of another                         *)

Calm(o, ms, m, o2, ms2, m2) ==
    /\ o2.state = o.state
    /\ Issued(o2) <=> Issued(o)
    /\ Applied(o2) <=> Applied(o)
    /\ o.phase = "deleting" => o2.phase = "deleting"
    /\ AtRest(m) => AtRest(m2)
    /\ Run(m) = {} => Run(m2) = {}
    /\ o.state = "Failed" /\ Off(m) => Off(m2)
    /\ o.state \in Quiet /\ Quitted(o, ms, m) => Quitted(o2, ms2, m2)
    /\ o.state \in Quiet /\ Upcoming(o, ms, m) => Upcoming(o2, ms2, m2)
    /\ o.state = "InProgress" /\ o.phase = "deleting" /\ AtRest(m) /\ Fits(o, m) => Fits(o2, m2)

\* A write that may be made may still be made after calm steps.
LEMMA AllowedStable ==
    ASSUME NEW e, NEW o, NEW ms, NEW m, NEW o2, NEW ms2, NEW m2,
           Calm(o, ms, m, o2, ms2, m2), Allowed(e, o, ms, m)
    PROVE  Allowed(e, o2, ms2, m2)
<1>1. CASE e.op = "completion" /\ AllowedCompletion(e, o, m)
  BY <1>1 DEF Calm, Allowed, AllowedCompletion
<1>2. CASE e.op = "patch" /\ AllowedPatch(e, o, m)
  BY <1>2 DEF Calm, Allowed, AllowedPatch
<1>3. CASE e.op = "status" /\ AllowedStatus(e, o, ms, m)
  <2>1. ASSUME Settles(e, o, ms, m)
        PROVE  Settles(e, o2, ms2, m2)
    BY <2>1 DEF Calm, Settles
  <2>2. ASSUME Starts(e, o, ms, m)
        PROVE  Starts(e, o2, ms2, m2)
    <3>1. o.state \in Quiet
      BY <2>2 DEF Starts, From, Quiet
    <3> QED
      BY <2>2, <3>1 DEF Calm, Starts, From
  <2>3. Gates(e, o, m) => Gates(e, o2, m2)
    BY DEF Calm, Gates, From
  <2>4. Reports(e, o) => Reports(e, o2)
    BY DEF Calm, Reports
  <2>5. Recovers(e, o, m) => Recovers(e, o2, m2)
    BY DEF Calm, Recovers
  <2>6. Answers(e, o, m) => Answers(e, o2, m2)
    BY DEF Calm, Answers
  <2>7. Fails(e, o, m) => Fails(e, o2, m2)
    BY DEF Calm, Fails, From
  <2>8. Concludes(e, o, m) => Concludes(e, o2, m2)
    BY DEF Calm, Concludes
  <2> QED
    BY <1>3, <2>1, <2>2, <2>3, <2>4, <2>5, <2>6, <2>7, <2>8 DEF Allowed, AllowedStatus
<1>4. CASE e.op = "createMaintenance" /\ o.state \in {"InProgress", "Failed"}
  BY <1>4 DEF Calm, Allowed
<1>5. CASE /\ e.op = "deleteMaintenance"
           /\ o.state \in {"Pending", "Completed"} /\ Quitted(o, ms, m)
  BY <1>5 DEF Calm, Allowed, Quiet
<1> QED
  BY <1>1, <1>2, <1>3, <1>4, <1>5 DEF Allowed

\* So may a sequence of writes without a command.
LEMMA PlainStable ==
    ASSUME NEW do, NEW o, NEW ms, NEW m, NEW o2, NEW ms2, NEW m2,
           Calm(o, ms, m, o2, ms2, m2), Plain(do, o, ms, m)
    PROVE  Plain(do, o2, ms2, m2)
  BY AllowedStable DEF Plain

\* What else a command waits for.
Idles(o, ms, p, m, o2, ms2, p2, m2) ==
    /\ o2.conds = o.conds
    /\ p /\ Held(Stored(ms)) => p2 /\ Held(Stored(ms2))
    /\ Secured(o, ms) => Secured(o2, ms2)
    /\ o.state = "InProgress" =>
         /\ m.power = "On" /\ ~Applied(o) => m2.power = "On"
         /\ Len(m2.tasks) = Len(m.tasks) /\ Run(m2) \subseteq Run(m)
         /\ Applied(o) /\ (m.power = "On" => m.staged = None)
              => (m2.power = "On" => m2.staged = None)
    /\ o2.phase = "live" => o.phase = "live"

\* And so may the rest of a reconcile that holds a command.
LEMMA DoableStable ==
    ASSUME NEW do, NEW o, NEW ms, NEW p, NEW m, NEW o2, NEW ms2, NEW p2, NEW m2, NEW c,
           Calm(o, ms, m, o2, ms2, m2), Idles(o, ms, p, m, o2, ms2, p2, m2), InOrder(o, m),
           Doable(do, o, ms, p, m, c)
    PROVE  Doable(do, o2, ms2, p2, m2, c)
<1>1. CASE Plain(do, o, ms, m)
  BY <1>1, PlainStable DEF Doable
<1>2. CASE Sends(do, o, ms, p, m, c)
  <2>1. \A i \in 1..(Len(do) - 2) : Prepares(do[i]) /\ Allowed(do[i], o2, ms2, m2)
    BY <1>2, AllowedStable DEF Sends
  <2>2. p2 /\ Held(Stored(ms2)) /\ (o2.state = "InProgress" => Secured(o2, ms2))
    BY <1>2 DEF Sends, Calm, Idles
  <2>3. SendsUpgrade(do, o, m, c) => SendsUpgrade(do, o2, m2, c)
    BY DEF SendsUpgrade, Calm, Idles, Has
  <2>4. SendsReset(do, o) => SendsReset(do, o2)
    BY DEF SendsReset, Calm, Idles, Has
  <2>5. SendsCycle(do, o) => SendsCycle(do, o2)
    BY DEF SendsCycle, Calm, Idles, Has
  <2> QED
    BY <1>2, <2>1, <2>2, <2>3, <2>4, <2>5 DEF Sends, Doable
<1>3. CASE Records(do, o, ms, m, c)
  <2>1. Len(do) = 1 /\ o2.state = "InProgress" /\ Secured(o2, ms2)
    BY <1>3 DEF Records, Calm, Idles
  <2>2. CASE do[1] = RecordReboot /\ Applied(o) /\ (m.power = "On" => m.staged = None)
    BY <1>3, <2>1, <2>2 DEF Records, Doable, Calm, Idles
  <2>3. CASE /\ do[1] = RecordUpgrade
             /\ ~Issued(o) /\ Has(o, "ResetIssued") /\ m.power = "On"
             /\ Len(m.tasks) > 0 /\ Run(m) \subseteq {Len(m.tasks)}
             /\ o.phase = "live" => c = "Unknown"
    <3>1. ~Applied(o) /\ o.state = "InProgress"
      BY <1>3, <2>3 DEF InOrder, Records
    <3>2. ~Issued(o2) /\ Has(o2, "ResetIssued") /\ m2.power = "On"
      BY <2>3, <3>1 DEF Calm, Idles, Has
    <3>3. Len(m2.tasks) > 0 /\ Run(m2) \subseteq {Len(m2.tasks)}
      BY <2>3, <3>1 DEF Idles
    <3>4. o2.phase = "live" => c = "Unknown"
      BY <2>3 DEF Idles
    <3> QED
      BY <2>1, <2>3, <3>2, <3>3, <3>4 DEF Records, Doable
  <2> QED
    BY <1>3, <2>2, <2>3 DEF Records
<1> QED
  BY <1>1, <1>2, <1>3 DEF Doable

\* The invariant goes on holding, and what a reconcile may do, it still may.
Onward(o, ms, p, m, o2, ms2, p2, m2, c) ==
    /\ WorkInv(o2, ms2, p2, m2, c)
    /\ \A do : Doable(do, o, ms, p, m, c) => Doable(do, o2, ms2, p2, m2, c)

\* The maintenance controller, and the caches.
LEMMA MaintenanceStep ==
    ASSUME NEW o, NEW ms, NEW p, NEW m, NEW c, WorkInv(o, ms, p, m, c),
           NEW ms2, NEW p2, GrantParks(ms2, p2), GrantStays(ms2),
           NoneLeaves(ms) => NoneLeaves(ms2), NoneAsked(ms) => NoneAsked(ms2),
           AllGranted(ms) => AllGranted(ms2),
           p /\ Held(Stored(ms)) => p2 /\ Held(Stored(ms2))
    PROVE  Onward(o, ms, p, m, o, ms2, p2, m, c)
<1>1. Quitted(o, ms, m) => Quitted(o, ms2, m)
  BY DEF Quitted
<1>2. Upcoming(o, ms, m) => Upcoming(o, ms2, m)
  BY DEF Upcoming
<1>3. Secured(o, ms) => Secured(o, ms2)
  BY DEF Secured
<1>4. WorkInv(o, ms2, p2, m, c)
  BY <1>1, <1>3 DEF WorkInv, GivenBack, Kept
<1>5. Calm(o, ms, m, o, ms2, m)
  BY <1>1, <1>2 DEF Calm
<1>6. Idles(o, ms, p, m, o, ms2, p2, m)
  BY <1>3 DEF Idles
<1>7. InOrder(o, m)
  BY DEF WorkInv
<1> QED
  BY <1>4, <1>5, <1>6, <1>7, DoableStable DEF Onward

\* What the machine does by itself.
Works(m, m2) ==
    /\ ~AtRest(m)
    /\ Len(m2.tasks) = Len(m.tasks) /\ Run(m2) \subseteq Run(m)
    /\ m.power \in {"On", "Off"} => m2.power = m.power
    /\ m2.power # m.power /\ m.power \in {"PoweringOn", "Restarting"}
         => m2.power = "On" /\ m2.staged = None
    /\ Run(m) = {} => m2.power # m.power
    /\ m2.staged # None => m.staged # None \/ Run(m) # {}

\* A step of the machine on its own keeps everything.
LEMMA MachineStep ==
    ASSUME NEW o, NEW ms, NEW p, NEW m, NEW c, WorkInv(o, ms, p, m, c),
           o.state \in State, NEW m2, Works(m, m2)
    PROVE  Onward(o, ms, p, m, o, ms, p, m2, c)
<1>1. /\ InOrder(o, m) /\ MachineInv(o, m) /\ Told(o, m, c)
      /\ GivenBack(o, ms, m) /\ Kept(o, ms, m)
  BY DEF WorkInv
<1>2. o.state \in {"InProgress", "Failed"}
  BY <1>1 DEF MachineInv, Works, State, Quiet
<1>3. Run(m) = {} => Run(m2) = {}
  BY DEF Works
<1>4. o.state = "Failed" /\ Off(m) => Off(m2)
  <2>1. SUFFICES ASSUME o.state = "Failed", Off(m)
                 PROVE  Off(m2)
    OBVIOUS
  <2>2. Run(m) = {} /\ Run(m2) = {}
    BY <1>1, <1>3, <2>1 DEF MachineInv
  <2>3. m.power = "PoweringOn"
    BY <2>1, <2>2 DEF Off, Works
  <2>4. m2.power = "On" /\ m2.staged = None
    BY <2>2, <2>3 DEF Works
  <2> QED
    BY <2>2, <2>4 DEF Off, AtRest
<1>5. Calm(o, ms, m, o, ms, m2)
  BY <1>2, <1>3, <1>4 DEF Calm, Works, Quiet
<1>6. o.state = "InProgress" =>
        /\ m.power = "On" /\ ~Applied(o) => m2.power = "On"
        /\ Applied(o) /\ (m.power = "On" => m.staged = None)
             => (m2.power = "On" => m2.staged = None)
  <2>1. SUFFICES ASSUME o.state = "InProgress", Applied(o), m.power = "On" => m.staged = None,
                        m2.power = "On"
                 PROVE  m2.staged = None
    BY DEF Works
  <2>2. Run(m) = {} /\ m.power \in {"On", "Restarting"}
    BY <1>1, <2>1 DEF MachineInv
  <2> QED
    BY <2>1, <2>2 DEF Works
<1>7. Idles(o, ms, p, m, o, ms, p, m2)
  BY <1>6 DEF Idles, Works
<1>8. MachineInv(o, m2)
  <2>1. CASE o.state = "Failed"
    <3>1. Run(m2) = {} /\ (Has(o, "PowerOffIssued") => Off(m2))
      BY <1>1, <1>3, <1>4, <2>1 DEF MachineInv
    <3>2. ~Has(o, "ServerReset")
      BY <1>1, <2>1 DEF MachineInv, Works
    <3> QED
      BY <2>1, <3>1, <3>2 DEF MachineInv, Quiet
  <2>2. CASE o.state = "InProgress" /\ ~Applied(o)
    <3>1. m.power = "On" /\ (Issued(o) => Run(m) \subseteq {o.task})
      BY <1>1, <2>2 DEF MachineInv
    <3>2. m2.power = "On" /\ (Issued(o) => Run(m2) \subseteq {o.task})
      BY <3>1 DEF Works
    <3> QED
      BY <2>2, <3>2 DEF MachineInv, Quiet
  <2>3. CASE o.state = "InProgress" /\ Applied(o)
    <3>1. /\ Run(m) = {} /\ m.power \in {"On", "Restarting"}
          /\ ~Has(o, "UpgradePowerOn")
      BY <1>1, <2>3 DEF MachineInv, Works
    <3>2. m.power = "Restarting" /\ m2.power = "On" /\ m2.staged = None
      BY <3>1 DEF Works
    <3> QED
      BY <1>3, <2>3, <3>1, <3>2 DEF MachineInv, Quiet
  <2> QED
    BY <1>2, <2>1, <2>2, <2>3
<1>9. GivenBack(o, ms, m2) /\ Kept(o, ms, m2)
  BY <1>1, <1>2 DEF GivenBack, Kept, Works
<1>10. InOrder(o, m2)
  BY <1>1, <1>2 DEF InOrder
<1>11. Told(o, m2, c)
  BY <1>1, <1>3 DEF Told, Works
<1>12. WorkInv(o, ms, p, m2, c)
  BY <1>8, <1>9, <1>10, <1>11 DEF WorkInv
<1> QED
  BY <1>1, <1>5, <1>7, <1>12, DoableStable DEF Onward

\* What the machine does by itself, in the steps of the model.
LEMMA WorksFacts ==
    ASSUME machine \in Machine,
           \/ PowerChange
           \/ \E t \in 1..Len(machine.tasks) : TaskCompletes(t) \/ TaskFails(t)
    PROVE  Works(machine, machine')
<1>1. CASE PowerChange
  <2>1. \/ /\ machine' = [machine EXCEPT !.power = "Off"]
           /\ machine.power \in {"PoweringOff", "ForcingOff"}
        \/ machine' = [machine EXCEPT !.power = "Restarting"] /\ machine.power = "Rebooting"
        \/ machine' = Started(machine) /\ machine.power \notin {"On", "Off"}
    BY <1>1 DEF PowerChange
  <2>2. /\ machine'.tasks = machine.tasks
        /\ machine'.power # machine.power /\ machine.power \notin {"On", "Off"}
        /\ machine.power \in {"PoweringOn", "Restarting"}
             => machine'.power = "On" /\ machine'.staged = None
        /\ machine'.staged # None => machine.staged # None
    BY <2>1 DEF Started, Machine
  <2>3. Run(machine') = Run(machine)
    BY <2>2 DEF Run
  <2> QED
    BY <2>2, <2>3 DEF Works, AtRest
<1>2. ASSUME NEW t \in 1..Len(machine.tasks), TaskCompletes(t) \/ TaskFails(t)
      PROVE  Works(machine, machine')
  <2>1. machine.tasks[t].state = "running" /\ t \in Run(machine)
    BY <1>2 DEF TaskCompletes, TaskFails, Run
  <2>2. PICK state \in {"completed", "failed", "gone"} :
          machine'.power = machine.power /\ machine'.tasks = TaskSet(machine, t, state)
    <3>1. \/ machine' = [machine EXCEPT !.tasks[t].state = "completed",
                                        !.staged = machine.tasks[t].version]
          \/ machine' = [machine EXCEPT !.tasks[t].state = "gone",
                                        !.firmware = machine.tasks[t].version]
          \/ machine' = [machine EXCEPT !.tasks[t].state = "failed"]
      BY <1>2 DEF TaskCompletes, TaskFails
    <3>2. ASSUME machine' = [machine EXCEPT !.tasks[t].state = "completed",
                                            !.staged = machine.tasks[t].version]
          PROVE  machine'.power = machine.power
                 /\ machine'.tasks = TaskSet(machine, t, "completed")
      BY <3>2 DEF TaskSet, Machine
    <3>3. ASSUME machine' = [machine EXCEPT !.tasks[t].state = "gone",
                                            !.firmware = machine.tasks[t].version]
          PROVE  machine'.power = machine.power
                 /\ machine'.tasks = TaskSet(machine, t, "gone")
      BY <3>3 DEF TaskSet, Machine
    <3>4. ASSUME machine' = [machine EXCEPT !.tasks[t].state = "failed"]
          PROVE  machine'.power = machine.power
                 /\ machine'.tasks = TaskSet(machine, t, "failed")
      BY <3>4 DEF TaskSet, Machine
    <3> QED
      BY <3>1, <3>2, <3>3, <3>4
  <2>3. /\ Len(machine'.tasks) = Len(machine.tasks)
        /\ \A u \in 1..Len(machine.tasks) :
             machine'.tasks[u].state = IF u = t THEN state ELSE machine.tasks[u].state
    <3>1. state \in TaskState
      BY DEF TaskState
    <3> QED
      BY <2>2, <3>1, TaskFacts, SMTT(20)
  <2>4. Run(machine') \subseteq Run(machine)
    BY <2>3 DEF Run
  <2> QED
    BY <2>1, <2>2, <2>3, <2>4 DEF Works, AtRest
<1> QED
  BY <1>1, <1>2

\* What users do to the object.
Same(o, o2) ==
    /\ o2.state = o.state /\ o2.task = o.task /\ o2.conds = o.conds
    /\ o2.ref = o.ref /\ o2.attempts = o.attempts /\ o2.finalizer = o.finalizer

\* So does a person, who changes the version, asks for a retry or deletes.
LEMMA UserStep ==
    ASSUME NEW o, NEW ms, NEW p, NEW m, NEW c, WorkInv(o, ms, p, m, c),
           NoneAsked(ms) => NoneLeaves(ms),
           NEW o2, Same(o, o2), o.phase = "live", o2.phase \in {"live", "deleting", "gone"},
           "delete" \notin User => o2.phase = "live",
           \/ o2.version = o.version
           \/ /\ o.state \in {"Pending", "Completed"} => NoneAsked(ms)
              /\ ~Has(o, "RetryOfFailedResourceIssued")
    PROVE  Onward(o, ms, p, m, o2, ms, p, m, c)
<1>1. /\ InOrder(o, m) /\ MachineInv(o, m) /\ Told(o, m, c)
      /\ GivenBack(o, ms, m) /\ Kept(o, ms, m)
  BY DEF WorkInv
<1>2. \A type : Has(o2, type) <=> Has(o, type)
  BY DEF Same, Has
<1>3. (Issued(o2) <=> Issued(o)) /\ (Applied(o2) <=> Applied(o))
  BY <1>2 DEF Issued, Applied
<1>4. Fits(o2, m) \/ NoneAsked(ms) \/ o.state \notin Quiet \/ ~Fits(o, m)
  BY <1>1 DEF GivenBack, Quiet, Fits
<1>5. Fits(o, m) \/ NoneAsked(ms) \/ o.state \notin Quiet \/ ~Fits(o2, m)
  BY <1>1 DEF GivenBack, Quiet, Fits
<1>6. Calm(o, ms, m, o2, ms, m)
  BY <1>3, <1>4, <1>5 DEF Calm, Same, Quitted, Upcoming
<1>7. Secured(o, ms) <=> Secured(o2, ms)
  BY DEF Secured, Same
<1>8. Idles(o, ms, p, m, o2, ms, p, m)
  BY <1>7 DEF Idles, Same
<1>9. GivenBack(o2, ms, m)
  BY <1>1, <1>4 DEF GivenBack, Same, Quitted, Quiet
<1>10. Kept(o2, ms, m)
  BY <1>1, <1>3, <1>7 DEF Kept, Same
<1>11. InOrder(o2, m)
  BY <1>1, <1>2, <1>3 DEF InOrder, Same, Fits
<1>12. MachineInv(o2, m)
  BY <1>1, <1>2, <1>3 DEF MachineInv, Same
<1>13. Told(o2, m, c)
  BY <1>1, <1>3 DEF Told, Same
<1>14. WorkInv(o2, ms, p, m, c)
  BY <1>9, <1>10, <1>11, <1>12, <1>13 DEF WorkInv
<1> QED
  BY <1>1, <1>6, <1>8, <1>14, DoableStable DEF Onward

-----------------------------------------------------------------------------
(* Effects, by what they are                                               *)

\* The fields of the writes and the calls.
LEMMA EffectParts ==
    /\ \A type : Marks(type).op = "status" /\ Marks(type).state = "same"
         /\ Marks(type).task = "keep" /\ Marks(type).type = type /\ Marks(type).value = "true"
    /\ \A type, value : /\ Persist(type, value).op = "status"
                        /\ Persist(type, value).state = "same"
                        /\ Persist(type, value).task = "clear"
                        /\ Persist(type, value).type = type
                        /\ Persist(type, value).value = value
    /\ \A s, k, type, value : /\ UpdateStatus(s, k, type, value).op = "status"
                              /\ UpdateStatus(s, k, type, value).state = s
                              /\ UpdateStatus(s, k, type, value).task = k
                              /\ UpdateStatus(s, k, type, value).type = type
                              /\ UpdateStatus(s, k, type, value).value = value
    /\ \A s : PatchCompletion(s).op = "completion" /\ PatchCompletion(s).status = s
    /\ \A f : Patch(f).op = "patch" /\ Patch(f).fields = f
    /\ Resets.op = "resetBMC" /\ Creates.op = "createMaintenance"
    /\ Deletes.op = "deleteMaintenance"
    /\ \A v : Upgrades(v).op = "upgrade" /\ Upgrades(v).version = v
    /\ \A x : Command(x).op = "command" /\ Command(x).command = x
  BY DEF Marks, Persist, UpdateStatus, PatchCompletion, Patch, Resets, Creates, Deletes,
         Upgrades, Command

\* The named records are status writes.
LEMMA RecordParts ==
    /\ RecordUpgrade = UpdateStatus("same", "new", "VersionUpgradeIssued", "true")
    /\ RecordReboot = UpdateStatus("same", "keep", "UpgradeRebootIssued", "true")
    /\ \A type : Marks(type) = UpdateStatus("same", "keep", type, "true")
    /\ \A type, value : Persist(type, value) = UpdateStatus("same", "clear", type, value)
    /\ \A s : ClearStatus(s) = UpdateStatus(s, "clear", None, None)
    /\ \A s : ReadinessGatesNotSatisfied(s)
                = UpdateStatus(s, "keep", "ReadinessGatesSatisfied", "false")
    /\ \A s : Finds(s) = UpdateStatus("same", "keep", "VersionUpgradeCompleted", s)
  BY DEF RecordUpgrade, RecordReboot, Marks, Persist, UpdateStatus, ClearStatus,
         ReadinessGatesNotSatisfied, Finds

\* What comes before a command does not change the state.
LEMMA PrepareParts ==
    ASSUME NEW e, Prepares(e)
    PROVE  /\ \/ e.op = "completion" /\ e.status = "Unknown" /\ e = Tells
              \/ /\ e.op = "status" /\ e.type = "ResetIssued" /\ e.value = "true"
                 /\ e.state = "same" /\ e.task = "clear" /\ e = SkipsReset
              \/ /\ e.op = "patch" /\ DOMAIN e.fields = {"attempts", "current"}
                 /\ e = Recounts
           /\ ~Moves(e)
<1>1. CASE e = Tells
  <2>1. e.op = "completion" /\ e.status = "Unknown"
    BY <1>1, EffectParts DEF Tells
  <2> QED
    BY <1>1, <2>1 DEF Moves, Retries, Finishes
<1>2. CASE e = SkipsReset
  <2>1. /\ e.op = "status" /\ e.type = "ResetIssued" /\ e.value = "true"
        /\ e.state = "same" /\ e.task = "clear"
    BY <1>2, EffectParts DEF SkipsReset
  <2> QED
    BY <1>2, <2>1 DEF Moves, Retries, Finishes
<1>3. CASE e = Recounts
  <2>1. e.op = "patch" /\ e.fields = [attempts |-> 0, current |-> TRUE]
    BY <1>3, EffectParts DEF Recounts
  <2>2. DOMAIN e.fields = {"attempts", "current"}
    BY <2>1
  <2> QED
    BY <1>3, <2>1, <2>2 DEF Moves, Retries, Finishes
<1> QED
  BY <1>1, <1>2, <1>3 DEF Prepares

-----------------------------------------------------------------------------
(* What an effect makes of the stored object                               *)

Changed(e, o, x, n) ==
    /\ x.version = o.version
    /\ x.phase = IF o.phase = "deleting" /\ ~x.finalizer THEN "gone" ELSE o.phase
    /\ e.op = "status" =>
         /\ x.state = IF e.state = "same" THEN o.state ELSE e.state
         /\ e.task = "keep" => x.task = o.task
         /\ e.task = "new" => x.task = n
         /\ \A type \in ConditionType :
              x.conds[type] = IF e.type = None THEN "unset"
                              ELSE IF type = e.type THEN e.value ELSE o.conds[type]
         /\ x.ref = o.ref /\ x.finalizer = o.finalizer
    /\ e.op = "patch" =>
         /\ x.task = o.task
         /\ x.ref = IF "ref" \in DOMAIN e.fields THEN e.fields.ref ELSE o.ref
         /\ x.finalizer = IF "finalizer" \in DOMAIN e.fields THEN e.fields.finalizer
                          ELSE o.finalizer
         /\ x.state = IF "state" \in DOMAIN e.fields THEN e.fields.state ELSE o.state
         /\ x.conds = IF "conds" \in DOMAIN e.fields THEN e.fields.conds ELSE o.conds

\* A write of the object on a copy that agrees with it changes what it names.
LEMMA ChangedFacts ==
    ASSUME NEW o \in BIOSVersionObject, NEW copy \in BIOSVersionObject, Copies(copy, o),
           NEW e \in Effect, e.op \in {"status", "patch"},
           Bounded,
           NEW x, x = Merged(copy, After(e, copy), o)
    PROVE  Changed(e, o, x, Len(machine.tasks)) /\ x \in BIOSVersionObject
<1> DEFINE new == After(e, copy)
<1>1. /\ new \in BIOSVersionObject /\ new.phase = copy.phase /\ new.version = copy.version
  <2>1. CASE e.op = "status"
    BY <2>1, StatusAfter DEF StatusSets
  <2>2. CASE e.op = "patch"
    BY <2>2, PatchAfter
  <2> QED
    BY <2>1, <2>2
<1>2. /\ x \in BIOSVersionObject
      /\ x.finalizer = new.finalizer /\ x.version = o.version /\ x.ref = new.ref
      /\ x.state = new.state /\ x.task = new.task /\ x.conds = new.conds
      /\ x.phase = IF o.phase = "deleting" /\ ~x.finalizer THEN "gone" ELSE o.phase
  <2> HIDE DEF new
  <2>1. x = Merged(copy, new, o)
    BY DEF new
  <2> QED
    BY <1>1, <2>1, MergedFacts DEF Copies
<1>3. CASE e.op = "status"
  <2>1. /\ new.ref = copy.ref /\ new.finalizer = copy.finalizer
        /\ new.state = IF e.state = "same" THEN copy.state ELSE e.state
        /\ \A type \in ConditionType :
             new.conds[type] = IF e.type = None THEN "unset"
                               ELSE IF type = e.type THEN e.value ELSE copy.conds[type]
        /\ e.task = "keep" => new.task = copy.task
        /\ e.task = "new" => new.task = Len(machine.tasks)
    BY <1>3, StatusAfter DEF StatusSets
  <2> HIDE DEF new
  <2> QED
    BY <1>2, <1>3, <2>1 DEF Changed, Copies
<1>4. CASE e.op = "patch"
  <2>1. /\ new.task = copy.task
        /\ new.ref = IF "ref" \in DOMAIN e.fields THEN e.fields.ref ELSE copy.ref
        /\ new.finalizer = IF "finalizer" \in DOMAIN e.fields THEN e.fields.finalizer
                           ELSE copy.finalizer
        /\ new.state = IF "state" \in DOMAIN e.fields THEN e.fields.state ELSE copy.state
        /\ new.conds = IF "conds" \in DOMAIN e.fields THEN e.fields.conds ELSE copy.conds
    BY <1>4, PatchAfter
  <2> HIDE DEF new
  <2> QED
    BY <1>2, <1>4, <2>1 DEF Changed, Copies
<1> QED
  BY <1>2, <1>3, <1>4

\* The conditions the invariant looks at, besides those of the power cycle.
Watched == {"VersionUpgradeIssued", "VersionUpgradeCompleted", "UpgradeRebootIssued",
            "UpgradePowerOn", "RetryOfFailedResourceIssued"}

\* A change that leaves the state alone.
LEMMA StillStep ==
    ASSUME NEW o, NEW ms, NEW p, NEW m, NEW c, WorkInv(o, ms, p, m, c), NEW x,
           x.version = o.version, x.phase = o.phase, x.state = o.state,
           o.ref \in BOOLEAN, x.ref \in BOOLEAN,
           o.state = "InProgress" /\ MaxLag = 1 /\ ~x.ref => ~o.ref \/ (AtRest(m) /\ ~Issued(o)),
           x.task = o.task \/ o.state # "InProgress" \/ ~Issued(o),
           \A type \in Watched : x.conds[type] = o.conds[type],
           Has(x, "ResetIssued") \/ ~Has(o, "ResetIssued") \/ ~Issued(o),
           o.state # "Failed" => \A type \in StageType : x.conds[type] = o.conds[type],
           o.state = "Failed" /\ Has(x, "PowerOffIssued") => Off(m),
           o.state = "Failed" /\ Has(x, "ServerReset") => AtRest(m)
    PROVE  WorkInv(x, ms, p, m, c) /\ Calm(o, ms, m, x, ms, m)
<1>1. /\ InOrder(o, m) /\ MachineInv(o, m) /\ Told(o, m, c)
      /\ GivenBack(o, ms, m) /\ Kept(o, ms, m)
  BY DEF WorkInv
<1>2. /\ Issued(x) <=> Issued(o)
      /\ Applied(x) <=> Applied(o)
      /\ Has(x, "UpgradeRebootIssued") <=> Has(o, "UpgradeRebootIssued")
      /\ Has(x, "UpgradePowerOn") <=> Has(o, "UpgradePowerOn")
      /\ Has(x, "RetryOfFailedResourceIssued") <=> Has(o, "RetryOfFailedResourceIssued")
      /\ x.conds["VersionUpgradeCompleted"] = o.conds["VersionUpgradeCompleted"]
  BY DEF Issued, Applied, Has, Watched
<1>3. Fits(x, m) <=> Fits(o, m)
  BY DEF Fits
<1>4. Calm(o, ms, m, x, ms, m)
  BY <1>2, <1>3 DEF Calm, Quitted, Upcoming
<1>5. GivenBack(x, ms, m)
  BY <1>1, <1>3 DEF GivenBack, Quitted
<1>6. Kept(x, ms, m)
  BY <1>1, <1>2 DEF Kept, Secured
<1>7. InOrder(x, m)
  BY <1>1, <1>2, <1>3 DEF InOrder
<1>8. MachineInv(x, m)
  BY <1>1, <1>2 DEF MachineInv
<1>9. Told(x, m, c)
  BY <1>1, <1>2 DEF Told
<1> QED
  BY <1>4, <1>5, <1>6, <1>7, <1>8, <1>9 DEF WorkInv

-----------------------------------------------------------------------------
(* The effects that change the state                                       *)

\* A status update of an object that is not gone.
Alters(e, o, x, n) ==
    /\ e.op = "status" /\ Changed(e, o, x, n)
    /\ o.phase # "gone" /\ (o.phase = "deleting" => o.finalizer)

\* What a status write leaves alone.
LEMMA AltersFacts ==
    ASSUME NEW e, NEW o, NEW x, NEW n, Alters(e, o, x, n)
    PROVE  /\ x.version = o.version /\ x.phase = o.phase /\ x.ref = o.ref
           /\ x.finalizer = o.finalizer
           /\ x.state = IF e.state = "same" THEN o.state ELSE e.state
           /\ e.task = "keep" => x.task = o.task
           /\ e.task = "new" => x.task = n
  BY DEF Alters, Changed

\* The conditions the invariant speaks of.
Speaks == Watched \cup StageType \cup {"ResetIssued"}
\* The conditions that say something of the machine are conditions.
LEMMA SpeaksFacts ==
    /\ Speaks \subseteq ConditionType
    /\ None \notin ConditionType
  BY ConditionFacts, ConditionAssumption DEF Speaks, Watched, StageType, ConditionType

\* A status update that sets one condition leaves the others.
LEMMA SpokenFacts ==
    ASSUME NEW e, NEW o, NEW x, NEW n, Alters(e, o, x, n), e.type \in ConditionType
    PROVE  /\ x.conds[e.type] = e.value
           /\ \A type \in Speaks : type # e.type => x.conds[type] = o.conds[type]
           /\ e.type \notin Speaks => \A type \in Speaks : x.conds[type] = o.conds[type]
<1>1. e.type # None
  BY SpeaksFacts
<1>2. \A type \in Speaks : type \in ConditionType
  BY SpeaksFacts
<1> QED
  BY <1>1, <1>2 DEF Alters, Changed
\* A write that clears takes them all back.
LEMMA ClearedFacts ==
    ASSUME NEW e, NEW o, NEW x, NEW n, Alters(e, o, x, n), e.type = None
    PROVE  \A type \in Speaks : x.conds[type] = "unset"
  BY SpeaksFacts DEF Alters, Changed
\* Conditions that say nothing of the machine.
LEMMA UnspokenFacts ==
    \A type \in {"ReadinessGatesSatisfied", "UpgradeRebootTimedOut",
                 "VersionUpgradeVerification"} : type \in ConditionType /\ type \notin Speaks
  BY DEF Speaks, Watched, StageType, ConditionType

\* The rest of the invariant, when only what the object is at changes.
LEMMA WorkIntro ==
    ASSUME NEW o, NEW ms, NEW p, NEW m, NEW c, WorkInv(o, ms, p, m, c), NEW x,
           x.phase = o.phase,
           GivenBack(x, ms, m), Kept(x, ms, m), InOrder(x, m), MachineInv(x, m),
           x.state = "InProgress" /\ Issued(x) /\ x.phase = "live" => c = "Unknown"
    PROVE  WorkInv(x, ms, p, m, c)
  BY DEF WorkInv, Told

\* Completing an upgrade keeps what holds between object and machine.
LEMMA SettlesStep ==
    ASSUME NEW o, NEW ms, NEW p, NEW m, NEW c, WorkInv(o, ms, p, m, c), NEW e, NEW x, NEW n,
           Alters(e, o, x, n), Settles(e, o, ms, m)
    PROVE  WorkInv(x, ms, p, m, c)
<1>1. x.state = "Completed" /\ x.phase = o.phase /\ (Fits(x, m) <=> Fits(o, m))
  BY AltersFacts DEF Settles, Fits
<1>2. \A type \in Speaks : x.conds[type] = "unset"
  BY ClearedFacts DEF Settles
<1>3. AtRest(m) /\ Quitted(o, ms, m)
  BY DEF WorkInv, MachineInv, Settles
<1>4. GivenBack(x, ms, m) /\ Kept(x, ms, m)
  BY <1>1, <1>3 DEF GivenBack, Kept, Quitted
<1>5. InOrder(x, m)
  BY <1>1, <1>2 DEF InOrder, Has, Issued, Applied, Speaks, Watched
<1>6. MachineInv(x, m)
  BY <1>1, <1>3 DEF MachineInv
<1> QED
  BY <1>1, <1>4, <1>5, <1>6, WorkIntro

\* So does starting one.
LEMMA StartsStep ==
    ASSUME NEW o, NEW ms, NEW p, NEW m, NEW c, WorkInv(o, ms, p, m, c), NEW e, NEW x, NEW n,
           Alters(e, o, x, n), Starts(e, o, ms, m)
    PROVE  WorkInv(x, ms, p, m, c)
<1>1. /\ x.state \in {"Pending", "InProgress"} /\ x.phase = o.phase
      /\ o.state \in Quiet
      /\ o.state \in {"", "Pending"} \/ e.type = None
  <2>1. /\ e.state \in {"Pending", "InProgress"} /\ o.state \in {"", "Pending", "Completed"}
        /\ o.state \in {"", "Pending"} \/ e.type = None
    BY DEF Starts, From
  <2>2. e.state # "same"
    BY <2>1
  <2>3. x.state = e.state /\ x.phase = o.phase
    BY <2>2, AltersFacts
  <2> QED
    BY <2>1, <2>3 DEF Quiet
<1>2. AtRest(m) /\ NoneLeaves(ms) /\ InOrder(o, m)
  BY <1>1 DEF WorkInv, MachineInv, Starts, Upcoming
<1>3. \A type \in Speaks : type # "RetryOfFailedResourceIssued" =>
         x.conds[type] = "unset" \/ (x.conds[type] = o.conds[type] /\ o.state \in {"", "Pending"})
  <2>1. CASE e.type = None
    BY <2>1, ClearedFacts
  <2>2. CASE e.type = "RetryOfFailedResourceIssued"
    <3>1. e.type \in ConditionType
      BY <2>2, SpeaksFacts DEF Speaks, Watched
    <3>2. \A type \in Speaks : type # e.type => x.conds[type] = o.conds[type]
      BY <3>1, SpokenFacts
    <3>3. o.state \in {"", "Pending"}
      BY <1>1, <2>2, <3>1, SpeaksFacts
    <3> QED
      BY <2>2, <3>2, <3>3
  <2> QED
    BY <2>1, <2>2 DEF Starts
<1>4. /\ ~Issued(x) /\ ~Applied(x)
      /\ ~Has(x, "UpgradeRebootIssued") /\ ~Has(x, "UpgradePowerOn")
      /\ x.conds["VersionUpgradeCompleted"] # "failed"
  BY <1>2, <1>3 DEF InOrder, Has, Issued, Applied, Speaks, Watched
<1>5. \A type \in StageType : x.conds[type] = "unset"
  <2>1. ASSUME NEW type \in StageType
        PROVE  x.conds[type] = "unset"
    <3>1. type \in Speaks /\ type # "RetryOfFailedResourceIssued"
      BY DEF Speaks, StageType
    <3>2. o.state \in {"", "Pending"} => o.conds[type] = "unset"
      BY <1>2 DEF InOrder
    <3> QED
      BY <1>3, <3>1, <3>2
  <2> QED
    BY <2>1
<1>6. GivenBack(x, ms, m)
  BY <1>1, <1>2 DEF GivenBack
<1>7. Kept(x, ms, m)
  BY <1>2, <1>4 DEF Kept
<1>8. InOrder(x, m)
  BY <1>1, <1>4, <1>5 DEF InOrder
<1>9. MachineInv(x, m)
  BY <1>1, <1>2, <1>4 DEF MachineInv, AtRest, Quiet
<1> QED
  BY <1>1, <1>4, <1>6, <1>7, <1>8, <1>9, WorkIntro

\* Closed gates send a resource that did nothing yet back to Pending.
LEMMA GatesStep ==
    ASSUME NEW o, NEW ms, NEW p, NEW m, NEW c, WorkInv(o, ms, p, m, c), NEW e, NEW x, NEW n,
           NoneAsked(ms) => NoneLeaves(ms),
           Alters(e, o, x, n), Gates(e, o, m), e.state = "Pending"
    PROVE  WorkInv(x, ms, p, m, c)
<1>1. /\ x.state = "Pending" /\ x.phase = o.phase /\ x.version = o.version
      /\ o.state \in {"", "Pending", "InProgress"}
      /\ o.state = "InProgress" => AtRest(m) /\ ~Issued(o)
  <2>1. e.state # "same"
    OBVIOUS
  <2>2. /\ o.state \in {"", "Pending", "InProgress"}
        /\ o.state = "InProgress" => AtRest(m) /\ ~Issued(o)
    BY DEF Gates, From
  <2>3. x.state = e.state /\ x.phase = o.phase /\ x.version = o.version
    BY <2>1, AltersFacts
  <2> QED
    BY <2>2, <2>3
<1>2. \A type \in Speaks : x.conds[type] = o.conds[type]
  <2>1. e.type \in ConditionType /\ e.type \notin Speaks
    BY UnspokenFacts DEF Gates
  <2> QED
    BY <2>1, SpokenFacts
<1>3. InOrder(o, m) /\ MachineInv(o, m) /\ GivenBack(o, ms, m)
  BY DEF WorkInv
<1>4. GivenBack(x, ms, m)
  BY <1>1, <1>3 DEF GivenBack, Fits, Quiet
<1>5. Kept(x, ms, m)
  BY <1>1 DEF Kept
<1>6. /\ Issued(x) <=> Issued(o)
      /\ Applied(x) <=> Applied(o)
      /\ Has(x, "UpgradeRebootIssued") <=> Has(o, "UpgradeRebootIssued")
      /\ Has(x, "UpgradePowerOn") <=> Has(o, "UpgradePowerOn")
      /\ Has(x, "ResetIssued") <=> Has(o, "ResetIssued")
      /\ x.conds["VersionUpgradeCompleted"] = o.conds["VersionUpgradeCompleted"]
  BY <1>2 DEF Issued, Applied, Has, Watched, Speaks
<1>7. \A type \in StageType : x.conds[type] = o.conds[type]
  BY <1>2 DEF Speaks
<1>8. InOrder(x, m)
  BY <1>1, <1>3, <1>6, <1>7 DEF InOrder
<1>9. MachineInv(x, m)
  BY <1>1, <1>3 DEF MachineInv, Quiet
<1> QED
  BY <1>1, <1>4, <1>5, <1>8, <1>9, WorkIntro

\* recording what its task or its reboot came to.
LEMMA AnswersStep ==
    ASSUME NEW o, NEW ms, NEW p, NEW m, NEW c, WorkInv(o, ms, p, m, c), NEW e, NEW x, NEW n,
           Alters(e, o, x, n), Answers(e, o, m)
    PROVE  WorkInv(x, ms, p, m, c)
<1>1. /\ x.phase = o.phase /\ x.version = o.version /\ x.ref = o.ref /\ x.task = o.task
      /\ x.state = IF e.value = "failed" THEN "Failed" ELSE "InProgress"
      /\ o.state = "InProgress" /\ Issued(o) /\ ~Applied(o)
      /\ e.value \in {"true", "failed"} => Run(m) = {}
  BY AltersFacts DEF Answers
<1>2. /\ x.conds["VersionUpgradeCompleted"] = e.value
      /\ \A type \in Speaks \ {"VersionUpgradeCompleted"} : x.conds[type] = o.conds[type]
  BY SpokenFacts, SpeaksFacts DEF Answers, Speaks, Watched
<1>3. /\ InOrder(o, m) /\ MachineInv(o, m) /\ GivenBack(o, ms, m) /\ Kept(o, ms, m)
      /\ Told(o, m, c)
  BY DEF WorkInv
<1>4. /\ Issued(x) /\ (Applied(x) <=> e.value = "true")
      /\ ~Has(x, "UpgradeRebootIssued") /\ ~Has(x, "UpgradePowerOn")
      /\ Has(x, "ResetIssued")
  BY <1>1, <1>2, <1>3 DEF Issued, Applied, Has, Speaks, Watched, InOrder
<1>5. \A type \in StageType : x.conds[type] = "unset"
  <2>1. ASSUME NEW type \in StageType
        PROVE  x.conds[type] = "unset"
    <3>1. type \in Speaks \ {"VersionUpgradeCompleted"}
      BY DEF Speaks, StageType
    <3>2. o.conds[type] = "unset"
      BY <1>1, <1>3 DEF InOrder
    <3> QED
      BY <1>2, <3>1, <3>2
  <2> QED
    BY <2>1
<1>6. GivenBack(x, ms, m)
  BY <1>1, <1>3 DEF GivenBack
<1>7. Kept(x, ms, m)
  BY <1>1, <1>3 DEF Kept, Secured
<1>8. InOrder(x, m)
  BY <1>1, <1>2, <1>4, <1>5 DEF InOrder
<1>9. MachineInv(x, m)
  <2>1. ~Has(x, "PowerOffIssued") /\ ~Has(x, "ServerReset")
    BY <1>5 DEF Has, StageType
  <2>2. m.power = "On" /\ Run(m) \subseteq {o.task}
    BY <1>1, <1>3 DEF MachineInv
  <2> QED
    BY <1>1, <1>4, <2>1, <2>2 DEF MachineInv, Quiet
<1> QED
  BY <1>1, <1>3, <1>6, <1>7, <1>8, <1>9, WorkIntro DEF Told

\* and giving it up.
LEMMA FailsStep ==
    ASSUME NEW o, NEW ms, NEW p, NEW m, NEW c, WorkInv(o, ms, p, m, c), NEW e, NEW x, NEW n,
           Alters(e, o, x, n), Fails(e, o, m)
    PROVE  WorkInv(x, ms, p, m, c)
<1>1. /\ x.phase = o.phase /\ x.state = "Failed" /\ o.state = "InProgress" /\ Run(m) = {}
      /\ e.type = "VersionUpgradeIssued" => e.value = "failed" /\ ~Applied(o)
      /\ e.type \in {"VersionUpgradeIssued", "UpgradeRebootTimedOut"}
  BY AltersFacts DEF Fails, From
<1>2. /\ \A type \in Speaks \ {"VersionUpgradeIssued"} : x.conds[type] = o.conds[type]
      /\ \/ x.conds["VersionUpgradeIssued"] = o.conds["VersionUpgradeIssued"]
         \/ ~Applied(o)
  <2>1. CASE e.type = "VersionUpgradeIssued"
    <3>1. e.type \in ConditionType
      BY <2>1, SpeaksFacts DEF Speaks, Watched
    <3> QED
      BY <1>1, <2>1, <3>1, SpokenFacts
  <2>2. CASE e.type = "UpgradeRebootTimedOut"
    <3>1. e.type \in ConditionType /\ e.type \notin Speaks
      BY <2>2, UnspokenFacts
    <3>2. \A type \in Speaks : x.conds[type] = o.conds[type]
      BY <3>1, SpokenFacts
    <3> QED
      BY <3>2 DEF Speaks, Watched
  <2> QED
    BY <1>1, <2>1, <2>2
<1>3. /\ InOrder(o, m) /\ MachineInv(o, m) /\ GivenBack(o, ms, m)
      /\ ~Issued(x) \/ Issued(o)
  <2>1. ~Issued(x) \/ Issued(o)
    <3>1. e.type = "VersionUpgradeIssued" => x.conds["VersionUpgradeIssued"] = "failed"
      <4>1. "VersionUpgradeIssued" \in ConditionType
        BY SpeaksFacts DEF Speaks, Watched
      <4> QED
        BY <1>1, <4>1, SpokenFacts
    <3>2. e.type = "UpgradeRebootTimedOut"
            => x.conds["VersionUpgradeIssued"] = o.conds["VersionUpgradeIssued"]
      <4>1. "UpgradeRebootTimedOut" \in ConditionType /\ "VersionUpgradeIssued" \in Speaks
        BY UnspokenFacts DEF Speaks, Watched
      <4> QED
        BY <4>1, SpokenFacts
    <3> QED
      BY <1>1, <3>1, <3>2 DEF Issued, Has
  <2> QED
    BY <2>1 DEF WorkInv
<1>4. /\ Applied(x) <=> Applied(o)
      /\ Applied(x) => Issued(x)
      /\ Has(x, "UpgradeRebootIssued") => Applied(o)
      /\ Has(x, "UpgradePowerOn") => Applied(o)
      /\ Issued(x) => Has(x, "ResetIssued")
  BY <1>2, <1>3 DEF Issued, Applied, Has, Speaks, Watched, InOrder
<1>5. ~Has(x, "PowerOffIssued") /\ ~Has(x, "ServerReset")
  <2>1. /\ o.conds["PowerOffIssued"] = "unset" /\ o.conds["ServerReset"] = "unset"
    BY <1>1, <1>3 DEF InOrder, StageType
  <2> QED
    BY <1>2, <2>1 DEF Has, Speaks, StageType
<1>6. GivenBack(x, ms, m)
  BY <1>1, <1>3 DEF GivenBack
<1>7. Kept(x, ms, m)
  BY <1>1 DEF Kept
<1>8. InOrder(x, m)
  BY <1>1, <1>4 DEF InOrder
<1>9. MachineInv(x, m)
  BY <1>1, <1>5 DEF MachineInv, Quiet
<1> QED
  BY <1>1, <1>6, <1>7, <1>8, <1>9, WorkIntro

\* The upgrade is verified.
LEMMA VerifiedStep ==
    ASSUME NEW o, NEW ms, NEW p, NEW m, NEW c, WorkInv(o, ms, p, m, c), NEW e, NEW x, NEW n,
           Alters(e, o, x, n), o.state = "InProgress", AtRest(m), Fits(o, m),
           e.type = "VersionUpgradeVerification", e.state = "Completed"
    PROVE  WorkInv(x, ms, p, m, c)
<1>1. x.phase = o.phase /\ x.state = "Completed" /\ Fits(x, m)
  BY AltersFacts DEF Fits
<1>2. \A type \in Speaks : x.conds[type] = o.conds[type]
  <2>1. e.type \in ConditionType /\ e.type \notin Speaks
    BY UnspokenFacts
  <2> QED
    BY <2>1, SpokenFacts
<1>3. InOrder(o, m)
  BY DEF WorkInv
<1>4. /\ Issued(x) <=> Issued(o)
      /\ Applied(x) <=> Applied(o)
      /\ Has(x, "UpgradeRebootIssued") <=> Has(o, "UpgradeRebootIssued")
      /\ Has(x, "UpgradePowerOn") <=> Has(o, "UpgradePowerOn")
      /\ Has(x, "ResetIssued") <=> Has(o, "ResetIssued")
      /\ x.conds["VersionUpgradeCompleted"] = o.conds["VersionUpgradeCompleted"]
      /\ \A type \in StageType : x.conds[type] = o.conds[type]
  BY <1>2 DEF Issued, Applied, Has, Watched, Speaks
<1>5. GivenBack(x, ms, m) /\ Kept(x, ms, m)
  BY <1>1 DEF GivenBack, Quitted, Kept
<1>6. InOrder(x, m)
  BY <1>1, <1>3, <1>4 DEF InOrder
<1>7. MachineInv(x, m)
  BY <1>1 DEF MachineInv
<1> QED
  BY <1>1, <1>5, <1>6, <1>7, WorkIntro

\* A condition of the upgrade, set in a state that stays InProgress.
LEMMA MarkedStep ==
    ASSUME NEW o, NEW ms, NEW p, NEW m, NEW c, WorkInv(o, ms, p, m, c), NEW e, NEW x, NEW n,
           Alters(e, o, x, n), o.state = "InProgress", e.state = "same",
           \/ e.type = "UpgradePowerOn" /\ AtRest(m) /\ Applied(o)
           \/ /\ e.type = "UpgradeRebootIssued" /\ Applied(o) /\ Secured(o, ms)
              /\ m.power = "On" => m.staged = None
           \/ /\ e.type = "VersionUpgradeIssued" /\ e.value = "true" /\ e.task = "new"
              /\ Has(o, "ResetIssued") /\ m.power = "On" /\ ~Issued(o) /\ Secured(o, ms)
              /\ Run(m) \subseteq {n} /\ (o.phase = "live" => c = "Unknown")
    PROVE  /\ WorkInv(x, ms, p, m, c)
           /\ e.type = "UpgradePowerOn" => Calm(o, ms, m, x, ms, m)
<1>1. /\ x.phase = o.phase /\ x.state = "InProgress" /\ x.ref = o.ref
      /\ x.version = o.version /\ (e.task = "new" => x.task = n)
  BY AltersFacts
<1>2. /\ \A type \in Speaks \ {e.type} : x.conds[type] = o.conds[type]
      /\ x.conds[e.type] = e.value
      /\ e.type \in {"UpgradePowerOn", "UpgradeRebootIssued", "VersionUpgradeIssued"}
  <2>1. e.type \in {"UpgradePowerOn", "UpgradeRebootIssued", "VersionUpgradeIssued"}
    OBVIOUS
  <2>2. e.type \in ConditionType /\ e.type # None
    BY <2>1, SpeaksFacts DEF Speaks, Watched
  <2> QED
    BY <2>1, <2>2, SpokenFacts
<1>3. /\ InOrder(o, m) /\ MachineInv(o, m) /\ GivenBack(o, ms, m) /\ Kept(o, ms, m)
      /\ Told(o, m, c)
  BY DEF WorkInv
<1>4. /\ Applied(x) <=> Applied(o)
      /\ Has(x, "ResetIssued") <=> Has(o, "ResetIssued")
      /\ x.conds["VersionUpgradeCompleted"] = o.conds["VersionUpgradeCompleted"]
  BY <1>2 DEF Applied, Has, Speaks, Watched
<1>5. Issued(x) <=> Issued(o) \/ e.type = "VersionUpgradeIssued"
  BY <1>2 DEF Issued, Has, Speaks, Watched
<1>6. \A type \in StageType : x.conds[type] = "unset"
  <2>1. ASSUME NEW type \in StageType
        PROVE  x.conds[type] = "unset"
    <3>1. type \in Speaks \ {e.type}
      BY <1>2 DEF Speaks, StageType
    <3>2. o.conds[type] = "unset"
      BY <1>3 DEF InOrder
    <3> QED
      BY <1>2, <3>1, <3>2
  <2> QED
    BY <2>1
<1>7. /\ Has(x, "UpgradeRebootIssued") =>
           Has(o, "UpgradeRebootIssued") \/ (Applied(o) /\ (m.power = "On" => m.staged = None))
      /\ Has(x, "UpgradePowerOn") => Has(o, "UpgradePowerOn") \/ (Applied(o) /\ AtRest(m))
  BY <1>2 DEF Has, Speaks, Watched
<1>8. Applied(o) => Issued(o)
  BY <1>3 DEF InOrder
<1>9. InOrder(x, m)
  BY <1>1, <1>3, <1>4, <1>5, <1>6, <1>7 DEF InOrder
<1>10. GivenBack(x, ms, m)
  BY <1>1, <1>3 DEF GivenBack
<1>11. Kept(x, ms, m)
  BY <1>1, <1>3, <1>5, <1>8 DEF Kept, Secured
<1>12. MachineInv(x, m)
  <2>1. CASE Applied(o)
    BY <1>1, <1>3, <1>4, <1>7, <2>1 DEF MachineInv, Quiet
  <2>2. CASE ~Applied(o)
    <3>1. /\ e.type = "VersionUpgradeIssued" /\ e.task = "new" /\ Run(m) \subseteq {n}
          /\ m.power = "On"
      BY <2>2
    <3> QED
      BY <1>1, <1>4, <2>2, <3>1 DEF MachineInv, Quiet
  <2> QED
    BY <2>1, <2>2
<1>13. x.state = "InProgress" /\ Issued(x) /\ x.phase = "live" => c = "Unknown"
  BY <1>1, <1>3, <1>5, <1>8 DEF Told
<1>14. e.type = "UpgradePowerOn" => Calm(o, ms, m, x, ms, m)
  <2>1. Fits(x, m) <=> Fits(o, m)
    BY <1>1 DEF Fits
  <2> QED
    BY <1>1, <1>4, <1>5, <2>1 DEF Calm, Quitted, Upcoming
<1> QED
  BY <1>1, <1>9, <1>10, <1>11, <1>12, <1>13, <1>14, WorkIntro

-----------------------------------------------------------------------------
(* An allowed effect on the stored object keeps the invariant              *)

\* A patch is that of a retry, of the reference or of the finalizer.
LEMMA PatchKinds ==
    ASSUME NEW f \in Patches
    PROVE  /\ "conds" \in DOMAIN f <=> "state" \in DOMAIN f
           /\ "state" \in DOMAIN f => "ref" \notin DOMAIN f /\ "finalizer" \notin DOMAIN f
           /\ "finalizer" \in DOMAIN f => "ref" \notin DOMAIN f
<1>1. CASE f \in [ref : BOOLEAN]
  BY <1>1
<1>2. CASE f \in [retry : {FALSE}]
  BY <1>2
<1>3. CASE f \in [finalizer : BOOLEAN]
  BY <1>3
<1>4. CASE f \in [attempts : 0..Exhausted]
  BY <1>4
<1>5. CASE f \in [attempts : 0..Exhausted, current : {TRUE}]
  BY <1>5
<1>6. CASE f \in [state : {"Pending"}, attempts : 0..Exhausted, current : {TRUE},
                  conds : [ConditionType -> ConditionValue]]
  BY <1>6
<1> QED
  BY <1>1, <1>2, <1>3, <1>4, <1>5, <1>6 DEF Patches

\* What a step of a reconcile keeps, and what it leaves to be done.
Keeps(e, o, x, ms, p, m, c) ==
    /\ WorkInv(x, ms, p, m, c)
    /\ ~Moves(e) => Calm(o, ms, m, x, ms, m)
    /\ ~Finishes(e) => x.phase = o.phase /\ (o.finalizer => x.finalizer)

\* Every patch that may be made keeps everything.
LEMMA PatchStep ==
    ASSUME NEW o \in BIOSVersionObject, NEW ms, NEW p, NEW m, NEW c, WorkInv(o, ms, p, m, c),
           NEW x \in BIOSVersionObject, NEW e \in Effect, NEW n,
           e.op = "patch", Changed(e, o, x, n), AllowedPatch(e, o, m),
           o.phase # "gone", o.phase = "deleting" => o.finalizer
    PROVE  Keeps(e, o, x, ms, p, m, c)
<1>1. /\ x.version = o.version /\ x.task = o.task
      /\ x.phase = IF o.phase = "deleting" /\ ~x.finalizer THEN "gone" ELSE o.phase
      /\ x.ref = IF "ref" \in DOMAIN e.fields THEN e.fields.ref ELSE o.ref
      /\ x.finalizer = IF "finalizer" \in DOMAIN e.fields THEN e.fields.finalizer
                       ELSE o.finalizer
      /\ x.state = IF "state" \in DOMAIN e.fields THEN e.fields.state ELSE o.state
      /\ x.conds = IF "conds" \in DOMAIN e.fields THEN e.fields.conds ELSE o.conds
  BY DEF Changed
<1>2. e.fields \in Patches
  BY EffectFacts
<1>3. /\ "finalizer" \in DOMAIN e.fields => e.fields.finalizer \in BOOLEAN
      /\ "state" \in DOMAIN e.fields => e.fields.state = "Pending"
      /\ "ref" \in DOMAIN e.fields => e.fields.ref \in BOOLEAN
  BY <1>2, PatchesFacts
<1>4. /\ "conds" \in DOMAIN e.fields <=> "state" \in DOMAIN e.fields
      /\ "state" \in DOMAIN e.fields => "ref" \notin DOMAIN e.fields
                                        /\ "finalizer" \notin DOMAIN e.fields
      /\ "finalizer" \in DOMAIN e.fields => "ref" \notin DOMAIN e.fields
  BY <1>2, PatchKinds
<1>5. /\ InOrder(o, m) /\ MachineInv(o, m) /\ Told(o, m, c)
      /\ GivenBack(o, ms, m) /\ Kept(o, ms, m)
  BY DEF WorkInv
<1>6. CASE Finishes(e)
  <2>1. /\ "finalizer" \in DOMAIN e.fields /\ ~e.fields.finalizer
        /\ o.phase = "deleting"
    BY <1>6 DEF Finishes, AllowedPatch
  <2>2. "state" \notin DOMAIN e.fields /\ "ref" \notin DOMAIN e.fields
          /\ "conds" \notin DOMAIN e.fields
    BY <1>4, <2>1
  <2>3. x.phase = "gone" /\ x.state = o.state /\ x.conds = o.conds /\ x.task = o.task
    BY <1>1, <2>1, <2>2
  <2>4. (Issued(x) <=> Issued(o)) /\ (Applied(x) <=> Applied(o))
          /\ \A type : Has(x, type) <=> Has(o, type)
    BY <2>3 DEF Issued, Applied, Has
  <2>5. GivenBack(x, ms, m) /\ Kept(x, ms, m)
    BY <2>3 DEF GivenBack, Kept
  <2>6. InOrder(x, m)
    BY <1>1, <1>5, <2>3, <2>4 DEF InOrder, Fits
  <2>7. MachineInv(x, m)
    BY <1>5, <2>3, <2>4 DEF MachineInv
  <2>8. Told(x, m, c)
    BY <1>5, <2>3 DEF Told
  <2>9. "delete" \in User
    BY <2>1 DEF WorkInv
  <2>10. WorkInv(x, ms, p, m, c)
    BY <2>5, <2>6, <2>7, <2>8, <2>9 DEF WorkInv
  <2> QED
    BY <1>6, <2>10 DEF Keeps, Moves
<1>7. ~Finishes(e) => x.phase = o.phase /\ (o.finalizer => x.finalizer)
  <2>1. SUFFICES ASSUME ~Finishes(e)
                 PROVE  x.phase = o.phase /\ (o.finalizer => x.finalizer)
    OBVIOUS
  <2>2. "finalizer" \in DOMAIN e.fields => e.fields.finalizer
    BY <2>1 DEF Finishes
  <2>3. o.finalizer => x.finalizer
    BY <1>1, <2>2
  <2> QED
    BY <1>1, <2>3
<1>8. CASE ~Finishes(e) /\ Retries(e)
  <2>1. "state" \in DOMAIN e.fields /\ "conds" \in DOMAIN e.fields /\ o.state = "Failed"
          /\ AtRest(m)
    BY <1>4, <1>8 DEF Retries, AllowedPatch
  <2>2. x.state = "Pending" /\ x.conds = e.fields.conds /\ x.phase = o.phase
    BY <1>1, <1>3, <1>7, <1>8, <2>1
  <2>3. \A type \in ConditionType \ {"RetryOfFailedResourceIssued"} : x.conds[type] = "unset"
    BY <1>8, <2>2 DEF AllowedPatch
  <2>4. /\ ~Issued(x) /\ ~Applied(x)
        /\ ~Has(x, "UpgradeRebootIssued") /\ ~Has(x, "UpgradePowerOn")
        /\ x.conds["VersionUpgradeCompleted"] # "failed"
    <3>1. {"VersionUpgradeIssued", "VersionUpgradeCompleted", "UpgradeRebootIssued",
           "UpgradePowerOn"} \subseteq ConditionType \ {"RetryOfFailedResourceIssued"}
      BY SpeaksFacts DEF Speaks, Watched
    <3> QED
      BY <2>3, <3>1 DEF Issued, Applied, Has
  <2>5. \A type \in StageType : x.conds[type] = "unset"
    <3>1. StageType \subseteq ConditionType \ {"RetryOfFailedResourceIssued"}
      BY SpeaksFacts DEF Speaks, StageType
    <3> QED
      BY <2>3, <3>1
  <2>6. GivenBack(x, ms, m)
    <3>1. NoneLeaves(ms)
      BY <1>5, <2>1 DEF GivenBack
    <3> QED
      BY <2>2, <3>1 DEF GivenBack
  <2>7. Kept(x, ms, m)
    BY <2>2 DEF Kept
  <2>8. InOrder(x, m)
    BY <2>2, <2>4, <2>5 DEF InOrder
  <2>9. MachineInv(x, m)
    BY <2>1, <2>2 DEF MachineInv
  <2>10. WorkInv(x, ms, p, m, c)
    BY <2>2, <2>4, <2>6, <2>7, <2>8, <2>9, WorkIntro
  <2> QED
    BY <1>7, <1>8, <2>10 DEF Keeps, Moves
<1>9. CASE ~Finishes(e) /\ ~Retries(e)
  <2>1. "state" \notin DOMAIN e.fields /\ "conds" \notin DOMAIN e.fields
    BY <1>4, <1>9 DEF Retries
  <2>2. x.state = o.state /\ x.conds = o.conds /\ x.phase = o.phase
    BY <1>1, <1>7, <1>9, <2>1
  <2>3. o.state = "InProgress" /\ MaxLag = 1 /\ ~x.ref => ~o.ref \/ (AtRest(m) /\ ~Issued(o))
    <3>1. CASE "ref" \in DOMAIN e.fields
      <4>1. x.ref = e.fields.ref
        BY <1>1, <3>1
      <4> QED
        BY <3>1, <4>1 DEF AllowedPatch, Unasks
    <3>2. CASE "ref" \notin DOMAIN e.fields
      BY <1>1, <3>2
    <3> QED
      BY <3>1, <3>2
  <2>4. o.ref \in BOOLEAN /\ x.ref \in BOOLEAN
    BY ObjectFacts
  <2>5. \A type : Has(x, type) <=> Has(o, type)
    BY <2>2 DEF Has
  <2>6. /\ o.state = "Failed" /\ Has(x, "PowerOffIssued") => Off(m)
        /\ o.state = "Failed" /\ Has(x, "ServerReset") => AtRest(m)
    BY <1>5, <2>5 DEF MachineInv
  <2>7. WorkInv(x, ms, p, m, c) /\ Calm(o, ms, m, x, ms, m)
    BY <1>1, <2>2, <2>3, <2>4, <2>5, <2>6, StillStep
  <2> QED
    BY <1>7, <2>7 DEF Keeps
<1> QED
  BY <1>6, <1>8, <1>9

\* And so does every status write.
LEMMA StatusStep ==
    ASSUME NEW o \in BIOSVersionObject, NEW ms, NEW p, NEW m, NEW c, WorkInv(o, ms, p, m, c),
           NoneAsked(ms) => NoneLeaves(ms),
           NEW x \in BIOSVersionObject, NEW e \in Effect, NEW n,
           Alters(e, o, x, n), AllowedStatus(e, o, ms, m)
    PROVE  Keeps(e, o, x, ms, p, m, c)
<1>1. /\ x.version = o.version /\ x.phase = o.phase /\ x.ref = o.ref
      /\ x.finalizer = o.finalizer /\ o.ref \in BOOLEAN /\ x.ref \in BOOLEAN
      /\ e.task = "keep" => x.task = o.task
      /\ e.op = "status"
  BY AltersFacts, ObjectFacts DEF Alters
<1>2. MachineInv(o, m) /\ InOrder(o, m) /\ Kept(o, ms, m)
  BY DEF WorkInv
<1>3. /\ o.state = "Failed" /\ Has(o, "PowerOffIssued") => Off(m)
      /\ o.state = "Failed" /\ Has(o, "ServerReset") => AtRest(m)
  BY <1>2 DEF MachineInv
<1>4. SUFFICES WorkInv(x, ms, p, m, c) /\ (~Moves(e) => Calm(o, ms, m, x, ms, m))
  BY <1>1 DEF Keeps
<1>5. ASSUME e.type \in ConditionType, e.type \notin Speaks, x.state = o.state,
             x.task = o.task \/ o.state # "InProgress" \/ ~Issued(o)
      PROVE  WorkInv(x, ms, p, m, c) /\ Calm(o, ms, m, x, ms, m)
  <2>1. \A type \in Speaks : x.conds[type] = o.conds[type]
    BY <1>5, SpokenFacts
  <2>2. /\ \A type \in Watched : x.conds[type] = o.conds[type]
        /\ \A type \in StageType : x.conds[type] = o.conds[type]
        /\ Has(x, "ResetIssued") <=> Has(o, "ResetIssued")
        /\ Has(x, "PowerOffIssued") <=> Has(o, "PowerOffIssued")
        /\ Has(x, "ServerReset") <=> Has(o, "ServerReset")
    BY <2>1 DEF Speaks, StageType, Has
  <2> QED
    BY <1>1, <1>3, <1>5, <2>2, StillStep
<1>6. CASE Settles(e, o, ms, m)
  <2>1. Moves(e)
    BY <1>1, <1>6 DEF Settles, Moves
  <2> QED
    BY <1>6, <2>1, SettlesStep
<1>7. CASE Starts(e, o, ms, m)
  <2>1. Moves(e)
    BY <1>1, <1>7 DEF Starts, Moves, From
  <2> QED
    BY <1>7, <2>1, StartsStep
<1>8. CASE Gates(e, o, m)
  <2>1. e.type \in ConditionType /\ e.type \notin Speaks /\ x.task = o.task
    BY <1>1, <1>8, UnspokenFacts DEF Gates
  <2>2. CASE e.state = "same" \/ From(o, e, "Completed", "Completed")
    <3>1. x.state = o.state
      BY <2>2, AltersFacts DEF From
    <3> QED
      BY <1>5, <2>1, <3>1
  <2>3. CASE e.state = "Pending"
    <3>1. Moves(e)
      BY <1>1, <2>3 DEF Moves
    <3> QED
      BY <1>8, <2>3, <3>1, GatesStep
  <2> QED
    BY <1>8, <2>2, <2>3 DEF Gates, From
<1>9. CASE Reports(e, o)
  <2>1. CASE /\ Stays(e)
             /\ e.type \in {"ServerMaintenanceCreated", "ServerMaintenanceWaiting",
                            "UpgradeRebootObservedOff"}
    <3>1. e.type \in ConditionType /\ e.type \notin Speaks
      BY <2>1 DEF Speaks, Watched, StageType, ConditionType
    <3>2. x.state = o.state /\ x.task = o.task
      BY <1>1, <2>1, AltersFacts DEF Stays
    <3> QED
      BY <1>5, <3>1, <3>2
  <2>2. CASE Persists(e) /\ e.type = "ResetIssued" /\ o.state = "InProgress" /\ ~Issued(o)
    <3>1. x.state = o.state
      BY <2>2, AltersFacts DEF Persists
    <3>2. e.type \in ConditionType
      BY <2>2, SpeaksFacts DEF Speaks
    <3>3. \A type \in Speaks : type # "ResetIssued" => x.conds[type] = o.conds[type]
      BY <2>2, <3>2, SpokenFacts
    <3>4. /\ \A type \in Watched : x.conds[type] = o.conds[type]
          /\ \A type \in StageType : x.conds[type] = o.conds[type]
      BY <3>3 DEF Speaks, StageType, Watched
    <3> QED
      BY <1>1, <2>2, <3>1, <3>4, StillStep
  <2> QED
    BY <1>9, <2>1, <2>2 DEF Reports
<1>10. CASE Recovers(e, o, m)
  <2>1. e.type \in StageType \cup {"RetryResetIssued"} /\ o.state = "Failed" /\ Persists(e)
    BY <1>10 DEF Recovers, StageType
  <2>2. e.type \in ConditionType /\ x.state = o.state
    BY <2>1, AltersFacts DEF Persists, ConditionType
  <2>3. /\ \A type \in Watched : type # e.type
        /\ \A type \in Speaks : type # e.type => x.conds[type] = o.conds[type]
    BY <2>1, <2>2, SpokenFacts DEF Watched, StageType
  <2>4. \A type \in Watched : x.conds[type] = o.conds[type]
    BY <2>3 DEF Speaks
  <2>5. \A type \in {"PowerOffIssued", "ServerReset"} :
          x.conds[type] = IF type = e.type THEN e.value ELSE o.conds[type]
    <3>1. {"PowerOffIssued", "ServerReset"} \subseteq Speaks
      BY DEF Speaks, StageType
    <3>2. x.conds[e.type] = e.value
      BY <2>2, SpokenFacts
    <3> QED
      BY <2>3, <3>1, <3>2
  <2>6. Has(x, "PowerOffIssued") => Off(m)
    <3>1. Has(x, "PowerOffIssued") => Has(o, "PowerOffIssued")
                                      \/ (e.type = "PowerOffIssued" /\ e.value = "true")
      BY <2>5 DEF Has
    <3> QED
      BY <1>3, <1>10, <2>1, <3>1 DEF Recovers
  <2>7. Has(x, "ServerReset") => AtRest(m)
    <3>1. Has(x, "ServerReset") => Has(o, "ServerReset")
                                   \/ (e.type = "ServerReset" /\ e.value = "true")
      BY <2>5 DEF Has
    <3> QED
      BY <1>3, <1>10, <2>1, <3>1 DEF Recovers
  <2>8. Has(x, "ResetIssued") <=> Has(o, "ResetIssued")
    <3>1. e.type # "ResetIssued" /\ "ResetIssued" \in Speaks
      BY <2>1 DEF Speaks, StageType
    <3> QED
      BY <2>3, <3>1 DEF Has
  <2> QED
    BY <1>1, <2>1, <2>2, <2>4, <2>6, <2>7, <2>8, StillStep
<1>11. CASE Answers(e, o, m)
  <2>1. Moves(e)
    BY <1>1, <1>11 DEF Answers, Moves
  <2> QED
    BY <1>11, <2>1, AnswersStep
<1>12. CASE Fails(e, o, m)
  <2>1. Moves(e)
    BY <1>1, <1>12 DEF Fails, Moves, From
  <2> QED
    BY <1>12, <2>1, FailsStep
<1>13. CASE Concludes(e, o, m)
  <2>1. CASE Stays(e) /\ e.type = "UpgradePowerOn" /\ Applied(o)
    BY <1>13, <2>1, MarkedStep DEF Concludes, Stays
  <2>2. CASE /\ e.type = "VersionUpgradeVerification" /\ e.task = "keep"
             /\ e.state = "Completed" /\ Fits(o, m) /\ o.phase = "deleting"
    <3>1. Moves(e)
      BY <1>1, <2>2 DEF Moves
    <3> QED
      BY <1>13, <2>2, <3>1, VerifiedStep DEF Concludes
  <2> QED
    BY <1>13, <2>1, <2>2 DEF Concludes
<1> QED
  BY <1>6, <1>7, <1>8, <1>9, <1>10, <1>11, <1>12, <1>13 DEF AllowedStatus

\* An allowed change of the stored object.
LEMMA AllowedStep ==
    ASSUME NEW o \in BIOSVersionObject, NEW ms, NEW p, NEW m, NEW c, WorkInv(o, ms, p, m, c),
           NoneAsked(ms) => NoneLeaves(ms),
           NEW x \in BIOSVersionObject, NEW e \in Effect, e.op \in {"status", "patch"},
           NEW n, Changed(e, o, x, n), Allowed(e, o, ms, m),
           o.phase # "gone", o.phase = "deleting" => o.finalizer
    PROVE  Keeps(e, o, x, ms, p, m, c)
<1>1. CASE e.op = "status"
  <2>1. Alters(e, o, x, n) /\ AllowedStatus(e, o, ms, m)
    BY <1>1 DEF Alters, Allowed
  <2> QED
    BY <2>1, StatusStep
<1>2. CASE e.op = "patch"
  <2>1. AllowedPatch(e, o, m)
    BY <1>2 DEF Allowed
  <2> QED
    BY <1>2, <2>1, PatchStep
<1> QED
  BY <1>1, <1>2

-----------------------------------------------------------------------------
(* The rest of a reconcile, after its first effect                         *)

\* What is left of a reconcile after one call.
LEMMA HeadTail ==
    ASSUME NEW do \in Seq(Effect), Len(do) > 1
    PROVE  /\ Len(do) \in Nat /\ Len(Tail(do)) = Len(do) - 1
           /\ \A i \in 1..Len(Tail(do)) : i + 1 \in 1..Len(do) /\ Tail(do)[i] = do[i + 1]
           /\ 1 \in 1..Len(do) /\ 1 # Len(do) /\ Head(do) = do[1]
<1>1. /\ Len(do) \in Nat /\ Len(Tail(do)) = Len(do) - 1
      /\ \A i \in 1..Len(Tail(do)) : i + 1 \in 1..Len(do) /\ Tail(do)[i] = do[i + 1]
  BY TailFacts
<1>2. \A n \in Nat : n > 1 => 1 \in 1..n /\ 1 # n
  OBVIOUS
<1>3. 1 \in 1..Len(do) /\ 1 # Len(do)
  BY <1>1, <1>2
<1>4. Head(do) = do[1]
  OBVIOUS
<1> QED
  BY <1>1, <1>3, <1>4

\* The rest of a sequence without a command is one too.
LEMMA PlainTail ==
    ASSUME NEW do \in Seq(Effect), Len(do) > 1, NEW o, NEW ms, NEW m, Plain(do, o, ms, m)
    PROVE  Plain(Tail(do), o, ms, m) /\ Allowed(Head(do), o, ms, m) /\ ~Moves(Head(do))
<1>1. Allowed(Head(do), o, ms, m) /\ ~Moves(Head(do))
  BY HeadTail DEF Plain
<1>2. ASSUME NEW i \in 1..Len(Tail(do))
      PROVE  Allowed(Tail(do)[i], o, ms, m) /\ (Moves(Tail(do)[i]) => i = Len(Tail(do)))
  <2>1. i + 1 \in 1..Len(do) /\ Tail(do)[i] = do[i + 1]
    BY HeadTail
  <2>2. Allowed(do[i + 1], o, ms, m) /\ (Moves(do[i + 1]) => i + 1 = Len(do))
    BY <2>1 DEF Plain
  <2>3. i + 1 = Len(do) => i = Len(Tail(do))
    BY HeadTail
  <2> QED
    BY <2>1, <2>2, <2>3
<1> QED
  BY <1>1, <1>2 DEF Plain

\* One effect that may come last.
LEMMA PlainOne ==
    ASSUME NEW e, NEW o, NEW ms, NEW m, Allowed(e, o, ms, m)
    PROVE  Plain(<<e>>, o, ms, m)
<1>1. Len(<<e>>) = 1 /\ <<e>>[1] = e
  OBVIOUS
<1> HIDE DEF Allowed, Moves
<1> QED
  BY <1>1 DEF Plain

\* The conditions a command is chosen on.
Decides == {"VersionUpgradeIssued", "VersionUpgradeCompleted", "UpgradeRebootIssued",
            "UpgradePowerOn", "ServerReset", "PowerOffIssued"}

\* What comes before the command is still before it.
LEMMA BeforeTail ==
    ASSUME NEW do \in Seq(Effect), Len(do) > 2, NEW e, do[1] # e, Before(do, e)
    PROVE  Before(Tail(do), e)
<1>1. PICK i \in 1..(Len(do) - 2) : do[i] = e
  BY DEF Before
<1>2. i # 1 /\ Len(do) \in Nat
  BY <1>1
<1>3. i - 1 \in 1..(Len(Tail(do)) - 2) /\ Tail(do)[i - 1] = do[i]
  BY <1>2, HeadTail
<1> QED
  BY <1>1, <1>3 DEF Before

\* One call before the command brings the command nearer, nothing else.
LEMMA SendsTail ==
    ASSUME NEW do \in Seq(Effect), Len(do) > 2,
           NEW o, NEW ms, NEW p, NEW m, NEW c, Sends(do, o, ms, p, m, c),
           NEW x, NEW d, Calm(o, ms, m, x, ms, m), x.ref = o.ref,
           \A type \in Decides : x.conds[type] = o.conds[type],
           Has(o, "ResetIssued") \/ do[1] = SkipsReset => Has(x, "ResetIssued"),
           c = "Unknown" \/ do[1] = Tells => d = "Unknown"
    PROVE  Sends(Tail(do), x, ms, p, m, d)
<1> DEFINE t == Tail(do)
<1>1. /\ Len(do) \in Nat /\ Len(t) = Len(do) - 1 /\ Len(t) > 1
      /\ t[Len(t)] = do[Len(do)] /\ t[Len(t) - 1] = do[Len(do) - 1]
      /\ \A i \in 1..(Len(t) - 2) : i + 1 \in 1..(Len(do) - 2) /\ t[i] = do[i + 1]
  OBVIOUS
<1>2. \A e : do[1] # e /\ Before(do, e) => Before(t, e)
  BY BeforeTail
<1> HIDE DEF t
<1>3. \A i \in 1..(Len(t) - 2) : Prepares(t[i]) /\ Allowed(t[i], x, ms, m)
  <2>1. ASSUME NEW i \in 1..(Len(t) - 2)
        PROVE  Prepares(t[i]) /\ Allowed(t[i], x, ms, m)
    <3>1. Prepares(t[i]) /\ Allowed(t[i], o, ms, m)
      BY <1>1 DEF Sends
    <3> QED
      BY <3>1, AllowedStable
  <2> QED
    BY <2>1
<1>4. /\ x.state = o.state
      /\ Issued(x) <=> Issued(o)
      /\ Applied(x) <=> Applied(o)
      /\ Has(x, "UpgradeRebootIssued") <=> Has(o, "UpgradeRebootIssued")
      /\ Has(x, "UpgradePowerOn") <=> Has(o, "UpgradePowerOn")
      /\ Has(x, "ServerReset") <=> Has(o, "ServerReset")
      /\ Has(x, "PowerOffIssued") <=> Has(o, "PowerOffIssued")
      /\ Secured(o, ms) => Secured(x, ms)
  BY DEF Calm, Has, Decides, Secured
<1>5. SendsUpgrade(do, o, m, c) => SendsUpgrade(t, x, m, d)
  BY <1>1, <1>2, <1>4 DEF SendsUpgrade
<1>6. SendsReset(do, o) => SendsReset(t, x)
  BY <1>1, <1>4 DEF SendsReset
<1>7. SendsCycle(do, o) => SendsCycle(t, x)
  BY <1>1, <1>4 DEF SendsCycle
<1> QED
  BY <1>1, <1>3, <1>4, <1>5, <1>6, <1>7 DEF Sends, t

-----------------------------------------------------------------------------
(* Commands *)

\* The end of a reconcile that sends a command.
LEMMA LastTwo ==
    ASSUME NEW do \in Seq(Effect), Len(do) = 2, NEW c, NEW o
    PROVE  /\ do[Len(do) - 1] = Head(do) /\ Tail(do) = <<do[2]>> /\ do[Len(do)] = do[2]
           /\ \A e : ~Before(do, e)
<1>1. \A i : i \notin 1..(Len(do) - 2)
  OBVIOUS
<1>2. \A e : ~Before(do, e)
  BY <1>1 DEF Before
<1>3. Len(do) - 1 = 1 /\ Head(do) = do[1]
  OBVIOUS
<1>4. Tail(do) = <<do[2]>>
  <2>1. Tail(do) \in Seq(Effect)
    OBVIOUS
  <2>2. Len(Tail(do)) = 1
    OBVIOUS
  <2>3. Tail(do)[1] = do[2]
    <3>1. 1 \in 1..Len(Tail(do))
      BY <2>2
    <3> QED
      BY <3>1, TailFacts
  <2> DEFINE t == Tail(do)
  <2> HIDE DEF t
  <2>4. t \in Seq(Effect) /\ Len(t) = 1 /\ t[1] = do[2]
    BY <2>1, <2>2, <2>3 DEF t
  <2>5. t = <<t[1]>>
    BY <2>4
  <2> QED
    BY <2>4, <2>5 DEF t
<1> QED
  BY <1>2, <1>3, <1>4

\* After an upgrade is sent its task is the one that runs.
LEMMA UpgradingRuns ==
    ASSUME NEW m \in Machine, NEW v, NEW x, x = Upgrading(m, v), Run(m) = {}
    PROVE  /\ x.power = m.power /\ x.firmware = m.firmware /\ x.staged = m.staged
           /\ Len(x.tasks) = Len(m.tasks) + 1 /\ Len(m.tasks) \in Nat
           /\ Run(x) = {Len(x.tasks)}
<1>1. /\ x.power = m.power /\ x.firmware = m.firmware /\ x.staged = m.staged
      /\ x.tasks = Append(m.tasks, [version |-> v, state |-> "running"])
      /\ m.tasks \in Seq(Task)
  BY DEF Upgrading, Machine
<1>2. /\ Len(x.tasks) = Len(m.tasks) + 1 /\ Len(m.tasks) \in Nat
      /\ \A i \in 1..Len(m.tasks) : x.tasks[i] = m.tasks[i]
      /\ x.tasks[Len(m.tasks) + 1] = [version |-> v, state |-> "running"]
  BY <1>1
<1>3. x.tasks[Len(x.tasks)].state = "running"
  BY <1>2
<1>4. \A i \in 1..Len(m.tasks) : x.tasks[i].state # "running"
  BY <1>2 DEF Run
<1>5. \A i \in 1..Len(x.tasks) : i \in 1..Len(m.tasks) \/ i = Len(x.tasks)
  BY <1>2
<1>6. Len(x.tasks) \in 1..Len(x.tasks)
  BY <1>2
<1>7. Run(x) = {Len(x.tasks)}
  <2>1. ASSUME NEW i \in Run(x)
        PROVE  i = Len(x.tasks)
    BY <1>2, <1>4, <1>5 DEF Run
  <2>2. Len(x.tasks) \in Run(x)
    BY <1>3, <1>6 DEF Run
  <2> QED
    BY <2>1, <2>2
<1> QED
  BY <1>1, <1>2, <1>7, Zenon

\* An upgrade goes to a machine at rest, under maintenance.
LEMMA UpgradeCalls ==
    ASSUME NEW do \in Seq(Effect), Len(do) = 2,
           NEW o, NEW ms, NEW p, NEW m, NEW c,
           WorkInv(o, ms, p, m, c), Sends(do, o, ms, p, m, c), Head(do).op = "upgrade"
    PROVE  /\ SendsUpgrade(do, o, m, c)
           /\ p /\ AtRest(m) /\ o.state = "InProgress" /\ ~Applied(o)
<1>1. SendsUpgrade(do, o, m, c)
  <2>1. ~SendsReset(do, o) /\ ~SendsCycle(do, o)
    <3>1. \A y : Head(do) # Command(y)
      BY EffectParts
    <3> QED
      BY <3>1, LastTwo DEF SendsReset, SendsCycle
  <2> QED
    BY <2>1 DEF Sends
<1>2. o.state = "InProgress" /\ ~Issued(o) /\ AtRest(m) /\ p
  BY <1>1 DEF SendsUpgrade, Sends
<1>3. InOrder(o, m)
  BY DEF WorkInv
<1> QED
  BY <1>1, <1>2, <1>3 DEF InOrder

\* Sending an upgrade: the Server is parked and at rest, and its record is left to do.
LEMMA UpgradeSends ==
    ASSUME Orderly, NEW do \in Seq(Effect), Len(do) = 2,
           NEW o, NEW ms, NEW p, NEW m \in Machine, NEW c,
           WorkInv(o, ms, p, m, c), Sends(do, o, ms, p, m, c), Head(do).op = "upgrade",
           NEW v, NEW x, x = Upgrading(m, v)
    PROVE  /\ p /\ AtRest(m) /\ o.state = "InProgress" /\ ~Applied(o)
           /\ WorkInv(o, ms, p, x, c) /\ Records(Tail(do), o, ms, x, c)
<1>1. SendsUpgrade(do, o, m, c)
  BY UpgradeCalls
<1>2. /\ do[2] = RecordUpgrade /\ o.state = "InProgress" /\ ~Issued(o) /\ AtRest(m)
      /\ c = "Unknown" /\ Has(o, "ResetIssued") /\ Secured(o, ms) /\ p
  BY <1>1, LastTwo DEF SendsUpgrade, Sends
<1>3. InOrder(o, m) /\ MachineInv(o, m) /\ Told(o, m, c) /\ GivenBack(o, ms, m)
  BY DEF WorkInv
<1>4. ~Applied(o) /\ Run(m) = {} /\ m.power = "On"
  BY <1>2, <1>3 DEF InOrder, AtRest
<1>5. /\ x.power = m.power /\ x.firmware = m.firmware /\ x.staged = m.staged
      /\ Run(x) = {Len(x.tasks)} /\ Len(x.tasks) > 0
  <2>1. /\ x.power = m.power /\ x.firmware = m.firmware /\ x.staged = m.staged
        /\ Len(x.tasks) = Len(m.tasks) + 1 /\ Len(m.tasks) \in Nat
        /\ Run(x) = {Len(x.tasks)}
    BY <1>4, UpgradingRuns, Zenon
  <2>2. \A n \in Nat : n + 1 > 0
    OBVIOUS
  <2> QED
    BY <2>1, <2>2
<1>6. GivenBack(o, ms, x)
  BY <1>2, <1>3 DEF GivenBack
<1>7. Kept(o, ms, x)
  BY <1>2 DEF Kept
<1>8. InOrder(o, x)
  BY <1>3, <1>5 DEF InOrder, Fits
<1>9. MachineInv(o, x)
  BY <1>2, <1>4, <1>5 DEF MachineInv, Quiet
<1>10. Told(o, x, c)
  BY <1>2 DEF Told
<1>11. WorkInv(o, ms, p, x, c)
  BY <1>6, <1>7, <1>8, <1>9, <1>10 DEF WorkInv
<1>12. Tail(do) = <<RecordUpgrade>>
  BY <1>2, LastTwo
<1>13. Len(Tail(do)) = 1 /\ Tail(do)[1] = RecordUpgrade
  <2> HIDE DEF RecordUpgrade
  <2>1. \A e : Len(<<e>>) = 1 /\ <<e>>[1] = e
    OBVIOUS
  <2> QED
    BY <1>12, <2>1
<1>14. Records(Tail(do), o, ms, x, c)
  BY <1>2, <1>4, <1>5, <1>13 DEF Records
<1> QED
  BY <1>2, <1>4, <1>11, <1>14

\* An upgrade refused with a fatal error fails.
LEMMA UpgradeFails ==
    ASSUME NEW o, NEW ms, NEW p, NEW m, NEW e,
           e = UpdateStatus("Failed", "clear", "VersionUpgradeIssued", "failed"),
           o.state = "InProgress", AtRest(m), ~Applied(o)
    PROVE  Plain(<<e>>, o, ms, m)
<1>1. /\ e.op = "status" /\ e.state = "Failed" /\ e.type = "VersionUpgradeIssued"
      /\ e.value = "failed"
  BY EffectParts
<1>2. Fails(e, o, m)
  BY <1>1 DEF Fails, From, AtRest
<1>3. Allowed(e, o, ms, m)
  BY <1>1, <1>2 DEF Allowed, AllowedStatus
<1> QED
  BY <1>3, PlainOne

\* What a power command does to the machine.
LEMMA PowerCommands ==
    ASSUME NEW m \in Machine, NEW y, NEW x, x = Commanded(m, y), ~LazyRestart
    PROVE  /\ x.firmware = m.firmware /\ x.staged = m.staged /\ x.tasks = m.tasks
           /\ y = "Reset" => x.power = IF m.power = "On" THEN "Restarting" ELSE m.power
           /\ y = "PowerOn" => x.power = IF m.power = "Off" THEN "PoweringOn" ELSE m.power
<1>1. \A q : LET z == [m EXCEPT !.power = q]
              IN  z.firmware = m.firmware /\ z.staged = m.staged /\ z.tasks = m.tasks
                  /\ z.power = q
  BY DEF Machine
<1>2. \/ x = m
      \/ x = [m EXCEPT !.power = "PoweringOff"] \/ x = [m EXCEPT !.power = "ForcingOff"]
      \/ x = [m EXCEPT !.power = "PoweringOn"] \/ x = [m EXCEPT !.power = "Restarting"]
  BY DEF Commanded
<1>3. x.firmware = m.firmware /\ x.staged = m.staged /\ x.tasks = m.tasks
  BY <1>1, <1>2, ZenonT(30)
<1>4. y = "Reset" => x.power = IF m.power = "On" THEN "Restarting" ELSE m.power
  BY <1>1 DEF Commanded
<1>5. y = "PowerOn" => x.power = IF m.power = "Off" THEN "PoweringOn" ELSE m.power
  BY <1>1 DEF Commanded
<1> QED
  BY <1>3, <1>4, <1>5, Zenon

\* The recovery's persisted conditions.
LEMMA CycleRecords ==
    ASSUME NEW o, NEW ms, NEW m, o.state = "Failed", NEW type, NEW value,
           \/ type \in {"RetryResetIssued", "ForcePowerOffIssued", "PowerOnIssued"}
           \/ type = "PowerOffIssued" /\ (value = "true" => Off(m))
           \/ type = "ServerReset" /\ (value = "true" => AtRest(m))
    PROVE  Allowed(Persist(type, value), o, ms, m) /\ ~Moves(Persist(type, value))
<1> DEFINE e == Persist(type, value)
<1>1. /\ e.op = "status" /\ e.state = "same" /\ e.task = "clear" /\ e.type = type
      /\ e.value = value
  BY EffectParts
<1> HIDE DEF e
<1>2. Recovers(e, o, m)
  BY <1>1 DEF Recovers, Persists
<1>3. type # "VersionUpgradeCompleted"
  OBVIOUS
<1> QED
  BY <1>1, <1>2, <1>3 DEF Allowed, AllowedStatus, Moves, Retries, Finishes, e

\* Commands differ when their names do.
LEMMA CommandParts ==
    ASSUME NEW y, NEW z, Command(y) = Command(z)
    PROVE  y = z
  BY EffectParts

\* A restart comes after the upgrade's task.
LEMMA ResetSends ==
    ASSUME ~LazyRestart, NEW do \in Seq(Effect), Len(do) = 2,
           NEW o, NEW ms, NEW p, NEW m \in Machine, NEW c,
           WorkInv(o, ms, p, m, c), Sends(do, o, ms, p, m, c), SendsReset(do, o),
           NEW x, x = Commanded(m, "Reset")
    PROVE  /\ Run(m) = {}
           /\ WorkInv(o, ms, p, x, c) /\ Records(Tail(do), o, ms, x, c)
<1>1. /\ do[2] = RecordReboot /\ o.state = "InProgress" /\ Applied(o)
      /\ ~Has(o, "UpgradeRebootIssued") /\ ~Has(o, "UpgradePowerOn") /\ Secured(o, ms)
  BY LastTwo DEF SendsReset, Sends
<1>2. InOrder(o, m) /\ MachineInv(o, m) /\ Told(o, m, c) /\ GivenBack(o, ms, m)
  BY DEF WorkInv
<1>3. Run(m) = {} /\ m.power \in {"On", "Restarting"}
  BY <1>1, <1>2 DEF MachineInv
<1>4. /\ x.firmware = m.firmware /\ x.staged = m.staged /\ x.tasks = m.tasks
      /\ x.power = "Restarting"
  BY <1>3, PowerCommands
<1>5. Run(x) = {}
  BY <1>3, <1>4 DEF Run
<1>6. GivenBack(o, ms, x)
  BY <1>1, <1>2 DEF GivenBack
<1>7. Kept(o, ms, x)
  BY <1>1 DEF Kept
<1>8. InOrder(o, x)
  BY <1>2, <1>4 DEF InOrder, Fits
<1>9. MachineInv(o, x)
  BY <1>1, <1>4, <1>5 DEF MachineInv, Quiet
<1>10. Told(o, x, c)
  BY <1>2, <1>4, <1>5 DEF Told
<1>11. WorkInv(o, ms, p, x, c)
  BY <1>6, <1>7, <1>8, <1>9, <1>10 DEF WorkInv
<1>12. Len(Tail(do)) = 1 /\ Tail(do)[1] = RecordReboot
  <2> HIDE DEF RecordReboot
  <2>1. \A e : Len(<<e>>) = 1 /\ <<e>>[1] = e
    OBVIOUS
  <2>2. Tail(do) = <<RecordReboot>>
    BY <1>1, LastTwo
  <2> QED
    BY <2>1, <2>2
<1>13. Records(Tail(do), o, ms, x, c)
  BY <1>1, <1>4, <1>12 DEF Records
<1> QED
  BY <1>3, <1>11, <1>13

\* The power cycle before a retry.
LEMMA CycleSends ==
    ASSUME ~LazyRestart, NEW do \in Seq(Effect), Len(do) = 2,
           NEW o, NEW ms, NEW p, NEW m \in Machine, NEW c,
           WorkInv(o, ms, p, m, c), Sends(do, o, ms, p, m, c), SendsCycle(do, o),
           NEW y, Head(do) = Command(y), NEW x, x = Commanded(m, y)
    PROVE  /\ Run(m) = {}
           /\ WorkInv(o, ms, p, x, c) /\ Plain(Tail(do), o, ms, x)
<1>1. /\ o.state = "Failed" /\ ~Has(o, "ServerReset")
      /\ \/ y = "PowerOff" /\ ~Has(o, "PowerOffIssued")
            /\ do[2] = Persist("PowerOffIssued", "issued")
         \/ y = "ForcePowerOff" /\ ~Has(o, "PowerOffIssued")
            /\ do[2] = Persist("ForcePowerOffIssued", "true")
         \/ y = "PowerOn" /\ Has(o, "PowerOffIssued")
            /\ do[2] = Persist("PowerOnIssued", "issued")
  BY LastTwo, CommandParts DEF SendsCycle
<1>2. InOrder(o, m) /\ MachineInv(o, m) /\ Told(o, m, c) /\ GivenBack(o, ms, m)
  BY DEF WorkInv
<1>3. Run(m) = {} /\ (Has(o, "PowerOffIssued") => Off(m))
  BY <1>1, <1>2 DEF MachineInv
<1>4. /\ x.firmware = m.firmware /\ x.staged = m.staged /\ x.tasks = m.tasks
      /\ y = "PowerOn" => x.power = IF m.power = "Off" THEN "PoweringOn" ELSE m.power
  BY PowerCommands
<1>5. Run(x) = {}
  BY <1>3, <1>4 DEF Run
<1>6. Has(o, "PowerOffIssued") => Off(x)
  <2>1. SUFFICES ASSUME Has(o, "PowerOffIssued")
                 PROVE  Off(x)
    OBVIOUS
  <2>2. x.power = IF m.power = "Off" THEN "PoweringOn" ELSE m.power
    BY <1>1, <1>4, <2>1
  <2> QED
    BY <1>3, <1>4, <1>5, <2>1, <2>2 DEF Off, AtRest
<1>7. GivenBack(o, ms, x)
  BY <1>1, <1>2 DEF GivenBack
<1>8. Kept(o, ms, x)
  BY <1>1 DEF Kept
<1>9. InOrder(o, x)
  BY <1>2, <1>4 DEF InOrder, Fits
<1>10. MachineInv(o, x)
  BY <1>1, <1>5, <1>6 DEF MachineInv, Quiet
<1>11. Told(o, x, c)
  BY <1>2, <1>4, <1>5 DEF Told
<1>12. WorkInv(o, ms, p, x, c)
  BY <1>7, <1>8, <1>9, <1>10, <1>11 DEF WorkInv
<1>13. Allowed(do[2], o, ms, x)
  <2>1. CASE do[2] = Persist("PowerOffIssued", "issued")
    <3>1. Allowed(Persist("PowerOffIssued", "issued"), o, ms, x)
      BY <1>1, CycleRecords
    <3> QED
      BY <2>1, <3>1
  <2>2. CASE do[2] = Persist("ForcePowerOffIssued", "true")
    <3>1. Allowed(Persist("ForcePowerOffIssued", "true"), o, ms, x)
      BY <1>1, CycleRecords
    <3> QED
      BY <2>2, <3>1
  <2>3. CASE do[2] = Persist("PowerOnIssued", "issued")
    <3>1. Allowed(Persist("PowerOnIssued", "issued"), o, ms, x)
      BY <1>1, CycleRecords
    <3> QED
      BY <2>3, <3>1
  <2> QED
    BY <1>1, <2>1, <2>2, <2>3
<1>14. Tail(do) = <<do[2]>>
  BY LastTwo
<1> QED
  BY <1>3, <1>12, <1>13, <1>14, PlainOne

\* A power command goes to a Server under maintenance that runs no task.
LEMMA PowerSends ==
    ASSUME ~LazyRestart, NEW do \in Seq(Effect), Len(do) = 2,
           NEW o, NEW ms, NEW p, NEW m \in Machine, NEW c,
           WorkInv(o, ms, p, m, c), Sends(do, o, ms, p, m, c), Head(do).op = "command",
           NEW x, x = Commanded(m, Head(do).command)
    PROVE  /\ p /\ Run(m) = {}
           /\ WorkInv(o, ms, p, x, c) /\ Doable(Tail(do), o, ms, p, x, c)
<1>1. ~SendsUpgrade(do, o, m, c)
  <2>1. \A v : Head(do) # Upgrades(v)
    BY EffectParts
  <2> QED
    BY <2>1, LastTwo DEF SendsUpgrade
<1>2. CASE SendsReset(do, o)
  <2>1. Head(do).command = "Reset"
    BY <1>2, LastTwo, EffectParts DEF SendsReset
  <2> QED
    BY <1>2, <2>1, ResetSends DEF Doable, Sends
<1>3. CASE SendsCycle(do, o)
  <2>1. PICK y : Head(do) = Command(y)
    BY <1>3, LastTwo DEF SendsCycle
  <2>2. Head(do).command = y
    BY <2>1, EffectParts
  <2> QED
    BY <1>3, <2>1, <2>2, CycleSends DEF Doable, Sends
<1> QED
  BY <1>1, <1>2, <1>3 DEF Sends

-----------------------------------------------------------------------------
(* One effect of a reconcile                                               *)

\* What a reconcile may start with besides, at once.
Withdraws(do, o, ms, m) ==
    /\ do = <<Deletes, Unref, ReadinessGatesNotSatisfied("Pending")>>
    /\ o.state = "InProgress" /\ AtRest(m) /\ ~Issued(o)
    /\ MaxLag = 1 /\ Cached(ms) # None /\ Cached(ms).state # "InMaintenance"
Succeeds(do, o, m) ==
    do = <<RecordSuccess>> /\ o.state = "InProgress" /\ AtRest(m) /\ Fits(o, m)
Adopts(do, o) ==
    do = <<Patch([finalizer |-> TRUE])>> /\ o.phase = "live"
Startable(do, o, ms, p, m, c) ==
    \/ /\ o.finalizer
       /\ Doable(do, o, ms, p, m, c) \/ Withdraws(do, o, ms, m) \/ Succeeds(do, o, m)
    \/ Adopts(do, o)

Underway(do, copy) ==
    /\ do \in Seq(Effect) /\ do # <<>>
    /\ copy \in BIOSVersionObject /\ Copies(copy, O) /\ O.phase # "gone"
    /\ WorkInv(O, maintenances, parked, machine, completion)
    /\ Startable(do, O, maintenances, parked, machine, completion)

\* What the theorems say of a step.
Disciplined ==
    /\ UpgradeSent => parked /\ ~UpgradePending
    /\ PowerSent => parked /\ Running = {}
    /\ O.phase # "gone" /\ O'.phase = "gone" => (MaxLag = 1 => Running = {})

\* The types at hand in a step.
LEMMA TypesOfNow ==
    ASSUME VTypes
    PROVE  /\ O \in BIOSVersionObject /\ maintenances \in Seq(Maintenance)
           /\ Len(maintenances) > 0 /\ parked \in BOOLEAN /\ machine \in Machine
           /\ objects \in Seq(BIOSVersionObject) /\ Len(objects) > 0
           /\ Bounded
           /\ NoneAsked(maintenances) => NoneLeaves(maintenances)
<1>1. /\ objects \in Seq(BIOSVersionObject) /\ Len(objects) > 0
      /\ maintenances \in Seq(Maintenance) /\ Len(maintenances) > 0
      /\ parked \in BOOLEAN /\ machine \in Machine /\ Len(machine.tasks) =< MaxUpgrades
  BY DEF VTypes, ObjectsOK, EnvironmentOK
<1>2. O \in BIOSVersionObject
  BY <1>1, EndFacts DEF O
<1>3. NoneAsked(maintenances) => NoneLeaves(maintenances)
  BY <1>1, LastFacts
<1>4. Bounded
  <2>1. Len(machine.tasks) \in Nat
    BY <1>1 DEF Machine
  <2> QED
    BY <1>1, <2>1, ResourceAssumption DEF Bounded
<1> QED
  BY <1>1, <1>2, <1>3, <1>4

\* When the rest of a reconcile may be done, the invariant of the job holds.
LEMMA ProceedInv ==
    ASSUME NEW do \in Seq(Effect), do # <<>>, NEW again, NEW copy, Proceed(do, again, copy),
           Len(do) > 1 =>
             /\ O'.phase # "gone" /\ O'.finalizer /\ Copies(copy, O')
             /\ Doable(Tail(do), O', maintenances', parked', machine', completion')
    PROVE  JobInv'
<1>1. CASE Len(do) = 1
  <2>1. job' = Idle
    BY <1>1 DEF Proceed
  <2> QED
    BY <2>1 DEF JobInv
<1>2. CASE Len(do) > 1
  <2>1. Len(do) # 1
    BY <1>2, HeadTail
  <2>2. job'.do = Tail(do) /\ job'.copy = copy
    BY <2>1 DEF Proceed
  <2>3. Tail(do) # <<>>
    BY <1>2, TailNonEmpty
  <2> QED
    BY <1>2, <2>2, <2>3 DEF JobInv
<1> QED
  BY <1>1, <1>2, NonEmpty

\* A machine that nobody touches.
LEMMA UntouchedDiscipline ==
    ASSUME machine \in Machine, machine' = machine,
           O'.phase = "gone" => O.phase = "gone" \/ (MaxLag = 1 => Running = {})
    PROVE  Disciplined
<1>1. ~UpgradeSent
  <2>1. Len(machine'.tasks) = Len(machine.tasks) /\ Len(machine.tasks) \in Nat
    BY DEF Machine
  <2>2. \A n \in Nat : ~(n > n)
    OBVIOUS
  <2> QED
    BY <2>1, <2>2 DEF UpgradeSent
<1>2. ~PowerSent
  BY DEF PowerSent
<1> QED
  BY <1>1, <1>2 DEF Disciplined

\* The object is patched.
LEMMA PatchWrites ==
    ASSUME VTypes, NEW do, NEW again, NEW copy, Underway(do, copy),
           PatchObject(do, again, copy), parked' = parked,
           NEW e, e = Head(do), NEW x, x = Merged(copy, After(e, copy), O)
    PROVE  /\ e \in Effect /\ e.op \in {"status", "patch"}
           /\ Changed(e, O, x, Len(machine.tasks)) /\ x \in BIOSVersionObject
           /\ O' = x /\ Proceed(do, again, x)
           /\ maintenances' = maintenances /\ machine' = machine /\ completion' = completion
<1>1. /\ do \in Seq(Effect) /\ do # <<>> /\ copy \in BIOSVersionObject /\ Copies(copy, O)
  BY DEF Underway
<1>2. e \in Effect /\ e.op \in {"status", "patch"}
  BY <1>1, NonEmpty DEF PatchObject
<1>3. Changed(e, O, x, Len(machine.tasks)) /\ x \in BIOSVersionObject
  BY <1>1, <1>2, TypesOfNow, ChangedFacts
<1>4. objects' = Write(objects, x) /\ Proceed(do, again, x)
  BY DEF PatchObject, O
<1>5. O' = x
  BY <1>3, <1>4, TypesOfNow, WriteFacts DEF O
<1> QED
  BY <1>2, <1>3, <1>4, <1>5 DEF PatchObject

\* The finalizer leaves a machine on which nothing runs.
LEMMA Gone ==
    ASSUME NEW e, NEW o, NEW x, NEW n, Changed(e, o, x, n), NEW ms, NEW m,
           Allowed(e, o, ms, m), e.op = "patch", Finishes(e), MaxLag = 1
    PROVE  Run(m) = {}
  BY DEF Allowed, AllowedPatch

\* The running tasks, for the machine at hand.
LEMMA RunIsRunning ==
    Run(machine) = Running
  BY DEF Run, Running

\* It is patched as a plan of allowed effects wants it.
LEMMA PatchPlain ==
    ASSUME VTypes, NEW do, NEW again, NEW copy, Underway(do, copy),
           PatchObject(do, again, copy), parked' = parked, O.finalizer,
           Plain(do, O, maintenances, machine)
    PROVE  VersionIInv' /\ Disciplined
<1> DEFINE e == Head(do)
           x == Merged(copy, After(e, copy), O)
           n == Len(machine.tasks)
<1>1. /\ e \in Effect /\ e.op \in {"status", "patch"}
      /\ Changed(e, O, x, n) /\ x \in BIOSVersionObject
      /\ O' = x /\ Proceed(do, again, x)
      /\ maintenances' = maintenances /\ machine' = machine /\ completion' = completion
  BY PatchWrites
<1>2. /\ do \in Seq(Effect) /\ do # <<>> /\ O.phase # "gone"
      /\ WorkInv(O, maintenances, parked, machine, completion)
  BY DEF Underway
<1>3. Allowed(e, O, maintenances, machine)
  <2>1. 1 \in 1..Len(do) /\ e = do[1]
    BY <1>2, NonEmpty
  <2> QED
    BY <2>1 DEF Plain
<1>4. O \in BIOSVersionObject /\ (NoneAsked(maintenances) => NoneLeaves(maintenances))
  BY TypesOfNow
<1> HIDE DEF e, x, n
<1>5. Keeps(e, O, x, maintenances, parked, machine, completion)
  BY <1>1, <1>2, <1>3, <1>4, AllowedStep
<1>6. WorkInv(O, maintenances, parked, machine, completion)'
  BY <1>1, <1>5 DEF Keeps
<1>7. ASSUME Len(do) > 1
      PROVE  /\ O'.phase # "gone" /\ O'.finalizer /\ Copies(x, O')
             /\ Doable(Tail(do), O', maintenances', parked', machine', completion')
  <2>1. Plain(Tail(do), O, maintenances, machine) /\ ~Moves(e)
    BY <1>2, <1>7, PlainTail DEF e
  <2>2. ~Finishes(e) /\ Calm(O, maintenances, machine, x, maintenances, machine)
    BY <1>5, <2>1 DEF Keeps, Moves
  <2>3. Plain(Tail(do), x, maintenances, machine)
    BY <2>1, <2>2, PlainStable
  <2>4. x.phase # "gone" /\ x.finalizer
    BY <1>2, <1>5, <2>2 DEF Keeps
  <2> QED
    BY <1>1, <2>3, <2>4 DEF Copies, Doable
<1>8. JobInv'
  BY <1>1, <1>2, <1>7, ProceedInv
<1>9. O'.phase = "gone" => (MaxLag = 1 => Running = {})
  <2>1. SUFFICES ASSUME x.phase = "gone", MaxLag = 1
                 PROVE  Running = {}
    BY <1>1
  <2>2. Finishes(e)
    BY <1>2, <1>5, <2>1 DEF Keeps
  <2>3. e.op = "patch"
    BY <2>2 DEF Finishes
  <2> QED
    BY <1>1, <1>3, <2>1, <2>2, <2>3, Gone, RunIsRunning
<1>10. Disciplined
  BY <1>1, <1>9, TypesOfNow, UntouchedDiscipline
<1> QED
  BY <1>6, <1>8, <1>10 DEF VersionIInv

\* What comes before a command, and the command.
LEMMA SendsHead ==
    ASSUME NEW do \in Seq(Effect), NEW o, NEW ms, NEW p, NEW m, NEW c,
           Sends(do, o, ms, p, m, c)
    PROVE  /\ Len(do) = 2 \/ Len(do) > 2
           /\ Len(do) > 2 => /\ Head(do) = do[1] /\ Prepares(Head(do))
                             /\ Allowed(Head(do), o, ms, m)
           /\ Len(do) = 2 => Head(do).op \in {"command", "upgrade"}
           /\ Head(do).op \in {"status", "patch", "completion"} => Len(do) > 2
           /\ Head(do).op \in {"command", "upgrade"} => Len(do) = 2
           /\ Head(do).op \in {"status", "patch", "completion", "command", "upgrade"}
<1>1. Len(do) \in Nat /\ Len(do) > 1
  <2>1. Len(do) > 1
    BY DEF Sends
  <2> QED
    BY <2>1, HeadTail
<1>2. Len(do) = 2 \/ Len(do) > 2
  <2>1. \A n \in Nat : n > 1 => n = 2 \/ n > 2
    OBVIOUS
  <2> QED
    BY <1>1, <2>1
<1>3. ASSUME Len(do) > 2
      PROVE  Head(do) = do[1] /\ Prepares(Head(do)) /\ Allowed(Head(do), o, ms, m)
  <2>1. 1 \in 1..(Len(do) - 2) /\ Head(do) = do[1]
    <3>1. Head(do) = do[1]
      BY <1>1, HeadTail
    <3>2. 1 \in 1..(Len(do) - 2)
      BY <1>1, <1>3
    <3> QED
      BY <3>1, <3>2
  <2> QED
    BY <2>1 DEF Sends
<1>4. ASSUME Len(do) = 2
      PROVE  Head(do).op \in {"command", "upgrade"}
  <2>1. do[Len(do) - 1] = Head(do)
    BY <1>4, LastTwo
  <2>2. (\E v : Head(do) = Upgrades(v)) \/ (\E y : Head(do) = Command(y))
    BY <2>1 DEF Sends, SendsUpgrade, SendsReset, SendsCycle
  <2> QED
    BY <2>2, EffectParts
<1>5. Prepares(Head(do)) => Head(do).op \in {"status", "patch", "completion"}
  BY PrepareParts
<1> QED
  BY <1>2, <1>3, <1>4, <1>5

\* It is patched before a command.
LEMMA PatchBefore ==
    ASSUME VTypes, NEW do, NEW again, NEW copy, Underway(do, copy),
           PatchObject(do, again, copy), parked' = parked, O.finalizer,
           Sends(do, O, maintenances, parked, machine, completion)
    PROVE  VersionIInv' /\ Disciplined
<1> DEFINE e == Head(do)
           x == Merged(copy, After(e, copy), O)
           n == Len(machine.tasks)
<1>1. /\ e \in Effect /\ e.op \in {"status", "patch"}
      /\ Changed(e, O, x, n) /\ x \in BIOSVersionObject
      /\ O' = x /\ Proceed(do, again, x)
      /\ maintenances' = maintenances /\ machine' = machine /\ completion' = completion
  BY PatchWrites
<1>2. /\ do \in Seq(Effect) /\ do # <<>> /\ O.phase # "gone"
      /\ WorkInv(O, maintenances, parked, machine, completion)
  BY DEF Underway
<1>3. Len(do) > 2
  BY <1>1, <1>2, SendsHead
<1>4. Prepares(e) /\ Allowed(e, O, maintenances, machine) /\ e = do[1]
  BY <1>2, <1>3, SendsHead
<1>5. O \in BIOSVersionObject /\ (NoneAsked(maintenances) => NoneLeaves(maintenances))
  BY TypesOfNow
<1> HIDE DEF e, x, n
<1>6. Keeps(e, O, x, maintenances, parked, machine, completion)
  BY <1>1, <1>2, <1>4, <1>5, AllowedStep
<1>7. WorkInv(O, maintenances, parked, machine, completion)'
  BY <1>1, <1>6 DEF Keeps
<1>8. ~Moves(e)
  BY <1>4, PrepareParts
<1>9. /\ ~Finishes(e) /\ Calm(O, maintenances, machine, x, maintenances, machine)
      /\ x.phase # "gone" /\ x.finalizer
  BY <1>2, <1>6, <1>8 DEF Keeps, Moves
<1>10. /\ x.ref = O.ref
       /\ \A type \in Decides : x.conds[type] = O.conds[type]
       /\ Has(O, "ResetIssued") \/ do[1] = SkipsReset => Has(x, "ResetIssued")
       /\ do[1] # Tells
  <2>1. e = SkipsReset \/ e = Recounts
    BY <1>1, <1>4, PrepareParts
  <2>2. CASE e = SkipsReset
    <3>1. e.op = "status" /\ e.type = "ResetIssued" /\ e.value = "true"
      BY <2>2, EffectParts DEF SkipsReset
    <3>2. Alters(e, O, x, n)
      BY <1>1, <1>2, <3>1 DEF Alters
    <3>3. "ResetIssued" \in ConditionType /\ Decides \subseteq Speaks
            /\ "ResetIssued" \notin Decides
      BY SpeaksFacts DEF Speaks, Decides, Watched, StageType
    <3>4. /\ x.conds["ResetIssued"] = "true"
          /\ \A type \in Speaks : type # "ResetIssued" => x.conds[type] = O.conds[type]
      BY <3>1, <3>2, <3>3, SpokenFacts
    <3>5. x.ref = O.ref
      BY <3>2, AltersFacts
    <3>6. do[1] # Tells
      BY <1>4, <3>1, EffectParts DEF Tells
    <3> QED
      BY <3>3, <3>4, <3>5, <3>6 DEF Has
  <2>3. CASE e = Recounts
    <3>1. e.op = "patch" /\ DOMAIN e.fields = {"attempts", "current"}
      BY <1>4, <2>3, PrepareParts, EffectParts DEF Recounts
    <3>2. x.ref = O.ref /\ x.conds = O.conds
      BY <1>1, <3>1 DEF Changed
    <3>3. do[1] # Tells /\ do[1] # SkipsReset
      BY <1>4, <3>1, EffectParts DEF Tells, SkipsReset
    <3> QED
      BY <3>2, <3>3 DEF Has
  <2> QED
    BY <2>1, <2>2, <2>3
<1>11. Sends(Tail(do), x, maintenances, parked, machine, completion)
  BY <1>2, <1>3, <1>9, <1>10, SendsTail
<1>12. JobInv'
  BY <1>1, <1>2, <1>9, <1>11, ProceedInv DEF Copies, Doable
<1>13. Disciplined
  BY <1>1, <1>9, TypesOfNow, UntouchedDiscipline
<1> QED
  BY <1>7, <1>12, <1>13 DEF VersionIInv

\* A command that was sent is recorded.
LEMMA PatchRecords ==
    ASSUME VTypes, NEW do, NEW again, NEW copy, Underway(do, copy),
           PatchObject(do, again, copy), parked' = parked, O.finalizer,
           Records(do, O, maintenances, machine, completion)
    PROVE  VersionIInv' /\ Disciplined
<1> DEFINE e == Head(do)
           x == Merged(copy, After(e, copy), O)
           n == Len(machine.tasks)
<1>1. /\ e \in Effect /\ Changed(e, O, x, n)
      /\ O' = x /\ Proceed(do, again, x)
      /\ maintenances' = maintenances /\ machine' = machine /\ completion' = completion
  BY PatchWrites
<1>2. /\ do \in Seq(Effect) /\ do # <<>> /\ O.phase # "gone"
      /\ WorkInv(O, maintenances, parked, machine, completion)
  BY DEF Underway
<1>3. /\ Len(do) = 1 /\ e = do[1] /\ O.state = "InProgress"
      /\ Secured(O, maintenances)
      /\ \/ /\ do[1] = RecordUpgrade
            /\ ~Issued(O) /\ Has(O, "ResetIssued") /\ machine.power = "On"
            /\ Run(machine) \subseteq {n}
            /\ O.phase = "live" => completion = "Unknown"
         \/ /\ do[1] = RecordReboot /\ Applied(O)
            /\ machine.power = "On" => machine.staged = None
  BY <1>2 DEF Records
<1> HIDE DEF e, x, n
<1>4. e.op = "status" /\ e.state = "same"
  BY <1>3, RecordParts, EffectParts
<1>5. Alters(e, O, x, n)
  BY <1>1, <1>2, <1>4 DEF Alters
<1>6. WorkInv(x, maintenances, parked, machine, completion)
  <2>1. CASE do[1] = RecordUpgrade
    <3>1. /\ e.type = "VersionUpgradeIssued" /\ e.value = "true" /\ e.task = "new"
      BY <1>3, <2>1, RecordParts, EffectParts
    <3>2. "VersionUpgradeIssued" # "UpgradeRebootIssued"
      OBVIOUS
    <3>3. RecordUpgrade # RecordReboot
      <4>1. RecordUpgrade.type # RecordReboot.type
        BY <3>2, RecordParts, EffectParts
      <4> QED
        BY <4>1
    <3> QED
      BY <1>2, <1>3, <1>4, <1>5, <2>1, <3>1, <3>3, MarkedStep
  <2>2. CASE do[1] = RecordReboot /\ Applied(O)
             /\ (machine.power = "On" => machine.staged = None)
    <3>1. e.type = "UpgradeRebootIssued"
      BY <1>3, <2>2, RecordParts, EffectParts
    <3> QED
      BY <1>2, <1>3, <1>4, <1>5, <2>2, <3>1, MarkedStep
  <2> QED
    BY <1>3, <2>1, <2>2
<1>7. x.phase = O.phase
  BY <1>5, AltersFacts
<1>8. JobInv'
  <2>1. ~(Len(do) > 1)
    BY <1>3
  <2> QED
    BY <1>1, <1>2, <2>1, ProceedInv
<1>9. Disciplined
  BY <1>1, <1>2, <1>7, TypesOfNow, UntouchedDiscipline
<1> QED
  BY <1>1, <1>6, <1>8, <1>9 DEF VersionIInv

\* An upgrade is verified at once.
LEMMA PatchSucceeds ==
    ASSUME VTypes, NEW do, NEW again, NEW copy, Underway(do, copy),
           PatchObject(do, again, copy), parked' = parked, O.finalizer,
           Succeeds(do, O, machine)
    PROVE  VersionIInv' /\ Disciplined
<1> DEFINE e == Head(do)
           x == Merged(copy, After(e, copy), O)
           n == Len(machine.tasks)
<1>1. /\ e \in Effect /\ Changed(e, O, x, n)
      /\ O' = x /\ Proceed(do, again, x)
      /\ maintenances' = maintenances /\ machine' = machine /\ completion' = completion
  BY PatchWrites
<1>2. /\ do \in Seq(Effect) /\ do # <<>> /\ O.phase # "gone"
      /\ WorkInv(O, maintenances, parked, machine, completion)
  BY DEF Underway
<1>3. Len(do) = 1 /\ e = RecordSuccess
  <2> HIDE DEF RecordSuccess
  <2> QED
    BY DEF Succeeds
<1> HIDE DEF e, x, n
<1>4. /\ e.op = "status" /\ e.state = "Completed" /\ e.type = "VersionUpgradeVerification"
  BY <1>3, EffectParts DEF RecordSuccess
<1>5. Alters(e, O, x, n)
  BY <1>1, <1>2, <1>4 DEF Alters
<1>6. WorkInv(x, maintenances, parked, machine, completion)
  BY <1>2, <1>4, <1>5, VerifiedStep DEF Succeeds
<1>7. x.phase = O.phase
  BY <1>5, AltersFacts
<1>8. JobInv'
  <2>1. ~(Len(do) > 1)
    BY <1>3
  <2> QED
    BY <1>1, <1>2, <2>1, ProceedInv
<1>9. Disciplined
  BY <1>1, <1>2, <1>7, TypesOfNow, UntouchedDiscipline
<1> QED
  BY <1>1, <1>6, <1>8, <1>9 DEF VersionIInv

\* The finalizer comes first.
LEMMA PatchAdopts ==
    ASSUME VTypes, NEW do, NEW again, NEW copy, Underway(do, copy),
           PatchObject(do, again, copy), parked' = parked, Adopts(do, O)
    PROVE  VersionIInv' /\ Disciplined
<1> DEFINE e == Head(do)
           x == Merged(copy, After(e, copy), O)
           n == Len(machine.tasks)
<1>1. /\ e \in Effect /\ Changed(e, O, x, n) /\ x \in BIOSVersionObject
      /\ O' = x /\ Proceed(do, again, x)
      /\ maintenances' = maintenances /\ machine' = machine /\ completion' = completion
  BY PatchWrites
<1>2. /\ do \in Seq(Effect) /\ do # <<>> /\ O.phase # "gone"
      /\ WorkInv(O, maintenances, parked, machine, completion)
  BY DEF Underway
<1>3. Len(do) = 1 /\ e = Patch([finalizer |-> TRUE]) /\ O.phase = "live"
  BY DEF Adopts
<1>4. O \in BIOSVersionObject
  BY TypesOfNow
<1> HIDE DEF e, x, n
<1>5. /\ e.op = "patch" /\ DOMAIN e.fields = {"finalizer"} /\ e.fields.finalizer = TRUE
  <2>1. e.op = "patch" /\ e.fields = [finalizer |-> TRUE]
    BY <1>3, EffectParts
  <2> QED
    BY <2>1
<1>6. ~Unasks(e) /\ ~Retries(e) /\ ~Finishes(e)
  BY <1>5 DEF Unasks, Retries, Finishes
<1>7. AllowedPatch(e, O, machine)
  BY <1>6 DEF AllowedPatch
<1>8. Keeps(e, O, x, maintenances, parked, machine, completion)
  BY <1>1, <1>2, <1>3, <1>4, <1>5, <1>7, PatchStep
<1>9. WorkInv(x, maintenances, parked, machine, completion) /\ x.phase = O.phase
  BY <1>6, <1>8 DEF Keeps
<1>10. JobInv'
  <2>1. ~(Len(do) > 1)
    BY <1>3
  <2> QED
    BY <1>1, <1>2, <2>1, ProceedInv
<1>11. Disciplined
  BY <1>1, <1>2, <1>9, TypesOfNow, UntouchedDiscipline
<1> QED
  BY <1>1, <1>9, <1>10, <1>11 DEF VersionIInv

\* A write to the object by a reconcile that may make it.
LEMMA PatchObjectStep ==
    ASSUME VTypes, NEW do, NEW again, NEW copy, Underway(do, copy),
           PatchObject(do, again, copy), parked' = parked
    PROVE  VersionIInv' /\ Disciplined
<1>1. ~Withdraws(do, O, maintenances, machine)
  <2>1. SUFFICES ASSUME Withdraws(do, O, maintenances, machine)
                 PROVE  FALSE
    OBVIOUS
  <2>2. \A a, b, d : Head(<<a, b, d>>) = a
    OBVIOUS
  <2>3. Head(do) = Deletes
    BY <2>1, <2>2 DEF Withdraws
  <2> QED
    BY <2>3, EffectParts DEF PatchObject
<1>2. \/ O.finalizer /\ Doable(do, O, maintenances, parked, machine, completion)
      \/ O.finalizer /\ Succeeds(do, O, machine)
      \/ Adopts(do, O)
  BY <1>1 DEF Underway, Startable
<1> QED
  BY <1>2, PatchPlain, PatchBefore, PatchRecords, PatchSucceeds, PatchAdopts DEF Doable

\* What is not a patch is part of a plan, or comes before a command, or
\* withdraws the maintenance.
LEMMA UnderwayKinds ==
    ASSUME NEW do, NEW copy, Underway(do, copy), Head(do).op \notin {"status", "patch"}
    PROVE  /\ O.finalizer
           /\ \/ Plain(do, O, maintenances, machine) /\ Allowed(Head(do), O, maintenances, machine)
              \/ Sends(do, O, maintenances, parked, machine, completion)
              \/ Withdraws(do, O, maintenances, machine) /\ Head(do) = Deletes
<1>1. do \in Seq(Effect) /\ do # <<>>
  BY DEF Underway
<1>2. Head(do) = do[1] /\ 1 \in 1..Len(do)
  BY <1>1, NonEmpty
<1>3. ~Adopts(do, O)
  <2>1. SUFFICES ASSUME do = <<Patch([finalizer |-> TRUE])>>
                 PROVE  FALSE
    BY DEF Adopts
  <2>2. \A a : Head(<<a>>) = a
    OBVIOUS
  <2>3. Head(do) = Patch([finalizer |-> TRUE])
    BY <2>1, <2>2
  <2> QED
    BY <2>3, EffectParts
<1>4. ~Succeeds(do, O, machine)
  <2>1. SUFFICES ASSUME do = <<RecordSuccess>>
                 PROVE  FALSE
    BY DEF Succeeds
  <2>2. \A a : Head(<<a>>) = a
    OBVIOUS
  <2>3. Head(do) = RecordSuccess
    BY <2>1, <2>2
  <2> QED
    BY <2>3, EffectParts DEF RecordSuccess
<1>5. ~Records(do, O, maintenances, machine, completion)
  <2>1. SUFFICES ASSUME do[1] \in {RecordUpgrade, RecordReboot}
                 PROVE  FALSE
    BY DEF Records
  <2> QED
    BY <1>2, <2>1, RecordParts, EffectParts
<1>6. Plain(do, O, maintenances, machine) => Allowed(Head(do), O, maintenances, machine)
  BY <1>2 DEF Plain
<1>7. Withdraws(do, O, maintenances, machine) => Head(do) = Deletes
  <2>1. \A a, b, d : Head(<<a, b, d>>) = a
    OBVIOUS
  <2> QED
    BY <2>1 DEF Withdraws
<1> QED
  BY <1>3, <1>4, <1>5, <1>6, <1>7 DEF Underway, Startable, Doable

\* The condition on the Server is changed.
LEMMA PatchServerStep ==
    ASSUME VTypes, NEW do, NEW again, NEW copy, Underway(do, copy),
           PatchServer(do, again, copy), parked' = parked
    PROVE  VersionIInv' /\ Disciplined
<1> DEFINE e == Head(do)
<1>1. /\ do \in Seq(Effect) /\ do # <<>> /\ O.phase # "gone" /\ Copies(copy, O)
      /\ WorkInv(O, maintenances, parked, machine, completion)
  BY DEF Underway
<1>2. /\ e.op = "completion" /\ completion' = e.status /\ Proceed(do, again, copy)
      /\ O' = O /\ maintenances' = maintenances /\ machine' = machine
  BY DEF PatchServer, O
<1>3. /\ O.finalizer
      /\ \/ Plain(do, O, maintenances, machine) /\ Allowed(e, O, maintenances, machine)
         \/ Sends(do, O, maintenances, parked, machine, completion)
  BY <1>2, UnderwayKinds, EffectParts
<1>4. Allowed(e, O, maintenances, machine)
  BY <1>1, <1>2, <1>3, SendsHead
<1> HIDE DEF e
<1>5. AllowedCompletion(e, O, machine)
  BY <1>2, <1>4 DEF Allowed
<1>6. Told(O, machine, e.status)
  <2>1. MachineInv(O, machine)
    BY <1>1 DEF WorkInv
  <2>2. e.status = "True" => AtRest(machine)
    BY <1>5, <2>1 DEF AllowedCompletion, MachineInv
  <2>3. O.state = "InProgress" /\ O.phase = "live" => e.status = "Unknown"
    <3>1. e.status \in CompletionStatus
      BY <1>1, <1>2, NonEmpty, EffectFacts DEF e
    <3> QED
      BY <1>5, <3>1 DEF AllowedCompletion, CompletionStatus, Quiet
  <2> QED
    BY <2>2, <2>3 DEF Told, AtRest
<1>7. WorkInv(O, maintenances, parked, machine, completion)'
  BY <1>1, <1>2, <1>6 DEF WorkInv
<1>8. ASSUME Len(do) > 1
      PROVE  Doable(Tail(do), O, maintenances, parked, machine, completion')
  <2>1. CASE Plain(do, O, maintenances, machine)
    BY <1>1, <1>8, <2>1, PlainTail DEF Doable
  <2>2. CASE Sends(do, O, maintenances, parked, machine, completion)
    <3>1. Len(do) > 2 /\ e = do[1] /\ Prepares(e)
      BY <1>1, <1>2, <2>2, SendsHead DEF e
    <3>2. e = Tells /\ e.status = "Unknown"
      BY <1>2, <3>1, PrepareParts
    <3>3. do[1] # SkipsReset
      BY <1>2, <3>1, EffectParts DEF SkipsReset
    <3>4. Calm(O, maintenances, machine, O, maintenances, machine)
      BY DEF Calm
    <3>5. Sends(Tail(do), O, maintenances, parked, machine, completion')
      BY <1>1, <1>2, <2>2, <3>1, <3>2, <3>3, <3>4, SendsTail
    <3> QED
      BY <3>5 DEF Doable
  <2> QED
    BY <1>3, <2>1, <2>2
<1>9. JobInv'
  BY <1>1, <1>2, <1>3, <1>8, ProceedInv
<1>10. Disciplined
  BY <1>1, <1>2, TypesOfNow, UntouchedDiscipline
<1> QED
  BY <1>7, <1>9, <1>10 DEF VersionIInv

\* A reset of the BMC is requested.
LEMMA RequestResetStep ==
    ASSUME VTypes, NEW do, NEW again, NEW copy, Underway(do, copy),
           RequestReset(do, again, copy), parked' = parked
    PROVE  VersionIInv' /\ Disciplined
<1>1. /\ do \in Seq(Effect) /\ do # <<>> /\ O.phase # "gone" /\ Copies(copy, O)
      /\ WorkInv(O, maintenances, parked, machine, completion)
  BY DEF Underway
<1>2. /\ Head(do).op = "resetBMC" /\ Proceed(do, again, copy)
      /\ O' = O /\ maintenances' = maintenances /\ machine' = machine
      /\ completion' = completion
  BY DEF RequestReset, O
<1>3. O.finalizer /\ Plain(do, O, maintenances, machine)
  <2>1. ~Sends(do, O, maintenances, parked, machine, completion)
    BY <1>1, <1>2, SendsHead
  <2> QED
    BY <1>2, <2>1, UnderwayKinds, EffectParts
<1>4. JobInv'
  BY <1>1, <1>2, <1>3, PlainTail, ProceedInv DEF Doable
<1>5. WorkInv(O, maintenances, parked, machine, completion)'
  BY <1>1, <1>2
<1>6. Disciplined
  BY <1>1, <1>2, TypesOfNow, UntouchedDiscipline
<1> QED
  BY <1>4, <1>5, <1>6 DEF VersionIInv

\* The maintenance of a version that fits is deleted.
LEMMA DeletePlain ==
    ASSUME NEW o, NEW ms \in Seq(Maintenance), Len(ms) > 0, NEW p \in BOOLEAN, NEW m, NEW c,
           WorkInv(o, ms, p, m, c), o.state \in {"Pending", "Completed"}, Quitted(o, ms, m),
           Stored(ms) # None, NEW t, GrantParks(t, p), GrantStays(t)
    PROVE  WorkInv(o, t, p, m, c) /\ Calm(o, ms, m, o, t, m)
<1>1. Fits(o, m)
  BY LastFacts DEF Quitted
<1>2. ~NoneAsked(ms)
  BY LastFacts
<1>3. GivenBack(o, t, m)
  BY <1>1 DEF GivenBack, Quitted
<1>4. Kept(o, t, m)
  BY DEF Kept
<1>5. WorkInv(o, t, p, m, c)
  BY <1>3, <1>4 DEF WorkInv
<1>6. Calm(o, ms, m, o, t, m)
  BY <1>1, <1>2 DEF Calm, Quitted, Upcoming
<1> QED
  BY <1>5, <1>6

\* A maintenance with a deletion timestamp is held no longer.
LEMMA DeletingFacts ==
    ASSUME NEW y \in Maintenance, y # None, NEW x, x = [y EXCEPT !.deleting = TRUE]
    PROVE  x \in Maintenance /\ x # None /\ ~Held(x) /\ ~Granted(x) /\ x.state = y.state
<1>1. y \in [state : MaintenanceState, deleting : BOOLEAN]
  BY DEF Maintenance
<1>2. x \in [state : MaintenanceState, deleting : BOOLEAN] /\ x.deleting /\ x.state = y.state
  BY <1>1
<1> QED
  BY <1>2, AbsenceAssumption DEF Maintenance, Held, Granted

\* A write leaves what was in the stream before.
LEMMA WriteSecond ==
    ASSUME NEW ms \in Seq(Maintenance), Len(ms) > 0, NEW x \in Maintenance,
           NEW t, t = Write(ms, x)
    PROVE  /\ \A i \in 1..Len(ms) : t[i] = ms[i]
           /\ \A i \in 1..Len(t) : i \in 1..Len(ms) \/ t[i] = x
<1>1. CASE x = Stored(ms)
  BY <1>1 DEF Write
<1>2. CASE x # Stored(ms)
  <2>1. /\ Len(t) = Len(ms) + 1 /\ Len(ms) \in Nat
        /\ \A i \in 1..Len(ms) : t[i] = ms[i]
        /\ t[Len(ms) + 1] = x
    BY <1>2 DEF Write
  <2> QED
    BY <2>1
<1> QED
  BY <1>1, <1>2

\* A write that grants nothing leaves no granted maintenance behind.
LEMMA Ungranted ==
    ASSUME NEW ms \in Seq(Maintenance), Len(ms) = 1, ms[1].state # "InMaintenance",
           NEW x \in Maintenance, x.state # "InMaintenance"
    PROVE  NoneLeaves(Write(ms, x))
<1>1. PICK t : t = Write(ms, x)
  OBVIOUS
<1>2. /\ \A i \in 1..Len(ms) : t[i] = ms[i]
      /\ \A i \in 1..Len(t) : i \in 1..Len(ms) \/ t[i] = x
  BY <1>1, WriteSecond
<1>3. \A i \in 1..1 : i = 1
  OBVIOUS
<1>4. \A i \in 1..Len(t) : t[i].state # "InMaintenance"
  BY <1>2, <1>3
<1>5. NoneLeaves(t)
  BY <1>4 DEF NoneLeaves
<1> QED
  BY <1>1, <1>5

\* A maintenance that was not granted is withdrawn.
LEMMA WithdrawnFacts ==
    ASSUME NEW ms \in Seq(Maintenance), Len(ms) > 0, MaxLag = 1, NoneLeaves(ms),
           Cached(ms).state # "InMaintenance", Stored(ms) # None,
           NEW x, x = [Stored(ms) EXCEPT !.deleting = TRUE],
           Writable(ms, x), NEW t, t = Write(ms, x)
    PROVE  NoneLeaves(t)
<1>1. Stored(ms) \in Maintenance /\ Len(ms) \in Nat
  BY EndFacts
<1>2. x \in Maintenance /\ x # None /\ ~Held(x) /\ x.state = Stored(ms).state
  BY <1>1, DeletingFacts
<1>3. CASE x = Stored(ms)
  BY <1>3 DEF Write
<1>4. CASE x # Stored(ms)
  <2>1. Len(ms) = 1
    <3>1. Len(ms) =< 1
      BY <1>4 DEF Writable
    <3>2. \A n \in Nat : n =< 1 /\ n > 0 => n = 1
      OBVIOUS
    <3> QED
      BY <1>1, <3>1, <3>2
  <2>2. Stored(ms) = ms[1] /\ x.state # "InMaintenance"
    BY <1>2, <2>1 DEF Stored, Cached
  <2>3. ms[1].state # "InMaintenance"
    BY <2>1 DEF Cached
  <2> QED
    BY <1>2, <2>1, <2>2, <2>3, Ungranted
<1> QED
  BY <1>3, <1>4

\* What follows a withdrawal.
LEMMA WithdrawnPlain ==
    ASSUME NEW do, do = <<Deletes, Unref, ReadinessGatesNotSatisfied("Pending")>>,
           NEW o, o.state = "InProgress", NEW m, AtRest(m), ~Issued(o), NEW ms
    PROVE  Plain(Tail(do), o, ms, m)
<1> DEFINE e == Unref
           f == ReadinessGatesNotSatisfied("Pending")
<1>1. e.op = "patch" /\ e.fields = [ref |-> FALSE]
  BY EffectParts DEF Unref
<1>2. DOMAIN e.fields = {"ref"}
  BY <1>1
<1>3. ~Retries(e) /\ ~Finishes(e)
  BY <1>2 DEF Retries, Finishes
<1>4. Allowed(e, o, ms, m) /\ ~Moves(e)
  BY <1>1, <1>3 DEF Allowed, AllowedPatch, Moves
<1>5. /\ f.op = "status" /\ f.state = "Pending" /\ f.task = "keep"
      /\ f.type = "ReadinessGatesSatisfied"
  BY RecordParts, EffectParts
<1>6. Allowed(f, o, ms, m)
  BY <1>5 DEF Allowed, AllowedStatus, Gates, From
<1>7. /\ Tail(do) = <<e, f>>
  OBVIOUS
<1> HIDE DEF e, f
<1>8. Len(<<e, f>>) = 2 /\ <<e, f>>[1] = e /\ <<e, f>>[2] = f
  OBVIOUS
<1>9. \A i \in 1..2 : i = 1 \/ i = 2
  OBVIOUS
<1>10. Plain(<<e, f>>, o, ms, m)
  BY <1>4, <1>6, <1>8, <1>9 DEF Plain
<1> QED
  BY <1>7, <1>10

\* The deletion of the maintenance by a reconcile that may do it.
LEMMA DeleteMaintenanceStep ==
    ASSUME VTypes, NEW do, NEW again, NEW copy, Underway(do, copy),
           DeleteMaintenance(do, again, copy), parked' = parked
    PROVE  VersionIInv' /\ Disciplined
<1> DEFINE ms == maintenances
           x == [Stored(ms) EXCEPT !.deleting = TRUE]
<1>1. /\ do \in Seq(Effect) /\ do # <<>> /\ O.phase # "gone" /\ Copies(copy, O)
      /\ WorkInv(O, ms, parked, machine, completion)
  BY DEF Underway
<1>2. /\ Head(do).op = "deleteMaintenance" /\ Proceed(do, again, copy)
      /\ Stored(ms) # None /\ Writable(ms, x) /\ ms' = Write(ms, x)
      /\ O' = O /\ machine' = machine /\ completion' = completion
  BY DEF DeleteMaintenance, WriteMaintenance, O
<1>3. ms \in Seq(Maintenance) /\ Len(ms) > 0 /\ parked \in BOOLEAN /\ Stored(ms) \in Maintenance
  BY TypesOfNow, EndFacts
<1>4. x \in Maintenance /\ x # None /\ ~Held(x) /\ ~Granted(x)
  BY <1>2, <1>3, DeletingFacts
<1>5. GrantParks(ms, parked) /\ GrantStays(ms)
  BY <1>1 DEF WorkInv
<1> HIDE DEF x
<1>6. GrantParks(ms', parked) /\ GrantStays(ms')
  BY <1>2, <1>3, <1>4, <1>5, WriteMaintenanceFacts
<1>7. O.finalizer /\ \/ /\ Plain(do, O, ms, machine)
                        /\ Allowed(Head(do), O, ms, machine)
                     \/ Withdraws(do, O, ms, machine)
  <2>1. ~Sends(do, O, ms, parked, machine, completion)
    BY <1>1, <1>2, SendsHead
  <2> QED
    BY <1>2, <2>1, UnderwayKinds, EffectParts
<1>8. Disciplined
  BY <1>1, <1>2, TypesOfNow, UntouchedDiscipline
<1>9. CASE Plain(do, O, ms, machine) /\ Allowed(Head(do), O, ms, machine)
  <2>1. O.state \in {"Pending", "Completed"} /\ Quitted(O, ms, machine)
    BY <1>2, <1>9 DEF Allowed
  <2>2. /\ WorkInv(O, ms', parked, machine, completion)
        /\ Calm(O, ms, machine, O, ms', machine)
    BY <1>1, <1>2, <1>3, <1>6, <2>1, DeletePlain
  <2>3. Len(do) > 1 => Plain(Tail(do), O, ms', machine)
    BY <1>1, <1>9, <2>2, PlainTail, PlainStable
  <2>4. JobInv'
    BY <1>1, <1>2, <1>7, <2>3, ProceedInv DEF Doable
  <2>5. WorkInv(O, ms, parked, machine, completion)'
    BY <1>2, <2>2
  <2> QED
    BY <1>8, <2>4, <2>5 DEF VersionIInv
<1>10. CASE Withdraws(do, O, ms, machine)
  <2>1. /\ O.state = "InProgress" /\ AtRest(machine) /\ ~Issued(O) /\ MaxLag = 1
        /\ Cached(ms).state # "InMaintenance"
        /\ do = <<Deletes, Unref, ReadinessGatesNotSatisfied("Pending")>>
    BY <1>10 DEF Withdraws
  <2>2. NoneLeaves(ms)
    BY <1>1, <2>1 DEF WorkInv, GivenBack
  <2>3. NoneLeaves(ms')
    BY <1>2, <1>3, <2>1, <2>2, WithdrawnFacts DEF x
  <2>4. GivenBack(O, ms', machine) /\ Kept(O, ms', machine)
    BY <2>1, <2>3 DEF GivenBack, Kept
  <2>5. WorkInv(O, ms, parked, machine, completion)'
    BY <1>1, <1>2, <1>6, <2>4 DEF WorkInv
  <2>6. Plain(Tail(do), O, ms', machine)
    BY <2>1, WithdrawnPlain
  <2>7. JobInv'
    BY <1>1, <1>2, <1>7, <2>6, ProceedInv DEF Doable
  <2> QED
    BY <1>8, <2>5, <2>7 DEF VersionIInv
<1> QED
  BY <1>7, <1>9, <1>10

\* A maintenance that is requested anew.
LEMMA FreshFacts ==
    ASSUME NEW x, x = [state |-> "", deleting |-> FALSE]
    PROVE  x \in Maintenance /\ x # None /\ ~Granted(x) /\ Held(x) /\ x.state = ""
<1>1. x.state = "" /\ x.deleting = FALSE
  OBVIOUS
<1>2. "" \in MaintenanceState /\ FALSE \in BOOLEAN
  BY DEF MaintenanceState
<1>3. x \in [state : MaintenanceState, deleting : BOOLEAN]
  BY <1>2
<1> QED
  BY <1>1, <1>3, AbsenceAssumption DEF Maintenance, Granted, Held

\* The stored object is the last of the stream.
LEMMA LastOfAll ==
    ASSUME NEW S, NEW s \in Seq(S), Len(s) > 0
    PROVE  Len(s) \in 1..Len(s) /\ Stored(s) = s[Len(s)] /\ Len(s) =< Len(s)
  BY DEF Stored

\* What CreateOrPatch makes of the maintenance.
LEMMA CreatedFacts ==
    ASSUME NEW ms \in Seq(Maintenance), Len(ms) > 0,
           (Cached(ms) = None) = (Stored(ms) = None),
           NEW x, x = IF Cached(ms) = None THEN [state |-> "", deleting |-> FALSE]
                      ELSE IF Cached(ms).state = "Pending"
                      THEN [Stored(ms) EXCEPT !.state = ""] ELSE Stored(ms)
    PROVE  /\ x \in Maintenance
           /\ x = Stored(ms) \/ ~Granted(x)
           /\ x = Stored(ms) \/ ~Granted(Cached(ms))
           /\ Held(Stored(ms)) => Held(x)
           /\ NoneLeaves(ms) => (x # None /\ x.state = "InMaintenance" => Held(x))
<1>1. Stored(ms) \in Maintenance /\ Cached(ms) \in Maintenance
  BY EndFacts
<1>2. CASE Cached(ms) = None
  <2>1. x = [state |-> "", deleting |-> FALSE] /\ Stored(ms) = None
    BY <1>2
  <2>2. x \in Maintenance /\ x # None /\ ~Granted(x) /\ Held(x) /\ x.state = ""
    BY <2>1, FreshFacts
  <2> QED
    BY <1>2, <2>1, <2>2 DEF Held, Granted
<1>3. CASE Cached(ms) # None /\ Cached(ms).state = "Pending"
  <2>1. x = [Stored(ms) EXCEPT !.state = ""] /\ Stored(ms) # None
    BY <1>3
  <2>2. Stored(ms) \in [state : MaintenanceState, deleting : BOOLEAN]
    BY <1>1, <2>1 DEF Maintenance
  <2>3. /\ x \in [state : MaintenanceState, deleting : BOOLEAN]
        /\ x.state = "" /\ x.deleting = Stored(ms).deleting
    BY <2>1, <2>2 DEF MaintenanceState
  <2> QED
    BY <1>3, <2>3, AbsenceAssumption DEF Maintenance, Granted, Held
<1>4. CASE Cached(ms) # None /\ Cached(ms).state # "Pending"
  <2>1. x = Stored(ms)
    BY <1>4
  <2>2. NoneLeaves(ms) => (x # None /\ x.state = "InMaintenance" => Held(x))
    <3>1. Len(ms) \in 1..Len(ms) /\ Stored(ms) = ms[Len(ms)] /\ Len(ms) =< Len(ms)
      BY LastOfAll
    <3> QED
      BY <2>1, <3>1 DEF NoneLeaves
  <2> QED
    BY <1>1, <2>1, <2>2
<1> QED
  BY <1>2, <1>3, <1>4

\* A maintenance is requested, or taken over.
LEMMA CreateMaintenanceStep ==
    ASSUME VTypes, NEW do, NEW again, NEW copy, Underway(do, copy),
           CreateMaintenance(do, again, copy), parked' = parked
    PROVE  VersionIInv' /\ Disciplined
<1> DEFINE ms == maintenances
           x == IF Cached(ms) = None THEN [state |-> "", deleting |-> FALSE]
                ELSE IF Cached(ms).state = "Pending"
                THEN [Stored(ms) EXCEPT !.state = ""] ELSE Stored(ms)
<1>1. /\ do \in Seq(Effect) /\ do # <<>> /\ O.phase # "gone" /\ Copies(copy, O)
      /\ WorkInv(O, ms, parked, machine, completion)
  BY DEF Underway
<1>2. /\ Head(do).op = "createMaintenance" /\ Proceed(do, again, copy)
      /\ (Cached(ms) = None) = (Stored(ms) = None)
      /\ Writable(ms, x) /\ ms' = Write(ms, x)
      /\ O' = O /\ machine' = machine /\ completion' = completion
  BY DEF CreateMaintenance, WriteMaintenance, O
<1>3. ms \in Seq(Maintenance) /\ Len(ms) > 0 /\ parked \in BOOLEAN
  BY TypesOfNow
<1>4. /\ x \in Maintenance
      /\ x = Stored(ms) \/ ~Granted(x)
      /\ x = Stored(ms) \/ ~Granted(Cached(ms))
      /\ Held(Stored(ms)) => Held(x)
      /\ NoneLeaves(ms) => (x # None /\ x.state = "InMaintenance" => Held(x))
  BY <1>2, <1>3, CreatedFacts
<1>5. GrantParks(ms, parked) /\ GrantStays(ms)
  BY <1>1 DEF WorkInv
<1> HIDE DEF x
<1>6. /\ GrantParks(ms', parked) /\ GrantStays(ms')
      /\ NoneLeaves(ms) => NoneLeaves(ms')
  BY <1>2, <1>3, <1>4, <1>5, WriteMaintenanceFacts
<1>7. AllGranted(ms) => AllGranted(ms')
  <2>1. SUFFICES ASSUME AllGranted(ms)
                 PROVE  AllGranted(ms')
    OBVIOUS
  <2>2. Granted(Cached(ms))
    BY <1>3, <2>1, LastFacts
  <2>3. ms' = ms
    BY <1>2, <1>4, <2>2 DEF Write
  <2> QED
    BY <2>1, <2>3
<1>8. /\ O.finalizer /\ Plain(do, O, ms, machine)
      /\ O.state \in {"InProgress", "Failed"}
  <2>1. ~Sends(do, O, ms, parked, machine, completion)
    BY <1>1, <1>2, SendsHead
  <2>2. /\ O.finalizer /\ Plain(do, O, ms, machine) /\ Allowed(Head(do), O, ms, machine)
    BY <1>2, <2>1, UnderwayKinds, EffectParts
  <2> QED
    BY <1>2, <2>2 DEF Allowed
<1>9. GivenBack(O, ms', machine) /\ Kept(O, ms', machine)
  BY <1>1, <1>6, <1>7, <1>8 DEF WorkInv, GivenBack, Kept, Secured
<1>10. WorkInv(O, ms, parked, machine, completion)'
  BY <1>1, <1>2, <1>6, <1>9 DEF WorkInv
<1>11. Calm(O, ms, machine, O, ms', machine)
  BY <1>8 DEF Calm, Quiet
<1>12. JobInv'
  <2>1. Len(do) > 1 => Plain(Tail(do), O, ms', machine)
    BY <1>1, <1>8, <1>11, PlainTail, PlainStable
  <2> QED
    BY <1>1, <1>2, <1>8, <2>1, ProceedInv DEF Doable
<1>13. Disciplined
  BY <1>1, <1>2, TypesOfNow, UntouchedDiscipline
<1> QED
  BY <1>10, <1>12, <1>13 DEF VersionIInv

\* A power command is sent.
LEMMA SendCommandStep ==
    ASSUME VTypes, ~LazyRestart, NEW do, NEW again, NEW copy, Underway(do, copy),
           SendCommand(do, again, copy), parked' = parked
    PROVE  VersionIInv' /\ Disciplined
<1>1. /\ do \in Seq(Effect) /\ do # <<>> /\ O.phase # "gone" /\ Copies(copy, O)
      /\ WorkInv(O, maintenances, parked, machine, completion)
  BY DEF Underway
<1>2. /\ Head(do).op = "command" /\ machine' = Commanded(machine, Head(do).command)
      /\ Proceed(do, again, copy) /\ O' = O
      /\ maintenances' = maintenances /\ completion' = completion
  BY DEF SendCommand, O
<1>3. O.finalizer /\ Sends(do, O, maintenances, parked, machine, completion)
  <2>1. ~Allowed(Head(do), O, maintenances, machine)
    BY <1>2 DEF Allowed
  <2> QED
    BY <1>2, <2>1, UnderwayKinds, EffectParts
<1>4. machine \in Machine /\ Len(do) = 2
  BY <1>1, <1>2, <1>3, TypesOfNow, SendsHead
<1>5. /\ parked /\ Run(machine) = {}
      /\ WorkInv(O, maintenances, parked, machine', completion)
      /\ Doable(Tail(do), O, maintenances, parked, machine', completion)
  <2> DEFINE y == Commanded(machine, Head(do).command)
  <2>1. machine' = y
    BY <1>2
  <2> HIDE DEF y
  <2>2. /\ parked /\ Run(machine) = {}
        /\ WorkInv(O, maintenances, parked, y, completion)
        /\ Doable(Tail(do), O, maintenances, parked, y, completion)
    BY <1>1, <1>2, <1>3, <1>4, PowerSends DEF y
  <2> QED
    BY <2>1, <2>2
<1>6. JobInv'
  BY <1>1, <1>2, <1>3, <1>5, ProceedInv
<1>7. WorkInv(O, maintenances, parked, machine, completion)'
  BY <1>2, <1>5
<1>8. Disciplined
  <2>1. ~UpgradeSent
    <3>1. machine'.tasks = machine.tasks
      BY <1>2, <1>4, PowerCommands
    <3>2. Len(machine.tasks) \in Nat
      BY <1>4 DEF Machine
    <3>3. \A n \in Nat : ~(n > n)
      OBVIOUS
    <3> QED
      BY <3>1, <3>2, <3>3 DEF UpgradeSent
  <2> QED
    BY <1>1, <1>2, <1>5, <2>1, RunIsRunning DEF Disciplined
<1> QED
  BY <1>6, <1>7, <1>8 DEF VersionIInv

\* An upgrade is sent.
LEMMA IssueUpgradeStep ==
    ASSUME VTypes, Orderly, NEW do, NEW again, NEW copy, Underway(do, copy),
           IssueUpgrade(do, again, copy), parked' = parked
    PROVE  VersionIInv' /\ Disciplined
<1> DEFINE v == Head(do).version
<1>1. /\ do \in Seq(Effect) /\ do # <<>> /\ O.phase # "gone" /\ Copies(copy, O)
      /\ WorkInv(O, maintenances, parked, machine, completion)
  BY DEF Underway
<1>2. /\ Head(do).op = "upgrade" /\ machine' = Upgrading(machine, v)
      /\ Proceed(do, again, copy) /\ O' = O
      /\ maintenances' = maintenances /\ completion' = completion
  BY DEF IssueUpgrade, O
<1>3. O.finalizer /\ Sends(do, O, maintenances, parked, machine, completion)
  <2>1. ~Allowed(Head(do), O, maintenances, machine)
    BY <1>2 DEF Allowed
  <2> QED
    BY <1>2, <2>1, UnderwayKinds, EffectParts
<1>4. machine \in Machine /\ Len(do) = 2
  BY <1>1, <1>2, <1>3, TypesOfNow, SendsHead
<1> HIDE DEF v
<1>5. /\ parked /\ AtRest(machine)
      /\ WorkInv(O, maintenances, parked, machine', completion)
      /\ Records(Tail(do), O, maintenances, machine', completion)
  BY <1>1, <1>2, <1>3, <1>4, UpgradeSends
<1>6. JobInv'
  BY <1>1, <1>2, <1>3, <1>5, ProceedInv DEF Doable
<1>7. WorkInv(O, maintenances, parked, machine, completion)'
  BY <1>2, <1>5
<1>8. Disciplined
  <2>1. ~UpgradePending
    BY <1>5, RunIsRunning DEF AtRest, UpgradePending
  <2>2. ~PowerSent
    BY <1>2, <1>4, <1>5, UpgradingRuns DEF PowerSent, AtRest
  <2> QED
    BY <1>1, <1>2, <1>5, <2>1, <2>2 DEF Disciplined
<1> QED
  BY <1>6, <1>7, <1>8 DEF VersionIInv

\* An upgrade is refused.
LEMMA FailUpgradeStep ==
    ASSUME VTypes, Orderly, NEW do, NEW copy, Underway(do, copy),
           FailUpgrade(do, copy), parked' = parked
    PROVE  VersionIInv' /\ Disciplined
<1> DEFINE e == UpdateStatus("Failed", "clear", "VersionUpgradeIssued", "failed")
           v == Head(do).version
<1>1. /\ do \in Seq(Effect) /\ do # <<>> /\ O.phase # "gone" /\ Copies(copy, O)
      /\ WorkInv(O, maintenances, parked, machine, completion)
  BY DEF Underway
<1>2. /\ Head(do).op = "upgrade" /\ machine' = machine /\ O' = O
      /\ maintenances' = maintenances /\ completion' = completion
      /\ job'.do = <<e>> /\ job'.copy = copy
  BY DEF FailUpgrade, Orderly, O
<1>3. O.finalizer /\ Sends(do, O, maintenances, parked, machine, completion)
  <2>1. ~Allowed(Head(do), O, maintenances, machine)
    BY <1>2 DEF Allowed
  <2> QED
    BY <1>2, <2>1, UnderwayKinds, EffectParts
<1>4. machine \in Machine /\ Len(do) = 2
  BY <1>1, <1>2, <1>3, TypesOfNow, SendsHead
<1>5. AtRest(machine) /\ O.state = "InProgress" /\ ~Applied(O)
  BY <1>1, <1>2, <1>3, <1>4, UpgradeCalls
<1> HIDE DEF e
<1>6. Plain(<<e>>, O, maintenances, machine)
  BY <1>5, UpgradeFails DEF e
<1>7. JobInv'
  <2>1. <<e>> # <<>>
    OBVIOUS
  <2> QED
    BY <1>1, <1>2, <1>3, <1>6, <2>1 DEF JobInv, Doable
<1>8. WorkInv(O, maintenances, parked, machine, completion)'
  BY <1>1, <1>2
<1>9. Disciplined
  BY <1>1, <1>2, TypesOfNow, UntouchedDiscipline
<1> QED
  BY <1>7, <1>8, <1>9 DEF VersionIInv

\* A call is refused, or lost.
LEMMA StoppedStep ==
    ASSUME VTypes, WorkInv(O, maintenances, parked, machine, completion),
           job' = Idle, parked' = parked,
           UNCHANGED <<objects, maintenances, machine, completion>>
    PROVE  VersionIInv' /\ Disciplined
<1>1. JobInv'
  BY DEF JobInv
<1>2. O' = O /\ machine' = machine
  BY DEF O
<1>3. WorkInv(O, maintenances, parked, machine, completion)'
  BY <1>2
<1>4. Disciplined
  BY <1>2, TypesOfNow, UntouchedDiscipline
<1> QED
  BY <1>1, <1>3, <1>4 DEF VersionIInv

\* Each call of a reconcile that may make it keeps everything.
LEMMA PerformStep ==
    ASSUME VTypes, Orderly, NEW do, NEW again, NEW copy, Underway(do, copy),
           Perform(do, again, copy)
    PROVE  VersionIInv' /\ Disciplined
<1>1. parked' = parked /\ ~LazyRestart
  BY DEF Perform, Orderly
<1>2. CASE PatchObject(do, again, copy)
  BY <1>1, <1>2, PatchObjectStep
<1>3. CASE PatchServer(do, again, copy)
  BY <1>1, <1>3, PatchServerStep
<1>4. CASE RequestReset(do, again, copy)
  BY <1>1, <1>4, RequestResetStep
<1>5. CASE DeleteMaintenance(do, again, copy)
  BY <1>1, <1>5, DeleteMaintenanceStep
<1>6. CASE CreateMaintenance(do, again, copy)
  BY <1>1, <1>6, CreateMaintenanceStep
<1>7. CASE Refused(do, again, copy)
  BY <1>1, <1>7, StoppedStep DEF Refused, Underway
<1>8. CASE SendCommand(do, again, copy)
  BY <1>1, <1>8, SendCommandStep
<1>9. CASE IssueUpgrade(do, again, copy)
  BY <1>1, <1>9, IssueUpgradeStep
<1>10. CASE FailUpgrade(do, copy)
  BY <1>1, <1>10, FailUpgradeStep
<1> QED
  BY <1>2, <1>3, <1>4, <1>5, <1>6, <1>7, <1>8, <1>9, <1>10 DEF Perform

-----------------------------------------------------------------------------
(* What the plans have to do                                               *)

\* Effects that may come anywhere in a plan.
May(e, o, ms, m) == Allowed(e, o, ms, m) /\ ~Moves(e)
Soft(do, o, ms, m) == \A i \in 1..Len(do) : May(do[i], o, ms, m)
Leads(do, o, ms, m) == \A i \in 1..Len(do) : Prepares(do[i]) /\ Allowed(do[i], o, ms, m)

\* The elements of two sequences joined.
LEMMA JoinFacts ==
    ASSUME NEW s \in Seq(Effect), NEW t \in Seq(Effect)
    PROVE  /\ Len(s) \in Nat /\ Len(t) \in Nat /\ Len(s \o t) = Len(s) + Len(t)
           /\ \A i \in 1..Len(s) : (s \o t)[i] = s[i]
           /\ \A j \in 1..Len(t) : (s \o t)[Len(s) + j] = t[j]
           /\ \A i \in 1..Len(s \o t) :
                i \in 1..Len(s) \/ \E j \in 1..Len(t) : i = Len(s) + j
<1>1. /\ Len(s) \in Nat /\ Len(t) \in Nat /\ Len(s \o t) = Len(s) + Len(t)
      /\ \A i \in 1..Len(s) : (s \o t)[i] = s[i]
  OBVIOUS
<1>2. \A j \in 1..Len(t) : (s \o t)[Len(s) + j] = t[j]
  OBVIOUS
<1>3. ASSUME NEW i \in 1..Len(s \o t), i \notin 1..Len(s)
      PROVE  \E j \in 1..Len(t) : i = Len(s) + j
  <2>1. i - Len(s) \in 1..Len(t) /\ i = Len(s) + (i - Len(s))
    BY <1>1, <1>3
  <2> QED
    BY <2>1
<1> QED
  BY <1>1, <1>2, <1>3

\* One or two soft writes are a soft sequence.
LEMMA SoftOne ==
    ASSUME NEW o, NEW ms, NEW m
    PROVE  /\ Soft(<<>>, o, ms, m)
           /\ \A e : May(e, o, ms, m) => Soft(<<e>>, o, ms, m)
           /\ \A e, f : May(e, o, ms, m) /\ May(f, o, ms, m) => Soft(<<e, f>>, o, ms, m)
<1>1. Soft(<<>>, o, ms, m)
  BY DEF Soft
<1>2. ASSUME NEW e, May(e, o, ms, m)
      PROVE  Soft(<<e>>, o, ms, m)
  <2>1. Len(<<e>>) = 1 /\ <<e>>[1] = e
    OBVIOUS
  <2>2. \A i \in 1..1 : i = 1
    OBVIOUS
  <2> QED
    BY <1>2, <2>1, <2>2 DEF Soft
<1>3. ASSUME NEW e, NEW f, May(e, o, ms, m), May(f, o, ms, m)
      PROVE  Soft(<<e, f>>, o, ms, m)
  <2>1. Len(<<e, f>>) = 2 /\ <<e, f>>[1] = e /\ <<e, f>>[2] = f
    OBVIOUS
  <2>2. \A i \in 1..2 : i = 1 \/ i = 2
    OBVIOUS
  <2> QED
    BY <1>3, <2>1, <2>2 DEF Soft
<1> QED
  BY <1>1, <1>2, <1>3

\* Soft writes may precede others.
LEMMA SoftJoin ==
    ASSUME NEW s \in Seq(Effect), NEW t \in Seq(Effect), NEW o, NEW ms, NEW m,
           Soft(s, o, ms, m)
    PROVE  /\ Soft(t, o, ms, m) => Soft(s \o t, o, ms, m)
           /\ Plain(t, o, ms, m) => Plain(s \o t, o, ms, m)
<1>1. ASSUME Soft(t, o, ms, m)
      PROVE  Soft(s \o t, o, ms, m)
  BY <1>1, JoinFacts DEF Soft
<1>2. ASSUME Plain(t, o, ms, m)
      PROVE  Plain(s \o t, o, ms, m)
  <2>1. SUFFICES ASSUME NEW i \in 1..Len(s \o t)
                 PROVE  /\ Allowed((s \o t)[i], o, ms, m)
                        /\ Moves((s \o t)[i]) => i = Len(s \o t)
    BY DEF Plain
  <2>2. CASE i \in 1..Len(s)
    BY <2>2, JoinFacts DEF Soft, May
  <2>3. CASE i \notin 1..Len(s)
    <3>1. PICK j \in 1..Len(t) : i = Len(s) + j
      BY <2>1, <2>3, JoinFacts
    <3>2. /\ (s \o t)[i] = t[j]
          /\ j = Len(t) => i = Len(s \o t)
      BY <3>1, JoinFacts
    <3> QED
      BY <1>2, <3>2 DEF Plain
  <2> QED
    BY <2>2, <2>3
<1> QED
  BY <1>1, <1>2

\* Soft writes may be made, and those that lead to a command are soft.
LEMMA SoftPlain ==
    ASSUME NEW do, NEW o, NEW ms, NEW m
    PROVE  /\ Soft(do, o, ms, m) => Plain(do, o, ms, m)
           /\ Leads(do, o, ms, m) => Soft(do, o, ms, m)
<1>1. Soft(do, o, ms, m) => Plain(do, o, ms, m)
  BY DEF Soft, May, Plain
<1>2. Leads(do, o, ms, m) => Soft(do, o, ms, m)
  BY PrepareParts DEF Leads, Soft, May
<1> QED
  BY <1>1, <1>2

\* A command after what leads up to it.
LEMMA SendsJoin ==
    ASSUME NEW s \in Seq(Effect), NEW a, NEW b, <<a, b>> \in Seq(Effect),
           NEW o, NEW ms, NEW p, NEW m, NEW c, Leads(s, o, ms, m),
           p, Held(Stored(ms)), o.state = "InProgress" => Secured(o, ms),
           \/ /\ \E v \in Versions : a = Upgrades(v)
              /\ b = RecordUpgrade
              /\ o.state = "InProgress" /\ ~Issued(o) /\ AtRest(m)
              /\ c = "Unknown" \/ \E i \in 1..Len(s) : s[i] = Tells
              /\ Has(o, "ResetIssued") \/ \E i \in 1..Len(s) : s[i] = SkipsReset
           \/ SendsReset(<<a, b>>, o) \/ SendsCycle(<<a, b>>, o)
    PROVE  Sends(s \o <<a, b>>, o, ms, p, m, c)
<1> DEFINE t == <<a, b>>
           do == s \o t
<1>1. Len(t) = 2 /\ t[1] = a /\ t[2] = b
  OBVIOUS
<1> HIDE DEF t
<1>2. /\ Len(do) = Len(s) + 2 /\ Len(s) \in Nat
      /\ \A i \in 1..Len(s) : do[i] = s[i]
      /\ do[Len(s) + 1] = a /\ do[Len(s) + 2] = b
  <2>1. t \in Seq(Effect)
    BY DEF t
  <2>2. 1 \in 1..Len(t) /\ 2 \in 1..Len(t)
    BY <1>1
  <2>3. /\ Len(s) \in Nat /\ Len(do) = Len(s) + Len(t)
        /\ \A i \in 1..Len(s) : do[i] = s[i]
        /\ \A j \in 1..Len(t) : do[Len(s) + j] = t[j]
    BY <2>1, JoinFacts
  <2> HIDE DEF do
  <2> QED
    BY <1>1, <2>2, <2>3
<1> HIDE DEF do
<1>3. Len(do) > 1 /\ Len(do) - 2 = Len(s) /\ do[Len(do) - 1] = a /\ do[Len(do)] = b
  <2>1. \A n \in Nat : n + 2 > 1 /\ (n + 2) - 2 = n /\ (n + 2) - 1 = n + 1
    OBVIOUS
  <2> QED
    BY <1>2, <2>1
<1>4. \A i \in 1..(Len(do) - 2) : Prepares(do[i]) /\ Allowed(do[i], o, ms, m)
  BY <1>2, <1>3 DEF Leads
<1>5. \A e : (\E i \in 1..Len(s) : s[i] = e) => Before(do, e)
  BY <1>2, <1>3 DEF Before
<1>6. t[Len(t) - 1] = a /\ t[Len(t)] = b
  BY <1>1
<1>7. SendsReset(t, o) => SendsReset(do, o)
  BY <1>3, <1>6 DEF SendsReset
<1>8. SendsCycle(t, o) => SendsCycle(do, o)
  BY <1>3, <1>6 DEF SendsCycle
<1>9. SendsUpgrade(do, o, m, c) \/ SendsReset(t, o) \/ SendsCycle(t, o)
  BY <1>3, <1>5 DEF SendsUpgrade, t
<1>10. Sends(do, o, ms, p, m, c)
  BY <1>3, <1>4, <1>7, <1>8, <1>9 DEF Sends
<1> QED
  BY <1>10 DEF do, t

\* Updates of one condition that may come anywhere.
LEMMA StatusMay ==
    ASSUME NEW s, NEW k, NEW type, NEW value, NEW e, e = UpdateStatus(s, k, type, value),
           NEW o, NEW ms, NEW m, AllowedStatus(e, o, ms, m)
    PROVE  /\ Allowed(e, o, ms, m)
           /\ s = "same" /\ type # "VersionUpgradeCompleted" => May(e, o, ms, m)
<1>1. e.op = "status" /\ e.state = s /\ e.type = type
  BY EffectParts
<1>2. Allowed(e, o, ms, m)
  BY <1>1 DEF Allowed
<1> QED
  BY <1>1, <1>2 DEF May, Moves, Retries, Finishes

\* Conditions about gates and maintenance may always be written.
LEMMA MarksMay ==
    ASSUME NEW o, NEW ms, NEW m
    PROVE  /\ \A type \in {"ServerMaintenanceCreated", "ServerMaintenanceWaiting",
                           "UpgradeRebootObservedOff"} :
                \A value : May(UpdateStatus("same", "keep", type, value), o, ms, m)
           /\ \A value : May(UpdateStatus("same", "keep", "ReadinessGatesSatisfied", value),
                             o, ms, m)
<1>1. ASSUME NEW type \in {"ServerMaintenanceCreated", "ServerMaintenanceWaiting",
                           "UpgradeRebootObservedOff"}, NEW value
      PROVE  May(UpdateStatus("same", "keep", type, value), o, ms, m)
  <2>1. PICK e : e = UpdateStatus("same", "keep", type, value)
    OBVIOUS
  <2>2. e.state = "same" /\ e.task = "keep" /\ e.type = type
    BY <2>1, EffectParts
  <2>3. AllowedStatus(e, o, ms, m)
    BY <2>2 DEF AllowedStatus, Reports, Stays
  <2>4. type # "VersionUpgradeCompleted"
    OBVIOUS
  <2> QED
    BY <2>1, <2>3, <2>4, StatusMay
<1>2. ASSUME NEW value
      PROVE  May(UpdateStatus("same", "keep", "ReadinessGatesSatisfied", value), o, ms, m)
  <2>1. PICK e : e = UpdateStatus("same", "keep", "ReadinessGatesSatisfied", value)
    OBVIOUS
  <2>2. e.state = "same" /\ e.task = "keep" /\ e.type = "ReadinessGatesSatisfied"
    BY <2>1, EffectParts
  <2>3. AllowedStatus(e, o, ms, m)
    BY <2>2 DEF AllowedStatus, Gates
  <2> QED
    BY <2>1, <2>3, StatusMay
<1> QED
  BY <1>1, <1>2

\* When the conditions of the resets and of the power cycle may be.
LEMMA PersistMay ==
    ASSUME NEW o, NEW ms, NEW m
    PROVE  /\ o.state = "InProgress" /\ ~Issued(o) =>
                \A value : May(Persist("ResetIssued", value), o, ms, m)
           /\ o.state = "Failed" =>
                /\ \A type \in {"RetryResetIssued", "ForcePowerOffIssued", "PowerOnIssued"} :
                     \A value : May(Persist(type, value), o, ms, m)
                /\ \A type \in {"ServerReset", "PowerOffIssued"} :
                     May(Persist(type, "unset"), o, ms, m)
                /\ May(Persist("PowerOffIssued", "issued"), o, ms, m)
                /\ Off(m) => May(Persist("PowerOffIssued", "true"), o, ms, m)
                /\ AtRest(m) => May(Persist("ServerReset", "true"), o, ms, m)
<1>1. ASSUME o.state = "InProgress", ~Issued(o), NEW value
      PROVE  May(Persist("ResetIssued", value), o, ms, m)
  <2>1. PICK e : e = Persist("ResetIssued", value)
    OBVIOUS
  <2>2. e.state = "same" /\ e.task = "clear" /\ e.type = "ResetIssued"
        /\ e = UpdateStatus("same", "clear", "ResetIssued", value)
    BY <2>1, EffectParts, RecordParts
  <2>3. AllowedStatus(e, o, ms, m)
    BY <1>1, <2>2 DEF AllowedStatus, Reports, Persists
  <2> QED
    BY <2>1, <2>2, <2>3, StatusMay
<1>2. ASSUME o.state = "Failed"
      PROVE  /\ \A type \in {"RetryResetIssued", "ForcePowerOffIssued", "PowerOnIssued"} :
                  \A value : May(Persist(type, value), o, ms, m)
             /\ \A type \in {"ServerReset", "PowerOffIssued"} :
                  May(Persist(type, "unset"), o, ms, m)
             /\ May(Persist("PowerOffIssued", "issued"), o, ms, m)
             /\ Off(m) => May(Persist("PowerOffIssued", "true"), o, ms, m)
             /\ AtRest(m) => May(Persist("ServerReset", "true"), o, ms, m)
  <2>1. \A type \in {"RetryResetIssued", "ForcePowerOffIssued", "PowerOnIssued"} :
          \A value : May(Persist(type, value), o, ms, m)
    BY <1>2, CycleRecords DEF May
  <2>2. \A type \in {"ServerReset", "PowerOffIssued"} : May(Persist(type, "unset"), o, ms, m)
    BY <1>2, CycleRecords DEF May
  <2>3. May(Persist("PowerOffIssued", "issued"), o, ms, m)
    BY <1>2, CycleRecords DEF May
  <2>4. Off(m) => May(Persist("PowerOffIssued", "true"), o, ms, m)
    BY <1>2, CycleRecords DEF May
  <2>5. AtRest(m) => May(Persist("ServerReset", "true"), o, ms, m)
    BY <1>2, CycleRecords DEF May
  <2> QED
    BY <2>1, <2>2, <2>3, <2>4, <2>5
<1> QED
  BY <1>1, <1>2

\* Calls that may come anywhere.
LEMMA CallsMay ==
    ASSUME NEW o, NEW ms, NEW m
    PROVE  /\ o.state \in Quiet => May(PatchCompletion("True"), o, ms, m)
                                   /\ May(PatchCompletion("False"), o, ms, m)
           /\ o.state = "InProgress" => May(Tells, o, ms, m)
           /\ o.phase = "deleting" => May(PatchCompletion("absent"), o, ms, m)
           /\ May(Resets, o, ms, m)
           /\ o.state \in {"InProgress", "Failed"} => May(Creates, o, ms, m)
           /\ o.state \in {"Pending", "Completed"} /\ Quitted(o, ms, m)
                => May(Deletes, o, ms, m)
<1>1. \A s : /\ PatchCompletion(s).op = "completion" /\ PatchCompletion(s).status = s
             /\ ~Moves(PatchCompletion(s))
  BY EffectParts DEF Moves, Retries, Finishes
<1>2. \A s : AllowedCompletion(PatchCompletion(s), o, m)
               => May(PatchCompletion(s), o, ms, m)
  BY <1>1 DEF May, Allowed
<1>3. o.state \in Quiet => May(PatchCompletion("True"), o, ms, m)
                           /\ May(PatchCompletion("False"), o, ms, m)
  BY <1>1, <1>2 DEF AllowedCompletion
<1>4. o.state = "InProgress" => May(Tells, o, ms, m)
  BY <1>1, <1>2 DEF AllowedCompletion, Tells
<1>5. o.phase = "deleting" => May(PatchCompletion("absent"), o, ms, m)
  BY <1>1, <1>2 DEF AllowedCompletion
<1>6. /\ Resets.op = "resetBMC" /\ Creates.op = "createMaintenance"
      /\ Deletes.op = "deleteMaintenance"
  BY EffectParts
<1>7. /\ May(Resets, o, ms, m)
      /\ o.state \in {"InProgress", "Failed"} => May(Creates, o, ms, m)
      /\ o.state \in {"Pending", "Completed"} /\ Quitted(o, ms, m) => May(Deletes, o, ms, m)
  BY <1>6 DEF May, Allowed, Moves, Retries, Finishes
<1> QED
  BY <1>3, <1>4, <1>5, <1>7

\* When the patches may be made.
LEMMA PatchesMay ==
    ASSUME NEW o, NEW ms, NEW m
    PROVE  /\ May(Ref, o, ms, m)
           /\ (o.state = "InProgress" /\ MaxLag = 1 => AtRest(m) /\ ~Issued(o))
                => May(Unref, o, ms, m)
           /\ May(Patch([retry |-> FALSE]), o, ms, m)
           /\ \A n : May(Patch([attempts |-> n]), o, ms, m)
           /\ May(Recounts, o, ms, m)
<1>1. ASSUME NEW f, "state" \notin DOMAIN f, "finalizer" \notin DOMAIN f,
             "ref" \in DOMAIN f /\ ~f.ref /\ o.state = "InProgress" /\ MaxLag = 1
               => AtRest(m) /\ ~Issued(o)
      PROVE  May(Patch(f), o, ms, m)
  <2>1. PICK e : e = Patch(f)
    OBVIOUS
  <2>2. e.op = "patch" /\ e.fields = f
    BY <2>1, EffectParts
  <2>3. ~Retries(e) /\ ~Finishes(e)
    BY <1>1, <2>2 DEF Retries, Finishes
  <2>4. AllowedPatch(e, o, m)
    BY <1>1, <2>2, <2>3 DEF AllowedPatch, Unasks
  <2>5. Allowed(e, o, ms, m)
    BY <2>2, <2>4 DEF Allowed
  <2>6. ~Moves(e)
    BY <2>2, <2>3 DEF Moves
  <2> QED
    BY <2>1, <2>5, <2>6 DEF May
<1>2. May(Ref, o, ms, m)
  <2>1. PICK f : f = [ref |-> TRUE]
    OBVIOUS
  <2>2. DOMAIN f = {"ref"} /\ f.ref
    BY <2>1
  <2>3. Ref = Patch(f)
    BY <2>1 DEF Ref
  <2> QED
    BY <1>1, <2>2, <2>3
<1>3. ASSUME o.state = "InProgress" /\ MaxLag = 1 => AtRest(m) /\ ~Issued(o)
      PROVE  May(Unref, o, ms, m)
  <2>1. PICK f : f = [ref |-> FALSE]
    OBVIOUS
  <2>2. DOMAIN f = {"ref"}
    BY <2>1
  <2>3. Unref = Patch(f)
    BY <2>1 DEF Unref
  <2> QED
    BY <1>1, <1>3, <2>2, <2>3
<1>4. May(Patch([retry |-> FALSE]), o, ms, m)
  <2>1. PICK f : f = [retry |-> FALSE]
    OBVIOUS
  <2>2. DOMAIN f = {"retry"}
    BY <2>1
  <2> QED
    BY <1>1, <2>1, <2>2
<1>5. ASSUME NEW n
      PROVE  May(Patch([attempts |-> n]), o, ms, m)
  <2>1. PICK f : f = [attempts |-> n]
    OBVIOUS
  <2>2. DOMAIN f = {"attempts"}
    BY <2>1
  <2> QED
    BY <1>1, <2>1, <2>2
<1>6. May(Recounts, o, ms, m)
  <2>1. PICK f : f = [attempts |-> 0, current |-> TRUE]
    OBVIOUS
  <2>2. DOMAIN f = {"attempts", "current"}
    BY <2>1
  <2>3. Recounts = Patch(f)
    BY <2>1 DEF Recounts
  <2> QED
    BY <1>1, <2>2, <2>3
<1> QED
  BY <1>2, <1>3, <1>4, <1>5, <1>6

-----------------------------------------------------------------------------
(* The plans of each state                                                 *)

At(o) ==
    /\ VTypes /\ o \in BIOSVersionObject /\ o.phase # "gone"
    /\ WorkInv(o, maintenances, parked, machine, completion)

\* What a reconcile that starts from the stored object may count on.
LEMMA AtFacts ==
    ASSUME NEW o, At(o)
    PROVE  /\ VTypes /\ o \in BIOSVersionObject /\ o.ref \in BOOLEAN /\ o.finalizer \in BOOLEAN
           /\ o.state \in State /\ o.phase \in {"live", "deleting"}
           /\ o.version \in Versions
           /\ maintenances \in Seq(Maintenance) /\ Len(maintenances) > 0 /\ parked \in BOOLEAN
           /\ machine \in Machine
           /\ GrantParks(maintenances, parked) /\ GrantStays(maintenances)
           /\ GivenBack(o, maintenances, machine) /\ Kept(o, maintenances, machine)
           /\ InOrder(o, machine) /\ MachineInv(o, machine) /\ Told(o, machine, completion)
           /\ NoneAsked(maintenances) => NoneLeaves(maintenances)
  BY TypesOfNow, ObjectFacts DEF At, WorkInv

\* Before the grant, and after it, nothing is under way.
LEMMA Unsecured ==
    ASSUME NEW o, At(o), o.state = "InProgress", MaxLag = 1,
           ~(o.ref /\ Granted(Cached(maintenances)))
    PROVE  AtRest(machine) /\ ~Issued(o)
<1>1. ~Secured(o, maintenances)
  BY AtFacts, LastFacts DEF Secured
<1> QED
  BY <1>1, AtFacts DEF Kept, At

\* The grant that is seen is in force.
LEMMA GrantedNow ==
    ASSUME NEW o, At(o), o.state \in {"InProgress", "Failed"}, o.ref,
           Cached(maintenances) # None, Cached(maintenances).state = "InMaintenance"
    PROVE  parked /\ Held(Stored(maintenances)) /\ Secured(o, maintenances)
<1>1. NoneLeaves(maintenances)
  BY AtFacts DEF GivenBack, At
<1>2. 1 \in 1..Len(maintenances) /\ Cached(maintenances) = maintenances[1]
  BY AtFacts, LastFacts
<1>3. \A i \in 1..Len(maintenances) : i =< i
  OBVIOUS
<1>4. Granted(Cached(maintenances))
  BY <1>1, <1>2, <1>3 DEF NoneLeaves, Granted
<1> QED
  BY <1>1, <1>4, AtFacts, ActiveFacts DEF Secured

\* What the deletion of an object at rest does.
LEMMA DeletePlans ==
    ASSUME NEW o, At(o), o.phase = "deleting", ~(o.finalizer /\ Progressing(o)),
           NEW p \in PlanDelete(o), p.do # <<>>
    PROVE  o.finalizer /\ Plain(p.do, o, maintenances, machine)
<1> DEFINE e == PatchCompletion("absent")
           f == Patch([finalizer |-> FALSE])
<1>1. p.do = IF o.finalizer THEN <<e, f>> ELSE <<>>
  BY PlanFacts DEF PlanDelete
<1>2. o.finalizer /\ p.do = <<e, f>>
  BY <1>1, AtFacts
<1>3. MaxLag = 1 => Run(machine) = {}
  <2>1. SUFFICES ASSUME MaxLag = 1, o.state = "InProgress"
                 PROVE  Run(machine) = {}
    <3>1. o.state \in Quiet \/ o.state = "Failed" \/ o.state = "InProgress"
      BY AtFacts DEF State, Quiet
    <3> QED
      BY <2>1, <3>1, AtFacts DEF MachineInv, AtRest
  <2>2. ~(o.ref /\ Granted(Cached(maintenances)))
    BY <1>2, <2>1 DEF Progressing, IsMaintenanceActive, Granted, Held
  <2> QED
    BY <2>1, <2>2, Unsecured DEF AtRest
<1>4. May(e, o, maintenances, machine)
  BY CallsMay
<1>5. Allowed(f, o, maintenances, machine)
  <2>1. f.op = "patch" /\ DOMAIN f.fields = {"finalizer"}
    <3>1. PICK g : g = [finalizer |-> FALSE]
      OBVIOUS
    <3>2. DOMAIN g = {"finalizer"}
      BY <3>1
    <3> QED
      BY <3>1, <3>2, EffectParts
  <2>2. ~Unasks(f) /\ ~Retries(f)
    BY <2>1 DEF Unasks, Retries
  <2> QED
    BY <1>3, <2>1, <2>2 DEF Allowed, AllowedPatch
<1> HIDE DEF e, f
<1>6. Plain(<<e, f>>, o, maintenances, machine)
  <2>1. Len(<<e, f>>) = 2 /\ <<e, f>>[1] = e /\ <<e, f>>[2] = f
    OBVIOUS
  <2>2. \A i \in 1..2 : i = 1 \/ i = 2
    OBVIOUS
  <2> QED
    BY <1>4, <1>5, <2>1, <2>2 DEF Plain, May
<1> QED
  BY <1>2, <1>6

\* What the cleanup gives back is not needed.
LEMMA RefsSoft ==
    ASSUME NEW o, At(o), o.state \in Quiet, Quitted(o, maintenances, machine)
    PROVE  Soft(CleanupServerMaintenanceReferences(o), o, maintenances, machine)
<1>1. May(Unref, o, maintenances, machine)
  BY PatchesMay DEF Quiet
<1>2. CASE CleanupServerMaintenanceReferences(o) \in {<<>>, <<Unref>>}
  BY <1>1, <1>2, SoftOne
<1>3. CASE /\ CleanupServerMaintenanceReferences(o) = <<Deletes, Unref>>
           /\ Cached(maintenances) # None
  <2>1. o.state # ""
    <3>1. NoneAsked(maintenances) => Cached(maintenances) = None
      BY DEF NoneAsked, Cached
    <3> QED
      BY <1>3, <3>1, AtFacts DEF GivenBack, At
  <2>2. May(Deletes, o, maintenances, machine)
    BY <2>1, CallsMay DEF Quiet
  <2> QED
    BY <1>1, <1>3, <2>2, SoftOne
<1> QED
  BY <1>2, <1>3, RefsShapes

\* Cleaning up may be done in a state in which nothing is done to the machine.
LEMMA CleanupPlain ==
    ASSUME NEW o, At(o), o.state \in Quiet
    PROVE  Plain(Cleanup(o), o, maintenances, machine)
<1>1. /\ PatchCompletion("True") \in Effect /\ PatchCompletion("False") \in Effect
      /\ CleanupServerMaintenanceReferences(o) \in Seq(Effect)
  BY CallTypes, PieceTypes DEF CompletionStatus
<1>2. /\ May(PatchCompletion("True"), o, maintenances, machine)
      /\ May(PatchCompletion("False"), o, maintenances, machine)
  BY CallsMay
<1>3. CASE machine.firmware = o.version
  <2> DEFINE last == IF o.state = "Completed" THEN <<>> ELSE <<ClearStatus("Completed")>>
             first == <<PatchCompletion("True")>>
             refs == CleanupServerMaintenanceReferences(o)
  <2>1. Quitted(o, maintenances, machine)
    BY <1>3 DEF Quitted, Fits
  <2>2. last \in Seq(Effect) /\ first \in Seq(Effect) /\ refs \in Seq(Effect)
    BY <1>1, SeqTypes, ClearTypes DEF State
  <2>3. Plain(last, o, maintenances, machine)
    <3>1. PICK e : e = ClearStatus("Completed")
      OBVIOUS
    <3>2. e.type = None /\ e.state = "Completed"
          /\ e = UpdateStatus("Completed", "clear", None, None)
      BY <3>1, RecordParts, EffectParts
    <3>3. AllowedStatus(e, o, maintenances, machine)
      BY <2>1, <3>2 DEF AllowedStatus, Settles
    <3>4. Plain(<<e>>, o, maintenances, machine)
      BY <3>2, <3>3, StatusMay, PlainOne
    <3>5. Plain(<<>>, o, maintenances, machine)
      BY SoftOne, SoftPlain
    <3> QED
      BY <3>1, <3>4, <3>5
  <2>4. Cleanup(o) = first \o refs \o last
    BY <1>3 DEF Cleanup
  <2>5. Soft(first, o, maintenances, machine) /\ Soft(refs, o, maintenances, machine)
    BY <1>2, <2>1, SoftOne, RefsSoft
  <2> HIDE DEF first, refs, last
  <2>6. Soft(first \o refs, o, maintenances, machine) /\ first \o refs \in Seq(Effect)
    BY <2>2, <2>5, SoftJoin, SeqTypes
  <2>7. Plain((first \o refs) \o last, o, maintenances, machine)
    BY <2>2, <2>3, <2>6, SoftJoin
  <2>8. (first \o refs) \o last = first \o (refs \o last)
    BY <2>2
  <2> QED
    BY <2>4, <2>7, <2>8
<1>4. CASE machine.firmware # o.version
  <2> DEFINE next == IF o.state = "Completed" THEN "Pending" ELSE "InProgress"
             first == IF o.state = "Completed" THEN <<PatchCompletion("False")>> ELSE <<>>
             retried == o.conds["RetryOfFailedResourceIssued"] = "true"
             e == IF retried
                  THEN UpdateStatus(next, "clear", "RetryOfFailedResourceIssued", "true")
                  ELSE ClearStatus(next)
  <2>1. Upcoming(o, maintenances, machine)
    BY <1>4, AtFacts DEF Upcoming, GivenBack, Quitted, Fits, Quiet, At
  <2>2. /\ e.state = next /\ e.op = "status"
        /\ e.type = None \/ (e.type = "RetryOfFailedResourceIssued" /\ retried)
        /\ e.type = None \/ e.value = "true"
    BY RecordParts, EffectParts
  <2>3. o.state = "Completed" => ~retried
    BY <1>4, AtFacts DEF InOrder, Has, Fits
  <2>4. Cleanup(o) = first \o <<e>>
    BY <1>4 DEF Cleanup
  <2>5. first \in Seq(Effect) /\ e \in Effect
    <3>1. next \in State /\ next \in State \cup {"same"}
      BY DEF State
    <3> QED
      BY <1>1, <3>1, SeqTypes, ClearTypes, StatusTypes, ConditionFacts
  <2>6. Soft(first, o, maintenances, machine)
    BY <1>2, SoftOne
  <2>7. o.state = "Completed" => next = "Pending"
    OBVIOUS
  <2>8. o.state # "Completed" => next = "InProgress" /\ o.state \in {"", "Pending"}
    BY DEF Quiet
  <2> HIDE DEF e, first, next, retried
  <2>9. Starts(e, o, maintenances, machine)
    BY <2>1, <2>2, <2>3, <2>7, <2>8 DEF Starts, From
  <2>10. Plain(<<e>>, o, maintenances, machine)
    BY <2>2, <2>9, PlainOne DEF Allowed, AllowedStatus
  <2>11. <<e>> \in Seq(Effect)
    BY <2>5, SeqTypes
  <2> QED
    BY <2>4, <2>5, <2>6, <2>10, <2>11, SoftJoin
<1> QED
  BY <1>3, <1>4

\* A closed gate may move the object to the state the code gives it.
LEMMA GateMay ==
    ASSUME NEW o, NEW ms, NEW m, NEW s,
           \/ o.state \in {"", "Pending"} /\ s = "Pending"
           \/ o.state = "Completed" /\ s = "Completed"
           \/ o.state = "InProgress" /\ s = "Pending" /\ AtRest(m) /\ ~Issued(o)
    PROVE  Plain(<<ReadinessGatesNotSatisfied(s)>>, o, ms, m)
<1>1. PICK e : e = ReadinessGatesNotSatisfied(s)
  OBVIOUS
<1>2. /\ e = UpdateStatus(s, "keep", "ReadinessGatesSatisfied", "false")
      /\ e.state = s /\ e.task = "keep" /\ e.type = "ReadinessGatesSatisfied"
  <2>1. e = UpdateStatus(s, "keep", "ReadinessGatesSatisfied", "false")
    BY <1>1, RecordParts
  <2>2. e.state = s /\ e.task = "keep" /\ e.type = "ReadinessGatesSatisfied"
    BY <2>1 DEF UpdateStatus
  <2> QED
    BY <2>1, <2>2
<1>3. AllowedStatus(e, o, ms, m)
  BY <1>2 DEF AllowedStatus, Gates, From
<1> QED
  BY <1>1, <1>2, <1>3, StatusMay, PlainOne

\* Marking the gates satisfied is soft.
LEMMA MarkSoft ==
    ASSUME NEW o, NEW x, NEW ms, NEW m
    PROVE  /\ Soft(MarkReadinessGatesSatisfied(x), o, ms, m)
           /\ MarkReadinessGatesSatisfied(x) \in Seq(Effect)
<1>1. May(Marks("ReadinessGatesSatisfied"), o, ms, m)
  BY MarksMay, RecordParts
<1>2. MarkReadinessGatesSatisfied(x) \in Seq(Effect)
  BY PieceTypes
<1>3. Soft(<<>>, o, ms, m) /\ Soft(<<Marks("ReadinessGatesSatisfied")>>, o, ms, m)
  BY <1>1, SoftOne
<1> QED
  BY <1>2, <1>3, MarkShapes

\* Joining short sequences.
LEMMA JoinThree ==
    /\ \A s, t, u \in Seq(Effect) : (s \o t) \o u = s \o (t \o u)
    /\ \A a, b, d \in Effect : <<a, b>> \o <<d>> = <<a, b, d>>
<1>1. \A s, t, u \in Seq(Effect) : (s \o t) \o u = s \o (t \o u)
  OBVIOUS
<1>2. ASSUME NEW a \in Effect, NEW b \in Effect, NEW d \in Effect
      PROVE  <<a, b>> \o <<d>> = <<a, b, d>>
  <2> DEFINE s == <<a, b>> \o <<d>>
             t == <<a, b, d>>
  <2>1. s \in Seq(Effect) /\ Len(s) = 3 /\ s[1] = a /\ s[2] = b /\ s[3] = d
    OBVIOUS
  <2>2. t \in Seq(Effect) /\ Len(t) = 3 /\ t[1] = a /\ t[2] = b /\ t[3] = d
    OBVIOUS
  <2>3. \A i \in 1..3 : i = 1 \/ i = 2 \/ i = 3
    OBVIOUS
  <2> HIDE DEF s, t
  <2>4. s \in [1..3 -> Effect] /\ t \in [1..3 -> Effect]
    BY <2>1, <2>2
  <2>5. \A i \in 1..3 : s[i] = t[i]
    BY <2>1, <2>2, <2>3
  <2>6. s = t
    BY <2>4, <2>5
  <2> QED
    BY <2>6 DEF s, t
<1> QED
  BY <1>1, <1>2

\* Cleaning up is a sequence of the model's writes.
LEMMA CleanupTyped ==
    ASSUME NEW o \in BIOSVersionObject
    PROVE  Cleanup(o) \in Seq(Effect)
<1>1. o.ref \in BOOLEAN
  BY ObjectFacts
<1> QED
  BY <1>1, CleanupTypes

\* And it may be done before an upgrade and after it.
LEMMA CleanupGood ==
    ASSUME NEW o, At(o), o.state \in {"", "Pending", "Completed"}
    PROVE  Cleanup(o) \in Seq(Effect) /\ Plain(Cleanup(o), o, maintenances, machine)
<1>1. o \in BIOSVersionObject
  BY AtFacts
<1>2. Cleanup(o) \in Seq(Effect)
  BY <1>1, CleanupTyped
<1>3. o.state \in Quiet
  BY DEF Quiet
<1>4. Plain(Cleanup(o), o, maintenances, machine)
  BY <1>3, CleanupPlain
<1> QED
  BY <1>2, <1>4

\* Every plan of the states "" and Pending may be carried out.
LEMMA PendingPlans ==
    ASSUME NEW o, At(o), o.state \in {"", "Pending"}, NEW p \in PlanPending(o)
    PROVE  Plain(p.do, o, maintenances, machine)
<1> DEFINE first == IF completion = "absent" THEN <<PatchCompletion("False")>> ELSE <<>>
           mark == MarkReadinessGatesSatisfied(o)
<1>1. \/ p = Plan(Do(<<Patch([retry |-> FALSE])>>), FALSE)
      \/ p = Plan(Do(first \o <<ReadinessGatesNotSatisfied("Pending")>>), FALSE)
      \/ p = Plan(Do(first \o mark \o Cleanup(o)), FALSE)
  BY DEF PlanPending
<1>2. first \in Seq(Effect) /\ Soft(first, o, maintenances, machine)
  <2>1. May(PatchCompletion("False"), o, maintenances, machine)
    BY CallsMay DEF Quiet
  <2>2. PatchCompletion("False") \in Effect
    BY CallTypes DEF CompletionStatus
  <2> QED
    BY <2>1, <2>2, SoftOne, SeqTypes
<1>3. mark \in Seq(Effect) /\ Soft(mark, o, maintenances, machine)
  BY MarkSoft
<1>4. Cleanup(o) \in Seq(Effect) /\ Plain(Cleanup(o), o, maintenances, machine)
  BY CleanupGood
<1> HIDE DEF first, mark
<1>5. Plain(<<Patch([retry |-> FALSE])>>, o, maintenances, machine)
  BY PatchesMay, SoftOne, SoftPlain
<1>6. Plain(first \o <<ReadinessGatesNotSatisfied("Pending")>>, o, maintenances, machine)
  <2>1. <<ReadinessGatesNotSatisfied("Pending")>> \in Seq(Effect)
    BY PieceTypes, SeqTypes DEF State
  <2>2. Plain(<<ReadinessGatesNotSatisfied("Pending")>>, o, maintenances, machine)
    BY GateMay
  <2> QED
    BY <1>2, <2>1, <2>2, SoftJoin
<1>7. Plain(first \o mark \o Cleanup(o), o, maintenances, machine)
  <2>1. Plain(mark \o Cleanup(o), o, maintenances, machine) /\ mark \o Cleanup(o) \in Seq(Effect)
    BY <1>3, <1>4, SoftJoin, SeqTypes
  <2>2. Plain(first \o (mark \o Cleanup(o)), o, maintenances, machine)
    BY <1>2, <2>1, SoftJoin
  <2>3. first \o (mark \o Cleanup(o)) = (first \o mark) \o Cleanup(o)
    BY <1>2, <1>3, <1>4, JoinThree
  <2> QED
    BY <2>2, <2>3
<1> QED
  BY <1>1, <1>5, <1>6, <1>7, PlanFacts, Zenon

\* So may every plan of the state Completed.
LEMMA CompletedPlans ==
    ASSUME NEW o, At(o), o.state = "Completed", NEW p \in PlanCompleted(o)
    PROVE  Plain(p.do, o, maintenances, machine)
<1> DEFINE refs == CleanupServerMaintenanceReferences(o)
           mark == MarkReadinessGatesSatisfied(o)
<1>1. \/ p = Plan(Do(mark \o Cleanup(o)), FALSE)
      \/ p = Plan(Do(refs \o <<ReadinessGatesNotSatisfied("Completed")>>), FALSE)
  <2>1. CASE GatesSatisfied
    BY <2>1 DEF PlanCompleted
  <2>2. CASE ~GatesSatisfied
    BY <2>2 DEF PlanCompleted
  <2> QED
    BY <2>1, <2>2
<1>2. Plain(mark \o Cleanup(o), o, maintenances, machine)
  <2>1. mark \in Seq(Effect) /\ Soft(mark, o, maintenances, machine)
    BY MarkSoft
  <2>2. Cleanup(o) \in Seq(Effect) /\ Plain(Cleanup(o), o, maintenances, machine)
    BY CleanupGood
  <2> QED
    BY <2>1, <2>2, SoftJoin
<1>3. Plain(refs \o <<ReadinessGatesNotSatisfied("Completed")>>, o, maintenances, machine)
  <2>1. Quitted(o, maintenances, machine)
    BY AtFacts DEF GivenBack, At
  <2>2. refs \in Seq(Effect) /\ Soft(refs, o, maintenances, machine)
    BY <2>1, RefsSoft, PieceTypes DEF Quiet
  <2>3. <<ReadinessGatesNotSatisfied("Completed")>> \in Seq(Effect)
    BY PieceTypes, SeqTypes DEF State
  <2>4. Plain(<<ReadinessGatesNotSatisfied("Completed")>>, o, maintenances, machine)
    BY GateMay
  <2> HIDE DEF refs
  <2> QED
    BY <2>2, <2>3, <2>4, SoftJoin
<1> HIDE DEF refs, mark
<1> QED
  BY <1>1, <1>2, <1>3, PlanFacts, Zenon

\* The maintenance is requested, or recorded.
LEMMA RequestSoft ==
    ASSUME NEW o, At(o), o.state \in {"InProgress", "Failed"}, NEW x, x.ref = o.ref
    PROVE  /\ Soft(RequestServerMaintenance(x), o, maintenances, machine)
           /\ RequestServerMaintenance(x) \in Seq(Effect)
<1>1. o.ref \in BOOLEAN /\ RequestServerMaintenance(x) \in Seq(Effect)
  BY AtFacts, PieceTypes
<1>2. May(Creates, o, maintenances, machine) /\ May(Ref, o, maintenances, machine)
  BY CallsMay, PatchesMay
<1>3. Cached(maintenances) = None => May(Unref, o, maintenances, machine)
  <2>1. Cached(maintenances) = None => ~Granted(Cached(maintenances))
    BY DEF Granted, Held
  <2> QED
    BY <2>1, Unsecured, PatchesMay
<1>4. May(Marks("ServerMaintenanceCreated"), o, maintenances, machine)
  BY MarksMay, RecordParts
<1>5. \/ RequestServerMaintenance(x) = <<Creates, Ref>>
      \/ RequestServerMaintenance(x) = <<Unref>> /\ Cached(maintenances) = None
      \/ RequestServerMaintenance(x) \in {<<>>, <<Marks("ServerMaintenanceCreated")>>}
  BY <1>1, RequestShapes
<1>6. /\ Soft(<<Creates, Ref>>, o, maintenances, machine)
      /\ Cached(maintenances) = None => Soft(<<Unref>>, o, maintenances, machine)
      /\ Soft(<<>>, o, maintenances, machine)
      /\ Soft(<<Marks("ServerMaintenanceCreated")>>, o, maintenances, machine)
  BY <1>2, <1>3, <1>4, SoftOne
<1> QED
  BY <1>1, <1>5, <1>6

\* The grant is awaited, or no longer wanted.
LEMMA AwaitPlans ==
    ASSUME Orderly, NEW o, At(o), o.state = "InProgress",
           Cached(maintenances) # None, Cached(maintenances).state # "InMaintenance"
    PROVE  \/ Plain(AwaitMaintenance(o), o, maintenances, machine)
           \/ Withdraws(AwaitMaintenance(o), o, maintenances, machine)
<1>1. CASE ~GatesSatisfied
  <2> DEFINE refs == CleanupServerMaintenanceReferences(o)
             e == ReadinessGatesNotSatisfied("Pending")
  <2>1. MaxLag = 1
    <3>1. Gated
      BY <1>1, BIOSVersionAssumption DEF GatesSatisfied
    <3> QED
      BY <3>1 DEF Orderly
  <2>2. AtRest(machine) /\ ~Issued(o)
    BY <2>1, Unsecured DEF Granted
  <2>3. AwaitMaintenance(o) = refs \o <<e>>
    BY <1>1 DEF AwaitMaintenance
  <2>4. Plain(<<e>>, o, maintenances, machine)
    BY <2>2, GateMay
  <2>5. refs \in Seq(Effect) /\ <<e>> \in Seq(Effect)
    BY PieceTypes, SeqTypes DEF State
  <2>6. May(Unref, o, maintenances, machine)
    BY <2>2, PatchesMay
  <2> HIDE DEF e
  <2>7. CASE refs \in {<<>>, <<Unref>>}
    <3>1. Soft(refs, o, maintenances, machine)
      BY <2>6, <2>7, SoftOne
    <3> HIDE DEF refs
    <3> QED
      BY <2>3, <2>4, <2>5, <3>1, SoftJoin
  <2>8. CASE refs = <<Deletes, Unref>>
    <3>1. Deletes \in Effect /\ Unref \in Effect /\ e \in Effect
      BY CallTypes, PatchTypes, PieceTypes DEF Deletes, State, e
    <3>2. AwaitMaintenance(o) = <<Deletes, Unref, e>>
      BY <2>3, <2>8, <3>1, JoinThree
    <3> QED
      BY <2>1, <2>2, <3>2 DEF Withdraws, e
  <2> QED
    BY <2>7, <2>8, RefsShapes
<1>2. CASE GatesSatisfied
  <2>1. \/ AwaitMaintenance(o) = <<>>
        \/ AwaitMaintenance(o)
             = <<UpdateStatus("same", "keep", "ServerMaintenanceWaiting", "true")>>
    BY <1>2 DEF AwaitMaintenance
  <2>2. May(UpdateStatus("same", "keep", "ServerMaintenanceWaiting", "true"),
            o, maintenances, machine)
    BY MarksMay
  <2>3. Soft(AwaitMaintenance(o), o, maintenances, machine)
    BY <2>1, <2>2, SoftOne
  <2> QED
    BY <2>3, SoftPlain
<1> QED
  BY <1>1, <1>2

\* What may be done under a maintenance that is granted.
Sound(do, o) ==
    \/ Doable(do, o, maintenances, parked, machine, completion)
    \/ Withdraws(do, o, maintenances, machine)
    \/ Succeeds(do, o, machine)
Entitled(o) ==
    /\ At(o) /\ o.state \in {"InProgress", "Failed"}
    /\ o.ref /\ Cached(maintenances) # None /\ Cached(maintenances).state = "InMaintenance"

\* One more write after those that lead to a command.
LEMMA LeadsThen ==
    ASSUME NEW s \in Seq(Effect), NEW o, Leads(s, o, maintenances, machine)
    PROVE  /\ Sound(s, o)
           /\ s \o <<>> = s
           /\ \A e \in Effect : Allowed(e, o, maintenances, machine) => Sound(s \o <<e>>, o)
<1>1. Soft(s, o, maintenances, machine)
  BY SoftPlain
<1>2. Sound(s, o)
  BY <1>1, SoftPlain DEF Sound, Doable
<1>3. ASSUME NEW e \in Effect, Allowed(e, o, maintenances, machine)
      PROVE  Sound(s \o <<e>>, o)
  <2>1. Plain(<<e>>, o, maintenances, machine) /\ <<e>> \in Seq(Effect)
    BY <1>3, PlainOne, SeqTypes
  <2>2. Plain(s \o <<e>>, o, maintenances, machine)
    BY <1>1, <2>1, SoftJoin
  <2> QED
    BY <2>2 DEF Sound, Doable
<1>4. s \o <<>> = s
  OBVIOUS
<1> QED
  BY <1>2, <1>3, <1>4

\* Sending the upgrade, after what leads to it, may be carried out.
LEMMA UpgradePlans ==
    ASSUME Orderly, NEW o, Entitled(o), o.state = "InProgress", ~Issued(o),
           NEW s \in Seq(Effect), Leads(s, o, maintenances, machine),
           completion = "Unknown" \/ \E i \in 1..Len(s) : s[i] = Tells,
           Has(o, "ResetIssued") \/ \E i \in 1..Len(s) : s[i] = SkipsReset,
           NEW p \in Upgrade(o)
    PROVE  Sound(s \o p.do, o)
<1>1. machine.power = "On"
  BY AtFacts DEF MachineInv, InOrder, Entitled
<1>2. PowerState = "On"
  BY <1>1 DEF PowerState
<1>3. CASE p.do = <<>>
  BY <1>3, LeadsThen
<1>4. CASE p.do = <<Upgrades(o.version), RecordUpgrade>> /\ ~(ChecksPending /\ UpgradePending)
  <2>1. Run(machine) = {} /\ machine.staged = None
    BY <1>4, RunIsRunning DEF Orderly, UpgradePending
  <2>2. AtRest(machine)
    BY <1>1, <2>1 DEF AtRest
  <2>3. parked /\ Held(Stored(maintenances)) /\ Secured(o, maintenances)
    BY GrantedNow DEF Entitled
  <2>4. o.version \in Versions
    BY AtFacts DEF Entitled
  <2>5. <<Upgrades(o.version), RecordUpgrade>> \in Seq(Effect)
    <3>1. Upgrades(o.version) \in Effect
      BY <2>4, CallTypes DEF Upgrades
    <3>2. RecordUpgrade \in Effect
      BY StatusTypes, ConditionFacts DEF RecordUpgrade
    <3> QED
      BY <3>1, <3>2, SeqTypes
  <2>6. PICK a : a = Upgrades(o.version)
    OBVIOUS
  <2>7. PICK b : b = RecordUpgrade
    OBVIOUS
  <2>8. Sends(s \o <<a, b>>, o, maintenances, parked, machine, completion)
    <3>1. \E v \in Versions : a = Upgrades(v)
      BY <2>4, <2>6
    <3>2. <<a, b>> \in Seq(Effect)
      BY <2>5, <2>6, <2>7
    <3> QED
      BY <2>2, <2>3, <2>7, <3>1, <3>2, SendsJoin
  <2> QED
    BY <1>4, <2>6, <2>7, <2>8 DEF Sound, Doable
<1> QED
  BY <1>2, <1>3, <1>4, UpgradeShapes

\* So may polling its task.
LEMMA CheckPlans ==
    ASSUME NEW o, Entitled(o), o.state = "InProgress", Issued(o), ~Applied(o),
           NEW s \in Seq(Effect), Leads(s, o, maintenances, machine),
           o.task = 0 \/ machine.tasks[o.task].state \in TaskState,
           NEW p \in CheckUpgradeStatus(o)
    PROVE  Sound(s \o p.do, o)
<1>1. Run(machine) \subseteq {o.task}
  BY AtFacts DEF MachineInv, Entitled
<1>2. /\ Finds("true") \in Effect /\ Finds("false") \in Effect /\ RecordFailure \in Effect
  BY StatusTypes, ConditionFacts DEF Finds, RecordFailure, State
<1>3. CASE p.do = <<>>
  BY <1>3, LeadsThen
<1>4. CASE p.do = <<Finds("false")>>
  <2>1. PICK e : e = Finds("false")
    OBVIOUS
  <2>2. /\ e.op = "status" /\ e.state = "same" /\ e.task = "keep"
        /\ e.type = "VersionUpgradeCompleted" /\ e.value = "false"
    BY <2>1, RecordParts, EffectParts
  <2>3. Answers(e, o, machine)
    BY <2>2 DEF Answers
  <2>4. Allowed(e, o, maintenances, machine)
    BY <2>2, <2>3 DEF Allowed, AllowedStatus
  <2> QED
    BY <1>2, <1>4, <2>1, <2>4, LeadsThen
<1>5. CASE /\ p.do = <<Finds("true")>> \/ p.do = <<RecordFailure>>
           /\ o.task = 0 \/ machine.tasks[o.task].state # "running"
  <2>1. Run(machine) = {}
    BY <1>1, <1>5 DEF Run
  <2>2. PICK e \in {Finds("true"), RecordFailure} : p.do = <<e>>
    BY <1>5
  <2>3. /\ e.op = "status" /\ e.task = "keep" /\ e.type = "VersionUpgradeCompleted"
        /\ \/ e.state = "same" /\ e.value = "true"
           \/ e.state = "Failed" /\ e.value = "failed"
    BY <2>2, RecordParts, EffectParts DEF RecordFailure
  <2>4. Answers(e, o, machine)
    BY <2>1, <2>3 DEF Answers
  <2>5. Allowed(e, o, maintenances, machine)
    BY <2>3, <2>4 DEF Allowed, AllowedStatus
  <2> QED
    BY <1>2, <2>2, <2>5, LeadsThen
<1> QED
  BY <1>3, <1>4, <1>5, CheckShapes

\* rebooting the Server when it is applied.
LEMMA RebootPlans ==
    ASSUME NEW o, Entitled(o), o.state = "InProgress", Applied(o), ~Has(o, "UpgradePowerOn"),
           ~LazyRestart,
           NEW s \in Seq(Effect), Leads(s, o, maintenances, machine),
           NEW p \in RebootServer(o)
    PROVE  Sound(s \o p.do, o)
<1>1. Run(machine) = {} /\ machine.power \in {"On", "Restarting"}
  BY AtFacts DEF MachineInv, Entitled
<1>2. PowerState # "Off"
  BY <1>1 DEF PowerState
<1>3. /\ RecordTimeout \in Effect /\ Marks("UpgradeRebootObservedOff") \in Effect
      /\ Marks("UpgradePowerOn") \in Effect /\ RecordReboot \in Effect
      /\ Command("Reset") \in Effect
  BY StatusTypes, CallTypes, ConditionFacts DEF RecordTimeout, Marks, RecordReboot, State
<1>4. CASE p.do = <<>>
  BY <1>4, LeadsThen
<1>5. CASE p.do = <<Command("Reset"), RecordReboot>> /\ o.conds["UpgradeRebootIssued"] # "true"
  <2>1. parked /\ Held(Stored(maintenances)) /\ Secured(o, maintenances)
    BY GrantedNow DEF Entitled
  <2>2. PICK a : a = Command("Reset")
    OBVIOUS
  <2>3. PICK b : b = RecordReboot
    OBVIOUS
  <2>4. <<a, b>> \in Seq(Effect)
    BY <1>3, <2>2, <2>3, SeqTypes
  <2>5. SendsReset(<<a, b>>, o)
    <3>1. Len(<<a, b>>) = 2 /\ <<a, b>>[1] = a /\ <<a, b>>[2] = b
      OBVIOUS
    <3> QED
      BY <1>5, <2>2, <2>3, <3>1 DEF SendsReset, Has
  <2>6. Sends(s \o <<a, b>>, o, maintenances, parked, machine, completion)
    BY <2>1, <2>4, <2>5, SendsJoin
  <2> QED
    BY <1>5, <2>2, <2>3, <2>6 DEF Sound, Doable
<1>6. CASE p.do = <<RecordTimeout>>
  <2>1. PICK e : e = RecordTimeout
    OBVIOUS
  <2>2. e.op = "status" /\ e.state = "Failed" /\ e.type = "UpgradeRebootTimedOut"
    BY <2>1, EffectParts DEF RecordTimeout
  <2>3. Allowed(e, o, maintenances, machine)
    BY <1>1, <2>2 DEF Allowed, AllowedStatus, Fails, From
  <2> QED
    BY <1>3, <1>6, <2>1, <2>3, LeadsThen
<1>7. CASE p.do = <<Marks("UpgradeRebootObservedOff")>>
  <2>1. May(Marks("UpgradeRebootObservedOff"), o, maintenances, machine)
    BY MarksMay, RecordParts
  <2> QED
    BY <1>3, <1>7, <2>1, LeadsThen DEF May
<1>8. CASE /\ p.do = <<Marks("UpgradePowerOn")>> /\ PowerState = "On"
           /\ o.conds["UpgradeRebootIssued"] = "true"
  <2>1. PICK e : e = Marks("UpgradePowerOn")
    OBVIOUS
  <2>2. e.op = "status" /\ e.state = "same" /\ e.task = "keep" /\ e.type = "UpgradePowerOn"
    BY <2>1, EffectParts
  <2>3. machine.power = "On"
    BY <1>1, <1>8 DEF PowerState
  <2>4. AtRest(machine)
    BY <1>1, <1>8, <2>3, AtFacts DEF MachineInv, AtRest, Entitled, Has
  <2>5. Allowed(e, o, maintenances, machine)
    BY <2>2, <2>4 DEF Allowed, AllowedStatus, Concludes, Stays
  <2> QED
    BY <1>3, <1>8, <2>1, <2>5, LeadsThen
<1> QED
  BY <1>2, <1>4, <1>5, <1>6, <1>7, <1>8, RebootShapes

\* and verifying the firmware afterwards.
LEMMA VerifyPlans ==
    ASSUME NEW o, Entitled(o), o.state = "InProgress", Has(o, "UpgradePowerOn"),
           NEW s \in Seq(Effect), Leads(s, o, maintenances, machine),
           o.phase = "live" => s = <<>>,
           NEW p \in Verify(o)
    PROVE  Sound(s \o p.do, o)
<1>1. AtRest(machine)
  BY AtFacts DEF MachineInv, InOrder, Entitled
<1>2. CASE p.do = <<>>
  BY <1>2, LeadsThen
<1>3. CASE p.do = <<RecordSuccess>> /\ machine.firmware = o.version
  <2>1. PICK e : e = RecordSuccess
    OBVIOUS
  <2>2. RecordSuccess \in Effect
    BY StatusTypes, ConditionFacts DEF RecordSuccess, State
  <2>3. CASE o.phase = "live"
    <3>1. s \o <<RecordSuccess>> = <<RecordSuccess>>
      BY <2>2, <2>3
    <3> QED
      BY <1>1, <1>3, <3>1 DEF Sound, Succeeds, Fits
  <2>4. CASE o.phase = "deleting"
    <3>1. /\ e.op = "status" /\ e.state = "Completed" /\ e.task = "keep"
          /\ e.type = "VersionUpgradeVerification"
      BY <2>1, EffectParts DEF RecordSuccess
    <3>2. Allowed(e, o, maintenances, machine)
      BY <1>1, <1>3, <2>4, <3>1 DEF Allowed, AllowedStatus, Concludes, Fits
    <3> QED
      BY <1>3, <2>1, <2>2, <3>2, LeadsThen
  <2> QED
    BY <2>3, <2>4, AtFacts DEF Entitled
<1> QED
  BY <1>2, <1>3, VerifyShapes

\* The steps of an upgrade, after what leads up to them.
LEMMA ProcessPlans ==
    ASSUME Orderly, NEW o, Entitled(o), o.state = "InProgress",
           NEW s \in Seq(Effect), Leads(s, o, maintenances, machine),
           completion = "Unknown" \/ \E i \in 1..Len(s) : s[i] = Tells,
           Has(o, "ResetIssued") \/ \E i \in 1..Len(s) : s[i] = SkipsReset,
           o.phase = "live" /\ Issued(o) => s = <<>>,
           o.task = 0 \/ machine.tasks[o.task].state \in TaskState,
           NEW p \in ProcessInProgressState(o)
    PROVE  Sound(s \o p.do, o)
<1>1. InOrder(o, machine)
  BY AtFacts DEF Entitled
<1>2. CASE p = Rest
  BY <1>2, PlanFacts, LeadsThen
<1>3. CASE o.conds["VersionUpgradeIssued"] # "true" /\ p \in Upgrade(o)
  BY <1>3, UpgradePlans DEF Issued, Has
<1>4. CASE /\ o.conds["VersionUpgradeIssued"] = "true"
           /\ o.conds["VersionUpgradeCompleted"] \notin {"true", "failed"}
           /\ p \in CheckUpgradeStatus(o)
  BY <1>4, CheckPlans DEF Issued, Applied, Has
<1>5. CASE /\ o.conds["VersionUpgradeCompleted"] \in {"true", "failed"}
           /\ o.conds["UpgradePowerOn"] # "true"
           /\ p \in RebootServer(o)
  <2>1. Applied(o)
    BY <1>1, <1>5 DEF InOrder, Applied, Has
  <2>2. ~Has(o, "UpgradePowerOn")
    BY <1>5 DEF Has
  <2> QED
    BY <1>5, <2>1, <2>2, RebootPlans DEF Orderly
<1>6. CASE /\ o.conds["VersionUpgradeIssued"] = "true"
           /\ o.conds["UpgradePowerOn"] = "true" /\ p \in Verify(o)
  BY <1>6, VerifyPlans DEF Issued, Has
<1> QED
  BY <1>2, <1>3, <1>4, <1>5, <1>6, ProcessShapes

\* What may lead up to a step of the upgrade.
LEMMA LeadsFacts ==
    ASSUME NEW o, o.state = "InProgress"
    PROVE  /\ Leads(<<>>, o, maintenances, machine)
           /\ Leads(<<Tells>>, o, maintenances, machine)
           /\ ~Issued(o) => /\ Leads(<<SkipsReset>>, o, maintenances, machine)
                            /\ Leads(<<Tells, SkipsReset>>, o, maintenances, machine)
<1>1. Allowed(Tells, o, maintenances, machine)
  BY CallsMay DEF May
<1>2. ~Issued(o) => Allowed(SkipsReset, o, maintenances, machine)
  BY PersistMay DEF May, SkipsReset
<1>3. Prepares(Tells) /\ Prepares(SkipsReset)
  BY DEF Prepares
<1>4. Leads(<<>>, o, maintenances, machine)
  BY DEF Leads
<1>5. ASSUME NEW e, Prepares(e), Allowed(e, o, maintenances, machine)
      PROVE  Leads(<<e>>, o, maintenances, machine)
  <2>1. Len(<<e>>) = 1 /\ <<e>>[1] = e /\ \A i \in 1..1 : i = 1
    OBVIOUS
  <2> QED
    BY <1>5, <2>1 DEF Leads
<1>6. ASSUME NEW e, NEW f, Prepares(e), Allowed(e, o, maintenances, machine),
             Prepares(f), Allowed(f, o, maintenances, machine)
      PROVE  Leads(<<e, f>>, o, maintenances, machine)
  <2>1. Len(<<e, f>>) = 2 /\ <<e, f>>[1] = e /\ <<e, f>>[2] = f
    OBVIOUS
  <2>2. \A i \in 1..2 : i = 1 \/ i = 2
    OBVIOUS
  <2> QED
    BY <1>6, <2>1, <2>2 DEF Leads
<1> QED
  BY <1>1, <1>2, <1>3, <1>4, <1>5, <1>6

\* What may lead to an upgrade is short.
LEMMA LeadSets ==
    /\ Tells \in Effect /\ SkipsReset \in Effect
    /\ <<>> \in Seq(Effect) /\ <<Tells>> \in Seq(Effect) /\ <<SkipsReset>> \in Seq(Effect)
    /\ <<Tells, SkipsReset>> \in Seq(Effect)
    /\ <<>> \o <<>> = <<>> /\ <<Tells>> \o <<>> = <<Tells>>
    /\ <<>> \o <<SkipsReset>> = <<SkipsReset>>
    /\ <<Tells>> \o <<SkipsReset>> = <<Tells, SkipsReset>>
<1>1. Tells \in Effect /\ SkipsReset \in Effect
  BY CallTypes, PersistTypes, ConditionFacts DEF CompletionStatus, Tells, SkipsReset
<1>2. ASSUME NEW a \in Effect, NEW b \in Effect
      PROVE  /\ <<a>> \o <<>> = <<a>> /\ <<>> \o <<b>> = <<b>>
             /\ <<a>> \o <<b>> = <<a, b>>
  <2> DEFINE s == <<a>> \o <<b>>
             t == <<a, b>>
  <2>1. s \in Seq(Effect) /\ Len(s) = 2 /\ s[1] = a /\ s[2] = b
    OBVIOUS
  <2>2. t \in Seq(Effect) /\ Len(t) = 2 /\ t[1] = a /\ t[2] = b
    OBVIOUS
  <2>3. \A i \in 1..2 : i = 1 \/ i = 2
    OBVIOUS
  <2>4. <<a>> \o <<>> = <<a>> /\ <<>> \o <<b>> = <<b>>
    OBVIOUS
  <2> HIDE DEF s, t
  <2>5. s \in [1..2 -> Effect] /\ t \in [1..2 -> Effect]
    BY <2>1, <2>2
  <2>6. s = t
    BY <2>1, <2>2, <2>3, <2>5
  <2> QED
    BY <2>4, <2>6 DEF s, t
<1>3. <<>> \o <<>> = <<>>
  OBVIOUS
<1> QED
  BY <1>1, <1>2, <1>3, SeqTypes

\* Every plan under an active maintenance may be carried out.
LEMMA UnderPlans ==
    ASSUME Orderly, NEW o, Entitled(o), o.state = "InProgress",
           o.task = 0 \/ machine.tasks[o.task].state \in TaskState,
           NEW p \in UnderMaintenance(o)
    PROVE  Sound(p.do, o)
<1>1. InOrder(o, machine) /\ Told(o, machine, completion) /\ Cached(resets) \in BOOLEAN
  BY AtFacts, EndFacts DEF Entitled, VTypes, EnvironmentOK
<1>2. PICK start \in {<<>>, <<Tells>>} : UnderPlan(start, o, p)
  BY <1>1, UnderShapes
<1>3. o.conds["ResetIssued"] # "true" => ~Issued(o)
  BY <1>1 DEF InOrder, Has
<1>4. start \in Seq(Effect) /\ Leads(start, o, maintenances, machine)
  BY LeadsFacts, LeadSets
<1>5. CASE p.do = start \o <<>>
  BY <1>4, <1>5, LeadsThen
<1>6. CASE o.conds["ResetIssued"] # "true" /\ p.do = start \o <<SkipsReset>>
  <2>1. May(SkipsReset, o, maintenances, machine)
    BY <1>3, <1>6, PersistMay DEF SkipsReset
  <2>2. Allowed(SkipsReset, o, maintenances, machine) /\ SkipsReset \in Effect
    BY <2>1, LeadSets DEF May
  <2> QED
    BY <1>4, <1>6, <2>2, LeadsThen
<1>7. CASE /\ o.conds["ResetIssued"] # "true"
           /\ p.do = start \o <<Resets, Persist("ResetIssued", "issued")>>
  <2>1. PICK e : e = Persist("ResetIssued", "issued")
    OBVIOUS
  <2>2. May(Resets, o, maintenances, machine) /\ May(e, o, maintenances, machine)
    BY <1>3, <1>7, <2>1, CallsMay, PersistMay
  <2>3. <<Resets, e>> \in Seq(Effect)
    BY <2>1, SeqTypes, CallTypes, PersistTypes, ConditionFacts DEF Resets
  <2>4. Soft(<<Resets, e>>, o, maintenances, machine) /\ Soft(start, o, maintenances, machine)
    BY <1>4, <2>2, SoftOne, SoftPlain
  <2>5. Plain(start \o <<Resets, e>>, o, maintenances, machine)
    BY <1>4, <2>3, <2>4, SoftJoin, SoftPlain
  <2> QED
    BY <1>7, <2>1, <2>5 DEF Sound, Doable
<1>8. ASSUME NEW q \in ProcessInProgressState(o),
             p.do = (start \o <<>>) \o q.do, o.conds["ResetIssued"] = "true"
      PROVE  Sound(p.do, o)
  <2>1. start \o <<>> = start
    BY <1>4, LeadsThen
  <2>2. completion = "Unknown" \/ \E i \in 1..Len(start) : start[i] = Tells
    <3>1. Len(<<Tells>>) = 1 /\ <<Tells>>[1] = Tells /\ 1 \in 1..1
      OBVIOUS
    <3> QED
      BY <1>2, <3>1 DEF UnderPlan
  <2>3. o.phase = "live" /\ Issued(o) => start = <<>>
    BY <1>1, <1>2 DEF Told, UnderPlan
  <2>4. Has(o, "ResetIssued")
    BY <1>8 DEF Has
  <2> QED
    BY <1>4, <1>8, <2>1, <2>2, <2>3, <2>4, ProcessPlans
<1>9. ASSUME NEW q \in ProcessInProgressState(o),
             p.do = (start \o <<SkipsReset>>) \o q.do, o.conds["ResetIssued"] # "true"
      PROVE  Sound(p.do, o)
  <2>1. PICK s \in {<<SkipsReset>>, <<Tells, SkipsReset>>} :
          s = start \o <<SkipsReset>> /\ (s = <<SkipsReset>> => start = <<>>)
    <3>1. start = <<>> \/ start = <<Tells>>
      BY <1>2
    <3> QED
      BY <3>1, LeadSets
  <2>2. s \in Seq(Effect) /\ Leads(s, o, maintenances, machine)
    BY <1>3, <1>9, <2>1, LeadsFacts, LeadSets
  <2>3. /\ Len(<<SkipsReset>>) = 1 /\ <<SkipsReset>>[1] = SkipsReset /\ 1 \in 1..1
        /\ Len(<<Tells, SkipsReset>>) = 2 /\ <<Tells, SkipsReset>>[1] = Tells
        /\ <<Tells, SkipsReset>>[2] = SkipsReset /\ 1 \in 1..2 /\ 2 \in 1..2
    OBVIOUS
  <2>4. \E i \in 1..Len(s) : s[i] = SkipsReset
    BY <2>1, <2>3
  <2>5. completion = "Unknown" \/ \E i \in 1..Len(s) : s[i] = Tells
    BY <1>2, <2>1, <2>3 DEF UnderPlan
  <2> QED
    BY <1>3, <1>9, <2>1, <2>2, <2>4, <2>5, ProcessPlans
<1> QED
  BY <1>2, <1>5, <1>6, <1>7, <1>8, <1>9 DEF UnderPlan

\* So may every plan of the state InProgress.
LEMMA InProgressPlans ==
    ASSUME Orderly, NEW o, At(o), o.state = "InProgress",
           o.task = 0 \/ machine.tasks[o.task].state \in TaskState,
           NEW p \in PlanInProgress(o)
    PROVE  Sound(p.do, o)
<1> DEFINE request == RequestServerMaintenance(o)
<1>1. Soft(request, o, maintenances, machine)
  BY RequestSoft
<1>2. CASE request # <<>>
  <2>1. p = Plan(Do(request), FALSE)
    BY <1>2 DEF PlanInProgress
  <2>2. p.do = request
    BY <2>1, PlanFacts, Zenon
  <2> QED
    BY <1>1, <2>2, SoftPlain DEF Sound, Doable
<1>3. CASE request = <<>>
  <2>1. o.ref /\ Cached(maintenances) # None
    <3>1. <<Creates, Ref>> # <<>> /\ <<Unref>> # <<>>
      OBVIOUS
    <3>2. o.ref \in BOOLEAN
      BY AtFacts
    <3> QED
      BY <1>3, <3>1, <3>2, RequestShapes, SMTT(20)
  <2>2. CASE Cached(maintenances).state # "InMaintenance"
    <3>1. p = Plan(Do(AwaitMaintenance(o)), FALSE)
      BY <1>3, <2>2 DEF PlanInProgress
    <3>2. p.do = AwaitMaintenance(o)
      BY <3>1, PlanFacts, Zenon
    <3> QED
      BY <2>1, <2>2, <3>2, AwaitPlans DEF Sound, Doable
  <2>3. CASE Cached(maintenances).state = "InMaintenance"
    <3>1. Entitled(o)
      BY <2>1, <2>3 DEF Entitled
    <3>2. CASE o.conds["ServerMaintenanceWaiting"] # "approved"
      <4>1. PICK e : e = UpdateStatus("same", "keep", "ServerMaintenanceWaiting", "approved")
        OBVIOUS
      <4>2. p = Plan(Do(<<e>>), FALSE)
        BY <1>3, <2>3, <3>2, <4>1 DEF PlanInProgress
      <4>3. p.do = <<e>>
        BY <4>2, PlanFacts, Zenon
      <4>4. May(e, o, maintenances, machine)
        BY <4>1, MarksMay
      <4> QED
        BY <4>3, <4>4, SoftOne, SoftPlain DEF Sound, Doable
    <3>3. CASE o.conds["ServerMaintenanceWaiting"] = "approved"
      <4>1. p \in UnderMaintenance(o)
        BY <1>3, <2>3, <3>3 DEF PlanInProgress
      <4> QED
        BY <3>1, <4>1, UnderPlans
    <3> QED
      BY <3>2, <3>3
  <2> QED
    BY <2>2, <2>3
<1> QED
  BY <1>2, <1>3

\* Giving up the power cycle changes no state.
LEMMA GiveUpSoft ==
    ASSUME NEW o, At(o), o.state = "Failed", NEW x \in BIOSVersionObject
    PROVE  /\ GiveUpIfStuck(GiveUp(x)) \in Seq(Effect)
           /\ Soft(GiveUpIfStuck(GiveUp(x)), o, maintenances, machine)
<1> DEFINE drop == IF x.retry THEN <<Patch([retry |-> FALSE])>> ELSE <<>>
           spend == IF x.attempts # Exhausted THEN <<Patch([attempts |-> Exhausted])>> ELSE <<>>
<1>1. Exhausted \in 0..Exhausted
  BY BIOSVersionAssumption DEF Exhausted
<1>2. /\ Patch([retry |-> FALSE]) \in Effect /\ Patch([attempts |-> Exhausted]) \in Effect
      /\ May(Patch([retry |-> FALSE]), o, maintenances, machine)
      /\ May(Patch([attempts |-> Exhausted]), o, maintenances, machine)
  BY <1>1, PatchTypes, PatchesMay
<1>3. drop \in Seq(Effect) /\ Soft(drop, o, maintenances, machine)
  BY <1>2, SeqTypes, SoftOne
<1>4. spend \in Seq(Effect) /\ Soft(spend, o, maintenances, machine)
  BY <1>2, SeqTypes, SoftOne
<1>5. GiveUp(x) = drop \o spend
  BY DEF GiveUp
<1> HIDE DEF drop, spend
<1>6. GiveUp(x) \in Seq(Effect) /\ Soft(GiveUp(x), o, maintenances, machine)
  BY <1>3, <1>4, <1>5, SoftJoin, SeqTypes
<1>7. PICK a : a = Persist("ServerReset", "unset")
  OBVIOUS
<1>8. PICK b : b = Persist("PowerOffIssued", "unset")
  OBVIOUS
<1>9. PICK c : c = Persist("ForcePowerOffIssued", "unset")
  OBVIOUS
<1>10. PICK d : d = Persist("PowerOnIssued", "unset")
  OBVIOUS
<1>11. /\ May(a, o, maintenances, machine) /\ May(b, o, maintenances, machine)
       /\ May(c, o, maintenances, machine) /\ May(d, o, maintenances, machine)
  BY <1>7, <1>8, <1>9, <1>10, PersistMay
<1>12. a \in Effect /\ b \in Effect /\ c \in Effect /\ d \in Effect
  BY <1>7, <1>8, <1>9, <1>10, PersistTypes, ConditionFacts
<1> DEFINE s == <<a, b, c, d>>
<1>13. s \in Seq(Effect)
  BY <1>12
<1>14. Soft(s, o, maintenances, machine)
  <2>1. Len(s) = 4 /\ s[1] = a /\ s[2] = b /\ s[3] = c /\ s[4] = d
    OBVIOUS
  <2>2. \A i \in 1..4 : i = 1 \/ i = 2 \/ i = 3 \/ i = 4
    OBVIOUS
  <2> HIDE DEF s
  <2> QED
    BY <1>11, <2>1, <2>2 DEF Soft
<1>15. GiveUpIfStuck(GiveUp(x)) = GiveUp(x) \o s
  BY <1>7, <1>8, <1>9, <1>10 DEF GiveUpIfStuck
<1> HIDE DEF s
<1> QED
  BY <1>6, <1>13, <1>14, <1>15, SoftJoin, SeqTypes

\* Soft writes alone may be carried out.
LEMMA SoftSound ==
    ASSUME NEW s \in Seq(Effect), NEW t \in Seq(Effect), NEW o,
           Leads(s, o, maintenances, machine), Soft(t, o, maintenances, machine)
    PROVE  Sound(s \o t, o)
<1>1. Soft(s \o t, o, maintenances, machine)
  BY SoftPlain, SoftJoin
<1> QED
  BY <1>1, SoftPlain DEF Sound, Doable

\* The power cycle, after what leads up to it.
LEMMA CyclePlans ==
    ASSUME NEW o, Entitled(o), o.state = "Failed",
           NEW s \in Seq(Effect), Leads(s, o, maintenances, machine),
           NEW x \in BIOSVersionObject,
           NEW r \in HandleServerPowerCycle(o.conds, PowerState, GiveUp(x))
    PROVE  \/ r.ready /\ Has(o, "ServerReset")
           \/ ~r.ready /\ Sound(s \o r.do, o)
<1>1. /\ \A do : ~Do(do).ready /\ Do(do).do = do
      /\ ~Wait.ready /\ Wait.do = <<>> /\ Ready.ready
  BY DEF Do, Wait, Ready, Outcome
<1>2. At(o) /\ MachineInv(o, machine)
  BY AtFacts DEF Entitled
<1>3. parked /\ Held(Stored(maintenances)) /\ (o.state = "InProgress" => Secured(o, maintenances))
  BY GrantedNow DEF Entitled
<1>4. CASE r = Ready /\ o.conds["ServerReset"] = "true"
  BY <1>1, <1>4 DEF Has
<1>5. CASE r = Wait
  BY <1>1, <1>5, LeadsThen
<1>6. CASE r = Do(GiveUpIfStuck(GiveUp(x)))
  <2>1. Sound(s \o GiveUpIfStuck(GiveUp(x)), o)
    BY <1>2, GiveUpSoft, SoftSound
  <2> QED
    BY <1>1, <1>6, <2>1, Zenon
<1>7. CASE r = Do(<<Persist("PowerOffIssued", "true")>>) /\ PowerState = "Off"
  <2>1. Off(machine)
    BY <1>7 DEF PowerState, Off
  <2>2. PICK e : e = Persist("PowerOffIssued", "true")
    OBVIOUS
  <2>3. e \in Effect /\ May(e, o, maintenances, machine)
    BY <2>1, <2>2, PersistMay, PersistTypes, ConditionFacts
  <2>4. Sound(s \o <<e>>, o)
    BY <2>3, LeadsThen DEF May
  <2> QED
    BY <1>1, <1>7, <2>2, <2>4, Zenon
<1>8. ASSUME NEW y \in {"PowerOff", "ForcePowerOff", "PowerOn"}, NEW b,
             r = Do(<<Command(y), b>>), b \in Effect, SendsCycle(<<Command(y), b>>, o)
      PROVE  ~r.ready /\ Sound(s \o r.do, o)
  <2>1. PICK a : a = Command(y)
    OBVIOUS
  <2>2. a \in Effect
    BY <2>1, CallTypes
  <2>3. <<a, b>> \in Seq(Effect) /\ SendsCycle(<<a, b>>, o)
    BY <1>8, <2>1, <2>2, SeqTypes
  <2>4. Sends(s \o <<a, b>>, o, maintenances, parked, machine, completion)
    BY <1>3, <2>3, SendsJoin
  <2>5. Sound(s \o <<a, b>>, o)
    BY <2>4 DEF Sound, Doable
  <2> QED
    BY <1>1, <1>8, <2>1, <2>5, Zenon
<1>9. ASSUME NEW a, NEW b
      PROVE  LET t == <<a, b>> IN Len(t) = 2 /\ t[Len(t) - 1] = a /\ t[Len(t)] = b
  OBVIOUS
<1>10. CASE /\ o.conds["ServerReset"] # "true" /\ o.conds["PowerOffIssued"] # "true"
            /\ r = Do(<<Command("PowerOff"), Persist("PowerOffIssued", "issued")>>)
  <2>1. Persist("PowerOffIssued", "issued") \in Effect
    BY PersistTypes, ConditionFacts
  <2>2. SendsCycle(<<Command("PowerOff"), Persist("PowerOffIssued", "issued")>>, o)
    BY <1>9, <1>10 DEF SendsCycle, Has
  <2> QED
    BY <1>8, <1>10, <2>1, <2>2
<1>11. CASE /\ o.conds["ServerReset"] # "true" /\ o.conds["PowerOffIssued"] # "true"
            /\ r = Do(<<Command("ForcePowerOff"), Persist("ForcePowerOffIssued", "true")>>)
  <2>1. Persist("ForcePowerOffIssued", "true") \in Effect
    BY PersistTypes, ConditionFacts
  <2>2. SendsCycle(<<Command("ForcePowerOff"), Persist("ForcePowerOffIssued", "true")>>, o)
    BY <1>9, <1>11 DEF SendsCycle, Has
  <2> QED
    BY <1>8, <1>11, <2>1, <2>2
<1>12. CASE /\ o.conds["ServerReset"] # "true" /\ o.conds["PowerOffIssued"] = "true"
            /\ r = Do(<<Command("PowerOn"), Persist("PowerOnIssued", "issued")>>)
  <2>1. Persist("PowerOnIssued", "issued") \in Effect
    BY PersistTypes, ConditionFacts
  <2>2. SendsCycle(<<Command("PowerOn"), Persist("PowerOnIssued", "issued")>>, o)
    BY <1>9, <1>12 DEF SendsCycle, Has
  <2> QED
    BY <1>8, <1>12, <2>1, <2>2
<1>13. CASE /\ o.conds["PowerOffIssued"] = "true" /\ PowerState = "On"
            /\ r = Do(<<Persist("PowerOnIssued", "true"), Persist("ServerReset", "true")>>)
  <2>1. AtRest(machine)
    BY <1>2, <1>13 DEF MachineInv, Has, Off, PowerState
  <2>2. PICK a : a = Persist("PowerOnIssued", "true")
    OBVIOUS
  <2>3. PICK b : b = Persist("ServerReset", "true")
    OBVIOUS
  <2>4. /\ a \in Effect /\ May(a, o, maintenances, machine)
        /\ b \in Effect /\ May(b, o, maintenances, machine)
    BY <2>1, <2>2, <2>3, PersistMay, PersistTypes, ConditionFacts
  <2>5. <<a, b>> \in Seq(Effect) /\ Soft(<<a, b>>, o, maintenances, machine)
    BY <2>4, SoftOne, SeqTypes
  <2>6. Sound(s \o <<a, b>>, o)
    BY <2>5, SoftSound
  <2> QED
    BY <1>1, <1>13, <2>2, <2>3, <2>6, Zenon
<1>14. PICK g : g = GiveUp(x)
  OBVIOUS
<1>15. PICK k : k = o.conds
  OBVIOUS
<1>16. r \in HandleServerPowerCycle(k, PowerState, g)
  BY <1>14, <1>15
<1>17. \/ r = Ready /\ k["ServerReset"] = "true"
       \/ /\ k["ServerReset"] # "true" /\ k["PowerOffIssued"] # "true"
          /\ \/ r = Wait
             \/ r = Do(<<Persist("PowerOffIssued", "true")>>) /\ PowerState = "Off"
             \/ r = Do(<<Command("PowerOff"), Persist("PowerOffIssued", "issued")>>)
             \/ r = Do(<<Command("ForcePowerOff"), Persist("ForcePowerOffIssued", "true")>>)
             \/ r = Do(GiveUpIfStuck(g))
       \/ /\ k["ServerReset"] # "true" /\ k["PowerOffIssued"] = "true"
          /\ \/ r = Wait
             \/ r = Do(<<Command("PowerOn"), Persist("PowerOnIssued", "issued")>>)
             \/ /\ r = Do(<<Persist("PowerOnIssued", "true"), Persist("ServerReset", "true")>>)
                /\ PowerState = "On"
             \/ r = Do(GiveUpIfStuck(g))
  BY <1>16, CycleShapes, ZenonT(30)
<1> QED
  BY <1>4, <1>5, <1>6, <1>7, <1>10, <1>11, <1>12, <1>13, <1>14, <1>15, <1>17

\* Preparing a retry may be carried out, and is over only after a power cycle.
LEMMA EnsurePlans ==
    ASSUME NEW o, At(o), o.state = "Failed",
           NEW s \in Seq(Effect), Leads(s, o, maintenances, machine),
           NEW x \in BIOSVersionObject, x.ref = o.ref, x.conds = o.conds,
           NEW r \in EnsureResetBeforeRetry(x)
    PROVE  \/ r.ready /\ Has(o, "ServerReset")
           \/ ~r.ready /\ Sound(s \o r.do, o)
<1>1. /\ \A do : ~Do(do).ready /\ Do(do).do = do
      /\ ~Wait.ready /\ Wait.do = <<>>
  BY DEF Do, Wait, Outcome
<1>2. x.ref \in BOOLEAN /\ Cached(resets) \in BOOLEAN
  BY AtFacts, EndFacts DEF VTypes, EnvironmentOK
<1>3. CASE r = Do(<<ReadinessGatesNotSatisfied("same")>>)
  <2>1. PICK e : e = ReadinessGatesNotSatisfied("same")
    OBVIOUS
  <2>2. e \in Effect /\ May(e, o, maintenances, machine)
    BY <2>1, PieceTypes, MarksMay, RecordParts
  <2>3. Sound(s \o <<e>>, o)
    BY <2>2, LeadsThen DEF May
  <2> QED
    BY <1>1, <1>3, <2>1, <2>3, Zenon
<1>4. ASSUME NEW mark \in {<<>>, <<Marks("ReadinessGatesSatisfied")>>},
             r = Do(mark \o RequestServerMaintenance(x))
      PROVE  ~r.ready /\ Sound(s \o r.do, o)
  <2>1. May(Marks("ReadinessGatesSatisfied"), o, maintenances, machine)
    BY MarksMay, RecordParts
  <2>2. Marks("ReadinessGatesSatisfied") \in Effect
    BY StatusTypes, ConditionFacts DEF Marks
  <2>3. mark \in Seq(Effect) /\ Soft(mark, o, maintenances, machine)
    <3>1. PICK e : e = Marks("ReadinessGatesSatisfied")
      OBVIOUS
    <3>2. <<e>> \in Seq(Effect) /\ Soft(<<e>>, o, maintenances, machine)
      BY <2>1, <2>2, <3>1, SoftOne, SeqTypes
    <3>3. <<>> \in Seq(Effect) /\ Soft(<<>>, o, maintenances, machine)
      BY SoftOne, SeqTypes
    <3>4. mark = <<>> \/ mark = <<e>>
      BY <1>4, <3>1
    <3> QED
      BY <3>2, <3>3, <3>4
  <2>4. PICK t : t = RequestServerMaintenance(x)
    OBVIOUS
  <2>5. t \in Seq(Effect) /\ Soft(t, o, maintenances, machine)
    BY <2>4, RequestSoft
  <2>6. mark \o t \in Seq(Effect) /\ Soft(mark \o t, o, maintenances, machine)
    BY <2>3, <2>5, SoftJoin, SeqTypes
  <2>7. Sound(s \o (mark \o t), o)
    BY <2>6, SoftSound
  <2> QED
    BY <1>1, <1>4, <2>4, <2>7, Zenon
<1>5. CASE r = Wait
  BY <1>1, <1>5, LeadsThen
<1>6. CASE r = Do(<<Persist("RetryResetIssued", "true")>>)
  <2>1. PICK e : e = Persist("RetryResetIssued", "true")
    OBVIOUS
  <2>2. e \in Effect /\ May(e, o, maintenances, machine)
    BY <2>1, PersistMay, PersistTypes, ConditionFacts
  <2>3. Sound(s \o <<e>>, o)
    BY <2>2, LeadsThen DEF May
  <2> QED
    BY <1>1, <1>6, <2>1, <2>3, Zenon
<1>7. CASE r = Do(<<Resets, Persist("RetryResetIssued", "issued")>>)
  <2>1. PICK e : e = Persist("RetryResetIssued", "issued")
    OBVIOUS
  <2>2. e \in Effect /\ May(e, o, maintenances, machine) /\ May(Resets, o, maintenances, machine)
    BY <2>1, PersistMay, CallsMay, PersistTypes, ConditionFacts
  <2>3. <<Resets, e>> \in Seq(Effect) /\ Soft(<<Resets, e>>, o, maintenances, machine)
    BY <2>2, SoftOne, SeqTypes, CallTypes DEF Resets
  <2>4. Sound(s \o <<Resets, e>>, o)
    BY <2>3, SoftSound
  <2> QED
    BY <1>1, <1>7, <2>1, <2>4, Zenon
<1>8. CASE /\ x.ref /\ IsMaintenanceActive
           /\ r \in HandleServerPowerCycle(x.conds, PowerState, GiveUp(x))
  <2>1. Entitled(o)
    BY <1>8 DEF Entitled, IsMaintenanceActive
  <2> QED
    BY <1>8, <2>1, CyclePlans
<1> QED
  BY <1>2, <1>3, <1>4, <1>5, <1>6, <1>7, <1>8, EnsureShapes

\* A retry comes after the power cycle.
LEMMA RetryAllowed ==
    ASSUME NEW o, At(o), o.state = "Failed", Has(o, "ServerReset"), NEW n, NEW value
    PROVE  Allowed(RetryPatch(n, value), o, maintenances, machine)
<1> DEFINE conds == [NoConditions EXCEPT !["RetryOfFailedResourceIssued"] = value]
<1>1. \A type \in ConditionType \ {"RetryOfFailedResourceIssued"} : conds[type] = "unset"
  BY DEF NoConditions
<1> HIDE DEF conds
<1>2. PICK f : f = [state |-> "Pending", attempts |-> n, current |-> TRUE, conds |-> conds]
  OBVIOUS
<1>3. DOMAIN f = {"state", "attempts", "current", "conds"} /\ f.conds = conds
  BY <1>2
<1>4. PICK e : e = RetryPatch(n, value)
  OBVIOUS
<1>5. e.op = "patch" /\ e.fields = f
  BY <1>2, <1>4, EffectParts DEF RetryPatch, conds
<1>6. AtRest(machine)
  BY AtFacts DEF MachineInv
<1>7. ~Unasks(e) /\ ~Finishes(e)
  BY <1>3, <1>5 DEF Unasks, Finishes
<1> QED
  BY <1>1, <1>3, <1>4, <1>5, <1>6, <1>7 DEF Allowed, AllowedPatch

\* Every plan of the state Failed may be carried out.
LEMMA FailedPlans ==
    ASSUME NEW o, At(o), o.state = "Failed", NEW p \in PlanFailed(o)
    PROVE  Sound(p.do, o)
<1>1. o \in BIOSVersionObject /\ Cached(resets) \in BOOLEAN
  BY AtFacts, EndFacts DEF VTypes, EnvironmentOK
<1>2. PICK first \in {<<>>, ResetAttempts} :
        \/ p.do = first
        \/ \E x \in BIOSVersionObject, n \in 0..Exhausted, value \in ConditionValue :
             /\ x.ref = o.ref /\ x.conds = o.conds
             /\ \E r \in EnsureResetBeforeRetry(x) :
                  p.do = first \o (IF r.ready THEN <<RetryPatch(n, value)>> ELSE r.do)
  BY <1>1, FailedShapes
<1>3. first \in Seq(Effect) /\ Leads(first, o, maintenances, machine)
  <2>1. PICK e : e = Recounts
    OBVIOUS
  <2>2. Prepares(e) /\ Allowed(e, o, maintenances, machine)
    BY <2>1, PatchesMay DEF Prepares, May
  <2>3. Len(<<e>>) = 1 /\ <<e>>[1] = e /\ \A i \in 1..1 : i = 1
    OBVIOUS
  <2>4. Leads(<<e>>, o, maintenances, machine) /\ Leads(<<>>, o, maintenances, machine)
    BY <2>2, <2>3 DEF Leads
  <2>5. ResetAttempts = <<e>>
    BY <2>1 DEF ResetAttempts, Recounts
  <2> QED
    BY <2>4, <2>5, PieceTypes, SeqTypes
<1>4. CASE p.do = first
  BY <1>3, <1>4, LeadsThen
<1>5. ASSUME NEW x \in BIOSVersionObject, NEW n \in 0..Exhausted, NEW value \in ConditionValue,
             x.ref = o.ref, x.conds = o.conds, NEW r \in EnsureResetBeforeRetry(x),
             p.do = first \o (IF r.ready THEN <<RetryPatch(n, value)>> ELSE r.do)
      PROVE  Sound(p.do, o)
  <2>1. CASE r.ready /\ Has(o, "ServerReset")
    <3>1. PICK e : e = RetryPatch(n, value)
      OBVIOUS
    <3>2. e \in Effect /\ Allowed(e, o, maintenances, machine)
      BY <2>1, <3>1, RetryTypes, RetryAllowed
    <3> QED
      BY <1>3, <1>5, <2>1, <3>1, <3>2, LeadsThen
  <2>2. CASE ~r.ready /\ Sound(first \o r.do, o)
    BY <1>5, <2>2
  <2> QED
    BY <1>3, <1>5, <2>1, <2>2, EnsurePlans
<1> QED
  BY <1>2, <1>4, <1>5

\* Every plan is one that may be carried out.
LEMMA SoundPlans ==
    ASSUME Orderly, NEW o, At(o), o.task = 0 \/ machine.tasks[o.task].state \in TaskState,
           NEW p \in Plans(o), p.do # <<>>
    PROVE  Startable(p.do, o, maintenances, parked, machine, completion)
<1>1. /\ o.finalizer \in BOOLEAN /\ o.phase \in {"live", "deleting"} /\ o.state \in State
  BY AtFacts
<1>2. CASE o.phase = "deleting" /\ ~(o.finalizer /\ Progressing(o))
  <2>1. p \in PlanDelete(o)
    BY <1>2 DEF Plans
  <2> QED
    BY <1>2, <2>1, DeletePlans DEF Startable, Doable
<1>3. CASE o.phase = "live" /\ ~o.finalizer
  <2>1. p = Plan(Do(<<Patch([finalizer |-> TRUE])>>), FALSE)
    BY <1>3 DEF Plans
  <2>2. p.do = <<Patch([finalizer |-> TRUE])>>
    BY <2>1, PlanFacts, Zenon
  <2> QED
    BY <1>3, <2>2 DEF Startable, Adopts
<1>4. CASE o.finalizer /\ (o.phase = "live" \/ Progressing(o))
  <2>1. /\ o.state \in {"", "Pending"} => p \in PlanPending(o)
        /\ o.state = "InProgress" => p \in PlanInProgress(o)
        /\ o.state = "Completed" => p \in PlanCompleted(o)
        /\ o.state = "Failed" => p \in PlanFailed(o)
    BY <1>1, <1>4 DEF Plans
  <2>2. CASE o.state \in {"", "Pending"}
    BY <1>4, <2>1, <2>2, PendingPlans DEF Startable, Doable
  <2>3. CASE o.state = "InProgress"
    <3>1. Sound(p.do, o)
      BY <2>1, <2>3, InProgressPlans
    <3> QED
      BY <1>4, <3>1 DEF Startable, Sound
  <2>4. CASE o.state = "Completed"
    BY <1>4, <2>1, <2>4, CompletedPlans DEF Startable, Doable
  <2>5. CASE o.state = "Failed"
    <3>1. Sound(p.do, o)
      BY <2>1, <2>5, FailedPlans
    <3> QED
      BY <1>4, <3>1 DEF Startable, Sound
  <2> QED
    BY <1>1, <2>2, <2>3, <2>4, <2>5 DEF State
<1> QED
  BY <1>1, <1>2, <1>3, <1>4

-----------------------------------------------------------------------------
(* Every step                                                              *)

\* The start of a reconcile keeps the invariant.
LEMMA ReconcileStep ==
    ASSUME VTypes, Orderly, VersionIInv, Reconcile
    PROVE  VersionIInv' /\ Disciplined
<1>1. PICK plan \in Plans(Cached(objects)) :
        IF plan.do = <<>>
        THEN /\ queued' = plan.again
             /\ UNCHANGED <<objects, maintenances, parked, resets, machine,
                            completion, gate, job, faults, requests>>
        ELSE Perform(plan.do, plan.again, Cached(objects))
  BY DEF Reconcile
<1>2. CASE plan.do = <<>>
  <2>1. job' = Idle
    BY <1>1, <1>2 DEF Reconcile
  <2> QED
    BY <1>1, <1>2, <2>1, StoppedStep DEF VersionIInv
<1>3. CASE plan.do # <<>>
  <2>1. O = Cached(objects)
    <3>1. Len(objects) = 1
      BY DEF Reconcile, Orderly
    <3> QED
      BY <3>1 DEF O, Stored, Cached
  <2>2. O \in BIOSVersionObject /\ O.task \in Nat /\ O.task =< Len(machine.tasks)
    <3>1. O \in BIOSVersionObject /\ machine \in Machine
      BY TypesOfNow
    <3>2. O.task \in Nat
      BY <3>1, ObjectFacts, ResourceAssumption
    <3>3. O.task =< Len(machine.tasks)
      BY EndFacts DEF VTypes, ObjectsOK, O
    <3> QED
      BY <3>1, <3>2, <3>3
  <2>3. O.task = 0 \/ machine.tasks[O.task].state \in TaskState
    <3>1. machine \in Machine /\ Len(machine.tasks) \in Nat
      BY TypesOfNow, MachineFacts
    <3>2. O.task = 0 \/ O.task \in 1..Len(machine.tasks)
      BY <2>2, <3>1
    <3> QED
      BY <3>1, <3>2, MachineFacts
  <2>4. O.phase # "gone"
    <3>1. O.phase = "gone" => plan.do = <<>>
      BY <2>1, PlanFacts DEF Plans
    <3> QED
      BY <1>3, <3>1
  <2>5. At(O)
    BY <2>2, <2>4 DEF At, VersionIInv
  <2>6. plan.do \in Seq(Effect)
    <3>1. Cached(resets) \in BOOLEAN
      BY EndFacts DEF VTypes, EnvironmentOK
    <3> QED
      BY <2>1, <2>2, <2>3, <3>1, PlanTypes DEF GoodPlan
  <2>7. Startable(plan.do, O, maintenances, parked, machine, completion)
    BY <1>3, <2>1, <2>3, <2>5, SoundPlans
  <2>8. Underway(plan.do, O)
    BY <1>3, <2>2, <2>4, <2>6, <2>7 DEF Underway, Copies, VersionIInv
  <2>9. Perform(plan.do, plan.again, O)
    BY <1>1, <1>3, <2>1
  <2> QED
    BY <2>8, <2>9, PerformStep
<1> QED
  BY <1>2, <1>3

\* every further call does.
LEMMA ContinueStep ==
    ASSUME VTypes, Orderly, VersionIInv, Continue
    PROVE  VersionIInv' /\ Disciplined
<1>1. job # Idle /\ Perform(job.do, job.again, job.copy)
  BY DEF Continue
<1>2. job.do \in Seq(Effect) /\ job.copy \in BIOSVersionObject
  BY <1>1 DEF VTypes, JobOK, Job
<1>3. Underway(job.do, job.copy)
  BY <1>1, <1>2 DEF Underway, Startable, VersionIInv, JobInv
<1> QED
  BY <1>1, <1>3, PerformStep

\* and so does a call that fails or a restart.
LEMMA FailStep ==
    ASSUME VTypes, VersionIInv, Fail
    PROVE  VersionIInv' /\ Disciplined
  BY StoppedStep DEF Fail, VersionIInv

\* What another does, while a reconcile waits.
LEMMA OnwardStep ==
    ASSUME VersionIInv, job' = job, completion' = completion,
           Onward(O, maintenances, parked, machine, O', maintenances', parked', machine', completion),
           job # Idle => O'.phase # "gone",
           Same(O, O')
    PROVE  VersionIInv'
<1>1. WorkInv(O', maintenances', parked', machine', completion')
  BY DEF Onward
<1>2. JobInv'
  <2>1. SUFFICES ASSUME job # Idle
                 PROVE  /\ O'.phase # "gone" /\ O'.finalizer
                        /\ job.do # <<>> /\ Copies(job.copy, O')
                        /\ Doable(job.do, O', maintenances', parked', machine', completion')
    BY DEF JobInv
  <2>2. /\ O.finalizer /\ job.do # <<>> /\ Copies(job.copy, O)
        /\ Doable(job.do, O, maintenances, parked, machine, completion)
    BY <2>1 DEF VersionIInv, JobInv
  <2>3. O'.finalizer /\ Copies(job.copy, O')
    BY <2>2 DEF Copies, Same
  <2> QED
    BY <2>1, <2>2, <2>3 DEF Onward
<1> QED
  BY <1>1, <1>2 DEF VersionIInv

\* A step that leaves the object alone.
LEMMA SameObject ==
    ASSUME VersionIInv, objects' = objects
    PROVE  O' = O /\ Same(O, O') /\ (job # Idle => O'.phase # "gone")
  BY DEF O, Same, VersionIInv, JobInv

\* The maintenance is granted, given back or delivered.
LEMMA MaintenanceMoves ==
    ASSUME VTypes, VersionIInv, UNCHANGED <<objects, machine, completion, job>>,
           GrantParks(maintenances', parked'), GrantStays(maintenances'),
           NoneLeaves(maintenances) => NoneLeaves(maintenances'),
           NoneAsked(maintenances) => NoneAsked(maintenances'),
           AllGranted(maintenances) => AllGranted(maintenances'),
           parked /\ Held(Stored(maintenances)) => parked' /\ Held(Stored(maintenances'))
    PROVE  VersionIInv' /\ Disciplined
<1>1. Onward(O, maintenances, parked, machine, O, maintenances', parked', machine, completion)
  BY MaintenanceStep DEF VersionIInv
<1>2. O' = O /\ Same(O, O') /\ (job # Idle => O'.phase # "gone")
  BY SameObject
<1>3. VersionIInv'
  BY <1>1, <1>2, OnwardStep
<1>4. Disciplined
  BY <1>2, TypesOfNow, UntouchedDiscipline
<1> QED
  BY <1>3, <1>4

\* A step that leaves all of this alone keeps it.
LEMMA StandStill ==
    ASSUME VTypes, VersionIInv,
           UNCHANGED <<objects, maintenances, parked, machine, completion, job>>
    PROVE  VersionIInv' /\ Disciplined
<1>1. O' = O
  BY DEF O
<1>2. VersionIInv'
  BY <1>1 DEF VersionIInv, JobInv
<1>3. Disciplined
  BY <1>1, TypesOfNow, UntouchedDiscipline
<1> QED
  BY <1>2, <1>3

\* What a write does to the maintenance that is stored.
LEMMA StoredFacts ==
    ASSUME NEW ms \in Seq(Maintenance), Len(ms) > 0
    PROVE  /\ Stored(ms) \in Maintenance
           /\ NoneAsked(ms) => Stored(ms) = None
           /\ AllGranted(ms) => Granted(Stored(ms))
  BY LastFacts, EndFacts

\* A maintenance whose state changes.
LEMMA PendingFacts ==
    ASSUME NEW y \in Maintenance, y # None, NEW s \in MaintenanceState,
           NEW x, x = [y EXCEPT !.state = s]
    PROVE  /\ x \in Maintenance /\ x # None /\ x.state = s
           /\ ~y.deleting => Held(x)
           /\ s # "InMaintenance" => ~Granted(x)
<1>1. y \in [state : MaintenanceState, deleting : BOOLEAN]
  BY DEF Maintenance
<1>2. /\ x \in [state : MaintenanceState, deleting : BOOLEAN]
      /\ x.state = s /\ x.deleting = y.deleting
  BY <1>1
<1>3. x \in Maintenance /\ x # None
  BY <1>2, AbsenceAssumption DEF Maintenance
<1> QED
  BY <1>2, <1>3 DEF Held, Granted

\* What a write of the maintenance controller keeps.
LEMMA PendingWrite ==
    ASSUME NEW ms \in Seq(Maintenance), Len(ms) > 0, NEW p \in BOOLEAN,
           NEW x \in Maintenance, Writable(ms, x), GrantParks(ms, p), GrantStays(ms),
           Held(x), x.state # "InMaintenance", ~Granted(Stored(ms)), NEW t, t = Write(ms, x)
    PROVE  /\ GrantParks(t, p) /\ GrantStays(t) /\ Stored(t) = x
           /\ NoneLeaves(ms) => NoneLeaves(t)
<1>1. ~Granted(x)
  BY DEF Granted
<1>2. (~Granted(x) /\ p = p)
  BY <1>1
<1> QED
  BY <1>2, WriteMaintenanceFacts

\* Granting a maintenance parks its Server and keeps the rest.
LEMMA GrantedWrite ==
    ASSUME NEW ms \in Seq(Maintenance), Len(ms) > 0, NEW p \in BOOLEAN,
           NEW x \in Maintenance, Writable(ms, x), GrantParks(ms, p), GrantStays(ms),
           Granted(x), NEW t, t = Write(ms, x)
    PROVE  /\ GrantParks(t, TRUE) /\ GrantStays(t) /\ Stored(t) = x
           /\ NoneLeaves(ms) => NoneLeaves(t)
           /\ AllGranted(ms) => AllGranted(t)
<1>1. PICK q \in BOOLEAN : q = TRUE
  OBVIOUS
<1>2. (Granted(x) /\ q) \/ (~Granted(x) /\ q = p) \/ (x = Stored(ms) /\ q = p)
  BY <1>1
<1>3. Held(x)
  BY DEF Granted
<1>4. /\ GrantParks(t, q) /\ GrantStays(t) /\ Stored(t) = x
      /\ AllGranted(ms) /\ Granted(x) => AllGranted(t)
      /\ NoneLeaves(ms) /\ (Held(Stored(ms)) => Held(x))
           /\ (x # None /\ x.state = "InMaintenance" => Held(x)) => NoneLeaves(t)
  BY <1>2, WriteMaintenanceFacts
<1> QED
  BY <1>1, <1>3, <1>4

\* The maintenance controller takes the maintenance up.
LEMMA PendingStep ==
    ASSUME VTypes, VersionIInv, MaintenancePending
    PROVE  VersionIInv' /\ Disciplined
<1>1. PICK x : x = [Stored(maintenances) EXCEPT !.state = "Pending"]
  OBVIOUS
<1>2. /\ Stored(maintenances) # None /\ Stored(maintenances).state = ""
      /\ ~Stored(maintenances).deleting
      /\ Writable(maintenances, x) /\ maintenances' = Write(maintenances, x)
      /\ UNCHANGED <<objects, parked, machine, completion, job>>
  BY <1>1 DEF MaintenancePending, WriteMaintenance
<1>3. /\ maintenances \in Seq(Maintenance) /\ Len(maintenances) > 0 /\ parked \in BOOLEAN
      /\ Stored(maintenances) \in Maintenance
      /\ ~NoneAsked(maintenances) /\ ~AllGranted(maintenances)
  BY <1>2, TypesOfNow, StoredFacts DEF Granted
<1>4. x \in Maintenance /\ x # None /\ x.state = "Pending" /\ Held(x) /\ ~Granted(x)
  BY <1>1, <1>2, <1>3, PendingFacts DEF MaintenanceState
<1>5. GrantParks(maintenances, parked) /\ GrantStays(maintenances)
  BY DEF VersionIInv, WorkInv
<1>6. ~Granted(Stored(maintenances))
  BY <1>2 DEF Granted
<1>7. /\ GrantParks(maintenances', parked) /\ GrantStays(maintenances')
      /\ Stored(maintenances') = x
      /\ NoneLeaves(maintenances) => NoneLeaves(maintenances')
  <2>1. PICK t : t = maintenances'
    OBVIOUS
  <2>2. t = Write(maintenances, x) /\ Writable(maintenances, x)
    BY <1>2, <2>1
  <2>3. Held(x) /\ x.state # "InMaintenance"
    BY <1>4
  <2>4. /\ GrantParks(t, parked) /\ GrantStays(t) /\ Stored(t) = x
        /\ NoneLeaves(maintenances) => NoneLeaves(t)
    BY <1>3, <1>4, <1>5, <1>6, <2>2, <2>3, PendingWrite
  <2> QED
    BY <2>1, <2>4
<1> QED
  BY <1>2, <1>3, <1>4, <1>7, MaintenanceMoves

\* It parks the Server for it.
LEMMA GrantedStep ==
    ASSUME VTypes, VersionIInv, MaintenanceGranted
    PROVE  VersionIInv' /\ Disciplined
<1>1. PICK x : x = [Stored(maintenances) EXCEPT !.state = "InMaintenance"]
  OBVIOUS
<1>2. /\ Stored(maintenances) # None /\ ~Stored(maintenances).deleting
      /\ Writable(maintenances, x) /\ maintenances' = Write(maintenances, x)
      /\ UNCHANGED <<objects, machine, completion, job>> /\ parked' = TRUE
  BY <1>1 DEF MaintenanceGranted, WriteMaintenance
<1>3. /\ maintenances \in Seq(Maintenance) /\ Len(maintenances) > 0 /\ parked \in BOOLEAN
      /\ Stored(maintenances) \in Maintenance /\ ~NoneAsked(maintenances)
  BY <1>2, TypesOfNow, StoredFacts
<1>4. x \in Maintenance /\ x # None /\ Held(x) /\ Granted(x)
  BY <1>1, <1>2, <1>3, PendingFacts DEF MaintenanceState, Granted
<1>5. GrantParks(maintenances, parked) /\ GrantStays(maintenances)
  BY DEF VersionIInv, WorkInv
<1>7. /\ GrantParks(maintenances', parked') /\ GrantStays(maintenances')
      /\ Stored(maintenances') = x
      /\ NoneLeaves(maintenances) => NoneLeaves(maintenances')
      /\ AllGranted(maintenances) => AllGranted(maintenances')
  <2>1. PICK t : t = maintenances'
    OBVIOUS
  <2>2. t = Write(maintenances, x) /\ Writable(maintenances, x)
    BY <1>2, <2>1
  <2>3. /\ GrantParks(t, TRUE) /\ GrantStays(t) /\ Stored(t) = x
        /\ NoneLeaves(maintenances) => NoneLeaves(t)
        /\ AllGranted(maintenances) => AllGranted(t)
    BY <1>3, <1>4, <1>5, <2>2, GrantedWrite, ZenonT(30)
  <2> QED
    BY <1>2, <2>1, <2>3
<1> QED
  BY <1>2, <1>3, <1>4, <1>7, MaintenanceMoves

\* It gives the Server back when the maintenance is deleted.
LEMMA UnparkStep ==
    ASSUME VTypes, VersionIInv, Unpark
    PROVE  VersionIInv' /\ Disciplined
<1>1. /\ maintenances \in Seq(Maintenance) /\ Len(maintenances) > 0
      /\ maintenances' = maintenances /\ parked' = FALSE
      /\ Stored(maintenances).deleting
      /\ UNCHANGED <<objects, machine, completion, job>>
  BY TypesOfNow DEF Unpark
<1>2. GrantParks(maintenances, parked) /\ GrantStays(maintenances)
  BY DEF VersionIInv, WorkInv
<1>3. ~Held(Stored(maintenances))
  BY <1>1 DEF Held
<1>4. GrantParks(maintenances, FALSE)
  <2>1. Len(maintenances) \in Nat /\ Len(maintenances) \in 1..Len(maintenances)
        /\ Stored(maintenances) = maintenances[Len(maintenances)]
    BY <1>1, LastFacts
  <2>2. ASSUME NEW i \in 1..Len(maintenances), Granted(maintenances[i])
        PROVE  i < Len(maintenances)
    <3>1. i # Len(maintenances)
      BY <1>3, <2>1, <2>2 DEF Granted
    <3> QED
      BY <2>1, <3>1
  <2> QED
    BY <1>3, <2>1, <2>2 DEF GrantParks
<1> QED
  BY <1>1, <1>2, <1>3, <1>4, MaintenanceMoves

\* The maintenance is removed.
LEMMA GoneStep ==
    ASSUME VTypes, VersionIInv, MaintenanceGone
    PROVE  VersionIInv' /\ Disciplined
<1>1. /\ Stored(maintenances) # None /\ Stored(maintenances).deleting
      /\ Writable(maintenances, None) /\ maintenances' = Write(maintenances, None)
      /\ UNCHANGED <<objects, parked, machine, completion, job>>
  BY DEF MaintenanceGone, WriteMaintenance
<1>2. ~Held(Stored(maintenances)) /\ ~Held(None) /\ ~Granted(None)
      /\ ~Granted(Stored(maintenances))
  BY <1>1 DEF Held, Granted
<1>3. /\ maintenances \in Seq(Maintenance) /\ Len(maintenances) > 0 /\ parked \in BOOLEAN
      /\ ~NoneAsked(maintenances) /\ ~AllGranted(maintenances)
  BY <1>1, <1>2, TypesOfNow, StoredFacts
<1>4. GrantParks(maintenances, parked) /\ GrantStays(maintenances)
  BY DEF VersionIInv, WorkInv
<1>5. None \in Maintenance
  BY DEF Maintenance
<1>6. /\ GrantParks(maintenances', parked) /\ GrantStays(maintenances')
      /\ NoneLeaves(maintenances) => NoneLeaves(maintenances')
  BY <1>1, <1>2, <1>3, <1>4, <1>5, WriteMaintenanceFacts
<1> QED
  BY <1>1, <1>2, <1>3, <1>6, MaintenanceMoves

\* The owner of what is collected is gone: nothing is under way.
LEMMA CollectStep ==
    ASSUME VTypes, VersionIInv, GarbageCollect
    PROVE  VersionIInv' /\ Disciplined
<1>1. PICK x : x = [Stored(maintenances) EXCEPT !.deleting = TRUE]
  OBVIOUS
<1>2. /\ Stored(maintenances) # None /\ O.phase = "gone"
      /\ Writable(maintenances, x) /\ maintenances' = Write(maintenances, x)
      /\ UNCHANGED <<objects, parked, machine, completion, job>>
  BY <1>1 DEF GarbageCollect, WriteMaintenance, O
<1>3. /\ maintenances \in Seq(Maintenance) /\ Len(maintenances) > 0 /\ parked \in BOOLEAN
      /\ Stored(maintenances) \in Maintenance /\ machine \in Machine
  BY TypesOfNow, StoredFacts
<1>4. x \in Maintenance /\ ~Held(x) /\ ~Granted(x)
  BY <1>1, <1>2, <1>3, DeletingFacts
<1>5. WorkInv(O, maintenances, parked, machine, completion)
  BY DEF VersionIInv
<1>6. GrantParks(maintenances', parked) /\ GrantStays(maintenances')
  BY <1>2, <1>3, <1>4, <1>5, WriteMaintenanceFacts DEF WorkInv
<1>7. O' = O /\ job = Idle
  BY <1>2 DEF O, VersionIInv, JobInv
<1>8. WorkInv(O', maintenances', parked', machine', completion')
  BY <1>2, <1>5, <1>6, <1>7 DEF WorkInv, GivenBack, Kept
<1>9. JobInv'
  BY <1>2, <1>7 DEF JobInv
<1>10. Disciplined
  BY <1>2, <1>3, <1>7, UntouchedDiscipline
<1> QED
  BY <1>8, <1>9, <1>10 DEF VersionIInv

\* A version reaches a cache.
LEMMA DeliveryStep ==
    ASSUME VTypes, VersionIInv, Delivery
    PROVE  VersionIInv' /\ Disciplined
<1>1. CASE DeliverObject
  <2>1. O' = O
    <3>1. objects \in Seq(BIOSVersionObject) /\ Len(objects) > 1 /\ objects' = Tail(objects)
      BY <1>1, TypesOfNow DEF DeliverObject
    <3> QED
      BY <3>1, TailFacts DEF O
  <2>2. UNCHANGED <<maintenances, parked, machine, completion, job>>
    BY <1>1 DEF DeliverObject
  <2>3. VersionIInv'
    BY <2>1, <2>2 DEF VersionIInv, JobInv
  <2> QED
    BY <2>1, <2>2, <2>3, TypesOfNow, UntouchedDiscipline
<1>2. CASE DeliverMaintenance
  <2>1. /\ Len(maintenances) > 1 /\ maintenances' = Tail(maintenances)
        /\ UNCHANGED <<objects, parked, machine, completion, job>>
    BY <1>2 DEF DeliverMaintenance
  <2>2. maintenances \in Seq(Maintenance) /\ parked \in BOOLEAN
    BY TypesOfNow
  <2>3. GrantParks(maintenances, parked) /\ GrantStays(maintenances)
    BY DEF VersionIInv, WorkInv
  <2>4. /\ GrantParks(maintenances', parked) /\ GrantStays(maintenances')
        /\ Stored(maintenances') = Stored(maintenances)
        /\ ~NoneAsked(maintenances)
        /\ NoneLeaves(maintenances) => NoneLeaves(maintenances')
        /\ AllGranted(maintenances) => AllGranted(maintenances')
    BY <2>1, <2>2, <2>3, DropMaintenance
  <2> QED
    BY <2>1, <2>4, MaintenanceMoves
<1>3. CASE DeliverReset
  BY <1>3, StandStill DEF DeliverReset
<1> QED
  BY <1>1, <1>2, <1>3 DEF Delivery

\* The machine changes power or a task ends.
LEMMA HardwareStep ==
    ASSUME VTypes, VersionIInv,
           \/ PowerChange
           \/ \E t \in 1..Len(machine.tasks) : TaskCompletes(t) \/ TaskFails(t)
    PROVE  VersionIInv' /\ Disciplined
<1>1. UNCHANGED <<objects, maintenances, parked, completion, job>>
  BY DEF PowerChange, TaskCompletes, TaskFails
<1>2. machine \in Machine /\ O \in BIOSVersionObject
  BY TypesOfNow
<1>3. Works(machine, machine')
  BY <1>2, WorksFacts
<1>4. Onward(O, maintenances, parked, machine, O, maintenances, parked, machine', completion)
  BY <1>2, <1>3, ObjectFacts, MachineStep DEF VersionIInv
<1>5. O' = O /\ Same(O, O') /\ (job # Idle => O'.phase # "gone")
  BY <1>1, SameObject
<1>6. VersionIInv'
  BY <1>1, <1>4, <1>5, OnwardStep
<1>7. ~UpgradeSent
  BY <1>2, <1>3, MachineFacts DEF UpgradeSent, Works
<1>8. ~PowerSent
  <2>1. CASE PowerChange
    <3>1. \/ machine' = [machine EXCEPT !.power = "Off"]
          \/ machine' = [machine EXCEPT !.power = "Restarting"] /\ machine.power = "Rebooting"
          \/ machine' = Started(machine)
      BY <2>1 DEF PowerChange
    <3>2. \/ machine'.power \in {"On", "Off"}
          \/ machine'.power = "Restarting" /\ machine.power = "Rebooting"
      BY <1>2, <3>1 DEF Started, Machine
    <3> QED
      BY <3>2 DEF PowerSent
  <2>2. ASSUME NEW t \in 1..Len(machine.tasks), TaskCompletes(t) \/ TaskFails(t)
        PROVE  ~PowerSent
    <3>1. machine'.power = machine.power
      BY <1>2, <2>2 DEF TaskCompletes, TaskFails, Machine
    <3> QED
      BY <3>1 DEF PowerSent
  <2> QED
    BY <2>1, <2>2
<1> QED
  BY <1>5, <1>6, <1>7, <1>8 DEF Disciplined

\* Users write the object.
LEMMA UserObjects ==
    ASSUME NEW o \in BIOSVersionObject
    PROVE  /\ \A x : x = [o EXCEPT !.retry = TRUE] =>
                x \in BIOSVersionObject /\ Same(o, x)
                  /\ x.phase = o.phase /\ x.version = o.version
           /\ \A x, v : v \in Versions /\ x = [o EXCEPT !.version = v, !.current = FALSE] =>
                x \in BIOSVersionObject /\ Same(o, x) /\ x.phase = o.phase
           /\ \A x, f : f \in {"deleting", "gone"} /\ x = [o EXCEPT !.phase = f] =>
                x \in BIOSVersionObject /\ Same(o, x)
                  /\ x.phase = f /\ x.version = o.version
<1>1. ASSUME NEW x, x = [o EXCEPT !.retry = TRUE]
      PROVE  x \in BIOSVersionObject /\ Same(o, x) /\ x.phase = o.phase /\ x.version = o.version
  BY <1>1 DEF BIOSVersionObject, Same
<1>2. ASSUME NEW x, NEW v \in Versions, x = [o EXCEPT !.version = v, !.current = FALSE]
      PROVE  x \in BIOSVersionObject /\ Same(o, x) /\ x.phase = o.phase
  BY <1>2 DEF BIOSVersionObject, Same
<1>3. ASSUME NEW x, NEW f \in {"deleting", "gone"}, x = [o EXCEPT !.phase = f]
      PROVE  x \in BIOSVersionObject /\ Same(o, x) /\ x.phase = f /\ x.version = o.version
  BY <1>3 DEF BIOSVersionObject, Same
<1> QED
  BY <1>1, <1>2, <1>3

\* A person's write to the object.
LEMMA UserMoves ==
    ASSUME VTypes, VersionIInv, NEW x \in BIOSVersionObject, WriteObject(x), Same(O, x),
           UNCHANGED <<maintenances, parked, machine, completion, job>>,
           O.phase = "live", "delete" \notin User => x.phase = "live",
           \/ x.version = O.version
           \/ /\ O.state \in {"Pending", "Completed"} => NoneAsked(maintenances)
              /\ ~Has(O, "RetryOfFailedResourceIssued"),
           job # Idle => x.phase # "gone",
           x.phase = "gone" => (MaxLag = 1 => Running = {})
    PROVE  VersionIInv' /\ Disciplined
<1>1. O' = x
  <2>1. objects \in Seq(BIOSVersionObject) /\ Len(objects) > 0 /\ objects' = Write(objects, x)
    BY TypesOfNow DEF WriteObject
  <2> QED
    BY <2>1, WriteFacts DEF O
<1>2. NoneAsked(maintenances) => NoneLeaves(maintenances)
  BY TypesOfNow
<1>3. x.phase \in {"live", "deleting", "gone"}
  BY ObjectFacts
<1>4. Onward(O, maintenances, parked, machine, x, maintenances, parked, machine, completion)
  BY <1>2, <1>3, UserStep DEF VersionIInv
<1>5. VersionIInv'
  BY <1>1, <1>4, OnwardStep
<1>6. Disciplined
  BY <1>1, TypesOfNow, UntouchedDiscipline
<1> QED
  BY <1>5, <1>6

\* An upgrade that runs is under the maintenance that the webhook sees.
LEMMA RunsUnderMaintenance ==
    ASSUME VTypes, VersionIInv, O.phase # "gone", MaxLag = 1, ~UnderActiveMaintenance(O)
    PROVE  Running = {}
<1>1. SUFFICES ASSUME Running # {}
               PROVE  FALSE
  OBVIOUS
<1>2. Run(machine) # {} /\ ~AtRest(machine)
  BY <1>1, RunIsRunning DEF AtRest
<1>3. /\ MachineInv(O, machine) /\ Kept(O, maintenances, machine)
      /\ maintenances \in Seq(Maintenance) /\ Len(maintenances) > 0
      /\ O.state \in State
  BY TypesOfNow, ObjectFacts DEF VersionIInv, WorkInv
<1>4. O.state = "InProgress"
  BY <1>2, <1>3 DEF MachineInv, Quiet, State
<1>5. AllGranted(maintenances) /\ O.ref
  BY <1>2, <1>3, <1>4 DEF Kept, Secured
<1>6. Granted(Stored(maintenances)) /\ Stored(maintenances) \in Maintenance
  BY <1>3, <1>5, StoredFacts
<1>7. Stored(maintenances) = [state |-> "InMaintenance", deleting |-> FALSE]
  BY <1>6 DEF Granted, Held, Maintenance
<1> QED
  BY <1>4, <1>5, <1>7 DEF UnderActiveMaintenance

\* Every step of a person.
LEMMA UserSteps ==
    ASSUME VTypes, Orderly, VersionIInv,
           RetryManually \/ Delete \/ GateChanges \/ \E v \in Versions : ChangeVersion(v)
    PROVE  VersionIInv' /\ Disciplined
<1>1. UNCHANGED <<maintenances, parked, machine, completion, job>>
  BY DEF RetryManually, Delete, GateChanges, ChangeVersion, Asked
<1>2. O \in BIOSVersionObject /\ O.finalizer \in BOOLEAN
  BY TypesOfNow, ObjectFacts
<1>3. VersionIInv => ("delete" \notin User => O.phase = "live")
  BY DEF VersionIInv, WorkInv
<1>4. CASE RetryManually
  <2>1. PICK x : x = [O EXCEPT !.retry = TRUE]
    OBVIOUS
  <2>2. WriteObject(x) /\ O.phase = "live"
    BY <1>4, <2>1 DEF RetryManually, O
  <2>3. x \in BIOSVersionObject /\ Same(O, x) /\ x.phase = O.phase /\ x.version = O.version
    BY <1>2, <2>1, UserObjects
  <2>4. x.phase = "live" /\ x.phase # "gone"
    BY <2>2, <2>3
  <2> QED
    BY <1>1, <2>2, <2>3, <2>4, UserMoves
<1>5. CASE Delete
  <2>1. PICK f \in {"deleting", "gone"} : f = IF O.finalizer THEN "deleting" ELSE "gone"
    OBVIOUS
  <2>2. PICK x : x = [O EXCEPT !.phase = f]
    OBVIOUS
  <2>3. WriteObject(x) /\ O.phase = "live" /\ "delete" \in User /\ ~UnderActiveMaintenance(O)
    BY <1>5, <2>1, <2>2 DEF Delete, O
  <2>4. x \in BIOSVersionObject /\ Same(O, x) /\ x.phase = f /\ x.version = O.version
    BY <1>2, <2>2, UserObjects, ZenonT(30)
  <2>5. job # Idle => x.phase # "gone"
    BY <2>1, <2>4 DEF VersionIInv, JobInv
  <2>6. MaxLag = 1 => Running = {}
    BY <2>3, RunsUnderMaintenance
  <2> QED
    BY <1>1, <2>3, <2>4, <2>5, <2>6, UserMoves
<1>6. CASE GateChanges
  BY <1>6, StandStill DEF GateChanges, Asked
<1>7. ASSUME NEW v \in Versions, ChangeVersion(v)
      PROVE  VersionIInv' /\ Disciplined
  <2>1. PICK x : x = [O EXCEPT !.version = v, !.current = FALSE]
    OBVIOUS
  <2>2. /\ WriteObject(x) /\ O.phase = "live"
        /\ O.conds["RetryOfFailedResourceIssued"] = "true" => "changeRetried" \in User
        /\ maintenances # <<None>> /\ O.state \in {"Pending", "Completed"}
             => "changeEarly" \in User
    BY <1>7, <2>1 DEF ChangeVersion, O
  <2>3. "changeRetried" \notin User /\ "changeEarly" \notin User
    BY DEF Orderly
  <2>4. /\ O.state \in {"Pending", "Completed"} => NoneAsked(maintenances)
        /\ ~Has(O, "RetryOfFailedResourceIssued")
    BY <2>2, <2>3 DEF NoneAsked, Has
  <2>5. x \in BIOSVersionObject /\ Same(O, x) /\ x.phase = O.phase
    BY <1>2, <2>1, UserObjects
  <2>6. x.phase = "live" /\ x.phase # "gone"
    BY <2>2, <2>5
  <2> QED
    BY <1>1, <2>2, <2>4, <2>5, <2>6, UserMoves
<1> QED
  BY <1>4, <1>5, <1>6, <1>7

\* Every step keeps the invariant and sends commands only to a parked Server.
LEMMA EveryStep ==
    ASSUME VTypes, Orderly, VersionIInv, [Next]_allVars
    PROVE  VersionIInv' /\ Disciplined
<1>1. CASE Controller
  BY <1>1, ReconcileStep, ContinueStep DEF Controller
<1>2. CASE Delivery
  BY <1>2, DeliveryStep
<1>3. CASE Server
  BY <1>3, GrantedStep, UnparkStep DEF Server
<1>4. CASE Others
  <2>1. CASE BMCReset
    BY <2>1, StandStill DEF BMCReset
  <2> QED
    BY <1>4, <2>1, PendingStep, GoneStep, CollectStep, HardwareStep DEF Others
<1>5. CASE Fail
  BY <1>5, FailStep
<1>6. CASE \E t \in 1..Len(machine.tasks) : TaskFails(t) /\ UNCHANGED requests
  BY <1>6, HardwareStep
<1>7. CASE RetryManually \/ Delete \/ GateChanges \/ \E v \in Versions : ChangeVersion(v)
  BY <1>7, UserSteps
<1>8. CASE UNCHANGED allVars
  BY <1>8, StandStill DEF allVars
<1> QED
  BY <1>1, <1>2, <1>3, <1>4, <1>5, <1>6, <1>7, <1>8 DEF Next

\* The invariant holds at first.
LEMMA AtFirst ==
    ASSUME Init
    PROVE  VersionIInv
<1>1. /\ maintenances = <<None>> /\ parked = FALSE /\ completion = "absent" /\ job = Idle
      /\ machine = [power |-> "On", firmware |-> Installed, staged |-> None, tasks |-> <<>>]
  BY DEF Init, EnvironmentInit
<1>2. PICK o : o = [phase |-> "live", finalizer |-> FALSE, retry |-> FALSE,
                    version |-> Wanted, ref |-> FALSE, state |-> "", task |-> 0,
                    attempts |-> 0, current |-> FALSE, conds |-> NoConditions]
  OBVIOUS
<1>3. O = o /\ o.phase = "live" /\ o.state = "" /\ o.conds = NoConditions
  <2>1. objects = <<o>>
    BY <1>2 DEF Init
  <2> QED
    BY <1>2, <2>1 DEF O, Stored
<1>4. /\ \A type \in ConditionType : NoConditions[type] = "unset"
      /\ StageType \subseteq ConditionType
  BY DEF NoConditions, ConditionType
<1>5. \A type \in Watched \cup StageType \cup {"ResetIssued"} : o.conds[type] = "unset"
  BY <1>3, <1>4, SpeaksFacts DEF Speaks
<1>6. NoneAsked(maintenances) /\ Len(maintenances) = 1 /\ maintenances[1] = None
  BY <1>1 DEF NoneAsked
<1>7. AtRest(machine) /\ Run(machine) = {}
  BY <1>1 DEF AtRest, Run
<1>8. GrantParks(maintenances, parked) /\ GrantStays(maintenances)
  BY <1>6 DEF GrantParks, GrantStays, Granted, Held
<1>9. GivenBack(o, maintenances, machine) /\ Kept(o, maintenances, machine)
  BY <1>3, <1>6 DEF GivenBack, Kept
<1>10. InOrder(o, machine)
  BY <1>3, <1>5 DEF InOrder, Has, Issued, Applied, Watched
<1>11. MachineInv(o, machine) /\ Told(o, machine, completion)
  BY <1>1, <1>3, <1>7 DEF MachineInv, Told, Quiet
<1>12. JobInv
  BY <1>1 DEF JobInv
<1> QED
  BY <1>3, <1>8, <1>9, <1>10, <1>11, <1>12 DEF VersionIInv, WorkInv

-----------------------------------------------------------------------------
(* The theorems *)

\* The invariant always holds.
LEMMA AlwaysOrdered ==
    ASSUME Orderly
    PROVE  Spec => [](VTypes /\ VersionIInv)
<1>1. Init => VersionIInv
  BY AtFirst
<1>2. VTypes /\ VersionIInv /\ [Next]_allVars => VersionIInv'
  BY EveryStep
<1> QED
  BY <1>1, <1>2, TypesInvariant, PTL DEF Spec

\* The state is well formed, and the completion condition on the Server is
\* never True while an upgrade runs or waits for a start.
THEOREM CompletionTold ==
    ASSUME Orderly
    PROVE  Spec => []VersionInv
<1>1. VTypes => TypeOK
  BY DEF VTypes, TypeOK, ObjectsOK, JobOK, Job
<1>2. VersionIInv => (completion = "True" => ~UpgradePending)
  BY RunIsRunning DEF VersionIInv, WorkInv, Told, UpgradePending
<1>3. VTypes /\ VersionIInv => VersionInv
  BY <1>1, <1>2 DEF VersionInv
<1> QED
  BY <1>3, AlwaysOrdered, PTL

\* Every upgrade and every power command goes out while the Server is parked
\* for the maintenance: what the controller learned from its cache is still so.
THEOREM CommandsParked ==
    ASSUME Orderly
    PROVE  Spec => CommandsUnderMaintenance
<1>1. VTypes /\ VersionIInv /\ [Next]_allVars => [UpgradeSent \/ PowerSent => parked]_allVars
  BY EveryStep DEF Disciplined
<1> QED
  BY <1>1, AlwaysOrdered, PTL DEF Spec, CommandsUnderMaintenance

\* The Server of a completed upgrade is given back on, with nothing running
\* and nothing waiting for a start.
THEOREM ServerReturnedReady ==
    ASSUME Orderly
    PROVE  Spec => ReturnedReady
<1>1. VTypes /\ VersionIInv /\ [Next]_allVars =>
        [(parked /\ ~parked' /\ Stored(objects).state = "Completed")
           => (machine.power = "On" /\ ~UpgradePending)]_allVars
  <2>1. VersionIInv /\ Stored(objects).state = "Completed"
          => machine.power = "On" /\ ~UpgradePending
    BY RunIsRunning DEF VersionIInv, WorkInv, MachineInv, Quiet, AtRest, UpgradePending, O
  <2> QED
    BY <2>1
<1> QED
  BY <1>1, AlwaysOrdered, PTL DEF Spec, ReturnedReady

\* No upgrade is sent to a machine that has one, no power command to a machine
\* that runs one, and no object goes while its upgrade runs - the last with
\* caches one version behind, or when nobody deletes.
THEOREM UpgradesUndisturbed ==
    ASSUME Orderly, "delete" \in User => MaxLag = 1
    PROVE  Spec => UpgradeUndisturbed
<1>1. VTypes /\ VersionIInv /\ [Next]_allVars =>
        [/\ UpgradeSent => ~UpgradePending
         /\ PowerSent => Running = {}
         /\ Stored(objects).phase # "gone" /\ Stored(objects)'.phase = "gone"
              => Running = {}]_allVars
  <2>1. SUFFICES ASSUME VTypes, VersionIInv, [Next]_allVars
                 PROVE  /\ UpgradeSent => ~UpgradePending
                        /\ PowerSent => Running = {}
                        /\ Stored(objects).phase # "gone" /\ Stored(objects)'.phase = "gone"
                             => Running = {}
    OBVIOUS
  <2>2. VersionIInv' /\ Disciplined
    BY <2>1, EveryStep
  <2>3. "delete" \notin User => O'.phase = "live"
    BY <2>2 DEF VersionIInv, WorkInv
  <2> QED
    BY <2>2, <2>3 DEF Disciplined, O
<1> QED
  BY <1>1, AlwaysOrdered, PTL DEF Spec, UpgradeUndisturbed
=============================================================================
