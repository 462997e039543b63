----------------------------- MODULE PowerCycle -----------------------------
(***************************************************************************)
(* The two recovery procedures every firmware and settings controller      *)
(* shares: reset the BMC once and wait for it, and power-cycle the Server  *)
(* before a failed resource is retried.                                    *)
(*                                                                         *)
(* Both are state machines over the conditions of the resource.  A call    *)
(* reads the conditions and the power state, and has one of a set of       *)
(* outcomes: the effects it has, in order, and whether the caller may go   *)
(* on in the same reconcile.  A timer may have expired at any call after   *)
(* the one that started it.                                                *)
(*                                                                         *)
(* A condition is its status and reason taken together:                    *)
(*   unset     absent, or False with no command sent (after a give-up)     *)
(*   issued    False, the command was sent                                 *)
(*   true      True                                                        *)
(* and the few values the callers add.                                     *)
(***************************************************************************)
EXTENDS Sequences

\* The conditions of a resource, by type.
StageType == {"ServerReset", "PowerOffIssued", "ForcePowerOffIssued", "PowerOnIssued"}
StageValue == {"unset", "issued", "true"}

\* Effects: a command to the BMC, and a status patch of one condition that
\* leaves the state alone and clears the task (what every Persist passes).
Command(c) == [op |-> "command", command |-> c]
Persist(type, value) ==
    [op |-> "status", state |-> "same", task |-> "clear", type |-> type, value |-> value]

Outcome(ready, do) == [ready |-> ready, do |-> do]
Ready == Outcome(TRUE, <<>>)
Wait == Outcome(FALSE, <<>>)
Do(effects) == Outcome(FALSE, effects)

-----------------------------------------------------------------------------
(* The BMC reset *)

\* `value` is the condition, `recent` whether a reset may fall within the
\* cooldown, `pending` whether the cached BMC still carries the request.
HandleBMCReset(value, type, skipRecent, recent, pending) ==
    CASE value = "true" -> {Ready}
      [] value = "issued" ->
           IF pending THEN {Wait} ELSE {Do(<<Persist(type, "true")>>)}
      [] OTHER ->
           {Do(<<[op |-> "resetBMC"], Persist(type, "issued")>>)} \cup
           (IF recent /\ ~skipRecent
            THEN {Outcome(TRUE, <<Persist(type, "true")>>)} ELSE {})

-----------------------------------------------------------------------------
(* The power cycle *)

\* What giving up does after the caller's own GiveUp effects.
GiveUpIfStuck(giveUp) ==
    giveUp \o <<Persist("ServerReset", "unset"), Persist("PowerOffIssued", "unset"),
                Persist("ForcePowerOffIssued", "unset"), Persist("PowerOnIssued", "unset")>>

HandleServerPowerOffStage(conds, power, giveUp) ==
    LET expired == IF conds["ForcePowerOffIssued"] # "true"
                   THEN <<Command("ForcePowerOff"), Persist("ForcePowerOffIssued", "true")>>
                   ELSE GiveUpIfStuck(giveUp)
    IN  CASE power = "Off" -> {Do(<<Persist("PowerOffIssued", "true")>>)}
          [] power # "Off" /\ conds["PowerOffIssued"] = "unset" ->
               {Do(<<Command("PowerOff"), Persist("PowerOffIssued", "issued")>>)}
          [] OTHER -> {Wait, Do(expired)}

HandleServerPowerOnStage(conds, power, giveUp) ==
    CASE conds["PowerOnIssued"] = "unset" ->
           {Do(<<Command("PowerOn"), Persist("PowerOnIssued", "issued")>>)}
      [] conds["PowerOnIssued"] # "unset" /\ power = "On" ->
           {Do(<<Persist("PowerOnIssued", "true"), Persist("ServerReset", "true")>>)}
      [] OTHER -> {Wait, Do(GiveUpIfStuck(giveUp))}

\* Mutant: the cycle ends when the power-on is sent, not when it is seen.
HandleServerPowerCycleBlind(conds, power, giveUp) ==
    IF conds["ServerReset"] = "true" THEN {Ready}
    ELSE IF conds["PowerOffIssued"] # "true"
    THEN {Do(<<Command("PowerOff"), Persist("PowerOffIssued", "true")>>)}
    ELSE {Do(<<Command("PowerOn"), Persist("ServerReset", "true")>>)}

HandleServerPowerCycle(conds, power, giveUp) ==
    CASE conds["ServerReset"] = "true" -> {Ready}
      [] conds["ServerReset"] # "true" /\ conds["PowerOffIssued"] # "true" ->
           HandleServerPowerOffStage(conds, power, giveUp)
      [] OTHER -> HandleServerPowerOnStage(conds, power, giveUp)
=============================================================================
