--------------------------- MODULE ChildSetProofs ---------------------------
(***************************************************************************)
(* Proofs about ChildSet for all targets, templates, kinds and bounds:     *)
(* types, and that the set's controller leaves a child at work alone.      *)
(***************************************************************************)
EXTENDS ChildSet, FiniteSetTheorems, TLAPS

\* A snapshot of the children.
Snapshot == [Targets -> Child \cup {None}]

\* A reconcile in progress.
Reconciling == [phase : Phases, set : Set, left : SUBSET Targets, labeled : SUBSET Targets,
                owned : [Targets -> Child \cup {None}], failed : BOOLEAN, pending : BOOLEAN]

\* What a step of the reconcile may leave of the set and of itself.
JobStepTyped ==
    /\ job' \in Job
    /\ sets' \in Seq(Set \cup {None}) /\ Len(sets') \in 1..(MaxLag + 1)

-----------------------------------------------------------------------------
(* Watch streams *)

\* A write appends its value, or changes nothing when it is stored already.
LEMMA StreamWritten ==
    ASSUME NEW S, NEW s \in Seq(S), Len(s) >= 1, NEW x \in S
    PROVE  /\ Write(s, x) \in Seq(S)
           /\ Stored(Write(s, x)) = x
           /\ Len(Write(s, x)) \in Nat
           /\ Len(s) =< Len(Write(s, x))
           /\ Len(Write(s, x)) = Len(s) \/ (x # Stored(s) /\ Len(Write(s, x)) = Len(s) + 1)
<1>1. CASE x = Stored(s)
  BY <1>1 DEF Write, Stored
<1>2. CASE x # Stored(s)
  <2>1. Write(s, x) = Append(s, x)
    BY <1>2 DEF Write
  <2> QED
    BY <1>2, <2>1 DEF Stored
<1> QED
  BY <1>1, <1>2

\* A delivery drops the head and leaves the stored value.
LEMMA StreamDelivered ==
    ASSUME NEW S, NEW s \in Seq(S), Len(s) > 1
    PROVE  /\ Tail(s) \in Seq(S)
           /\ Len(Tail(s)) = Len(s) - 1
           /\ Stored(Tail(s)) = Stored(s)
<1>1. Len(s) \in Nat /\ Tail(s) \in Seq(S) /\ Len(Tail(s)) = Len(s) - 1
  OBVIOUS
<1>2. \A i \in 1..Len(Tail(s)) : Tail(s)[i] = s[i + 1]
  OBVIOUS
<1>3. Len(s) - 1 \in 1..Len(Tail(s)) /\ Len(s) - 1 + 1 = Len(s)
  BY <1>1
<1> QED
  BY <1>1, <1>2, <1>3 DEF Stored

\* The ends of the streams have the types of what they carry, and no write makes
\* a stream longer than the bound allows.
LEMMA Ends ==
    ASSUME TypeOK
    PROVE  /\ Cached(sets) \in Set \cup {None} /\ Stored(sets) \in Set \cup {None}
           /\ Cached(children) \in Snapshot /\ Stored(children) \in Snapshot
           /\ Cached(windows) \in SUBSET Targets /\ Stored(windows) \in SUBSET Targets
           /\ Cached(labels) \in SUBSET Targets /\ Stored(labels) \in SUBSET Targets
<1>1. ASSUME NEW S, NEW s \in Seq(S), Len(s) \in 1..(MaxLag + 1)
      PROVE  Cached(s) \in S /\ Stored(s) \in S
  BY <1>1, ChildSetAssumption DEF Cached, Stored
<1>2. Cached(children) \in Snapshot /\ Stored(children) \in Snapshot
  <2>1. children \in Seq(Snapshot) /\ Len(children) \in 1..(MaxLag + 1)
    BY DEF TypeOK, Snapshot
  <2> QED
    BY <1>1, <2>1
<1> QED
  BY <1>1, <1>2 DEF TypeOK

\* A stream that may grow is shorter than the bound.
LEMMA Lengths ==
    ASSUME TypeOK
    PROVE  /\ MaxLag \in Nat \ {0}
           /\ \A n \in {Len(sets), Len(children), Len(windows), Len(labels)} :
                 n \in Nat /\ n >= 1 /\ (Trailing < MaxLag => n =< MaxLag)
  BY ChildSetAssumption DEF TypeOK, Trailing

\* A stream that is written keeps its type and its bound.
LEMMA Bounded ==
    ASSUME TypeOK, NEW S, NEW s \in Seq(S), NEW x \in S, Writable(s, x),
           Len(s) \in {Len(sets), Len(children), Len(windows), Len(labels)},
           Len(s) \in 1..(MaxLag + 1)
    PROVE  /\ Write(s, x) \in Seq(S) /\ Len(Write(s, x)) \in 1..(MaxLag + 1)
           /\ Stored(Write(s, x)) = x
<1>1. /\ Write(s, x) \in Seq(S) /\ Stored(Write(s, x)) = x
      /\ Len(Write(s, x)) \in Nat /\ Len(s) =< Len(Write(s, x))
      /\ Len(Write(s, x)) = Len(s) \/ (x # Stored(s) /\ Len(Write(s, x)) = Len(s) + 1)
  BY StreamWritten
<1>2. Len(s) \in Nat /\ Len(s) >= 1 /\ (Trailing < MaxLag => Len(s) =< MaxLag)
  BY Lengths
<1>3. MaxLag \in Nat
  BY ChildSetAssumption
<1>4. x # Stored(s) => Len(s) =< MaxLag
  BY <1>2 DEF Writable
<1> QED
  BY <1>1, <1>2, <1>3, <1>4

\* What a write of the set leaves,
LEMMA SetWritten ==
    ASSUME TypeOK, NEW new \in Set \cup {None}, WriteSet(new)
    PROVE  sets' \in Seq(Set \cup {None}) /\ Len(sets') \in 1..(MaxLag + 1)
  BY Bounded DEF TypeOK, WriteSet

\* what one of the active maintenances,
LEMMA WindowsWritten ==
    ASSUME TypeOK, NEW new \in SUBSET Targets, WriteWindows(new)
    PROVE  /\ windows' \in Seq(SUBSET Targets) /\ Len(windows') \in 1..(MaxLag + 1)
           /\ Stored(windows') = new
  BY Bounded DEF TypeOK, WriteWindows

\* and what one of the labels.
LEMMA LabelsWritten ==
    ASSUME TypeOK, NEW new \in SUBSET Targets,
           Writable(labels, new), labels' = Write(labels, new)
    PROVE  labels' \in Seq(SUBSET Targets) /\ Len(labels') \in 1..(MaxLag + 1)
  BY Bounded DEF TypeOK

\* A write of one child leaves the others.
LEMMA ChildWritten ==
    ASSUME TypeOK, NEW t \in Targets, NEW new \in Child \cup {None}, WriteChild(t, new)
    PROVE  /\ children' \in Seq([Targets -> Child \cup {None}])
           /\ Len(children') \in 1..(MaxLag + 1)
           /\ Stored(children') = [Stored(children) EXCEPT ![t] = new]
           /\ Stored(children')[t] = new
           /\ \A other \in Targets \ {t} : Stored(children')[other] = Stored(children)[other]
<1> DEFINE result == [Stored(children) EXCEPT ![t] = new]
<1>1. Stored(children) \in Snapshot
  BY Ends
<1>2. result \in Snapshot /\ result[t] = new
      /\ \A other \in Targets \ {t} : result[other] = Stored(children)[other]
  BY <1>1 DEF Snapshot
<1>3. children \in Seq(Snapshot) /\ Len(children) \in 1..(MaxLag + 1)
  BY DEF TypeOK, Snapshot
<1>4. Writable(children, result) /\ children' = Write(children, result)
  BY DEF WriteChild
<1> HIDE DEF result
<1>5. /\ children' \in Seq(Snapshot) /\ Len(children') \in 1..(MaxLag + 1)
      /\ Stored(children') = result
  BY <1>2, <1>3, <1>4, Bounded
<1> QED
  BY <1>2, <1>5 DEF Snapshot, result

-----------------------------------------------------------------------------
(* Type correctness of the reconcile *)

\* A job is a reconcile in progress, or none.
LEMMA JobIsReconciling == Job = Reconciling \cup {Idle}
  BY DEF Job, Reconciling

\* The counts of a status are numbers.
LEMMA StatusTyped ==
    ASSUME NEW owned \in Snapshot, NEW labeled \in SUBSET Targets
    PROVE  Aggregate(owned, Cardinality(labeled)) \in Status
<1>1. \A part \in SUBSET Targets : Cardinality(part) \in Nat
  BY ChildSetAssumption, FS_Subset, FS_CardinalityType
<1>2. /\ OwnedIn(owned) \in SUBSET Targets
      /\ \A state \in ChildStates : In(owned, state) \in SUBSET Targets
  BY DEF OwnedIn, In
<1>3. {"InProgress", "Completed", "Failed"} \subseteq ChildStates
  BY DEF ChildStates
<1> QED
  BY <1>1, <1>2, <1>3 DEF Aggregate, Status

\* The status is written for a set that is still there.
LEMMA StatusPatched ==
    ASSUME TypeOK, NEW j \in Reconciling, PatchStatus(j)
    PROVE  JobStepTyped
<1>1. CASE Stored(sets) = None
  BY <1>1 DEF PatchStatus, End, Job, TypeOK, JobStepTyped
<1>2. CASE Stored(sets) # None
  <2> DEFINE status == Aggregate(j.owned, Cardinality(j.labeled))
             new == [Stored(sets) EXCEPT !.status = status]
  <2>1. status \in Status
    BY StatusTyped DEF Reconciling, Snapshot
  <2>2. Stored(sets) \in Set
    BY <1>2, Ends
  <2> HIDE DEF status
  <2>3. new \in Set \cup {None}
    BY <2>1, <2>2 DEF Set
  <2>4. WriteSet(new) /\ job' = [j EXCEPT !.phase = "retry", !.left = SeenChildren]
    BY <1>2 DEF PatchStatus, status
  <2> HIDE DEF new
  <2>5. sets' \in Seq(Set \cup {None}) /\ Len(sets') \in 1..(MaxLag + 1)
    BY <2>3, <2>4, SetWritten
  <2>6. SeenChildren \in SUBSET Targets
    BY DEF SeenChildren, OwnedIn
  <2>7. job' \in Reconciling
    BY <2>4, <2>6 DEF Reconciling, Phases
  <2> QED
    BY <2>5, <2>7, JobIsReconciling DEF JobStepTyped
<1> QED
  BY <1>1, <1>2

\* A phase that has a call to make is entered.
LEMMA Entered ==
    ASSUME TypeOK, NEW j \in Reconciling, Enter(j)
    PROVE  JobStepTyped
  BY JobIsReconciling DEF Enter, TypeOK, JobStepTyped

\* The phase of the templates is entered or passed over,
LEMMA TemplatesPatched ==
    ASSUME TypeOK, NEW j \in Reconciling, PatchTemplates(j)
    PROVE  JobStepTyped
<1> DEFINE pending == \E t \in OwnedIn(j.owned) : IsInProgress(j.owned[t])
           patching == [j EXCEPT !.phase = "template", !.left = OwnedIn(j.owned), !.pending = pending]
<1>1. OwnedIn(j.owned) \in SUBSET Targets
  BY DEF OwnedIn
<1>2. pending \in BOOLEAN
  OBVIOUS
<1>3. Enter(patching) \/ PatchStatus(patching)
  BY DEF PatchTemplates
<1> HIDE DEF pending
<1>4. patching \in Reconciling
  BY <1>1, <1>2 DEF Reconciling, Phases
<1> QED
  BY <1>3, <1>4, Entered, StatusPatched

\* so is the one of the orphans,
LEMMA OrphansDeleted ==
    ASSUME TypeOK, NEW j \in Reconciling, DeleteOrphans(j)
    PROVE  JobStepTyped
<1> DEFINE deleting == [j EXCEPT !.phase = "orphans", !.left = OwnedIn(j.owned) \ j.labeled]
<1>1. OwnedIn(j.owned) \ j.labeled \in SUBSET Targets
  BY DEF OwnedIn
<1>2. Enter(deleting) \/ PatchTemplates(deleting)
  BY DEF DeleteOrphans
<1>3. deleting \in Reconciling
  BY <1>1 DEF Reconciling, Phases
<1> QED
  BY <1>2, <1>3, Entered, TemplatesPatched

\* and the one that creates children.
LEMMA TargetsEnsured ==
    ASSUME TypeOK, NEW j \in Reconciling, EnsureForTargets(j)
    PROVE  JobStepTyped
<1> DEFINE creating == [j EXCEPT !.phase = "create", !.left = j.labeled \ OwnedIn(j.owned)]
<1>1. j.labeled \ OwnedIn(j.owned) \in SUBSET Targets
  BY DEF Reconciling
<1>2. Enter(creating) \/ DeleteOrphans(creating)
  BY DEF EnsureForTargets
<1>3. creating \in Reconciling
  BY <1>1 DEF Reconciling, Phases
<1> QED
  BY <1>2, <1>3, Entered, OrphansDeleted

\* The finalizer is set or taken from a set that is still there.
LEMMA FinalizerSet ==
    ASSUME TypeOK, NEW on \in BOOLEAN, SetFinalizer(on)
    PROVE  sets' \in Seq(Set \cup {None}) /\ Len(sets') \in 1..(MaxLag + 1)
<1>1. CASE Stored(sets) = None
  BY <1>1 DEF SetFinalizer, PatchSet, TypeOK
<1>2. CASE Stored(sets) # None
  <2>1. [Stored(sets) EXCEPT !.finalizer = on] \in Set
    BY <1>2, Ends DEF Set
  <2>2. WriteSet([Stored(sets) EXCEPT !.finalizer = on])
    BY <1>2 DEF SetFinalizer, PatchSet
  <2> QED
    BY <2>1, <2>2, SetWritten
<1> QED
  BY <1>1, <1>2

\* A reconcile that ends.
LEMMA Ended ==
    ASSUME End, sets' \in Seq(Set \cup {None}), Len(sets') \in 1..(MaxLag + 1)
    PROVE  JobStepTyped
  BY DEF End, Job, JobStepTyped

\* The deletion, an ignored set, the finalizer, or the phases.
LEMMA Reconciled ==
    ASSUME TypeOK, NEW j \in Reconciling, Reconcile(j)
    PROVE  JobStepTyped
<1> DEFINE listed == [j EXCEPT !.owned = Cached(children), !.labeled = Cached(labels)]
<1>1. listed \in Reconciling
  BY Ends DEF Reconciling, Snapshot
<1>2. \/ DeleteSet(listed)
      \/ End /\ UNCHANGED sets
      \/ SetFinalizer(TRUE) /\ End
      \/ EnsureForTargets(listed)
  BY DEF Reconcile
<1> HIDE DEF listed
<1>3. CASE DeleteSet(listed)
  <2>1. (SetFinalizer(FALSE) /\ End) \/ PatchStatus(listed)
    BY <1>3 DEF DeleteSet
  <2> QED
    BY <1>1, <2>1, FinalizerSet, Ended, StatusPatched
<1>4. CASE End /\ UNCHANGED sets
  BY <1>4, Ended DEF TypeOK
<1>5. CASE SetFinalizer(TRUE) /\ End
  BY <1>5, FinalizerSet, Ended
<1>6. CASE EnsureForTargets(listed)
  BY <1>1, <1>6, TargetsEnsured
<1> QED
  BY <1>2, <1>3, <1>4, <1>5, <1>6

-----------------------------------------------------------------------------
(* Type correctness of the steps *)

\* What is stored of a child that is there.
LEMMA StoredChild ==
    ASSUME TypeOK, NEW t \in Targets
    PROVE  /\ Stored(children)[t] \in Child \cup {None}
           /\ Cached(children)[t] \in Child \cup {None}
           /\ Stored(children)[t] # None => Stored(children)[t] \in Child
           /\ Cached(children)[t] # None => Cached(children)[t] \in Child
  BY Ends DEF Snapshot

\* What a reconcile in progress wants of a child it sees is a child.
LEMMA WantsChild ==
    ASSUME TypeOK, job # Idle, NEW t \in Targets, Cached(children)[t] # None
    PROVE  /\ Wants(job, t) \in Child
           /\ job \in Reconciling
<1> DEFINE seen == Cached(children)[t]
<1>1. seen \in Child
  BY StoredChild
<1>2. job \in Reconciling
  BY JobIsReconciling DEF TypeOK
<1> HIDE DEF seen
<1>3. IgnoreWanted(job, seen) \in Child
  BY <1>1 DEF IgnoreWanted, Child
<1>4. RetryWanted(job, seen) \in Child
  BY <1>1 DEF RetryWanted, Child
<1>5. [seen EXCEPT !.spec = job.set.template] \in Child
  BY <1>1, <1>2 DEF Child, Reconciling, Set
<1>6. Wants(job, t) \in {IgnoreWanted(job, seen), RetryWanted(job, seen),
                         [seen EXCEPT !.spec = job.set.template]}
  BY DEF Wants, seen
<1> QED
  BY <1>2, <1>3, <1>4, <1>5, <1>6

\* A reconcile goes on after a call, failed or not.
LEMMA JobGoesOn ==
    ASSUME TypeOK, job # Idle, NEW t \in Targets, NEW child \in Child \cup {None},
           Failing(t) \/ Passing(t, child)
    PROVE  job' \in Job
<1>1. job \in Reconciling
  BY JobIsReconciling DEF TypeOK
<1>2. CASE Failing(t)
  <2>1. job' \in Reconciling
    BY <1>1, <1>2 DEF Failing, Reconciling
  <2> QED
    BY <2>1, JobIsReconciling
<1>3. CASE Passing(t, child)
  <2> DEFINE owned == IF kind = "FirmwareUpdateSet" /\ job.phase \in {"orphans", "template"}
                      THEN [job.owned EXCEPT ![t] = child] ELSE job.owned
  <2>1. owned \in [Targets -> Child \cup {None}]
    BY <1>1 DEF Reconciling
  <2>2. job' = [job EXCEPT !.left = job.left \ {t}, !.owned = owned]
    BY <1>3 DEF Passing
  <2> HIDE DEF owned
  <2>3. job' \in Reconciling
    BY <1>1, <2>1, <2>2 DEF Reconciling
  <2> QED
    BY <2>3, JobIsReconciling
<1> QED
  BY <1>2, <1>3

\* The child that a patch leaves.
Patched(t) ==
    LET seen == Cached(children)[t]
    IN  [Stored(children)[t] EXCEPT
           !.spec = IF Wants(job, t).spec = seen.spec THEN @ ELSE Wants(job, t).spec,
           !.op = IF Wants(job, t).op = seen.op THEN @ ELSE Wants(job, t).op]

\* The child that the API server stores after a call, and what becomes of the
\* others: it changes in a patch that is not refused, it is created where none
\* is, or it is marked in a deletion that is not refused.
LEMMA CallOutcome ==
    ASSUME TypeOK, NEW t \in Targets, CallForChild(t)
    PROVE  /\ children' \in Seq([Targets -> Child \cup {None}])
           /\ Len(children') \in 1..(MaxLag + 1)
           /\ job' \in Job
           /\ \A other \in Targets \ {t} : Stored(children')[other] = Stored(children)[other]
           /\ LET old == Stored(children)[t]
                  new == Stored(children')[t]
              IN  \/ new = old
                  \/ old # None /\ new = Patched(t) /\ new \in Child /\ ~Refused(t, old, new)
                  \/ old = None /\ new = NewChild
                  \/ /\ old # None /\ ~DeletionRefused(t, old)
                     /\ new = [old EXCEPT !.deleting = TRUE]
<1> DEFINE old == Stored(children)[t]
<1>1. job # Idle /\ job \in Reconciling
  BY JobIsReconciling DEF CallForChild, TypeOK
<1>2. CASE UNCHANGED children /\ Failing(t)
  BY <1>1, <1>2, JobGoesOn DEF TypeOK
<1>3. ASSUME NEW new \in Child \cup {None}, NEW child \in Child \cup {None},
             WriteChild(t, new), Passing(t, child)
      PROVE  /\ children' \in Seq([Targets -> Child \cup {None}])
             /\ Len(children') \in 1..(MaxLag + 1)
             /\ job' \in Job
             /\ \A other \in Targets \ {t} : Stored(children')[other] = Stored(children)[other]
             /\ Stored(children')[t] = new
  <2>1. job' \in Job
    BY <1>1, <1>3, JobGoesOn
  <2> QED
    BY <1>3, <2>1, ChildWritten
<1>4. CASE PatchChild(t) /\ ~(UNCHANGED children /\ Failing(t))
  <2>1. /\ old # None /\ ~Refused(t, old, Patched(t))
        /\ WriteChild(t, Patched(t)) /\ Passing(t, Patched(t))
        /\ Cached(children)[t] # None
    BY <1>4 DEF PatchChild, Patched
  <2>2. old \in Child /\ Wants(job, t) \in Child
    BY <1>1, <2>1, StoredChild, WantsChild
  <2>3. Patched(t) \in Child
    BY <2>2 DEF Patched, Child
  <2> QED
    BY <1>3, <2>1, <2>3
<1>5. CASE CreateChild(t) /\ ~(UNCHANGED children /\ Failing(t))
  <2>1. old = None /\ WriteChild(t, NewChild) /\ Passing(t, NewChild)
    BY <1>5 DEF CreateChild
  <2>2. NewChild \in Child
    BY <1>1 DEF NewChild, Child, ChildStates, Reconciling, Set
  <2> QED
    BY <1>3, <2>1, <2>2
<1>6. CASE DeleteChild(t) /\ ~(UNCHANGED children /\ Failing(t))
  <2> DEFINE new == [old EXCEPT !.deleting = TRUE]
  <2>1. /\ old # None /\ ~DeletionRefused(t, old)
        /\ WriteChild(t, new) /\ Passing(t, None)
    BY <1>6 DEF DeleteChild
  <2>2. new \in Child
    BY <2>1, StoredChild DEF Child
  <2> QED
    BY <1>3, <2>1, <2>2
<1> QED
  BY <1>2, <1>4, <1>5, <1>6 DEF CallForChild

-----------------------------------------------------------------------------
(* The strengthening: a child whose work has begun is InProgress, refers   *)
(* to its maintenance, and the maintenance is active.  Without it the      *)
(* webhooks, which ask for the reference, would let a change of a child at *)
(* work pass: between the activation and the reference they do.            *)

Referenced(child, under) ==
    child # None /\ child.task => child.state = "InProgress" /\ child.refs /\ under

WorkHasReference == \A t \in Targets : Referenced(Stored(children)[t], Under(t))

\* What the steps of one child keep.
ChildStepTyped(t) ==
    /\ children' \in Seq([Targets -> Child \cup {None}]) /\ Len(children') \in 1..(MaxLag + 1)
    /\ windows' \in Seq(SUBSET Targets) /\ Len(windows') \in 1..(MaxLag + 1)
    /\ faults' \in 0..MaxFaults
    /\ \A other \in Targets \ {t} :
         /\ Stored(children')[other] = Stored(children)[other]
         /\ other \in Stored(windows') <=> other \in Stored(windows)
    /\ Referenced(Stored(children')[t], t \in Stored(windows'))

\* A step of a child that writes the child alone,
LEMMA BecomesTyped ==
    ASSUME TypeOK, NEW t \in Targets, NEW new \in Child \cup {None}, WriteChild(t, new),
           UNCHANGED windows, faults' \in 0..MaxFaults, Referenced(new, Under(t))
    PROVE  ChildStepTyped(t)
<1>1. Stored(windows') = Stored(windows) /\ Stored(children')[t] = new
  BY ChildWritten
<1>2. Referenced(Stored(children')[t], t \in Stored(windows'))
  BY <1>1 DEF Under
<1> QED
  BY <1>1, <1>2, ChildWritten DEF TypeOK, ChildStepTyped

\* or grants or ends its maintenance alone.
LEMMA WindowTyped ==
    ASSUME TypeOK, NEW t \in Targets,
           NEW new \in {Stored(windows) \cup {t}, Stored(windows) \ {t}}, WriteWindows(new),
           UNCHANGED <<children, faults>>, Referenced(Stored(children)[t], t \in new)
    PROVE  ChildStepTyped(t)
<1>1. new \in SUBSET Targets
  BY Ends
<1>2. /\ windows' \in Seq(SUBSET Targets) /\ Len(windows') \in 1..(MaxLag + 1)
      /\ Stored(windows') = new
  BY <1>1, WindowsWritten
<1>3. \A other \in Targets \ {t} : other \in new <=> other \in Stored(windows)
  OBVIOUS
<1>4. Stored(children') = Stored(children)
  OBVIOUS
<1> QED
  BY <1>2, <1>3, <1>4 DEF TypeOK, ChildStepTyped

\* Every step of a child keeps its reference while its work goes on.
LEMMA ChildStepOutcome ==
    ASSUME TypeOK, NEW t \in Targets, Referenced(Stored(children)[t], Under(t)), ChildStep(t)
    PROVE  ChildStepTyped(t)
<1> DEFINE child == Stored(children)[t]
<1>1. /\ child # None => child \in Child
      /\ faults \in 0..MaxFaults
  BY StoredChild DEF TypeOK
<1>2. CASE ChildStarts(t) \/ ReferenceWritten(t)
  <2>1. PICK new : /\ child # None /\ child \in Child
                   /\ new \in {[child EXCEPT !.state = "InProgress"], [child EXCEPT !.refs = TRUE]}
                   /\ WriteChild(t, new) /\ UNCHANGED <<windows, faults>>
    BY <1>1, <1>2 DEF ChildStarts, ReferenceWritten, Works, Becomes
  <2>2. new \in Child /\ Referenced(new, Under(t))
    BY <2>1 DEF Child, ChildStates, Referenced
  <2> QED
    BY <1>1, <2>1, <2>2, BecomesTyped
<1>3. CASE MaintenanceGranted(t)
  <2>1. Referenced(child, t \in Stored(windows) \cup {t})
    BY DEF Referenced
  <2>2. WriteWindows(Stored(windows) \cup {t}) /\ UNCHANGED <<children, faults>>
    BY <1>3 DEF MaintenanceGranted
  <2> QED
    BY <2>1, <2>2, WindowTyped
<1>4. CASE UpgradeIssued(t)
  <2> DEFINE new == [child EXCEPT !.task = TRUE]
  <2>1. /\ child # None /\ child \in Child /\ WriteChild(t, new) /\ UNCHANGED <<windows, faults>>
        /\ child.state = "InProgress" /\ child.refs /\ Under(t)
    BY <1>1, <1>4 DEF UpgradeIssued, Works, Becomes
  <2>2. new \in Child /\ Referenced(new, Under(t))
    BY <2>1 DEF Child, Referenced
  <2> QED
    BY <1>1, <2>1, <2>2, BecomesTyped
<1>5. CASE ChildCompletes(t)
  <2> DEFINE new == [child EXCEPT !.state = "Completed", !.did = child.spec, !.task = FALSE,
                                  !.checked = FALSE, !.retried = FALSE]
  <2>1. /\ child # None /\ child \in Child /\ WriteChild(t, new) /\ UNCHANGED <<windows, faults>>
    BY <1>1, <1>5 DEF ChildCompletes, Works, Becomes
  <2>2. new \in Child /\ Referenced(new, Under(t))
    BY <2>1 DEF Child, ChildStates, Referenced
  <2> QED
    BY <1>1, <2>1, <2>2, BecomesTyped
<1>6. CASE ChildFails(t)
  <2> DEFINE new == [child EXCEPT !.state = "Failed", !.task = FALSE]
  <2>1. child \in Child /\ WriteChild(t, new) /\ UNCHANGED <<windows, faults>>
    BY <1>1, <1>6 DEF ChildFails, Works, Becomes
  <2>2. new \in Child /\ Referenced(new, Under(t))
    BY <2>1 DEF Child, ChildStates, Referenced
  <2> QED
    BY <1>1, <2>1, <2>2, BecomesTyped
<1>7. CASE CheckConcludes(t)
  <2> DEFINE new == [child EXCEPT !.checked = TRUE]
  <2>1. child # None /\ child \in Child /\ WriteChild(t, new) /\ UNCHANGED <<windows, faults>>
    BY <1>1, <1>7 DEF CheckConcludes, Works, Becomes
  <2>2. new \in Child /\ Referenced(new, Under(t))
    BY <2>1 DEF Child, Referenced
  <2> QED
    BY <1>1, <2>1, <2>2, BecomesTyped
<1>8. CASE MaintenanceEnds(t)
  <2>1. /\ WriteWindows(Stored(windows) \ {t}) /\ UNCHANGED <<children, faults>>
        /\ child.state = "Completed"
    BY <1>8 DEF MaintenanceEnds, Works
  <2>2. Referenced(child, t \in Stored(windows) \ {t})
    BY <2>1 DEF Referenced
  <2> QED
    BY <2>1, <2>2, WindowTyped
<1>9. CASE ReferenceGoes(t)
  <2> DEFINE new == [child EXCEPT !.refs = FALSE]
  <2>1. /\ child # None /\ child \in Child /\ WriteChild(t, new) /\ UNCHANGED <<windows, faults>>
        /\ child.state = "Completed"
    BY <1>1, <1>9 DEF ReferenceGoes, Works, Becomes
  <2>2. new \in Child /\ Referenced(new, Under(t))
    BY <2>1 DEF Child, Referenced
  <2> QED
    BY <1>1, <2>1, <2>2, BecomesTyped
<1>10. CASE FurtherPass(t)
  <2> DEFINE new == [child EXCEPT !.state = "InProgress"]
  <2>1. /\ child # None /\ child \in Child /\ WriteChild(t, new) /\ UNCHANGED windows
        /\ child.state = "Completed" /\ faults < MaxFaults /\ faults' = faults + 1
    BY <1>1, <1>10 DEF FurtherPass, Works
  <2>2. new \in Child /\ Referenced(new, Under(t))
    BY <2>1 DEF Child, ChildStates, Referenced
  <2>3. faults' \in 0..MaxFaults
    BY <1>1, <2>1, ChildSetAssumption
  <2> QED
    BY <2>1, <2>2, <2>3, BecomesTyped
<1>11. CASE ChildNotices(t)
  <2> DEFINE new == [child EXCEPT !.state = "Pending", !.checked = FALSE]
  <2>1. /\ child # None /\ child \in Child /\ WriteChild(t, new) /\ UNCHANGED <<windows, faults>>
        /\ child.state = "Completed"
    BY <1>1, <1>11 DEF ChildNotices, Works, Becomes
  <2>2. new \in Child /\ Referenced(new, Under(t))
    BY <2>1 DEF Child, ChildStates, Referenced
  <2> QED
    BY <1>1, <2>1, <2>2, BecomesTyped
<1>12. CASE ChildRetries(t)
  <2> DEFINE new == [child EXCEPT !.state = "Pending", !.retried = TRUE]
  <2>1. /\ child # None /\ child \in Child /\ WriteChild(t, new) /\ UNCHANGED <<windows, faults>>
        /\ child.state = "Failed"
    BY <1>1, <1>12 DEF ChildRetries, Works, Becomes
  <2>2. new \in Child /\ Referenced(new, Under(t))
    BY <2>1 DEF Child, ChildStates, Referenced
  <2> QED
    BY <1>1, <2>1, <2>2, BecomesTyped
<1>13. CASE DropsAnnotation(t)
  <2> DEFINE new == [child EXCEPT !.op = ""]
  <2>1. child # None /\ child \in Child /\ WriteChild(t, new) /\ UNCHANGED <<windows, faults>>
    BY <1>1, <1>13 DEF DropsAnnotation, Works, Becomes
  <2>2. new \in Child /\ Referenced(new, Under(t))
    BY <2>1 DEF Child, Referenced
  <2> QED
    BY <1>1, <2>1, <2>2, BecomesTyped
<1>14. CASE ChildGoes(t)
  <2>1. /\ WriteChild(t, None) /\ WriteWindows(Stored(windows) \ {t}) /\ UNCHANGED faults
    BY <1>14 DEF ChildGoes
  <2>2. Stored(windows) \ {t} \in SUBSET Targets
    BY Ends
  <2>3. /\ windows' \in Seq(SUBSET Targets) /\ Len(windows') \in 1..(MaxLag + 1)
        /\ Stored(windows') = Stored(windows) \ {t}
    BY <2>1, <2>2, WindowsWritten
  <2>4. Referenced(Stored(children')[t], t \in Stored(windows'))
    BY <2>1, ChildWritten DEF Referenced
  <2> QED
    BY <1>1, <2>1, <2>3, <2>4, ChildWritten DEF ChildStepTyped
<1>15. CASE GarbageCollect(t)
  <2> DEFINE new == [child EXCEPT !.deleting = TRUE]
  <2>1. child # None /\ child \in Child /\ WriteChild(t, new) /\ UNCHANGED <<windows, faults>>
    BY <1>1, <1>15 DEF GarbageCollect, Becomes
  <2>2. new \in Child /\ Referenced(new, Under(t))
    BY <2>1 DEF Child, Referenced
  <2> QED
    BY <1>1, <2>1, <2>2, BecomesTyped
<1> QED
  BY <1>2, <1>3, <1>4, <1>5, <1>6, <1>7, <1>8, <1>9, <1>10, <1>11, <1>12, <1>13, <1>14,
     <1>15 DEF ChildStep

-----------------------------------------------------------------------------
(* The invariant *)

IInv == TypeOK /\ WorkHasReference

\* A set starts without children.
LEMMA Initially == Init => IInv
<1> SUFFICES ASSUME Init PROVE IInv
  OBVIOUS
<1>1. \A op \in Annotations : [NewSet EXCEPT !.op = op] \in Set
  BY ChildSetAssumption DEF NewSet, Set, Status, Operations
<1>2. sets \in Seq(Set \cup {None}) /\ Len(sets) = 1
  BY <1>1 DEF Init
<1>3. children = <<[t \in Targets |-> None]>>
  BY DEF Init
<1>4. children \in Seq([Targets -> Child \cup {None}]) /\ Len(children) = 1
  BY <1>3
<1>5. /\ windows \in Seq(SUBSET Targets) /\ Len(windows) = 1
      /\ labels \in Seq(SUBSET Targets) /\ Len(labels) = 1
  BY DEF Init
<1>6. 1 \in 1..(MaxLag + 1) /\ 0 \in 0..MaxFaults /\ 0 \in 0..MaxRequests
  BY ChildSetAssumption
<1>7. kind \in SetKinds /\ queued \in BOOLEAN /\ job \in Job /\ faults = 0 /\ requests = 0
  BY ChildSetAssumption DEF Init, Job
<1>8. TypeOK
  BY <1>2, <1>4, <1>5, <1>6, <1>7 DEF TypeOK
<1>9. \A t \in Targets : Stored(children)[t] = None
  BY <1>3 DEF Stored
<1> QED
  BY <1>8, <1>9 DEF IInv, WorkHasReference, Referenced

\* A step that leaves the stored children and windows as they are keeps the
\* strengthening.
LEMMA ReferenceStays ==
    ASSUME WorkHasReference, Stored(children') = Stored(children),
           Stored(windows') = Stored(windows)
    PROVE  WorkHasReference'
  BY DEF WorkHasReference, Referenced, Under, Stored

\* The steps of the reconcile between two calls.
LEMMA ReconcileStep ==
    ASSUME IInv, Begin \/ Advance \/ Crash
    PROVE  IInv' /\ UNCHANGED <<children, windows>>
<1> USE DEF IInv
<1>1. CASE Begin
  <2> DEFINE set == Cached(sets)
             new == [phase |-> "ignore", set |-> set, labeled |-> {}, owned |-> Cached(children),
                     left |-> IF kind = "BMCSettingsSet" THEN {} ELSE SeenChildren,
                     failed |-> FALSE, pending |-> FALSE]
  <2>1. CASE UNCHANGED <<job, sets>>
    BY <1>1, <2>1 DEF Begin, TypeOK, WorkHasReference, Referenced, Under, Stored
  <2>2. CASE set # None /\ (Enter(new) \/ Reconcile(new))
    <3>1. set \in Set /\ Cached(children) \in [Targets -> Child \cup {None}]
      BY <2>2, Ends DEF Snapshot
    <3>2. SeenChildren \in SUBSET Targets
      BY DEF SeenChildren, OwnedIn
    <3>3. new \in Reconciling
      BY <3>1, <3>2 DEF Reconciling, Phases
    <3>4. JobStepTyped
      BY <2>2, <3>3, Entered, Reconciled
    <3> QED
      BY <1>1, <3>4 DEF Begin, JobStepTyped, TypeOK, WorkHasReference, Referenced, Under, Stored
  <2> QED
    BY <1>1, <2>1, <2>2 DEF Begin
<1>2. CASE Advance
  <2>1. job \in Reconciling
    BY <1>2, JobIsReconciling DEF Advance, TypeOK
  <2>2. JobStepTyped /\ queued' \in BOOLEAN
    <3>1. CASE Requeue /\ UNCHANGED sets
      BY <3>1 DEF Requeue, JobStepTyped, TypeOK, Job
    <3>2. CASE ~job.failed /\ job.phase = "ignore"
      BY <1>2, <2>1, <3>2, Reconciled DEF Advance, TypeOK
    <3>3. CASE ~job.failed /\ job.phase = "create"
      BY <1>2, <2>1, <3>3, OrphansDeleted DEF Advance, TypeOK
    <3>4. CASE ~job.failed /\ job.phase = "orphans"
      BY <1>2, <2>1, <3>4, TemplatesPatched DEF Advance, TypeOK
    <3>5. CASE ~job.failed /\ job.phase = "template"
      BY <1>2, <2>1, <3>5, StatusPatched DEF Advance, TypeOK
    <3>6. CASE ~job.failed /\ job.phase = "retry"
      <4> DEFINE new == [Stored(sets) EXCEPT !.deleting = TRUE]
      <4>1. \/ End /\ UNCHANGED <<sets, queued>>
            \/ Requeue /\ UNCHANGED sets
            \/ PatchSet(new) /\ End /\ UNCHANGED queued
        BY <1>2, <3>6 DEF Advance, Finish
      <4>2. CASE End /\ UNCHANGED <<sets, queued>>
        BY <4>2, Ended DEF TypeOK
      <4>3. CASE PatchSet(new) /\ End /\ UNCHANGED queued
        <5>1. Stored(sets) # None => new \in Set
          BY Ends DEF Set
        <5>2. UNCHANGED sets \/ (Stored(sets) # None /\ WriteSet(new))
          BY <4>3 DEF PatchSet
        <5>3. sets' \in Seq(Set \cup {None}) /\ Len(sets') \in 1..(MaxLag + 1)
          BY <5>1, <5>2, SetWritten DEF TypeOK
        <5> QED
          BY <4>3, <5>3, Ended DEF TypeOK
      <4> QED
        BY <3>1, <4>1, <4>2, <4>3
    <3>7. job.failed => Requeue /\ UNCHANGED sets
      BY <1>2 DEF Advance
    <3> QED
      BY <2>1, <3>1, <3>2, <3>3, <3>4, <3>5, <3>6, <3>7 DEF Reconciling, Phases
  <2> QED
    BY <1>2, <2>2 DEF Advance, JobStepTyped, TypeOK, WorkHasReference, Referenced, Under, Stored
<1>3. CASE Crash
  <2>1. faults' \in 0..MaxFaults
    BY <1>3, ChildSetAssumption DEF Crash, TypeOK
  <2> QED
    BY <1>3, <2>1 DEF Crash, TypeOK, Job, WorkHasReference, Referenced, Under, Stored
<1> QED
  BY <1>1, <1>2, <1>3 DEF Begin, Advance, Crash

\* A call for one child, failed or not.
LEMMA CallStep ==
    ASSUME IInv, NEW t \in Targets, CallForChild(t) \/ CallFails(t)
    PROVE  IInv'
<1> USE DEF IInv
<1>1. CASE CallForChild(t)
  <2> DEFINE old == Stored(children)[t]
             new == Stored(children')[t]
  <2>1. TypeOK'
    BY <1>1, CallOutcome DEF CallForChild, TypeOK
  <2>2. Referenced(new, Under(t))
    <3>1. Referenced(old, Under(t))
      BY DEF WorkHasReference
    <3>2. CASE new = old
      BY <3>1, <3>2
    <3>3. CASE old # None /\ new = Patched(t)
      <4>1. old \in Child
        BY <3>3, StoredChild
      <4>2. new.state = old.state /\ new.refs = old.refs /\ new.task = old.task
        BY <3>3, <4>1 DEF Patched, Child
      <4> QED
        BY <3>1, <3>3, <4>2 DEF Referenced
    <3>4. CASE new = NewChild
      <4>1. ~NewChild.task
        BY DEF NewChild
      <4> HIDE DEF new
      <4>2. ~new.task
        BY <3>4, <4>1
      <4> QED
        BY <4>2 DEF Referenced
    <3>5. CASE old # None /\ new = [old EXCEPT !.deleting = TRUE]
      <4>1. old \in Child
        BY <3>5, StoredChild
      <4>2. new.state = old.state /\ new.refs = old.refs /\ new.task = old.task
        BY <3>5, <4>1 DEF Child
      <4> QED
        BY <3>1, <3>5, <4>2 DEF Referenced
    <3> QED
      BY <1>1, <3>2, <3>3, <3>4, <3>5, CallOutcome
  <2>3. /\ \A other \in Targets \ {t} : Stored(children')[other] = Stored(children)[other]
        /\ UNCHANGED <<kind, windows>>
    BY <1>1, CallOutcome DEF CallForChild
  <2>4. ASSUME NEW other \in Targets
        PROVE  Referenced(Stored(children)[other], Under(other))'
    BY <2>2, <2>3 DEF WorkHasReference, Referenced, Under, Stored
  <2> QED
    BY <2>1, <2>4 DEF WorkHasReference
<1>2. CASE CallFails(t)
  <2>1. job' \in Job
    BY <1>2, JobGoesOn DEF CallFails
  <2>2. faults' \in 0..MaxFaults
    BY <1>2, ChildSetAssumption DEF CallFails, TypeOK
  <2> QED
    BY <1>2, <2>1, <2>2 DEF CallFails, TypeOK, WorkHasReference, Referenced, Under, Stored
<1> QED
  BY <1>1, <1>2
\* A step of a child's controller, its maintenance or the garbage collector.
LEMMA ChildStepKeeps ==
    ASSUME IInv, NEW t \in Targets, ChildStep(t)
    PROVE  IInv'
<1>1. ChildStepTyped(t)
  BY ChildStepOutcome DEF IInv, WorkHasReference
<1>2. UNCHANGED <<kind, sets, labels, queued, job, requests>>
  BY DEF ChildStep, Rest
<1>3. TypeOK'
  BY <1>1, <1>2 DEF IInv, TypeOK, ChildStepTyped
<1>4. ASSUME NEW other \in Targets
      PROVE  Referenced(Stored(children)[other], Under(other))'
  BY <1>1, <1>2 DEF IInv, WorkHasReference, Referenced, Under, Stored, ChildStepTyped
<1> QED
  BY <1>3, <1>4 DEF IInv, WorkHasReference

\* The deliveries of the watches leave what is stored.
LEMMA DeliveryStep ==
    ASSUME IInv, DeliverSet \/ DeliverChildren \/ DeliverWindows \/ DeliverLabels
    PROVE  IInv'
<1> USE DEF IInv
<1>1. ASSUME NEW S, NEW s \in Seq(S), Len(s) > 1, Len(s) \in 1..(MaxLag + 1)
      PROVE  /\ Tail(s) \in Seq(S) /\ Len(Tail(s)) \in 1..(MaxLag + 1)
             /\ Stored(Tail(s)) = Stored(s)
  <2>1. /\ Tail(s) \in Seq(S) /\ Len(Tail(s)) = Len(s) - 1 /\ Stored(Tail(s)) = Stored(s)
    BY <1>1, StreamDelivered
  <2> QED
    BY <1>1, <2>1, ChildSetAssumption
<1>2. CASE DeliverSet
  <2>1. sets' \in Seq(Set \cup {None}) /\ Len(sets') \in 1..(MaxLag + 1)
    BY <1>1, <1>2 DEF DeliverSet, TypeOK
  <2> QED
    BY <1>2, <2>1 DEF DeliverSet, TypeOK, WorkHasReference, Referenced, Under, Stored
<1>3. CASE DeliverChildren
  <2>1. children \in Seq(Snapshot) /\ Len(children) > 1 /\ Len(children) \in 1..(MaxLag + 1)
    BY <1>3 DEF DeliverChildren, TypeOK, Snapshot
  <2>2. /\ children' \in Seq(Snapshot) /\ Len(children') \in 1..(MaxLag + 1)
        /\ Stored(children') = Stored(children)
    BY <1>1, <1>3, <2>1 DEF DeliverChildren
  <2>3. queued' \in BOOLEAN
    BY <1>3 DEF DeliverChildren, TypeOK
  <2>4. TypeOK'
    BY <1>3, <2>2, <2>3 DEF DeliverChildren, TypeOK, Snapshot
  <2> QED
    BY <1>3, <2>2, <2>4, ReferenceStays DEF DeliverChildren
<1>4. CASE DeliverWindows
  <2>1. /\ windows' \in Seq(SUBSET Targets) /\ Len(windows') \in 1..(MaxLag + 1)
        /\ Stored(windows') = Stored(windows)
    BY <1>1, <1>4 DEF DeliverWindows, TypeOK
  <2>2. TypeOK'
    BY <1>4, <2>1 DEF DeliverWindows, TypeOK
  <2>3. Stored(children') = Stored(children)
    BY <1>4 DEF DeliverWindows
  <2> QED
    BY <1>4, <2>1, <2>2, <2>3, ReferenceStays DEF DeliverWindows
<1>5. CASE DeliverLabels
  <2>1. labels' \in Seq(SUBSET Targets) /\ Len(labels') \in 1..(MaxLag + 1)
    BY <1>1, <1>5 DEF DeliverLabels, TypeOK
  <2>2. queued' \in BOOLEAN
    BY <1>5 DEF DeliverLabels, TypeOK
  <2> QED
    BY <1>5, <2>1, <2>2 DEF DeliverLabels, TypeOK, WorkHasReference, Referenced, Under, Stored
<1> QED
  BY <1>2, <1>3, <1>4, <1>5

\* What the API server and the users do to the set and the labels.
LEMMA SetStep ==
    ASSUME IInv, SetGoes \/ ChangeTemplate \/ Annotate \/ Delete \/ Relabel
    PROVE  IInv'
<1> USE DEF IInv
<1>1. ASSUME NEW new \in Set \cup {None}, WriteSet(new), requests' \in 0..MaxRequests,
             UNCHANGED <<kind, children, windows, labels, queued, job, faults>>
      PROVE  IInv'
  <2>1. sets' \in Seq(Set \cup {None}) /\ Len(sets') \in 1..(MaxLag + 1)
    BY <1>1, SetWritten
  <2> QED
    BY <1>1, <2>1 DEF TypeOK, WorkHasReference, Referenced, Under, Stored
<1>2. CASE SetGoes
  BY <1>1, <1>2 DEF SetGoes, TypeOK
<1>3. ASSUME NEW request, Asks(request)
      PROVE  requests' \in 0..MaxRequests
  BY <1>3, ChildSetAssumption DEF Asks, TypeOK
<1>4. Stored(sets) # None => Stored(sets) \in Set
  BY Ends
<1>5. CASE ChangeTemplate
  <2>1. PICK template \in Templates :
           EditSet("template", [Stored(sets) EXCEPT !.template = template])
    BY <1>5 DEF ChangeTemplate
  <2>2. Stored(sets) # None
    BY <2>1 DEF EditSet
  <2>3. [Stored(sets) EXCEPT !.template = template] \in Set
    BY <1>4, <2>2 DEF Set
  <2> QED
    BY <1>1, <1>3, <2>1, <2>3 DEF EditSet
<1>6. CASE Annotate
  <2>1. PICK op \in Operations : EditSet("annotate", [Stored(sets) EXCEPT !.op = op])
    BY <1>6 DEF Annotate
  <2>2. Stored(sets) # None
    BY <2>1 DEF EditSet
  <2>3. [Stored(sets) EXCEPT !.op = op] \in Set
    BY <1>4, <2>2 DEF Set
  <2> QED
    BY <1>1, <1>3, <2>1, <2>3 DEF EditSet
<1>7. CASE Delete
  <2>1. Stored(sets) # None
    BY <1>7 DEF Delete, EditSet
  <2>2. [Stored(sets) EXCEPT !.deleting = TRUE] \in Set
    BY <1>4, <2>1 DEF Set
  <2> QED
    BY <1>1, <1>3, <1>7, <2>2 DEF Delete, EditSet
<1>8. CASE Relabel
  <2>1. PICK t \in Relabelled :
           LET new == IF t \in Stored(labels) THEN Stored(labels) \ {t}
                      ELSE Stored(labels) \cup {t}
           IN  Writable(labels, new) /\ labels' = Write(labels, new)
    BY <1>8 DEF Relabel
  <2> DEFINE new == IF t \in Stored(labels) THEN Stored(labels) \ {t}
                    ELSE Stored(labels) \cup {t}
  <2>2. new \in SUBSET Targets
    BY Ends, ChildSetAssumption
  <2>3. Writable(labels, new) /\ labels' = Write(labels, new)
    BY <2>1
  <2> HIDE DEF new
  <2>4. labels' \in Seq(SUBSET Targets) /\ Len(labels') \in 1..(MaxLag + 1)
    BY <2>2, <2>3, LabelsWritten
  <2>5. requests' \in 0..MaxRequests
    BY <1>3, <1>8 DEF Relabel
  <2> QED
    BY <1>8, <2>4, <2>5 DEF Relabel, TypeOK, WorkHasReference, Referenced, Under, Stored
<1> QED
  BY <1>2, <1>5, <1>6, <1>7, <1>8

\* Every step keeps the invariant.
LEMMA Step == IInv /\ [Next]_vars => IInv'
<1> SUFFICES ASSUME IInv, [Next]_vars PROVE IInv'
  OBVIOUS
<1>1. CASE Begin \/ Advance \/ Crash
  BY <1>1, ReconcileStep
<1>2. ASSUME NEW t \in Targets, CallForChild(t) \/ CallFails(t)
      PROVE  IInv'
  BY <1>2, CallStep
<1>3. ASSUME NEW t \in Targets, ChildStep(t)
      PROVE  IInv'
  BY <1>3, ChildStepKeeps
<1>4. CASE DeliverSet \/ DeliverChildren \/ DeliverWindows \/ DeliverLabels
  BY <1>4, DeliveryStep
<1>5. CASE SetGoes \/ ChangeTemplate \/ Annotate \/ Delete \/ Relabel
  BY <1>5, SetStep
<1>6. CASE UNCHANGED vars
  BY <1>6 DEF vars, IInv, TypeOK, WorkHasReference, Referenced, Under, Stored
<1> QED
  BY <1>1, <1>2, <1>3, <1>4, <1>5, <1>6 DEF Next, Work

\* The invariant holds in every behaviour.
LEMMA Invariant == Spec => []IInv
<1> QED
  BY Initially, Step, PTL DEF Spec

\* Every stored and cached object, and the reconcile in progress, has the fields
\* that the five controllers give it, and no watch trails by more than its bound.
THEOREM ChildSetTypes == Spec => []TypeOK
<1>1. IInv => TypeOK
  BY DEF IInv
<1> QED
  BY <1>1, Invariant, PTL

-----------------------------------------------------------------------------
(* The set's controller leaves a child at work alone *)

\* A patch that the webhook of a child at work lets pass does not change what the
\* child is asked for.
LEMMA PatchHarmless ==
    ASSUME IInv, NEW t \in Targets, Stored(children)[t] # None, Stored(children)[t].task,
           ~Refused(t, Stored(children)[t], Patched(t))
    PROVE  /\ Patched(t).spec = Stored(children)[t].spec
           /\ Patched(t).deleting = Stored(children)[t].deleting
<1>1. /\ Stored(children)[t] \in Child /\ Stored(children)[t].refs
      /\ Stored(children)[t].state = "InProgress" /\ Under(t)
  BY StoredChild DEF IInv, WorkHasReference, Referenced
<1>2. Patched(t).deleting = Stored(children)[t].deleting
  BY <1>1 DEF Patched, Child
<1>3. Patched(t).spec = Stored(children)[t].spec
  BY <1>1 DEF Refused, Under
<1> QED
  BY <1>2, <1>3

\* Of the steps of the reconcile only a call for a child changes a child.
LEMMA UndisturbedStep ==
    ASSUME IInv, [Next]_vars, NEW t \in Targets, job # Idle, Stored(children)[t] # None,
           Stored(children)[t].task, job' # job
    PROVE  /\ Stored(children')[t] # None
           /\ Stored(children')[t].spec = Stored(children)[t].spec
           /\ Stored(children')[t].deleting = Stored(children)[t].deleting
<1> DEFINE old == Stored(children)[t]
           new == Stored(children')[t]
<1>1. old \in Child /\ old.refs /\ old.state = "InProgress" /\ Under(t)
  BY StoredChild DEF IInv, WorkHasReference, Referenced
<1>2. CASE UNCHANGED children
  BY <1>2
<1>3. ASSUME NEW other \in Targets, CallForChild(other)
      PROVE  new # None /\ new.spec = old.spec /\ new.deleting = old.deleting
  <2>1. CASE other # t
    <3>1. new = old
      BY <1>3, <2>1, CallOutcome DEF IInv
    <3> QED
      BY <3>1
  <2>2. CASE other = t
    <3>1. \/ new = old
          \/ new = Patched(t) /\ new \in Child /\ ~Refused(t, old, new)
          \/ ~DeletionRefused(t, old)
      BY <1>3, <2>2, CallOutcome DEF IInv
    <3>2. DeletionRefused(t, old)
      BY <1>1 DEF DeletionRefused, Under
    <3>3. new = Patched(t) /\ new \in Child /\ ~Refused(t, old, new) =>
             new # None /\ new.spec = old.spec /\ new.deleting = old.deleting
      BY PatchHarmless, NoneAssumption
    <3> QED
      BY <3>1, <3>2, <3>3
  <2> QED
    BY <2>1, <2>2
<1>4. UNCHANGED children \/ \E other \in Targets : CallForChild(other)
  <2>1. ~ChildStep(t) /\ ~DeliverChildren /\ (\A other \in Targets : ~ChildStep(other))
    BY DEF ChildStep, Rest, DeliverChildren
  <2> QED
    BY <2>1 DEF Next, Work, Begin, Advance, Crash, CallFails, DeliverSet, DeliverWindows,
       DeliverLabels, SetGoes, ChangeTemplate, Annotate, Delete, Relabel, EditSet, vars
<1> QED
  BY <1>2, <1>3, <1>4

\* Whatever the cache shows of a child when the controller decides, and whatever
\* has become of it since: no call of the five set controllers changes the spec
\* of a child whose work on the machine has begun and is not done, or deletes it.
THEOREM SetLeavesWorkAlone == Spec => ChildrenUndisturbed
<1>1. IInv /\ [Next]_vars =>
        [\A t \in Targets :
           LET old == Stored(children)[t]
               new == Stored(children')[t]
           IN  job # Idle /\ job' # job /\ old # None /\ old.task =>
                 new # None /\ new.spec = old.spec /\ new.deleting = old.deleting]_vars
  BY UndisturbedStep
<1> QED
  BY <1>1, Invariant, PTL DEF Spec, ChildrenUndisturbed
=============================================================================
