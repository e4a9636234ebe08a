-------------------------- MODULE ControllerProofs --------------------------
(***************************************************************************)
(* Ownership of workloads for any number of DynamicResources, Deployments  *)
(* and changes by users: who passes the guards of Reconcile owns what it   *)
(* has matched, and there is one owner at a time.                          *)
(***************************************************************************)
EXTENDS Controller, TLAPS

\* d selects w, and no older object does.
Owns(d, w) ==
  Selects(d, w) /\ \A o \in DRs \ {d} : Selects(o, w) => ~OlderThan(Key(o), Key(d))

\* Who last acted on a workload owns it, unless users have changed the cluster
\* since its reconcile began to read.
Acted == \A w \in Workloads :
  /\ actedAt[w] <= edits
  /\ actor[w] # None /\ actedAt[w] = edits => Owns(actor[w], w)

\* What the reconcile in flight has read is what is there, unless users have
\* changed the cluster since it began.  Nobody has acted since.
HasRead ==
  /\ snap.at <= snap.upto /\ snap.upto <= edits
  /\ \A w \in Workloads : actedAt[w] <= snap.at
  /\ snap.matched \subseteq snap.spec.sel /\ snap.spec.valid # "selector"
  /\ snap.at = edits => /\ Exists(cur)
                        /\ dr[cur].born = snap.born /\ dr[cur].spec = snap.spec

\* Past the list of objects it owns what it has matched, with the same proviso;
\* and whoever else acted on that began to read before the list.
HasChecked == \A w \in snap.matched :
  /\ snap.at = edits => Owns(cur, w)
  /\ actor[w] \notin {None, cur} => actedAt[w] < snap.upto

Ownership == /\ Acted
             /\ cur # None => HasRead
             /\ cur # None /\ step \in {"vpas", "pass"} => HasChecked

Inv == TypeOK /\ Ownership

---------------------------------------------------------------------------
(* The order of objects.                                                   *)

\* No object is named like the absence of one.
LEMMA NoneIsNoObject == None \notin DRs
BY ControllerAssumption DEF None

\* Creation time and name order any two objects.
LEMMA OlderThanTotal ==
  ASSUME TypeOK, NEW a \in DRs, NEW b \in DRs, a # b
  PROVE  OlderThan(Key(a), Key(b)) \/ OlderThan(Key(b), Key(a))
<1>1. a \in Nat /\ b \in Nat
  BY ControllerAssumption
<1>2. dr[a].born \in Nat /\ dr[b].born \in Nat
  BY DEF TypeOK
<1> QED
  BY <1>1, <1>2 DEF OlderThan, Key

\* A workload has at most one owner.
LEMMA OneOwner ==
  ASSUME TypeOK, NEW a \in DRs, NEW b \in DRs, NEW w, Owns(a, w), Owns(b, w)
  PROVE  a = b
BY OlderThanTotal DEF Owns

\* Ownership depends on the objects only.
LEMMA OwnsFramed ==
  ASSUME UNCHANGED dr, NEW d, NEW w
  PROVE  Owns(d, w)' <=> Owns(d, w)
BY DEF Owns, Selects, Exists, OlderThan, Key

---------------------------------------------------------------------------
(* Types.                                                                  *)

\* The conjuncts of TypeOK about the cluster, the controller and the pods.
ClusterTypes == /\ dr \in [DRs -> [born : Nat, spec : SpecSet]]
                /\ apps \subseteq Workloads /\ vpa \subseteq Workloads
                /\ edits \in 0..MaxEdits
StatusSet == [ready : Reasons, named : SUBSET Workloads, recs : SUBSET Workloads]
QueueTypes == /\ st \in [DRs -> StatusSet]
              /\ queue \subseteq DRs /\ timer \subseteq DRs
SnapSet == [born : Nat, spec : SpecSet, matched : SUBSET Workloads,
            at : 0..MaxEdits, upto : 0..MaxEdits]
FlightTypes == cur \in DRs \cup {None} /\ step \in Steps /\ snap \in SnapSet
PodTypes == /\ actor \in [Workloads -> DRs \cup {None}]
            /\ actedAt \in [Workloads -> 0..MaxEdits]

LEMMA TypeParts == TypeOK <=> ClusterTypes /\ QueueTypes /\ FlightTypes /\ PodTypes
BY DEF TypeOK, ClusterTypes, QueueTypes, FlightTypes, PodTypes, StatusSet, SnapSet

\* The same of the next state.
LEMMA TypePartsNext ==
  ClusterTypes' /\ QueueTypes' /\ FlightTypes' /\ PodTypes' => TypeOK'
BY DEF TypeOK, ClusterTypes, QueueTypes, FlightTypes, PodTypes, StatusSet, SnapSet

\* The numbers of changes are numbers.
LEMMA EditNumbers ==
  ASSUME TypeOK
  PROVE  /\ edits \in Nat /\ snap.at \in Nat /\ snap.upto \in Nat
         /\ \A w \in Workloads : actedAt[w] \in Nat
BY ControllerAssumption DEF TypeOK

\* Publishing a status keeps the types of queue and timers.
LEMMA PublishTypes ==
  ASSUME QueueTypes, NEW d \in DRs, NEW status \in StatusSet, NEW changed, NEW again,
         NEW rest, rest \subseteq DRs, Publish(d, status, changed, again, rest)
  PROVE  QueueTypes'
BY DEF QueueTypes, Publish

\* What a reconcile names in a conflict are workloads.
LEMMA ConflictTypes ==
  ASSUME TypeOK
  PROVE  /\ ConflictedWorkloads \subseteq Workloads
         /\ VPAConflicts \subseteq Workloads
BY DEF TypeOK, ConflictedWorkloads, VPAConflicts

---------------------------------------------------------------------------
(* The steps.                                                              *)

\* Initially nothing is in flight and nobody has acted.
LEMMA InvInit == Init => Inv
<1> SUFFICES ASSUME Init PROVE Inv
  OBVIOUS
<1>1. ClusterTypes
  BY ControllerAssumption DEF Init, ClusterTypes
<1>2. QueueTypes
  BY DEF Init, QueueTypes, NewStatus, StatusSet, Reasons
<1>3. FlightTypes /\ PodTypes
  BY ControllerAssumption
  DEF Init, FlightTypes, PodTypes, NoSnap, NoSpec, SnapSet, SpecSet, Validity, Steps
<1>4. Ownership
  BY ControllerAssumption DEF Init, Ownership, Acted
<1> QED
  BY <1>1, <1>2, <1>3, <1>4, TypeParts DEF Inv

\* Steps that touch neither cluster, flight nor pods keep the invariant.
LEMMA QuietStep ==
  ASSUME Inv, QueueTypes', UNCHANGED <<cluster, flight, pods>>
  PROVE  Inv'
<1>1. UNCHANGED <<dr, apps, vpa, edits, cur, step, snap, actor, actedAt>>
  BY DEF cluster, flight, pods
<1>2. ClusterTypes' /\ FlightTypes' /\ PodTypes'
  BY <1>1, TypeParts DEF Inv, ClusterTypes, FlightTypes, PodTypes
<1>3. Acted' /\ (cur # None => HasRead') /\ (cur # None /\ step \in {"vpas", "pass"} => HasChecked')
  BY <1>1, OwnsFramed DEF Inv, Ownership, Acted, HasRead, HasChecked, Exists
<1> QED
  BY <1>1, <1>2, <1>3, TypePartsNext DEF Inv, Ownership

\* So do those that end a reconcile without acting.
LEMMA DoneStep ==
  ASSUME Inv, QueueTypes', Done, UNCHANGED <<cluster, pods>>
  PROVE  Inv'
<1>1. UNCHANGED <<dr, apps, vpa, edits, actor, actedAt>> /\ cur' = None
  BY DEF cluster, pods, Done
<1>2. ClusterTypes' /\ PodTypes'
  BY <1>1, TypeParts DEF Inv, ClusterTypes, PodTypes
<1>3. FlightTypes'
  BY ControllerAssumption
  DEF Done, FlightTypes, NoSnap, NoSpec, SnapSet, SpecSet, Validity, Steps
<1>4. Acted'
  BY <1>1, OwnsFramed DEF Inv, Ownership, Acted
<1> QED
  BY <1>1, <1>2, <1>3, <1>4, TypePartsNext DEF Inv, Ownership

\* A change by users makes every read one of an earlier cluster.
LEMMA EditStep ==
  ASSUME Inv, Edit, ClusterTypes', QueueTypes', UNCHANGED <<flight, pods>>
  PROVE  Inv'
<1>1. UNCHANGED <<cur, step, snap, actor, actedAt>> /\ edits' = edits + 1
  BY DEF flight, pods, Edit
<1>2. FlightTypes' /\ PodTypes'
  BY <1>1, TypeParts DEF Inv, FlightTypes, PodTypes
<1>3. /\ edits \in Nat /\ snap.at \in Nat /\ snap.upto \in Nat
      /\ \A w \in Workloads : actedAt[w] \in Nat
  BY EditNumbers DEF Inv
<1>4. Acted'
  BY <1>1, <1>3 DEF Inv, Ownership, Acted
<1>5. ASSUME cur # None
      PROVE  HasRead' /\ snap'.at # edits'
  BY <1>1, <1>3, <1>5 DEF Inv, Ownership, HasRead
<1>6. ASSUME cur # None, step \in {"vpas", "pass"}
      PROVE  HasChecked'
  BY <1>1, <1>5, <1>6 DEF Inv, Ownership, HasChecked
<1> QED
  BY <1>1, <1>2, <1>4, <1>5, <1>6, TypePartsNext DEF Inv, Ownership

\* A reconcile begins: what it reads is what is there.
LEMMA GetStep ==
  ASSUME Inv, NEW d \in DRs, Get(d)
  PROVE  Inv'
<1>1. TypeOK /\ ClusterTypes /\ QueueTypes /\ PodTypes
  BY TypeParts DEF Inv
<1>2. /\ cur' = d /\ step' = "deployments" /\ queue' = queue \ {d}
      /\ snap' = [born |-> dr[d].born, spec |-> dr[d].spec, matched |-> {},
                  at |-> edits, upto |-> edits]
      /\ UNCHANGED <<dr, apps, vpa, edits, st, timer, actor, actedAt>>
      /\ Exists(d) /\ dr[d].spec.valid # "selector"
  BY DEF Get, cluster, pods
<1>3. ClusterTypes' /\ QueueTypes' /\ PodTypes'
  BY <1>1, <1>2 DEF ClusterTypes, QueueTypes, PodTypes
<1>4. FlightTypes'
  BY <1>1, <1>2 DEF ClusterTypes, FlightTypes, SnapSet, Steps
<1>5. Acted'
  BY <1>2, OwnsFramed DEF Inv, Ownership, Acted
<1>6. HasRead'
  BY <1>1, <1>2, EditNumbers DEF Inv, Ownership, Acted, HasRead, Exists
<1> QED
  BY <1>2, <1>3, <1>4, <1>5, <1>6, TypePartsNext DEF Inv, Ownership

\* What the selector that was read matches.
LEMMA ListDeploymentsStep ==
  ASSUME Inv, NEW d \in DRs, ListDeployments(d)
  PROVE  Inv'
<1>1. TypeOK /\ ClusterTypes /\ QueueTypes /\ FlightTypes /\ PodTypes
  BY TypeParts DEF Inv
<1>2. /\ cur = d /\ step' = "objects"
      /\ snap' = [snap EXCEPT !.matched = apps \cap snap.spec.sel]
      /\ UNCHANGED <<dr, apps, vpa, edits, cur, st, queue, timer, actor, actedAt>>
  BY DEF ListDeployments, Reading, Advance, cluster, pods
<1>3. ClusterTypes' /\ QueueTypes' /\ PodTypes'
  BY <1>1, <1>2 DEF ClusterTypes, QueueTypes, PodTypes
<1>4. FlightTypes'
  BY <1>1, <1>2 DEF ClusterTypes, FlightTypes, SnapSet, Steps
<1>5. Acted'
  BY <1>2, OwnsFramed DEF Inv, Ownership, Acted
<1>6. HasRead'
  <2>1. HasRead
    BY <1>2, NoneIsNoObject DEF Inv, Ownership
  <2>2. /\ snap'.matched \subseteq snap'.spec.sel /\ snap'.at = snap.at
        /\ snap'.upto = snap.upto /\ snap'.born = snap.born /\ snap'.spec = snap.spec
    BY <1>1, <1>2 DEF FlightTypes, SnapSet
  <2> QED
    BY <1>2, <2>1, <2>2 DEF HasRead, Exists
<1> QED
  BY <1>2, <1>3, <1>4, <1>5, <1>6, TypePartsNext DEF Inv, Ownership

\* If users have changed nothing since the reconcile began, no conflict means
\* ownership of what it has matched.
LEMMA CheckOwns ==
  ASSUME TypeOK, cur \in DRs, HasRead, ConflictedWorkloads = {}, snap.at = edits,
         NEW w \in snap.matched
  PROVE  Owns(cur, w)
<1>1. Selects(cur, w)
  BY DEF HasRead, Selects
<1>2. CurKey = Key(cur)
  BY DEF HasRead, CurKey, Key
<1>3. ASSUME NEW o \in DRs \ {cur}, Selects(o, w)
      PROVE  ~OlderThan(Key(o), Key(cur))
  BY <1>2, <1>3 DEF ConflictedWorkloads
<1> QED
  BY <1>1, <1>3 DEF Owns

\* The objects are listed and none is in conflict.
LEMMA ListObjectsStep ==
  ASSUME Inv, NEW d \in DRs, ListObjects(d)
  PROVE  Inv'
<1>1. TypeOK /\ ClusterTypes /\ QueueTypes /\ FlightTypes /\ PodTypes
  BY TypeParts DEF Inv
<1>2. /\ cur = d /\ step' = "vpas" /\ ConflictedWorkloads = {}
      /\ snap' = [snap EXCEPT !.upto = edits]
      /\ UNCHANGED <<dr, apps, vpa, edits, cur, st, queue, timer, actor, actedAt>>
  BY DEF ListObjects, Reading, Advance, cluster, pods
<1>3. ClusterTypes' /\ QueueTypes' /\ PodTypes'
  BY <1>1, <1>2 DEF ClusterTypes, QueueTypes, PodTypes
<1>4. FlightTypes'
  BY <1>1, <1>2 DEF ClusterTypes, FlightTypes, SnapSet, Steps
<1>5. Acted /\ Acted' /\ HasRead
  BY <1>2, OwnsFramed, NoneIsNoObject DEF Inv, Ownership, Acted
<1>6. /\ snap'.matched = snap.matched /\ snap'.at = snap.at /\ snap'.upto = edits
      /\ snap'.born = snap.born /\ snap'.spec = snap.spec
  BY <1>1, <1>2 DEF FlightTypes, SnapSet
<1>7. /\ edits \in Nat /\ snap.at \in Nat /\ snap.upto \in Nat
      /\ \A w \in Workloads : actedAt[w] \in Nat
  BY <1>1, EditNumbers
<1>8. HasRead'
  <2>1. snap'.at <= snap'.upto /\ snap'.upto <= edits'
    BY <1>2, <1>5, <1>6, <1>7 DEF HasRead
  <2> QED
    BY <1>2, <1>5, <1>6, <2>1 DEF HasRead, Exists
<1>9. ASSUME NEW w \in snap.matched, actor[w] \notin {None, cur}
      PROVE  actedAt[w] < edits
  <2>1. w \in Workloads /\ actor[w] \in DRs /\ actedAt[w] <= snap.at /\ snap.at <= edits
    BY <1>1, <1>5, <1>7, <1>9 DEF FlightTypes, SnapSet, PodTypes, HasRead
  <2>2. CASE actedAt[w] = edits
    <3>1. snap.at = edits
      BY <1>7, <2>1, <2>2
    <3>2. Owns(cur, w) /\ Owns(actor[w], w)
      BY <1>1, <1>2, <1>5, <1>9, <2>1, <2>2, <3>1, CheckOwns DEF Acted
    <3> QED
      BY <1>1, <1>2, <1>9, <2>1, <3>2, OneOwner
  <2>3. CASE actedAt[w] # edits
    BY <1>7, <2>1, <2>3
  <2> QED
    BY <2>2, <2>3
<1>10. ASSUME NEW w \in snap.matched, snap.at = edits
       PROVE  Owns(cur, w)
  BY <1>1, <1>2, <1>5, <1>10, CheckOwns
<1>11. HasChecked'
  BY <1>2, <1>6, <1>9, <1>10, OwnsFramed DEF HasChecked
<1> QED
  BY <1>2, <1>3, <1>4, <1>5, <1>8, <1>11, TypePartsNext DEF Inv, Ownership

\* The guards are over: nothing that has been read changes.
LEMMA ProceedStep ==
  ASSUME Inv, NEW d \in DRs, Proceed(d)
  PROVE  Inv'
<1>1. TypeOK /\ ClusterTypes /\ QueueTypes /\ FlightTypes /\ PodTypes
  BY TypeParts DEF Inv
<1>2. /\ cur = d /\ step = "vpas" /\ step' = "pass"
      /\ UNCHANGED <<dr, apps, vpa, edits, cur, snap, st, queue, timer, actor, actedAt>>
  BY DEF Proceed, Unconflicted, Reading, Advance, cluster, pods
<1>3. ClusterTypes' /\ QueueTypes' /\ PodTypes' /\ FlightTypes'
  BY <1>1, <1>2 DEF ClusterTypes, QueueTypes, PodTypes, FlightTypes, Steps
<1>4. Acted /\ HasRead /\ HasChecked
  BY <1>2, NoneIsNoObject DEF Inv, Ownership
<1>5. Acted' /\ HasRead' /\ HasChecked'
  BY <1>2, <1>4, OwnsFramed DEF Acted, HasRead, HasChecked, Exists
<1> QED
  BY <1>3, <1>5, TypePartsNext DEF Inv, Ownership

\* A returned status, and a request that has been taken from the queue.
LEMMA ReturnStep ==
  ASSUME Inv, NEW d \in DRs, NEW status \in StatusSet, NEW again, Return(d, status, again)
  PROVE  Inv'
<1>1. QueueTypes
  BY TypeParts DEF Inv
<1>2. QueueTypes'
  BY <1>1, PublishTypes DEF Return, QueueTypes
<1> QED
  BY <1>2, DoneStep DEF Return

LEMMA RefuseStep ==
  ASSUME Inv, NEW d \in DRs, NEW why \in Reasons, Refuse(d, why)
  PROVE  Inv'
<1>1. QueueTypes /\ queue \ {d} \subseteq DRs /\ st[d] \in StatusSet
  BY TypeParts DEF Inv, QueueTypes
<1>2. [st[d] EXCEPT !.ready = why] \in StatusSet
  BY <1>1 DEF StatusSet
<1>3. QueueTypes'
  BY <1>1, <1>2, PublishTypes DEF Refuse
<1> QED
  BY <1>3, QuietStep DEF Refuse

\* The steps of Reconcile that end early.
LEMMA EarlyReturns ==
  ASSUME Inv, NEW d \in DRs,
         \/ Gone(d) \/ RejectBounds(d) \/ RejectSelector(d) \/ DeploymentsFail(d)
         \/ RejectConflict(d) \/ RejectVPA(d) \/ NoMatch(d) \/ RejectProvider(d)
         \/ GuardFail(d)
  PROVE  Inv'
<1>1. TypeOK /\ QueueTypes /\ st[d] \in StatusSet
  BY TypeParts DEF Inv, QueueTypes
<1>2. CASE Gone(d)
  <2>1. QueueTypes'
    BY <1>1, <1>2 DEF Gone, QueueTypes
  <2> QED
    BY <1>2, <2>1, QuietStep DEF Gone
<1>3. CASE GuardFail(d)
  <2>1. QueueTypes'
    BY <1>1, <1>3 DEF GuardFail, QueueTypes
  <2> QED
    BY <1>3, <2>1, QuietStep, DoneStep DEF GuardFail
<1>4. CASE RejectBounds(d) \/ RejectSelector(d)
  BY <1>4, RefuseStep DEF RejectBounds, RejectSelector, Reasons
<1>5. CASE DeploymentsFail(d)
  <2>1. [st[d] EXCEPT !.ready = "InvalidSelector"] \in StatusSet
    BY <1>1 DEF StatusSet, Reasons
  <2> QED
    BY <1>5, <2>1, ReturnStep DEF DeploymentsFail
<1>6. CASE RejectConflict(d)
  <2>1. [st[d] EXCEPT !.ready = "Conflicted", !.named = ConflictedWorkloads] \in StatusSet
    BY <1>1, ConflictTypes DEF StatusSet, Reasons
  <2> QED
    BY <1>6, <2>1, ReturnStep DEF RejectConflict
<1>7. CASE RejectVPA(d)
  <2>1. [st[d] EXCEPT !.ready = "Conflicted", !.named = VPAConflicts] \in StatusSet
    BY <1>1, ConflictTypes DEF StatusSet, Reasons
  <2> QED
    BY <1>7, <2>1, ReturnStep DEF RejectVPA
<1>8. CASE NoMatch(d)
  <2>1. [st[d] EXCEPT !.ready = "NoMatch", !.named = {}] \in StatusSet
    BY <1>1 DEF StatusSet, Reasons
  <2> QED
    BY <1>8, <2>1, ReturnStep DEF NoMatch
<1>9. CASE RejectProvider(d)
  <2>1. [st[d] EXCEPT !.ready = "UnsupportedProvider", !.named = {}] \in StatusSet
    BY <1>1 DEF StatusSet, Reasons
  <2> QED
    BY <1>9, <2>1, ReturnStep DEF RejectProvider
<1> QED
  BY <1>2, <1>3, <1>4, <1>5, <1>6, <1>7, <1>8, <1>9

\* A pass acts only on workloads it has matched, under the stamp of its read.
LEMMA ActOnFacts ==
  ASSUME Inv, NEW d \in DRs, cur = d, NEW touched, NEW recs, ActOn(d, touched, recs),
         NEW w \in Workloads
  PROVE  \/ /\ w \in snap.matched
            /\ actor'[w] = cur /\ actedAt'[w] = snap.at
         \/ actor'[w] = actor[w] /\ actedAt'[w] = actedAt[w]
BY DEF ActOn, Touchable

\* The end of a pass: whatever it acted on it owns, if nothing has changed.
LEMMA FinishStep ==
  ASSUME Inv, NEW d \in DRs, Passing(d), NEW touched, NEW recs, ActOn(d, touched, recs),
         Finish, QueueTypes'
  PROVE  Inv'
<1>1. ClusterTypes /\ FlightTypes /\ PodTypes /\ TypeOK
  BY TypeParts DEF Inv
<1>2. /\ cur = d /\ cur' = None /\ snap' = NoSnap /\ step' = "idle"
      /\ UNCHANGED <<dr, apps, vpa, edits>>
  BY DEF Passing, Reading, Finish, Done, cluster
<1>3. PodTypes'
  <2>1. snap.at \in 0..MaxEdits
    BY <1>1 DEF FlightTypes, SnapSet
  <2> QED
    BY <1>1, <2>1 DEF ActOn, PodTypes
<1>4. ClusterTypes' /\ FlightTypes'
  BY <1>1, <1>2, ControllerAssumption
  DEF ClusterTypes, FlightTypes, NoSnap, NoSpec, SnapSet, SpecSet, Validity, Steps
<1>5. Acted /\ HasRead /\ HasChecked
  BY <1>2, NoneIsNoObject DEF Inv, Ownership, Passing, Reading
<1>6. snap.at <= edits
  BY <1>1, <1>5, EditNumbers DEF HasRead
<1>7. Acted'
  BY <1>2, <1>5, <1>6, ActOnFacts, OwnsFramed DEF Acted, HasChecked
<1> QED
  BY <1>2, <1>3, <1>4, <1>7, TypePartsNext DEF Inv, Ownership

\* Every way a pass ends.
Work(d) == \/ MetricsFail(d)
           \/ \E has, touched \in SUBSET snap.matched :
                \/ Manage(d, has, touched)
                \/ ActuateFail(d, has, touched)
                \/ PatchFail(d, has, touched)

\* Every step of a pass past the guards.
LEMMA WorkStep ==
  ASSUME Inv, NEW d \in DRs, Work(d)
  PROVE  Inv'
<1>1. QueueTypes /\ FlightTypes /\ st[d] \in StatusSet /\ st[d].recs \subseteq Workloads
  BY TypeParts DEF Inv, QueueTypes, StatusSet
<1>2. CASE MetricsFail(d)
  <2>1. [st[d] EXCEPT !.ready = "MetricsUnavailable", !.named = {}] \in StatusSet
    BY <1>1 DEF StatusSet, Reasons
  <2>2. QueueTypes'
    BY <1>1, <1>2, <2>1, PublishTypes DEF MetricsFail, QueueTypes
  <2>3. Passing(d) /\ Finish /\ ActOn(d, {}, {})
    <3>1. actor' = actor /\ actedAt' = actedAt /\ PodTypes
      BY <1>2, TypeParts DEF MetricsFail, Inv
    <3>2. /\ actor' = [w \in Workloads |-> IF w \in {} THEN d ELSE actor[w]]
          /\ actedAt' = [w \in Workloads |-> IF w \in {} THEN snap.at ELSE actedAt[w]]
      BY <3>1 DEF PodTypes
    <3> QED
      BY <1>2, <3>2 DEF MetricsFail, ActOn
  <2> QED
    BY <2>2, <2>3, FinishStep
<1>3. ASSUME NEW has \in SUBSET snap.matched, NEW touched \in SUBSET snap.matched,
             \/ Manage(d, has, touched) \/ ActuateFail(d, has, touched)
             \/ PatchFail(d, has, touched)
      PROVE  Inv'
  <2>1. NewRecs(d, has) \subseteq Workloads
    BY <1>1 DEF NewRecs, FlightTypes, SnapSet
  <2>2. /\ [ready |-> "Reconciled", named |-> {}, recs |-> NewRecs(d, has)] \in StatusSet
        /\ [st[d] EXCEPT !.named = {}, !.recs = NewRecs(d, has)] \in StatusSet
    BY <1>1, <2>1 DEF StatusSet, Reasons
  <2>3. CASE Manage(d, has, touched)
    <3>1. QueueTypes'
      BY <1>1, <2>2, <2>3, PublishTypes DEF Manage, QueueTypes
    <3> QED
      BY <2>3, <3>1, FinishStep DEF Manage
  <2>4. CASE ActuateFail(d, has, touched)
    <3>1. QueueTypes'
      BY <1>1, <2>2, <2>4, PublishTypes DEF ActuateFail, QueueTypes
    <3> QED
      BY <2>4, <3>1, FinishStep DEF ActuateFail
  <2>5. CASE PatchFail(d, has, touched)
    <3>1. QueueTypes'
      BY <1>1, <2>5 DEF PatchFail, QueueTypes
    <3> QED
      BY <2>5, <3>1, FinishStep DEF PatchFail
  <2> QED
    BY <1>3, <2>3, <2>4, <2>5
<1> QED
  BY <1>2, <1>3 DEF Work

\* Every change that users make.
LEMMA UsersStep ==
  ASSUME Inv, Users
  PROVE  Inv'
<1>1. ClusterTypes /\ QueueTypes
  BY TypeParts DEF Inv
<1>2. Edit => edits' \in 0..MaxEdits
  BY <1>1, ControllerAssumption DEF Edit, ClusterTypes
<1>3. NewStatus \in StatusSet
  BY DEF NewStatus, StatusSet, Reasons
<1>4. ASSUME NEW d \in DRs, Delete(d)
      PROVE  Inv'
  <2>1. ClusterTypes'
    BY <1>1, <1>2, <1>4 DEF Delete, ClusterTypes
  <2>2. QueueTypes'
    BY <1>1, <1>3, <1>4 DEF Delete, QueueTypes
  <2> QED
    BY <1>4, <2>1, <2>2, EditStep DEF Delete
<1>5. ASSUME NEW d \in DRs, NEW s \in Specs, Create(d, s)
      PROVE  Inv'
  <2>1. PICK t \in 1..MaxBorn : dr' = [dr EXCEPT ![d] = [born |-> t, spec |-> s]]
    BY <1>5 DEF Create
  <2>2. ClusterTypes'
    BY <1>1, <1>2, <1>5, <2>1, ControllerAssumption DEF Create, ClusterTypes
  <2>3. QueueTypes'
    BY <1>1, <1>3, <1>5 DEF Create, QueueTypes
  <2> QED
    BY <1>5, <2>2, <2>3, EditStep DEF Create
<1>6. ASSUME NEW d \in DRs, NEW s \in Specs, EditSpec(d, s)
      PROVE  Inv'
  <2>1. ClusterTypes'
    BY <1>1, <1>2, <1>6, ControllerAssumption DEF EditSpec, ClusterTypes
  <2>2. QueueTypes'
    BY <1>1, <1>6 DEF EditSpec, QueueTypes
  <2> QED
    BY <1>6, <2>1, <2>2, EditStep DEF EditSpec
<1>7. ASSUME NEW w \in Workloads, ChangeDeployment(w) \/ ChangeVPA(w)
      PROVE  Inv'
  <2>1. ClusterTypes'
    BY <1>1, <1>2, <1>7 DEF ChangeDeployment, ChangeVPA, ClusterTypes
  <2>2. QueueTypes'
    BY <1>1, <1>7 DEF ChangeDeployment, ChangeVPA, QueueTypes
  <2> QED
    BY <1>7, <2>1, <2>2, EditStep DEF ChangeDeployment, ChangeVPA
<1> QED
  BY <1>4, <1>5, <1>6, <1>7 DEF Users

\* The steps there are.
LEMMA Actions ==
  Next => \/ \E d \in DRs : \/ Gone(d) \/ RejectBounds(d) \/ RejectSelector(d)
                            \/ DeploymentsFail(d) \/ RejectConflict(d) \/ RejectVPA(d)
                            \/ NoMatch(d) \/ RejectProvider(d) \/ GuardFail(d)
          \/ \E d \in DRs : \/ Get(d) \/ ListDeployments(d) \/ ListObjects(d)
                            \/ Proceed(d) \/ Work(d) \/ TimerFires(d)
          \/ Resync \/ Users
BY DEF Next, Smooth, Runs, Orphaned, Fails, Interrupted, Start, Check, Decide, Work

\* Every step keeps the invariant.
LEMMA InvStep == Inv /\ [Next]_vars => Inv'
<1> SUFFICES ASSUME Inv, [Next]_vars PROVE Inv'
  OBVIOUS
<1>1. QueueTypes
  BY TypeParts DEF Inv
<1>2. ASSUME NEW d \in DRs, TimerFires(d)
      PROVE  Inv'
  <2>1. QueueTypes'
    BY <1>1, <1>2 DEF TimerFires, QueueTypes
  <2> QED
    BY <1>2, <2>1, QuietStep DEF TimerFires
<1>3. CASE Resync
  <2>1. QueueTypes'
    BY <1>1, <1>3 DEF Resync, QueueTypes
  <2> QED
    BY <1>3, <2>1, QuietStep DEF Resync
<1>4. CASE UNCHANGED vars
  <2>1. QueueTypes'
    BY <1>1, <1>4 DEF vars, QueueTypes
  <2> QED
    BY <1>4, <2>1, QuietStep DEF vars, cluster, flight, pods
<1> QED
  BY <1>2, <1>3, <1>4, Actions, EarlyReturns, GetStep, ListDeploymentsStep, ListObjectsStep,
     ProceedStep, WorkStep, UsersStep

\* The invariant holds in every reachable state.
LEMMA Invariance == Spec => []Inv
BY InvInit, InvStep, PTL DEF Spec

---------------------------------------------------------------------------
(* Theorems.                                                               *)

\* The variables of cluster, queue, reconcile and pods keep their types.
THEOREM TypeCorrect == Spec => []TypeOK
<1>1. Inv => TypeOK
  BY DEF Inv
<1> QED
  BY <1>1, Invariance, PTL

\* For any number of objects with any selectors, and any interleaving of users,
\* reads, retries and passes: the pods of a workload change hands only when users
\* changed the cluster between the first read of the pass that had acted and the
\* list of objects of the pass that takes over.
THEOREM OneMasterHolds == Spec => OneMaster
<1>1. Inv /\ [Next]_vars =>
        [\A w \in Workloads : actor[w] # None /\ actor'[w] # actor[w] =>
           actedAt[w] < snap.upto]_vars
  <2> SUFFICES ASSUME Inv, Next, NEW w \in Workloads, actor[w] # None, actor'[w] # actor[w]
               PROVE  actedAt[w] < snap.upto
    OBVIOUS
  <2>1. ASSUME NEW d \in DRs, Passing(d), NEW touched, NEW recs, ActOn(d, touched, recs)
        PROVE  actedAt[w] < snap.upto
    <3>1. cur = d /\ HasChecked
      BY <2>1, NoneIsNoObject DEF Inv, Ownership, Passing, Reading
    <3>2. w \in snap.matched /\ actor'[w] = cur
      BY <2>1, <3>1, ActOnFacts
    <3> QED
      BY <3>1, <3>2 DEF HasChecked
  <2>2. ASSUME NEW d \in DRs, Work(d)
        PROVE  actedAt[w] < snap.upto
    <3>1. ~MetricsFail(d)
      BY DEF MetricsFail
    <3> QED
      BY <2>1, <2>2, <3>1 DEF Work, Manage, ActuateFail, PatchFail
  <2>3. ASSUME NEW d \in DRs,
               \/ Gone(d) \/ RejectBounds(d) \/ RejectSelector(d) \/ DeploymentsFail(d)
               \/ RejectConflict(d) \/ RejectVPA(d) \/ NoMatch(d) \/ RejectProvider(d)
               \/ GuardFail(d) \/ Get(d) \/ ListDeployments(d) \/ ListObjects(d)
               \/ Proceed(d) \/ TimerFires(d)
        PROVE  actor' = actor
    BY <2>3 DEF Gone, RejectBounds, RejectSelector, Refuse, DeploymentsFail, RejectConflict,
                RejectVPA, NoMatch, RejectProvider, Return, GuardFail, Get, ListDeployments,
                ListObjects, Proceed, Advance, TimerFires, pods
  <2>4. ASSUME Resync \/ Users
        PROVE  actor' = actor
    BY <2>4 DEF Resync, Users, Delete, Create, EditSpec, ChangeDeployment, ChangeVPA, pods
  <2> QED
    BY <2>2, <2>3, <2>4, Actions
<1> QED
  BY <1>1, Invariance, PTL DEF Spec, OneMaster
============================================================================
