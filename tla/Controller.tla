---------------------------- MODULE Controller ----------------------------
(***************************************************************************)
(* The reconciler over the DynamicResources of one namespace: the work     *)
(* queue and its timers, the guards of Reconcile in order, who owns a      *)
(* workload when selectors overlap, the status each object publishes, and  *)
(* the pod webhook that reads those statuses.                              *)
(*                                                                         *)
(* One worker reconciles (MaxConcurrentReconciles is 1).  A label selector *)
(* is the set of workloads it matches; a DynamicResource is a number, and  *)
(* numbers are in name order.                                              *)
(***************************************************************************)
EXTENDS Integers

CONSTANTS DRs,        \* names of DynamicResources
          Workloads,  \* names of Deployments
          Specs,      \* specs a user may write: [valid, sel, on]
          InitDRs,    \* what may be present at the start
          Prometheus, \* --prometheus-url was given
          MaxBorn,    \* bound: creation times
          MaxEdits    \* bound: changes by users

None == 0
Validity == {"ok", "bounds", "selector", "prometheus"}
SpecSet == [valid : Validity, sel : SUBSET Workloads, on : BOOLEAN]

ASSUME ControllerAssumption ==
  /\ DRs \subseteq Nat \ {0}
  /\ Specs \subseteq SpecSet
  /\ InitDRs \subseteq [DRs -> [born : Nat, spec : SpecSet]]
  /\ Prometheus \in BOOLEAN
  /\ MaxBorn \in Nat
  /\ MaxEdits \in Nat

VARIABLES dr,       \* API objects: creation time (0 = absent) and spec
          apps,     \* Deployments that exist
          vpa,      \* Deployments a VerticalPodAutoscaler targets
          st,       \* status: Ready's reason, workloads the Conflicted
                    \* condition names, workloads with a recommendation
          queue,    \* the work queue
          timer,    \* RequeueAfter and rate-limited retries not yet due
          cur,      \* the object being reconciled, or None
          step,     \* the read that its reconcile does next, or "pass"
          snap,     \* what it has read so far: creation time and spec of the
                    \* object, workloads matched; and after how many changes by
                    \* users: at the first read, and when the objects were listed
          actor,    \* the object that last acted on a workload's pods
          actedAt,  \* when the reconcile that did so began to read
          edits     \* number of changes made by users

vars == <<dr, apps, vpa, st, queue, timer, cur, step, snap, actor, actedAt, edits>>
cluster == <<dr, apps, vpa, edits>>
flight == <<cur, step, snap>>
pods == <<actor, actedAt>>

Reasons == {"", "InvalidBounds", "InvalidSelector", "Conflicted", "NoMatch",
            "UnsupportedProvider", "MetricsUnavailable", "Reconciled"}
NewStatus == [ready |-> "", named |-> {}, recs |-> {}]
Steps == {"idle", "deployments", "objects", "vpas", "pass"}
NoSpec == [valid |-> "ok", sel |-> {}, on |-> FALSE]
NoSnap == [born |-> 0, spec |-> NoSpec, matched |-> {}, at |-> 0, upto |-> 0]

TypeOK ==
  /\ dr \in [DRs -> [born : Nat, spec : SpecSet]]
  /\ apps \subseteq Workloads
  /\ vpa \subseteq Workloads
  /\ st \in [DRs -> [ready : Reasons, named : SUBSET Workloads, recs : SUBSET Workloads]]
  /\ queue \subseteq DRs
  /\ timer \subseteq DRs
  /\ cur \in DRs \cup {None}
  /\ step \in Steps
  /\ snap \in [born : Nat, spec : SpecSet, matched : SUBSET Workloads,
              at : 0..MaxEdits, upto : 0..MaxEdits]
  /\ actor \in [Workloads -> DRs \cup {None}]
  /\ actedAt \in [Workloads -> 0..MaxEdits]
  /\ edits \in 0..MaxEdits

Exists(d) == dr[d].born # 0

Init ==
  /\ dr \in InitDRs
  /\ apps = Workloads
  /\ vpa = {}
  /\ st = [d \in DRs |-> NewStatus]
  /\ queue = {d \in DRs : Exists(d)}
  /\ timer = {}
  /\ cur = None
  /\ step = "idle"
  /\ snap = NoSnap
  /\ actor = [w \in Workloads |-> None]
  /\ actedAt = [w \in Workloads |-> 0]
  /\ edits = 0

---------------------------------------------------------------------------
(* Ownership.                                                              *)

\* Fault: no tie-break on the name.
OlderThan_NoTieBreak(a, b) == a.born < b.born

OlderThan(a, b) == a.born < b.born \/ (a.born = b.born /\ a.name < b.name)

\* Name and creation time of an object, as it is and as the reconcile has read it.
Key(d) == [name |-> d, born |-> dr[d].born]
CurKey == [name |-> cur, born |-> snap.born]

\* An object whose selector is invalid or empty matches nothing.
Selects(d, w) == Exists(d) /\ dr[d].spec.valid # "selector" /\ w \in dr[d].spec.sel

\* Fault: every overlap counts, whoever came first.
ConflictedWorkloads_Mutual ==
  {w \in snap.matched : \E o \in DRs \ {cur} : Selects(o, w)}

\* Only the selector of the other object counts, not what its status says.
ConflictedWorkloads ==
  {w \in snap.matched : \E o \in DRs \ {cur} : OlderThan(Key(o), CurKey) /\ Selects(o, w)}

VPAConflicts == snap.matched \cap vpa

---------------------------------------------------------------------------
(* The guards of Reconcile.  Each early return patches the status.         *)

\* Patches the status of d.  The patch itself enqueues d again (the watch on
\* DynamicResources has no predicate) when it changes anything; `again' arms
\* the timer.  rest is the queue without the request being handled.
Publish(d, status, changed, again, rest) ==
  /\ st' = [st EXCEPT ![d] = status]
  /\ queue' = IF changed \/ status # st[d] THEN rest \cup {d} ELSE rest
  /\ timer' = IF again THEN timer \cup {d} ELSE timer

\* The reconcile is over.
Done == cur' = None /\ step' = "idle" /\ snap' = NoSnap

Dequeue(d) == cur = None /\ d \in queue

Gone(d) ==
  /\ Dequeue(d) /\ ~Exists(d)
  /\ queue' = queue \ {d}
  /\ UNCHANGED <<cluster, st, timer, flight, pods>>

\* The spec that was read is refused.
Refuse(d, why) ==
  /\ Dequeue(d) /\ Exists(d)
  /\ Publish(d, [st[d] EXCEPT !.ready = why], FALSE, FALSE, queue \ {d})
  /\ UNCHANGED <<cluster, flight, pods>>

RejectBounds(d) == dr[d].spec.valid = "bounds" /\ Refuse(d, "InvalidBounds")

RejectSelector(d) == dr[d].spec.valid = "selector" /\ Refuse(d, "InvalidSelector")

\* Get: the object as it is read now is the one that the reconcile works on.
Get(d) ==
  /\ Dequeue(d) /\ Exists(d) /\ dr[d].spec.valid \in {"ok", "prometheus"}
  /\ cur' = d
  /\ step' = "deployments"
  /\ snap' = [born |-> dr[d].born, spec |-> dr[d].spec, matched |-> {},
              at |-> edits, upto |-> edits]
  /\ queue' = queue \ {d}
  /\ UNCHANGED <<cluster, st, timer, pods>>

Reading(d, what) == cur = d /\ step = what

\* An early return of the object in flight, with a patch.
Return(d, status, again) ==
  /\ Exists(d)
  /\ Publish(d, status, FALSE, again, queue)
  /\ Done /\ UNCHANGED <<cluster, pods>>

\* On to the next read.
Advance(next) == step' = next /\ UNCHANGED <<cluster, cur, st, queue, timer, pods>>

ListDeployments(d) ==
  /\ Reading(d, "deployments")
  /\ snap' = [snap EXCEPT !.matched = apps \cap snap.spec.sel]
  /\ Advance("objects")

\* A failed list of Deployments is reported like an invalid selector, and the
\* object is not requeued.
DeploymentsFail(d) ==
  /\ Reading(d, "deployments")
  /\ Return(d, [st[d] EXCEPT !.ready = "InvalidSelector"], FALSE)

RejectConflict(d) ==
  /\ Reading(d, "objects") /\ ConflictedWorkloads # {}
  /\ Return(d, [st[d] EXCEPT !.ready = "Conflicted", !.named = ConflictedWorkloads], FALSE)

ListObjects(d) ==
  /\ Reading(d, "objects") /\ ConflictedWorkloads = {}
  /\ snap' = [snap EXCEPT !.upto = edits]
  /\ Advance("vpas")

RejectVPA(d) ==
  /\ Reading(d, "vpas") /\ VPAConflicts # {}
  /\ Return(d, [st[d] EXCEPT !.ready = "Conflicted", !.named = VPAConflicts], TRUE)

Unconflicted(d) == Reading(d, "vpas") /\ VPAConflicts = {}

NoMatch(d) ==
  /\ Unconflicted(d) /\ snap.matched = {}
  /\ Return(d, [st[d] EXCEPT !.ready = "NoMatch", !.named = {}], TRUE)

Unsupported == snap.spec.valid = "prometheus" /\ ~Prometheus

RejectProvider(d) ==
  /\ Unconflicted(d) /\ snap.matched # {} /\ Unsupported
  /\ Return(d, [st[d] EXCEPT !.ready = "UnsupportedProvider", !.named = {}], FALSE)

\* All guards passed; from here on the reconcile uses what it has read.
Proceed(d) ==
  /\ Unconflicted(d) /\ snap.matched # {} /\ ~Unsupported
  /\ UNCHANGED snap /\ Advance("pass")

\* A read or the status patch of an early return fails: retried, nothing is
\* published.
GuardFail(d) ==
  /\ \/ Dequeue(d) /\ queue' = queue \ {d} /\ UNCHANGED flight
     \/ cur = d /\ step # "pass" /\ Done /\ UNCHANGED queue
  /\ timer' = timer \cup {d}
  /\ UNCHANGED <<cluster, st, pods>>

---------------------------------------------------------------------------
(* Recommendation and actuation behind the guards.                         *)

\* The workloads recommended for, when metrics cover `has': kept if none.
NewRecs(d, has) == IF has = {} THEN st[d].recs ELSE has

\* actuate may touch the pods of any matched workload with a recommendation.
Touchable(recs) == IF snap.spec.on THEN snap.matched \cap recs ELSE {}

ActOn(d, touched, recs) ==
  /\ touched \subseteq Touchable(recs)
  /\ actor' = [w \in Workloads |-> IF w \in touched THEN d ELSE actor[w]]
  /\ actedAt' = [w \in Workloads |-> IF w \in touched THEN snap.at ELSE actedAt[w]]

Passing(d) == Reading(d, "pass")

Finish == Done /\ UNCHANGED cluster

\* A pass that resized something also changes status.lastResizeTime.
Manage(d, has, touched) ==
  /\ Passing(d) /\ Exists(d)
  /\ ActOn(d, touched, NewRecs(d, has))
  /\ Publish(d, [ready |-> "Reconciled", named |-> {}, recs |-> NewRecs(d, has)],
             touched # {}, TRUE, queue)
  /\ Finish

MetricsFail(d) ==
  /\ Passing(d) /\ Exists(d)
  /\ Publish(d, [st[d] EXCEPT !.ready = "MetricsUnavailable", !.named = {}],
             FALSE, TRUE, queue)
  /\ UNCHANGED <<actor, actedAt>> /\ Finish

\* An error of actuate: the recommendations are published, Ready is not.
ActuateFail(d, has, touched) ==
  /\ Passing(d) /\ Exists(d)
  /\ ActOn(d, touched, NewRecs(d, has))
  /\ Publish(d, [st[d] EXCEPT !.named = {}, !.recs = NewRecs(d, has)], FALSE, TRUE, queue)
  /\ Finish

\* The status patch fails: the object was deleted, or the API server errs.
PatchFail(d, has, touched) ==
  /\ Passing(d)
  /\ ActOn(d, touched, NewRecs(d, has))
  /\ timer' = timer \cup {d}
  /\ UNCHANGED <<st, queue>> /\ Finish

---------------------------------------------------------------------------
(* Events.                                                                 *)

TimerFires(d) ==
  /\ d \in timer
  /\ timer' = timer \ {d}
  /\ queue' = queue \cup {d}
  /\ UNCHANGED <<cluster, st, flight, pods>>

\* The periodic resync of the informers, or an HPA event: every object in the
\* namespace is enqueued.
Resync ==
  /\ queue' = queue \cup {d \in DRs : Exists(d)}
  /\ UNCHANGED <<cluster, st, timer, flight, pods>>

Edit == edits < MaxEdits /\ edits' = edits + 1

\* Creation times have one-second resolution: two objects may share one.
Create(d, s) ==
  /\ Edit /\ ~Exists(d)
  /\ \E t \in 1..MaxBorn :
       /\ \A o \in DRs : dr[o].born <= t
       /\ dr' = [dr EXCEPT ![d] = [born |-> t, spec |-> s]]
  /\ st' = [st EXCEPT ![d] = NewStatus]
  /\ queue' = queue \cup {d}
  /\ UNCHANGED <<apps, vpa, timer, flight, pods>>

EditSpec(d, s) ==
  /\ Edit /\ Exists(d) /\ s # dr[d].spec
  /\ dr' = [dr EXCEPT ![d].spec = s]
  /\ queue' = queue \cup {d}
  /\ UNCHANGED <<apps, vpa, st, timer, flight, pods>>

\* The delete event enqueues the deleted object, and no other.
Delete(d) ==
  /\ Edit /\ Exists(d)
  /\ dr' = [dr EXCEPT ![d].born = 0]
  /\ st' = [st EXCEPT ![d] = NewStatus]
  /\ queue' = queue \cup {d}
  /\ UNCHANGED <<apps, vpa, timer, flight, pods>>

\* A Deployment appears or goes; mapDeploymentToDynamicResources enqueues the
\* objects that select it.
ChangeDeployment(w) ==
  /\ Edit
  /\ apps' = IF w \in apps THEN apps \ {w} ELSE apps \cup {w}
  /\ queue' = queue \cup {d \in DRs : Selects(d, w)}
  /\ UNCHANGED <<dr, vpa, st, timer, flight, pods>>

\* VerticalPodAutoscalers are not watched.
ChangeVPA(w) ==
  /\ Edit
  /\ vpa' = IF w \in vpa THEN vpa \ {w} ELSE vpa \cup {w}
  /\ UNCHANGED <<dr, apps, st, queue, timer, flight, pods>>

\* The objects whose target findRecommendation may inject into a new pod: the
\* first listed one that is not recommend-only and holds a recommendation for
\* the workload; the list has no fixed order.
FindRecommendation(w) == {d \in DRs : Exists(d) /\ dr[d].spec.on /\ w \in st[d].recs}

---------------------------------------------------------------------------
Start(d) == Gone(d) \/ RejectBounds(d) \/ RejectSelector(d) \/ Get(d)

Check(d) == RejectConflict(d) \/ ListObjects(d)

Decide(d) == RejectVPA(d) \/ NoMatch(d) \/ RejectProvider(d) \/ Proceed(d)

Runs(d) == \/ Start(d) \/ ListDeployments(d) \/ Check(d) \/ Decide(d)
           \/ \E has, touched \in SUBSET snap.matched : Manage(d, has, touched)

\* The status patch of the object in flight fails, or one of its reads.
Interrupted(d) == \/ GuardFail(d)
                  \/ \E has, touched \in SUBSET snap.matched : PatchFail(d, has, touched)

\* The object in flight is gone: there is nothing to patch.
Orphaned(d) == ~Exists(d) /\ Interrupted(d)

\* Errors of the API server, of metrics and of actuate.
Fails(d) == \/ Interrupted(d) \/ DeploymentsFail(d) \/ MetricsFail(d)
            \/ \E has, touched \in SUBSET snap.matched : ActuateFail(d, has, touched)

Users == \/ \E d \in DRs : \/ Delete(d)
                           \/ \E s \in Specs : Create(d, s) \/ EditSpec(d, s)
         \/ \E w \in Workloads : ChangeDeployment(w) \/ ChangeVPA(w)

Smooth == \/ \E d \in DRs : Runs(d) \/ Orphaned(d) \/ TimerFires(d)
          \/ Resync
          \/ Users

Next == Smooth \/ \E d \in DRs : Fails(d)

Spec == Init /\ [][Next]_vars

\* The queue is served in order, the worker keeps working, informers resync, and
\* errors cease some day.
Fairness ==
  /\ \A d \in DRs : SF_vars(Start(d))
  /\ WF_vars(\E d \in DRs : Runs(d) \/ Orphaned(d))
  /\ WF_vars(Resync)
  /\ <>[][Smooth]_vars

FairSpec == Spec /\ Fairness

---------------------------------------------------------------------------
(* Properties.                                                             *)

\* The pods of a workload have one master at a time: an object takes them over
\* from another only when users changed the cluster between the first read of the
\* pass that had acted on them and the list of objects that the new one checked.
\* So two objects cannot take turns for ever on a workload that nobody changes,
\* whatever is queued, retried or late (olderThan and conflictedWorkloads, read at
\* the start of a pass and used at its end).
OneMaster ==
  [][\A w \in Workloads : actor[w] # None /\ actor'[w] # actor[w] =>
       actedAt[w] < snap.upto]_vars

Oldest(d) == Exists(d) /\ \A o \in DRs \ {d} : Exists(o) => OlderThan(Key(d), Key(o))

Manageable(d) == /\ Oldest(d) /\ dr[d].spec.valid = "ok"
                 /\ \E w \in apps : Selects(d, w)
                 /\ \A w \in apps : Selects(d, w) => w \notin vpa

\* The oldest object is never starved by the others: if it stays valid, with a
\* match and without a VPA, it becomes and stays Ready up to metrics errors,
\* even when it was Conflicted before an older object was deleted.
OldestManages ==
  \A d \in DRs : <>[]Manageable(d) =>
    /\ []<>(st[d].ready = "Reconciled")
    /\ <>[](st[d].ready # "Conflicted")

\* The webhook injects the recommendation of the object that manages the
\* Deployment: never one that was told to take no action.
InjectedByManager ==
  \A w \in apps : \A d \in FindRecommendation(w) : st[d].ready # "Conflicted"
============================================================================
