---------------------------- MODULE Actuation ----------------------------
(***************************************************************************)
(* The actuation loop of one DynamicResource: the walk of actuate over the *)
(* matched workloads and their pods, the cooldown tracker it consults and  *)
(* stamps, and everything that ends a pass early.  What a pod needs is     *)
(* abstract here (Planner.tla computes it); when it gets it is the subject.*)
(*                                                                         *)
(* Every time of the tracker is an age relative to the `now' that actuate  *)
(* read when the pass began, in ticks, saturated at Cap; Cap stands for    *)
(* "long ago or never".  The clock is read only there: the time that goes  *)
(* by during and after a pass is added when the next pass begins, and a    *)
(* tick is no longer than the shortest time between two passes.            *)
(***************************************************************************)
EXTENDS Integers

CONSTANTS NumWorkloads,   \* matched Deployments, numbered in name order
          Pods,           \* all pods
          PodsOf,         \* pods of each workload
          Cooldowns,      \* cooldowns a spec may ask for, per direction, in ticks
          Cap,            \* age at which ages saturate
          Modes,          \* what spec.updateMode may be
          WebhookEnabled, \* --enable-pod-webhook
          Scalable,       \* workloads an HPA targets
          Demands,        \* what each pod may come to need
          Errors,         \* whether API calls may fail
          Crashes         \* whether the controller may restart

Workloads == 1..NumWorkloads
UpdateModes == {"Off", "InPlaceOnly", "InPlaceOrRecreate"}
Directions == {"Up", "Down"}

\* What the next visit of a pod finds: nothing to do, a plan of PlanPod in a
\* direction, an OOM bump, a pending resize the node cannot fit, or a memory
\* shrink that in-place resize cannot do.
Needs == {"None", "Up", "Down", "OOM", "Infeasible", "Blocked"}

ASSUME ActuationAssumption ==
  /\ NumWorkloads \in Nat
  /\ PodsOf \in [Workloads -> SUBSET Pods]
  /\ Cap \in Nat \ {0}
  /\ Cooldowns \subseteq [Directions -> 0..Cap]
  /\ Modes \subseteq UpdateModes
  /\ WebhookEnabled \in BOOLEAN
  /\ Scalable \subseteq Workloads
  /\ Demands \in [Pods -> SUBSET Needs]
  /\ Errors \in BOOLEAN
  /\ Crashes \in BOOLEAN

VARIABLES need,      \* what each pod needs
          scaling,   \* workloads whose HPA is scaling
          mode,      \* updateMode of the spec that the last reconcile has read
          cooldown,  \* its cooldownFor, per direction
          age,       \* CooldownTracker.last, as ages
          pc,        \* "idle", "workload" (loop head) or "pods"
          wl,        \* the workload being walked
          visit,     \* its pods not visited yet
          dirs,      \* resizedDirections
          budget,    \* evictBudget
          result,    \* what actuationResult collected: "infeasible", "blocked"
          worst,     \* hpaState, the local variable of actuate
          cond,      \* status: reason of the ResizeInfeasible condition
          hpaState,  \* status: hpaState
          since,     \* age of the last resize made, recorded or not
          lost,      \* <<workload, direction>> whose last stamp was not kept
          denied     \* directions the tracker denied in this walk

vars == <<need, scaling, mode, cooldown, age, pc, wl, visit, dirs, budget,
          result, worst, cond, hpaState, since, lost, denied>>
spec == <<mode, cooldown>>
walk == <<dirs, budget, denied>>
found == <<result, worst>>
status == <<cond, hpaState>>
tracker == <<age, since, lost>>

Ages == 0..Cap
HPAStates == {"Idle", "AtMaxVertical", "Scaling"}

TypeOK ==
  /\ need \in [Pods -> Needs]
  /\ scaling \subseteq Scalable
  /\ mode \in UpdateModes
  /\ cooldown \in [Directions -> Ages]
  /\ age \in [Workloads -> [Directions -> Ages]]
  /\ pc \in {"idle", "workload", "pods"}
  /\ wl \in 1..(NumWorkloads + 1)
  /\ visit \subseteq Pods
  /\ dirs \subseteq Directions
  /\ budget \in {0, 1}
  /\ result \subseteq {"infeasible", "blocked"}
  /\ worst \in HPAStates
  /\ cond \in {"Unknown", "Feasible", "NodeCapacity", "RecreateRequiresWebhook"}
  /\ hpaState \in HPAStates
  /\ since \in [Workloads -> [Directions -> Ages]]
  /\ lost \subseteq Workloads \X Directions
  /\ denied \subseteq Directions

Init ==
  /\ need = [p \in Pods |-> "None"]
  /\ scaling = {}
  /\ mode \in Modes
  /\ cooldown \in Cooldowns
  /\ age = [w \in Workloads |-> [d \in Directions |-> Cap]]
  /\ pc = "idle"
  /\ wl = 1
  /\ visit = {}
  /\ dirs = {}
  /\ budget = 1
  /\ result = {}
  /\ worst = "Idle"
  /\ cond = "Unknown"
  /\ hpaState = "Idle"
  /\ since = [w \in Workloads |-> [d \in Directions |-> Cap]]
  /\ lost = {}
  /\ denied = {}

---------------------------------------------------------------------------
(* The cooldown tracker.                                                   *)

Older(a, t) == IF a + t < Cap THEN a + t ELSE Cap

Aged(ages, t) == [w \in Workloads |-> [d \in Directions |-> Older(ages[w][d], t)]]

Stamped(f, w, ds) == [f EXCEPT ![w] = [d \in Directions |-> IF d \in ds THEN 0 ELSE @[d]]]

\* Fault: an off-by-one in the comparison of the tracker.
Allow_Early(w, d) == age[w][d] + 1 >= cooldown[d]

Allow(w, d) == age[w][d] >= cooldown[d]

---------------------------------------------------------------------------
(* The loop over the workloads.                                            *)

\* Fault: the last workload decides what is reported.
Worse_Last(a, b) == b

Rank == [s \in HPAStates |-> CASE s = "Idle" -> 0 [] s = "AtMaxVertical" -> 1 [] s = "Scaling" -> 2]

\* worseHPAState
Worse(a, b) == IF Rank[b] > Rank[a] THEN b ELSE a

\* Every pass reads the spec anew; after an edit, or when another object comes
\* to manage the workload, it asks the same tracker for other cooldowns.
StartPass ==
  /\ pc = "idle"
  /\ pc' = "workload"
  /\ wl' = 1
  /\ \E t \in 1..Cap : age' = Aged(age, t) /\ since' = Aged(since, t)
  /\ result' = {}
  /\ worst' = "Idle"
  /\ mode' \in Modes \ {"Off"}
  /\ cooldown' \in Cooldowns
  /\ UNCHANGED <<need, scaling, visit, walk, status, lost>>

\* A reconcile of a spec in mode Off does not call actuate: the hpaState and the
\* ResizeInfeasible condition of the last pass stay published.
OffPass ==
  /\ pc = "idle"
  /\ "Off" \in Modes /\ mode' = "Off"
  /\ UNCHANGED <<need, scaling, cooldown, pc, wl, visit, walk, found, status, tracker>>

NextWorkload == pc = "workload" /\ wl \in Workloads /\ wl' = wl + 1

\* No recommendation for the workload.
SkipWorkload ==
  /\ NextWorkload
  /\ UNCHANGED <<need, scaling, spec, pc, visit, walk, found, status, tracker>>

\* coordinateHPA finds the HPA scaling.
PauseWorkload ==
  /\ NextWorkload
  /\ wl \in scaling
  /\ worst' = Worse(worst, "Scaling")
  /\ UNCHANGED <<need, scaling, spec, pc, visit, walk, result, status, tracker>>

\* What coordinateHPA may answer for a workload whose HPA is not scaling.
Calm(w) == IF w \in Scalable THEN {"Idle", "AtMaxVertical"} ELSE {"Idle"}

\* Fault: each workload begins with an empty result.
OpenWorkload_Forgets ==
  /\ pc = "workload" /\ wl \in Workloads
  /\ wl \notin scaling
  /\ \E s \in Calm(wl) : worst' = Worse(worst, s)
  /\ pc' = "pods"
  /\ visit' = PodsOf[wl]
  /\ dirs' = {}
  /\ denied' = {}
  /\ budget' = 1
  /\ result' = {}
  /\ UNCHANGED <<need, scaling, spec, wl, status, tracker>>

OpenWorkload ==
  /\ pc = "workload" /\ wl \in Workloads
  /\ wl \notin scaling
  /\ \E s \in Calm(wl) : worst' = Worse(worst, s)
  /\ pc' = "pods"
  /\ visit' = PodsOf[wl]
  /\ dirs' = {}
  /\ denied' = {}
  /\ budget' = 1
  /\ UNCHANGED <<need, scaling, spec, wl, result, status, tracker>>

\* Fault: of two directions resized only one is recorded.
CloseWorkload_OneStamp ==
  /\ pc = "pods" /\ visit = {}
  /\ age' = Stamped(age, wl, IF "Up" \in dirs THEN {"Up"} ELSE dirs)
  /\ lost' = lost \ ({wl} \X dirs)
  /\ pc' = "workload"
  /\ wl' = wl + 1
  /\ dirs' = {}
  /\ denied' = {}
  /\ budget' = 1
  /\ UNCHANGED <<need, scaling, spec, visit, found, status, since>>

\* The stamps of a workload are written once, after its pods.
CloseWorkload ==
  /\ pc = "pods" /\ visit = {}
  /\ age' = Stamped(age, wl, dirs)
  /\ lost' = lost \ ({wl} \X dirs)
  /\ pc' = "workload"
  /\ wl' = wl + 1
  /\ dirs' = {}
  /\ denied' = {}
  /\ budget' = 1
  /\ UNCHANGED <<need, scaling, spec, visit, found, status, since>>

\* actuate returns, and its local variables are gone.
Leave == pc' = "idle" /\ wl' = 1 /\ result' = {} /\ worst' = "Idle"

EndPass ==
  /\ pc = "workload" /\ wl \notin Workloads
  /\ hpaState' = worst
  /\ cond' = CASE "blocked" \in result -> "RecreateRequiresWebhook"
               [] "blocked" \notin result /\ "infeasible" \in result -> "NodeCapacity"
               [] OTHER -> "Feasible"
  /\ Leave
  /\ UNCHANGED <<need, scaling, spec, visit, walk, tracker>>

\* The status patch after the pass failed.
PatchError ==
  /\ Errors
  /\ pc = "workload" /\ wl \notin Workloads
  /\ Leave
  /\ UNCHANGED <<need, scaling, spec, visit, walk, status, tracker>>

\* An error return: the stamps ds that the walked workload was due are never
\* written, and the status keeps the condition and the hpaState of an earlier
\* pass.
AbortEffects(ds) ==
  /\ Leave
  /\ visit' = {}
  /\ dirs' = {}
  /\ denied' = {}
  /\ budget' = 1
  /\ lost' = lost \cup ({wl} \X ds)
  /\ UNCHANGED <<scaling, spec, status, age>>

\* FindHPA or the pod list failed.
WorkloadError ==
  /\ Errors
  /\ pc = "workload" /\ wl \in Workloads
  /\ Leave
  /\ UNCHANGED <<need, scaling, spec, visit, walk, status, tracker>>

---------------------------------------------------------------------------
(* The loop over the pods of one workload.                                 *)

recreateMode == mode = "InPlaceOrRecreate"

Recreated(p) == recreateMode /\ need[p] \in {"Infeasible", "Blocked"}

Visiting(p) == pc = "pods" /\ p \in visit /\ visit' = visit \ {p}

\* A resize in direction d has been made; it is stamped by CloseWorkload.
Made(d) ==
  /\ dirs' = dirs \cup {d}
  /\ since' = Stamped(since, wl, {d})

Passed == UNCHANGED <<scaling, spec, pc, wl, worst, status, age, lost>>

\* Nothing to do, the pod is not running, or the rate limit, a disruption
\* budget, a spent evictBudget or a failed eviction stands in the way.
LeavePod(p) ==
  /\ Visiting(p)
  /\ ~(Recreated(p) /\ ~WebhookEnabled)
  /\ recreateMode \/ need[p] # "Infeasible"
  /\ UNCHANGED <<need, walk, result, since>> /\ Passed

RecreateBlocked(p) ==
  /\ Visiting(p) /\ Recreated(p) /\ ~WebhookEnabled
  /\ result' = result \cup {"blocked"}
  /\ UNCHANGED <<need, walk, since>> /\ Passed

\* Fault: the eviction budget is not checked.
EvictPod_NoBudget(p) ==
  /\ Visiting(p) /\ Recreated(p) /\ WebhookEnabled
  /\ Allow(wl, "Down")
  /\ budget' = budget - 1
  /\ need' = [need EXCEPT ![p] = "None"]
  /\ Made("Down")
  /\ UNCHANGED <<result, denied>> /\ Passed

EvictPod(p) ==
  /\ Visiting(p) /\ Recreated(p) /\ WebhookEnabled
  /\ budget > 0
  /\ Allow(wl, "Down")
  /\ budget' = budget - 1
  /\ need' = [need EXCEPT ![p] = "None"]
  /\ Made("Down")
  /\ UNCHANGED <<result, denied>> /\ Passed

\* The eviction took effect and its reply was an error: the walk goes on as if
\* nothing had been evicted, the budget is not spent and no stamp is due.
EvictUnnoticed(p) ==
  /\ Errors
  /\ Visiting(p) /\ Recreated(p) /\ WebhookEnabled
  /\ budget > 0
  /\ Allow(wl, "Down")
  /\ need' = [need EXCEPT ![p] = "None"]
  /\ since' = Stamped(since, wl, {"Down"})
  /\ lost' = lost \cup {<<wl, "Down">>}
  /\ UNCHANGED <<scaling, spec, pc, wl, walk, found, status, age>>

ReportInfeasible(p) ==
  /\ Visiting(p) /\ ~recreateMode /\ need[p] = "Infeasible"
  /\ result' = result \cup {"infeasible"}
  /\ UNCHANGED <<need, walk, since>> /\ Passed

\* The OOM fast path asks no cooldown and leaves no stamp.
BumpPod(p) ==
  /\ Visiting(p) /\ need[p] = "OOM"
  /\ need' \in {[need EXCEPT ![p] = n] : n \in {"None", "OOM"}}
  /\ UNCHANGED <<walk, result, since>> /\ Passed

\* Fault: a resize is stamped at once, in the middle of the walk.
ResizePod_StampsAtOnce(p) ==
  \E d \in Directions :
    /\ Visiting(p) /\ need[p] = d
    /\ Allow(wl, d)
    /\ need' = [need EXCEPT ![p] = "None"]
    /\ Made(d)
    /\ age' = Stamped(age, wl, {d})
    /\ UNCHANGED <<budget, found, denied, scaling, spec, pc, wl, status, lost>>

ResizePod(p) ==
  \E d \in Directions :
    /\ Visiting(p) /\ need[p] = d
    /\ Allow(wl, d)
    /\ need' = [need EXCEPT ![p] = "None"]
    /\ Made(d)
    /\ UNCHANGED <<budget, result, denied>> /\ Passed

\* Fault: a pod held back by the cooldown counts as resized.
HoldPod_Counts(p) ==
  \E d \in Directions :
    /\ Visiting(p) /\ need[p] = d
    /\ ~Allow(wl, d)
    /\ denied' = denied \cup {d}
    /\ dirs' = dirs \cup {d}
    /\ UNCHANGED <<need, budget, result, since>> /\ Passed

\* The cooldown holds the pod back.
HoldPod(p) ==
  \E d \in Directions :
    /\ Visiting(p) /\ need[p] = d
    /\ ~Allow(wl, d)
    /\ denied' = denied \cup {d}
    /\ UNCHANGED <<need, dirs, budget, result, since>> /\ Passed

\* Apply failed: the pass returns the error at once.
ApplyError(p) ==
  /\ Errors
  /\ pc = "pods" /\ p \in visit
  /\ \/ need[p] = "OOM"
     \/ \E d \in Directions : need[p] = d /\ Allow(wl, d)
  /\ AbortEffects(dirs)
  /\ UNCHANGED <<need, since>>

\* Apply failed although the API server has resized the pod.
ApplyUnnoticed(p) ==
  /\ Errors
  /\ pc = "pods" /\ p \in visit
  /\ need' = [need EXCEPT ![p] = "None"]
  /\ \/ /\ need[p] = "OOM"
        /\ AbortEffects(dirs)
        /\ UNCHANGED since
     \/ \E d \in Directions :
          /\ need[p] = d /\ Allow(wl, d)
          /\ since' = Stamped(since, wl, {d})
          /\ AbortEffects(dirs \cup {d})

---------------------------------------------------------------------------
(* The controller process, the pods and the HPAs.                          *)

\* A restart forgets the tracker and the pass in flight.
Restart ==
  /\ Crashes
  /\ Leave
  /\ visit' = {} /\ dirs' = {} /\ denied' = {} /\ budget' = 1
  /\ age' = [w \in Workloads |-> [d \in Directions |-> Cap]]
  /\ lost' = Workloads \X Directions
  /\ UNCHANGED <<need, scaling, spec, status, since>>

Demand(p, n) ==
  /\ need[p] # n
  /\ need' = [need EXCEPT ![p] = n]
  /\ UNCHANGED <<scaling, spec, pc, wl, visit, walk, found, status, tracker>>

HPAStep(w) ==
  /\ scaling' = IF w \in scaling THEN scaling \ {w} ELSE scaling \cup {w}
  /\ UNCHANGED <<need, spec, pc, wl, visit, walk, found, status, tracker>>

---------------------------------------------------------------------------
VisitPod(p) == \/ LeavePod(p) \/ RecreateBlocked(p) \/ EvictPod(p)
               \/ ReportInfeasible(p) \/ BumpPod(p) \/ ResizePod(p)
               \/ HoldPod(p) \/ EvictUnnoticed(p)

Controller == \/ StartPass \/ OffPass \/ SkipWorkload \/ PauseWorkload
              \/ OpenWorkload \/ CloseWorkload \/ EndPass \/ WorkloadError
              \/ PatchError
              \/ \E p \in Pods : VisitPod(p) \/ ApplyError(p) \/ ApplyUnnoticed(p)

Next == \/ Controller
        \/ Restart
        \/ \E p \in Pods : \E n \in Demands[p] : Demand(p, n)
        \/ \E w \in Scalable : HPAStep(w)

Spec == Init /\ [][Next]_vars

\* The work queue keeps reconciling, a workload is not without
\* recommendation for ever, and the rate limit does not skip a pod for ever.
Fairness ==
  /\ WF_vars(Controller)
  /\ \A w \in Workloads : SF_vars(wl = w /\ (OpenWorkload \/ PauseWorkload))
  /\ \A p \in Pods : SF_vars(ResizePod(p))

FairSpec == Spec /\ Fairness

---------------------------------------------------------------------------
(* Properties.                                                             *)

Resized(w, d) == since[w][d] # 0 /\ since'[w][d] = 0

\* Two passes that resize or evict pods of a workload in one direction are a
\* cooldown apart, unless a stamp in between was lost to an aborted pass or a
\* restart (Allow, Record, and the order of actuate's loops).
CooldownRespected ==
  [][\A w \in Workloads, d \in Directions :
       Resized(w, d) /\ <<w, d>> \notin lost => since[w][d] >= cooldown[d]]_vars

\* The walk with its loops, errors and restarts implements the spacing that the
\* cooldowns promise: the tracker's ages, written late and read early, amount to
\* it, and what an aborted pass forgets are its own resizes of one workload
\* (Allow, Record and the returns of actuate against Spacing).
Promise == INSTANCE Spacing WITH known <- (Workloads \X Directions) \ lost

KeepsSpacing == Promise!Spec

\* The cooldown is the minimum time between consecutive resizes in its
\* direction, with no exception.
CooldownSpacing ==
  [][\A w \in Workloads, d \in Directions :
       Resized(w, d) => since[w][d] >= cooldown[d]]_vars

\* The cooldown spaces passes, not sibling pods: within one walk of a workload
\* no direction is both granted to one pod and denied to another.
SiblingsTogether == dirs \cap denied = {}

\* The HPA of the pod's workload has stopped scaling.
Calmed(p) == \A w \in Workloads : p \in PodsOf[w] => <>[](w \notin scaling)

\* As long as the object is not left in mode Off, a pod that needs more is given
\* more, or stops needing it: cooldowns, the HPA pauses of other workloads and the
\* rate limit only delay it.
Served ==
  []<>(mode # "Off") =>
    \A p \in Pods : Calmed(p) => (need[p] = "Up" ~> need[p] # "Up")

\* A pod that stays impossible to resize in place is reported again and again in
\* the ResizeInfeasible condition, whatever the workloads before it and after it
\* in the pass need (the reasons of Reconcile's switch over the actuation result,
\* which every workload adds to).
InfeasibleReported ==
  \A p \in Pods : Calmed(p) =>
    /\ <>[](need[p] = "Infeasible" /\ mode = "InPlaceOnly") =>
         []<>(cond = "NodeCapacity")
    /\ <>[](need[p] \in {"Infeasible", "Blocked"} /\ recreateMode) /\ ~WebhookEnabled =>
         []<>(cond = "RecreateRequiresWebhook")

\* An HPA that goes on scaling is reported in status.hpaState whatever the other
\* workloads of the pass report, and no workload's state outlives it: once no
\* HPA scales, "Scaling" disappears for good (worseHPAState, and the local
\* variable that actuate starts afresh).  In mode Off the last state stays.
ScalingReported ==
  []<>(mode # "Off") =>
    /\ \A w \in Scalable : <>[](w \in scaling) => []<>(hpaState = "Scaling")
    /\ <>[](scaling = {}) => <>[](hpaState # "Scaling")
============================================================================
