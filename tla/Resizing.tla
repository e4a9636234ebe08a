----------------------------- MODULE Resizing -----------------------------
(***************************************************************************)
(* One DynamicResource sizing one pod of one Deployment: the passes of     *)
(* Reconcile that compute targets and act on the pod, the status patch     *)
(* that publishes the targets after acting, the pod webhook that reads the *)
(* published targets when a replacement is admitted, and the kubelet.      *)
(*                                                                         *)
(* A pass either acts or withholds: cooldowns, the cluster-wide rate       *)
(* limit and pod disruption budgets may withhold any action of any pass    *)
(* (Actuation.tla models when they do).                                    *)
(***************************************************************************)
EXTENDS Planner, FiniteSets

CONSTANTS Containers,     \* container names of the pod
          OffContainers,  \* containers whose override has mode Off
          Template,       \* resources of the Deployment's pod template
          CPUBounds,      \* effective CPU bounds per container
          MemBounds,      \* effective memory bounds per container
          Policy,         \* DefaultPolicy of the spec
          UpdateMode,     \* spec.updateMode
          WebhookEnabled, \* --enable-pod-webhook
          HPAs,           \* what FindHPA may answer in a pass
          Readings,       \* possible metrics of a container: [raw, usage]
          Gaps,           \* whether the provider may miss containers
          LimitBound      \* model bound: no memory limit grows past it

\* An HPA: its target utilizations (0: not scaled on) and spec.hpa's headroom.
HPASet == [present : BOOLEAN, cpu : Nat, mem : Nat, headroom : Nat]
NoHPA == [present |-> FALSE, cpu |-> 0, mem |-> 0, headroom |-> 0]

ASSUME ResizingAssumption ==
  /\ OffContainers \subseteq Containers
  /\ Template \in [Containers -> Resources]
  /\ \A n \in Containers : RequestsUnder(Template[n])
  /\ CPUBounds \in [Containers -> Bounds]
  /\ MemBounds \in [Containers -> Bounds]
  /\ \A n \in Containers : /\ CPUBounds[n].min <= CPUBounds[n].max
                           /\ MemBounds[n].min <= MemBounds[n].max
  /\ Policy \in Policies
  /\ UpdateMode \in {"Off", "InPlaceOnly", "InPlaceOrRecreate"}
  /\ WebhookEnabled \in BOOLEAN
  /\ HPAs \subseteq HPASet
  /\ Readings \subseteq [raw : Targets, usage : Targets]
  /\ Gaps \in BOOLEAN
  /\ LimitBound \in Nat

VARIABLES pod,       \* resources in the spec of the running pod
          alive,     \* FALSE from the eviction to the admission of a replacement
          qos,       \* status.qosClass, fixed when the pod is admitted
          resize,    \* the kubelet's verdict on the last resize
          oom,       \* containers OOMKilled within the lookback window
          status,    \* status.recommendations in the API server
          local,     \* the same field in the memory of the pass in flight
          pc,        \* "idle", or "patch": acted, status not yet patched
          seen,      \* the HPA and the usage that pass has read
          refused    \* the API server refused a resize that changes the QoS class

vars == <<pod, alive, qos, resize, oom, status, local, pc, seen, refused>>
podVars == <<pod, alive, qos, resize, oom, refused>>

\* Recommendations: targets of some of the containers.
IsRecs(r) == DOMAIN r \subseteq Containers /\ r \in [DOMAIN r -> Targets]
NoRecs == [n \in {} |-> [cpu |-> 0, mem |-> 0]]

Unread == [hpa |-> NoHPA, usage |-> NoRecs]

TypeOK ==
  /\ pod \in [Containers -> Resources]
  /\ alive \in BOOLEAN
  /\ qos \in QoS
  /\ resize \in {"none", "pending", "infeasible"}
  /\ oom \subseteq Containers
  /\ IsRecs(status)
  /\ IsRecs(local)
  /\ pc \in {"idle", "patch"}
  /\ seen.hpa \in HPASet
  /\ IsRecs(seen.usage)
  /\ refused \in BOOLEAN

Init ==
  /\ pod = Template
  /\ alive = TRUE
  /\ qos = QOSClass(Template)
  /\ resize = "none"
  /\ oom = {}
  /\ status = NoRecs
  /\ local = NoRecs
  /\ pc = "idle"
  /\ seen = Unread
  /\ refused = FALSE

---------------------------------------------------------------------------
(* The recommendation half of a pass.                                      *)

\* What the metrics provider may answer: readings of some of the containers.
Metrics ==
  UNION {[S -> Readings] : S \in IF Gaps THEN SUBSET Containers ELSE {Containers}}

\* computeRecommendations, and the recommendations kept over a metrics gap.
Recommended(obs) ==
  LET fresh == [n \in DOMAIN obs \ OffContainers |->
                  Recommend(obs[n].raw, CPUBounds[n], MemBounds[n])]
  IN  IF DOMAIN fresh = {} THEN status ELSE fresh

\* coordinateHPA raises the targets in place, in the status itself.
Coordinated(recs, obs, hpa) ==
  [n \in DOMAIN recs |-> IF hpa.present /\ n \in DOMAIN obs
                         THEN FloorTarget(recs[n], obs[n].usage, hpa)
                         ELSE recs[n]]

Read(obs, hpa) ==
  seen' = [hpa |-> hpa, usage |-> [n \in DOMAIN obs |-> obs[n].usage]]

Acting(recs) == UpdateMode # "Off" /\ DOMAIN recs # {}

---------------------------------------------------------------------------
(* The actuation half: the cases of the pod loop of actuate, in order.     *)

MustRecreate(targets) ==
  /\ UpdateMode = "InPlaceOrRecreate"
  /\ resize = "infeasible" \/ BlockedMemoryShrink(pod, qos, targets, Policy)

MemMax == [n \in Containers |-> MemBounds[n].max]

BumpPlan(slip) == PlanOOMBump(pod, qos, oom, MemMax, Policy, slip)

\* Fault: the ordinary plan comes before the fast path.
PlanOf_OOMLast(targets, slip) ==
  IF DOMAIN PlanPod(pod, qos, targets, Policy, slip) # {}
  THEN PlanPod(pod, qos, targets, Policy, slip)
  ELSE BumpPlan(slip)

\* The OOM fast path comes first; a nil bump falls through to PlanPod.
PlanOf(targets, slip) ==
  IF DOMAIN BumpPlan(slip) # {} THEN BumpPlan(slip)
  ELSE PlanPod(pod, qos, targets, Policy, slip)

\* A resize subresource patch that would change the QoS class is rejected.
Accepted(plan) == QOSClass(Patched(pod, plan)) = qos

Resize(targets, slip) ==
  LET plan == PlanOf(targets, slip)
  IN  /\ alive
      /\ ~MustRecreate(targets)
      /\ resize # "infeasible"
      /\ DOMAIN plan # {}
      /\ \A n \in DOMAIN plan : plan[n].memLim <= LimitBound
      /\ IF Accepted(plan)
         THEN pod' = Patched(pod, plan) /\ resize' = "pending" /\ UNCHANGED refused
         ELSE refused' = TRUE /\ UNCHANGED <<pod, resize>>
      /\ UNCHANGED <<alive, qos, oom>>

Evict(targets) ==
  /\ alive
  /\ MustRecreate(targets)
  /\ WebhookEnabled
  /\ alive' = FALSE
  /\ UNCHANGED <<pod, qos, resize, oom, refused>>

---------------------------------------------------------------------------
(* A pass of Reconcile up to its status patch.                             *)

PassResize(obs, hpa, slip) ==
  LET targets == Coordinated(Recommended(obs), obs, hpa)
  IN  /\ pc = "idle" /\ pc' = "patch"
      /\ Acting(targets)
      /\ Resize(targets, slip)
      /\ local' = targets
      /\ Read(obs, hpa)
      /\ UNCHANGED status

PassEvict(obs, hpa) ==
  LET targets == Coordinated(Recommended(obs), obs, hpa)
  IN  /\ pc = "idle" /\ pc' = "patch"
      /\ Acting(targets)
      /\ Evict(targets)
      /\ local' = targets
      /\ Read(obs, hpa)
      /\ UNCHANGED status

\* Nothing to do, or withheld by a cooldown, the rate limit or a budget.
PassHold(obs, hpa) ==
  LET recs == Recommended(obs)
  IN  /\ pc = "idle" /\ pc' = "patch"
      /\ local' = IF Acting(recs) THEN Coordinated(recs, obs, hpa) ELSE recs
      /\ Read(obs, hpa)
      /\ UNCHANGED <<podVars, status>>

\* The HPA is scaling: actuation is paused before any target is floored.
PassPaused(obs, hpa) ==
  /\ hpa.present
  /\ pc = "idle" /\ pc' = "patch"
  /\ local' = Recommended(obs)
  /\ Read(obs, hpa)
  /\ UNCHANGED <<podVars, status>>

PatchStatus ==
  /\ pc = "patch" /\ pc' = "idle"
  /\ status' = local
  /\ local' = NoRecs
  /\ seen' = Unread
  /\ UNCHANGED podVars

\* The patch failed; the pass returns the error and is tried again.
PatchFailed ==
  /\ pc = "patch" /\ pc' = "idle"
  /\ local' = NoRecs
  /\ seen' = Unread
  /\ UNCHANGED <<podVars, status>>

---------------------------------------------------------------------------
(* The webhook, the Deployment controller and the kubelet.                 *)

\* Fault: the replacement inherits the resources of the template.
Injected_FromTemplate(slip) == Template

\* Default: inject the published recommendation into a new pod.
Injected(slip) ==
  IF WebhookEnabled /\ UpdateMode # "Off"
  THEN [n \in Containers |-> IF n \in DOMAIN status
                             THEN ApplyTarget(Template[n], status[n], slip)
                             ELSE Template[n]]
  ELSE Template

AdmitAs(new) ==
  /\ ~alive
  /\ alive' = TRUE
  /\ pod' = new
  /\ qos' = QOSClass(new)
  /\ resize' = "none"
  /\ oom' = {}
  /\ UNCHANGED <<status, local, pc, seen, refused>>

Admit(slip) == AdmitAs(Injected(slip))

\* The webhook is down (failurePolicy=ignore) or its reads of the ReplicaSet or
\* of the DynamicResources fail: the pod is admitted as the template has it.
AdmitUntouched == AdmitAs(Template)

\* A rollout, a drain or a crash of the node removes the pod.
PodDeleted ==
  /\ alive /\ alive' = FALSE
  /\ UNCHANGED <<pod, qos, resize, oom, status, local, pc, seen, refused>>

KubeletVerdict ==
  /\ alive /\ resize = "pending"
  /\ resize' \in {"none", "infeasible"}
  /\ UNCHANGED <<pod, alive, qos, oom, status, local, pc, seen, refused>>

CapacityFreed ==
  /\ alive /\ resize = "infeasible" /\ resize' = "pending"
  /\ UNCHANGED <<pod, alive, qos, oom, status, local, pc, seen, refused>>

OOMKill(n) ==
  /\ alive /\ n \notin oom
  /\ oom' = oom \cup {n}
  /\ UNCHANGED <<pod, alive, qos, resize, status, local, pc, seen, refused>>

\* The kill leaves the lookback window.
OOMForgotten(n) ==
  /\ n \in oom
  /\ oom' = oom \ {n}
  /\ UNCHANGED <<pod, alive, qos, resize, status, local, pc, seen, refused>>

---------------------------------------------------------------------------
Slips == {0, 1}

Pass == \E obs \in Metrics, hpa \in HPAs :
          \/ PassHold(obs, hpa)
          \/ PassPaused(obs, hpa)
          \/ PassEvict(obs, hpa)
          \/ \E slip \in Slips : PassResize(obs, hpa, slip)

Environment == \/ PodDeleted
               \/ KubeletVerdict
               \/ CapacityFreed
               \/ \E n \in Containers : OOMKill(n) \/ OOMForgotten(n)

Next == \/ Pass
        \/ PatchStatus
        \/ PatchFailed
        \/ \E slip \in Slips : Admit(slip)
        \/ AdmitUntouched
        \/ Environment

Spec == Init /\ [][Next]_vars

---------------------------------------------------------------------------
(* Properties.                                                             *)

Lower(a, b) == IF a < b THEN a ELSE b
Higher(a, b) == IF a < b THEN b ELSE a

\* Bounds are respected over every sequence of resizes, OOM bumps, evictions
\* and admissions: a request leaves the range [min, max] of its container only
\* as far as the template already did (clampQuantity, stepClamp, the cap of
\* PlanOOMBump and applyTarget together).
SizedWithinBounds ==
  \A n \in Containers :
    /\ Lower(CPUBounds[n].min, Template[n].cpuReq) <= pod[n].cpuReq
    /\ pod[n].cpuReq <= Higher(CPUBounds[n].max, Template[n].cpuReq)
    /\ Lower(MemBounds[n].min, Template[n].memReq) <= pod[n].memReq
    /\ pod[n].memReq <= Higher(MemBounds[n].max, Template[n].memReq)

\* Every spec KubeRA writes is one the API server accepts: no request is above
\* its limit, whatever the float rounding of the limit does.
RequestsUnderLimits == \A n \in Containers : RequestsUnder(pod[n])

\* A memory limit never decreases while its pod lives, even when the request
\* shrinks ("Never decrease a memory limit in-place", planLimits).
MemLimitNeverShrinks ==
  [][\A n \in Containers : alive /\ alive' => pod'[n].memLim >= pod[n].memLim]_vars

\* No plan of PlanPod or PlanOOMBump changes the QoS class of the pod: the API
\* server refuses such a patch, and the refusal aborts the whole pass.
NeverRefused == ~refused

\* A downward in-place resize leaves the utilization the HPA will observe at
\* or below target - headroom for every container whose usage the pass has
\* read, whatever earlier passes published, paused or kept (coordinateHPA, then
\* the tolerance, step and limit rules of PlanPod and the OOM fast path).
Leaves(req, use, target, headroom) == use * 100 <= req * (target - headroom)

HeadroomKept ==
  [][alive /\ alive' /\ seen'.hpa.present =>
       \A n \in DOMAIN seen'.usage :
         LET h == seen'.hpa
             u == seen'.usage[n]
         IN  /\ h.cpu > h.headroom /\ pod'[n].cpuReq < pod[n].cpuReq =>
                  Leaves(pod'[n].cpuReq, u.cpu, h.cpu, h.headroom)
             /\ h.mem > h.headroom /\ pod'[n].memReq < pod[n].memReq =>
                  Leaves(pod'[n].memReq, u.mem, h.mem, h.headroom)]_vars

\* After an OOMKill the bumped request stays raised for the lookback window: as
\* long as the memory is below its max, no pass lowers that of a container
\* whose kill is recent, although the published target may be far lower.
OOMStaysRaised ==
  [][\A n \in oom \cap oom' : alive' /\ pod[n].memReq < MemMax[n] =>
       pod'[n].memReq >= pod[n].memReq]_vars

\* A burstable container keeps its original limit/request ratio, so its memory
\* limit never exceeds that ratio applied to the largest request allowed.
LimitWithinRatio ==
  \A n \in Containers :
    pod[n].memLim * Template[n].memReq
      <= Template[n].memLim * Higher(MemBounds[n].max, Template[n].memReq)

\* Neither a deletion nor an OOMKill of the pod.
Undisturbed == ~(PodDeleted \/ \E n \in Containers : OOMKill(n))
============================================================================
