------------------------------ MODULE Planner ------------------------------
(***************************************************************************)
(* The arithmetic of KubeRA: how a usage percentile becomes a target, how  *)
(* a target is floored for an HPA, and how the actuator turns the target   *)
(* into the requests and limits of one resize.  Everything here is a       *)
(* function of its arguments; Resizing.tla is the state machine over it.   *)
(*                                                                         *)
(* Quantities are naturals in one unit per resource (a multiple of a       *)
(* milli-CPU, a multiple of a byte).  A container is a record              *)
(* [cpuReq, memReq, cpuLim, memLim]; 0 stands for "not set", as IsZero     *)
(* does in the code.  A pod maps container names to such records.  A       *)
(* target is [cpu, mem]; a plan maps the containers it changes to their    *)
(* new records, and the empty plan is the code's nil.                      *)
(***************************************************************************)
EXTENDS Integers

CONSTANTS CPURounding,    \* cpuRoundingMilli
          MemRounding,    \* memRoundingBytes
          MinMemory       \* minMemoryRecommendationBytes

ASSUME RoundingAssumption ==
  /\ CPURounding \in Nat \ {0}
  /\ MemRounding \in Nat \ {0}
  /\ MinMemory \in Nat \ {0}

NotSet == 0

Resources == [cpuReq : Nat, memReq : Nat, cpuLim : Nat, memLim : Nat]
Targets   == [cpu : Nat, mem : Nat]
Bounds    == [min : Nat, max : Nat]
QoS       == {"Guaranteed", "Burstable", "BestEffort"}

\* What the API server demands of a container: no request above its limit.
RequestsUnder(c) == /\ c.cpuLim # NotSet => c.cpuReq <= c.cpuLim
                    /\ c.memLim # NotSet => c.memReq <= c.memLim

\* Policy: the guard parameters of a spec.  Tolerance is in percent.
Policies == [requestsOnly : BOOLEAN, tolerance : Nat, up : Nat, down : 0..100]

\* spec.behavior.*.maxStepPercent, where 0 means the field is absent.
DefaultPolicy(requestsOnly, stepUp, stepDown) ==
  [requestsOnly |-> requestsOnly,
   tolerance    |-> 10,
   up           |-> IF stepUp > 0 THEN stepUp ELSE 50,
   down         |-> IF stepDown > 0 THEN stepDown ELSE 20]

---------------------------------------------------------------------------
(* Recommendation: percentile -> margin -> rounding -> bounds.             *)

CeilDiv(a, b) == (a + b - 1) \div b

RoundUp(n, step) == CeilDiv(n, step) * step

ClampQuantity(q, b) ==
  IF q < b.min THEN b.min ELSE IF q > b.max THEN b.max ELSE q

\* raw * safetyMarginFactor (1.10), rounded up to the next multiple of step.
WithMargin(raw, step) == CeilDiv(raw * 110, 100 * step) * step

Recommend(raw, cpuBounds, memBounds) ==
  LET mem == WithMargin(raw.mem, MemRounding)
      low == RoundUp(MinMemory, MemRounding)
  IN  [cpu |-> ClampQuantity(WithMargin(raw.cpu, CPURounding), cpuBounds),
       mem |-> ClampQuantity(IF mem > low THEN mem ELSE low, memBounds)]

---------------------------------------------------------------------------
(* HPA coordination: the request that keeps utilization under the target.  *)

\* Fault: the division truncates.
RequestFloor_Truncated(usage, utilization, headroom) ==
  IF utilization <= 0 \/ utilization - headroom <= 0 THEN 0
  ELSE (usage * 100) \div (utilization - headroom)

RequestFloor(usage, utilization, headroom) ==
  IF utilization <= 0 \/ utilization - headroom <= 0 THEN 0
  ELSE CeilDiv(usage * 100, utilization - headroom)

\* hpa is [cpu, mem, headroom]: target utilizations (0 = not scaled on it).
FloorTarget(target, usage, hpa) ==
  LET cpuFloor == RequestFloor(usage.cpu, hpa.cpu, hpa.headroom)
      memFloor == RequestFloor(usage.mem, hpa.mem, hpa.headroom)
  IN  [cpu |-> IF target.cpu < cpuFloor THEN cpuFloor ELSE target.cpu,
       mem |-> IF target.mem < memFloor THEN memFloor ELSE target.mem]

---------------------------------------------------------------------------
(* Planning one resize.                                                    *)

WithinTolerance(cur, want, policy) ==
  IF cur = 0 THEN want = 0
  ELSE (IF want < cur THEN cur - want ELSE want - cur) * 100 <= policy.tolerance * cur

StepClamp(cur, want, policy) ==
  IF want > cur
  THEN LET maxUp == cur + (cur * policy.up) \div 100
       IN  IF want > maxUp THEN maxUp ELSE want
  ELSE LET minDown == cur - (cur * policy.down) \div 100
       IN  IF want < minDown THEN minDown ELSE want

\* Fault: the limit does not follow the request.
ScaleLimit_Fixed(new, lim, req, slip) == lim

\* int64(float64(new) * (float64(lim) / float64(req))).  The two roundings of
\* the floats can push an integral product just below itself, and int64
\* truncates (50m/230m with an unchanged request gives 229m): slip, 0 or 1, is
\* that unit.  The ratio 1 is exact.  Only some pairs slip; the model lets all.
ScaleLimit(new, lim, req, slip) ==
  LET exact == (new * lim) \div req
  IN  IF lim # req /\ exact > 0 /\ (new * lim) % req = 0 THEN exact - slip ELSE exact

CapAt(n, lim) == IF lim # NotSet /\ n > lim THEN lim ELSE n

\* Faults: limits left untouched; limits pinned to the requests of any pod; a
\* memory limit that follows a shrinking request.
PlanLimits_Untouched(c, cpu, mem, policy, guaranteed, slip) ==
  [c EXCEPT !.cpuReq = cpu, !.memReq = mem]
PlanLimits_Pinned(c, cpu, mem, policy, guaranteed, slip) ==
  [cpuReq |-> cpu, memReq |-> mem, cpuLim |-> cpu, memLim |-> mem]
PlanLimits_Follows(c, cpu, mem, policy, guaranteed, slip) ==
  [cpuReq |-> cpu, memReq |-> mem,
   cpuLim |-> ScaleLimit(cpu, c.cpuLim, c.cpuReq, slip),
   memLim |-> ScaleLimit(mem, c.memLim, c.memReq, slip)]

\* planLimits: c with the new requests and the limits that go with them.
PlanLimits(c, cpu, mem, policy, guaranteed, slip) ==
  IF policy.requestsOnly /\ ~guaranteed
  THEN [c EXCEPT !.cpuReq = CapAt(cpu, c.cpuLim), !.memReq = CapAt(mem, c.memLim)]
  ELSE IF guaranteed
  THEN [cpuReq |-> cpu, memReq |-> mem, cpuLim |-> cpu, memLim |-> mem]
  ELSE LET scaled == ScaleLimit(mem, c.memLim, c.memReq, slip)
       IN  [cpuReq |-> cpu,
            memReq |-> mem,
            cpuLim |-> IF c.cpuLim = NotSet THEN NotSet
                       ELSE ScaleLimit(cpu, c.cpuLim, c.cpuReq, slip),
            memLim |-> IF c.memLim = NotSet THEN NotSet
                       ELSE IF scaled > c.memLim THEN scaled ELSE c.memLim]

\* planContainer: the new record, or c itself where the code returns nil.
PlanContainer(c, want, policy, guaranteed, slip) ==
  LET stepped == StepClamp(c.memReq, want.mem, policy)
      mem     == IF guaranteed /\ stepped < c.memReq THEN c.memReq ELSE stepped
      planned == PlanLimits(c, StepClamp(c.cpuReq, want.cpu, policy), mem,
                            policy, guaranteed, slip)
  IN  IF \/ c.cpuReq = NotSet \/ c.memReq = NotSet
         \/ want.cpu = 0 \/ want.mem = 0
         \/ /\ WithinTolerance(c.cpuReq, want.cpu, policy)
            /\ WithinTolerance(c.memReq, want.mem, policy)
         \/ planned.cpuReq = c.cpuReq /\ planned.memReq = c.memReq
      THEN c
      ELSE planned

\* PlanPod; targets is a function on some of the container names.
PlanPod(pod, qos, targets, policy, slip) ==
  LET new(n)  == PlanContainer(pod[n], targets[n], policy, qos = "Guaranteed", slip)
      changed == {n \in DOMAIN pod \cap DOMAIN targets : new(n) # pod[n]}
  IN  [n \in IF qos = "BestEffort" THEN {} ELSE changed |-> new(n)]

\* A plan is Up when one of its containers grows a request.
Direction(pod, plan) ==
  IF \E n \in DOMAIN plan : \/ plan[n].cpuReq > pod[n].cpuReq
                            \/ plan[n].memReq > pod[n].memReq
  THEN "Up" ELSE "Down"

\* Fault: the bump ignores the memory max.
OOMMemory_Uncapped(cur, max) == (cur * 3) \div 2

\* PlanOOMBump: current * oomBumpFactor (1.5), at most the memory max.
OOMMemory(cur, max) == IF (cur * 3) \div 2 > max THEN max ELSE (cur * 3) \div 2

PlanOOMBump(pod, qos, oom, memMax, policy, slip) ==
  LET bumped(n) == OOMMemory(pod[n].memReq, memMax[n])
      due == {n \in DOMAIN pod \cap oom : /\ pod[n].memReq # NotSet
                                          /\ pod[n].cpuReq # NotSet
                                          /\ bumped(n) > pod[n].memReq}
  IN  [n \in due |-> PlanLimits(pod[n], pod[n].cpuReq, bumped(n), policy,
                                qos = "Guaranteed", slip)]

BlockedMemoryShrink(pod, qos, targets, policy) ==
  /\ qos = "Guaranteed"
  /\ \E n \in DOMAIN pod \cap DOMAIN targets :
       /\ pod[n].memReq # NotSet
       /\ targets[n].mem # 0
       /\ ~WithinTolerance(pod[n].memReq, targets[n].mem, policy)
       /\ targets[n].mem < pod[n].memReq

---------------------------------------------------------------------------
(* The pod: its QoS class, a strategic-merge resize patch, and admission.  *)

QOSClass(pod) ==
  LET full(n) == /\ pod[n].cpuReq # NotSet /\ pod[n].cpuReq = pod[n].cpuLim
                 /\ pod[n].memReq # NotSet /\ pod[n].memReq = pod[n].memLim
  IN  IF \A n \in DOMAIN pod : pod[n].cpuReq = NotSet /\ pod[n].memReq = NotSet
      THEN "BestEffort"
      ELSE IF \A n \in DOMAIN pod : full(n) THEN "Guaranteed" ELSE "Burstable"

\* Resizer.Apply patches only the containers the plan names.
Patched(pod, plan) ==
  [n \in DOMAIN pod |-> IF n \in DOMAIN plan THEN plan[n] ELSE pod[n]]

\* applyTarget, for one resource: the limit that goes with the new request.
TargetLimit(new, lim, req, slip) ==
  IF lim = NotSet THEN NotSet
  ELSE IF lim = req THEN new
  ELSE ScaleLimit(new, lim, req, slip)

ApplyTarget(c, want, slip) ==
  LET cpuSet == c.cpuReq # NotSet
      memSet == c.memReq # NotSet
  IN  [cpuReq |-> IF cpuSet THEN want.cpu ELSE c.cpuReq,
       memReq |-> IF memSet THEN want.mem ELSE c.memReq,
       cpuLim |-> IF cpuSet THEN TargetLimit(want.cpu, c.cpuLim, c.cpuReq, slip)
                  ELSE c.cpuLim,
       memLim |-> IF memSet THEN TargetLimit(want.mem, c.memLim, c.memReq, slip)
                  ELSE c.memLim]
============================================================================
