-------------------------- MODULE ResizingProofs --------------------------
(***************************************************************************)
(* Safety of one pod's sizing for every template, bounds, policy, HPA and  *)
(* sequence of metrics: the theorems rest on the arithmetic of             *)
(* PlannerProofs and on an invariant that ties the pod to its QoS class    *)
(* and the recommendations in flight to their bounds.                      *)
(***************************************************************************)
EXTENDS Resizing, PlannerProofs

\* The QoS class is that of the pod: the API server refuses to change it.
ClassOK == qos = QOSClass(pod)

\* Recommendations within the bounds of their containers.
Bounded(recs) ==
  \A n \in DOMAIN recs : /\ InBounds(recs[n].cpu, CPUBounds[n])
                         /\ InBounds(recs[n].mem, MemBounds[n])

\* What the HPA needs of a container leaves its target below the max: no HPA at
\* all, or one whose floors fit.
FloorsFit ==
  \A h \in HPAs, r \in Readings, n \in Containers : h.present =>
    /\ RequestFloor(r.usage.cpu, h.cpu, h.headroom) <= CPUBounds[n].max
    /\ RequestFloor(r.usage.mem, h.mem, h.headroom) <= MemBounds[n].max

BoundsOK == Bounded(status) /\ Bounded(local) /\ SizedWithinBounds

Inv == TypeOK /\ RequestsUnderLimits /\ ClassOK

---------------------------------------------------------------------------
(* The recommendation half of a pass.                                      *)

\* Metrics are readings of some of the containers.
LEMMA MetricsType ==
  ASSUME NEW obs \in Metrics
  PROVE  /\ DOMAIN obs \subseteq Containers
         /\ \A n \in DOMAIN obs : /\ obs[n] \in Readings
                                 /\ obs[n].raw \in Targets /\ obs[n].usage \in Targets
<1>1. PICK S \in SUBSET Containers : obs \in [S -> Readings]
  BY DEF Metrics
<1> QED
  BY <1>1, ResizingAssumption

\* What a pass recommends are targets, within bounds if those it keeps are.
LEMMA RecommendedType ==
  ASSUME TypeOK, NEW obs \in Metrics
  PROVE  /\ IsRecs(Recommended(obs))
         /\ Bounded(status) => Bounded(Recommended(obs))
<1> DEFINE fresh == [n \in DOMAIN obs \ OffContainers |->
                       Recommend(obs[n].raw, CPUBounds[n], MemBounds[n])]
<1>1. \A n \in DOMAIN obs \ OffContainers :
        /\ Recommend(obs[n].raw, CPUBounds[n], MemBounds[n]) \in Targets
        /\ InBounds(Recommend(obs[n].raw, CPUBounds[n], MemBounds[n]).cpu, CPUBounds[n])
        /\ InBounds(Recommend(obs[n].raw, CPUBounds[n], MemBounds[n]).mem, MemBounds[n])
  BY MetricsType, RecommendInBounds, ResizingAssumption
<1>2. IsRecs(fresh) /\ Bounded(fresh)
  BY <1>1, MetricsType DEF IsRecs, Bounded
<1>3. Recommended(obs) = IF DOMAIN fresh = {} THEN status ELSE fresh
  BY DEF Recommended
<1> HIDE DEF fresh
<1> QED
  BY <1>2, <1>3 DEF TypeOK

\* Flooring for an HPA keeps targets, and their bounds where its floors fit.
LEMMA CoordinatedType ==
  ASSUME NEW recs, IsRecs(recs), NEW obs \in Metrics, NEW hpa \in HPAs
  PROVE  /\ IsRecs(Coordinated(recs, obs, hpa))
         /\ DOMAIN Coordinated(recs, obs, hpa) = DOMAIN recs
         /\ FloorsFit /\ Bounded(recs) => Bounded(Coordinated(recs, obs, hpa))
         /\ \A n \in DOMAIN recs \cap DOMAIN obs : hpa.present =>
              Coordinated(recs, obs, hpa)[n] = FloorTarget(recs[n], obs[n].usage, hpa)
<1>1. hpa.cpu \in Nat /\ hpa.mem \in Nat /\ hpa.headroom \in Nat
  BY ResizingAssumption DEF HPASet
<1>2. \A n \in DOMAIN recs \cap DOMAIN obs :
        FloorTarget(recs[n], obs[n].usage, hpa) \in Targets
  BY <1>1, MetricsType, FloorTargetFacts DEF IsRecs
<1>3. \A n \in DOMAIN recs : Coordinated(recs, obs, hpa)[n] \in Targets
  BY <1>2 DEF Coordinated, IsRecs
<1>4. DOMAIN Coordinated(recs, obs, hpa) = DOMAIN recs
  BY DEF Coordinated
<1>5. IsRecs(Coordinated(recs, obs, hpa))
  BY <1>3, <1>4 DEF IsRecs, Coordinated
<1>6. ASSUME FloorsFit, Bounded(recs) PROVE Bounded(Coordinated(recs, obs, hpa))
  <2>1. ASSUME NEW n \in DOMAIN recs \cap DOMAIN obs, hpa.present
        PROVE  /\ InBounds(FloorTarget(recs[n], obs[n].usage, hpa).cpu, CPUBounds[n])
               /\ InBounds(FloorTarget(recs[n], obs[n].usage, hpa).mem, MemBounds[n])
    <3> DEFINE u == obs[n].usage
               cpuFloor == RequestFloor(u.cpu, hpa.cpu, hpa.headroom)
               memFloor == RequestFloor(u.mem, hpa.mem, hpa.headroom)
    <3>1. /\ n \in Containers /\ obs[n] \in Readings
          /\ u.cpu \in Nat /\ u.mem \in Nat
          /\ recs[n].cpu \in Nat /\ recs[n].mem \in Nat
      BY <2>1, MetricsType DEF IsRecs, Targets
    <3>2. cpuFloor \in Nat /\ memFloor \in Nat
      BY <1>1, <3>1, FloorEnough
    <3>3. cpuFloor <= CPUBounds[n].max /\ memFloor <= MemBounds[n].max
      BY <1>6, <2>1, <3>1 DEF FloorsFit
    <3>4. InBounds(recs[n].cpu, CPUBounds[n]) /\ InBounds(recs[n].mem, MemBounds[n])
      BY <1>6, <2>1 DEF Bounded
    <3>5. /\ CPUBounds[n].min \in Nat /\ CPUBounds[n].max \in Nat
          /\ MemBounds[n].min \in Nat /\ MemBounds[n].max \in Nat
      BY <3>1, ResizingAssumption DEF Bounds
    <3>6. /\ FloorTarget(recs[n], u, hpa).cpu \in {cpuFloor, recs[n].cpu}
          /\ FloorTarget(recs[n], u, hpa).cpu >= recs[n].cpu
          /\ FloorTarget(recs[n], u, hpa).mem \in {memFloor, recs[n].mem}
          /\ FloorTarget(recs[n], u, hpa).mem >= recs[n].mem
      <4> HIDE DEF u
      <4> QED
        BY <3>1, <3>2 DEF FloorTarget
    <3> HIDE DEF cpuFloor, memFloor
    <3> QED
      BY <3>1, <3>2, <3>3, <3>4, <3>5, <3>6 DEF InBounds
  <2> QED
    BY <1>6, <2>1 DEF Coordinated, Bounded
<1>7. \A n \in DOMAIN recs \cap DOMAIN obs : hpa.present =>
        Coordinated(recs, obs, hpa)[n] = FloorTarget(recs[n], obs[n].usage, hpa)
  BY DEF Coordinated
<1> QED
  BY <1>4, <1>5, <1>6, <1>7

---------------------------------------------------------------------------
(* The actuation half.                                                     *)

\* In a Guaranteed pod every memory limit is the request.
LEMMA GuaranteedPinned ==
  ASSUME ClassOK, qos = "Guaranteed", TypeOK
  PROVE  \A n \in Containers : pod[n].memReq = pod[n].memLim
<1>1. DOMAIN pod = Containers
  BY DEF TypeOK
<1> QED
  BY <1>1 DEF ClassOK, QOSClass

\* Where one container may go in one resize.
Bumped(n, new) == /\ new.cpuReq = pod[n].cpuReq
                  /\ pod[n].memReq <= new.memReq /\ new.memReq <= MemBounds[n].max
Stepped(n, new, targets) ==
  /\ n \in DOMAIN targets
  /\ Between(new.cpuReq, pod[n].cpuReq, targets[n].cpu)
  /\ Between(new.memReq, pod[n].memReq, targets[n].mem)
  /\ n \in oom /\ pod[n].memReq < MemMax[n] => pod[n].memReq <= new.memReq
Sound(n, new) == /\ new \in Resources /\ RequestsUnder(new)
                 /\ pod[n].memLim <= new.memLim

\* Every container of a plan is sound, and is bumped or stepped.
LEMMA PlanOfFacts ==
  ASSUME Inv, NEW targets, IsRecs(targets), NEW slip \in {0, 1}
  PROVE  /\ DOMAIN PlanOf(targets, slip) \subseteq Containers
         /\ \A n \in DOMAIN PlanOf(targets, slip) :
              LET new == PlanOf(targets, slip)[n]
              IN  Sound(n, new) /\ (Bumped(n, new) \/ Stepped(n, new, targets))
<1> DEFINE g == (qos = "Guaranteed")
           bumped(n) == OOMMemory(pod[n].memReq, MemMax[n])
           due == {n \in DOMAIN pod \cap oom : /\ pod[n].memReq # NotSet
                                               /\ pod[n].cpuReq # NotSet
                                               /\ bumped(n) > pod[n].memReq}
<1>1. /\ pod \in [Containers -> Resources] /\ DOMAIN pod = Containers /\ g \in BOOLEAN
      /\ \A n \in Containers : RequestsUnder(pod[n]) /\ (g => pod[n].memReq = pod[n].memLim)
  BY GuaranteedPinned DEF Inv, TypeOK, RequestsUnderLimits
<1>2. \A n \in Containers : MemMax[n] = MemBounds[n].max /\ MemMax[n] \in Nat
  BY ResizingAssumption DEF MemMax, Bounds
<1>3. Policy \in Policies
  BY ResizingAssumption
<1>4. BumpPlan(slip) = [n \in due |-> PlanLimits(pod[n], pod[n].cpuReq, bumped(n), Policy, g, slip)]
  BY DEF BumpPlan, PlanOOMBump
<1>5. CASE DOMAIN BumpPlan(slip) # {}
  <2>1. PlanOf(targets, slip) = BumpPlan(slip)
    BY <1>5 DEF PlanOf
  <2>2. ASSUME NEW n \in due
        PROVE  Sound(n, BumpPlan(slip)[n]) /\ Bumped(n, BumpPlan(slip)[n])
    <3>1. /\ n \in Containers /\ pod[n] \in Resources /\ RequestsUnder(pod[n])
          /\ pod[n].cpuReq # NotSet /\ pod[n].memReq # NotSet
          /\ OOMMemory(pod[n].memReq, MemMax[n]) > pod[n].memReq
          /\ g => pod[n].memReq = pod[n].memLim
      BY <1>1
    <3>2. BumpPlan(slip)[n] =
            PlanLimits(pod[n], pod[n].cpuReq, OOMMemory(pod[n].memReq, MemMax[n]), Policy, g, slip)
      BY <1>4
    <3> DEFINE new == BumpPlan(slip)[n]
    <3> HIDE DEF g, due, new
    <3>3. /\ new \in Resources /\ RequestsUnder(new)
          /\ new.cpuReq = pod[n].cpuReq
          /\ pod[n].memReq <= new.memReq /\ new.memReq <= MemMax[n]
          /\ pod[n].memLim <= new.memLim
      <4>1. MemMax[n] \in Nat /\ g \in BOOLEAN
        BY <1>1, <1>2, <3>1
      <4>2. new = PlanLimits(pod[n], pod[n].cpuReq, OOMMemory(pod[n].memReq, MemMax[n]),
                             Policy, g, slip)
        BY <3>2 DEF new
      <4> QED
        BY <1>3, <3>1, <4>1, <4>2, BumpFacts
    <3> QED
      BY <1>2, <3>1, <3>3 DEF Sound, Bumped, new
  <2>3. DOMAIN BumpPlan(slip) = due /\ due \subseteq Containers
    BY <1>1, <1>4
  <2> QED
    BY <2>1, <2>2, <2>3
<1>6. CASE DOMAIN BumpPlan(slip) = {}
  <2> DEFINE new(n) == PlanContainer(pod[n], targets[n], Policy, g, slip)
             plan == PlanPod(pod, qos, targets, Policy, slip)
  <2>1. PlanOf(targets, slip) = plan
    BY <1>6 DEF PlanOf
  <2>2. \A n \in DOMAIN plan : n \in Containers \cap DOMAIN targets /\ plan[n] = new(n) /\ new(n) # pod[n]
    BY <1>1 DEF PlanPod
  <2>3. due = {}
    BY <1>4, <1>6
  <2>4. ASSUME NEW n \in DOMAIN plan
        PROVE  Sound(n, plan[n]) /\ Stepped(n, plan[n], targets)
    <3>1. /\ n \in Containers /\ n \in DOMAIN targets /\ targets[n] \in Targets
          /\ plan[n] = PlanContainer(pod[n], targets[n], Policy, g, slip) /\ plan[n] # pod[n]
      BY <2>2, <2>4 DEF IsRecs
    <3>2. pod[n] \in Resources /\ RequestsUnder(pod[n]) /\ (g => pod[n].memReq = pod[n].memLim)
      BY <1>1, <3>1
    <3> HIDE DEF plan, g
    <3>3. /\ plan[n] \in Resources /\ RequestsUnder(plan[n])
          /\ pod[n].cpuReq \in Positive /\ pod[n].memReq \in Positive
          /\ plan[n].cpuReq \in Positive /\ plan[n].memReq \in Positive
          /\ Between(plan[n].cpuReq, pod[n].cpuReq, targets[n].cpu)
          /\ Between(plan[n].memReq, pod[n].memReq, targets[n].mem)
          /\ pod[n].memLim <= plan[n].memLim
      BY <1>1, <1>3, <3>1, <3>2, PlanContainerFacts
    <3>4. ASSUME n \in oom, pod[n].memReq < MemMax[n]
          PROVE  pod[n].memReq <= plan[n].memReq
      <4>1. ~(bumped(n) > pod[n].memReq)
        BY <1>1, <2>3, <3>1, <3>3, <3>4 DEF Positive, NotSet
      <4>2. pod[n].memReq = 1
        BY <1>2, <3>1, <3>3, <3>4, <4>1 DEF OOMMemory, Positive
      <4> QED
        BY <3>3, <4>2 DEF Positive
    <3> QED
      BY <3>1, <3>3, <3>4 DEF Sound, Stepped
  <2> QED
    BY <2>1, <2>2, <2>4
<1> QED
  BY <1>5, <1>6

\* A resize moves every container soundly, or leaves it alone.
LEMMA ResizeMoves ==
  ASSUME Inv, NEW targets, IsRecs(targets), NEW slip \in {0, 1}, Resize(targets, slip)
  PROVE  /\ pod' \in [Containers -> Resources]
         /\ \A n \in Containers :
              \/ pod'[n] = pod[n]
              \/ /\ Sound(n, pod'[n])
                 /\ Bumped(n, pod'[n]) \/ Stepped(n, pod'[n], targets)
<1> DEFINE plan == PlanOf(targets, slip)
<1>1. CASE pod' = pod
  BY <1>1 DEF Inv, TypeOK
<1>2. CASE pod' = Patched(pod, plan)
  <2>1. \A n \in DOMAIN plan :
          Sound(n, plan[n]) /\ (Bumped(n, plan[n]) \/ Stepped(n, plan[n], targets))
    BY PlanOfFacts
  <2> HIDE DEF plan
  <2>2. pod \in [Containers -> Resources] /\ DOMAIN pod = Containers
    BY DEF Inv, TypeOK
  <2>3. pod' = [n \in Containers |-> IF n \in DOMAIN plan THEN plan[n] ELSE pod[n]]
    BY <1>2, <2>2 DEF Patched
  <2>4. \A n \in DOMAIN plan : plan[n] \in Resources
    BY <2>1 DEF Sound
  <2>5. pod' \in [Containers -> Resources]
    BY <2>2, <2>3, <2>4
  <2>6. \A n \in Containers : pod'[n] = IF n \in DOMAIN plan THEN plan[n] ELSE pod[n]
    BY <2>3
  <2> QED
    BY <2>1, <2>5, <2>6
<1>3. pod' = pod \/ pod' = Patched(pod, plan)
  BY DEF Resize
<1> QED
  BY <1>1, <1>2, <1>3

\* A new pod: the template or a published target, acceptable to the API server.
LEMMA InjectedFacts ==
  ASSUME TypeOK, NEW slip \in {0, 1}
  PROVE  /\ Injected(slip) \in [Containers -> Resources]
         /\ \A n \in Containers :
              /\ RequestsUnder(Injected(slip)[n])
              /\ \/ Injected(slip)[n] = Template[n]
                 \/ /\ n \in DOMAIN status
                    /\ Injected(slip)[n].cpuReq \in {Template[n].cpuReq, status[n].cpu}
                    /\ Injected(slip)[n].memReq \in {Template[n].memReq, status[n].mem}
<1>1. /\ Template \in [Containers -> Resources]
      /\ \A n \in Containers : RequestsUnder(Template[n])
  BY ResizingAssumption
<1>2. CASE Injected(slip) = Template
  BY <1>1, <1>2
<1>3. CASE Injected(slip) = [n \in Containers |-> IF n \in DOMAIN status
                                THEN ApplyTarget(Template[n], status[n], slip)
                                ELSE Template[n]]
  <2>1. ASSUME NEW n \in Containers, n \in DOMAIN status
        PROVE  LET new == ApplyTarget(Template[n], status[n], slip)
               IN  /\ new \in Resources /\ RequestsUnder(new)
                   /\ new.cpuReq \in {Template[n].cpuReq, status[n].cpu}
                   /\ new.memReq \in {Template[n].memReq, status[n].mem}
    <3>1. status[n] \in Targets /\ Template[n] \in Resources /\ RequestsUnder(Template[n])
      BY <1>1, <2>1 DEF TypeOK, IsRecs
    <3> QED
      BY <3>1, ApplyTargetFacts
  <2>2. \A n \in Containers : Injected(slip)[n] =
          IF n \in DOMAIN status THEN ApplyTarget(Template[n], status[n], slip) ELSE Template[n]
    BY <1>3
  <2>3. Injected(slip) \in [Containers -> Resources]
    BY <1>1, <1>3, <2>1
  <2> QED
    BY <1>1, <2>1, <2>2, <2>3
<1> QED
  BY <1>2, <1>3 DEF Injected

---------------------------------------------------------------------------
(* The invariant.                                                          *)

\* The conjuncts of TypeOK about the pod and about the pass.
PodTypes == /\ pod \in [Containers -> Resources]
            /\ alive \in BOOLEAN /\ refused \in BOOLEAN
            /\ qos \in QoS
            /\ resize \in {"none", "pending", "infeasible"}
            /\ oom \subseteq Containers
PassTypes == /\ IsRecs(status) /\ IsRecs(local)
             /\ pc \in {"idle", "patch"}
             /\ seen.hpa \in HPASet /\ IsRecs(seen.usage)

LEMMA TypeParts == TypeOK <=> PodTypes /\ PassTypes
BY DEF TypeOK, PodTypes, PassTypes

\* No recommendations are recommendations, and within any bounds.
LEMMA NoRecsFacts == IsRecs(NoRecs) /\ Bounded(NoRecs)
BY DEF IsRecs, NoRecs, Bounded

\* Before a pass has read anything.
LEMMA UnreadType == Unread.hpa \in HPASet /\ IsRecs(Unread.usage) /\ ~Unread.hpa.present
BY NoRecsFacts DEF Unread, NoHPA, HPASet

\* A pod has one of the three QoS classes.
LEMMA ClassType == ASSUME NEW p PROVE QOSClass(p) \in QoS
BY DEF QOSClass, QoS

\* What a pass reads has the type of usage.
LEMMA ReadType ==
  ASSUME NEW obs \in Metrics, NEW hpa \in HPAs, Read(obs, hpa)
  PROVE  seen'.hpa \in HPASet /\ IsRecs(seen'.usage)
<1>1. hpa \in HPASet
  BY ResizingAssumption
<1>2. IsRecs([n \in DOMAIN obs |-> obs[n].usage])
  BY MetricsType DEF IsRecs
<1> QED
  BY <1>1, <1>2 DEF Read

\* The invariant holds initially: the pod is the template.
LEMMA InvInit == Init => Inv
<1> SUFFICES ASSUME Init PROVE Inv
  OBVIOUS
<1>1. PodTypes
  BY ResizingAssumption, NoRecsFacts, ClassType DEF Init, PodTypes
<1>2. PassTypes
  BY NoRecsFacts, UnreadType DEF Init, PassTypes
<1>3. RequestsUnderLimits /\ ClassOK
  BY ResizingAssumption DEF Init, RequestsUnderLimits, ClassOK
<1> QED
  BY <1>1, <1>2, <1>3, TypeParts DEF Inv

\* Steps that leave the pod alone keep what is said of it.
LEMMA PodFramed ==
  ASSUME Inv, UNCHANGED podVars, PassTypes'
  PROVE  Inv'
<1>1. PodTypes'
  BY TypeParts DEF Inv, podVars, PodTypes
<1>2. TypeOK'
  BY <1>1 DEF TypeOK, PodTypes, PassTypes
<1>3. RequestsUnderLimits' /\ ClassOK'
  BY DEF Inv, podVars, RequestsUnderLimits, ClassOK
<1> QED
  BY <1>2, <1>3 DEF Inv

\* Steps that leave the pass alone keep the types of its variables.
LEMMA PassFramed ==
  ASSUME Inv, UNCHANGED <<status, local, pc, seen>>
  PROVE  PassTypes'
BY TypeParts DEF Inv, PassTypes

\* Every step of the controller, the webhook, the kubelet and the cluster keeps
\* the invariant.
LEMMA InvStep == Inv /\ [Next]_vars => Inv'
<1> SUFFICES ASSUME Inv, [Next]_vars PROVE Inv'
  OBVIOUS
<1>1. TypeOK /\ PodTypes /\ PassTypes
  BY TypeParts DEF Inv
<1>2. ASSUME NEW obs \in Metrics, NEW hpa \in HPAs, NEW slip \in {0, 1},
             PassResize(obs, hpa, slip)
      PROVE  Inv'
  <2> DEFINE targets == Coordinated(Recommended(obs), obs, hpa)
  <2>1. IsRecs(targets)
    BY <1>1, RecommendedType, CoordinatedType
  <2>2. /\ Resize(targets, slip) /\ local' = targets /\ pc' = "patch"
        /\ Read(obs, hpa) /\ status' = status
    BY <1>2 DEF PassResize
  <2> HIDE DEF targets
  <2>3. PassTypes'
    BY <1>1, <2>1, <2>2, ReadType DEF PassTypes
  <2>4. /\ pod' \in [Containers -> Resources]
        /\ \A n \in Containers : pod'[n] = pod[n] \/ RequestsUnder(pod'[n])
    BY <2>1, <2>2, ResizeMoves DEF Sound
  <2>5. refused' \in BOOLEAN /\ alive' \in BOOLEAN
    BY <1>1, <2>2, Zenon DEF Resize, PodTypes
  <2>6. resize' \in {"none", "pending", "infeasible"}
    BY <1>1, <2>2 DEF Resize, PodTypes
  <2>7. qos' = qos /\ oom' = oom
    BY <2>2 DEF Resize
  <2>8. TypeOK'
    BY <1>1, <2>3, <2>4, <2>5, <2>6, <2>7 DEF TypeOK, PassTypes, PodTypes
  <2>9. RequestsUnderLimits'
    BY <2>4 DEF Inv, RequestsUnderLimits
  <2>10. ClassOK'
    BY <2>2 DEF Inv, ClassOK, Resize, Accepted
  <2> QED
    BY <2>8, <2>9, <2>10 DEF Inv
<1>3. ASSUME NEW obs \in Metrics, NEW hpa \in HPAs, PassEvict(obs, hpa)
      PROVE  Inv'
  <2> DEFINE targets == Coordinated(Recommended(obs), obs, hpa)
  <2>1. IsRecs(targets)
    BY <1>1, RecommendedType, CoordinatedType
  <2>2. /\ Evict(targets) /\ local' = targets /\ pc' = "patch"
        /\ Read(obs, hpa) /\ status' = status
    BY <1>3 DEF PassEvict
  <2> HIDE DEF targets
  <2>3. PassTypes'
    BY <1>1, <2>1, <2>2, ReadType DEF PassTypes
  <2>4. PodTypes'
    BY <1>1, <2>1, <2>2 DEF Evict, PodTypes
  <2>5. RequestsUnderLimits' /\ ClassOK'
    BY <2>2 DEF Inv, Evict, RequestsUnderLimits, ClassOK
  <2> QED
    BY <2>3, <2>4, <2>5 DEF Inv, TypeOK, PodTypes, PassTypes
<1>4. ASSUME NEW obs \in Metrics, NEW hpa \in HPAs, PassHold(obs, hpa) \/ PassPaused(obs, hpa)
      PROVE  Inv'
  <2>1. IsRecs(Recommended(obs)) /\ IsRecs(Coordinated(Recommended(obs), obs, hpa))
    BY <1>1, RecommendedType, CoordinatedType
  <2>2. /\ local' \in {Recommended(obs), Coordinated(Recommended(obs), obs, hpa)}
        /\ pc' = "patch" /\ Read(obs, hpa) /\ status' = status /\ UNCHANGED podVars
    BY <1>4 DEF PassHold, PassPaused
  <2>3. PassTypes'
    BY <1>1, <2>1, <2>2, ReadType DEF PassTypes
  <2> QED
    BY <2>2, <2>3, PodFramed
<1>5. CASE PatchStatus \/ PatchFailed
  <2>1. PassTypes'
    BY <1>1, <1>5, NoRecsFacts, UnreadType DEF PatchStatus, PatchFailed, PassTypes
  <2> QED
    BY <1>5, <2>1, PodFramed DEF PatchStatus, PatchFailed
<1>6. ASSUME NEW slip \in {0, 1}, Admit(slip)
      PROVE  Inv'
  <2>1. PassTypes'
    BY <1>6, PassFramed DEF Admit, AdmitAs
  <2>2. /\ pod' = Injected(slip) /\ qos' = QOSClass(Injected(slip))
        /\ Injected(slip) \in [Containers -> Resources]
        /\ \A n \in Containers : RequestsUnder(Injected(slip)[n])
    BY <1>1, <1>6, InjectedFacts DEF Admit, AdmitAs
  <2>3. PodTypes'
    BY <1>1, <1>6, <2>2, ClassType, NoRecsFacts DEF Admit, AdmitAs, PodTypes
  <2>4. RequestsUnderLimits' /\ ClassOK'
    BY <2>2 DEF RequestsUnderLimits, ClassOK
  <2> QED
    BY <2>1, <2>3, <2>4 DEF Inv, TypeOK, PodTypes, PassTypes
<1>9. CASE AdmitUntouched
  <2>1. PassTypes'
    BY <1>9, PassFramed DEF AdmitUntouched, AdmitAs
  <2>2. /\ pod' = Template /\ qos' = QOSClass(Template)
        /\ Template \in [Containers -> Resources]
        /\ \A n \in Containers : RequestsUnder(Template[n])
    BY <1>9, ResizingAssumption DEF AdmitUntouched, AdmitAs
  <2>3. PodTypes'
    BY <1>1, <1>9, <2>2, ClassType, NoRecsFacts DEF AdmitUntouched, AdmitAs, PodTypes
  <2>4. RequestsUnderLimits' /\ ClassOK'
    BY <2>2 DEF RequestsUnderLimits, ClassOK
  <2> QED
    BY <2>1, <2>3, <2>4 DEF Inv, TypeOK, PodTypes, PassTypes
<1>7. CASE Environment
  <2>1. PassTypes'
    <3>1. UNCHANGED <<status, local, pc, seen>>
      BY <1>7 DEF Environment, PodDeleted, KubeletVerdict, CapacityFreed, OOMKill, OOMForgotten
    <3> QED
      BY <3>1, PassFramed
  <2>2. pod' = pod /\ qos' = qos
    BY <1>7 DEF Environment, PodDeleted, KubeletVerdict, CapacityFreed, OOMKill, OOMForgotten
  <2>3. PodTypes'
    BY <1>1, <1>7 DEF Environment, PodDeleted, KubeletVerdict, CapacityFreed, OOMKill,
                      OOMForgotten, PodTypes
  <2>4. RequestsUnderLimits' /\ ClassOK'
    BY <2>2 DEF Inv, RequestsUnderLimits, ClassOK
  <2> QED
    BY <2>1, <2>3, <2>4 DEF Inv, TypeOK, PodTypes, PassTypes
<1>8. CASE UNCHANGED vars
  BY <1>8, PassFramed, PodFramed DEF vars, podVars
<1> QED
  BY <1>2, <1>3, <1>4, <1>5, <1>6, <1>7, <1>8, <1>9 DEF Next, Pass, Slips

\* The invariant holds in every reachable state.
LEMMA Invariance == Spec => []Inv
BY InvInit, InvStep, PTL DEF Spec

---------------------------------------------------------------------------
(* Theorems.                                                               *)

\* The variables of the pass, the pod and the webhook keep their types.
THEOREM TypeCorrect == Spec => []TypeOK
<1>1. Inv => TypeOK
  BY DEF Inv
<1> QED
  BY <1>1, Invariance, PTL

\* Whatever plan, bump or injection is made, and wherever the float rounding of
\* a limit lands, no request exceeds its limit.
THEOREM SpecsAccepted == Spec => []RequestsUnderLimits
<1>1. Inv => RequestsUnderLimits
  BY DEF Inv
<1> QED
  BY <1>1, Invariance, PTL

\* A living pod changes only in the pass that resizes it.
LEMMA OnlyResizeMoves ==
  ASSUME Inv, [Next]_vars, alive, alive'
  PROVE  \/ pod' = pod /\ (seen' = seen \/ seen' = Unread)
         \/ pod' = pod /\ UNCHANGED oom
         \/ \E obs \in Metrics, hpa \in HPAs, slip \in {0, 1} : PassResize(obs, hpa, slip)
<1>1. ASSUME NEW obs \in Metrics, NEW hpa \in HPAs,
             PassHold(obs, hpa) \/ PassPaused(obs, hpa) \/ PassEvict(obs, hpa)
      PROVE  pod' = pod /\ UNCHANGED oom
  BY <1>1 DEF PassHold, PassPaused, PassEvict, Evict, podVars
<1>2. CASE PatchStatus \/ PatchFailed
  BY <1>2 DEF PatchStatus, PatchFailed, podVars
<1>3. CASE AdmitUntouched \/ \E slip \in Slips : Admit(slip)
  BY <1>3 DEF Admit, AdmitUntouched, AdmitAs
<1>4. CASE Environment
  BY <1>4 DEF Environment, PodDeleted, KubeletVerdict, CapacityFreed, OOMKill, OOMForgotten
<1>5. CASE UNCHANGED vars
  BY <1>5 DEF vars
<1> QED
  BY <1>1, <1>2, <1>3, <1>4, <1>5 DEF Next, Pass, Slips

\* In that pass every container is left alone, bumped or stepped.
LEMMA PassMoves ==
  ASSUME Inv, NEW obs \in Metrics, NEW hpa \in HPAs, NEW slip \in {0, 1},
         PassResize(obs, hpa, slip)
  PROVE  \A n \in Containers :
           \/ pod'[n] = pod[n]
           \/ /\ Sound(n, pod'[n])
              /\ Bumped(n, pod'[n]) \/ Stepped(n, pod'[n], Coordinated(Recommended(obs), obs, hpa))
<1>1. IsRecs(Coordinated(Recommended(obs), obs, hpa))
  BY RecommendedType, CoordinatedType DEF Inv
<1>2. Resize(Coordinated(Recommended(obs), obs, hpa), slip)
  BY DEF PassResize
<1> QED
  BY <1>1, <1>2, ResizeMoves

\* A memory limit never decreases while its pod lives, for every policy and
\* every sequence of targets: the no-shrink rule of planLimits, and in a
\* Guaranteed pod the floor of planContainer at the current request.
THEOREM LimitsNeverShrink == Spec => MemLimitNeverShrinks
<1>1. Inv /\ [Next]_vars =>
        [\A n \in Containers : alive /\ alive' => pod'[n].memLim >= pod[n].memLim]_vars
  <2> SUFFICES ASSUME Inv, [Next]_vars, NEW n \in Containers, alive, alive'
               PROVE  pod'[n].memLim >= pod[n].memLim
    OBVIOUS
  <2>1. pod[n].memLim \in Nat
    BY DEF Inv, TypeOK, Resources
  <2>2. CASE pod' = pod
    BY <2>1, <2>2
  <2>3. ASSUME NEW obs \in Metrics, NEW hpa \in HPAs, NEW slip \in {0, 1},
               PassResize(obs, hpa, slip)
        PROVE  pod'[n].memLim >= pod[n].memLim
    <3>1. pod'[n] = pod[n] \/ Sound(n, pod'[n])
      BY <2>3, PassMoves
    <3> QED
      BY <2>1, <3>1 DEF Sound, Resources
  <2> QED
    BY <2>2, <2>3, OnlyResizeMoves
<1> QED
  BY <1>1, Invariance, PTL DEF Spec, MemLimitNeverShrinks

\* Below the memory max no pass lowers the memory of a container that was
\* OOMKilled within the lookback window: the fast path takes precedence.
THEOREM OOMRequestsStayRaised == Spec => OOMStaysRaised
<1>1. Inv /\ [Next]_vars =>
        [\A n \in oom \cap oom' : alive' /\ pod[n].memReq < MemMax[n] =>
           pod'[n].memReq >= pod[n].memReq]_vars
  <2> SUFFICES ASSUME Inv, [Next]_vars, NEW n \in oom \cap oom', alive',
                      pod[n].memReq < MemMax[n]
               PROVE  pod'[n].memReq >= pod[n].memReq
    OBVIOUS
  <2>1. n \in Containers /\ pod[n].memReq \in Nat
    BY DEF Inv, TypeOK, Resources
  <2>2. alive
    <3>1. CASE AdmitUntouched \/ \E slip \in Slips : Admit(slip)
      BY <3>1 DEF Admit, AdmitUntouched, AdmitAs
    <3>2. CASE alive' = alive
      BY <3>2
    <3>3. ASSUME NEW obs \in Metrics, NEW hpa \in HPAs,
                 \/ PassHold(obs, hpa) \/ PassPaused(obs, hpa) \/ PassEvict(obs, hpa)
                 \/ \E slip \in Slips : PassResize(obs, hpa, slip)
          PROVE  alive' = alive \/ ~alive'
      BY <3>3 DEF PassHold, PassPaused, PassEvict, PassResize, Resize, Evict, podVars
    <3>4. CASE PatchStatus \/ PatchFailed \/ Environment \/ UNCHANGED vars
      BY <3>4 DEF PatchStatus, PatchFailed, podVars, Environment, PodDeleted, KubeletVerdict,
                  CapacityFreed, OOMKill, OOMForgotten, vars
    <3> QED
      BY <3>1, <3>2, <3>3, <3>4 DEF Next, Pass
  <2>3. CASE pod' = pod
    BY <2>1, <2>3
  <2>4. ASSUME NEW obs \in Metrics, NEW hpa \in HPAs, NEW slip \in {0, 1},
               PassResize(obs, hpa, slip)
        PROVE  pod'[n].memReq >= pod[n].memReq
    <3>1. pod'[n] = pod[n] \/ /\ pod'[n] \in Resources
                              /\ pod[n].memReq <= pod'[n].memReq
      BY <2>1, <2>4, PassMoves DEF Sound, Bumped, Stepped
    <3> QED
      BY <2>1, <3>1 DEF Resources
  <2> QED
    BY <2>2, <2>3, <2>4, OnlyResizeMoves
<1> QED
  BY <1>1, Invariance, PTL DEF Spec, OOMStaysRaised

\* A product bound carries over to a larger factor.
LEMMA LeavesMore ==
  ASSUME NEW a \in Nat, NEW b \in Nat, a <= b, NEW use \in Nat,
         NEW target \in Nat, NEW headroom \in Nat, target > headroom,
         Leaves(a, use, target, headroom)
  PROVE  Leaves(b, use, target, headroom)
<1>1. target - headroom \in Nat
  OBVIOUS
<1>2. a * (target - headroom) <= b * (target - headroom)
  BY <1>1, ProductMonotonic
<1>3. a * (target - headroom) \in Nat /\ b * (target - headroom) \in Nat
  BY <1>1
<1> QED
  BY <1>2, <1>3 DEF Leaves

\* Where an HPA is present, the targets of the containers read leave headroom.
LEMMA TargetsLeave ==
  ASSUME TypeOK, NEW obs \in Metrics, NEW hpa \in HPAs, hpa.present,
         NEW n \in DOMAIN Recommended(obs) \cap DOMAIN obs
  PROVE  LET t == Coordinated(Recommended(obs), obs, hpa)[n]
             u == obs[n].usage
         IN  /\ t \in Targets /\ u \in Targets
             /\ hpa.cpu > hpa.headroom => Leaves(t.cpu, u.cpu, hpa.cpu, hpa.headroom)
             /\ hpa.mem > hpa.headroom => Leaves(t.mem, u.mem, hpa.mem, hpa.headroom)
<1> DEFINE t == Coordinated(Recommended(obs), obs, hpa)[n]
           u == obs[n].usage
           cf == RequestFloor(u.cpu, hpa.cpu, hpa.headroom)
           mf == RequestFloor(u.mem, hpa.mem, hpa.headroom)
<1>1. hpa.cpu \in Nat /\ hpa.mem \in Nat /\ hpa.headroom \in Nat
  BY ResizingAssumption DEF HPASet
<1>2. u \in Targets /\ Recommended(obs)[n] \in Targets
  BY MetricsType, RecommendedType DEF IsRecs
<1>3. t = FloorTarget(Recommended(obs)[n], u, hpa)
  BY RecommendedType, CoordinatedType
<1>4. t \in Targets /\ t.cpu >= cf /\ t.mem >= mf
  BY <1>1, <1>2, <1>3, FloorTargetFacts
<1>5. u.cpu \in Nat /\ u.mem \in Nat /\ t.cpu \in Nat /\ t.mem \in Nat
  BY <1>2, <1>4 DEF Targets
<1> HIDE DEF t, u
<1>6. /\ cf \in Nat /\ (hpa.cpu > hpa.headroom => Leaves(cf, u.cpu, hpa.cpu, hpa.headroom))
      /\ mf \in Nat /\ (hpa.mem > hpa.headroom => Leaves(mf, u.mem, hpa.mem, hpa.headroom))
  BY <1>1, <1>5, FloorEnough DEF Leaves
<1> HIDE DEF cf, mf
<1>7. /\ hpa.cpu > hpa.headroom => Leaves(t.cpu, u.cpu, hpa.cpu, hpa.headroom)
      /\ hpa.mem > hpa.headroom => Leaves(t.mem, u.mem, hpa.mem, hpa.headroom)
  BY <1>1, <1>4, <1>5, <1>6, LeavesMore
<1> QED
  BY <1>2, <1>4, <1>7 DEF t, u

\* For every HPA, usage and history of published targets: a downward resize
\* leaves the utilization of every container it has read at or below the
\* target minus the headroom.
THEOREM HeadroomHolds == Spec => HeadroomKept
<1> DEFINE Kept(n) ==
      LET h == seen'.hpa
          u == seen'.usage[n]
      IN  /\ h.cpu > h.headroom /\ pod'[n].cpuReq < pod[n].cpuReq =>
               Leaves(pod'[n].cpuReq, u.cpu, h.cpu, h.headroom)
          /\ h.mem > h.headroom /\ pod'[n].memReq < pod[n].memReq =>
               Leaves(pod'[n].memReq, u.mem, h.mem, h.headroom)
<1>1. ASSUME Inv, [Next]_vars, alive, alive', seen'.hpa.present, NEW n \in DOMAIN seen'.usage
      PROVE  Kept(n)
  <2>1. n \in Containers
    <3>1. Inv'
      BY <1>1, InvStep
    <3> QED
      BY <1>1, <3>1 DEF Inv, TypeOK, IsRecs
  <2>2. pod[n].cpuReq \in Nat /\ pod[n].memReq \in Nat
    BY <1>1, <2>1 DEF Inv, TypeOK, Resources
  <2>3. CASE pod' = pod
    BY <2>2, <2>3
  <2>4. ASSUME NEW obs \in Metrics, NEW hpa \in HPAs, NEW slip \in {0, 1},
               PassResize(obs, hpa, slip)
        PROVE  Kept(n)
    <3> DEFINE targets == Coordinated(Recommended(obs), obs, hpa)
    <3>1. seen'.hpa = hpa /\ n \in DOMAIN obs /\ seen'.usage[n] = obs[n].usage
      BY <1>1, <2>4 DEF PassResize, Read
    <3>2. CASE pod'[n] = pod[n]
      BY <2>2, <3>2
    <3>3. CASE Sound(n, pod'[n]) /\ Bumped(n, pod'[n])
      BY <2>2, <3>3 DEF Sound, Bumped, Resources
    <3>4. CASE Sound(n, pod'[n]) /\ Stepped(n, pod'[n], targets)
      <4>1. n \in DOMAIN Recommended(obs)
        BY <1>1, <3>4, RecommendedType, CoordinatedType DEF Stepped, Inv
      <4>2. /\ targets[n] \in Targets /\ obs[n].usage \in Targets
            /\ hpa.cpu > hpa.headroom =>
                 Leaves(targets[n].cpu, obs[n].usage.cpu, hpa.cpu, hpa.headroom)
            /\ hpa.mem > hpa.headroom =>
                 Leaves(targets[n].mem, obs[n].usage.mem, hpa.mem, hpa.headroom)
        BY <1>1, <3>1, <4>1, TargetsLeave DEF Inv
      <4>3. hpa.cpu \in Nat /\ hpa.mem \in Nat /\ hpa.headroom \in Nat
        BY ResizingAssumption DEF HPASet
      <4> HIDE DEF targets
      <4>4. /\ pod'[n].cpuReq \in Nat /\ pod'[n].memReq \in Nat
            /\ targets[n].cpu \in Nat /\ targets[n].mem \in Nat
            /\ obs[n].usage.cpu \in Nat /\ obs[n].usage.mem \in Nat
        BY <3>4, <4>2 DEF Sound, Resources, Targets
      <4>5. /\ pod'[n].cpuReq < pod[n].cpuReq => targets[n].cpu <= pod'[n].cpuReq
            /\ pod'[n].memReq < pod[n].memReq => targets[n].mem <= pod'[n].memReq
        BY <2>2, <3>4, <4>4 DEF Stepped, Between
      <4>6. /\ hpa.cpu > hpa.headroom /\ pod'[n].cpuReq < pod[n].cpuReq =>
                 Leaves(pod'[n].cpuReq, obs[n].usage.cpu, hpa.cpu, hpa.headroom)
            /\ hpa.mem > hpa.headroom /\ pod'[n].memReq < pod[n].memReq =>
                 Leaves(pod'[n].memReq, obs[n].usage.mem, hpa.mem, hpa.headroom)
        BY <4>2, <4>3, <4>4, <4>5, LeavesMore
      <4> QED
        BY <3>1, <4>6
    <3> QED
      BY <1>1, <2>1, <2>4, <3>2, <3>3, <3>4, PassMoves
  <2> QED
    BY <1>1, <2>3, <2>4, OnlyResizeMoves
<1>2. Inv /\ [Next]_vars =>
        [alive /\ alive' /\ seen'.hpa.present => \A n \in DOMAIN seen'.usage : Kept(n)]_vars
  BY <1>1
<1> QED
  BY <1>2, Invariance, PTL DEF Spec, HeadroomKept

---------------------------------------------------------------------------
(* Bounds, where the floors of an HPA fit.                                 *)

\* The range of a request: its bounds, widened by the template's value.
Sized(n, c) ==
  /\ Lower(CPUBounds[n].min, Template[n].cpuReq) <= c.cpuReq
  /\ c.cpuReq <= Higher(CPUBounds[n].max, Template[n].cpuReq)
  /\ Lower(MemBounds[n].min, Template[n].memReq) <= c.memReq
  /\ c.memReq <= Higher(MemBounds[n].max, Template[n].memReq)

\* The constants of a container are naturals, and its bounds are in order.
LEMMA RangeTypes ==
  ASSUME NEW n \in Containers
  PROVE  /\ CPUBounds[n].min \in Nat /\ CPUBounds[n].max \in Nat
         /\ MemBounds[n].min \in Nat /\ MemBounds[n].max \in Nat
         /\ CPUBounds[n].min <= CPUBounds[n].max /\ MemBounds[n].min <= MemBounds[n].max
         /\ Template[n].cpuReq \in Nat /\ Template[n].memReq \in Nat
BY ResizingAssumption DEF Bounds, Resources

\* Moving between a request in range and a target in bounds stays in range.
LEMMA MoveSized ==
  ASSUME Inv, NEW n \in Containers, Sized(n, pod[n]), NEW targets, IsRecs(targets),
         Bounded(targets), NEW new \in Resources,
         Bumped(n, new) \/ Stepped(n, new, targets)
  PROVE  Sized(n, new)
<1>1. /\ pod[n].cpuReq \in Nat /\ pod[n].memReq \in Nat
      /\ new.cpuReq \in Nat /\ new.memReq \in Nat
  BY DEF Inv, TypeOK, Resources
<1>2. CASE Bumped(n, new)
  BY <1>1, <1>2, RangeTypes DEF Bumped, Sized, Lower, Higher
<1>3. CASE Stepped(n, new, targets)
  <2>1. /\ targets[n].cpu \in Nat /\ targets[n].mem \in Nat
        /\ CPUBounds[n].min <= targets[n].cpu /\ targets[n].cpu <= CPUBounds[n].max
        /\ MemBounds[n].min <= targets[n].mem /\ targets[n].mem <= MemBounds[n].max
    BY <1>3 DEF Stepped, Bounded, InBounds, IsRecs, Targets
  <2>2. /\ Lower(CPUBounds[n].min, Template[n].cpuReq) <= new.cpuReq
        /\ new.cpuReq <= Higher(CPUBounds[n].max, Template[n].cpuReq)
    BY <1>1, <1>3, <2>1, RangeTypes DEF Stepped, Between, Sized, Lower, Higher
  <2>3. /\ Lower(MemBounds[n].min, Template[n].memReq) <= new.memReq
        /\ new.memReq <= Higher(MemBounds[n].max, Template[n].memReq)
    BY <1>1, <1>3, <2>1, RangeTypes DEF Stepped, Between, Sized, Lower, Higher
  <2> QED
    BY <2>2, <2>3 DEF Sized
<1> QED
  BY <1>2, <1>3

\* Every step keeps requests in range and recommendations within bounds.
LEMMA BoundsStep ==
  ASSUME FloorsFit, Inv, BoundsOK, [Next]_vars
  PROVE  BoundsOK'
<1> USE DEF BoundsOK
<1>1. SizedWithinBounds <=> \A n \in Containers : Sized(n, pod[n])
  BY DEF SizedWithinBounds, Sized
<1>2. SizedWithinBounds' <=> \A n \in Containers : Sized(n, pod'[n])
  BY DEF SizedWithinBounds, Sized
<1>3. ASSUME NEW obs \in Metrics, NEW hpa \in HPAs
      PROVE  /\ IsRecs(Recommended(obs)) /\ Bounded(Recommended(obs))
             /\ IsRecs(Coordinated(Recommended(obs), obs, hpa))
             /\ Bounded(Coordinated(Recommended(obs), obs, hpa))
  BY RecommendedType, CoordinatedType DEF Inv
<1>4. ASSUME UNCHANGED pod PROVE SizedWithinBounds'
  BY <1>1, <1>2, <1>4
<1>5. ASSUME NEW obs \in Metrics, NEW hpa \in HPAs, NEW slip \in {0, 1},
             PassResize(obs, hpa, slip)
      PROVE  BoundsOK'
  <2> DEFINE targets == Coordinated(Recommended(obs), obs, hpa)
  <2>1. /\ IsRecs(targets) /\ Bounded(targets) /\ Resize(targets, slip)
        /\ local' = targets /\ status' = status
    BY <1>3, <1>5 DEF PassResize
  <2>2. ASSUME NEW n \in Containers PROVE Sized(n, pod'[n])
    <3>1. CASE pod'[n] = pod[n]
      BY <1>1, <3>1
    <3>2. CASE Sound(n, pod'[n]) /\ (Bumped(n, pod'[n]) \/ Stepped(n, pod'[n], targets))
      <4>1. pod'[n] \in Resources /\ Sized(n, pod[n])
        BY <1>1, <3>2 DEF Sound
      <4> HIDE DEF targets
      <4> QED
        BY <2>1, <3>2, <4>1, MoveSized
    <3> QED
      BY <1>5, <3>1, <3>2, PassMoves
  <2> HIDE DEF targets
  <2>3. Bounded(status)' /\ Bounded(local)'
    BY <2>1 DEF Bounded
  <2> QED
    BY <1>2, <2>2, <2>3
<1>6. ASSUME NEW obs \in Metrics, NEW hpa \in HPAs,
             PassEvict(obs, hpa) \/ PassHold(obs, hpa) \/ PassPaused(obs, hpa)
      PROVE  BoundsOK'
  <2>1. /\ local' \in {Recommended(obs), Coordinated(Recommended(obs), obs, hpa)}
        /\ status' = status /\ pod' = pod
    BY <1>6 DEF PassEvict, PassHold, PassPaused, Evict, podVars
  <2>2. Bounded(status)' /\ Bounded(local)'
    BY <1>3, <2>1 DEF Bounded
  <2> QED
    BY <1>4, <2>1, <2>2
<1>7. CASE PatchStatus \/ PatchFailed
  <2>1. status' \in {status, local} /\ local' = NoRecs /\ pod' = pod
    BY <1>7 DEF PatchStatus, PatchFailed, podVars
  <2>2. Bounded(status)' /\ Bounded(local)'
    BY <2>1, NoRecsFacts DEF Bounded
  <2> QED
    BY <1>4, <2>1, <2>2
<1>8. ASSUME NEW slip \in {0, 1}, Admit(slip)
      PROVE  BoundsOK'
  <2>1. pod' = Injected(slip) /\ status' = status /\ local' = local
    BY <1>8 DEF Admit, AdmitAs
  <2>2. ASSUME NEW n \in Containers PROVE Sized(n, Injected(slip)[n])
    <3>1. CASE Injected(slip)[n] = Template[n]
      BY <3>1, RangeTypes DEF Sized, Lower, Higher
    <3>2. CASE /\ n \in DOMAIN status
               /\ Injected(slip)[n].cpuReq \in {Template[n].cpuReq, status[n].cpu}
               /\ Injected(slip)[n].memReq \in {Template[n].memReq, status[n].mem}
      <4>1. /\ status[n].cpu \in Nat /\ status[n].mem \in Nat
            /\ CPUBounds[n].min <= status[n].cpu /\ status[n].cpu <= CPUBounds[n].max
            /\ MemBounds[n].min <= status[n].mem /\ status[n].mem <= MemBounds[n].max
        BY <3>2 DEF Bounded, InBounds, Inv, TypeOK, IsRecs, Targets
      <4> QED
        BY <3>2, <4>1, RangeTypes DEF Sized, Lower, Higher
    <3> QED
      BY <3>1, <3>2, InjectedFacts DEF Inv
  <2>3. Bounded(status)' /\ Bounded(local)'
    BY <2>1 DEF Bounded
  <2> QED
    BY <1>2, <2>1, <2>2, <2>3
<1>10. CASE AdmitUntouched
  <2>1. pod' = Template /\ status' = status /\ local' = local
    BY <1>10 DEF AdmitUntouched, AdmitAs
  <2>2. ASSUME NEW n \in Containers PROVE Sized(n, Template[n])
    BY RangeTypes DEF Sized, Lower, Higher
  <2>3. Bounded(status)' /\ Bounded(local)'
    BY <2>1 DEF Bounded
  <2> QED
    BY <1>2, <2>1, <2>2, <2>3
<1>9. CASE Environment \/ UNCHANGED vars
  <2>1. pod' = pod /\ status' = status /\ local' = local
    BY <1>9 DEF Environment, PodDeleted, KubeletVerdict, CapacityFreed, OOMKill,
                OOMForgotten, vars
  <2>2. Bounded(status)' /\ Bounded(local)'
    BY <2>1 DEF Bounded
  <2> QED
    BY <1>4, <2>1, <2>2
<1> QED
  BY <1>5, <1>6, <1>7, <1>8, <1>9, <1>10 DEF Next, Pass, Slips

\* As long as what an HPA needs fits below the max, no sequence of resizes, bumps,
\* evictions and admissions takes a request out of its bounds further than the
\* template already is.
THEOREM BoundsHold ==
  ASSUME FloorsFit
  PROVE  Spec => []SizedWithinBounds
<1>1. Init => BoundsOK
  <2> SUFFICES ASSUME Init PROVE BoundsOK
    OBVIOUS
  <2>1. Bounded(status) /\ Bounded(local)
    BY NoRecsFacts DEF Init
  <2>2. SizedWithinBounds
    BY RangeTypes DEF Init, SizedWithinBounds, Lower, Higher
  <2> QED
    BY <2>1, <2>2 DEF BoundsOK
<1>2. Inv /\ BoundsOK /\ [Next]_vars => BoundsOK'
  BY BoundsStep
<1>3. BoundsOK => SizedWithinBounds
  BY DEF BoundsOK
<1> QED
  BY <1>1, <1>2, <1>3, Invariance, PTL DEF Spec
---------------------------------------------------------------------------
(* The QoS class.                                                          *)

\* A container that keeps its pod from being Guaranteed: a quantity is not set,
\* or a memory limit that scales with its request lies above it.
Unfull(c) == NotSet \in {c.cpuReq, c.memReq, c.cpuLim, c.memLim}
Apart(c) == Unfull(c) \/ (~Policy.requestsOnly /\ c.memReq < c.memLim)

\* The gap of a template's memory limit survives the smallest request allowed:
\* scaled to it, the gap is still more than one unit.
GapKept(n) ==
  /\ ~Policy.requestsOnly
  /\ Template[n].memReq < Template[n].memLim
  /\ Template[n].memReq < MemBounds[n].min * (Template[n].memLim - Template[n].memReq)

\* What the theorem asks of a Burstable template.
Steady == \/ QOSClass(Template) # "Burstable"
          \/ \E n \in Containers : Unfull(Template[n]) \/ GapKept(n)

\* No plan can make a Burstable pod Guaranteed.
Settled == QOSClass(pod) = "Burstable" => \E n \in Containers : Apart(pod[n])

\* Memory targets are at least the min of their container.
Floored(recs) == \A n \in DOMAIN recs : MemBounds[n].min <= recs[n].mem

ClassInv == NeverRefused /\ Settled /\ Floored(status) /\ Floored(local)

\* planLimits keeps apart what was apart, unless the pod is Guaranteed.
LEMMA PlanKeepsApart ==
  ASSUME NEW c \in Resources, RequestsUnder(c), Apart(c),
         c.cpuReq \in Positive, c.memReq \in Positive,
         NEW cpu \in Positive, NEW mem \in Positive, NEW slip \in {0, 1}
  PROVE  Apart(PlanLimits(c, cpu, mem, Policy, FALSE, slip))
<1> DEFINE r == PlanLimits(c, cpu, mem, Policy, FALSE, slip)
<1>1. /\ c.cpuLim = NotSet => r.cpuLim = NotSet
      /\ c.memLim = NotSet => r.memLim = NotSet
      /\ ~Policy.requestsOnly /\ c.memReq < c.memLim => r.memReq < r.memLim
  <2>1. Policy \in Policies
    BY ResizingAssumption
  <2> HIDE DEF r
  <2>2. ASSUME NEW g \in BOOLEAN, r = PlanLimits(c, cpu, mem, Policy, g, slip), ~g
        PROVE  /\ c.cpuLim = NotSet => r.cpuLim = NotSet
               /\ c.memLim = NotSet => r.memLim = NotSet
               /\ ~Policy.requestsOnly /\ c.memReq < c.memLim => r.memReq < r.memLim
    BY <2>1, <2>2, PlanLimitsShape
  <2> QED
    BY <2>2 DEF r
<1>2. c.cpuReq # NotSet /\ c.memReq # NotSet
  BY DEF Positive, NotSet
<1> HIDE DEF r
<1>3. Apart(r)
  BY <1>1, <1>2 DEF Apart, Unfull
<1> QED
  BY <1>3 DEF r

\* Every entry of a plan is planLimits of positive requests, for a container
\* whose requests are set.
LEMMA PlanOfForm ==
  ASSUME Inv, NEW targets, IsRecs(targets), NEW slip \in {0, 1},
         NEW n \in DOMAIN PlanOf(targets, slip)
  PROVE  /\ n \in Containers /\ qos # "BestEffort"
         /\ pod[n] \in Resources /\ RequestsUnder(pod[n])
         /\ pod[n].cpuReq \in Positive /\ pod[n].memReq \in Positive
         /\ \E cpu \in Positive, mem \in Positive :
              PlanOf(targets, slip)[n] = PlanLimits(pod[n], cpu, mem, Policy, qos = "Guaranteed", slip)
<1> DEFINE g == (qos = "Guaranteed")
<1>1. /\ pod \in [Containers -> Resources] /\ DOMAIN pod = Containers /\ g \in BOOLEAN
      /\ \A m \in Containers : RequestsUnder(pod[m]) /\ pod[m] \in Resources
      /\ qos = QOSClass(pod)
  BY DEF Inv, TypeOK, RequestsUnderLimits, ClassOK
<1>2. Policy \in Policies
  BY ResizingAssumption
<1>3. CASE DOMAIN BumpPlan(slip) # {}
  <2> DEFINE b == OOMMemory(pod[n].memReq, MemMax[n])
  <2>1. PlanOf(targets, slip) = BumpPlan(slip)
    BY <1>3 DEF PlanOf
  <2>2. /\ n \in Containers /\ pod[n].memReq # NotSet /\ pod[n].cpuReq # NotSet
        /\ b > pod[n].memReq
        /\ PlanOf(targets, slip)[n] = PlanLimits(pod[n], pod[n].cpuReq, b, Policy, g, slip)
    BY <1>1, <2>1 DEF BumpPlan, PlanOOMBump
  <2>3. pod[n].cpuReq \in Positive /\ pod[n].memReq \in Positive
    BY <1>1, <2>2 DEF Resources, Positive, NotSet
  <2>4. b \in Positive
    <3>1. MemMax[n] \in Nat /\ pod[n].memReq \in Nat
      BY <2>2, <2>3, ResizingAssumption DEF MemMax, Bounds, Positive
    <3> QED
      BY <2>2, <3>1, BumpBetween
  <2>5. qos # "BestEffort"
    BY <1>1, <2>2 DEF QOSClass
  <2> HIDE DEF b
  <2> QED
    BY <1>1, <2>2, <2>3, <2>4, <2>5
<1>4. CASE DOMAIN BumpPlan(slip) = {}
  <2> DEFINE c == pod[n]
             want == targets[n]
             cpu == StepClamp(c.cpuReq, want.cpu, Policy)
             stepped == StepClamp(c.memReq, want.mem, Policy)
             mem == IF g /\ stepped < c.memReq THEN c.memReq ELSE stepped
  <2>1. PlanOf(targets, slip) = PlanPod(pod, qos, targets, Policy, slip)
    BY <1>4 DEF PlanOf
  <2>2. /\ n \in Containers /\ n \in DOMAIN targets /\ qos # "BestEffort"
        /\ PlanOf(targets, slip)[n] = PlanContainer(c, want, Policy, g, slip)
        /\ PlanContainer(c, want, Policy, g, slip) # c
    BY <1>1, <2>1 DEF PlanPod
  <2>3. c \in Resources /\ want \in Targets
    BY <1>1, <2>2 DEF IsRecs
  <2> HIDE DEF c, want, g
  <2>4. /\ c.cpuReq \in Positive /\ c.memReq \in Positive
        /\ want.cpu \in Positive /\ want.mem \in Positive
        /\ PlanContainer(c, want, Policy, g, slip) = PlanLimits(c, cpu, mem, Policy, g, slip)
    BY <2>2, <2>3 DEF PlanContainer, Resources, Targets, Positive, NotSet
  <2>5. cpu \in Positive /\ stepped \in Positive
    BY <1>2, <2>4, StepBetween
  <2> HIDE DEF cpu, stepped
  <2>6. mem \in Positive
    BY <2>4, <2>5
  <2> HIDE DEF mem
  <2>7. PlanOf(targets, slip)[n] = PlanLimits(c, cpu, mem, Policy, g, slip)
    BY <2>2, <2>4
  <2> QED
    BY <1>1, <2>2, <2>4, <2>5, <2>6, <2>7 DEF c, g
<1> QED
  BY <1>3, <1>4

\* The API server accepts every plan, and what it makes of the pod is settled.
LEMMA PlansAccepted ==
  ASSUME Inv, Settled, NEW targets, IsRecs(targets), NEW slip \in {0, 1},
         DOMAIN PlanOf(targets, slip) # {}
  PROVE  /\ Accepted(PlanOf(targets, slip))
         /\ qos = "Burstable" =>
              \E n \in Containers : Apart(Patched(pod, PlanOf(targets, slip))[n])
<1> DEFINE plan == PlanOf(targets, slip)
           new == Patched(pod, plan)
           g == (qos = "Guaranteed")
<1>1. /\ DOMAIN pod = Containers /\ qos = QOSClass(pod) /\ g \in BOOLEAN
      /\ Policy \in Policies
  BY ResizingAssumption DEF Inv, TypeOK, ClassOK
<1>2. \A n \in DOMAIN plan :
        /\ n \in Containers /\ qos # "BestEffort"
        /\ pod[n] \in Resources /\ RequestsUnder(pod[n])
        /\ pod[n].cpuReq \in Positive /\ pod[n].memReq \in Positive
        /\ \E cpu \in Positive, mem \in Positive :
             plan[n] = PlanLimits(pod[n], cpu, mem, Policy, g, slip)
  BY PlanOfForm
<1>3. ASSUME NEW n \in DOMAIN plan
      PROVE  /\ plan[n].cpuReq # NotSet /\ plan[n].memReq # NotSet
             /\ g => plan[n].cpuReq = plan[n].cpuLim /\ plan[n].memReq = plan[n].memLim
             /\ ~g /\ Apart(pod[n]) => Apart(plan[n])
  <2>1. PICK cpu \in Positive, mem \in Positive :
          plan[n] = PlanLimits(pod[n], cpu, mem, Policy, g, slip)
    BY <1>2
  <2>2. /\ n \in Containers /\ pod[n] \in Resources /\ RequestsUnder(pod[n])
        /\ pod[n].cpuReq \in Positive /\ pod[n].memReq \in Positive
    BY <1>2
  <2> HIDE DEF plan, g
  <2>3. /\ plan[n].cpuReq # NotSet /\ plan[n].memReq # NotSet
        /\ g => plan[n].cpuReq = plan[n].cpuLim /\ plan[n].memReq = plan[n].memLim
    BY <1>1, <2>1, <2>2, PlanLimitsShape
  <2>4. ASSUME ~g, Apart(pod[n]) PROVE Apart(plan[n])
    <3>1. g = FALSE
      BY <1>1, <2>4
    <3>2. Apart(PlanLimits(pod[n], cpu, mem, Policy, FALSE, slip))
      BY <2>2, <2>4, PlanKeepsApart
    <3> QED
      BY <2>1, <3>1, <3>2
  <2> QED
    BY <2>3, <2>4
<1> HIDE DEF plan
<1>4. /\ DOMAIN new = Containers
      /\ \A n \in Containers : new[n] = IF n \in DOMAIN plan THEN plan[n] ELSE pod[n]
  BY <1>1 DEF Patched
<1>5. PICK k \in DOMAIN plan : k \in Containers /\ qos # "BestEffort"
  BY <1>2 DEF plan
<1>6. new[k].cpuReq # NotSet
  BY <1>3, <1>4, <1>5
<1> HIDE DEF new
<1>7. CASE qos = "Guaranteed"
  <2>1. ASSUME NEW n \in Containers
        PROVE  /\ new[n].cpuReq # NotSet /\ new[n].cpuReq = new[n].cpuLim
               /\ new[n].memReq # NotSet /\ new[n].memReq = new[n].memLim
    <3>1. CASE n \in DOMAIN plan
      BY <1>3, <1>4, <1>7, <3>1
    <3>2. CASE n \notin DOMAIN plan
      <4>1. new[n] = pod[n]
        BY <1>4, <3>2
      <4> QED
        BY <1>1, <1>7, <4>1 DEF QOSClass
    <3> QED
      BY <3>1, <3>2
  <2>2. QOSClass(new) = "Guaranteed"
    BY <1>4, <1>5, <1>6, <2>1 DEF QOSClass
  <2> QED
    BY <1>7, <2>2 DEF Accepted, new, plan
<1>8. CASE qos = "Burstable"
  <2>1. PICK n \in Containers : Apart(pod[n])
    BY <1>1, <1>8 DEF Settled
  <2>2. Apart(new[n])
    BY <1>3, <1>4, <1>8, <2>1
  <2>3. ~(/\ new[n].cpuReq # NotSet /\ new[n].cpuReq = new[n].cpuLim
          /\ new[n].memReq # NotSet /\ new[n].memReq = new[n].memLim)
    <3>1. new[n] \in Resources
      <4>1. pod[n] \in Resources
        BY <2>1 DEF Inv, TypeOK
      <4>2. n \in DOMAIN plan => plan[n] \in Resources
        BY PlanOfFacts DEF plan, Sound
      <4> QED
        BY <1>4, <4>1, <4>2
    <3>2. new[n].memReq \in Nat /\ new[n].memLim \in Nat
      BY <3>1 DEF Resources
    <3> QED
      BY <2>2, <3>2 DEF Apart, Unfull
  <2>4. QOSClass(new) = "Burstable"
    BY <1>4, <1>5, <1>6, <2>1, <2>3 DEF QOSClass
  <2> QED
    BY <1>8, <2>2, <2>4 DEF Accepted, new, plan
<1> QED
  BY <1>1, <1>5, <1>7, <1>8 DEF QOSClass
\* What a pass recommends is at least the min, if what it keeps is.
LEMMA TargetsFloored ==
  ASSUME TypeOK, Floored(status), NEW obs \in Metrics, NEW hpa \in HPAs
  PROVE  /\ Floored(Recommended(obs))
         /\ Floored(Coordinated(Recommended(obs), obs, hpa))
<1> DEFINE recs == Recommended(obs)
           new == Coordinated(recs, obs, hpa)
<1>1. IsRecs(recs) /\ IsRecs(new) /\ DOMAIN new = DOMAIN recs
  BY RecommendedType, CoordinatedType
<1>2. Floored(recs)
  <2> DEFINE fresh == [n \in DOMAIN obs \ OffContainers |->
                         Recommend(obs[n].raw, CPUBounds[n], MemBounds[n])]
  <2>1. \A n \in DOMAIN obs \ OffContainers :
          InBounds(Recommend(obs[n].raw, CPUBounds[n], MemBounds[n]).mem, MemBounds[n])
    BY MetricsType, RecommendInBounds, ResizingAssumption
  <2>2. Floored(fresh)
    BY <2>1 DEF Floored, InBounds
  <2>3. recs = IF DOMAIN fresh = {} THEN status ELSE fresh
    BY DEF Recommended
  <2> QED
    BY <2>2, <2>3
<1>3. ASSUME NEW n \in DOMAIN recs PROVE MemBounds[n].min <= new[n].mem
  <2>1. n \in Containers /\ recs[n] \in Targets /\ MemBounds[n].min \in Nat
    BY <1>1, ResizingAssumption DEF IsRecs, Bounds
  <2>2. recs[n].mem \in Nat /\ MemBounds[n].min <= recs[n].mem
    BY <1>2, <2>1 DEF Floored, Targets
  <2>3. CASE hpa.present /\ n \in DOMAIN obs
    <3>1. new[n] = FloorTarget(recs[n], obs[n].usage, hpa)
      BY <1>1, <2>3, CoordinatedType
    <3>2. /\ hpa.cpu \in Nat /\ hpa.mem \in Nat /\ hpa.headroom \in Nat
          /\ obs[n].usage \in Targets
      BY <2>3, MetricsType, ResizingAssumption DEF HPASet
    <3>3. new[n] \in Targets /\ new[n].mem >= recs[n].mem
      BY <2>1, <3>1, <3>2, FloorTargetFacts
    <3>4. new[n].mem \in Nat
      BY <3>3 DEF Targets
    <3> QED
      BY <2>1, <2>2, <3>3, <3>4
  <2>4. CASE ~(hpa.present /\ n \in DOMAIN obs)
    <3>1. new[n] = recs[n]
      BY <2>4 DEF Coordinated
    <3> QED
      BY <2>2, <3>1
  <2> QED
    BY <2>3, <2>4
<1>4. Floored(new)
  BY <1>1, <1>3 DEF Floored
<1> QED
  BY <1>2, <1>4

\* applyTarget leaves an unset quantity unset, and the quantities of a full
\* container equal or unset.
LEMMA ApplyKeepsUnfull ==
  ASSUME NEW c \in Resources, NEW want \in Targets, NEW slip \in {0, 1},
         NEW r, r = ApplyTarget(c, want, slip)
  PROVE  /\ Unfull(c) => Unfull(r)
         /\ ~Unfull(c) /\ c.cpuReq = c.cpuLim /\ c.memReq = c.memLim =>
              r.cpuReq = r.cpuLim /\ r.memReq = r.memLim
BY DEF ApplyTarget, TargetLimit, Unfull, Resources, Targets, NotSet

\* A memory gap of the template that is kept survives an injected target.
LEMMA ApplyKeepsGap ==
  ASSUME NEW n \in Containers, GapKept(n), ~Unfull(Template[n]), NEW want \in Targets,
         MemBounds[n].min <= want.mem, NEW slip \in {0, 1}
  PROVE  Apart(ApplyTarget(Template[n], want, slip))
<1> DEFINE c == Template[n]
           lo == MemBounds[n].min
           gap == c.memLim - c.memReq
           ml == ScaleLimit(want.mem, c.memLim, c.memReq, slip)
<1>1. c \in Resources /\ lo \in Nat /\ want.mem \in Nat /\ lo <= want.mem
  BY ResizingAssumption DEF Bounds, Targets
<1>2. /\ ~Policy.requestsOnly /\ c.memReq < c.memLim /\ c.memReq < lo * gap
      /\ c.memReq # NotSet /\ c.memLim # NotSet
  BY DEF GapKept, Unfull
<1>3. c.memReq \in Nat /\ c.memLim \in Nat /\ c.memReq \in Positive
  BY <1>1, <1>2 DEF Resources, Positive, NotSet
<1> HIDE DEF c, lo
<1>4. gap \in Nat
  BY <1>2, <1>3
<1>5. c.memReq < want.mem * gap
  <2> HIDE DEF gap
  <2>1. lo * gap \in Nat /\ want.mem * gap \in Nat /\ lo * gap <= want.mem * gap
    BY <1>1, <1>4, ProductMonotonic
  <2> QED
    BY <1>2, <1>3, <2>1
<1>6. want.mem < ml
  BY <1>1, <1>2, <1>3, <1>5, ScaledLimitAbove
<1>7. /\ ApplyTarget(c, want, slip).memReq = want.mem
      /\ ApplyTarget(c, want, slip).memLim = ml
  BY <1>2, <1>3 DEF ApplyTarget, TargetLimit
<1> QED
  BY <1>2, <1>6, <1>7 DEF Apart, c

\* A pod that is Burstable and settled, or is not Burstable.
LEMMA SettledIf ==
  ASSUME NEW p, DOMAIN p = Containers,
         \/ \E n \in Containers : Apart(p[n])
         \/ \A n \in Containers : p[n].cpuReq = p[n].cpuLim /\ p[n].memReq = p[n].memLim
  PROVE  QOSClass(p) = "Burstable" => \E n \in Containers : Apart(p[n])
<1> SUFFICES ASSUME \A n \in Containers : ~Apart(p[n]) PROVE QOSClass(p) # "Burstable"
  OBVIOUS
<1>1. \A n \in Containers : /\ p[n].cpuReq = p[n].cpuLim /\ p[n].memReq = p[n].memLim
                            /\ p[n].cpuReq # NotSet /\ p[n].memReq # NotSet
  BY DEF Apart, Unfull
<1> QED
  BY <1>1 DEF QOSClass

\* Whatever is injected into a steady template, the new pod is settled.
LEMMA AdmissionSettled ==
  ASSUME Steady, TypeOK, Floored(status), NEW new,
         new = Template \/ \E slip \in {0, 1} : new = Injected(slip)
  PROVE  QOSClass(new) = "Burstable" => \E n \in Containers : Apart(new[n])
<1>1. Template \in [Containers -> Resources] /\ DOMAIN Template = Containers
  BY ResizingAssumption
<1>2. PICK slip \in {0, 1} :
        /\ DOMAIN new = Containers
        /\ \A n \in Containers :
             \/ new[n] = Template[n]
             \/ /\ n \in DOMAIN status
                /\ new[n] = ApplyTarget(Template[n], status[n], slip)
  BY <1>1 DEF Injected
<1>3. \A n \in Containers \cap DOMAIN status : status[n] \in Targets /\ MemBounds[n].min <= status[n].mem
  BY DEF TypeOK, IsRecs, Floored
<1>4. ASSUME NEW n \in Containers, Unfull(Template[n]) PROVE Apart(new[n])
  <2>1. CASE new[n] = Template[n]
    BY <1>4, <2>1 DEF Apart
  <2>2. CASE n \in DOMAIN status /\ new[n] = ApplyTarget(Template[n], status[n], slip)
    <3>1. Unfull(new[n])
      BY <1>1, <1>3, <1>4, <2>2, ApplyKeepsUnfull
    <3> QED
      BY <3>1 DEF Apart
  <2> QED
    BY <1>2, <2>1, <2>2
<1>5. CASE \E n \in Containers : Unfull(Template[n])
  BY <1>2, <1>4, <1>5, SettledIf
<1>6. ASSUME NEW n \in Containers, GapKept(n), ~Unfull(Template[n]) PROVE Apart(new[n])
  <2>1. CASE new[n] = Template[n]
    BY <1>6, <2>1 DEF Apart, GapKept
  <2>2. CASE n \in DOMAIN status /\ new[n] = ApplyTarget(Template[n], status[n], slip)
    BY <1>3, <1>6, <2>2, ApplyKeepsGap
  <2> QED
    BY <1>2, <2>1, <2>2
<1>7. CASE (\E n \in Containers : GapKept(n)) /\ \A n \in Containers : ~Unfull(Template[n])
  BY <1>2, <1>6, <1>7, SettledIf
<1>8. CASE QOSClass(Template) # "Burstable" /\ \A n \in Containers : ~Unfull(Template[n])
  <2>1. \A n \in Containers : /\ Template[n].cpuReq = Template[n].cpuLim
                              /\ Template[n].memReq = Template[n].memLim
    BY <1>1, <1>8 DEF QOSClass, Unfull
  <2>2. ASSUME NEW n \in Containers
        PROVE  new[n].cpuReq = new[n].cpuLim /\ new[n].memReq = new[n].memLim
    <3>1. CASE new[n] = Template[n]
      BY <2>1, <3>1
    <3>2. CASE n \in DOMAIN status /\ new[n] = ApplyTarget(Template[n], status[n], slip)
      BY <1>1, <1>3, <1>8, <2>1, <3>2, ApplyKeepsUnfull
    <3> QED
      BY <1>2, <3>1, <3>2
  <2> QED
    BY <1>2, <2>2, SettledIf
<1> QED
  BY <1>5, <1>7, <1>8 DEF Steady

\* Every step keeps the pod settled, the targets floored, and is not refused.
LEMMA ClassStep ==
  ASSUME Steady, Inv, ClassInv, [Next]_vars
  PROVE  ClassInv'
<1> USE DEF ClassInv
<1>1. ASSUME NEW obs \in Metrics, NEW hpa \in HPAs
      PROVE  /\ IsRecs(Coordinated(Recommended(obs), obs, hpa))
             /\ Floored(Recommended(obs))
             /\ Floored(Coordinated(Recommended(obs), obs, hpa))
  BY RecommendedType, CoordinatedType, TargetsFloored DEF Inv
<1>2. ASSUME UNCHANGED <<pod, refused>> PROVE NeverRefused' /\ Settled'
  BY <1>2 DEF NeverRefused, Settled
<1>3. ASSUME NEW obs \in Metrics, NEW hpa \in HPAs, NEW slip \in {0, 1},
             PassResize(obs, hpa, slip)
      PROVE  ClassInv'
  <2> DEFINE targets == Coordinated(Recommended(obs), obs, hpa)
             plan == PlanOf(targets, slip)
  <2>1. /\ IsRecs(targets) /\ Floored(targets) /\ Resize(targets, slip)
        /\ local' = targets /\ status' = status
    BY <1>1, <1>3 DEF PassResize
  <2> HIDE DEF targets
  <2>2. DOMAIN plan # {}
    BY <2>1 DEF Resize
  <2>3. /\ Accepted(plan)
        /\ qos = "Burstable" => \E n \in Containers : Apart(Patched(pod, plan)[n])
    BY <2>1, <2>2, PlansAccepted
  <2>4. pod' = Patched(pod, plan) /\ refused' = refused
    BY <2>1, <2>3 DEF Resize
  <2> HIDE DEF plan
  <2>5. NeverRefused'
    BY <2>4 DEF NeverRefused
  <2>6. Settled'
    BY <2>3, <2>4 DEF Settled, Accepted
  <2>7. Floored(status)' /\ Floored(local)'
    BY <2>1 DEF Floored
  <2> QED
    BY <2>5, <2>6, <2>7
<1>4. ASSUME NEW obs \in Metrics, NEW hpa \in HPAs,
             PassEvict(obs, hpa) \/ PassHold(obs, hpa) \/ PassPaused(obs, hpa)
      PROVE  ClassInv'
  <2>1. /\ local' \in {Recommended(obs), Coordinated(Recommended(obs), obs, hpa)}
        /\ status' = status /\ UNCHANGED <<pod, refused>>
    BY <1>4 DEF PassEvict, PassHold, PassPaused, Evict, podVars
  <2>2. Floored(status)' /\ Floored(local)'
    BY <1>1, <2>1 DEF Floored
  <2> QED
    BY <1>2, <2>1, <2>2
<1>5. CASE PatchStatus \/ PatchFailed
  <2>1. status' \in {status, local} /\ local' = NoRecs /\ UNCHANGED <<pod, refused>>
    BY <1>5 DEF PatchStatus, PatchFailed, podVars
  <2>2. Floored(status)' /\ Floored(local)'
    BY <2>1 DEF Floored, NoRecs
  <2> QED
    BY <1>2, <2>1, <2>2
<1>6. CASE AdmitUntouched \/ \E slip \in Slips : Admit(slip)
  <2>1. /\ pod' = Template \/ \E slip \in {0, 1} : pod' = Injected(slip)
        /\ status' = status /\ local' = local /\ refused' = refused
    BY <1>6 DEF Admit, AdmitUntouched, AdmitAs, Slips
  <2>2. QOSClass(pod') = "Burstable" => \E n \in Containers : Apart(pod'[n])
    BY <2>1, AdmissionSettled DEF Inv
  <2>3. Settled'
    BY <2>2 DEF Settled
  <2>4. NeverRefused' /\ Floored(status)' /\ Floored(local)'
    BY <2>1 DEF NeverRefused, Floored
  <2> QED
    BY <2>3, <2>4
<1>7. CASE Environment \/ UNCHANGED vars
  <2>1. UNCHANGED <<pod, refused, status, local>>
    BY <1>7 DEF Environment, PodDeleted, KubeletVerdict, CapacityFreed, OOMKill,
                OOMForgotten, vars
  <2>2. Floored(status)' /\ Floored(local)'
    BY <2>1 DEF Floored
  <2> QED
    BY <1>2, <2>1, <2>2
<1> QED
  BY <1>3, <1>4, <1>5, <1>6, <1>7 DEF Next, Pass, Slips

\* For every steady template, every policy and every sequence of targets, bumps
\* and admissions: no resize asks the API server to change the QoS class.
THEOREM ClassKept ==
  ASSUME Steady
  PROVE  Spec => []NeverRefused
<1>1. Init => ClassInv
  <2> SUFFICES ASSUME Init PROVE ClassInv
    OBVIOUS
  <2>1. Floored(status) /\ Floored(local)
    BY DEF Init, Floored, NoRecs
  <2>2. TypeOK
    BY InvInit DEF Inv
  <2>3. Settled
    <3>1. QOSClass(Template) = "Burstable" => \E n \in Containers : Apart(Template[n])
      BY <2>1, <2>2, AdmissionSettled
    <3> QED
      BY <3>1 DEF Init, Settled
  <2> QED
    BY <2>1, <2>3 DEF Init, ClassInv, NeverRefused
<1>2. Inv /\ ClassInv /\ [Next]_vars => ClassInv'
  BY ClassStep
<1>3. ClassInv => NeverRefused
  BY DEF ClassInv
<1> QED
  BY <1>1, <1>2, <1>3, Invariance, PTL DEF Spec
============================================================================
